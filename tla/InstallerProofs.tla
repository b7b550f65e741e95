-------------------------- MODULE InstallerProofs --------------------------
EXTENDS Installer, TLAPS

-----------------------------------------------------------------------------
(* The types of what the steps build.                                      *)

\* The final names of a kernel and an initrd are names of EFI/nixos.
LEMMA CaPathType ==
  ASSUME NEW b \in Blobs
  PROVE  /\ KernelPath(b) \in CaPath /\ InitrdPath(b) \in CaPath
         /\ KernelPath(b).hash = b /\ InitrdPath(b).hash = b
         /\ ~KernelPath(b).tmp /\ ~InitrdPath(b).tmp
BY DEF KernelPath, InitrdPath, CaPath

\* The temporary name of a kernel or initrd is never a final one.
LEMMA CaTmpType ==
  ASSUME NEW p \in CaPath
  PROVE  CaTmp(p) \in CaPath /\ CaTmp(p).tmp /\ p.hash \in Blobs
BY DEF CaTmp, CaPath

\* The temporary name of a stub is never a final one.
LEMMA StubTmpType ==
  ASSUME NEW p \in StubPath
  PROVE  StubTmp(p) \in StubPath /\ StubTmp(p).tmp
BY DEF StubTmp, StubPath

\* Generation::version_tag names a pcrlock file.
LEMMA TagType == ASSUME NEW e \in Entry PROVE TagOf(e) \in Tag
BY DEF TagOf, Entry, Tag

\* The parts of a generation, and that it is not None.
LEMMA EntryType ==
  ASSUME NEW e \in Entry
  PROVE  /\ Kernel[e.top] \in Blobs /\ Initrds[e.top] \subseteq Blobs
         /\ e # None
BY ConstantsAssumption, NoneAssumption DEF Entry

\* stub_name yields a final name of EFI/Linux for the current generation.
LEMMA StubTargetType ==
  ASSUME cfg \in Configs, current \in Entry
  PROVE  /\ StubTarget \in StubPath /\ ~StubTarget.tmp
         /\ StubTarget.entry = current /\ StubTarget.key = cfg.key
<1>1. cfg.key \in Keys /\ cfg.tries \in 0..MaxTries
  BY ConstantsAssumption
<1>2. (IF cfg.tries > 0 THEN <<cfg.tries>> ELSE <<>>) \in Suffix
  BY <1>1, ConstantsAssumption DEF Suffix
<1>. QED  BY <1>1, <1>2 DEF StubTarget, StubPath

\* What lanzaboote_image assembles is an image, and signed a stub.
LEMMA CurrentImageType ==
  ASSUME cfg \in Configs, current \in Entry, initrd \in Blobs
  PROVE  /\ CurrentImage \in Image
         /\ [image |-> CurrentImage, signer |-> cfg.key] \in SignedImage
         /\ CurrentImage.linux = Kernel[current.top] /\ CurrentImage.initrd = initrd
         /\ CurrentImage.entry = current
BY ConstantsAssumption, EntryType DEF CurrentImage, Image, SignedImage

\* The blobs a signed stub names.
LEMMA SignedImageParts ==
  ASSUME NEW x \in SignedImage
  PROVE  x.image \in Image /\ x.image.linux \in Blobs /\ x.image.initrd \in Blobs
BY DEF SignedImage, Image


\* The generations of a run (Generation::from_link) are entries.
LEMMA EntriesType ==
  ASSUME profile \in [Versions -> Toplevels \cup {None}], NEW v \in Links
  PROVE  EntriesOf(v) \subseteq Entry /\ EntriesOf(v) # {}
<1>1. v \in Versions /\ profile[v] \in Toplevels
  BY DEF Links
<1>2. Specialisations[profile[v]] \subseteq SpecNames \X Toplevels
  BY <1>1, ConstantsAssumption
<1>3. [version |-> v, spec |-> None, top |-> profile[v]] \in Entry
  BY <1>1 DEF Entry
<1>4. ASSUME NEW s \in Specialisations[profile[v]]
      PROVE  [version |-> v, spec |-> s[1], top |-> s[2]] \in Entry
  BY <1>1, <1>2, <1>4 DEF Entry
<1>. QED  BY <1>3, <1>4 DEF EntriesOf

-----------------------------------------------------------------------------
(* Part 1: types, contents and position, whatever runs beside lzbt.        *)

\* A kernel or initrd under its final name is the one the name promises.
CaNames == \A p \in CaPath : ~p.tmp => nixos[p] \in {None, p.hash}

\* A stub under its final name that can be read is one of its generation, and
\* signed with the key of its name.
StubNames ==
  \A p \in StubPath : ~p.tmp /\ linux[p] \in SignedImage =>
    linux[p].image.entry = p.entry /\ linux[p].signer = p.key

\* No stub under a final name is half-written.
StubsWhole == \A p \in StubPath : ~p.tmp => linux[p] # Partial

Core == TypeOK /\ CaNames /\ RunPosition

\* An ESP without files of lzbt satisfies every part of the invariant.
LEMMA InitType == Init => Core /\ StubNames /\ StubsWhole /\ RunInvariant
BY ConstantsAssumption, NoneAssumption
   DEF Init, Core, TypeOK, Steps, CaNames, StubNames, StubsWhole, RunInvariant, RunPosition,
       Installing

\* install_nixos_ca, first half, touches temporary names only.
LEMMA InstallCaStep ==
  ASSUME TypeOK, CaNames,
         NEW path \in CaPath, ~path.tmp, NEW copying, NEW after,
         InstallCa(path, copying, after)
  PROVE  /\ nixos' \in [CaPath -> Blobs \cup {None, Partial}]
         /\ \A p \in CaPath : ~p.tmp => nixos'[p] = nixos[p]
         /\ gc_roots' = gc_roots \cup {path}
         /\ (pc' = after /\ nixos[path] = path.hash) \/ pc' = copying
BY CaTmpType DEF InstallCa, TypeOK

\* Its rename gives one final name the contents it promises.
LEMMA RenameCaStep ==
  ASSUME TypeOK, NEW path \in CaPath, ~path.tmp, NEW after, RenameCa(path, after)
  PROVE  /\ nixos' \in [CaPath -> Blobs \cup {None, Partial}]
         /\ nixos'[path] = path.hash
         /\ \A p \in CaPath : ~p.tmp /\ p # path => nixos'[p] = nixos[p]
         /\ pc' = after
BY CaTmpType DEF RenameCa, TypeOK

\* Starting a run keeps the invariant.
LEMMA StartStep == Core /\ Start => Core'
<1> SUFFICES ASSUME Core, Start PROVE Core'
  OBVIOUS
<1>0. ReadableLinks \subseteq Links /\ ReadableLinks # {}
  BY DEF Start, ReadableLinks, LimitedLinks
<1>1. generations' \subseteq Entry /\ generations' # {}
  <2>1. \A v \in ReadableLinks : EntriesOf(v) \subseteq Entry /\ EntriesOf(v) # {}
    BY <1>0, EntriesType DEF Core, TypeOK
  <2>2. generations' = UNION {EntriesOf(v) : v \in ReadableLinks}
    BY DEF Start
  <2>. QED  BY <1>0, <2>1, <2>2
<1>2. broken_gens' \subseteq Versions
  BY DEF Start, LimitedLinks, Links
<1>3. TypeOK'
  BY <1>1, <1>2 DEF Core, TypeOK, Start, env, files, Steps
<1>4. CaNames'
  BY DEF Core, Start, CaNames, files
<1>5. RunPosition'
  BY <1>1 DEF Core, Start, RunPosition, Installing
<1>. QED  BY <1>3, <1>4, <1>5 DEF Core

\* What register_installed_generation makes roots are paths.
LEMMA StubRootsType ==
  ASSUME TypeOK, NEW p \in StubPath, Readable(p)
  PROVE  StubRoots(p) \subseteq StubPath \cup CaPath
BY SignedImageParts, CaPathType DEF Readable, StubRoots

\* So does a generation that counts as installed ...
LEMMA RegisteredStep ==
  ASSUME Core, NEW e \in todo, Registered(e) PROVE Core'
<1>1. e \in Entry
  BY DEF Core, TypeOK
<1>2. gc_roots' \subseteq StubPath \cup CaPath \cup Tag
  BY <1>1, StubRootsType, TagType DEF Core, TypeOK, Registered, Matching
<1>3. TypeOK'
  BY <1>2 DEF Core, TypeOK, Registered, env, files, Steps
<1>4. CaNames'
  BY DEF Core, Registered, CaNames, files
<1>5. RunPosition'
  BY DEF Core, Registered, RunPosition, Installing
<1>. QED  BY <1>3, <1>4, <1>5 DEF Core

\* ... and one that has to be installed again.
LEMMA NotRegisteredStep ==
  ASSUME Core, NEW e \in todo, NotRegistered(e) PROVE Core'
<1>1. e \in Entry
  BY DEF Core, TypeOK
<1>2. gc_roots' \subseteq StubPath \cup CaPath \cup Tag
  BY StubRootsType DEF Core, TypeOK, NotRegistered, Matching
<1>3. TypeOK'
  BY <1>1, <1>2 DEF Core, TypeOK, NotRegistered, env, files, Steps
<1>4. CaNames'
  BY DEF Core, NotRegistered, CaNames, files
<1>5. RunPosition'
  BY DEF Core, NotRegistered, RunPosition, Installing
<1>. QED  BY <1>3, <1>4, <1>5 DEF Core

\* While a generation is installed it is an entry and its kernel a blob.
LEMMA CurrentType ==
  ASSUME Core, pc \in Installing
  PROVE  /\ current \in Entry /\ Kernel[current.top] \in Blobs
         /\ Initrds[current.top] \subseteq Blobs
BY EntryType DEF Core, TypeOK, RunPosition

\* Copying the kernel keeps the invariant,
LEMMA InstallKernelStep == Core /\ InstallKernel => Core'
<1> SUFFICES ASSUME Core, InstallKernel PROVE Core'
  OBVIOUS
<1> DEFINE path == KernelPath(Kernel[current.top])
<1>1. pc = "kernel" /\ pc \in Installing
  BY DEF InstallKernel, Installing
<1>2. path \in CaPath /\ ~path.tmp /\ Kernel[current.top] \in Blobs
  BY <1>1, CurrentType, CaPathType
<1>3. InstallCa(path, "kernel_tmp", "initrd")
  BY DEF InstallKernel
<1> HIDE DEF path
<1>4. /\ nixos' \in [CaPath -> Blobs \cup {None, Partial}]
      /\ \A p \in CaPath : ~p.tmp => nixos'[p] = nixos[p]
      /\ gc_roots' = gc_roots \cup {path}
      /\ (pc' = "initrd" /\ nixos[path] = path.hash) \/ pc' = "kernel_tmp"
  BY <1>2, <1>3, InstallCaStep DEF Core
<1>5. TypeOK'
  BY <1>2, <1>4 DEF Core, TypeOK, InstallKernel, env, Steps
<1>6. CaNames'
  BY <1>4 DEF Core, InstallKernel, CaNames
<1>7. RunPosition'
  BY <1>1, <1>2, <1>4 DEF Core, InstallKernel, RunPosition, Installing, InPlace, path
<1>. QED  BY <1>5, <1>6, <1>7 DEF Core

\* renaming it to its final name,
LEMMA RenameKernelStep == Core /\ RenameKernel => Core'
<1> SUFFICES ASSUME Core, RenameKernel PROVE Core'
  OBVIOUS
<1> DEFINE path == KernelPath(Kernel[current.top])
<1>1. pc = "kernel_tmp" /\ pc \in Installing
  BY DEF RenameKernel, Installing
<1>2. path \in CaPath /\ ~path.tmp /\ path.hash \in Blobs
  BY <1>1, CurrentType, CaPathType
<1>3. RenameCa(path, "initrd")
  BY DEF RenameKernel
<1> HIDE DEF path
<1>4. /\ nixos' \in [CaPath -> Blobs \cup {None, Partial}]
      /\ nixos'[path] = path.hash
      /\ \A p \in CaPath : ~p.tmp /\ p # path => nixos'[p] = nixos[p]
      /\ pc' = "initrd"
  BY <1>2, <1>3, RenameCaStep DEF Core
<1>5. TypeOK'
  BY <1>4 DEF Core, TypeOK, RenameKernel, env, Steps
<1>6. CaNames'
  BY <1>4 DEF Core, RenameKernel, CaNames
<1>7. RunPosition'
  BY <1>1, <1>4 DEF Core, RenameKernel, RunPosition, Installing, InPlace, path
<1>. QED  BY <1>5, <1>6, <1>7 DEF Core

\* appending the secrets and copying the initrd,
LEMMA InstallInitrdStep == Core /\ InstallInitrd => Core'
<1> SUFFICES ASSUME Core, InstallInitrd PROVE Core'
  OBVIOUS
<1>1. pc = "initrd" /\ pc \in Installing
  BY DEF InstallInitrd, Installing
<1>2. PICK b \in Initrds[current.top] :
        initrd' = b /\ InstallCa(InitrdPath(b), "initrd_tmp", "pcrlock")
  BY DEF InstallInitrd
<1> DEFINE path == InitrdPath(b)
<1>3. b \in Blobs /\ path \in CaPath /\ ~path.tmp /\ path.hash = b
  BY <1>1, CurrentType, CaPathType
<1>4. /\ KernelPath(Kernel[current.top]) \in CaPath
      /\ ~KernelPath(Kernel[current.top]).tmp
  BY <1>1, CurrentType, CaPathType
<1> HIDE DEF path
<1>5. /\ nixos' \in [CaPath -> Blobs \cup {None, Partial}]
      /\ \A p \in CaPath : ~p.tmp => nixos'[p] = nixos[p]
      /\ gc_roots' = gc_roots \cup {path}
      /\ (pc' = "pcrlock" /\ nixos[path] = path.hash) \/ pc' = "initrd_tmp"
  BY <1>2, <1>3, InstallCaStep DEF Core, path
<1>6. TypeOK'
  BY <1>2, <1>3, <1>5 DEF Core, TypeOK, InstallInitrd, env, Steps
<1>7. CaNames'
  BY <1>5 DEF Core, InstallInitrd, CaNames
<1>8. RunPosition'
  BY <1>1, <1>2, <1>3, <1>4, <1>5
     DEF Core, InstallInitrd, RunPosition, Installing, InPlace, path
<1>. QED  BY <1>6, <1>7, <1>8 DEF Core

\* renaming that,
LEMMA RenameInitrdStep == Core /\ RenameInitrd => Core'
<1> SUFFICES ASSUME Core, RenameInitrd PROVE Core'
  OBVIOUS
<1> DEFINE path == InitrdPath(initrd)
<1>1. pc = "initrd_tmp" /\ pc \in Installing
  BY DEF RenameInitrd, Installing
<1>2. initrd \in Blobs /\ path \in CaPath /\ ~path.tmp /\ path.hash \in Blobs
  BY <1>1, CaPathType DEF Core, RunPosition
<1>3. RenameCa(path, "pcrlock")
  BY DEF RenameInitrd
<1>4. LET kp == KernelPath(Kernel[current.top])
      IN  kp \in CaPath /\ ~kp.tmp /\ kp # path
  BY <1>1, CurrentType, CaPathType DEF KernelPath, InitrdPath
<1> HIDE DEF path
<1>5. /\ nixos' \in [CaPath -> Blobs \cup {None, Partial}]
      /\ nixos'[path] = path.hash
      /\ \A p \in CaPath : ~p.tmp /\ p # path => nixos'[p] = nixos[p]
      /\ pc' = "pcrlock"
  BY <1>2, <1>3, RenameCaStep DEF Core
<1>6. TypeOK'
  BY <1>5 DEF Core, TypeOK, RenameInitrd, env, Steps
<1>7. CaNames'
  BY <1>5 DEF Core, RenameInitrd, CaNames
<1>8. RunPosition'
  BY <1>1, <1>2, <1>4, <1>5
     DEF Core, RenameInitrd, RunPosition, Installing, InPlace, path
<1>. QED  BY <1>6, <1>7, <1>8 DEF Core

\* locking the image with systemd-pcrlock,
LEMMA LockImageStep == Core /\ LockImage => Core'
<1> SUFFICES ASSUME Core, LockImage PROVE Core'
  OBVIOUS
<1>1. pc = "pcrlock" /\ pc \in Installing
  BY DEF LockImage, Installing
<1>2. TagOf(current) \in Tag /\ CurrentImage \in Image
  BY <1>1, CurrentType, TagType, CurrentImageType DEF Core, RunPosition, TypeOK
<1>3. TypeOK'
  BY <1>2 DEF Core, TypeOK, LockImage, env, Steps
<1>4. CaNames'
  BY DEF Core, LockImage, CaNames
<1>5. RunPosition'
  BY <1>1 DEF Core, LockImage, RunPosition, Installing, InPlace
<1>. QED  BY <1>3, <1>4, <1>5 DEF Core

\* signing the stub into a temporary file,
LEMMA SignStubStep == Core /\ SignStub => Core'
<1> SUFFICES ASSUME Core, SignStub PROVE Core'
  OBVIOUS
<1>1. pc = "stub" /\ pc \in Installing
  BY DEF SignStub, Installing
<1>2. /\ StubTarget \in StubPath /\ StubTmp(StubTarget) \in StubPath
      /\ StubTmp(StubTarget).tmp
  BY <1>1, CurrentType, StubTargetType, StubTmpType DEF Core, TypeOK
<1>3. TypeOK'
  BY <1>2 DEF Core, TypeOK, SignStub, env, Steps
<1>4. CaNames'
  BY <1>2 DEF Core, TypeOK, SignStub, CaNames
<1>5. StubTarget' = StubTarget
  BY DEF SignStub, StubTarget, env
<1>6. RunPosition'
  BY <1>1, <1>5 DEF Core, SignStub, RunPosition, Installing, InPlace
<1>. QED  BY <1>3, <1>4, <1>6 DEF Core

\* and renaming it to the name of the generation.
LEMMA RenameStubStep == Core /\ RenameStub => Core'
<1> SUFFICES ASSUME Core, RenameStub PROVE Core'
  OBVIOUS
<1>1. pc = "stub_tmp" /\ pc \in Installing
  BY DEF RenameStub, Installing
<1>2. current \in Entry /\ initrd \in Blobs /\ cfg \in Configs
  BY <1>1, CurrentType DEF Core, TypeOK, RunPosition
<1> DEFINE signed == [image |-> CurrentImage, signer |-> cfg.key]
<1>3. /\ signed \in SignedImage /\ signed.image.entry = current
      /\ signed.signer = cfg.key
  BY <1>2, CurrentImageType
<1>4. /\ StubTarget \in StubPath /\ StubTarget.entry = current
      /\ StubTarget.key = cfg.key /\ ~StubTarget.tmp
      /\ StubTmp(StubTarget) \in StubPath /\ StubTmp(StubTarget).tmp
  BY <1>2, StubTargetType, StubTmpType
<1>5. linux' = [linux EXCEPT ![StubTarget] = signed, ![StubTmp(StubTarget)] = None]
  BY DEF RenameStub
<1> HIDE DEF signed
<1>6. TypeOK'
  BY <1>3, <1>4, <1>5 DEF Core, TypeOK, RenameStub, env, Steps
<1>7. CaNames'
  BY <1>3, <1>4, <1>5 DEF Core, TypeOK, RenameStub, CaNames
<1>8. RunPosition'
  BY <1>1 DEF Core, RenameStub, RunPosition, Installing
<1>. QED  BY <1>6, <1>7, <1>8 DEF Core

\* The steps after the loop that touch no file of the model keep it.
LEMMA PassingStep ==
  Core /\ (InstalledAll \/ SyncFs \/ BootLoaderInstalled) => Core'
<1> SUFFICES ASSUME Core, InstalledAll \/ SyncFs \/ BootLoaderInstalled PROVE Core'
  OBVIOUS
<1> USE DEF InstalledAll, SyncFs, BootLoaderInstalled
<1>1. TypeOK'
  BY DEF Core, TypeOK, env, files, Steps
<1>2. CaNames'
  BY DEF Core, CaNames, files
<1>3. RunPosition'
  BY DEF Core, RunPosition, Installing
<1>. QED  BY <1>1, <1>2, <1>3 DEF Core

\* Garbage collection only takes files away, which keeps it.
LEMMA CollectCoreStep == Core /\ CollectStep => Core'
<1> SUFFICES ASSUME Core, CollectStep PROVE Core'
  OBVIOUS
<1> USE DEF CollectStep, CollectNixos, CollectLinux, CollectPcrlock, Garbage
<1>1. TypeOK'
  BY DEF Core, TypeOK, env, Steps
<1>2. CaNames'
  BY DEF Core, TypeOK, CaNames
<1>3. RunPosition'
  BY DEF Core, RunPosition, Installing
<1>. QED  BY <1>1, <1>2, <1>3 DEF Core

\* The end of a run, in whatever way, keeps it: nothing is in memory.
LEMMA ExitStep == Core /\ (Finish \/ Abort) => Core'
<1> SUFFICES ASSUME Core, Finish \/ Abort PROVE Core'
  OBVIOUS
<1> USE DEF Finish, Abort, Exit, Event
<1>1. TypeOK'
  BY ConstantsAssumption DEF Core, TypeOK, files, Steps
<1>2. CaNames'
  BY DEF Core, CaNames, files
<1>3. RunPosition'
  BY DEF Core, RunPosition, Installing
<1>. QED  BY <1>1, <1>2, <1>3 DEF Core

\* A renamed stub keeps its contents and the part of its name they depend on.
LEMMA MoveStubStep ==
  ASSUME TypeOK, NEW p \in StubPath, NEW suffix \in Suffix, MoveStub(p, suffix)
  PROVE  /\ linux' \in [StubPath -> SignedImage \cup {None, Partial}]
         /\ StubNames => StubNames'
         /\ StubsWhole => StubsWhole'
<1> DEFINE q == [entry |-> p.entry, key |-> p.key, suffix |-> suffix, tmp |-> FALSE]
<1>1. q \in StubPath /\ q.entry = p.entry /\ q.key = p.key /\ ~q.tmp
  BY DEF StubPath
<1>2. /\ linux' = [linux EXCEPT ![q] = linux[p], ![p] = None]
      /\ ~p.tmp /\ linux[p] # None
  BY DEF MoveStub
<1> HIDE DEF q
<1>3. linux' \in [StubPath -> SignedImage \cup {None, Partial}]
  BY <1>1, <1>2 DEF TypeOK
<1>4. \A x \in StubPath : linux'[x] \in {None, linux[x]} \/ (x = q /\ linux'[x] = linux[p])
  BY <1>1, <1>2 DEF TypeOK
<1>. QED  BY <1>1, <1>2, <1>3, <1>4, NoneAssumption DEF StubNames, StubsWhole

\* systemd-boot and systemd-bless-boot rename one stub and touch nothing else.
LEMMA MoveStubEvents ==
  ASSUME BootTry \/ Bless
  PROVE  \E p \in StubPath : \E suffix \in Suffix : MoveStub(p, suffix)
<1>1. CASE Bless
  <2>1. <<>> \in Suffix
    BY DEF Suffix
  <2>. QED  BY <1>1, <2>1 DEF Bless
<1>2. CASE BootTry
  <2>1. PICK p \in StubPath, l \in 1..MaxTries :
          \/ p.suffix = <<l>> /\ MoveStub(p, <<l - 1, 1>>)
          \/ \E d \in 1..(MaxTries - l) :
               p.suffix = <<l, d>> /\ MoveStub(p, <<l - 1, d + 1>>)
    BY <1>2 DEF BootTry
  <2>2. <<l - 1, 1>> \in Suffix
    BY ConstantsAssumption DEF Suffix
  <2>3. \A d \in 1..(MaxTries - l) : <<l - 1, d + 1>> \in Suffix
    BY ConstantsAssumption DEF Suffix
  <2>. QED  BY <2>1, <2>2, <2>3
<1>. QED  BY <1>1, <1>2

\* What users, systemd-boot and systemd-bless-boot do keeps it.
LEMMA EnvironmentStep == Core /\ Environment => Core'
<1> SUFFICES ASSUME Core, Environment PROVE Core'
  OBVIOUS
<1> USE DEF Core, Event
<1>1. CASE NewGeneration
  BY <1>1, ConstantsAssumption
     DEF NewGeneration, Links, TypeOK, CaNames, RunPosition, Installing, files, run
<1>2. CASE DeleteGeneration
  BY <1>2, ConstantsAssumption
     DEF DeleteGeneration, Links, TypeOK, CaNames, RunPosition, Installing, files, run
<1>3. CASE Reconfigure
  BY <1>3, ConstantsAssumption
     DEF Reconfigure, TypeOK, CaNames, RunPosition, Installing, files, run
<1>4. CASE DeleteCaFile
  BY <1>4, ConstantsAssumption
     DEF DeleteCaFile, TypeOK, CaNames, RunPosition, Installing, run
<1>5. CASE BootTry \/ Bless
  <2>1. PICK p \in StubPath, suffix \in Suffix : MoveStub(p, suffix)
    BY <1>5, MoveStubEvents
  <2>2. nixos' = nixos
    BY <1>5 DEF BootTry, Bless
  <2>3. /\ linux' \in [StubPath -> SignedImage \cup {None, Partial}]
        /\ CaNames'
    BY <2>1, <2>2, MoveStubStep DEF CaNames
  <2>4. TypeOK'
    <3>1. /\ UNCHANGED <<profile, cfg, nixos, pcrlock, run>>
          /\ events < MaxEvents /\ events' = events + 1
      BY <1>5 DEF BootTry, Bless
    <3>. QED  BY <2>3, <3>1, ConstantsAssumption DEF TypeOK, run
  <2>5. RunPosition'
    <3>1. UNCHANGED <<cfg, nixos, pc, generations, todo, current, initrd, gc_roots>>
      BY <1>5 DEF BootTry, Bless, run
    <3>. QED  BY <3>1 DEF RunPosition, InPlace, StubTarget
  <2>. QED  BY <2>3, <2>4, <2>5
<1>. QED  BY <1>1, <1>2, <1>3, <1>4, <1>5 DEF Environment

\* Every step keeps the invariant of part 1.
LEMMA CoreStep == Core /\ [Next]_vars => Core'
<1> SUFFICES ASSUME Core, [Next]_vars PROVE Core'
  OBVIOUS
<1>1. CASE UNCHANGED vars
  BY <1>1 DEF Core, TypeOK, CaNames, RunPosition, InPlace, StubTarget, vars
<1>2. CASE InstallStep
  BY <1>2, RegisteredStep, NotRegisteredStep, InstallKernelStep, RenameKernelStep,
     InstallInitrdStep, RenameInitrdStep, LockImageStep, SignStubStep,
     RenameStubStep, PassingStep DEF InstallStep
<1>. QED  BY <1>1, <1>2, StartStep, CollectCoreStep, ExitStep, EnvironmentStep DEF Next, GiveUp

\* Stubs under final names are whole, of their generation and signed with the
\* key of their name, however stubs are renamed.
LEMMA StubNamesStep ==
  ASSUME Core, [Next]_vars
  PROVE  (StubNames => StubNames') /\ (StubsWhole => StubsWhole')
<1>0. linux \in [StubPath -> SignedImage \cup {None, Partial}]
  BY DEF Core, TypeOK
<1>1. CASE SignStub
  <2>1. StubTmp(StubTarget) \in StubPath /\ StubTmp(StubTarget).tmp
    BY <1>1, CurrentType, StubTargetType, StubTmpType DEF SignStub, Installing, Core, TypeOK
  <2>2. \A p \in StubPath : ~p.tmp => linux'[p] = linux[p]
    BY <1>0, <1>1, <2>1 DEF SignStub
  <2>. QED  BY <2>2 DEF StubNames, StubsWhole
<1>2. CASE RenameStub
  <2>1. current \in Entry /\ initrd \in Blobs /\ cfg \in Configs
    BY <1>2, CurrentType DEF RenameStub, Installing, Core, TypeOK, RunPosition
  <2>2. PICK x \in SignedImage : x = [image |-> CurrentImage, signer |-> cfg.key]
    BY <2>1, CurrentImageType
  <2>3. x.image.entry = current /\ x.signer = cfg.key /\ x # Partial
    BY <2>1, <2>2, CurrentImageType, NoneAssumption
  <2>4. /\ StubTarget \in StubPath /\ StubTarget.entry = current /\ StubTarget.key = cfg.key
        /\ StubTmp(StubTarget) \in StubPath /\ StubTmp(StubTarget).tmp /\ ~StubTarget.tmp
    BY <2>1, StubTargetType, StubTmpType
  <2>5. /\ linux'[StubTarget] = x
        /\ \A p \in StubPath : ~p.tmp /\ p # StubTarget => linux'[p] = linux[p]
    BY <1>0, <1>2, <2>2, <2>4 DEF RenameStub
  <2>. QED  BY <2>3, <2>4, <2>5 DEF StubNames, StubsWhole
<1>3. CASE CollectLinux
  <2>1. \A p \in StubPath : linux'[p] \in {None, linux[p]}
    BY <1>0, <1>3 DEF CollectLinux, Garbage
  <2>. QED  BY <2>1, NoneAssumption DEF StubNames, StubsWhole
<1>4. CASE BootTry \/ Bless
  BY <1>4, MoveStubEvents, MoveStubStep DEF Core
<1>5. CASE ~(SignStub \/ RenameStub \/ CollectLinux \/ BootTry \/ Bless)
  <2>1. linux' = linux
    BY <1>5 DEF Next, Start, GiveUp, InstallStep, Registered, NotRegistered,
       InstallKernel, RenameKernel, InstallInitrd, RenameInitrd, LockImage, InstalledAll,
       SyncFs, BootLoaderInstalled, CollectStep, CollectNixos, CollectPcrlock, Finish, Abort,
       Exit, Environment, NewGeneration, DeleteGeneration, Reconfigure, DeleteCaFile, files,
       vars
  <2>. QED  BY <2>1 DEF StubNames, StubsWhole
<1>. QED  BY <1>1, <1>2, <1>3, <1>4, <1>5

\* Types, intact files and the position of a run hold at all times.
THEOREM Invariance == Spec => [](Core /\ StubNames /\ StubsWhole)
BY InitType, CoreStep, StubNamesStep, PTL DEF Spec

\* Every variable keeps its type (install.rs, all steps of a run).
THEOREM TypeCorrect == Spec => []TypeOK
BY Invariance, PTL DEF Core

\* No file under a final name ever has other contents than its name promises,
\* however runs are cut short and even when systemd-bless-boot renames stubs
\* while lzbt runs (atomic_copy, install_signed).
THEOREM NamesPromiseContentsHolds == Spec => []NamesPromiseContents
<1>1. Core /\ StubNames /\ StubsWhole => NamesPromiseContents
  BY DEF Core, TypeOK, CaNames, StubNames, StubsWhole, NamesPromiseContents
<1>. QED  BY <1>1, Invariance, PTL

-----------------------------------------------------------------------------
(* Part 2: what the loop has passed stays bootable and rooted, provided     *)
(* nobody renames stubs while lzbt runs.                                    *)

\* Readable stubs boot: what exists under a content-addressed name is right.
LEMMA ReadableBoots ==
  ASSUME Core, NEW p \in StubPath, ~p.tmp, Readable(p)
  PROVE  Boots(p)
<1>1. linux[p] \in SignedImage
  BY DEF Readable
<1> DEFINE kp == KernelPath(linux[p].image.linux)
           ip == InitrdPath(linux[p].image.initrd)
<1>2. /\ kp \in CaPath /\ ~kp.tmp /\ kp.hash = linux[p].image.linux
      /\ ip \in CaPath /\ ~ip.tmp /\ ip.hash = linux[p].image.initrd
  BY <1>1, SignedImageParts, CaPathType
<1>3. nixos[kp] # None /\ nixos[ip] # None
  BY DEF Readable
<1> HIDE DEF kp, ip
<1>4. nixos[kp] = kp.hash /\ nixos[ip] = ip.hash
  BY <1>2, <1>3 DEF Core, CaNames
<1>. QED  BY <1>1, <1>2, <1>4 DEF Boots, kp, ip

\* A stub that is not changed still boots when no file of EFI/nixos that it
\* names is lost.
LEMMA BootsStable ==
  ASSUME NEW p \in StubPath, Boots(p), linux'[p] = linux[p],
         \A b \in Blobs : /\ nixos[KernelPath(b)] = b /\ KernelPath(b) \in StubRoots(p)
                             => nixos'[KernelPath(b)] = b
                          /\ nixos[InitrdPath(b)] = b /\ InitrdPath(b) \in StubRoots(p)
                             => nixos'[InitrdPath(b)] = b
  PROVE  Boots(p)' /\ StubRoots(p)' = StubRoots(p)
BY SignedImageParts DEF Boots, StubRoots

\* A step that leaves the run's roots and key alone and changes no rooted stub
\* and no rooted, intact file of EFI/nixos preserves Kept.
LEMMA KeptStable ==
  ASSUME NEW e, Kept(e), cfg' = cfg, gc_roots \subseteq gc_roots',
         \A p \in StubPath : p \in gc_roots /\ p.entry = e /\ ~p.tmp => linux'[p] = linux[p],
         \A p \in CaPath : p \in gc_roots /\ ~p.tmp /\ nixos[p] = p.hash => nixos'[p] = p.hash
  PROVE  Kept(e)'
<1>1. PICK p \in StubPath : /\ p.entry = e /\ p.key = cfg.key /\ Boots(p)
                            /\ StubRoots(p) \subseteq gc_roots
  BY DEF Kept
<1>2. linux'[p] = linux[p]
  BY <1>1 DEF StubRoots, Boots
<1>3. Boots(p)' /\ StubRoots(p)' = StubRoots(p)
  BY <1>1, <1>2, BootsStable, CaPathType
<1>. QED  BY <1>1, <1>3 DEF Kept

\* No install step damages an intact file of EFI/nixos.
LEMMA FilesSurvive ==
  ASSUME Core, InstallStep
  PROVE  \A p \in CaPath : ~p.tmp /\ nixos[p] = p.hash => nixos'[p] = p.hash
<1>1. CASE InstallKernel
  <2>1. pc \in Installing
    BY <1>1 DEF InstallKernel, Installing
  <2>. QED  BY <1>1, <2>1, CurrentType, CaPathType, InstallCaStep DEF InstallKernel, Core
<1>2. CASE RenameKernel
  <2>1. pc \in Installing
    BY <1>2 DEF RenameKernel, Installing
  <2>. QED  BY <1>2, <2>1, CurrentType, CaPathType, RenameCaStep DEF RenameKernel, Core
<1>3. CASE InstallInitrd
  <2>1. pc \in Installing
    BY <1>3 DEF InstallInitrd, Installing
  <2>. QED  BY <1>3, <2>1, CurrentType, CaPathType, InstallCaStep DEF InstallInitrd, Core
<1>4. CASE RenameInitrd
  <2>1. initrd \in Blobs
    BY <1>4 DEF RenameInitrd, Core, RunPosition
  <2>. QED  BY <1>4, <2>1, CaPathType, RenameCaStep DEF RenameInitrd, Core
<1>5. CASE ~(InstallKernel \/ RenameKernel \/ InstallInitrd \/ RenameInitrd)
  BY <1>5 DEF InstallStep, Registered, NotRegistered, LockImage, SignStub,
              RenameStub, InstalledAll, SyncFs, BootLoaderInstalled, files
<1>. QED  BY <1>1, <1>2, <1>3, <1>4, <1>5

\* The steps between two generations' ends: none of them touches a stub under a
\* final name, or damages a file of EFI/nixos.
LEMMA KeptThroughStep ==
  ASSUME Core, NEW e \in Entry, Kept(e),
         \/ InstallKernel \/ RenameKernel \/ InstallInitrd \/ RenameInitrd
         \/ LockImage \/ SignStub \/ InstalledAll \/ SyncFs \/ BootLoaderInstalled
  PROVE  Kept(e)'
<1>1. cfg' = cfg /\ gc_roots \subseteq gc_roots'
  BY DEF InstallKernel, RenameKernel, InstallInitrd, RenameInitrd, LockImage,
         SignStub, InstalledAll, SyncFs, BootLoaderInstalled, InstallCa, env
<1>2. \A p \in StubPath : ~p.tmp => linux'[p] = linux[p]
  <2>1. CASE SignStub
    <3>1. pc \in Installing
      BY <2>1 DEF SignStub, Installing
    <3>2. StubTmp(StubTarget) \in StubPath /\ StubTmp(StubTarget).tmp
      BY <3>1, CurrentType, StubTargetType, StubTmpType DEF Core, TypeOK
    <3>. QED  BY <2>1, <3>2 DEF SignStub, Core, TypeOK
  <2>2. CASE ~SignStub
    BY <2>2 DEF InstallKernel, RenameKernel, InstallInitrd, RenameInitrd, LockImage,
                InstalledAll, SyncFs, BootLoaderInstalled, files
  <2>. QED  BY <2>1, <2>2
<1>3. \A p \in CaPath : ~p.tmp /\ nixos[p] = p.hash => nixos'[p] = p.hash
  BY FilesSurvive DEF InstallStep
<1>. QED  BY <1>1, <1>2, <1>3, KeptStable

\* The stub that RenameStub puts in place boots and is rooted with its files.
LEMMA RenameStubKeeps ==
  ASSUME Core, RenameStub, NEW e \in Entry, e = current \/ Kept(e)
  PROVE  Kept(e)'
<1>1. pc = "stub_tmp" /\ pc \in Installing
  BY DEF RenameStub, Installing
<1>2. current \in Entry /\ initrd \in Blobs /\ cfg \in Configs /\ Kernel[current.top] \in Blobs
  BY <1>1, CurrentType DEF Core, TypeOK, RunPosition
<1> DEFINE signed == [image |-> CurrentImage, signer |-> cfg.key]
<1>3. /\ signed \in SignedImage /\ signed.image.linux = Kernel[current.top]
      /\ signed.image.initrd = initrd
  BY <1>2, CurrentImageType
<1>4. /\ StubTarget \in StubPath /\ StubTarget.entry = current
      /\ StubTarget.key = cfg.key /\ ~StubTarget.tmp
      /\ StubTmp(StubTarget) \in StubPath /\ StubTmp(StubTarget).tmp
  BY <1>2, StubTargetType, StubTmpType
<1> HIDE DEF signed
<1>5. /\ linux'[StubTarget] = signed
      /\ \A p \in StubPath : ~p.tmp /\ p # StubTarget => linux'[p] = linux[p]
      /\ nixos' = nixos /\ cfg' = cfg /\ gc_roots' = gc_roots
  BY <1>4 DEF RenameStub, Core, TypeOK, env, signed
<1>6. /\ StubTarget \in gc_roots
      /\ InPlace(KernelPath(Kernel[current.top])) /\ InPlace(InitrdPath(initrd))
  BY <1>1 DEF Core, RunPosition
<1>7. LET kp == KernelPath(Kernel[current.top])
          ip == InitrdPath(initrd)
      IN  /\ nixos[kp] = Kernel[current.top] /\ kp \in gc_roots
          /\ nixos[ip] = initrd /\ ip \in gc_roots
  BY <1>2, <1>6, CaPathType DEF InPlace
<1>8. CASE e = current
  <2>1. PICK t \in StubPath : t = StubTarget
    BY <1>4
  <2>2. PICK x \in SignedImage : x = signed
    BY <1>3
  <2>3. linux'[t] = x /\ ~t.tmp /\ t.entry = e /\ t.key = cfg'.key
    BY <1>4, <1>5, <1>8, <2>1, <2>2
  <2>4. /\ nixos'[KernelPath(x.image.linux)] = x.image.linux
        /\ nixos'[InitrdPath(x.image.initrd)] = x.image.initrd
    BY <1>3, <1>5, <1>7, <2>2
  <2>5. {t, KernelPath(x.image.linux), InitrdPath(x.image.initrd)} \subseteq gc_roots'
    BY <1>3, <1>5, <1>6, <1>7, <2>1, <2>2
  <2>. QED  BY <2>3, <2>4, <2>5 DEF Kept, Boots, StubRoots
<1>9. CASE e # current
  BY <1>4, <1>5, <1>9, KeptStable
<1>. QED  BY <1>8, <1>9

\* Garbage collection touches nothing that a kept generation boots from.
LEMMA CollectKeeps ==
  ASSUME Core, CollectStep, NEW e \in Entry, Kept(e)
  PROVE  Kept(e)'
<1>1. cfg' = cfg /\ gc_roots' = gc_roots
  BY DEF CollectStep, CollectNixos, CollectLinux, CollectPcrlock, env
<1>2. \A p \in StubPath : p \in gc_roots => linux'[p] = linux[p]
  BY DEF CollectStep, CollectNixos, CollectLinux, CollectPcrlock, Garbage, Core, TypeOK
<1>3. \A p \in CaPath : p \in gc_roots => nixos'[p] = nixos[p]
  BY DEF CollectStep, CollectNixos, CollectLinux, CollectPcrlock, Garbage, Core, TypeOK
<1>. QED  BY <1>1, <1>2, <1>3, KeptStable

Passed == \A e \in generations : e \in todo \/ e = current \/ Kept(e)

\* What the loop has passed stays kept until the run is over.
LEMMA RunKeepsPassed ==
  ASSUME Core, Passed, Start \/ InstallStep \/ CollectStep \/ Finish \/ Abort
  PROVE  Passed'
<1> USE DEF Passed
<1>0. \A e \in generations : e \in Entry /\ e # None
  BY NoneAssumption DEF Core, TypeOK
<1>2. CASE Start
  BY <1>2 DEF Start
<1>3. ASSUME NEW f \in todo, Registered(f) PROVE Passed'
  <2>1. PICK p \in Matching(f) :
          Readable(p) /\ gc_roots \cup StubRoots(p) \subseteq gc_roots'
    BY <1>3 DEF Registered
  <2>2. /\ p \in StubPath /\ p.entry = f /\ p.key = cfg.key /\ ~p.tmp
    BY DEF Matching
  <2>3. Boots(p)
    BY <2>1, <2>2, ReadableBoots
  <2>4. /\ UNCHANGED <<cfg, linux, nixos, generations, current>>
        /\ todo' = todo \ {f}
    BY <1>3 DEF Registered, env, files
  <2>5. Kept(f)'
    BY <2>1, <2>2, <2>3, <2>4 DEF Kept, Boots, StubRoots
  <2>6. \A e \in Entry : Kept(e) => Kept(e)'
    BY <2>1, <2>4, KeptStable
  <2>. QED  BY <1>0, <2>4, <2>5, <2>6
<1>4. ASSUME NEW f \in todo, NotRegistered(f) PROVE Passed'
  <2>1. /\ UNCHANGED <<cfg, linux, nixos, generations>>
        /\ todo' = todo \ {f} /\ current' = f /\ gc_roots \subseteq gc_roots'
    BY <1>4 DEF NotRegistered, env, files
  <2>2. current = None
    BY <1>4 DEF NotRegistered, Core, RunPosition, Installing
  <2>3. \A e \in Entry : Kept(e) => Kept(e)'
    BY <2>1, KeptStable
  <2>. QED  BY <1>0, <2>1, <2>2, <2>3
<1>5. CASE \/ InstallKernel \/ RenameKernel \/ InstallInitrd \/ RenameInitrd
           \/ LockImage \/ SignStub \/ InstalledAll \/ SyncFs \/ BootLoaderInstalled
  <2>1. UNCHANGED <<generations, todo, current>>
    BY <1>5 DEF InstallKernel, RenameKernel, InstallInitrd, RenameInitrd, LockImage,
                SignStub, InstalledAll, SyncFs, BootLoaderInstalled
  <2>2. \A e \in Entry : Kept(e) => Kept(e)'
    BY <1>5, KeptThroughStep
  <2>. QED  BY <1>0, <2>1, <2>2
<1>6. CASE RenameStub
  <2>1. UNCHANGED <<generations, todo>>
    BY <1>6 DEF RenameStub
  <2>2. \A e \in Entry : e = current \/ Kept(e) => Kept(e)'
    BY <1>6, RenameStubKeeps
  <2>. QED  BY <1>0, <2>1, <2>2
<1>7. CASE CollectStep
  <2>1. UNCHANGED <<generations, todo, current>>
    BY <1>7 DEF CollectStep, CollectNixos, CollectLinux, CollectPcrlock
  <2>2. \A e \in Entry : Kept(e) => Kept(e)'
    BY <1>7, CollectKeeps
  <2>. QED  BY <1>0, <2>1, <2>2
<1>8. CASE Finish \/ Abort
  BY <1>8 DEF Finish, Abort, Exit
<1>. QED  BY <1>2, <1>3, <1>4, <1>5, <1>6, <1>7, <1>8 DEF InstallStep

\* So does every step of the system while nobody renames stubs beside lzbt.
LEMMA PassedStep ==
  ASSUME ~ConcurrentBless, Core, Passed, [Next]_vars
  PROVE  Passed'
<1>1. CASE UNCHANGED vars \/ GiveUp
  BY <1>1 DEF GiveUp, vars, Passed, Kept, Boots, StubRoots
<1>2. CASE Environment
  <2>1. pc = "idle" /\ generations' = generations
    BY <1>2 DEF Environment, NewGeneration, DeleteGeneration, Reconfigure,
                DeleteCaFile, BootTry, Bless, run
  <2>2. generations = {}
    BY <2>1 DEF Core, RunPosition
  <2>. QED  BY <2>1, <2>2 DEF Passed
<1>. QED  BY <1>1, <1>2, RunKeepsPassed DEF Next

\* The inductive invariant of a run (see RunInvariant) holds when
\* systemd-bless-boot does not run beside lzbt.
THEOREM RunInvariantHolds ==
  ASSUME ~ConcurrentBless PROVE Spec => [](Core /\ RunInvariant)
<1>1. Init => Core /\ Passed
  BY InitType DEF Core, RunInvariant, Passed
<1>2. Core /\ Passed /\ [Next]_vars => (Core /\ Passed)'
  BY CoreStep, PassedStep
<1>3. Core /\ Passed => Core /\ RunInvariant
  BY DEF Core, Passed, RunInvariant
<1>. QED  BY <1>1, <1>2, <1>3, PTL DEF Spec

\* A kept generation boots from a stub that the configured key signed.
LEMMA KeptInstalled ==
  ASSUME StubNames, NEW e, Kept(e) PROVE Installed(e)
BY DEF Kept, Installed, StubNames, Boots

\* After the loop all generations of the run are kept.
LEMMA AllKept ==
  ASSUME Core, RunInvariant, pc \notin Installing \cup {"generation"}, NEW e \in generations
  PROVE  Kept(e)
BY NoneAssumption DEF Core, TypeOK, RunInvariant, RunPosition

\* From the end of its loop on, every generation the run is about boots with
\* the configured key, for any number of generations and specialisations, from
\* whatever earlier interrupted runs left on the ESP.
THEOREM InstalledAfterLoopHolds ==
  ASSUME ~ConcurrentBless PROVE Spec => []InstalledAfterLoop
<1>1. Core /\ StubNames /\ RunInvariant => InstalledAfterLoop
  BY AllKept, KeptInstalled DEF InstalledAfterLoop, Installing
<1>. QED  BY <1>1, Invariance, RunInvariantHolds, PTL

-----------------------------------------------------------------------------
(* Part 3: the installer implements EspContract.                           *)

Target == generations \X {cfg.key}

\* A stub that boots is on the menu.
LEMMA MenuMember ==
  ASSUME NEW p \in StubPath, Boots(p) PROVE <<p.entry, p.key>> \in Menu
BY DEF Menu

\* A kept generation is on the menu.
LEMMA KeptOnMenu ==
  ASSUME NEW e, Kept(e) PROVE <<e, cfg.key>> \in Menu
BY MenuMember DEF Kept

\* After the loop everything the run is about is on the menu.
LEMMA TargetOnMenu ==
  ASSUME Core, RunInvariant, pc \notin Installing \cup {"generation"}
  PROVE  Target \subseteq Menu
BY AllKept, KeptOnMenu DEF Target

\* No install step changes a stub under a final name, except that RenameStub
\* replaces the one of the current generation by one that boots.
LEMMA StubsSurvive ==
  ASSUME Core, InstallStep, ~RenameStub, NEW p \in StubPath, ~p.tmp
  PROVE  linux'[p] = linux[p]
<1>1. CASE SignStub
  <2>1. pc \in Installing
    BY <1>1 DEF SignStub, Installing
  <2>2. StubTmp(StubTarget) \in StubPath /\ StubTmp(StubTarget).tmp
    BY <2>1, CurrentType, StubTargetType, StubTmpType DEF Core, TypeOK
  <2>. QED  BY <1>1, <2>2 DEF SignStub, Core, TypeOK
<1>2. CASE ~SignStub
  BY <1>2 DEF InstallStep, Registered, NotRegistered, InstallKernel, RenameKernel,
              InstallInitrd, RenameInitrd, LockImage, InstalledAll, SyncFs,
              BootLoaderInstalled, files
<1>. QED  BY <1>1, <1>2

\* No install step takes a system off the menu.
LEMMA MenuGrows ==
  ASSUME Core, InstallStep PROVE Menu \subseteq Menu'
<1> SUFFICES ASSUME NEW p \in StubPath, Boots(p)
             PROVE  <<p.entry, p.key>> \in Menu'
  BY DEF Menu
<1>1. CASE linux'[p] = linux[p]
  <2>1. Boots(p)'
    BY <1>1, FilesSurvive, BootsStable, CaPathType
  <2>. QED  BY <2>1 DEF Menu
<1>2. CASE linux'[p] # linux[p]
  <2>1. RenameStub /\ ~p.tmp
    BY <1>2, StubsSurvive DEF Boots
  <2>2. current \in Entry /\ cfg \in Configs
    BY <2>1, CurrentType DEF RenameStub, Installing, Core, TypeOK
  <2>3. /\ StubTarget \in StubPath /\ StubTmp(StubTarget) \in StubPath
        /\ StubTmp(StubTarget).tmp
        /\ StubTarget.entry = current /\ StubTarget.key = cfg.key
    BY <2>2, StubTargetType, StubTmpType
  <2>4. p = StubTarget
    BY <1>2, <2>1, <2>3 DEF RenameStub, Core, TypeOK
  <2>5. PICK e \in Entry : e = current
    BY <2>2
  <2>6. Kept(e)' /\ cfg' = cfg
    BY <2>1, <2>5, RenameStubKeeps DEF RenameStub, env
  <2>7. <<e, cfg'.key>> \in Menu'
    BY <2>6 DEF Kept, Menu
  <2>. QED  BY <2>3, <2>4, <2>5, <2>6, <2>7
<1>. QED  BY <1>1, <1>2

\* Garbage collection adds nothing to the menu.
LEMMA MenuShrinks ==
  ASSUME Core, CollectStep PROVE Menu' \subseteq Menu
<1>1. /\ \A p \in StubPath : linux'[p] \in {linux[p], None}
      /\ \A p \in CaPath : nixos'[p] \in {nixos[p], None}
  BY DEF CollectStep, CollectNixos, CollectLinux, CollectPcrlock, Core, TypeOK
<1> SUFFICES ASSUME NEW p \in StubPath, Boots(p)' PROVE Boots(p)
  BY DEF Menu
<1>2. linux'[p] = linux[p] /\ linux[p] \in SignedImage
  BY <1>1, NoneAssumption DEF Boots
<1>. QED  BY <1>1, <1>2, SignedImageParts, CaPathType, NoneAssumption DEF Boots

\* Every step of lzbt, of the user and of the boot loader is a step that the
\* contract allows, or changes nothing it can see.
LEMMA ContractStep ==
  ASSUME ~ConcurrentBless, Core, RunInvariant, [Next]_vars, Core', RunInvariant'
  PROVE  [Contract!MenuNext]_(Contract!menuvars)
<1>0. Menu \subseteq Entry \X Keys /\ Menu' \subseteq Entry \X Keys
  BY DEF Menu, StubPath
<1>00. Target \subseteq Entry \X Keys /\ Target' \subseteq Entry \X Keys
  BY ConstantsAssumption DEF Target, Core, TypeOK
<1>1. CASE UNCHANGED vars \/ GiveUp
  <2>1. UNCHANGED <<cfg, linux, nixos, pc, generations>>
    BY <1>1 DEF GiveUp, vars
  <2>2. Menu' = Menu
    BY <2>1 DEF Menu, Boots
  <2>. QED  BY <2>1, <2>2 DEF Contract!menuvars, Phase
<1>2. CASE Start
  <2>1. /\ pc = "idle" /\ pc' = "generation"
        /\ UNCHANGED <<linux, nixos, cfg>>
    BY <1>2 DEF Start, env, files
  <2>2. Menu' = Menu
    BY <2>1 DEF Menu, Boots
  <2>3. generations' # {}
    BY <2>1 DEF RunInvariant, RunPosition
  <2>4. Target' # {}
    <3>1. PICK e \in generations' : TRUE
      BY <2>3
    <3>2. <<e, cfg'.key>> \in Target'
      BY DEF Target
    <3>. QED  BY <3>2
  <2>5. Phase = "idle" /\ Phase' = "install"
    BY <2>1 DEF Phase
  <2>6. Contract!Begin
    BY <1>00, <2>2, <2>4, <2>5 DEF Contract!Begin, Target
  <2>. QED  BY <2>6 DEF Contract!MenuNext
<1>3. CASE InstallStep /\ ~BootLoaderInstalled
  <2>1. UNCHANGED <<cfg, generations>> /\ Phase = "install" /\ Phase' = "install"
    BY <1>3 DEF InstallStep, Registered, NotRegistered, InstallKernel, RenameKernel,
         InstallInitrd, RenameInitrd, InstallCa, RenameCa, LockImage, SignStub,
         RenameStub, InstalledAll, SyncFs, env, Phase
  <2>2. Menu \subseteq Menu'
    BY <1>3, MenuGrows
  <2>3. Contract!Grow
    BY <1>0, <2>1, <2>2 DEF Contract!Grow
  <2>. QED  BY <2>3 DEF Contract!MenuNext
<1>4. CASE BootLoaderInstalled
  <2>1. /\ UNCHANGED <<cfg, linux, nixos, generations>>
        /\ pc = "bootloader" /\ pc' \in {"gc_nixos", "done"}
    BY <1>4 DEF BootLoaderInstalled, env, files
  <2>2. Menu' = Menu
    BY <2>1 DEF Menu, Boots
  <2>3. Target \subseteq Menu
    BY <2>1, TargetOnMenu DEF Installing
  <2>4. Phase = "install" /\ Phase' = "collect"
    BY <2>1 DEF Phase
  <2>5. Contract!BeginCollect
    BY <2>1, <2>2, <2>3, <2>4 DEF Contract!BeginCollect, Target
  <2>. QED  BY <2>5 DEF Contract!MenuNext
<1>5. CASE CollectStep
  <2>1. /\ UNCHANGED <<cfg, generations, todo, current>>
        /\ pc \in {"gc_nixos", "gc_linux", "gc_pcrlock"}
        /\ Phase = "collect" /\ Phase' = "collect"
    BY <1>5 DEF CollectStep, CollectNixos, CollectLinux, CollectPcrlock, env, Phase
  <2>2. Menu' \subseteq Menu
    BY <1>5, MenuShrinks
  <2>3. \A e \in generations : Kept(e) /\ e \in Entry
    BY <2>1, AllKept DEF Installing, Core, TypeOK
  <2>4. \A e \in generations : Kept(e)'
    BY <1>5, <2>3, CollectKeeps
  <2>5. \A e \in generations : <<e, cfg'.key>> \in Menu'
    BY <2>4 DEF Kept, Menu
  <2>6. Target \subseteq Menu'
    BY <2>1, <2>5 DEF Target
  <2>7. Contract!Shrink
    BY <2>1, <2>2, <2>6 DEF Contract!Shrink, Target
  <2>. QED  BY <2>7 DEF Contract!MenuNext
<1>6. CASE Finish \/ Abort
  <2>1. /\ pc # "idle" /\ pc' = "idle" /\ generations' = {}
        /\ UNCHANGED <<cfg, linux, nixos>>
    BY <1>6 DEF Finish, Abort, Exit, files
  <2>2. Menu' = Menu
    BY <2>1 DEF Menu, Boots
  <2>3. Phase # "idle" /\ Phase' = "idle"
    BY <2>1 DEF Phase
  <2>4. Contract!End
    BY <2>1, <2>2, <2>3 DEF Contract!End
  <2>. QED  BY <2>4 DEF Contract!MenuNext
<1>7. CASE Environment
  <2>1. pc = "idle" /\ pc' = "idle" /\ generations' = generations
    BY <1>7 DEF Environment, NewGeneration, DeleteGeneration, Reconfigure,
                DeleteCaFile, BootTry, Bless, run
  <2>2. generations = {}
    BY <2>1 DEF RunInvariant, RunPosition
  <2>3. Phase = "idle" /\ Phase' = "idle"
    BY <2>1 DEF Phase
  <2>4. Contract!Outside
    BY <1>0, <2>1, <2>2, <2>3 DEF Contract!Outside
  <2>. QED  BY <2>4 DEF Contract!MenuNext
<1>. QED  BY <1>1, <1>2, <1>3, <1>4, <1>5, <1>6, <1>7 DEF Next

\* lzbt's file operations implement the contract: however often runs are cut
\* short, no bootable system leaves the menu before every configured one is
\* on it, and none of those ever does, unless systemd-bless-boot renames stubs
\* while lzbt runs.
THEOREM Refinement ==
  ASSUME ~ConcurrentBless PROVE Spec => ImplementsContract
<1>1. Init => Contract!MenuInit
  <2> SUFFICES ASSUME Init PROVE Contract!MenuInit
    OBVIOUS
  <2>2. \A p \in StubPath : ~Boots(p)
    BY NoneAssumption DEF Init, Boots
  <2>3. Phase = "idle" /\ generations = {}
    BY DEF Init, Phase
  <2>4. Menu = {}
    BY <2>2 DEF Menu
  <2>. QED  BY <2>3, <2>4 DEF Contract!MenuInit
<1>2. Core /\ RunInvariant /\ [Next]_vars /\ Core' /\ RunInvariant'
        => [Contract!MenuNext]_(Contract!menuvars)
  BY ContractStep
<1>. QED  BY <1>1, <1>2, RunInvariantHolds, PTL DEF Spec, ImplementsContract, Contract!MenuSpec
=============================================================================
