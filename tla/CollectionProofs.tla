-------------------------- MODULE CollectionProofs --------------------------
(***************************************************************************)
(* Proofs about what a run of lzbt leaves behind on the ESP: that its      *)
(* garbage collection roots are exactly what the boot entries of its       *)
(* generations need, that the collection removes everything else, and that *)
(* it removes nothing when a generation could not be read.                 *)
(***************************************************************************)
EXTENDS InstallerProofs, FiniteSetTheorems, WellFoundedInduction

-----------------------------------------------------------------------------
(* The roots of a run, by directory.                                       *)

RootedStubs == gc_roots \cap StubPath
RootedFiles == gc_roots \cap CaPath
RootedTags == gc_roots \cap Tag

\* A final name in EFI/Linux holds a stub of its generation's own kernel and
\* of an initrd that its secrets can yield.
OwnImages ==
  /\ \A p \in StubPath : ~p.tmp /\ linux[p] # None =>
       /\ linux[p].image.linux = Kernel[p.entry.top]
       /\ linux[p].image.initrd \in Initrds[p.entry.top]
  /\ pc \in {"initrd_tmp", "pcrlock", "stub", "stub_tmp"} => initrd \in Initrds[current.top]

\* The stub that is about to be put in place; its name is a root already.
Replacing(p) == pc = "stub_tmp" /\ p = StubTarget

\* Every rooted stub is one of a generation the loop has reached, has the
\* configured key and a final name, and boots from rooted files.
RootedStubsBoot ==
  /\ current \notin todo
  /\ \A p \in RootedStubs :
       /\ p.entry \in generations \ todo /\ p.key = cfg.key /\ ~p.tmp
       /\ Replacing(p) \/ (Boots(p) /\ StubRoots(p) \subseteq gc_roots)

\* Without Measured Boot a stub that is installed again was not a root before,
\* so that no generation has two.
RootedOnce ==
  ~cfg.measured =>
    /\ \A p \in RootedStubs : p.entry = current => pc = "stub_tmp"
    /\ \A p, q \in RootedStubs : p.entry = q.entry => p = q

\* Why a file of EFI/nixos is a root: a rooted stub names it, the stub being
\* installed will, or it is the initrd of a stub that Measured Boot replaced.
Justified(f) ==
  \/ \E p \in RootedStubs : ~Replacing(p) /\ f \in StubRoots(p)
  \/ pc \in Installing /\ f = KernelPath(Kernel[current.top])
  \/ pc \in {"initrd_tmp", "pcrlock", "stub", "stub_tmp"} /\ f = InitrdPath(initrd)
  \/ /\ cfg.measured /\ f.kind = "initrd"
     /\ \E e \in generations : f.hash \in Initrds[e.top]

RootedFilesJustified == \A f \in RootedFiles : Justified(f)

RootsExact == RootedStubsBoot /\ RootedOnce /\ RootedFilesJustified

\* With Measured Boot the rooted pcrlock files are those of the generations
\* the loop has passed, and they exist.
RootedTagsExact ==
  /\ \A t \in RootedTags : pcrlock[t] # None /\ \E e \in generations : TagOf(e) = t
  /\ cfg.measured =>
       \A e \in generations :
         \/ e \in todo
         \/ e = current /\ pc \notin {"stub", "stub_tmp"}
         \/ TagOf(e) \in gc_roots

\* How far the collection is, and that a malformed generation prevents it.
CollectionPosition ==
  /\ pc = "idle" => gc_roots = {} /\ broken_gens = {}
  /\ pc \in {"gc_nixos", "gc_linux", "gc_pcrlock"} => broken_gens = {}
  /\ broken_gens = {} =>
       /\ pc \in {"gc_linux", "gc_pcrlock", "done"} => Garbage(nixos) = {}
       /\ pc = "done" /\ cfg.measured => Garbage(pcrlock) = {}

LinuxCollected ==
  broken_gens = {} /\ pc \in {"gc_pcrlock", "done"} => Garbage(linux) = {}

NeverMeasured == \A c \in Configs : ~c.measured
NeverCounted == \A c \in Configs : c.tries = 0

\* Without boot counting no stub has a counter in its name.
Uncounted == \A p \in StubPath : linux[p] # None => p.suffix = <<>>

-----------------------------------------------------------------------------
(* Names of one directory are not names of another.                        *)

\* No path is a name of two directories.
LEMMA PathsDisjoint ==
  /\ StubPath \cap CaPath = {} /\ StubPath \cap Tag = {} /\ CaPath \cap Tag = {}
<1>1. \A p \in StubPath : DOMAIN p = {"entry", "key", "suffix", "tmp"}
  BY DEF StubPath
<1>2. \A p \in CaPath : DOMAIN p = {"kind", "hash", "tmp"}
  BY DEF CaPath
<1>3. \A p \in Tag : DOMAIN p = {"version", "spec"}
  BY DEF Tag
<1> QED  BY <1>1, <1>2, <1>3

-----------------------------------------------------------------------------
(* Part 1: the collection and the measurements, whatever runs beside lzbt. *)

\* What the steps of the loop and the ones right after it leave alone.
LEMMA LoopSteps ==
  ASSUME InstallStep
  PROVE  /\ UNCHANGED <<profile, cfg, events, generations, broken_gens>>
         /\ pc \in Installing \cup {"generation", "sync", "bootloader"}
         /\ pc' \in Installing \cup {"generation", "sync", "bootloader"}
            \/ (pc' = "gc_nixos" /\ broken_gens = {}) \/ (pc' = "done" /\ broken_gens # {})
         /\ gc_roots \subseteq gc_roots'
BY DEF InstallStep, Registered, NotRegistered, InstallKernel, RenameKernel, InstallInitrd,
   RenameInitrd, LockImage, SignStub, RenameStub, InstalledAll, SyncFs,
   BootLoaderInstalled, InstallCa, RenameCa, Installing, env

\* What the world around lzbt leaves alone.
LEMMA EnvironmentFacts ==
  ASSUME Environment
  PROVE  /\ UNCHANGED <<run, pcrlock>>
         /\ pc = "idle" \/ UNCHANGED <<profile, cfg, nixos>>
         /\ pc = "idle" \/ ConcurrentBless
BY DEF Environment, NewGeneration, DeleteGeneration, Reconfigure, DeleteCaFile, BootTry,
   Bless, files

\* A malformed generation prevents the collection, and a directory that was
\* collected holds no garbage until the run is over.
LEMMA CollectionPositionStep ==
  ASSUME Core, CollectionPosition, [Next]_vars PROVE CollectionPosition'
<1>1. CASE UNCHANGED vars
  BY <1>1 DEF vars, CollectionPosition, Garbage
<1>2. CASE Start
  BY <1>2 DEF Start, CollectionPosition
<1>3. CASE GiveUp
  BY <1>3 DEF GiveUp, vars, CollectionPosition, Garbage
<1>4. CASE InstallStep
  BY <1>4, LoopSteps DEF CollectionPosition, Installing
<1>5. CASE CollectNixos
  BY <1>5 DEF CollectNixos, CollectionPosition, Garbage
<1>6. CASE CollectLinux
  BY <1>6 DEF CollectLinux, CollectionPosition, Garbage, env
<1>7. CASE CollectPcrlock
  BY <1>7 DEF CollectPcrlock, CollectionPosition, Garbage, env
<1>8. CASE Finish \/ Abort
  BY <1>8 DEF Finish, Abort, Exit, CollectionPosition
<1>9. CASE Environment
  BY <1>9, EnvironmentFacts DEF CollectionPosition, Garbage, run
<1> QED
  BY <1>1, <1>2, <1>3, <1>4, <1>5, <1>6, <1>7, <1>8, <1>9 DEF Next, CollectStep

\* The pcrlock files that are roots are those of the generations passed.
LEMMA RootedTagsStep ==
  ASSUME Core, CollectionPosition, RootedTagsExact, [Next]_vars PROVE RootedTagsExact'
<1> USE DEF RootedTagsExact, RootedTags
<1>0. /\ \A e \in generations : TagOf(e) \in Tag /\ e \in Entry /\ e # None
      /\ pcrlock \in [Tag -> Image \cup {None}]
  BY TagType, NoneAssumption DEF Core, TypeOK
<1>1. CASE UNCHANGED vars
  BY <1>1 DEF vars
<1>2. CASE Start
  BY <1>2 DEF Start
<1>3. CASE GiveUp
  BY <1>3 DEF GiveUp, vars
<1>4. ASSUME NEW e \in todo, Registered(e) PROVE RootedTagsExact'
  <2>1. PICK p \in Matching(e) : /\ Readable(p) /\ Measured(e)
          /\ gc_roots' = gc_roots \cup StubRoots(p)
                                  \cup (IF cfg.measured THEN {TagOf(e)} ELSE {})
    BY <1>4 DEF Registered
  <2>2. StubRoots(p) \cap Tag = {}
    BY <2>1, StubRootsType, PathsDisjoint DEF Core, Matching
  <2>3. e \in generations /\ current = None /\ pc = "generation"
    BY <1>4 DEF Registered, Core, RunPosition, Installing
  <2>4. cfg.measured => pcrlock[TagOf(e)] # None
    BY <2>1 DEF Measured
  <2>5. UNCHANGED <<pcrlock, cfg, generations, current, pc>> /\ todo' = todo \ {e}
    BY <1>4 DEF Registered, env, files
  <2> QED  BY <1>0, <2>1, <2>2, <2>3, <2>4, <2>5
<1>5. ASSUME NEW e \in todo, NotRegistered(e) PROVE RootedTagsExact'
  <2>1. gc_roots' = gc_roots \/ \E p \in StubPath : Readable(p) /\ gc_roots' = gc_roots \cup StubRoots(p)
    BY <1>5 DEF NotRegistered, Matching
  <2>2. gc_roots' \cap Tag = gc_roots \cap Tag
    BY <2>1, StubRootsType, PathsDisjoint DEF Core
  <2>3. /\ UNCHANGED <<pcrlock, cfg, generations>> /\ todo' = todo \ {e}
        /\ pc = "generation" /\ current = None /\ current' = e /\ pc' = "kernel"
    BY <1>5 DEF NotRegistered, env, files, Core, RunPosition, Installing
  <2> QED  BY <1>0, <2>2, <2>3
<1>6. CASE InstallKernel \/ InstallInitrd
  <2>1. pc \in Installing /\ current \in Entry
    BY <1>6, CurrentType DEF InstallKernel, InstallInitrd, Installing
  <2>2. PICK path \in CaPath : gc_roots' = gc_roots \cup {path}
    BY <1>6, <2>1, CurrentType, CaPathType DEF InstallKernel, InstallInitrd, InstallCa
  <2>3. gc_roots' \cap Tag = gc_roots \cap Tag
    BY <2>2, PathsDisjoint
  <2>4. /\ UNCHANGED <<pcrlock, cfg, generations, todo, current>>
        /\ pc \notin {"stub", "stub_tmp"} /\ pc' \notin {"stub", "stub_tmp"}
    BY <1>6 DEF InstallKernel, InstallInitrd, InstallCa, env
  <2> QED  BY <1>0, <2>3, <2>4
<1>7. CASE LockImage
  <2>1. pc = "pcrlock" /\ pc \in Installing /\ current \in generations
    BY <1>7 DEF LockImage, Installing, Core, RunPosition
  <2>2. TagOf(current) \in Tag /\ CurrentImage \in Image /\ CurrentImage # None
    BY <2>1, CurrentType, TagType, CurrentImageType, NoneAssumption DEF Core, RunPosition, TypeOK
  <2>3. UNCHANGED <<cfg, generations, todo, current>> /\ pc' = "stub"
    BY <1>7 DEF LockImage, env
  <2>4. CASE cfg.measured
    <3>1. /\ pcrlock' = [pcrlock EXCEPT ![TagOf(current)] = CurrentImage]
          /\ gc_roots' = gc_roots \cup {TagOf(current)}
      BY <1>7, <2>4 DEF LockImage
    <3> QED  BY <1>0, <2>1, <2>2, <2>3, <3>1
  <2>5. CASE ~cfg.measured
    BY <1>7, <2>3, <2>5 DEF LockImage
  <2> QED  BY <2>4, <2>5
<1>8. CASE SignStub
  <2>1. pc \in Installing /\ StubTarget \in StubPath
    BY <1>8, CurrentType, StubTargetType DEF SignStub, Installing, Core, TypeOK
  <2>2. gc_roots' \cap Tag = gc_roots \cap Tag
    BY <1>8, <2>1, PathsDisjoint DEF SignStub
  <2> QED  BY <1>8, <2>2 DEF SignStub, env
<1>9. CASE RenameStub
  BY <1>0, <1>9 DEF RenameStub, env
<1>10. CASE RenameKernel \/ RenameInitrd
  BY <1>10 DEF RenameKernel, RenameInitrd, RenameCa, env
<1>11. CASE InstalledAll \/ SyncFs \/ BootLoaderInstalled
  BY <1>11 DEF InstalledAll, SyncFs, BootLoaderInstalled, env, files
<1>12. CASE CollectNixos \/ CollectLinux
  BY <1>12 DEF CollectNixos, CollectLinux, env
<1>13. CASE CollectPcrlock
  <2>1. \A t \in RootedTags : pcrlock'[t] = pcrlock[t]
    BY <1>0, <1>13 DEF CollectPcrlock, Garbage
  <2> QED  BY <1>13, <2>1 DEF CollectPcrlock, env
<1>14. CASE Finish \/ Abort
  BY <1>14 DEF Finish, Abort, Exit
<1>15. CASE Environment
  BY <1>15, EnvironmentFacts DEF run, CollectionPosition, Core, RunPosition
<1> QED
  BY <1>1, <1>2, <1>3, <1>4, <1>5, <1>6, <1>7, <1>8, <1>9, <1>10, <1>11, <1>12, <1>13,
     <1>14, <1>15 DEF Next, InstallStep, CollectStep

\* At the start of the first run nothing is rooted or broken.
LEMMA CollectionInit == Init => CollectionPosition /\ RootedTagsExact
  BY DEF Init, CollectionPosition, RootedTagsExact, RootedTags

\* The invariant of part 1 holds throughout any sequence of runs.
LEMMA CollectionHolds == Spec => [](Core /\ CollectionPosition /\ RootedTagsExact)
<1>1. Init => Core /\ CollectionPosition /\ RootedTagsExact
  BY InitType, CollectionInit DEF Core, RunInvariant
<1>2. /\ Core /\ CollectionPosition /\ RootedTagsExact
      /\ [Next]_vars
      => (Core /\ CollectionPosition /\ RootedTagsExact)'
  BY CoreStep, CollectionPositionStep, RootedTagsStep
<1> QED  BY <1>1, <1>2, PTL DEF Spec

\* A run that completes with Measured Boot and could read every generation has
\* a pcrlock file for each of its generations and for no other, whatever was
\* on the ESP before and even when systemd-bless-boot renames stubs meanwhile.
THEOREM MeasurementsExactHolds == Spec => []MeasurementsExact
<1>1. Core /\ CollectionPosition /\ RootedTagsExact => MeasurementsExact
  <2> SUFFICES ASSUME Core, CollectionPosition, RootedTagsExact,
                      pc = "done", cfg.measured, broken_gens = {}, NEW t \in Tag
               PROVE  pcrlock[t] # None <=> \E e \in generations : TagOf(e) = t
    BY DEF MeasurementsExact
  <2>1. pcrlock[t] # None => t \in RootedTags
    BY DEF Core, TypeOK, CollectionPosition, Garbage, RootedTags
  <2>2. ASSUME NEW e \in generations, TagOf(e) = t PROVE t \in RootedTags
    <3>1. todo = {} /\ current = None /\ e # None
      BY NoneAssumption DEF Core, TypeOK, RunPosition, Installing
    <3> QED  BY <2>2, <3>1 DEF RootedTagsExact, RootedTags
  <2> QED  BY <2>1, <2>2 DEF RootedTagsExact
<1> QED  BY <1>1, CollectionHolds, PTL

\* Every final name of EFI/Linux and EFI/nixos that is taken stays taken during
\* the steps of the loop.
LEMMA LoopKeepsFiles ==
  ASSUME Core, InstallStep
  PROVE  /\ \A p \in StubPath : linux[p] # None /\ ~p.tmp => linux'[p] # None
         /\ \A p \in CaPath : nixos[p] # None /\ ~p.tmp => nixos'[p] # None
         /\ \A t \in Tag : pcrlock[t] # None => pcrlock'[t] # None
<1>1. \A p \in CaPath : nixos[p] # None /\ ~p.tmp => nixos'[p] # None
  <2>1. \A p \in CaPath : p.hash # None
    BY NoneAssumption DEF CaPath
  <2> QED  BY <2>1, FilesSurvive DEF Core, CaNames
<1>2. \A p \in StubPath : linux[p] # None /\ ~p.tmp => linux'[p] # None
  <2>1. CASE SignStub \/ RenameStub
    <3>1. pc \in Installing
      BY <2>1 DEF SignStub, RenameStub, Installing
    <3>2. StubTmp(StubTarget) \in StubPath /\ StubTmp(StubTarget).tmp
      BY <3>1, CurrentType, StubTargetType, StubTmpType DEF Core, TypeOK
    <3>3. CASE SignStub
      BY <3>2, <3>3 DEF SignStub, Core, TypeOK
    <3>4. CASE RenameStub
      <4>1. [image |-> CurrentImage, signer |-> cfg.key] # None
        BY <3>1, <3>4, CurrentType, CurrentImageType, NoneAssumption
           DEF RenameStub, Core, TypeOK, RunPosition
      <4> QED  BY <3>2, <3>4, <4>1 DEF RenameStub, Core, TypeOK
    <3> QED  BY <2>1, <3>3, <3>4
  <2>2. CASE ~(SignStub \/ RenameStub)
    BY <2>2 DEF InstallStep, Registered, NotRegistered, InstallKernel, RenameKernel,
       InstallInitrd, RenameInitrd, LockImage, InstalledAll, SyncFs, BootLoaderInstalled, files
  <2> QED  BY <2>1, <2>2
<1>3. \A t \in Tag : pcrlock[t] # None => pcrlock'[t] # None
  <2>1. CASE LockImage
    <3>1. pc \in Installing
      BY <2>1 DEF LockImage, Installing
    <3>2. CurrentImage # None
      BY <2>1, <3>1, CurrentType, CurrentImageType, NoneAssumption
         DEF LockImage, Core, TypeOK, RunPosition
    <3> QED  BY <2>1, <3>2 DEF LockImage, Core, TypeOK
  <2>2. CASE ~LockImage
    BY <2>2 DEF InstallStep, Registered, NotRegistered, InstallKernel, RenameKernel,
       InstallInitrd, RenameInitrd, SignStub, RenameStub, InstalledAll, SyncFs,
       BootLoaderInstalled, files
  <2> QED  BY <2>1, <2>2
<1> QED  BY <1>1, <1>2, <1>3

\* A run that met a malformed generation removes no stub, no kernel or initrd
\* and no measurement, neither in its loop nor by collecting garbage.
THEOREM BrokenProtectsHolds ==
  ASSUME ~ConcurrentBless PROVE Spec => BrokenProtects
<1> DEFINE Protects ==
      broken_gens # {} /\ pc # "idle" =>
        /\ \A p \in StubPath : linux[p] # None /\ ~p.tmp => linux'[p] # None
        /\ \A p \in CaPath : nixos[p] # None /\ ~p.tmp => nixos'[p] # None
        /\ \A t \in Tag : pcrlock[t] # None => pcrlock'[t] # None
<1>1. ASSUME Core, CollectionPosition, [Next]_vars PROVE Protects
  <2> SUFFICES ASSUME broken_gens # {}, pc # "idle" PROVE Protects
    OBVIOUS
  <2>1. CASE InstallStep
    BY <1>1, <2>1, LoopKeepsFiles
  <2>2. CASE ~InstallStep
    <3>1. ~CollectStep
      BY <1>1 DEF CollectStep, CollectNixos, CollectLinux, CollectPcrlock, CollectionPosition
    <3>2. UNCHANGED <<linux, nixos, pcrlock>>
      BY <1>1, <2>2, <3>1, EnvironmentFacts
         DEF Next, Start, GiveUp, Finish, Abort, Exit, files, vars
    <3> QED  BY <3>2
  <2> QED  BY <2>1, <2>2
<1>2. Core /\ CollectionPosition /\ [Next]_vars => [Protects]_vars
  BY <1>1
<1> QED  BY <1>2, CollectionHolds, PTL DEF Spec, BrokenProtects

-----------------------------------------------------------------------------
(* Part 2: every stub is one of its generation.                            *)

\* A step that changes stubs only under names whose contents it takes care of
\* keeps the images right.
LEMMA OwnImagesStep ==
  ASSUME Core, OwnImages, [Next]_vars PROVE OwnImages'
<1>0. linux \in [StubPath -> SignedImage \cup {None, Partial}]
  BY DEF Core, TypeOK
<1>1. CASE UNCHANGED vars
  BY <1>1 DEF vars, OwnImages
<1>2. CASE InstallInitrd
  <2>1. initrd' \in Initrds[current.top] /\ UNCHANGED <<linux, current>>
    BY <1>2 DEF InstallInitrd
  <2> QED  BY <2>1 DEF OwnImages
<1>3. CASE SignStub
  <2>1. pc \in Installing /\ pc = "stub"
    BY <1>3 DEF SignStub, Installing
  <2>2. StubTmp(StubTarget) \in StubPath /\ StubTmp(StubTarget).tmp
    BY <2>1, CurrentType, StubTargetType, StubTmpType DEF Core, TypeOK
  <2>3. \A p \in StubPath : ~p.tmp => linux'[p] = linux[p]
    BY <1>0, <1>3, <2>2 DEF SignStub
  <2> QED  BY <1>3, <2>1, <2>3 DEF OwnImages, SignStub
<1>4. CASE RenameStub
  <2>1. pc \in Installing /\ pc = "stub_tmp" /\ initrd \in Blobs /\ current \in Entry
    BY <1>4, CurrentType DEF RenameStub, Installing, Core, RunPosition
  <2>2. /\ StubTarget \in StubPath /\ StubTmp(StubTarget) \in StubPath
        /\ StubTmp(StubTarget).tmp /\ StubTarget.entry = current /\ ~StubTarget.tmp
    BY <2>1, StubTargetType, StubTmpType DEF Core, TypeOK
  <2> DEFINE x == [image |-> CurrentImage, signer |-> cfg.key]
  <2>3. x.image.linux = Kernel[current.top] /\ x.image.initrd = initrd
    BY <2>1, CurrentImageType DEF Core, TypeOK
  <2>4. linux' = [linux EXCEPT ![StubTarget] = x, ![StubTmp(StubTarget)] = None]
    BY <1>4 DEF RenameStub
  <2> HIDE DEF x
  <2>5. /\ linux'[StubTarget] = x
        /\ \A p \in StubPath : ~p.tmp /\ p # StubTarget => linux'[p] = linux[p]
    BY <1>0, <2>2, <2>4
  <2>6. initrd \in Initrds[current.top] /\ pc' = "generation"
    BY <1>4, <2>1 DEF OwnImages, RenameStub
  <2> QED  BY <2>2, <2>3, <2>5, <2>6 DEF OwnImages
<1>5. CASE BootTry \/ Bless
  <2>1. PICK p \in StubPath : \E suffix : MoveStub(p, suffix)
    BY <1>5 DEF BootTry, Bless
  <2>2. PICK suffix : MoveStub(p, suffix)
    BY <2>1
  <2> DEFINE q == [entry |-> p.entry, key |-> p.key, suffix |-> suffix, tmp |-> FALSE]
  <2>3. /\ linux' = [linux EXCEPT ![q] = linux[p], ![p] = None] /\ ~p.tmp /\ linux[p] # None
        /\ q.entry = p.entry
    BY <2>2 DEF MoveStub
  <2> HIDE DEF q
  <2>4. \A x \in StubPath : linux'[x] \in {None, linux[x]} \/ (x = q /\ linux'[x] = linux[p])
    BY <1>0, <2>3
  <2>5. UNCHANGED <<pc, current, initrd>>
    BY <1>5 DEF BootTry, Bless, run
  <2> QED  BY <2>3, <2>4, <2>5 DEF OwnImages
<1>6. CASE CollectLinux
  <2>1. \A x \in StubPath : linux'[x] \in {None, linux[x]}
    BY <1>0, <1>6 DEF CollectLinux, Garbage
  <2>2. pc' \in {"gc_linux", "gc_pcrlock", "done"}
    BY <1>6 DEF CollectLinux
  <2> QED  BY <2>1, <2>2 DEF OwnImages
<1>7. CASE \/ InstallKernel \/ RenameKernel \/ RenameInitrd \/ LockImage \/ InstalledAll
           \/ SyncFs \/ BootLoaderInstalled \/ CollectNixos \/ CollectPcrlock
           \/ \E e \in todo : Registered(e) \/ NotRegistered(e)
  BY <1>7 DEF OwnImages, InstallKernel, RenameKernel, RenameInitrd, LockImage, InstalledAll,
     SyncFs, BootLoaderInstalled, CollectNixos, CollectPcrlock, Registered, NotRegistered,
     InstallCa, RenameCa, files
<1>8. CASE Start \/ GiveUp \/ Finish \/ Abort
  BY <1>8 DEF OwnImages, Start, GiveUp, Finish, Abort, Exit, files, vars
<1>9. CASE NewGeneration \/ DeleteGeneration \/ Reconfigure \/ DeleteCaFile
  BY <1>9 DEF OwnImages, NewGeneration, DeleteGeneration, Reconfigure, DeleteCaFile, files, run
<1> QED
  BY <1>1, <1>2, <1>3, <1>4, <1>5, <1>6, <1>7, <1>8, <1>9
     DEF Next, InstallStep, CollectStep, Environment

-----------------------------------------------------------------------------
(* Part 3: the roots of a run are what its boot entries need, provided      *)
(* nobody renames stubs while lzbt runs.                                    *)

\* A stub that is not changed still boots, from the same files, when the files
\* it names are intact as before.
LEMMA StillBoots ==
  ASSUME NEW p \in StubPath, Boots(p), linux'[p] = linux[p],
         \A q \in CaPath : q \in StubRoots(p) /\ ~q.tmp /\ nixos[q] = q.hash => nixos'[q] = q.hash
  PROVE  Boots(p)' /\ StubRoots(p)' = StubRoots(p)
BY BootsStable, CaPathType

\* What a stub names is in EFI/nixos, the stub itself in EFI/Linux.
LEMMA StubRootsParts ==
  ASSUME NEW p \in StubPath, linux[p] \in SignedImage
  PROVE  /\ StubRoots(p) \cap StubPath = {p} /\ StubRoots(p) \subseteq StubPath \cup CaPath
         /\ \A f \in StubRoots(p) \cap CaPath :
              \/ f = KernelPath(linux[p].image.linux)
              \/ f = InitrdPath(linux[p].image.initrd)
BY SignedImageParts, CaPathType, PathsDisjoint DEF StubRoots

\* A step that roots no further stub, changes no rooted stub and damages no
\* rooted file keeps what is said about the rooted stubs.
LEMMA RootsStable ==
  ASSUME Core, RootsExact, UNCHANGED <<cfg, generations, todo, current>>,
         RootedStubs' = RootedStubs, gc_roots \subseteq gc_roots',
         pc # "stub_tmp", pc' # "stub_tmp",
         \A p \in RootedStubs : linux'[p] = linux[p],
         \A q \in RootedFiles : ~q.tmp /\ nixos[q] = q.hash => nixos'[q] = q.hash
  PROVE  /\ RootedStubsBoot' /\ RootedOnce'
         /\ \A p \in RootedStubs : ~Replacing(p) /\ ~Replacing(p)' /\ StubRoots(p)' = StubRoots(p)
<1>1. ASSUME NEW p \in RootedStubs
      PROVE  /\ Boots(p)' /\ StubRoots(p)' = StubRoots(p) /\ StubRoots(p) \subseteq gc_roots
             /\ ~Replacing(p) /\ ~Replacing(p)'
  <2>1. ~Replacing(p) /\ ~Replacing(p)'
    BY DEF Replacing
  <2>2. Boots(p) /\ StubRoots(p) \subseteq gc_roots /\ p \in StubPath
    BY <2>1 DEF RootsExact, RootedStubsBoot, RootedStubs
  <2>3. \A q \in CaPath : q \in StubRoots(p) => q \in RootedFiles
    BY <2>2 DEF RootedFiles
  <2> QED  BY <2>1, <2>2, <2>3, StillBoots
<1>2. RootedStubsBoot'
  BY <1>1 DEF RootsExact, RootedStubsBoot
<1>3. RootedOnce'
  BY DEF RootsExact, RootedOnce
<1> QED  BY <1>1, <1>2, <1>3

\* No step but Registered, NotRegistered, SignStub and RenameStub adds or
\* changes a rooted stub.
LEMMA QuietRoots ==
  ASSUME Core, RootsExact,
         \/ InstallKernel \/ RenameKernel \/ InstallInitrd \/ RenameInitrd
         \/ LockImage \/ InstalledAll \/ SyncFs \/ BootLoaderInstalled \/ CollectStep
  PROVE  RootsExact'
<1>1. /\ UNCHANGED <<cfg, generations, todo, current>>
      /\ pc # "stub_tmp" /\ pc' # "stub_tmp"
  BY DEF InstallKernel, RenameKernel, InstallInitrd, RenameInitrd, LockImage, InstalledAll,
     SyncFs, BootLoaderInstalled, CollectStep, CollectNixos, CollectLinux, CollectPcrlock,
     InstallCa, RenameCa, env
<1>2. /\ gc_roots \subseteq gc_roots'
      /\ \A f \in gc_roots' \ gc_roots :
           \/ f \in Tag
           \/ f \in CaPath /\ pc' \in Installing /\ f = KernelPath(Kernel[current.top])
           \/ f \in CaPath /\ pc' \in {"initrd_tmp", "pcrlock"} /\ f = InitrdPath(initrd')
  <2>1. CASE InstallKernel
    <3>1. KernelPath(Kernel[current.top]) \in CaPath
      BY <2>1, CurrentType, CaPathType DEF InstallKernel, Installing
    <3>2. /\ gc_roots' = gc_roots \cup {KernelPath(Kernel[current.top])}
          /\ pc' \in Installing
      BY <2>1 DEF InstallKernel, InstallCa, Installing
    <3> QED  BY <3>1, <3>2
  <2>2. CASE InstallInitrd
    <3>1. InitrdPath(initrd') \in CaPath
      BY <2>2, CurrentType, CaPathType DEF InstallInitrd, Installing
    <3>2. /\ gc_roots' = gc_roots \cup {InitrdPath(initrd')}
          /\ pc' \in {"initrd_tmp", "pcrlock"}
      BY <2>2 DEF InstallInitrd, InstallCa
    <3> QED  BY <3>1, <3>2
  <2>3. CASE LockImage
    <3>1. TagOf(current) \in Tag
      BY <2>3, CurrentType, TagType DEF LockImage, Installing
    <3>2. gc_roots' = gc_roots \cup {TagOf(current)} \/ gc_roots' = gc_roots
      BY <2>3 DEF LockImage
    <3> QED  BY <3>1, <3>2
  <2>4. CASE ~(InstallKernel \/ InstallInitrd \/ LockImage)
    <3>1. gc_roots' = gc_roots
      BY <2>4 DEF RenameKernel, RenameInitrd, InstalledAll, SyncFs, BootLoaderInstalled,
         CollectStep, CollectNixos, CollectLinux, CollectPcrlock
    <3> QED  BY <3>1
  <2> QED  BY <2>1, <2>2, <2>3, <2>4
<1>3. RootedStubs' = RootedStubs /\ gc_roots \subseteq gc_roots'
  BY <1>2, PathsDisjoint DEF RootedStubs
<1>4. \A p \in RootedStubs : linux'[p] = linux[p]
  BY DEF InstallKernel, RenameKernel, InstallInitrd, RenameInitrd, LockImage, InstalledAll,
     SyncFs, BootLoaderInstalled, CollectStep, CollectNixos, CollectLinux, CollectPcrlock,
     Garbage, files, RootedStubs, Core, TypeOK
<1>5. \A q \in RootedFiles : ~q.tmp /\ nixos[q] = q.hash => nixos'[q] = q.hash
  <2>1. CASE InstallStep
    BY <2>1, FilesSurvive DEF RootedFiles
  <2>2. CASE CollectStep
    BY <2>2 DEF CollectStep, CollectNixos, CollectLinux, CollectPcrlock, Garbage,
       RootedFiles, Core, TypeOK
  <2> QED  BY <2>1, <2>2 DEF InstallStep
<1>6. /\ RootedStubsBoot' /\ RootedOnce'
      /\ \A p \in RootedStubs : ~Replacing(p) /\ ~Replacing(p)' /\ StubRoots(p)' = StubRoots(p)
  BY <1>1, <1>3, <1>4, <1>5, RootsStable
<1>7. ASSUME NEW f \in RootedFiles' PROVE Justified(f)'
  <2>1. CASE f \in RootedFiles
    <3>1. Justified(f)
      BY <2>1 DEF RootsExact, RootedFilesJustified
    <3>2. CASE \E p \in RootedStubs : f \in StubRoots(p)
      BY <1>3, <1>6, <3>2 DEF Justified
    <3>3. CASE /\ cfg.measured /\ f.kind = "initrd"
               /\ \E e \in generations : f.hash \in Initrds[e.top]
      BY <1>1, <3>3 DEF Justified
    <3>4. CASE pc \in Installing
      <4>1. pc' \in Installing
        BY <3>4 DEF InstallKernel, RenameKernel, InstallInitrd, RenameInitrd, LockImage,
           InstallCa, RenameCa, InstalledAll, SyncFs, BootLoaderInstalled, CollectStep,
           CollectNixos, CollectLinux, CollectPcrlock, Installing
      <4>2. pc \in {"initrd_tmp", "pcrlock", "stub", "stub_tmp"} =>
              initrd' = initrd /\ pc' \in {"initrd_tmp", "pcrlock", "stub", "stub_tmp"}
        BY DEF InstallKernel, RenameKernel, InstallInitrd, RenameInitrd, LockImage,
           InstallCa, RenameCa, InstalledAll, SyncFs, BootLoaderInstalled, CollectStep,
           CollectNixos, CollectLinux, CollectPcrlock
      <4>3. CASE f = KernelPath(Kernel[current.top])
        BY <1>1, <4>1, <4>3 DEF Justified
      <4>4. CASE /\ pc \in {"initrd_tmp", "pcrlock", "stub", "stub_tmp"}
                 /\ f = InitrdPath(initrd)
        BY <4>2, <4>4 DEF Justified
      <4> QED  BY <3>1, <3>2, <3>3, <4>3, <4>4 DEF Justified
    <3> QED  BY <3>1, <3>2, <3>3, <3>4 DEF Justified, Installing
  <2>2. CASE f \notin RootedFiles
    <3>1. f \in gc_roots' \ gc_roots /\ f \notin Tag
      BY <2>2, PathsDisjoint DEF RootedFiles
    <3> QED  BY <1>1, <1>2, <3>1 DEF Justified
  <2> QED  BY <2>1, <2>2
<1> QED  BY <1>6, <1>7 DEF RootsExact, RootedFilesJustified

\* At the head of the loop and with the same files, rooting a stub of the next
\* generation that boots, with its files, keeps what is said about rooted
\* stubs, and so does rooting nothing.
LEMMA RootStub ==
  ASSUME Core, RootsExact, pc = "generation", NEW e \in todo,
         UNCHANGED <<cfg, linux, nixos, generations>>, pc' \in {"generation", "kernel"},
         todo' = todo \ {e}, current' \in {e, None},
         NEW new \in SUBSET (StubPath \cup CaPath \cup Tag), gc_roots' = gc_roots \cup new,
         \/ new = {}
         \/ \E p \in StubPath : /\ p.entry = e /\ p.key = cfg.key /\ Boots(p)
                               /\ StubRoots(p) \subseteq new
                               /\ new \subseteq StubRoots(p) \cup Tag,
         ~cfg.measured => new = {} \/ current' = None
  PROVE  RootsExact'
<1>1. /\ current = None /\ e \in generations /\ e \in Entry /\ e # None
      /\ todo \subseteq Entry /\ None \notin Entry
  BY NoneAssumption DEF Core, TypeOK, RunPosition, Installing
<1>2. \A p \in StubPath : (Boots(p)' <=> Boots(p)) /\ StubRoots(p)' = StubRoots(p)
  BY DEF Boots, StubRoots
<1>3. \A p : ~Replacing(p) /\ ~Replacing(p)'
  BY DEF Replacing
<1>4. \A p \in RootedStubs : p.entry # e /\ p.entry # None /\ p \in StubPath
  BY <1>1 DEF RootsExact, RootedStubsBoot, RootedStubs, StubPath
<1>5. ASSUME NEW p \in RootedStubs' \ RootedStubs
      PROVE  /\ p \in StubPath /\ p.entry = e /\ p.key = cfg.key /\ Boots(p)
             /\ StubRoots(p) \subseteq new /\ new \subseteq StubRoots(p) \cup Tag
  <2>1. p \in new /\ p \in StubPath
    BY DEF RootedStubs
  <2>2. PICK q \in StubPath : /\ q.entry = e /\ q.key = cfg.key /\ Boots(q)
                              /\ StubRoots(q) \subseteq new
                              /\ new \subseteq StubRoots(q) \cup Tag
    BY <2>1
  <2>3. p = q
    BY <2>1, <2>2, StubRootsParts, PathsDisjoint DEF Boots
  <2> QED  BY <2>1, <2>2, <2>3
<1>6. RootedStubsBoot'
  <2>1. current' \notin todo'
    BY <1>1
  <2>2. ASSUME NEW p \in RootedStubs'
        PROVE  /\ p.entry \in (generations \ todo)' /\ p.key = cfg'.key /\ ~p.tmp
               /\ Boots(p)' /\ StubRoots(p)' \subseteq gc_roots'
    <3>1. CASE p \in RootedStubs
      BY <1>2, <1>3, <1>4, <3>1 DEF RootsExact, RootedStubsBoot
    <3>2. CASE p \notin RootedStubs
      <4>1. ~p.tmp
        BY <1>5, <3>2 DEF Boots
      <4> QED  BY <1>1, <1>2, <1>5, <3>2, <4>1
    <3> QED  BY <3>1, <3>2
  <2> QED  BY <2>1, <2>2 DEF RootedStubsBoot
<1>7. RootedOnce'
  <2> SUFFICES ASSUME ~cfg.measured PROVE RootedOnce'
    BY DEF RootedOnce
  <2>1. \A p \in RootedStubs' : p.entry # current'
    <3>1. CASE new = {}
      BY <1>4, <3>1 DEF RootedStubs
    <3>2. CASE current' = None
      BY <1>1, <1>4, <1>5, <3>2
    <3> QED  BY <3>1, <3>2
  <2>2. ASSUME NEW p \in RootedStubs', NEW q \in RootedStubs', p.entry = q.entry PROVE p = q
    <3>1. CASE p \in RootedStubs /\ q \in RootedStubs
      BY <2>2, <3>1 DEF RootsExact, RootedOnce
    <3>2. CASE p \notin RootedStubs /\ q \notin RootedStubs
      <4>1. p \in new /\ q \in new
        BY <3>2 DEF RootedStubs
      <4>2. new \subseteq StubRoots(p) \cup Tag /\ q \in StubPath /\ p \in StubPath /\ Boots(p)
        BY <1>5, <3>2
      <4> QED  BY <4>1, <4>2, StubRootsParts, PathsDisjoint DEF Boots
    <3>3. CASE ~(p \in RootedStubs <=> q \in RootedStubs)
      BY <1>4, <1>5, <2>2, <3>3
    <3> QED  BY <3>1, <3>2, <3>3
  <2> QED  BY <2>1, <2>2 DEF RootedOnce
<1>8. ASSUME NEW f \in RootedFiles' PROVE Justified(f)'
  <2>1. CASE f \in RootedFiles
    <3>1. \/ \E p \in RootedStubs : f \in StubRoots(p)
          \/ /\ cfg.measured /\ f.kind = "initrd"
             /\ \E x \in generations : f.hash \in Initrds[x.top]
      BY <2>1 DEF RootsExact, RootedFilesJustified, Justified, Installing
    <3>2. \A p \in RootedStubs : p \in RootedStubs' /\ StubRoots(p)' = StubRoots(p)
      BY <1>2 DEF RootedStubs
    <3> QED  BY <1>3, <3>1, <3>2 DEF Justified
  <2>2. CASE f \notin RootedFiles
    <3>1. f \in new /\ f \in CaPath
      BY <2>2 DEF RootedFiles
    <3>2. PICK q \in StubPath : Boots(q) /\ StubRoots(q) \subseteq new /\ new \subseteq StubRoots(q) \cup Tag
      BY <3>1
    <3>3. q \in RootedStubs' /\ f \in StubRoots(q)'
      BY <1>2, <3>1, <3>2, PathsDisjoint DEF RootedStubs, StubRoots
    <3> QED  BY <1>3, <3>3 DEF Justified
  <2> QED  BY <2>1, <2>2
<1> QED  BY <1>6, <1>7, <1>8 DEF RootsExact, RootedFilesJustified

\* register_installed_generation returns true ...
LEMMA RegisteredRoots ==
  ASSUME Core, RootsExact, NEW e \in todo, Registered(e) PROVE RootsExact'
<1>1. PICK p \in Matching(e) :
        /\ Readable(p)
        /\ gc_roots' = gc_roots \cup StubRoots(p) \cup (IF cfg.measured THEN {TagOf(e)} ELSE {})
  BY DEF Registered
<1> DEFINE new == StubRoots(p) \cup (IF cfg.measured THEN {TagOf(e)} ELSE {})
<1>2. p \in StubPath /\ p.entry = e /\ p.key = cfg.key /\ ~p.tmp
  BY DEF Matching
<1>3. Boots(p) /\ e \in Entry /\ TagOf(e) \in Tag
  BY <1>1, <1>2, ReadableBoots, TagType DEF Core, TypeOK
<1>4. /\ new \in SUBSET (StubPath \cup CaPath \cup Tag) /\ gc_roots' = gc_roots \cup new
      /\ StubRoots(p) \subseteq new /\ new \subseteq StubRoots(p) \cup Tag
  BY <1>1, <1>2, <1>3, StubRootsType DEF Core
<1>5. /\ pc = "generation" /\ pc' = "generation" /\ todo' = todo \ {e} /\ current' = None
      /\ UNCHANGED <<cfg, linux, nixos, generations>>
  BY DEF Registered, Core, RunPosition, Installing, env, files
<1> HIDE DEF new
<1> QED  BY <1>2, <1>3, <1>4, <1>5, RootStub

\* ... or false.
LEMMA NotRegisteredRoots ==
  ASSUME Core, RootsExact, NEW e \in todo, NotRegistered(e) PROVE RootsExact'
<1>1. /\ pc = "generation" /\ pc' = "kernel" /\ todo' = todo \ {e} /\ current' = e
      /\ UNCHANGED <<cfg, linux, nixos, generations>>
  BY DEF NotRegistered, env, files
<1>2. CASE gc_roots' = gc_roots
  <2>1. gc_roots' = gc_roots \cup {}
    BY <1>2
  <2> QED  BY <1>1, <2>1, RootStub
<1>3. ASSUME NEW p \in Matching(e), Readable(p), ~Measured(e), gc_roots' = gc_roots \cup StubRoots(p)
      PROVE  RootsExact'
  <2>1. p \in StubPath /\ p.entry = e /\ p.key = cfg.key /\ ~p.tmp
    BY DEF Matching
  <2>2. Boots(p) /\ cfg.measured
    BY <1>3, <2>1, ReadableBoots DEF Measured
  <2>3. StubRoots(p) \in SUBSET (StubPath \cup CaPath \cup Tag)
    BY <1>3, <2>1, StubRootsType DEF Core
  <2> QED  BY <1>1, <1>3, <2>1, <2>2, <2>3, RootStub
<1> QED  BY <1>2, <1>3 DEF NotRegistered

\* The name of the stub that is about to be written becomes a root.  If it was
\* one already, its kernel is the new one's and only its initrd is left over.
LEMMA SignStubRoots ==
  ASSUME Core, OwnImages, RootsExact, SignStub PROVE RootsExact'
<1>1. /\ pc = "stub" /\ pc' = "stub_tmp" /\ pc \in Installing /\ pc' \in Installing
      /\ UNCHANGED <<cfg, nixos, generations, todo, current, initrd>>
      /\ gc_roots' = gc_roots \cup {StubTarget} /\ StubTarget' = StubTarget
  BY DEF SignStub, Installing, env, StubTarget
<1>2. /\ current \in Entry /\ current \in generations /\ StubTarget \in StubPath
      /\ StubTmp(StubTarget) \in StubPath /\ StubTmp(StubTarget).tmp
      /\ StubTarget.entry = current /\ StubTarget.key = cfg.key /\ ~StubTarget.tmp
  BY <1>1, CurrentType, StubTargetType, StubTmpType DEF Core, TypeOK, RunPosition
<1>3. \A p \in StubPath : ~p.tmp => linux'[p] = linux[p]
  BY <1>2 DEF SignStub, Core, TypeOK
<1>4. RootedStubs' = RootedStubs \cup {StubTarget} /\ RootedFiles' = RootedFiles
  BY <1>1, <1>2, PathsDisjoint DEF RootedStubs, RootedFiles
<1>5. ASSUME NEW p \in RootedStubs
      PROVE  /\ p \in StubPath /\ ~p.tmp /\ ~Replacing(p) /\ Boots(p) /\ Boots(p)'
             /\ StubRoots(p)' = StubRoots(p) /\ StubRoots(p) \subseteq gc_roots
  <2>1. p \in StubPath /\ ~p.tmp /\ ~Replacing(p) /\ Boots(p) /\ StubRoots(p) \subseteq gc_roots
    BY <1>1 DEF RootsExact, RootedStubsBoot, RootedStubs, Replacing
  <2>2. linux'[p] = linux[p]
    BY <1>3, <2>1
  <2> QED  BY <1>1, <2>1, <2>2, StillBoots
<1>6. \A p : Replacing(p)' <=> p = StubTarget
  BY <1>1 DEF Replacing
<1>7. RootedStubsBoot'
  BY <1>1, <1>2, <1>4, <1>5, <1>6 DEF RootsExact, RootedStubsBoot
<1>8. RootedOnce'
  BY <1>1, <1>2, <1>4 DEF RootsExact, RootedOnce
<1>9. ASSUME NEW f \in RootedFiles PROVE Justified(f)'
  <2>1. Justified(f) /\ f \in CaPath
    BY DEF RootsExact, RootedFilesJustified, RootedFiles
  <2>2. ASSUME NEW p \in RootedStubs, f \in StubRoots(p) PROVE Justified(f)'
    <3>1. CASE p # StubTarget
      BY <1>4, <1>5, <1>6, <2>2, <3>1 DEF Justified
    <3>2. CASE p = StubTarget
      <4>1. cfg.measured
        BY <1>1, <1>2, <3>2 DEF RootsExact, RootedOnce
      <4>2. /\ linux[p] \in SignedImage /\ linux[p] # None
        BY <1>5, NoneAssumption DEF Boots
      <4>3. /\ linux[p].image.linux = Kernel[current.top]
            /\ linux[p].image.initrd \in Initrds[current.top]
        BY <1>2, <3>2, <4>2 DEF OwnImages
      <4>4. f = KernelPath(Kernel[current.top]) \/ f = InitrdPath(linux[p].image.initrd)
        BY <1>5, <2>1, <2>2, <4>2, <4>3, StubRootsParts
      <4>5. CASE f = KernelPath(Kernel[current.top])
        BY <1>1, <4>5 DEF Justified
      <4>6. CASE f = InitrdPath(linux[p].image.initrd)
        <5>1. f.kind = "initrd" /\ f.hash \in Initrds[current.top]
          BY <4>3, <4>6 DEF InitrdPath
        <5> QED  BY <1>1, <1>2, <4>1, <5>1 DEF Justified
      <4> QED  BY <4>4, <4>5, <4>6
    <3> QED  BY <3>1, <3>2
  <2>3. CASE f = KernelPath(Kernel[current.top])
    BY <1>1, <2>3 DEF Justified
  <2>4. CASE f = InitrdPath(initrd)
    BY <1>1, <2>4 DEF Justified
  <2>5. CASE /\ cfg.measured /\ f.kind = "initrd"
             /\ \E e \in generations : f.hash \in Initrds[e.top]
    BY <1>1, <2>5 DEF Justified
  <2> QED  BY <2>1, <2>2, <2>3, <2>4, <2>5 DEF Justified
<1> QED  BY <1>4, <1>7, <1>8, <1>9 DEF RootsExact, RootedFilesJustified

\* Once the stub has its final name it boots from rooted files, and it is what
\* they are rooted for.
LEMMA RenameStubRoots ==
  ASSUME Core, RootsExact, RenameStub PROVE RootsExact'
<1>1. /\ pc = "stub_tmp" /\ pc' = "generation" /\ pc \in Installing
      /\ UNCHANGED <<cfg, nixos, generations, todo, gc_roots>> /\ current' = None
  BY DEF RenameStub, Installing, env
<1>2. /\ current \in Entry /\ current \in generations /\ initrd \in Blobs
      /\ Kernel[current.top] \in Blobs /\ cfg \in Configs /\ None \notin Entry
      /\ todo \subseteq Entry
  BY <1>1, CurrentType, NoneAssumption DEF Core, TypeOK, RunPosition
<1>3. PICK t \in StubPath : t = StubTarget
  BY <1>2, StubTargetType
<1>4. /\ t.entry = current /\ t.key = cfg.key /\ ~t.tmp
      /\ StubTmp(t) \in StubPath /\ StubTmp(t).tmp
  BY <1>2, <1>3, StubTargetType, StubTmpType
<1>5. PICK x \in SignedImage : x = [image |-> CurrentImage, signer |-> cfg.key]
  BY <1>2, CurrentImageType
<1>6. x.image.linux = Kernel[current.top] /\ x.image.initrd = initrd
  BY <1>2, <1>5, CurrentImageType
<1>7. /\ linux'[t] = x
      /\ \A p \in StubPath : ~p.tmp /\ p # t => linux'[p] = linux[p]
  BY <1>3, <1>4, <1>5 DEF RenameStub, Core, TypeOK
<1> DEFINE kp == KernelPath(Kernel[current.top])
           ip == InitrdPath(initrd)
<1>8. /\ t \in gc_roots /\ kp \in gc_roots /\ ip \in gc_roots
      /\ nixos[kp] = Kernel[current.top] /\ nixos[ip] = initrd
  BY <1>1, <1>2, <1>3, CaPathType DEF Core, RunPosition, InPlace
<1>9. StubRoots(t)' = {t, kp, ip} /\ Boots(t)'
  BY <1>1, <1>4, <1>6, <1>7, <1>8 DEF StubRoots, Boots
<1>10. RootedStubs' = RootedStubs /\ t \in RootedStubs /\ RootedFiles' = RootedFiles
  BY <1>1, <1>8 DEF RootedStubs, RootedFiles
<1>11. ASSUME NEW p \in RootedStubs, p # t
       PROVE  /\ p \in StubPath /\ ~p.tmp /\ Boots(p)'
              /\ StubRoots(p)' = StubRoots(p) /\ StubRoots(p) \subseteq gc_roots
  <2>1. p \in StubPath /\ ~p.tmp /\ Boots(p) /\ StubRoots(p) \subseteq gc_roots
    BY <1>3, <1>11 DEF RootsExact, RootedStubsBoot, RootedStubs, Replacing
  <2>2. linux'[p] = linux[p]
    BY <1>7, <1>11, <2>1
  <2> QED  BY <1>1, <2>1, <2>2, StillBoots
<1> HIDE DEF kp, ip
<1>12. RootedStubsBoot'
  <2>1. current' \notin todo'
    BY <1>1, <1>2
  <2>2. ASSUME NEW p \in RootedStubs
        PROVE  /\ p.entry \in (generations \ todo)' /\ p.key = cfg'.key /\ ~p.tmp
               /\ Boots(p)' /\ StubRoots(p)' \subseteq gc_roots'
    <3>1. p.entry \in (generations \ todo)' /\ p.key = cfg'.key /\ ~p.tmp
      BY <1>1 DEF RootsExact, RootedStubsBoot
    <3>2. CASE p = t
      BY <1>1, <1>8, <1>9, <3>1, <3>2
    <3>3. CASE p # t
      BY <1>1, <1>11, <3>1, <3>3
    <3> QED  BY <3>2, <3>3
  <2> QED  BY <1>10, <2>1, <2>2 DEF RootedStubsBoot
<1>13. RootedOnce'
  <2>1. \A p \in RootedStubs : p.entry # None
    BY <1>2 DEF RootedStubs, StubPath
  <2> QED  BY <1>1, <1>10, <2>1 DEF RootsExact, RootedOnce
<1>14. ASSUME NEW f \in RootedFiles PROVE Justified(f)'
  <2>1. Justified(f) /\ \A p : ~Replacing(p)'
    BY <1>1 DEF RootsExact, RootedFilesJustified, Replacing
  <2>2. ASSUME NEW p \in RootedStubs, ~Replacing(p), f \in StubRoots(p) PROVE Justified(f)'
    <3>1. p # t
      BY <1>1, <1>3, <2>2 DEF Replacing
    <3> QED  BY <1>10, <1>11, <2>1, <2>2, <3>1 DEF Justified
  <2>3. CASE f = kp \/ f = ip
    BY <1>9, <1>10, <2>1, <2>3 DEF Justified
  <2>4. CASE /\ cfg.measured /\ f.kind = "initrd"
             /\ \E e \in generations : f.hash \in Initrds[e.top]
    BY <1>1, <2>4 DEF Justified
  <2> QED  BY <2>1, <2>2, <2>3, <2>4 DEF Justified, kp, ip
<1> QED  BY <1>10, <1>12, <1>13, <1>14 DEF RootsExact, RootedFilesJustified

\* Every step keeps the roots exact.
LEMMA RootsExactStep ==
  ASSUME ~ConcurrentBless, Core, OwnImages, CollectionPosition, RootsExact, [Next]_vars,
         CollectionPosition'
  PROVE  RootsExact'
<1>1. CASE UNCHANGED vars
  BY <1>1 DEF vars, RootsExact, RootedStubsBoot, RootedOnce, RootedFilesJustified, Justified,
     RootedStubs, RootedFiles, Replacing, StubTarget, Boots, StubRoots
<1>2. CASE Start \/ GiveUp \/ Finish \/ Abort \/ Environment
  <2>1. pc = "idle" \/ Finish \/ Abort
    BY <1>2, EnvironmentFacts DEF Start, GiveUp
  <2>2. gc_roots' = {}
    BY <1>2, <2>1, EnvironmentFacts
       DEF Start, GiveUp, Finish, Abort, Exit, run, vars, CollectionPosition
  <2>3. current' = None /\ todo' \subseteq Entry
    <3>1. Core'
      BY CoreStep
    <3>2. pc' \in {"idle", "generation"}
      BY <1>2, <2>1, EnvironmentFacts DEF Start, GiveUp, Finish, Abort, Exit, run, vars
    <3> QED  BY <3>1, <3>2 DEF Core, TypeOK, RunPosition, Installing
  <2> QED  BY <2>2, <2>3, NoneAssumption
           DEF RootsExact, RootedStubsBoot, RootedOnce, RootedFilesJustified, RootedStubs, RootedFiles
<1>3. CASE InstallStep \/ CollectStep
  BY <1>3, QuietRoots, RegisteredRoots, NotRegisteredRoots, SignStubRoots, RenameStubRoots
     DEF InstallStep
<1> QED  BY <1>1, <1>2, <1>3 DEF Next

\* EFI/Linux holds no garbage from the end of its collection on.
LEMMA LinuxCollectedStep ==
  ASSUME ~ConcurrentBless, Core, LinuxCollected, [Next]_vars PROVE LinuxCollected'
<1>1. CASE UNCHANGED vars
  BY <1>1 DEF vars, LinuxCollected, Garbage
<1>2. CASE Start \/ GiveUp \/ Finish \/ Abort
  BY <1>2 DEF Start, GiveUp, Finish, Abort, Exit, vars, LinuxCollected
<1>3. CASE InstallStep
  BY <1>3, LoopSteps DEF LinuxCollected, Installing
<1>4. CASE CollectStep
  BY <1>4 DEF CollectStep, CollectNixos, CollectLinux, CollectPcrlock, LinuxCollected, Garbage
<1>5. CASE Environment
  BY <1>5, EnvironmentFacts DEF LinuxCollected, run
<1> QED  BY <1>1, <1>2, <1>3, <1>4, <1>5 DEF Next

\* When boot counting is never configured no stub gets a counter.
LEMMA UncountedStep ==
  ASSUME NeverCounted, Core, Uncounted, [Next]_vars PROVE Uncounted'
<1>0. linux \in [StubPath -> SignedImage \cup {None, Partial}]
  BY DEF Core, TypeOK
<1>1. CASE SignStub \/ RenameStub
  <2>1. pc \in Installing
    BY <1>1 DEF SignStub, RenameStub, Installing
  <2>2. current \in Entry /\ cfg \in Configs /\ cfg.tries = 0
    BY <2>1, CurrentType DEF Core, TypeOK, NeverCounted
  <2>3. /\ StubTarget \in StubPath /\ StubTarget.suffix = <<>>
        /\ StubTmp(StubTarget) \in StubPath /\ StubTmp(StubTarget).suffix = <<>>
    BY <2>2, StubTargetType, StubTmpType DEF StubTarget, StubTmp
  <2>4. \A p \in StubPath : p # StubTarget /\ p # StubTmp(StubTarget) => linux'[p] = linux[p]
    BY <1>0, <1>1, <2>3 DEF SignStub, RenameStub
  <2> QED  BY <2>3, <2>4 DEF Uncounted
<1>2. CASE CollectLinux
  <2>1. \A p \in StubPath : linux'[p] \in {None, linux[p]}
    BY <1>0, <1>2 DEF CollectLinux, Garbage
  <2> QED  BY <2>1 DEF Uncounted
<1>3. ~(BootTry \/ Bless)
  <2> SUFFICES ASSUME BootTry \/ Bless PROVE FALSE
    OBVIOUS
  <2>1. PICK p \in StubPath : /\ linux[p] # None
                              /\ \E l, d : p.suffix = <<l>> \/ p.suffix = <<l, d>>
    BY DEF BootTry, Bless, MoveStub
  <2>2. \A l, d : <<l>> # <<>> /\ <<l, d>> # <<>>
    OBVIOUS
  <2> QED  BY <2>1, <2>2 DEF Uncounted
<1>4. CASE ~(SignStub \/ RenameStub \/ CollectLinux)
  <2>1. linux' = linux
    BY <1>3, <1>4 DEF Next, Start, GiveUp, InstallStep, Registered, NotRegistered,
       InstallKernel, RenameKernel, InstallInitrd, RenameInitrd, LockImage, InstalledAll,
       SyncFs, BootLoaderInstalled, CollectStep, CollectNixos, CollectPcrlock, Finish, Abort,
       Exit, Environment, NewGeneration, DeleteGeneration, Reconfigure, DeleteCaFile, files,
       vars
  <2> QED  BY <2>1 DEF Uncounted
<1> QED  BY <1>1, <1>2, <1>4

\* All that is said about a run's roots and its collection.
CollectionInvariant ==
  /\ Core /\ StubNames /\ RunInvariant
  /\ CollectionPosition /\ OwnImages /\ RootsExact /\ LinuxCollected

\* It holds when systemd-bless-boot does not run beside lzbt.
THEOREM CollectionInvariantHolds ==
  ASSUME ~ConcurrentBless PROVE Spec => []CollectionInvariant
<1>1. Init => CollectionPosition /\ OwnImages /\ RootsExact /\ LinuxCollected
  BY CollectionInit DEF Init, OwnImages, RootsExact, RootedStubsBoot, RootedOnce,
     RootedFilesJustified, RootedStubs, RootedFiles, LinuxCollected
<1>2. /\ Core /\ RunInvariant /\ CollectionPosition /\ OwnImages /\ RootsExact /\ LinuxCollected
      /\ [Next]_vars
      => (CollectionPosition /\ OwnImages /\ RootsExact /\ LinuxCollected)'
  BY CollectionPositionStep, OwnImagesStep, RootsExactStep, LinuxCollectedStep
<1>3. Spec => [](Core /\ StubNames /\ RunInvariant)
  BY Invariance, RunInvariantHolds, PTL
<1> QED  BY <1>1, <1>2, <1>3, PTL DEF Spec, CollectionInvariant

\* Such a run leaves no kernel or initrd that no boot entry uses, but for an
\* initrd whose secrets changed before Measured Boot replaced its stub.
THEOREM NoUnusedFilesHolds ==
  ASSUME ~ConcurrentBless PROVE Spec => []NoUnusedFiles
<1>1. CollectionInvariant => NoUnusedFiles
  <2> SUFFICES ASSUME CollectionInvariant, pc = "done", broken_gens = {},
                      NEW f \in CaPath, nixos[f] # None
               PROVE  \/ \E p \in StubPath : Boots(p) /\ f \in StubRoots(p)
                      \/ /\ cfg.measured /\ f.kind = "initrd"
                         /\ \E e \in generations : f.hash \in Initrds[e.top]
    BY DEF NoUnusedFiles
  <2>1. f \in RootedFiles
    BY DEF CollectionInvariant, CollectionPosition, Garbage, Core, TypeOK, RootedFiles
  <2>2. Justified(f)
    BY <2>1 DEF CollectionInvariant, RootsExact, RootedFilesJustified
  <2>3. \A p \in RootedStubs : p \in StubPath /\ Boots(p)
    BY DEF CollectionInvariant, RootsExact, RootedStubsBoot, RootedStubs, Replacing
  <2> QED  BY <2>2, <2>3 DEF Justified, Installing
<1> QED  BY <1>1, CollectionInvariantHolds, PTL

-----------------------------------------------------------------------------
(* The configuration limit.                                                *)

\* A set of natural numbers that is not empty has a least one.
LEMMA LeastNumber ==
  ASSUME NEW S, S \subseteq Nat, S # {}
  PROVE  \E x \in S : \A y \in S : x <= y
<1>1. PICK x \in S : \A y \in S : ~ (<<y, x>> \in OpToRel(<, Nat))
  BY NatLessThanWellFounded, WFMin
<1>2. ASSUME NEW y \in S, y < x PROVE FALSE
  <2>1. <<y, x>> \in OpToRel(<, Nat)
    BY <1>2 DEF OpToRel
  <2> QED  BY <1>1, <2>1
<1> QED  BY <1>2

\* The links that are newer than v.
Newer(v) == {w \in Links : w > v}

\* They are finitely many, and fewer the newer v is.
LEMMA NewerFacts ==
  ASSUME NEW v \in Links
  PROVE  /\ IsFiniteSet(Newer(v)) /\ Cardinality(Newer(v)) \in Nat
         /\ \A w \in Newer(v) : Cardinality(Newer(w)) < Cardinality(Newer(v))
<1>1. \A x \in Links : x \in Nat
  BY ConstantsAssumption DEF Links
<1>2. \A x : IsFiniteSet(Newer(x)) /\ Cardinality(Newer(x)) \in Nat
  <2>1. \A x : Newer(x) \subseteq Versions
    BY DEF Newer, Links
  <2> QED  BY <2>1, VersionsAssumption, FS_Subset, FS_CardinalityType
<1>3. ASSUME NEW w \in Newer(v) PROVE Cardinality(Newer(w)) < Cardinality(Newer(v))
  <2>1. w \in Links /\ w > v /\ w \in Nat /\ v \in Nat
    BY <1>1 DEF Newer
  <2>2. ASSUME NEW x \in Newer(w) PROVE x \in Newer(v)
    <3>1. x \in Links /\ x \in Nat /\ x > w
      BY <1>1 DEF Newer
    <3>2. x > v
      BY <2>1, <3>1
    <3> QED  BY <3>1, <3>2 DEF Newer
  <2>3. w \notin Newer(w)
    BY <2>1 DEF Newer
  <2>4. /\ Cardinality(Newer(w)) <= Cardinality(Newer(v))
        /\ Cardinality(Newer(v)) = Cardinality(Newer(w)) => Newer(v) = Newer(w)
    BY <1>2, <2>2, FS_Subset
  <2> QED  BY <1>2, <1>3, <2>3, <2>4
<1> QED  BY <1>2, <1>3

\* The sorted and limited links are the newest ones.
LEMMA LimitKeepsNewest ==
  ASSUME cfg.limit \in Nat PROVE AreNewest(LimitedLinks)
<1>1. \A x \in Links : x \in Nat
  BY ConstantsAssumption DEF Links
<1>2. IsFiniteSet(Links) /\ Cardinality(Links) \in Nat
  BY VersionsAssumption, FS_Subset, FS_CardinalityType DEF Links
<1>3. CASE cfg.limit = 0
  BY <1>3 DEF AreNewest, LimitedLinks
<1>4. CASE cfg.limit # 0
  <2>1. PICK K : K = LimitedLinks /\ K = {v \in Links : Cardinality(Newer(v)) < cfg.limit}
    BY <1>4 DEF LimitedLinks, Newer
  <2>2. K \subseteq Links
    BY <2>1
  <2>3. IsFiniteSet(K) /\ Cardinality(K) \in Nat /\ Cardinality(K) <= Cardinality(Links)
    BY <1>2, <2>2, FS_Subset, FS_CardinalityType
  <2>4. ASSUME NEW v \in K, NEW w \in Links, v < w PROVE w \in K
    <3>1. v \in Links /\ w \in Newer(v)
      BY <1>1, <2>2, <2>4 DEF Newer
    <3>2. Cardinality(Newer(w)) \in Nat /\ Cardinality(Newer(w)) < Cardinality(Newer(v))
      BY <3>1, NewerFacts
    <3> QED  BY <2>1, <3>1, <3>2, NewerFacts
  <2>5. Cardinality(K) <= cfg.limit
    <3>1. CASE K = {}
      BY <3>1, FS_EmptySet
    <3>2. CASE K # {}
      <4>1. PICK x \in K : \A y \in K : x <= y
        BY <1>1, <2>2, <3>2, LeastNumber
      <4>2. K \subseteq Newer(x) \cup {x}
        BY <1>1, <2>2, <4>1 DEF Newer
      <4>3. /\ IsFiniteSet(Newer(x) \cup {x})
            /\ Cardinality(Newer(x) \cup {x}) <= Cardinality(Newer(x)) + 1
        BY <2>2, NewerFacts, FS_AddElement
      <4>4. Cardinality(K) <= Cardinality(Newer(x) \cup {x})
        BY <4>2, <4>3, FS_Subset
      <4>5. Cardinality(Newer(x)) \in Nat /\ Cardinality(Newer(x)) < cfg.limit
        BY <2>1, <2>2, NewerFacts
      <4>6. Cardinality(Newer(x) \cup {x}) \in Nat
        BY <4>3, FS_CardinalityType
      <4> QED  BY <2>3, <4>3, <4>4, <4>5, <4>6
    <3> QED  BY <3>1, <3>2
  <2>6. ASSUME K # Links PROVE Cardinality(K) >= cfg.limit
    <3>1. PICK S : S = {Cardinality(Newer(v)) : v \in Links \ K}
      OBVIOUS
    <3>2. S \subseteq Nat /\ S # {}
      BY <2>2, <2>6, <3>1, NewerFacts
    <3>3. PICK n \in S : \A m \in S : n <= m
      BY <3>2, LeastNumber
    <3>4. PICK v \in Links \ K : n = Cardinality(Newer(v))
      BY <3>1, <3>3
    <3>5. Newer(v) \subseteq K
      <4>1. SUFFICES ASSUME NEW w \in Newer(v), w \notin K PROVE FALSE
        OBVIOUS
      <4>2. Cardinality(Newer(w)) \in S
        BY <3>1, <4>1 DEF Newer
      <4>3. Cardinality(Newer(w)) < n
        BY <3>4, NewerFacts
      <4>4. PICK m \in Nat : m = Cardinality(Newer(w)) /\ n <= m
        BY <3>2, <3>3, <4>2
      <4>5. n \in Nat
        BY <3>2, <3>3
      <4> QED  BY <4>3, <4>4, <4>5
    <3>6. Cardinality(Newer(v)) <= Cardinality(K)
      BY <2>3, <3>5, FS_Subset
    <3>7. n \in Nat /\ ~(n < cfg.limit)
      BY <2>1, <3>2, <3>3, <3>4
    <3> QED  BY <2>3, <3>4, <3>6, <3>7
  <2>7. Cardinality(Links) <= cfg.limit => K = Links
    <3>1. ASSUME Cardinality(Links) <= cfg.limit, K # Links PROVE FALSE
      <4>1. Cardinality(K) = Cardinality(Links)
        BY <1>2, <2>3, <2>6, <3>1
      <4> QED  BY <1>2, <2>2, <3>1, <4>1, FS_Subset
    <3> QED  BY <3>1
  <2>8. ~(Cardinality(Links) <= cfg.limit) => Cardinality(K) = cfg.limit
    <3>1. ASSUME ~(Cardinality(Links) <= cfg.limit) PROVE K # Links
      BY <2>5, <3>1
    <3> QED  BY <2>3, <2>5, <2>6, <3>1
  <2> QED  BY <1>4, <2>1, <2>2, <2>4, <2>7, <2>8 DEF AreNewest
<1> QED  BY <1>3, <1>4

\* A run is about the profile as it is.
RunIsCurrent ==
  pc # "idle" =>
    /\ generations = UNION {EntriesOf(v) : v \in ReadableLinks}
    /\ broken_gens = LimitedLinks \ ReadableLinks

\* While a run lasts, nothing changes what it is about.
LEMMA RunIsCurrentStep ==
  ASSUME RunIsCurrent, [Next]_vars PROVE RunIsCurrent'
<1>0. ASSUME UNCHANGED <<profile, cfg>>
      PROVE  /\ LimitedLinks' = LimitedLinks /\ ReadableLinks' = ReadableLinks
             /\ \A v : EntriesOf(v)' = EntriesOf(v)
  <2>1. Links' = Links
    BY <1>0 DEF Links
  <2>2. LimitedLinks' = LimitedLinks
    BY <1>0, <2>1 DEF LimitedLinks
  <2>3. ReadableLinks' = ReadableLinks
    BY <1>0, <2>2 DEF ReadableLinks
  <2>4. \A v : EntriesOf(v)' = EntriesOf(v)
    BY <1>0 DEF EntriesOf
  <2> QED  BY <2>2, <2>3, <2>4
<1>1. ASSUME UNCHANGED <<profile, cfg, generations, broken_gens>>, pc = "idle" => pc' = "idle"
      PROVE  RunIsCurrent'
  BY <1>0, <1>1 DEF RunIsCurrent
<1>2. CASE Start
  BY <1>0, <1>2 DEF RunIsCurrent, Start, env
<1>3. CASE Finish \/ Abort
  BY <1>3 DEF Finish, Abort, Exit, RunIsCurrent
<1>4. CASE Environment
  <2>1. CASE pc = "idle"
    BY <1>4, <2>1, EnvironmentFacts DEF RunIsCurrent, run
  <2>2. CASE pc # "idle"
    BY <1>1, <1>4, <2>2, EnvironmentFacts DEF run
  <2> QED  BY <2>1, <2>2
<1>5. ASSUME UNCHANGED vars \/ GiveUp \/ InstallStep \/ CollectStep
      PROVE  UNCHANGED <<profile, cfg, generations, broken_gens>> /\ (pc = "idle" => pc' = "idle")
  BY <1>5, LoopSteps DEF vars, GiveUp, CollectStep, CollectNixos, CollectLinux, CollectPcrlock, env,
     Installing
<1> QED  BY <1>1, <1>2, <1>3, <1>4, <1>5 DEF Next

\* A run that ends with garbage collection leaves exactly the boot menu of the
\* newest generations, as many as the limit allows and each one once, if Measured Boot and boot counting
\* are not both in use.
THEOREM MenuIsExactHolds ==
  ASSUME ~ConcurrentBless, NeverMeasured \/ NeverCounted PROVE Spec => []MenuIsExact
<1>1. Init => (NeverCounted => Uncounted)
  BY DEF Init, Uncounted
<1>2. /\ CollectionInvariant /\ (NeverCounted => Uncounted) /\ [Next]_vars
      => (NeverCounted => Uncounted)'
  BY UncountedStep DEF CollectionInvariant, NeverCounted
<1>0. Init => RunIsCurrent
  BY DEF Init, RunIsCurrent
<1>3. CollectionInvariant /\ (NeverCounted => Uncounted) /\ RunIsCurrent => MenuIsExact
  <2> SUFFICES ASSUME CollectionInvariant, NeverCounted => Uncounted, RunIsCurrent, pc = "done",
                      broken_gens = {}
               PROVE  MenuIsExact
    BY DEF MenuIsExact
  <2>1. ASSUME NEW p \in StubPath, linux[p] # None
        PROVE  /\ p \in RootedStubs /\ p.entry \in generations /\ p.key = cfg.key
               /\ Boots(p) /\ ~p.tmp
    <3>1. p \in RootedStubs
      BY <2>1 DEF CollectionInvariant, LinuxCollected, Garbage, Core, TypeOK, RootedStubs
    <3> QED  BY <3>1 DEF CollectionInvariant, RootsExact, RootedStubsBoot, Replacing
  <2>2. ASSUME NEW e \in generations PROVE Installed(e)
    <3>1. pc \notin Installing \cup {"generation"}
      BY DEF Installing
    <3> QED  BY <3>1, AllKept, KeptInstalled DEF CollectionInvariant
  <2>3. ASSUME NEW p \in StubPath, NEW q \in StubPath, linux[p] # None, linux[q] # None,
               p.entry = q.entry
        PROVE  p = q
    <3>1. CASE NeverMeasured
      <4>1. ~cfg.measured
        BY <3>1 DEF NeverMeasured, CollectionInvariant, Core, TypeOK
      <4> QED  BY <2>1, <2>3, <4>1 DEF CollectionInvariant, RootsExact, RootedOnce
    <3>2. CASE NeverCounted
      <4>1. p.suffix = q.suffix /\ p.key = q.key /\ p.tmp = q.tmp
        <5>1. p.suffix = q.suffix
          BY <2>3, <3>2 DEF Uncounted
        <5>2. p.tmp \in BOOLEAN /\ q.tmp \in BOOLEAN
          BY DEF StubPath
        <5> QED  BY <2>1, <2>3, <5>1, <5>2
      <4> QED  BY <2>3, <4>1 DEF StubPath
    <3> QED  BY <3>1, <3>2
  <2>4. generations = UNION {EntriesOf(v) : v \in LimitedLinks}
    BY DEF RunIsCurrent, ReadableLinks
  <2>5. ASSUME NEW v PROVE EntriesOf(v) # {} /\ \A e \in EntriesOf(v) : e.version = v
    <3>1. [version |-> v, spec |-> None, top |-> profile[v]] \in EntriesOf(v)
      BY DEF EntriesOf
    <3>2. ASSUME NEW e \in EntriesOf(v) PROVE e.version = v
      BY DEF EntriesOf
    <3> QED  BY <3>1, <3>2
  <2>6. ASSUME NEW p \in StubPath, linux[p] # None PROVE p.entry \in EntriesOf(p.entry.version)
    BY <2>1, <2>4, <2>5, <2>6
  <2>7. {p.entry.version : p \in {q \in StubPath : linux[q] # None}} = LimitedLinks
    <3>1. ASSUME NEW p \in StubPath, linux[p] # None PROVE p.entry.version \in LimitedLinks
      BY <2>1, <2>4, <2>5, <3>1
    <3>2. ASSUME NEW v \in LimitedLinks
          PROVE  \E p \in StubPath : linux[p] # None /\ p.entry.version = v
      <4>1. PICK e \in EntriesOf(v) : e \in generations /\ e.version = v
        BY <2>4, <2>5
      <4>2. PICK p \in StubPath : p.entry = e /\ Boots(p)
        BY <2>2, <4>1 DEF Installed
      <4>3. linux[p] # None
        BY <4>2, NoneAssumption DEF Boots
      <4> QED  BY <4>1, <4>2, <4>3
    <3> QED  BY <3>1, <3>2
  <2>8. AreNewest(LimitedLinks)
    <3>1. cfg.limit \in Nat
      BY ConstantsAssumption DEF CollectionInvariant, Core, TypeOK
    <3> QED  BY <3>1, LimitKeepsNewest
  <2> QED  BY <2>1, <2>2, <2>3, <2>6, <2>7, <2>8 DEF MenuIsExact
<1> QED  BY <1>0, <1>1, <1>2, <1>3, RunIsCurrentStep, CollectionInvariantHolds, PTL DEF Spec
=============================================================================
