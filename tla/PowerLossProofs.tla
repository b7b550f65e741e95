-------------------------- MODULE PowerLossProofs --------------------------
(***************************************************************************)
(* Proofs that the installer survives power losses, for any number of them *)
(* at any step: kernels and initrds keep what their names promise, what a  *)
(* run has installed is on disk before garbage is collected, and an ESP    *)
(* that boots keeps booting.  Runs of lzbt are cut short as in Installer.  *)
(***************************************************************************)
EXTENDS PowerLoss, CollectionProofs

-----------------------------------------------------------------------------
(* What is true between two steps.                                         *)

PowerCore == Core /\ DiskTypeOK /\ CaNamesSurvive

\* From syncfs on, what is rooted is on disk.
SyncedRoots ==
  pc \in {"bootloader", "gc_nixos", "gc_linux", "gc_pcrlock", "done"} =>
    /\ \A p \in RootedStubs : linux_disk[p] = {linux[p]}
    /\ \A f \in RootedFiles : nixos_disk[f] = {nixos[f]}

\* Whatever a power loss leaves under the final name of a stub, if it can be
\* read it is a stub of that generation, signed with the key of the name.
StubNamesSurvive ==
  \A p \in StubPath : \A x \in linux_disk[p] : ~p.tmp /\ x \in SignedImage =>
    x.image.entry = p.entry /\ x.signer = p.key

\* Without boot counting no name with a counter comes up.
DiskUncounted == \A p \in StubPath : \A x \in linux_disk[p] : x # None => p.suffix = <<>>

\* The stub that the run is going to replace does not boot, or would not after
\* a power loss.
ReplacesDead ==
  pc \in Installing =>
    \/ linux[StubTarget] \notin SignedImage
    \/ None \in nixos_disk[KernelPath(linux[StubTarget].image.linux)]
    \/ None \in nixos_disk[InitrdPath(linux[StubTarget].image.initrd)]

-----------------------------------------------------------------------------
(* The steps, as steps of the installer.                                   *)

\* Every step but a power loss is one of the installer.
LEMMA PowerIsNext ==
  ASSUME [PowerNext]_allVars, ~LosePower PROVE [Next]_vars
BY DEF PowerNext, QuietStep, Killed, CopyStep, SignStep, InstallSignedStep, SyncStep,
   CollectGarbageStep, Next, InstallStep, Environment, allVars

\* A quiet step and a kill leave both directories and the disk alone.
LEMMA QuietFacts ==
  ASSUME QuietStep \/ Killed \/ UNCHANGED allVars
  PROVE  UNCHANGED <<linux, nixos, linux_disk, nixos_disk>>
BY DEF QuietStep, Killed, Start, Registered, NotRegistered, LockImage, InstalledAll,
   BootLoaderInstalled, Finish, Abort, Exit, NewGeneration, DeleteGeneration, Reconfigure,
   files, disk, allVars, vars

\* What a step that is written back some time may leave under a name.
LEMMA PendingFacts ==
  ASSUME NEW before, NEW after, NEW dir
  PROVE  /\ DOMAIN Pending(before, after, dir) = DOMAIN dir
         /\ Pending(before, after, dir) = [p \in DOMAIN dir |-> Pending(before, after, dir)[p]]
         /\ \A p \in DOMAIN dir :
              /\ before[p] = after[p] => Pending(before, after, dir)[p] = dir[p]
              /\ before[p] # after[p] => Pending(before, after, dir)[p] = dir[p] \cup {after[p]}
BY DEF Pending

\* A power loss leaves under each name something that may be there.
LEMMA SurvivorsFacts ==
  ASSUME NEW dir, NEW x \in Survivors(dir), \A p \in DOMAIN dir : dir[p] # {}
  PROVE  x = [p \in DOMAIN dir |-> x[p]] /\ \A p \in DOMAIN dir : x[p] \in dir[p]
<1> DEFINE pending == {p \in DOMAIN dir : \E y, z \in dir[p] : y # z}
           found == {f \in [pending -> UNION {dir[p] : p \in pending}] :
                       \A p \in pending : f[p] \in dir[p]}
<1>1. PICK f \in found :
        x = [p \in DOMAIN dir |-> IF p \in pending THEN f[p] ELSE CHOOSE y \in dir[p] : TRUE]
  BY DEF Survivors
<1>2. \A p \in pending : f[p] \in dir[p]
  BY <1>1
<1>3. \A p \in DOMAIN dir : (CHOOSE y \in dir[p] : TRUE) \in dir[p]
  OBVIOUS
<1> HIDE DEF pending, found
<1> QED  BY <1>1, <1>2, <1>3

\* The file systems a power loss leaves, and what they may be from then on.
LEMMA LosePowerFacts ==
  ASSUME DiskTypeOK, LosePower
  PROVE  /\ linux' \in [StubPath -> SignedImage \cup {None, Partial}]
         /\ nixos' \in [CaPath -> Blobs \cup {None, Partial}]
         /\ \A p \in StubPath : linux'[p] \in linux_disk[p] /\ linux_disk'[p] = {linux'[p]}
         /\ \A p \in CaPath : nixos'[p] \in nixos_disk[p] /\ nixos_disk'[p] = {nixos'[p]}
         /\ linux_disk' \in [StubPath -> SUBSET (SignedImage \cup {None, Partial})]
         /\ nixos_disk' \in [CaPath -> SUBSET (Blobs \cup {None, Partial})]
<1>1. DOMAIN linux_disk = StubPath /\ DOMAIN nixos_disk = CaPath
  BY DEF DiskTypeOK
<1>2. /\ linux' = [p \in StubPath |-> linux'[p]] /\ \A p \in StubPath : linux'[p] \in linux_disk[p]
  <2>1. \A p \in DOMAIN linux_disk : linux_disk[p] # {}
    BY <1>1 DEF DiskTypeOK
  <2>2. linux' \in Survivors(linux_disk)
    BY DEF LosePower
  <2> QED  BY <1>1, <2>1, <2>2, SurvivorsFacts
<1>3. /\ nixos' = [p \in CaPath |-> nixos'[p]] /\ \A p \in CaPath : nixos'[p] \in nixos_disk[p]
  <2>1. \A p \in DOMAIN nixos_disk : nixos_disk[p] # {}
    BY <1>1 DEF DiskTypeOK
  <2>2. nixos' \in Survivors(nixos_disk)
    BY DEF LosePower
  <2> QED  BY <1>1, <2>1, <2>2, SurvivorsFacts
<1>4. /\ linux' \in [StubPath -> SignedImage \cup {None, Partial}]
      /\ nixos' \in [CaPath -> Blobs \cup {None, Partial}]
  BY <1>2, <1>3 DEF DiskTypeOK
<1>5. /\ linux_disk' = [p \in StubPath |-> {linux'[p]}]
      /\ nixos_disk' = [p \in CaPath |-> {nixos'[p]}]
  BY <1>4 DEF LosePower, Written
<1> QED  BY <1>2, <1>3, <1>4, <1>5

\* What the stub that install_signed puts in place may come up as.
LEMMA InstallSignedFacts ==
  ASSUME Core, DiskTypeOK, InstallSignedStep
  PROVE  \E t \in StubPath, x \in SignedImage :
           /\ t = StubTarget /\ ~t.tmp /\ t.entry = current /\ t.key = cfg.key
           /\ x.image.entry = current /\ x.signer = cfg.key /\ linux'[t] = x
           /\ StubTmp(t) \in StubPath /\ StubTmp(t).tmp
           /\ linux_disk'[t] = linux_disk[t] \cup Unsynced(x)
           /\ linux_disk'[StubTmp(t)] = linux_disk[StubTmp(t)] \cup {None}
           /\ linux'[StubTmp(t)] = None
           /\ \A p \in StubPath \ {t, StubTmp(t)} :
                linux'[p] = linux[p] /\ linux_disk'[p] = linux_disk[p]
           /\ linux_disk' = [p \in StubPath |-> linux_disk'[p]]
           /\ UNCHANGED <<nixos, nixos_disk>>
<1>1. current \in Entry /\ initrd \in Blobs /\ cfg \in Configs
  BY CurrentType DEF InstallSignedStep, RenameStub, Installing, Core, TypeOK, RunPosition
<1>2. PICK t \in StubPath : t = StubTarget
  BY <1>1, StubTargetType
<1>3. /\ t.entry = current /\ t.key = cfg.key /\ ~t.tmp /\ StubTmp(t) \in StubPath
      /\ StubTmp(t).tmp /\ t # StubTmp(t)
  BY <1>1, <1>2, StubTargetType, StubTmpType
<1>4. PICK x \in SignedImage : x = [image |-> CurrentImage, signer |-> cfg.key]
  BY <1>1, CurrentImageType
<1>5. x.image.entry = current /\ x.signer = cfg.key
  BY <1>1, <1>4, CurrentImageType
<1>6. /\ linux' = [linux EXCEPT ![t] = x, ![StubTmp(t)] = None]
      /\ linux_disk' = [linux_disk EXCEPT ![t] = @ \cup Unsynced(linux'[t]),
                                          ![StubTmp(t)] = @ \cup {None}]
      /\ UNCHANGED <<nixos, nixos_disk>>
  BY <1>2, <1>4 DEF InstallSignedStep, RenameStub
<1>7. /\ linux'[t] = x /\ linux'[StubTmp(t)] = None
      /\ \A p \in StubPath \ {t, StubTmp(t)} : linux'[p] = linux[p]
  BY <1>3, <1>6 DEF Core, TypeOK
<1>8. /\ linux_disk'[t] = linux_disk[t] \cup Unsynced(x)
      /\ linux_disk'[StubTmp(t)] = linux_disk[StubTmp(t)] \cup {None}
      /\ \A p \in StubPath \ {t, StubTmp(t)} : linux_disk'[p] = linux_disk[p]
      /\ linux_disk' = [p \in StubPath |-> linux_disk'[p]]
  BY <1>3, <1>6, <1>7 DEF DiskTypeOK
<1>9. /\ linux'[t] = x /\ linux'[StubTmp(t)] = None
      /\ linux_disk'[t] = linux_disk[t] \cup Unsynced(x)
      /\ linux_disk'[StubTmp(t)] = linux_disk[StubTmp(t)] \cup {None}
      /\ \A p \in StubPath \ {t, StubTmp(t)} :
           linux'[p] = linux[p] /\ linux_disk'[p] = linux_disk[p]
  BY <1>7, <1>8, Zenon
<1> QED  BY <1>2, <1>3, <1>5, <1>6, <1>8, <1>9, Zenon

\* sbsign writes to a temporary name only.
LEMMA SignFacts ==
  ASSUME Core, DiskTypeOK, SignStep
  PROVE  \E t \in StubPath :
           /\ t.tmp /\ t.suffix = StubTarget.suffix
           /\ linux'[t] = Partial /\ linux_disk'[t] = linux_disk[t] \cup {Partial}
           /\ \A p \in StubPath \ {t} : linux'[p] = linux[p] /\ linux_disk'[p] = linux_disk[p]
           /\ linux_disk' = [p \in StubPath |-> linux_disk'[p]]
           /\ UNCHANGED <<nixos, nixos_disk>>
<1>1. current \in Entry /\ cfg \in Configs
  BY CurrentType DEF SignStep, SignStub, Installing, Core, TypeOK
<1>2. PICK t \in StubPath : t = StubTmp(StubTarget)
  BY <1>1, StubTargetType, StubTmpType
<1>3. t.tmp /\ t.suffix = StubTarget.suffix
  BY <1>1, <1>2, StubTargetType, StubTmpType DEF StubTmp
<1>4. /\ linux' = [linux EXCEPT ![t] = Partial]
      /\ linux_disk' = [linux_disk EXCEPT ![t] = @ \cup {Partial}]
      /\ UNCHANGED <<nixos, nixos_disk>>
  BY <1>2 DEF SignStep, SignStub
<1> QED  BY <1>3, <1>4 DEF Core, TypeOK, DiskTypeOK

-----------------------------------------------------------------------------
(* Part 1: types, and the names of kernels and initrds.                    *)

\* An empty ESP has nothing to lose.
LEMMA PowerCoreInit == PowerInit => PowerCore
<1> SUFFICES ASSUME PowerInit PROVE PowerCore
  OBVIOUS
<1>1. Core
  BY InitType DEF PowerInit
<1>2. /\ linux_disk = [p \in StubPath |-> {linux[p]}]
      /\ nixos_disk = [p \in CaPath |-> {nixos[p]}]
  BY <1>1 DEF PowerInit, Written, Core, TypeOK
<1>3. DiskTypeOK
  BY <1>1, <1>2, PowerAssumption DEF PowerInit, DiskTypeOK, Core, TypeOK
<1>4. CaNamesSurvive
  BY <1>1, <1>2 DEF CaNamesSurvive, Core, CaNames
<1> QED  BY <1>1, <1>3, <1>4 DEF PowerCore

\* A step of EFI/nixos that is written back some time keeps what is said about
\* its names.
LEMMA NixosPendingStep ==
  ASSUME PowerCore, Core', nixos_disk' = NixosPending
  PROVE  /\ nixos_disk' \in [CaPath -> SUBSET (Blobs \cup {None, Partial})]
         /\ \A p \in CaPath : nixos'[p] \in nixos_disk'[p] /\ nixos_disk[p] \subseteq nixos_disk'[p]
         /\ \A p \in CaPath : nixos'[p] = nixos[p] => nixos_disk'[p] = nixos_disk[p]
         /\ CaNamesSurvive'
<1>1. DOMAIN nixos_disk = CaPath /\ \A p \in CaPath : nixos[p] \in nixos_disk[p]
  BY DEF PowerCore, DiskTypeOK
<1>2. /\ nixos_disk' = [p \in CaPath |-> nixos_disk'[p]]
      /\ \A p \in CaPath :
           /\ nixos'[p] = nixos[p] => nixos_disk'[p] = nixos_disk[p]
           /\ nixos'[p] # nixos[p] => nixos_disk'[p] = nixos_disk[p] \cup {nixos'[p]}
  BY <1>1, PendingFacts DEF NixosPending
<1>3. nixos_disk' \in [CaPath -> SUBSET (Blobs \cup {None, Partial})]
  BY <1>2 DEF PowerCore, DiskTypeOK, Core, TypeOK
<1>4. CaNamesSurvive'
  BY <1>2 DEF PowerCore, CaNamesSurvive, Core, CaNames
<1> QED  BY <1>1, <1>2, <1>3, <1>4

\* No step, and no power loss, breaks what is true between two steps.
LEMMA PowerCoreStep ==
  ASSUME PowerCore, [PowerNext]_allVars PROVE PowerCore'
<1> USE DEF PowerCore
<1>1. CASE LosePower
  <2>1. /\ linux' \in [StubPath -> SignedImage \cup {None, Partial}]
        /\ nixos' \in [CaPath -> Blobs \cup {None, Partial}]
        /\ \A p \in StubPath : linux'[p] \in linux_disk[p] /\ linux_disk'[p] = {linux'[p]}
        /\ \A p \in CaPath : nixos'[p] \in nixos_disk[p] /\ nixos_disk'[p] = {nixos'[p]}
        /\ linux_disk' \in [StubPath -> SUBSET (SignedImage \cup {None, Partial})]
        /\ nixos_disk' \in [CaPath -> SUBSET (Blobs \cup {None, Partial})]
    BY <1>1, LosePowerFacts
  <2>2. TypeOK'
    BY <1>1, <2>1 DEF LosePower, Core, TypeOK, Steps
  <2>3. CaNames' /\ CaNamesSurvive'
    BY <2>1 DEF CaNames, CaNamesSurvive
  <2>4. RunPosition'
    BY <1>1 DEF LosePower, RunPosition, Installing
  <2>5. DiskTypeOK'
    BY <1>1, <2>1, PowerAssumption DEF LosePower, DiskTypeOK
  <2> QED  BY <2>2, <2>3, <2>4, <2>5 DEF Core
<1>2. CASE ~LosePower
  <2>0. Core' /\ losses' = losses
    BY <1>2, PowerIsNext, CoreStep DEF PowerNext, allVars
  <2>1. CASE QuietStep \/ Killed \/ UNCHANGED allVars
    BY <2>0, <2>1, QuietFacts DEF DiskTypeOK, CaNamesSurvive
  <2>2. CASE CopyStep
    <3>1. nixos_disk' = NixosPending /\ UNCHANGED <<linux, linux_disk>>
      BY <2>2 DEF CopyStep, InstallKernel, RenameKernel, InstallInitrd, RenameInitrd
    <3> QED  BY <2>0, <3>1, NixosPendingStep DEF DiskTypeOK
  <2>3. CASE SignStep
    <3>1. PICK t \in StubPath :
            /\ linux'[t] = Partial /\ linux_disk'[t] = linux_disk[t] \cup {Partial}
            /\ \A p \in StubPath \ {t} : linux'[p] = linux[p] /\ linux_disk'[p] = linux_disk[p]
            /\ linux_disk' = [p \in StubPath |-> linux_disk'[p]]
            /\ UNCHANGED <<nixos, nixos_disk>>
      BY <2>3, SignFacts
    <3>2. linux_disk' \in [StubPath -> SUBSET (SignedImage \cup {None, Partial})]
      BY <3>1 DEF DiskTypeOK
    <3>3. \A p \in StubPath : linux'[p] \in linux_disk'[p]
      BY <3>1 DEF DiskTypeOK
    <3> QED  BY <2>0, <3>1, <3>2, <3>3 DEF DiskTypeOK, CaNamesSurvive
  <2>4. CASE InstallSignedStep
    <3>1. PICK t \in StubPath, x \in SignedImage :
            /\ linux'[t] = x /\ StubTmp(t) \in StubPath
            /\ linux_disk'[t] = linux_disk[t] \cup Unsynced(x)
            /\ linux_disk'[StubTmp(t)] = linux_disk[StubTmp(t)] \cup {None}
            /\ linux'[StubTmp(t)] = None
            /\ \A p \in StubPath \ {t, StubTmp(t)} :
                 linux'[p] = linux[p] /\ linux_disk'[p] = linux_disk[p]
            /\ linux_disk' = [p \in StubPath |-> linux_disk'[p]]
            /\ UNCHANGED <<nixos, nixos_disk>>
      BY <2>4, InstallSignedFacts
    <3>2. x \in Unsynced(x) /\ Unsynced(x) \subseteq SignedImage \cup {Partial}
      <4>1. [image |-> x.image, signer |-> TornSigner] \in SignedImage
        BY PowerAssumption DEF SignedImage
      <4> QED  BY <4>1 DEF Unsynced
    <3>3. linux_disk' \in [StubPath -> SUBSET (SignedImage \cup {None, Partial})]
      <4>1. \A p \in StubPath : linux_disk[p] \subseteq SignedImage \cup {None, Partial}
        BY DEF DiskTypeOK
      <4>2. \A p \in StubPath : linux_disk'[p] \subseteq SignedImage \cup {None, Partial}
        BY <3>1, <3>2, <4>1
      <4> QED  BY <3>1, <4>2
    <3>4. \A p \in StubPath : linux'[p] \in linux_disk'[p]
      BY <3>1, <3>2 DEF DiskTypeOK
    <3> QED  BY <2>0, <3>1, <3>3, <3>4 DEF DiskTypeOK, CaNamesSurvive
  <2>5. CASE SyncStep
    <3>1. /\ UNCHANGED <<linux, nixos>>
          /\ linux_disk' = [p \in StubPath |-> {linux[p]}]
          /\ nixos_disk' = [p \in CaPath |-> {nixos[p]}]
      BY <2>5 DEF SyncStep, SyncFs, files, Written, Core, TypeOK
    <3>2. DiskTypeOK'
      BY <2>0, <3>1 DEF DiskTypeOK, Core, TypeOK
    <3>3. CaNamesSurvive'
      BY <3>1 DEF CaNamesSurvive, Core, CaNames
    <3> QED  BY <2>0, <3>2, <3>3
  <2>6. CASE CollectGarbageStep
    <3>1. nixos_disk' = NixosPending /\ linux_disk' = Pending(linux, linux', linux_disk)
      BY <2>6 DEF CollectGarbageStep
    <3>2. DOMAIN linux_disk = StubPath
      BY DEF DiskTypeOK
    <3>3. /\ linux_disk' = [p \in StubPath |-> linux_disk'[p]]
          /\ \A p \in StubPath :
               /\ linux'[p] = linux[p] => linux_disk'[p] = linux_disk[p]
               /\ linux'[p] # linux[p] => linux_disk'[p] = linux_disk[p] \cup {linux'[p]}
      BY <3>1, <3>2, PendingFacts
    <3>4. /\ linux_disk' \in [StubPath -> SUBSET (SignedImage \cup {None, Partial})]
          /\ \A p \in StubPath : linux'[p] \in linux_disk'[p]
      BY <2>0, <3>3 DEF DiskTypeOK, Core, TypeOK
    <3> QED  BY <2>0, <3>1, <3>4, NixosPendingStep DEF DiskTypeOK
  <2> QED  BY <1>2, <2>1, <2>2, <2>3, <2>4, <2>5, <2>6 DEF PowerNext
<1> QED  BY <1>1, <1>2

\* The invariant of part 1 holds however often power is lost.
LEMMA PowerCoreHolds == PowerSpec => []PowerCore
  BY PowerCoreInit, PowerCoreStep, PTL DEF PowerSpec

\* What may come up under a name is within its type and includes what is there.
THEOREM DiskTypeCorrect == PowerSpec => []DiskTypeOK
  BY PowerCoreHolds, PTL DEF PowerCore

\* Whatever power losses interrupt, a kernel or initrd under its final name has
\* the contents its name promises: atomic_copy syncs before it renames.
THEOREM CaNamesSurviveHolds == PowerSpec => []CaNamesSurvive
  BY PowerCoreHolds, PTL DEF PowerCore

-----------------------------------------------------------------------------
(* Part 2: what a run has installed is on disk before garbage is collected. *)

\* What the loop has passed stays bootable and rooted.
LEMMA PowerPassedStep ==
  ASSUME PowerCore, Passed, [PowerNext]_allVars PROVE Passed'
<1>1. CASE LosePower
  BY <1>1 DEF LosePower, Passed
<1>2. CASE UNCHANGED allVars
  BY <1>2 DEF allVars, vars, Passed, Kept, Boots, StubRoots
<1>3. CASE NewGeneration \/ DeleteGeneration \/ Reconfigure
  <2>1. pc = "idle" /\ generations' = generations
    BY <1>3 DEF NewGeneration, DeleteGeneration, Reconfigure, run
  <2> QED  BY <2>1 DEF PowerCore, Core, RunPosition, Passed
<1>4. CASE Start \/ InstallStep \/ CollectStep \/ Finish \/ Abort
  BY <1>4, RunKeepsPassed DEF PowerCore
<1> QED
  BY <1>1, <1>2, <1>3, <1>4 DEF PowerNext, QuietStep, Killed, CopyStep, SignStep,
     InstallSignedStep, SyncStep, CollectGarbageStep, InstallStep

\* The collection touches nothing that is rooted, neither now nor on disk.
LEMMA CollectRooted ==
  ASSUME PowerCore, CollectGarbageStep, Core'
  PROVE  /\ gc_roots' = gc_roots /\ cfg' = cfg /\ generations' = generations
         /\ \A p \in RootedStubs : linux'[p] = linux[p] /\ linux_disk'[p] = linux_disk[p]
         /\ \A f \in RootedFiles : nixos'[f] = nixos[f] /\ nixos_disk'[f] = nixos_disk[f]
<1>1. gc_roots' = gc_roots /\ cfg' = cfg /\ generations' = generations
  BY DEF CollectGarbageStep, CollectStep, CollectNixos, CollectLinux, CollectPcrlock, env
<1>2. \A p \in RootedStubs : linux'[p] = linux[p]
  BY DEF CollectGarbageStep, CollectStep, CollectNixos, CollectLinux, CollectPcrlock, Garbage,
     RootedStubs, PowerCore, Core, TypeOK
<1>3. \A f \in RootedFiles : nixos'[f] = nixos[f]
  BY DEF CollectGarbageStep, CollectStep, CollectNixos, CollectLinux, CollectPcrlock, Garbage,
     RootedFiles, PowerCore, Core, TypeOK
<1>4. nixos_disk' = NixosPending /\ linux_disk' = Pending(linux, linux', linux_disk)
  BY DEF CollectGarbageStep
<1>5. \A f \in RootedFiles : nixos_disk'[f] = nixos_disk[f]
  BY <1>3, <1>4, NixosPendingStep DEF RootedFiles
<1>6. \A p \in RootedStubs : linux_disk'[p] = linux_disk[p]
  <2>1. \A p \in RootedStubs : p \in DOMAIN linux_disk
    BY DEF RootedStubs, PowerCore, DiskTypeOK
  <2> QED  BY <1>2, <1>4, <2>1, PendingFacts
<1> QED  BY <1>1, <1>2, <1>3, <1>5, <1>6

\* From syncfs to the end of the run what is rooted stays on disk.
LEMMA SyncedRootsStep ==
  ASSUME PowerCore, SyncedRoots, [PowerNext]_allVars, PowerCore' PROVE SyncedRoots'
<1>1. CASE SyncStep
  <2>1. /\ UNCHANGED <<linux, nixos>>
        /\ linux_disk' = [p \in StubPath |-> {linux[p]}]
        /\ nixos_disk' = [p \in CaPath |-> {nixos[p]}]
    BY <1>1 DEF SyncStep, SyncFs, files, Written, PowerCore, Core, TypeOK
  <2> QED  BY <2>1 DEF SyncedRoots, RootedStubs, RootedFiles
<1>2. CASE CollectGarbageStep
  <2>1. pc \in {"gc_nixos", "gc_linux", "gc_pcrlock"}
    BY <1>2 DEF CollectGarbageStep, CollectStep, CollectNixos, CollectLinux, CollectPcrlock
  <2>2. RootedStubs' = RootedStubs /\ RootedFiles' = RootedFiles
    BY <1>2, CollectRooted DEF PowerCore, RootedStubs, RootedFiles
  <2> QED  BY <1>2, <2>1, <2>2, CollectRooted DEF PowerCore, SyncedRoots
<1>3. CASE BootLoaderInstalled /\ QuietStep
  <2>1. pc = "bootloader" /\ gc_roots' = gc_roots
    BY <1>3 DEF BootLoaderInstalled
  <2>2. UNCHANGED <<linux, nixos, linux_disk, nixos_disk>>
    BY <1>3, QuietFacts
  <2> QED  BY <2>1, <2>2 DEF SyncedRoots, RootedStubs, RootedFiles
<1>4. CASE UNCHANGED allVars
  BY <1>4 DEF allVars, vars, SyncedRoots, RootedStubs, RootedFiles
<1>5. CASE \/ QuietStep /\ ~BootLoaderInstalled
           \/ Killed \/ CopyStep \/ SignStep \/ InstallSignedStep \/ LosePower
  <2>1. pc' \notin {"bootloader", "gc_nixos", "gc_linux", "gc_pcrlock", "done"}
    BY <1>5 DEF QuietStep, Start, Registered, NotRegistered, LockImage, InstalledAll, Finish,
       NewGeneration, DeleteGeneration, Reconfigure, run, Killed, Abort, Exit, CopyStep,
       InstallKernel, RenameKernel, InstallInitrd, RenameInitrd, InstallCa, RenameCa, SignStep,
       SignStub, InstallSignedStep, RenameStub, LosePower
  <2> QED  BY <2>1 DEF SyncedRoots
<1> QED  BY <1>1, <1>2, <1>3, <1>4, <1>5 DEF PowerNext

SyncInvariant == PowerCore /\ Passed /\ SyncedRoots

\* The invariant of part 2 holds however often power is lost.
LEMMA SyncInvariantHolds == PowerSpec => []SyncInvariant
<1>1. PowerInit => SyncInvariant
  BY PowerCoreInit DEF PowerInit, Init, Passed, SyncedRoots, SyncInvariant
<1>2. SyncInvariant /\ [PowerNext]_allVars => SyncInvariant'
  BY PowerCoreStep, PowerPassedStep, SyncedRootsStep DEF SyncInvariant
<1> QED  BY <1>1, <1>2, PTL DEF PowerSpec

\* After syncfs every generation of the run boots whatever a power loss leaves,
\* from a stub that is rooted with its files.
LEMMA GenerationsDurable ==
  ASSUME SyncInvariant,
         pc \in {"bootloader", "gc_nixos", "gc_linux", "gc_pcrlock", "done"},
         NEW e \in generations
  PROVE  \E p \in StubPath : /\ p.entry = e /\ p.key = cfg.key /\ Durable(p)
                            /\ StubRoots(p) \subseteq gc_roots
<1>1. Kept(e)
  BY AllKept DEF SyncInvariant, PowerCore, Core, Passed, RunInvariant, Installing
<1>2. PICK p \in StubPath : /\ p.entry = e /\ p.key = cfg.key /\ Boots(p)
                            /\ StubRoots(p) \subseteq gc_roots
  BY <1>1 DEF Kept
<1>3. /\ KernelPath(linux[p].image.linux) \in RootedFiles
      /\ InitrdPath(linux[p].image.initrd) \in RootedFiles
      /\ p \in RootedStubs
  BY <1>2, SignedImageParts, CaPathType DEF Boots, StubRoots, RootedFiles, RootedStubs
<1>4. Durable(p)
  BY <1>2, <1>3 DEF SyncInvariant, SyncedRoots, Durable
<1> QED  BY <1>2, <1>4

\* From syncfs on, and so while garbage is collected, no power loss takes away
\* a generation of the run.
THEOREM DurableAfterSyncHolds == PowerSpec => []DurableAfterSync
<1>1. SyncInvariant => DurableAfterSync
  BY GenerationsDurable DEF DurableAfterSync
<1> QED  BY <1>1, SyncInvariantHolds, PTL

-----------------------------------------------------------------------------
(* Part 3: a run repairs what a power loss has left.                       *)

\* A stub that comes up readable is the one its name promises, if damage shows.
LEMMA StubNamesSurviveStep ==
  ASSUME ~Undetected, PowerCore, StubNames, StubNamesSurvive, [PowerNext]_allVars
  PROVE  StubNames' /\ StubNamesSurvive'
<1>1. CASE LosePower
  <2>1. \A p \in StubPath : linux'[p] \in linux_disk[p] /\ linux_disk'[p] = {linux'[p]}
    BY <1>1, LosePowerFacts DEF PowerCore
  <2> QED  BY <2>1 DEF StubNames, StubNamesSurvive
<1>2. CASE ~LosePower
  <2>0. StubNames'
    BY <1>2, PowerIsNext, StubNamesStep DEF PowerCore
  <2>1. CASE QuietStep \/ Killed \/ UNCHANGED allVars
    BY <2>0, <2>1, QuietFacts DEF StubNamesSurvive
  <2>2. CASE CopyStep
    BY <2>0, <2>2 DEF CopyStep, StubNamesSurvive
  <2>3. CASE SignStep
    <3>1. PICK t \in StubPath :
            t.tmp /\ \A p \in StubPath \ {t} : linux_disk'[p] = linux_disk[p]
      BY <2>3, SignFacts DEF PowerCore
    <3> QED  BY <2>0, <3>1 DEF StubNamesSurvive
  <2>4. CASE InstallSignedStep
    <3>1. PICK t \in StubPath, x \in SignedImage :
            /\ linux'[t] = x /\ ~t.tmp /\ t.entry = current /\ t.key = cfg.key
            /\ x.image.entry = current /\ x.signer = cfg.key /\ StubTmp(t).tmp
            /\ linux_disk'[t] = linux_disk[t] \cup Unsynced(x)
            /\ \A p \in StubPath \ {t, StubTmp(t)} : linux_disk'[p] = linux_disk[p]
      BY <2>4, InstallSignedFacts DEF PowerCore
    <3>2. Unsynced(x) = {x, Partial} /\ Partial \notin SignedImage
      BY NoneAssumption DEF Unsynced
    <3> QED  BY <2>0, <3>1, <3>2 DEF StubNamesSurvive
  <2>5. CASE SyncStep
    <3>1. linux_disk' = [p \in StubPath |-> {linux[p]}]
      BY <2>5 DEF SyncStep, Written, PowerCore, Core, TypeOK
    <3> QED  BY <2>0, <3>1 DEF StubNames, StubNamesSurvive
  <2>6. CASE CollectGarbageStep
    <3>1. /\ linux_disk' = Pending(linux, linux', linux_disk) /\ DOMAIN linux_disk = StubPath
          /\ \A p \in StubPath : linux'[p] \in {linux[p], None}
      BY <2>6 DEF CollectGarbageStep, CollectStep, CollectNixos, CollectLinux, CollectPcrlock,
         PowerCore, DiskTypeOK, Core, TypeOK
    <3>2. \A p \in StubPath : linux_disk'[p] \subseteq linux_disk[p] \cup {None}
      BY <3>1, PendingFacts
    <3> QED  BY <2>0, <3>2, NoneAssumption DEF StubNamesSurvive
  <2> QED  BY <1>2, <2>1, <2>2, <2>3, <2>4, <2>5, <2>6 DEF PowerNext
<1> QED  BY <1>1, <1>2

\* Whatever a power loss has left of earlier runs, once the loop of a run is
\* over all its generations boot with the configured key, provided a damaged
\* stub can be told from a whole one by reading it.
THEOREM PowerInstalledAfterLoop ==
  ASSUME ~Undetected PROVE PowerSpec => []InstalledAfterLoop
<1>1. PowerInit => StubNames /\ StubNamesSurvive
  BY InitType, NoneAssumption DEF PowerInit, Init, Written, StubNamesSurvive
<1>2. /\ SyncInvariant /\ StubNames /\ StubNamesSurvive /\ [PowerNext]_allVars
      => (StubNames /\ StubNamesSurvive)'
  BY StubNamesSurviveStep DEF SyncInvariant
<1>3. SyncInvariant /\ StubNames => InstalledAfterLoop
  BY AllKept, KeptInstalled
     DEF SyncInvariant, PowerCore, Core, Passed, RunInvariant, InstalledAfterLoop, Installing
<1> QED  BY <1>1, <1>2, <1>3, SyncInvariantHolds, PTL DEF PowerSpec
-----------------------------------------------------------------------------
(* Part 4: an ESP that boots keeps booting.  The proof needs that stubs are *)
(* replaced under their own name only when they do not boot, so it is about *)
(* configurations without boot counting, where a generation has one name,   *)
(* and without Measured Boot, which replaces stubs that have no measurement.*)

\* Without boot counting no name with a counter comes up.
LEMMA DiskUncountedStep ==
  ASSUME NeverCounted, PowerCore, Uncounted, DiskUncounted, [PowerNext]_allVars
  PROVE  Uncounted' /\ DiskUncounted'
<1>1. CASE LosePower
  <2>1. \A p \in StubPath : linux'[p] \in linux_disk[p] /\ linux_disk'[p] = {linux'[p]}
    BY <1>1, LosePowerFacts DEF PowerCore
  <2> QED  BY <2>1 DEF Uncounted, DiskUncounted
<1>2. CASE ~LosePower
  <2>0. Uncounted'
    BY <1>2, PowerIsNext, UncountedStep DEF PowerCore
  <2>1. CASE QuietStep \/ Killed \/ UNCHANGED allVars
    BY <2>0, <2>1, QuietFacts DEF DiskUncounted
  <2>2. CASE CopyStep
    BY <2>0, <2>2 DEF CopyStep, DiskUncounted
  <2>3. CASE SignStep \/ InstallSignedStep
    <3>1. pc \in Installing
      BY <2>3 DEF SignStep, InstallSignedStep, SignStub, RenameStub, Installing
    <3>2. current \in Entry /\ cfg \in Configs /\ cfg.tries = 0
      BY <3>1, CurrentType DEF PowerCore, Core, TypeOK, NeverCounted
    <3>3. StubTarget.suffix = <<>> /\ StubTmp(StubTarget).suffix = <<>>
      BY <3>2 DEF StubTarget, StubTmp
    <3>4. \A p \in StubPath \ {StubTarget, StubTmp(StubTarget)} : linux_disk'[p] = linux_disk[p]
      BY <2>3 DEF SignStep, InstallSignedStep, PowerCore, DiskTypeOK
    <3> QED  BY <2>0, <3>3, <3>4 DEF DiskUncounted
  <2>4. CASE SyncStep
    <3>1. linux_disk' = [p \in StubPath |-> {linux[p]}]
      BY <2>4 DEF SyncStep, Written, PowerCore, Core, TypeOK
    <3> QED  BY <2>0, <3>1 DEF Uncounted, DiskUncounted
  <2>5. CASE CollectGarbageStep
    <3>1. linux_disk' = Pending(linux, linux', linux_disk) /\ DOMAIN linux_disk = StubPath
      BY <2>5 DEF CollectGarbageStep, PowerCore, DiskTypeOK
    <3>2. \A p \in StubPath : linux_disk'[p] \subseteq linux_disk[p] \cup {linux'[p]}
      BY <3>1, PendingFacts
    <3> QED  BY <2>0, <3>2 DEF Uncounted, DiskUncounted
  <2> QED  BY <1>2, <2>1, <2>2, <2>3, <2>4, <2>5 DEF PowerNext
<1> QED  BY <1>1, <1>2

\* The one name that a generation has without boot counting.
LEMMA OneName ==
  ASSUME NeverCounted, Core, Uncounted, NEW e \in Entry, NEW p \in Matching(e)
  PROVE  p = [entry |-> e, key |-> cfg.key, tmp |-> FALSE,
              suffix |-> IF cfg.tries > 0 THEN <<cfg.tries>> ELSE <<>>]
<1>1. p \in StubPath /\ p.entry = e /\ p.key = cfg.key /\ p.tmp = FALSE /\ p.suffix = <<>>
  BY DEF Matching, Uncounted, StubPath
<1>2. cfg \in Configs /\ ~(cfg.tries > 0)
  BY DEF NeverCounted, Core, TypeOK
<1> QED  BY <1>1, <1>2 DEF StubPath

\* register_installed_generation returns false for a stub that a power loss
\* may take away, if it is not because of a missing measurement.
LEMMA NotRegisteredDead ==
  ASSUME NeverMeasured, NeverCounted, PowerCore, Uncounted, NEW e \in todo, NotRegistered(e),
         UNCHANGED disk
  PROVE  ReplacesDead'
<1>1. /\ e \in Entry /\ cfg \in Configs /\ ~cfg.measured /\ pc' = "kernel" /\ current' = e
      /\ UNCHANGED <<cfg, linux, nixos, linux_disk, nixos_disk>>
  BY DEF NotRegistered, PowerCore, Core, TypeOK, NeverMeasured, env, files, disk
<1>2. StubTarget' = [entry |-> e, key |-> cfg.key, tmp |-> FALSE,
                     suffix |-> IF cfg.tries > 0 THEN <<cfg.tries>> ELSE <<>>]
  BY <1>1 DEF StubTarget
<1> DEFINE t == StubTarget'
<1>3. Matching(e) = {} \/ \E p \in Matching(e) : ~Readable(p)
  BY <1>1 DEF NotRegistered, Measured
<1>4. t \in StubPath
  <2>1. cfg.key \in Keys /\ <<>> \in Suffix
    BY <1>1, ConstantsAssumption DEF Suffix
  <2>2. (IF cfg.tries > 0 THEN <<cfg.tries>> ELSE <<>>) = <<>>
    BY <1>1 DEF NeverCounted
  <2> QED  BY <1>1, <1>2, <2>1, <2>2 DEF StubPath
<1>5. CASE Matching(e) = {}
  <2>1. linux[t] = None
    BY <1>2, <1>4, <1>5 DEF Matching
  <2> QED  BY <1>1, <2>1, NoneAssumption DEF ReplacesDead
<1>6. CASE \E p \in Matching(e) : ~Readable(p)
  <2>1. ~Readable(t)
    BY <1>1, <1>2, <1>6, OneName DEF PowerCore
  <2>2. CASE linux[t] \notin SignedImage
    BY <1>1, <2>2 DEF ReplacesDead
  <2>3. CASE linux[t] \in SignedImage
    <3>1. /\ KernelPath(linux[t].image.linux) \in CaPath
          /\ InitrdPath(linux[t].image.initrd) \in CaPath
      BY <2>3, SignedImageParts, CaPathType
    <3>2. \/ nixos[KernelPath(linux[t].image.linux)] = None
          \/ nixos[InitrdPath(linux[t].image.initrd)] = None
      BY <2>1, <2>3 DEF Readable
    <3>3. \/ None \in nixos_disk[KernelPath(linux[t].image.linux)]
          \/ None \in nixos_disk[InitrdPath(linux[t].image.initrd)]
      BY <3>1, <3>2 DEF PowerCore, DiskTypeOK
    <3> QED  BY <1>1, <3>3 DEF ReplacesDead
  <2> QED  BY <2>2, <2>3
<1> QED  BY <1>3, <1>5, <1>6

\* While files are copied and the stub is signed, the stub that is in place
\* stays as dead as it was.
LEMMA ReplacesDeadStep ==
  ASSUME NeverMeasured, NeverCounted, PowerCore, Uncounted, ReplacesDead,
         [PowerNext]_allVars, PowerCore'
  PROVE  ReplacesDead'
<1>1. CASE QuietStep /\ \E e \in todo : NotRegistered(e)
  BY <1>1, NotRegisteredDead DEF QuietStep
<1>2. CASE (QuietStep /\ LockImage) \/ CopyStep \/ SignStep
  <2>1. pc \in Installing /\ UNCHANGED <<cfg, current>>
    BY <1>2 DEF CopyStep, SignStep, LockImage, InstallKernel, RenameKernel, InstallInitrd,
       RenameInitrd, SignStub, Installing, env
  <2>2. current \in Entry /\ cfg \in Configs
    BY <2>1, CurrentType DEF PowerCore, Core, TypeOK
  <2>3. StubTarget' = StubTarget /\ StubTarget \in StubPath /\ ~StubTarget.tmp
    BY <2>1, <2>2, StubTargetType DEF StubTarget
  <2>4. linux'[StubTarget] = linux[StubTarget]
    <3>1. CASE SignStep
      BY <2>3, <3>1, SignFacts DEF PowerCore
    <3>2. CASE ~SignStep
      BY <1>2, <3>2 DEF CopyStep, LockImage, InstallKernel, RenameKernel, InstallInitrd,
         RenameInitrd
    <3> QED  BY <3>1, <3>2
  <2>5. \A f \in CaPath : nixos_disk[f] \subseteq nixos_disk'[f]
    <3>1. CASE CopyStep
      BY <3>1, NixosPendingStep DEF CopyStep, PowerCore
    <3>2. CASE ~CopyStep
      BY <1>2, <3>2 DEF SignStep, QuietStep, disk
    <3> QED  BY <3>1, <3>2
  <2>6. CASE linux[StubTarget] \notin SignedImage
    BY <2>3, <2>4, <2>6 DEF ReplacesDead
  <2>7. CASE linux[StubTarget] \in SignedImage
    <3>1. /\ KernelPath(linux[StubTarget].image.linux) \in CaPath
          /\ InitrdPath(linux[StubTarget].image.initrd) \in CaPath
      BY <2>7, SignedImageParts, CaPathType
    <3> QED  BY <2>1, <2>3, <2>4, <2>5, <2>7, <3>1 DEF ReplacesDead
  <2> QED  BY <2>6, <2>7
<1>3. CASE UNCHANGED allVars
  BY <1>3 DEF allVars, vars, ReplacesDead, StubTarget
<1>4. CASE \/ QuietStep /\ ~LockImage /\ ~\E e \in todo : NotRegistered(e)
           \/ Killed \/ InstallSignedStep \/ SyncStep \/ CollectGarbageStep \/ LosePower
  <2>1. pc' \notin Installing
    BY <1>4 DEF QuietStep, Start, Registered, InstalledAll, BootLoaderInstalled, Finish,
       NewGeneration, DeleteGeneration, Reconfigure, run, Killed, Abort, Exit, Installing,
       InstallSignedStep, RenameStub, SyncStep, SyncFs, CollectGarbageStep, CollectStep,
       CollectNixos, CollectLinux, CollectPcrlock, LosePower
  <2> QED  BY <2>1 DEF ReplacesDead
<1> QED  BY <1>1, <1>2, <1>3, <1>4 DEF PowerNext

\* The files a durable stub names are in EFI/nixos, complete and on disk.
LEMMA DurableParts ==
  ASSUME NEW p \in StubPath, Durable(p)
  PROVE  /\ ~p.tmp /\ linux[p] \in SignedImage /\ linux_disk[p] = {linux[p]}
         /\ \A f \in {KernelPath(linux[p].image.linux), InitrdPath(linux[p].image.initrd)} :
              f \in CaPath /\ ~f.tmp /\ nixos[f] = f.hash /\ nixos_disk[f] = {nixos[f]}
BY SignedImageParts, CaPathType DEF Durable, Boots

\* A stub stays durable when neither it nor its files change.
LEMMA DurableStable ==
  ASSUME NEW p \in StubPath, Durable(p), linux'[p] = linux[p], linux_disk'[p] = linux_disk[p],
         \A f \in CaPath : ~f.tmp /\ nixos[f] = f.hash /\ nixos_disk[f] = {nixos[f]} =>
           nixos'[f] = nixos[f] /\ nixos_disk'[f] = nixos_disk[f]
  PROVE  Durable(p)'
BY DurableParts DEF Durable, Boots

\* Once some stub boots whatever a power loss leaves, there is always one: no
\* step of lzbt and no power loss makes the ESP unbootable.
THEOREM SomethingBootsHolds ==
  ASSUME NeverMeasured, NeverCounted PROVE PowerSpec => SomethingBoots
<1> DEFINE IInv == Uncounted /\ DiskUncounted /\ ReplacesDead
<1>1. PowerInit => IInv
  BY InitType DEF PowerInit, Init, Written, Core, TypeOK, Uncounted, DiskUncounted, ReplacesDead,
     Installing
<1>2. SyncInvariant /\ IInv /\ [PowerNext]_allVars => IInv'
  BY DiskUncountedStep, ReplacesDeadStep, PowerCoreStep DEF SyncInvariant
<1>3. ASSUME SyncInvariant, ReplacesDead, PowerNext, NEW p \in StubPath, Durable(p)
      PROVE  (\E q \in StubPath : Durable(q))'
  <2>0. PowerCore /\ PowerCore' /\ Core /\ Core' /\ DiskTypeOK
    BY <1>3, PowerCoreStep DEF SyncInvariant, PowerCore
  <2>1. CASE QuietStep \/ Killed
    BY <1>3, <2>1, QuietFacts, DurableStable
  <2>2. CASE CopyStep
    <3>1. InstallStep /\ nixos_disk' = NixosPending /\ UNCHANGED <<linux, linux_disk>>
      BY <2>2 DEF CopyStep, InstallStep, InstallKernel, RenameKernel, InstallInitrd, RenameInitrd
    <3>2. \A f \in CaPath : ~f.tmp /\ nixos[f] = f.hash =>
            nixos'[f] = nixos[f] /\ nixos_disk'[f] = nixos_disk[f]
      BY <2>0, <3>1, FilesSurvive, NixosPendingStep
    <3> QED  BY <1>3, <3>1, <3>2, DurableStable
  <2>3. CASE SignStep
    <3>1. /\ linux'[p] = linux[p] /\ linux_disk'[p] = linux_disk[p]
          /\ UNCHANGED <<nixos, nixos_disk>>
      BY <1>3, <2>0, <2>3, SignFacts, DurableParts
    <3> QED  BY <1>3, <3>1, DurableStable
  <2>4. CASE InstallSignedStep
    <3>1. pc \in Installing
      BY <2>4 DEF InstallSignedStep, RenameStub, Installing
    <3>2. p # StubTarget
      <4> SUFFICES ASSUME p = StubTarget PROVE FALSE
        OBVIOUS
      <4>1. \A b \in Blobs : b # None
        BY NoneAssumption
      <4>2. \A f \in {KernelPath(linux[p].image.linux), InitrdPath(linux[p].image.initrd)} :
              nixos_disk[f] = {f.hash} /\ f.hash \in Blobs
        <5>1. \A f \in CaPath : f.hash \in Blobs
          BY CaTmpType
        <5>2. \A f \in {KernelPath(linux[p].image.linux), InitrdPath(linux[p].image.initrd)} :
                f \in CaPath /\ nixos[f] = f.hash /\ nixos_disk[f] = {nixos[f]}
          BY <1>3, DurableParts
        <5> QED  BY <5>1, <5>2
      <4> QED  BY <1>3, <3>1, <4>1, <4>2, DurableParts DEF ReplacesDead
    <3>3. /\ linux'[p] = linux[p] /\ linux_disk'[p] = linux_disk[p]
          /\ UNCHANGED <<nixos, nixos_disk>>
      BY <1>3, <2>0, <2>4, <3>2, InstallSignedFacts, DurableParts
    <3> QED  BY <1>3, <3>3, DurableStable
  <2>5. CASE SyncStep
    <3>1. /\ UNCHANGED <<linux, nixos>>
          /\ linux_disk' = [q \in StubPath |-> {linux[q]}]
          /\ nixos_disk' = [f \in CaPath |-> {nixos[f]}]
      BY <2>0, <2>5 DEF SyncStep, SyncFs, files, Written, Core, TypeOK
    <3>2. linux'[p] = linux[p] /\ linux_disk'[p] = linux_disk[p]
      BY <1>3, <3>1, DurableParts
    <3>3. \A f \in CaPath : nixos_disk[f] = {nixos[f]} =>
            nixos'[f] = nixos[f] /\ nixos_disk'[f] = nixos_disk[f]
      BY <3>1
    <3> QED  BY <1>3, <3>2, <3>3, DurableStable
  <2>6. CASE CollectGarbageStep
    <3>1. pc \in {"gc_nixos", "gc_linux", "gc_pcrlock"}
      BY <2>6 DEF CollectGarbageStep, CollectStep, CollectNixos, CollectLinux, CollectPcrlock
    <3>2. PICK e \in generations : TRUE
      BY <2>0, <3>1 DEF Core, RunPosition
    <3>3. PICK q \in StubPath : Durable(q) /\ StubRoots(q) \subseteq gc_roots
      BY <1>3, <3>1, GenerationsDurable
    <3>4. /\ q \in RootedStubs
          /\ \A f \in {KernelPath(linux[q].image.linux), InitrdPath(linux[q].image.initrd)} :
               f \in RootedFiles
      BY <3>3, DurableParts DEF StubRoots, RootedStubs, RootedFiles
    <3>5. /\ linux'[q] = linux[q] /\ linux_disk'[q] = linux_disk[q]
          /\ \A f \in {KernelPath(linux[q].image.linux), InitrdPath(linux[q].image.initrd)} :
               nixos'[f] = nixos[f] /\ nixos_disk'[f] = nixos_disk[f]
      BY <2>0, <2>6, <3>4, CollectRooted
    <3>6. Durable(q)'
      BY <3>3, <3>5 DEF Durable, Boots
    <3> QED  BY <3>6
  <2>7. CASE LosePower
    <3>1. /\ \A q \in StubPath : linux'[q] \in linux_disk[q] /\ linux_disk'[q] = {linux'[q]}
          /\ \A f \in CaPath : nixos'[f] \in nixos_disk[f] /\ nixos_disk'[f] = {nixos'[f]}
      BY <2>0, <2>7, LosePowerFacts
    <3>2. linux'[p] = linux[p] /\ linux_disk'[p] = linux_disk[p]
      <4>1. linux_disk[p] = {linux[p]}
        BY <1>3, DurableParts
      <4>2. linux'[p] \in linux_disk[p] /\ linux_disk'[p] = {linux'[p]}
        BY <1>3, <3>1
      <4> QED  BY <4>1, <4>2
    <3>3. \A f \in CaPath : nixos_disk[f] = {nixos[f]} =>
            nixos'[f] = nixos[f] /\ nixos_disk'[f] = nixos_disk[f]
      BY <3>1
    <3> QED  BY <1>3, <3>2, <3>3, DurableStable
  <2> QED  BY <1>3, <2>1, <2>2, <2>3, <2>4, <2>5, <2>6, <2>7 DEF PowerNext
<1>4. SyncInvariant /\ IInv /\ [PowerNext]_allVars =>
        [(\E p \in StubPath : Durable(p)) => (\E p \in StubPath : Durable(p))']_allVars
  BY <1>3
<1> QED  BY <1>1, <1>2, <1>4, SyncInvariantHolds, PTL DEF PowerSpec, SomethingBoots

=============================================================================
