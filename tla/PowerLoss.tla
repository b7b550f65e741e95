----------------------------- MODULE PowerLoss -----------------------------
(***************************************************************************)
(* The installer on an ESP that loses power.  Installer lets a run die at  *)
(* any step, but what it wrote stays; here the file system writes back     *)
(* when it likes, so a power loss leaves under each name one of the files  *)
(* that were there since the last sync.  atomic_copy syncs the temporary   *)
(* file before it renames it; install_signed does not, so what comes up    *)
(* under the name of a new stub may be damaged.                            *)
(*                                                                         *)
(* A rename or a removal reaches the disk as a whole or not at all, in any *)
(* order: atomic_copy says that nothing defends against a FAT that is      *)
(* itself corrupted.  The pcrlock files are on another file system, which  *)
(* is left out.                                                            *)
(***************************************************************************)
EXTENDS Installer

CONSTANTS
  TornSigner,  \* the signer of a stub that reads well but does not verify
  Undetected,  \* may a damaged stub read well, with only its signature lost?
  MaxLosses    \* bound on the power losses

ASSUME PowerAssumption ==
  /\ TornSigner \in Keys
  /\ \A c \in Configs : c.key # TornSigner
  /\ Undetected \in BOOLEAN
  /\ MaxLosses \in Nat

VARIABLES
  linux_disk, \* for each name of EFI/Linux what a power loss may leave there
  nixos_disk, \* the same for EFI/nixos
  losses      \* how often power was lost, for the bound

disk == <<linux_disk, nixos_disk>>
allVars == <<vars, linux_disk, nixos_disk, losses>>

\* Nothing waits to be written back.
Written(dir) == [p \in DOMAIN dir |-> {dir[p]}]

PowerInit ==
  /\ Init
  /\ linux_disk = Written(linux)
  /\ nixos_disk = Written(nixos)
  /\ losses = 0

-----------------------------------------------------------------------------
\* A file whose data has not been synced: it may be truncated, or lack the
\* blocks at its end, where the signature is.
Unsynced(file) ==
  {file, Partial} \cup
    (IF Undetected /\ file \in SignedImage
     THEN {[image |-> file.image, signer |-> TornSigner]} ELSE {})

\* Mutant: atomic_copy does not sync the temporary file.
PendingUnsynced(before, after, dir) ==
  [p \in DOMAIN dir |->
     IF before[p] = after[p] THEN dir[p] ELSE dir[p] \cup {after[p], Partial}]

\* A step whose names each come up as before or as after it.
Pending(before, after, dir) ==
  [p \in DOMAIN dir |-> IF before[p] = after[p] THEN dir[p] ELSE dir[p] \cup {after[p]}]

\* sync_all precedes the rename of atomic_copy, so a kernel or an initrd comes
\* up as a whole, under one name or the other.
NixosPending == Pending(nixos, nixos', nixos_disk)

\* The steps that leave the ESP alone.
QuietStep ==
  /\ \/ Start \/ \E e \in todo : Registered(e) \/ NotRegistered(e)
     \/ LockImage \/ InstalledAll \/ BootLoaderInstalled \/ Finish
     \/ NewGeneration \/ DeleteGeneration \/ Reconfigure
  /\ UNCHANGED disk

\* An error or a kill: what was written is written back some time.
Killed == Abort /\ UNCHANGED disk

CopyStep ==
  /\ InstallKernel \/ RenameKernel \/ InstallInitrd \/ RenameInitrd
  /\ nixos_disk' = NixosPending
  /\ UNCHANGED linux_disk

\* sbsign writes the temporary file.
SignStep ==
  /\ SignStub
  /\ linux_disk' = [linux_disk EXCEPT ![StubTmp(StubTarget)] = @ \cup {Partial}]
  /\ UNCHANGED nixos_disk

\* Mutant: the rename is never written back.
InstallSignedLost == RenameStub /\ UNCHANGED disk

\* install_signed renames what sbsign wrote, also over a stub that is on disk.
InstallSignedStep ==
  /\ RenameStub
  /\ linux_disk' = [linux_disk EXCEPT
       ![StubTarget] = @ \cup Unsynced(linux'[StubTarget]),
       ![StubTmp(StubTarget)] = @ \cup {None}]
  /\ UNCHANGED nixos_disk

\* Mutant: nothing is synced before garbage is collected.
SyncNothing == SyncFs /\ UNCHANGED disk

\* syncfs after the last generation.
SyncStep ==
  /\ SyncFs
  /\ linux_disk' = Written(linux)
  /\ nixos_disk' = Written(nixos)

CollectGarbageStep ==
  /\ CollectStep
  /\ linux_disk' = Pending(linux, linux', linux_disk)
  /\ nixos_disk' = NixosPending

\* The directories a power loss may leave.
Survivors(dir) ==
  LET pending == {p \in DOMAIN dir : \E x, y \in dir[p] : x # y}
      found   == {f \in [pending -> UNION {dir[p] : p \in pending}] :
                    \A p \in pending : f[p] \in dir[p]}
  IN  {[p \in DOMAIN dir |->
          IF p \in pending THEN f[p] ELSE CHOOSE x \in dir[p] : TRUE] : f \in found}

LosePower ==
  /\ losses < MaxLosses
  /\ losses' = losses + 1
  /\ linux' \in Survivors(linux_disk)
  /\ nixos' \in Survivors(nixos_disk)
  /\ linux_disk' = Written(linux')
  /\ nixos_disk' = Written(nixos')
  /\ pc' = "idle"
  /\ generations' = {} /\ todo' = {} /\ current' = None /\ initrd' = None
  /\ broken_gens' = {} /\ gc_roots' = {}
  /\ UNCHANGED <<profile, cfg, pcrlock, events>>

PowerNext ==
  \/ /\ \/ QuietStep \/ Killed \/ CopyStep \/ SignStep \/ InstallSignedStep
        \/ SyncStep \/ CollectGarbageStep
     /\ UNCHANGED losses
  \/ LosePower

PowerSpec == PowerInit /\ [][PowerNext]_allVars

-----------------------------------------------------------------------------
\* A stub that boots whenever power is lost now.
Durable(p) ==
  /\ Boots(p)
  /\ linux_disk[p] = {linux[p]}
  /\ \A f \in {KernelPath(linux[p].image.linux), InitrdPath(linux[p].image.initrd)} :
       nixos_disk[f] = {nixos[f]}

\* What a power loss may leave under a name includes what is there now, and
\* every variable of the fault layer stays within its type.
DiskTypeOK ==
  /\ linux_disk \in [StubPath -> SUBSET (SignedImage \cup {None, Partial})]
  /\ nixos_disk \in [CaPath -> SUBSET (Blobs \cup {None, Partial})]
  /\ losses \in 0..MaxLosses
  /\ \A p \in StubPath : linux[p] \in linux_disk[p]
  /\ \A p \in CaPath : nixos[p] \in nixos_disk[p]

\* Whatever power losses interrupt, a kernel or initrd under its final name has
\* the contents its name promises (the sync in atomic_copy), so `exists()` in
\* read_installed_generation is still enough for these files.
CaNamesSurvive ==
  \A p \in CaPath : ~p.tmp => nixos_disk[p] \subseteq {None, p.hash}

\* From syncfs on, and so in particular while garbage is collected, no power
\* loss takes away a generation that the run has installed or found.
DurableAfterSync ==
  pc \in {"bootloader", "gc_nixos", "gc_linux", "gc_pcrlock", "done"} =>
    \A e \in generations :
      Installed(e) => \E p \in StubPath : p.entry = e /\ p.key = cfg.key /\ Durable(p)

\* Once some stub boots whatever a power loss leaves, there is always one: no
\* step of lzbt and no power loss makes the ESP unbootable.
SomethingBoots ==
  [][(\E p \in StubPath : Durable(p)) => (\E p \in StubPath : Durable(p))']_allVars
=============================================================================
