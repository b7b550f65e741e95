----------------------------- MODULE Installer -----------------------------
(***************************************************************************)
(* One ESP as `lzbt install` maintains it (rust/tool/systemd/src/          *)
(* install.rs): the boot stubs in EFI/Linux, the content-addressed kernels *)
(* and initrds in EFI/nixos and, with Measured Boot, the pcrlock files of  *)
(* the stubs.  A run is a sequence of file operations that a failing call  *)
(* or a kill may cut short at any point; nothing is rolled back.  Between  *)
(* runs NixOS generations come and go, the configuration changes, the boot *)
(* loader counts tries and systemd-bless-boot marks entries as good.       *)
(*                                                                         *)
(* A file is a cell of a function from paths to contents, None when there  *)
(* is no such file.  The hash of a file is the file itself (SHA-256 does   *)
(* not collide), so a content-addressed name carries the content.          *)
(***************************************************************************)
EXTENDS Integers, FiniteSets

CONSTANTS
  None,            \* no file, no link, no specialisation name
  Partial,         \* the contents of a file whose writer has not finished
  Versions,        \* generation numbers
  SpecNames,       \* names of specialisations
  Toplevels,       \* system closures, those of specialisations included
  Malformed,       \* the toplevels without a readable bootspec
  Blobs,           \* kernel and initrd files
  Kernel,          \* [Toplevels -> Blobs], bootspec.kernel
  Initrds,         \* [Toplevels -> SUBSET Blobs], the initrds that appending
                   \* the secrets can yield; a singleton without secrets
  Specialisations, \* [Toplevels -> SUBSET (SpecNames \X Toplevels)]
  Keys,            \* signing keys
  MaxTries,        \* bound on the boot counters in file names
  Systems,         \* the toplevels the user builds generations from
  Configs,         \* bound: the configurations the user may switch to
  MaxEvents,       \* bound on the events around lzbt, aborts included
  ConcurrentBless  \* may systemd-bless-boot run during lzbt?

ASSUME ConstantsAssumption ==
  /\ Versions \subseteq Nat
  /\ Malformed \subseteq Toplevels
  /\ Kernel \in [Toplevels -> Blobs]
  /\ Initrds \in [Toplevels -> SUBSET Blobs]
  /\ Specialisations \in [Toplevels -> SUBSET (SpecNames \X Toplevels)]
  /\ MaxTries \in Nat /\ MaxEvents \in Nat
  /\ Systems \subseteq Toplevels
  /\ Configs \subseteq
       [limit : Nat, tries : 0..MaxTries, measured : BOOLEAN, key : Keys]
  /\ ConcurrentBless \in BOOLEAN

\* They are u64 numbers.
ASSUME VersionsAssumption == IsFiniteSet(Versions)

-----------------------------------------------------------------------------
(* What the program handles.                                               *)

\* A bootable system: a generation, or one of its specialisations.
Entry == [version : Versions, spec : SpecNames \cup {None}, top : Toplevels]

\* The `+left-done` part of a stub's file name; << >> when it is not counted.
Suffix ==
  {<<>>} \cup {<<l>> : l \in 1..MaxTries}
         \cup {s \in (0..MaxTries) \X (1..MaxTries) : s[1] + s[2] <= MaxTries}

\* A file of EFI/Linux.  The name identifies the version, the specialisation,
\* and by its hash the toplevel and the public key.
StubPath == [entry : Entry, key : Keys, suffix : Suffix, tmp : BOOLEAN]

\* A file of EFI/nixos.
CaPath == [kind : {"kernel", "initrd"}, hash : Blobs, tmp : BOOLEAN]

\* A file of 635-lanzaboote.pcrlock.d, named after Generation::version_tag.
Tag == [version : Versions, spec : SpecNames \cup {None}]

\* An assembled stub: the sections that differ between stubs.  The paths in
\* .linux and .initrd are content-addressed, so the blobs stand for them.
Image == [entry : Entry, linux : Blobs, initrd : Blobs]

\* A stub as sbsign writes it.
SignedImage == [image : Image, signer : Keys]

\* None and Partial are nothing else.
ASSUME NoneAssumption ==
  /\ None \notin Blobs \cup Toplevels \cup SpecNames
  /\ None \notin Entry /\ None \notin Image /\ None \notin SignedImage
  /\ Partial \notin Blobs \cup {None} /\ Partial \notin SignedImage

KernelPath(b) == [kind |-> "kernel", hash |-> b, tmp |-> FALSE]
InitrdPath(b) == [kind |-> "initrd", hash |-> b, tmp |-> FALSE]
CaTmp(path) == [kind |-> path.kind, hash |-> path.hash, tmp |-> TRUE]
StubTmp(path) ==
  [entry |-> path.entry, key |-> path.key, suffix |-> path.suffix, tmp |-> TRUE]
TagOf(e) == [version |-> e.version, spec |-> e.spec]

VARIABLES
  profile,     \* /nix/var/nix/profiles: the toplevel behind each link
  cfg,         \* lzbt's command line and the signer
  linux,       \* EFI/Linux
  nixos,       \* EFI/nixos
  pcrlock,     \* 635-lanzaboote.pcrlock.d
  events,      \* how many events have happened, for the bound
  pc,          \* the next step of the run, "idle" between runs
  generations, \* what this run installs
  todo,        \* the part of it the loop has not reached
  current,     \* the argument of install_generation
  initrd,      \* the assembled initrd of `current`
  broken_gens,
  gc_roots

env == <<profile, cfg, events>>
files == <<linux, nixos, pcrlock>>
run == <<pc, generations, todo, current, initrd, broken_gens, gc_roots>>
vars == <<profile, cfg, linux, nixos, pcrlock, events,
          pc, generations, todo, current, initrd, broken_gens, gc_roots>>

Steps == {"idle", "generation", "kernel", "kernel_tmp", "initrd",
          "initrd_tmp", "pcrlock", "stub", "stub_tmp", "sync", "bootloader",
          "gc_nixos", "gc_linux", "gc_pcrlock", "done"}

\* Every variable stays within its type.
TypeOK ==
  /\ profile \in [Versions -> Toplevels \cup {None}]
  /\ cfg \in Configs
  /\ linux \in [StubPath -> SignedImage \cup {None, Partial}]
  /\ nixos \in [CaPath -> Blobs \cup {None, Partial}]
  /\ pcrlock \in [Tag -> Image \cup {None}]
  /\ events \in 0..MaxEvents
  /\ pc \in Steps
  /\ generations \subseteq Entry
  /\ todo \subseteq Entry
  /\ current \in Entry \cup {None}
  /\ initrd \in Blobs \cup {None}
  /\ broken_gens \subseteq Versions
  /\ gc_roots \subseteq StubPath \cup CaPath \cup Tag

\* A first generation, and an ESP that holds none of lzbt's files.
Init ==
  /\ \E v \in Versions, t \in Systems :
       profile = [w \in Versions |-> IF w = v THEN t ELSE None]
  /\ cfg \in Configs
  /\ linux = [p \in StubPath |-> None]
  /\ nixos = [p \in CaPath |-> None]
  /\ pcrlock = [t \in Tag |-> None]
  /\ events = 0
  /\ pc = "idle"
  /\ generations = {} /\ todo = {} /\ current = None /\ initrd = None
  /\ broken_gens = {} /\ gc_roots = {}

-----------------------------------------------------------------------------
(* Starting a run: `install` and `install_generations_from_links` up to     *)
(* the loop.                                                                *)

Links == {v \in Versions : profile[v] # None}

\* Mutant: the limit is taken from the front of the sorted links.
OldestLinks ==
  {v \in Links : cfg.limit = 0 \/ Cardinality({w \in Links : w < v}) < cfg.limit}

\* After sorting, the `limit` newest links; 0 is no limit.
LimitedLinks ==
  {v \in Links : cfg.limit = 0 \/ Cardinality({w \in Links : w > v}) < cfg.limit}

ReadableLinks == {v \in LimitedLinks : profile[v] \notin Malformed}

\* The generation behind a link and its specialisations.
EntriesOf(v) ==
  {[version |-> v, spec |-> None, top |-> profile[v]]} \cup
  {[version |-> v, spec |-> s[1], top |-> s[2]] : s \in Specialisations[profile[v]]}

\* Without a readable generation lzbt gives up before it touches the ESP, "to
\* avoid unbootable system".
GiveUp ==
  /\ pc = "idle"
  /\ ReadableLinks = {}
  /\ UNCHANGED vars

Start ==
  /\ pc = "idle"
  /\ ReadableLinks # {}
  /\ pc' = "generation"
  /\ generations' = UNION {EntriesOf(v) : v \in ReadableLinks}
  /\ todo' = generations'
  /\ broken_gens' = LimitedLinks \ ReadableLinks
  /\ gc_roots' = {}
  /\ UNCHANGED <<env, files, current, initrd>>

-----------------------------------------------------------------------------
(* install_generation                                                      *)

\* Oldest generation first, each one before its specialisations.
IsNext(e) ==
  /\ e \in todo
  /\ \A f \in todo : /\ e.version <= f.version
                     /\ e.version = f.version /\ f.spec = None => e.spec = None

\* The file names that the regular expression for `e` matches.
Matching(e) ==
  {p \in StubPath : p.entry = e /\ p.key = cfg.key /\ ~p.tmp /\ linux[p] # None}

\* Mutant: the files a stub names are not looked for.
ReadableWithoutFiles(p) == linux[p] \in SignedImage

\* The stub parses and the files it names exist.  Of a damaged stub some damage
\* makes read_section_data panic instead; the run is over then, which is Abort.
Readable(p) ==
  /\ linux[p] \in SignedImage
  /\ nixos[KernelPath(linux[p].image.linux)] # None
  /\ nixos[InitrdPath(linux[p].image.initrd)] # None

\* Mutant: the initrd is not made a root.
StubRootsWithoutInitrd(p) == {p, KernelPath(linux[p].image.linux)}

\* The files an installed stub needs.
StubRoots(p) ==
  {p, KernelPath(linux[p].image.linux), InitrdPath(linux[p].image.initrd)}

\* Mutant: the measurement of an installed stub is not looked for.
MeasuredUnchecked(e) == TRUE

\* With Measured Boot a pcrlock file of that name exists.
Measured(e) == cfg.measured => pcrlock[TagOf(e)] # None

\* Mutant: the loop stays at a generation that is installed already.
RegisteredAgain(e) ==
  /\ pc = "generation" /\ IsNext(e)
  /\ \E p \in Matching(e) : Readable(p) /\ Measured(e) /\ gc_roots' = gc_roots \cup StubRoots(p)
  /\ UNCHANGED <<env, files, pc, todo, generations, current, initrd, broken_gens>>

\* register_installed_generation returns true.
Registered(e) ==
  /\ pc = "generation" /\ IsNext(e)
  /\ \E p \in Matching(e) :
       /\ Readable(p)
       /\ Measured(e)
       /\ gc_roots' = gc_roots \cup StubRoots(p)
                               \cup (IF cfg.measured THEN {TagOf(e)} ELSE {})
  /\ todo' = todo \ {e}
  /\ UNCHANGED <<env, files, pc, generations, current, initrd, broken_gens>>

\* Mutant: a stub becomes a root before its files are looked for.
NotRegisteredRooted(e) ==
  /\ pc = "generation" /\ IsNext(e)
  /\ \/ Matching(e) = {} /\ gc_roots' = gc_roots
     \/ \E p \in Matching(e) : ~(Readable(p) /\ Measured(e)) /\ gc_roots' = gc_roots \cup StubRoots(p)
  /\ todo' = todo \ {e} /\ current' = e /\ pc' = "kernel"
  /\ UNCHANGED <<env, files, generations, initrd, broken_gens>>

\* It returns false: the stub that read_dir lists first is unreadable, there
\* is none, or its measurement is missing (its files are roots by then).
NotRegistered(e) ==
  /\ pc = "generation" /\ IsNext(e)
  /\ \/ Matching(e) = {} /\ gc_roots' = gc_roots
     \/ \E p \in Matching(e) : ~Readable(p) /\ gc_roots' = gc_roots
     \/ \E p \in Matching(e) : /\ Readable(p)
                               /\ ~Measured(e)
                               /\ gc_roots' = gc_roots \cup StubRoots(p)
  /\ todo' = todo \ {e}
  /\ current' = e
  /\ pc' = "kernel"
  /\ UNCHANGED <<env, files, generations, initrd, broken_gens>>

\* Mutant: the copy goes to the final name at once.
InstallCaInPlace(path, copying, after) ==
  /\ gc_roots' = gc_roots \cup {path}
  /\ \/ nixos[path] = path.hash /\ pc' = after /\ nixos' = nixos
     \/ nixos[path] # path.hash /\ pc' = copying /\ nixos' = [nixos EXCEPT ![path] = Partial]

\* install_nixos_ca: the name is a root before the file is there; a file with
\* the right contents is left alone, any other is replaced by atomic_copy.
InstallCa(path, copying, after) ==
  /\ gc_roots' = gc_roots \cup {path}
  /\ \/ /\ nixos[path] = path.hash
        /\ pc' = after
        /\ nixos' = nixos
     \/ /\ nixos[path] # path.hash
        /\ pc' = copying
        /\ nixos' = [nixos EXCEPT ![CaTmp(path)] = Partial]

\* The temporary file is complete and synced; it takes the final name.
RenameCa(path, after) ==
  /\ nixos' = [nixos EXCEPT ![path] = path.hash, ![CaTmp(path)] = None]
  /\ pc' = after

InstallKernel ==
  /\ pc = "kernel"
  /\ InstallCa(KernelPath(Kernel[current.top]), "kernel_tmp", "initrd")
  /\ UNCHANGED <<env, linux, pcrlock, generations, todo, current, initrd, broken_gens>>

RenameKernel ==
  /\ pc = "kernel_tmp"
  /\ RenameCa(KernelPath(Kernel[current.top]), "initrd")
  /\ UNCHANGED <<env, linux, pcrlock, generations, todo, current, initrd,
                 broken_gens, gc_roots>>

\* The secrets are appended before the initrd is hashed and copied.
InstallInitrd ==
  /\ pc = "initrd"
  /\ \E b \in Initrds[current.top] :
       /\ initrd' = b
       /\ InstallCa(InitrdPath(b), "initrd_tmp", "pcrlock")
  /\ UNCHANGED <<env, linux, pcrlock, generations, todo, current, broken_gens>>

RenameInitrd ==
  /\ pc = "initrd_tmp"
  /\ RenameCa(InitrdPath(initrd), "pcrlock")
  /\ UNCHANGED <<env, linux, pcrlock, generations, todo, current, initrd,
                 broken_gens, gc_roots>>

\* The image lanzaboote_image assembles; it is not signed yet.
CurrentImage ==
  [entry |-> current, linux |-> Kernel[current.top], initrd |-> initrd]

\* systemd-pcrlock predicts the measurement of the image.
LockImage ==
  /\ pc = "pcrlock"
  /\ pc' = "stub"
  /\ \/ /\ cfg.measured
        /\ pcrlock' = [pcrlock EXCEPT ![TagOf(current)] = CurrentImage]
        /\ gc_roots' = gc_roots \cup {TagOf(current)}
     \/ /\ ~cfg.measured
        /\ UNCHANGED <<pcrlock, gc_roots>>
  /\ UNCHANGED <<env, linux, nixos, generations, todo, current, initrd, broken_gens>>

\* stub_name
StubTarget ==
  [entry |-> current, key |-> cfg.key, tmp |-> FALSE,
   suffix |-> IF cfg.tries > 0 THEN <<cfg.tries>> ELSE <<>>]

\* install_signed: sbsign writes the temporary file ...
SignStub ==
  /\ pc = "stub"
  /\ gc_roots' = gc_roots \cup {StubTarget}
  /\ linux' = [linux EXCEPT ![StubTmp(StubTarget)] = Partial]
  /\ pc' = "stub_tmp"
  /\ UNCHANGED <<env, nixos, pcrlock, generations, todo, current, initrd, broken_gens>>

\* Mutant: the unsigned image is put in place.
RenameUnsigned ==
  /\ pc = "stub_tmp"
  /\ linux' = [linux EXCEPT ![StubTarget] = CurrentImage, ![StubTmp(StubTarget)] = None]
  /\ pc' = "generation" /\ current' = None /\ initrd' = None
  /\ UNCHANGED <<env, nixos, pcrlock, generations, todo, broken_gens, gc_roots>>

\* ... and a rename puts it in place, over an older stub of that name.
RenameStub ==
  /\ pc = "stub_tmp"
  /\ linux' = [linux EXCEPT
       ![StubTarget] = [image |-> CurrentImage, signer |-> cfg.key],
       ![StubTmp(StubTarget)] = None]
  /\ pc' = "generation"
  /\ current' = None
  /\ initrd' = None
  /\ UNCHANGED <<env, nixos, pcrlock, generations, todo, broken_gens, gc_roots>>

-----------------------------------------------------------------------------
(* After the loop.                                                         *)

InstalledAll ==
  /\ pc = "generation" /\ todo = {}
  /\ pc' = "sync"
  /\ UNCHANGED <<env, files, generations, todo, current, initrd, broken_gens, gc_roots>>

\* syncfs.
SyncFs ==
  /\ pc = "sync"
  /\ pc' = "bootloader"
  /\ UNCHANGED <<env, files, generations, todo, current, initrd, broken_gens, gc_roots>>

\* Mutant: malformed generations do not disable garbage collection.
CollectAlways ==
  /\ pc = "bootloader" /\ pc' = "gc_nixos"
  /\ UNCHANGED <<env, files, generations, todo, current, initrd, broken_gens, gc_roots>>

\* install_systemd_boot touches none of these files (module SystemdBoot).
\* A malformed generation disables garbage collection.
BootLoaderInstalled ==
  /\ pc = "bootloader"
  /\ pc' = IF broken_gens = {} THEN "gc_nixos" ELSE "done"
  /\ UNCHANGED <<env, files, generations, todo, current, initrd, broken_gens, gc_roots>>

\* The paths of a directory that Roots::collect_garbage removes.
Garbage(dir) == {p \in DOMAIN dir : dir[p] # None /\ p \notin gc_roots}

\* Mutant: the "nixos-" filter is applied to EFI/nixos too, where no name has
\* that prefix.
CollectNixosFiltered ==
  /\ pc = "gc_nixos" /\ pc' = "gc_linux"
  /\ UNCHANGED <<env, files, generations, todo, current, initrd, broken_gens, gc_roots>>

CollectNixos ==
  /\ pc = "gc_nixos"
  /\ \/ \E p \in Garbage(nixos) : nixos' = [nixos EXCEPT ![p] = None] /\ pc' = pc
     \/ Garbage(nixos) = {} /\ pc' = "gc_linux" /\ nixos' = nixos
  /\ UNCHANGED <<env, linux, pcrlock, generations, todo, current, initrd,
                 broken_gens, gc_roots>>

\* Everything lzbt names in EFI/Linux starts with "nixos-", its temporary
\* files too, so the filter lets all of it through.
CollectLinux ==
  /\ pc = "gc_linux"
  /\ \/ \E p \in Garbage(linux) : linux' = [linux EXCEPT ![p] = None] /\ pc' = pc
     \/ /\ Garbage(linux) = {}
        /\ pc' = IF cfg.measured THEN "gc_pcrlock" ELSE "done"
        /\ linux' = linux
  /\ UNCHANGED <<env, nixos, pcrlock, generations, todo, current, initrd,
                 broken_gens, gc_roots>>

CollectPcrlock ==
  /\ pc = "gc_pcrlock"
  /\ \/ \E t \in Garbage(pcrlock) : pcrlock' = [pcrlock EXCEPT ![t] = None] /\ pc' = pc
     \/ Garbage(pcrlock) = {} /\ pc' = "done" /\ pcrlock' = pcrlock
  /\ UNCHANGED <<env, linux, nixos, generations, todo, current, initrd,
                 broken_gens, gc_roots>>

\* The process is gone and with it everything it had in memory.
Exit ==
  /\ pc' = "idle"
  /\ generations' = {} /\ todo' = {} /\ current' = None /\ initrd' = None
  /\ broken_gens' = {} /\ gc_roots' = {}
  /\ UNCHANGED <<profile, cfg, files>>

Finish == pc = "done" /\ Exit /\ UNCHANGED events

Event == events < MaxEvents /\ events' = events + 1

\* An error is returned (ENOSPC, an unreadable source, sbsign failing, ...),
\* or the process is killed.  No step undoes what the others did.
Abort == pc \notin {"idle", "done"} /\ Exit /\ Event

-----------------------------------------------------------------------------
(* The world around lzbt (external, as the code and its tests use it).      *)

\* nixos-rebuild adds a generation after the newest one; the number of a
\* deleted newest generation is used again.
NewGeneration ==
  /\ pc = "idle" /\ Event
  /\ \E v \in Links, t \in Systems :
       /\ v + 1 \in Versions /\ \A w \in Links : w <= v
       /\ profile[v] # t
       /\ profile' = [profile EXCEPT ![v + 1] = t]
  /\ UNCHANGED <<cfg, files, run>>

\* nix-env --delete-generations
DeleteGeneration ==
  /\ pc = "idle" /\ Event
  /\ \E v \in Links : Links # {v} /\ profile' = [profile EXCEPT ![v] = None]
  /\ UNCHANGED <<cfg, files, run>>

\* boot.lanzaboote options or the signing key change.
Reconfigure ==
  /\ pc = "idle" /\ Event
  /\ cfg' \in Configs \ {cfg}
  /\ UNCHANGED <<profile, files, run>>

\* The user frees space on the ESP by deleting kernels and initrds.
DeleteCaFile ==
  /\ pc = "idle" /\ Event
  /\ \E p \in CaPath : nixos[p] # None /\ nixos' = [nixos EXCEPT ![p] = None]
  /\ UNCHANGED <<profile, cfg, linux, pcrlock, run>>

\* An entry is renamed within its directory; an existing file is not replaced.
MoveStub(p, suffix) ==
  LET q == [entry |-> p.entry, key |-> p.key, suffix |-> suffix, tmp |-> FALSE]
  IN  /\ linux[p] # None /\ linux[q] = None /\ ~p.tmp
      /\ linux' = [linux EXCEPT ![q] = linux[p], ![p] = None]

\* systemd-boot boots a counted entry that has tries left.
BootTry ==
  /\ pc = "idle" /\ Event
  /\ \E p \in StubPath, l \in 1..MaxTries :
       \/ p.suffix = <<l>> /\ MoveStub(p, <<l - 1, 1>>)
       \/ \E d \in 1..(MaxTries - l) :
            p.suffix = <<l, d>> /\ MoveStub(p, <<l - 1, d + 1>>)
  /\ UNCHANGED <<profile, cfg, nixos, pcrlock, run>>

\* systemd-bless-boot marks the booted entry as good.
Bless ==
  /\ pc = "idle" \/ ConcurrentBless
  /\ Event
  /\ \E p \in StubPath, l \in 0..MaxTries, d \in 1..MaxTries :
       p.suffix = <<l, d>> /\ MoveStub(p, <<>>)
  /\ UNCHANGED <<profile, cfg, nixos, pcrlock, run>>

-----------------------------------------------------------------------------
InstallStep ==
  \/ \E e \in todo : Registered(e) \/ NotRegistered(e)
  \/ InstallKernel \/ RenameKernel \/ InstallInitrd \/ RenameInitrd
  \/ LockImage \/ SignStub \/ RenameStub
  \/ InstalledAll \/ SyncFs \/ BootLoaderInstalled

CollectStep == CollectNixos \/ CollectLinux \/ CollectPcrlock

Environment ==
  \/ NewGeneration \/ DeleteGeneration \/ Reconfigure
  \/ DeleteCaFile \/ BootTry \/ Bless

Next ==
  \/ Start \/ GiveUp \/ InstallStep \/ CollectStep \/ Finish \/ Abort
  \/ Environment

Spec == Init /\ [][Next]_vars

\* A run that was started goes on: lzbt is a sequential process.
FairSpec == Spec /\ WF_vars(InstallStep \/ CollectStep \/ Finish)

-----------------------------------------------------------------------------
(* What makes the installer correct.                                       *)

\* A stub that systemd-boot lists and that boots: it is complete and the
\* files it names have the contents whose hashes it embeds.
Boots(p) ==
  /\ ~p.tmp
  /\ linux[p] \in SignedImage
  /\ nixos[KernelPath(linux[p].image.linux)] = linux[p].image.linux
  /\ nixos[InitrdPath(linux[p].image.initrd)] = linux[p].image.initrd

\* The generation boots from a stub that the configured key signed.
Installed(e) ==
  \E p \in StubPath : /\ p.entry = e /\ p.key = cfg.key /\ Boots(p)
                      /\ linux[p].image.entry = e /\ linux[p].signer = cfg.key

\* Every stub that a completed run keeps, and every file a boot menu entry
\* names, is intact: no interruption leaves a file under a final name with
\* contents other than the ones its name promises (atomic_copy,
\* install_signed), so `exists()` is enough for read_installed_generation.
NamesPromiseContents ==
  /\ \A p \in CaPath : ~p.tmp => nixos[p] \in {None, p.hash}
  /\ \A p \in StubPath :
       ~p.tmp /\ linux[p] # None =>
         /\ linux[p] \in SignedImage
         /\ linux[p].image.entry = p.entry /\ linux[p].signer = p.key

\* From the end of the loop over the generations to the end of the run, every
\* generation the run is about boots with the configured key, whatever earlier
\* interrupted runs, deleted kernels or renamed stubs it started from.
InstalledAfterLoop ==
  pc \in {"sync", "bootloader", "gc_nixos", "gc_linux", "gc_pcrlock", "done"} =>
    \A e \in generations : Installed(e)

\* The boot menu lzbt maintains, as pairs of a generation and a key.
Menu == {<<p.entry, p.key>> : p \in {q \in StubPath : Boots(q)}}

Phase ==
  IF pc = "idle" THEN "idle"
  ELSE IF pc \in {"gc_nixos", "gc_linux", "gc_pcrlock", "done"} THEN "collect"
  ELSE "install"

Contract == INSTANCE EspContract WITH
  Bootable <- Entry \X Keys, menu <- Menu, target <- generations \X {cfg.key},
  phase <- Phase

\* The file operations of lzbt implement the contract of EspContract: no step
\* of a run, however runs are cut short and whatever they find on the ESP,
\* takes a bootable system off the menu before every system the run is about
\* boots with the configured key, and none of those is ever taken off.
ImplementsContract == Contract!MenuSpec

\* `e` boots, and garbage collection will not touch what it boots from.
Kept(e) ==
  \E p \in StubPath : /\ p.entry = e /\ p.key = cfg.key /\ Boots(p)
                      /\ StubRoots(p) \subseteq gc_roots

InPlace(path) == path \in gc_roots /\ nixos[path] = path.hash

Installing ==
  {"kernel", "kernel_tmp", "initrd", "initrd_tmp", "pcrlock", "stub", "stub_tmp"}

\* Where a run stands in its loop, and which of the current generation's files
\* are in place already.
RunPosition ==
  /\ todo \subseteq generations
  /\ pc = "idle" <=> generations = {}
  /\ pc \notin Installing \cup {"generation"} => todo = {}
  /\ pc \in Installing => current \in generations
  /\ pc \notin Installing => current = None
  /\ pc = "kernel_tmp" => KernelPath(Kernel[current.top]) \in gc_roots
  /\ pc \in {"initrd", "initrd_tmp", "pcrlock", "stub", "stub_tmp"} =>
       InPlace(KernelPath(Kernel[current.top]))
  /\ pc \in {"initrd_tmp", "pcrlock", "stub", "stub_tmp"} =>
       initrd \in Blobs /\ InitrdPath(initrd) \in gc_roots
  /\ pc \in {"pcrlock", "stub", "stub_tmp"} => InPlace(InitrdPath(initrd))
  /\ pc = "stub_tmp" => StubTarget \in gc_roots

\* Everything the loop of a run has passed boots and is rooted, and the run is
\* where its position says: with NamesPromiseContents the inductive invariant
\* behind InstalledAfterLoop and ImplementsContract.
RunInvariant ==
  /\ RunPosition
  /\ \A e \in generations : e \in todo \/ e = current \/ Kept(e)

\* What a limit is for: no link is newer than one of these versions and not
\* among them, and there are as many as the limit allows.
AreNewest(kept) ==
  /\ kept \subseteq Links
  /\ \A v \in kept, w \in Links : v < w => w \in kept
  /\ IF cfg.limit = 0 \/ Cardinality(Links) <= cfg.limit THEN kept = Links
     ELSE Cardinality(kept) = cfg.limit

\* A run that ends with garbage collection leaves exactly the boot menu of the
\* newest generations of the profile, up to the configuration limit: no stale
\* entry, none of another key or of an earlier owner of the number, no dead
\* entry, no temporary file, and no generation twice ("There should only be one
\* such entry" in read_installed_generation).
MenuIsExact ==
  pc = "done" /\ broken_gens = {} =>
    /\ \A p \in StubPath : linux[p] # None =>
         p.entry \in EntriesOf(p.entry.version) /\ p.key = cfg.key /\ Boots(p)
    /\ AreNewest({p.entry.version : p \in {q \in StubPath : linux[q] # None}})
    /\ \A e \in generations : Installed(e)
    /\ \A p, q \in StubPath :
         linux[p] # None /\ linux[q] # None /\ p.entry = q.entry => p = q

\* Such a run leaves no kernel or initrd that no boot entry uses.  There is one
\* exception: when Measured Boot is enabled, a stub that has no measurement is a
\* root before it is replaced, and if the secrets have changed since, its old
\* initrd stays until the next run.
NoUnusedFiles ==
  pc = "done" /\ broken_gens = {} =>
    \A f \in CaPath : nixos[f] # None =>
      \/ \E p \in StubPath : Boots(p) /\ f \in StubRoots(p)
      \/ /\ cfg.measured /\ f.kind = "initrd"
         /\ \E e \in generations : f.hash \in Initrds[e.top]

\* A run that met a malformed generation removes no stub, no kernel or initrd
\* and no measurement: it protects what it cannot read.
BrokenProtects ==
  [][broken_gens # {} /\ pc # "idle" =>
       /\ \A p \in StubPath : linux[p] # None /\ ~p.tmp => linux'[p] # None
       /\ \A p \in CaPath : nixos[p] # None /\ ~p.tmp => nixos'[p] # None
       /\ \A t \in Tag : pcrlock[t] # None => pcrlock'[t] # None]_vars

\* A run that completes with Measured Boot has, for every generation and no
\* other, a pcrlock file.
MeasurementsExact ==
  pc = "done" /\ cfg.measured /\ broken_gens = {} =>
    \A t \in Tag : pcrlock[t] # None <=> \E e \in generations : TagOf(e) = t

\* That file predicts a stub of the generation that is installed, so a
\* system booted from the menu satisfies the TPM policy.
MeasurementsMatch ==
  pc = "done" /\ cfg.measured =>
    \A e \in generations : \E p \in StubPath :
      /\ p.entry = e /\ p.key = cfg.key /\ Boots(p)
      /\ pcrlock[TagOf(e)] = linux[p].image

\* Every started run comes to an end, completed or aborted.
RunEnds == pc # "idle" ~> pc = "idle"
=============================================================================
