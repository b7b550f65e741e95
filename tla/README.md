# Lanzaboote in TLA+

Lanzaboote boots NixOS with Secure Boot. It has two halves, and a module that runs them. `lzbt`, a command line tool
(`src/rust/tool`), runs at the end of `nixos-rebuild` and writes signed boot stubs, kernels,
initrds and systemd-boot to the EFI system partition (ESP). `lanzastub`, a UEFI application
(`src/rust/uefi`), is what each stub executes: it loads the kernel and the initrd its sections
name, checks their hashes, measures them and starts Linux. A NixOS module
(`src/nix/modules/lanzaboote.nix`) ties them together: it calls `lzbt` and, if asked to,
provisions keys and Secure Boot on the first boots. This directory models all three,
model-checks them with TLC and proves their main safety properties with TLAPS.

Paths below are relative to the repository (`src/`).

## 1. Inventory

### Components

| Component | Source | State | Operations | Module |
|---|---|---|---|---|
| `lzbt install`, generations | `rust/tool/systemd/src/install.rs`, `cli.rs`, `esp.rs`, `rust/tool/shared/src/generation.rs` | files of `EFI/Linux`, `EFI/nixos` and the pcrlock directory; in memory `gc_roots`, `broken_gens`, the position in the loop | read links, apply the limit, register or install each generation, sync, collect garbage | `Installer` |
| the contract of a run | same | the boot menu | begin, grow, collect, end | `EspContract` |
| `lzbt install`, boot loader | `install_systemd_boot`, `version.rs`, `pcrlock.rs` | two copies of systemd-boot, `loader.conf`, `current.pcrlock` and `next.pcrlock` | decide, lock, sign and rename twice, promote, copy the configuration | `SystemdBoot` |
| garbage collector | `rust/tool/shared/src/gc.rs` | the roots, a lazy directory walk | keep, remove a file, remove a directory | `GarbageCollector` |
| signers | `rust/tool/shared/src/signature/` | none | sign, verify, name the public key | in `Installer`, `SystemdBoot` |
| stub assembly | `rust/tool/shared/src/pe.rs` | none | assemble an image, read sections back | `PeImage`, `Installer` |
| stub | `rust/uefi/stub/src/` | what is loaded, measured, registered in one boot | load and check, choose the command line, boot | `Stub` |
| measurements, companions, EFI variables, initrd loader | `rust/uefi/linux-bootloader/src/` | PCRs, EFI variables, protocols, the image handle | measure, export, discover, register, start, serve, uninstall | `Stub` |
| PE loader | `pe_loader.rs`, `uefi_helpers.rs` | an image in memory, its pages | allocate, copy sections, check, free; read a section | `PeImage` |
| cpio writer | `rust/uefi/pio/src/` | an output cursor, an inode counter | write headers, files, trailer | `Cpio` |
| os-release | `rust/tool/shared/src/os_release.rs` | the parser's state, a key and a value | read a character, store a line, write | `OsRelease` |
| NixOS module | `nix/modules/lanzaboote.nix` | key files, auth variables, the signers of what is on each ESP, the firmware's key, the pcrlock policy, a bound volume | generate keys, enrol, run `lzbt` for every ESP, make the policy, bind, reboot | `Provisioning` |

### How they interact

* `lzbt` and the stub share nothing but the ESP: a stub embeds the *paths* and *hashes* of its
  kernel and initrd, both content-addressed, so the meeting point is whether the files named by
  a stub exist with the promised contents (`Boots` in `Installer`, `Reads` in `Stub`).
* `install` calls the loop over the generations, then `install_systemd_boot`, then the garbage
  collector with the roots both have gathered. The loop and the collector touch disjoint files
  from `install_systemd_boot`, which is why the two are separate modules.
* Between runs the world acts on the same files: systemd-boot renames counted entries,
  systemd-bless-boot removes the counter, users build and delete generations, rotate keys,
  switch Measured Boot, and delete kernels when the ESP is full.
* The kernel calls back into the stub: `LoadFile2Protocol::load_file` runs while `Image::start`
  is waiting for the kernel's entry point.

### What is hard

* **A run can stop anywhere.** Nothing is rolled back; the next run starts from whatever it
  finds and trusts `exists()` for files it did not write itself.
* **Deciding what is still needed.** The roots are path names; deleting a file the menu needs
  makes a system unbootable, keeping too much fills the ESP.
* **Names that are used again.** Generation numbers are reused with other contents, stubs are
  renamed by other programs, one pcrlock file serves whoever owns the number.
* **Two-step updates.** The boot loader has two copies and two measurements that change at
  different moments.
* **A disk that forgets.** Renames and data reach a FAT in any order; only `sync_all` and `syncfs`
  fix a point.
* **Services that find their turn by files.** Provisioning spans several boots; each service runs
  if certain files do not exist, and a reset leaves some of them.
* **Failing firmware calls.** In the stub some failures panic, some are ignored, some change
  which command line is used.

`PROJECT.json` lists the hazards at their lines with the properties that would catch them.

### What makes each component correct

* Generations: no interruption leaves a wrong file under a final name; nothing bootable goes
  before everything configured boots; a completed run leaves exactly the menu of the newest
  generations within the limit and a measurement for each; an unreadable generation stops all deletion; a run ends.
* Boot loader: a completed run leaves two current, accepted, measured copies; a usable copy is
  never lost on the way.
* Garbage collector: a completed walk removes exactly the garbage in whatever order directories
  are listed; a root whose directories are roots always survives.
* Stub: only the signed kernel and initrd run; unless Secure Boot is known to be off the command
  line is the embedded one; the PCRs describe what runs; nothing dangling is left registered.
* Power: what a completed run leaves survives a power loss, and garbage is collected only when the
  replacement is durable; the run after a power loss repairs what it damaged.
* Provisioning: success means that everything is signed, so that enforcement does not lock the
  machine out; the firmware's key is one `lzbt` signs with; the volume depends on a full policy;
  without faults it completes by itself.
* Formats: a newc reader finds what the cpio writer wrote, whatever the lengths, and the archive
  depends on the set of files only; a PE image is loaded as linked and sections are read back;
  os-release values survive being written and read.

## 2. Modules and how they correspond to the code

### `Installer`

A file is a cell of a function from names to contents (`None`: no file, `Partial`: a writer has
not finished). SHA-256 is taken as injective: the hash of a blob is the blob, a
content-addressed name carries its contents, and the `input hash` of a stub name is the pair of
toplevel and key. The label with the kernel version in the names of `EFI/nixos` is left out.

| Code | Model |
|---|---|
| `Installer::install`, sorting and the limit | `Links`, `LimitedLinks`, `ReadableLinks` |
| `install_generations_from_links` | `Start`, `GiveUp` (no readable generation), `IsNext` (the order of the loop), `InstalledAll`, `SyncFs` |
| `register_installed_generation`, `read_installed_generation` | `Registered`, `NotRegistered`, over `Matching`, `Readable`, `Measured` |
| `install_nixos_ca`, `install`, `atomic_copy` | `InstallCa` (temporary file) and `RenameCa` |
| `install_generation` | `InstallKernel`, `RenameKernel`, `InstallInitrd`, `RenameInitrd`, `LockImage`, `SignStub`, `RenameStub` |
| garbage collection | `BootLoaderInstalled` (skipped with a malformed generation), `CollectNixos`, `CollectLinux`, `CollectPcrlock` |
| an error anywhere, or a kill | `Abort` |
| the world | `NewGeneration`, `DeleteGeneration`, `Reconfigure`, `DeleteCaFile`, `BootTry`, `Bless` |

If a directory lists several matching stubs, `read_dir` decides which is found first; the model
chooses. A stub that cannot be read counts as not installed. Damage that leaves a section table but not
its data makes `read_section_data` (`pe.rs:254-259`) panic instead of returning `None`; that run ends, an
`Abort` in the model, and so does the next one until somebody deletes the file. Deleting is one file per step in any order, so that a kill can fall between any two.
Where `Roots` removes directories and what it does with files it cannot delete is the subject of
`GarbageCollector`; here the directories are flat and files can be deleted.

### `EspContract`

What a run promises about the menu without files: the set of bootable systems only grows until
it includes all the run is about (`Grow`, `BeginCollect`), and only others may go after that
(`Shrink`). `Installer` instantiates it with the refinement mapping `menu <- Menu`,
`target <- generations \X {cfg.key}`, `phase <- Phase`.

### `SystemdBoot`

`install_systemd_boot` step by step: `Start` evaluates `NeedsInstall` (`Newer`, `Verified`,
`MeasurementExists`), then `LockNext`, two times `Sign` and `Rename`, `PromoteNext`,
`InstallConf`. A binary is a version and a signer; `lock_pe` measures the version. `Tamper`
deletes, damages or replaces a copy, as the integration tests do; damage on which `read_section_data`
panics is an `Abort`, as in `Installer`. The history variable `cut` counts the
updates that were cut short since the last one that was completed; only `MeasuredAfterRun` reads it:
`current` describes both copies unless there is a `next`, and after one interrupted update one of the two
describes each copy.

### `GarbageCollector`

`collect_garbage_with_filter` on a tree given by `Children` and `Below`. The walk keeps a
frontier of entries that were listed and not looked at; `Keep` enters a directory, `RemoveFile`
ignores a failure, `RemoveDir` removes a whole subtree, `RemoveDirFails` stops half-way through
one. `WalkDir` is lazy: a removed directory yields no further entries. The directory itself is a
root, as `InstallerBuilder::build` makes it one.

### `Stub`

One boot as a sequence of steps, each of which may meet a failing firmware call (`Fails`).
Inputs: the SecureBoot variable (on, off, unreadable, absent), a TPM, the load options of the
boot loader, the section table. Files are chosen when they are read (`Reads`), so two reads of the same
file may differ. `check_hash` compares contents.
A layout is any sequence of section names (`LayoutsAssumption`). `SectionsToMeasure` has those of
`UnifiedSection` that are `Measurable`, as often as the table has them, sorted; what is measured for one
is `Contents`, which depends on the name alone because `section_data` finds the first section of a name.
Without the sections that `load_from_pe` needs (`HasSections`) there is no boot.
The measuring loops of `measure_image` and `measure_companion_initrds` are one action `Measure`
over a queue. A TPM may be absent (`none`), open whenever it is asked to (`stays`), or open at the
start and not later (`may_vanish`): `tpm_log_event_ascii` then returns `Ok` without measuring, so
measurements are counted that were not made, and `VariablesTruthful` and
`CustomCmdlineMeasuredByTpm` speak of the other machines only. One Loader and one Stub EFI variable
stand for their groups. A companion archive is the set of its files, because `pack_cpio` sorts
them. Linux (`KernelDoes`) is external: it takes over, returns, or exits.

### `PowerLoss`

`Installer` lets a run die, but what it wrote stays. `PowerLoss` extends it with what a power loss
may leave under each name (`linux_disk`, `nixos_disk`: sets of files) and wraps every action of
`Installer`: `CopyStep` (a copy that is synced before the rename, so both names come up as before or
after), `SignStep` and `InstallSignedStep` (`install_signed`, no sync: the new stub may also come up
`Partial`), `SyncStep` (`syncfs`: only what is there now), `CollectGarbageStep`, `QuietStep`,
`Killed`. `LosePower` chooses one file for every name and ends the run. Names are independent of each
other; a FAT that is itself corrupted is out of scope, as `atomic_copy` says. The pcrlock files are
on another file system and are left out. With `Undetected` a damaged stub may read well and lack
only its signature.

### `Provisioning`

The services of `nix/modules/lanzaboote.nix` on a machine that boots, is reset and is rebuilt.
`Script` gives the commands of a service, `Condition` its `ConditionPathExists` and
`ConditionSecurity`, `Ordered` its `after`. `RunCommand` runs one command: `CreateKeys` (sbctl, in three
steps), `EnrollKeys` (the three auth files), `RunLzbt` (stubs, boot loader, garbage collection of one
ESP, by what the signer does), `LockTpm` (the policy, systemd-cryptenroll, the marker file).
`Lzbt(n)` is the sequence of commands for `n` mount points. `AfterFailure` says what still runs when a
command fails: the hook is a shell script that goes on with the next mount point (`Skipped` is how many
commands that leaves out), `install` tries its other files (`OtherFiles`) and then fails.
`FinishJob` is success with its `SuccessAction`. Firmware and systemd-boot are external: `PowerOn`
(what the firmware accepts), `Enroll` (`secure-boot-enroll = force`), `StartSystem` (with the pcrlock
services of sysinit). Two simplifications: the auth variables are on the first ESP only
(`lanzaboote.nix:583`) while `Enroll` does not ask which ESP was booted, which allows more than the code
does; and the sysinit units (`lanzaboote.nix:488-522`) do not fail. They are systemd's, nothing requires
them, and if `systemd-pcrlock-secureboot-policy` failed the policy would lack PCR 7 and
`auto-cryptenroll` would bind the volume all the same: `EnrolledPolicyIsFull` holds if they work.

### `Cpio`, `PeImage`, `OsRelease`

`Cpio` is `pack_cpio` over `pack_prefix`, `pack_dir`, `pack_one` and `pack_trailer`, one call per step.
Names and contents are lengths; an archive is the sequence of its entries with their offsets. A batch has
the lengths of the target directory up to each slash and to its end, and a rank for each file that stands
for its name in the order of `files.sort()`; `SortedFiles` puts at position `n` the file up to whose rank
there are `n`. The largest `u32` and `usize` are parameters. A reference reader (`ReaderNext`) rounds absolute offsets, as
newc readers do; `Fits` says from the arguments alone what there is room for.

`PeImage` has the tool's side (`LanzabooteImage`: `Offsets`, `Assemble`; objcopy is external) and the
stub's (`Image::load`: `Allocate`, `CopySection`, `FinishLoad`; `Image::start` frees in `Returned`). A
byte is the file offset it comes from, or zero. The largest `u32`, the size of a page and the number of
pages in the address space are parameters (`UsizeMax` follows). The image base, which the tool adds and objcopy
subtracts, is left out. Sections are looked up by name and the first one is taken (`Find`); that this is the
one the tool has added rests on `StubAssumption`: the stub is built without sections of these six names. The firmware is taken to load a stub as `Image::load` loads a kernel.

`OsRelease` is the parser, one character per step with the states of the source, and the writer. The parser
skips four ASCII characters as whitespace, while `str::trim_end` takes off all of Unicode's `White_Space`:
`nbsp` stands for what is in the second only (form feed, U+0085, U+00A0 and the like).
`MC_Formats` runs the three side by side, one of them in each behaviour.

## 3. Runs

Every run is `tlc -config <name>.cfg MC_<module>`. None takes more than about a minute.

| Run | Expect | Shows |
|---|---|---|
| `Installer_core` | pass | Limit and boot counting on and off, kills anywhere, reused numbers, deleted kernels: a completed run leaves exactly the newest generations of the profile on the menu, up to the limit, each once (`MenuIsExact`); `ImplementsContract`. |
| `Installer_rotation` | pass | Key rotation, Measured Boot and the limit on and off, changing secrets, a specialisation, a malformed generation: `NamesPromiseContents`, `NoUnusedFiles`, `MeasurementsExact`, `BrokenProtects`; under fairness every run ends (`RunEnds`). |
| `PowerLoss_sync` | pass | Power lost at any step of runs that rotate the key or apply a limit: `DurableAfterSync`, `SomethingBoots`, `CaNamesSurvive`; `InstalledAfterLoop` holds for the runs after it too. |
| `SystemdBoot_update` | pass | Versions up and down, two keys or none, damaged copies, updates cut short: `UpToDateAfterRun`, `MeasuredAfterRun`, `NeverWithoutBootLoader`. |
| `GarbageCollector_walk` | pass | Every set of roots, filter, set of present and of undeletable files on a nested tree, in every order: `RemovesExactlyGarbage`, `RootsSurvive`. |
| `Stub_boot` | pass | Every machine, files that may differ at every read, four section tables, up to two failing calls: `OnlyVerifiedRuns`, `SecureBootPinsCmdline`, `MeasuredAsRun`, `ReturnsClean`; while the TPM can be opened also `CustomCmdlineMeasuredByTpm` and `VariablesTruthful`. |
| `Installer_reuse_measured` | violation | A pcrlock file is found by generation number alone, so one that predicts another toplevel's image counts (`MeasurementsMatch`). |
| `Installer_bless_race` | violation | A stub renamed by systemd-bless-boot during a run is no root under its new name and is collected (`InstalledAfterLoop`). |
| `Provisioning_first_boot` | pass | One or two ESPs, Measured Boot and automatic reboots on and off, resets anywhere, rebuilds, failing commands where the hook is one `lzbt`: `SuccessMeansSigned`, `FirmwareKeyIsOurs`, `EnrolledPolicyIsFull`; without faults `Provisioned`. |
| `Provisioning_hook_status` | violation | A failed `lzbt` before `make-policy` does not fail the hook, so the service "succeeds" and reboots into enforcement (`SuccessMeansSigned`). |
| `Formats_limits` | pass | Archives, images and texts at their limits: `ReaderFindsEntries`, `ArchiveIsCanonical`, `OnlyOversizeFails`; `LoadedAsLinked`, `PagesExact`, `SectionsReadBack`; `LinesIndependent`, `QuotedRoundTrip`, `BareRoundTrip`. |
| `Stub_no_tpm` | violation | Without a TPM a custom command line is used although "measuring is mandatory" (`CustomCmdlineMeasured`). |

Each violation is a statement of a comment or document that the code does not keep; the quotes
and the scenarios are under `findings` in `PROJECT.json`. They need unusual sequences (a kill in
one particular window, a setting toggled around an update) and none makes a run that is not
interrupted or raced remove what it should keep.

Two comments about the stub disagree with the code, and the passing properties side with the code.

* `rust/uefi/linux-bootloader/src/linux_loader.rs:4-6`: "XXX The initrd signature validation is
  vulnerable to TOCTOU, because we read the initrd multiple times." This is out of date.
  `thin.rs:62-67` reads the kernel and the initrd once; the memory that was read is hashed, measured and
  handed to `InitrdLoader`. The model lets every read differ, so `OnlyVerifiedRuns` would show a second
  read: its mutant `LoadFileReadsAgain` does what the comment describes, and TLC finds an initrd that was
  never checked.
* `rust/uefi/linux-bootloader/src/measure.rs:29`: PCR 12 "is where lanzastub extends the kernel command
  line and any passed credentials into". Only credentials get there. An embedded command line is measured
  as the section `.cmdline` into PCR 11, one from the boot loader into PCR 4 (`measure_boot_loader`,
  `common.rs:31`). `MeasuredAsRun` says which is where; a policy that expects the command line in
  PCR 12 would find nothing of it, and the variable `StubPcrKernelParameters` is only set if there
  are credentials.

Two more comments say less than the code does, which reading shows without a run.
`rust/tool/systemd/src/install.rs:431-432` says systemd-boot is only updated when a newer version
is available or the installed one is not signed; a missing measurement (line 468) also replaces
it, even by an older version. `rust/tool/shared/src/gc.rs:44-45` says only files for which the
filter returns true are deleted; a directory that matches goes with everything in it (line 71).

`InstalledAfterLoop` holds in `Installer_core` and fails in `Installer_bless_race`, `SuccessMeansSigned`
holds in `Provisioning_first_boot` and fails in `Provisioning_hook_status`: the difference is the
circumstance the run is about.

### Disagreements that are not runs

The same models show more with other constants; these are recorded here.

* `Installer`, boot counting and Measured Boot switched on: `register_installed_generation` makes a
  booted stub (no counter in its name) a root, finds no measurement and has a second stub written
  under a fresh counter. `install.rs:380-381` says "There should only be one such entry." Without
  boot counting the same order keeps a superseded initrd until the next run, the exception in
  `NoUnusedFiles`.
* `SystemdBoot`, a package that changes after an update was cut short: `lock_pe` overwrites `next`
  while the copy it describes is installed; `install.rs:474-475` says the measurements of the current
  and next "remain available". If that second update is cut short too and the package is then rolled
  back, the next run finds nothing to do and completes with a copy that neither file describes. This is
  why `MeasuredAfterRun` asks for `cut <= 1`; without it TLC shows the sequence in six events.
* `SystemdBoot`, Measured Boot switched off, systemd updated, Measured Boot switched on:
  `measurement_exists` (`install.rs:461`) finds the old `current.pcrlock` and is content, so
  `MeasuredAfterRun` fails.
* `PowerLoss` with `Configs <- EnableMeasured`: enabling Measured Boot writes every stub again under
  its own name without a sync, so a power loss can damage the only copies and `SomethingBoots` fails
  until `syncfs`. With `Undetected = TRUE` the next run takes a stub whose signature is damaged for
  installed, because `read_installed_generation` does not verify it: `InstalledAfterLoop` fails, while
  `DurableAfterSync` and `SomethingBoots` still hold. The two copies of systemd-boot are replaced after
  `syncfs` with no later sync (seen by reading, not modelled).
* `Provisioning`: a reset after the auth files are on the ESP and before `lzbt` has signed it ends in
  a machine that refuses its boot loader, because the conditions of `prepare-sb-auto-enroll` are
  never true again. `SuccessMeansSigned` therefore speaks of a service that has succeeded. A reset
  during `sbctl create-keys` leaves a directory that keeps `generate-sb-keys` from running again.
* `Cpio`: at the limits some errors are panics. `pack_one` allows names whose NUL no longer fits 32 bits
  and `pack_dir` does not check the width; neither can be reached with FAT file names. `OnlyOversizeFails`
  covers errors and panics alike.
* `PeImage`: an error in `Image::load` after the allocation leaks its pages, as its comment says.

### Bounds, and why they are enough

* `MaxEvents` (4 or 5, 6 in `Installer_reuse_measured` and `SystemdBoot_update`) bounds events *between and around* runs: generations built and deleted,
  configuration changes, boots, deletions, and aborts. Four
  events allow a second generation, a change of configuration, a kill and a deletion or a boot;
  five also a number that is used again in between. Complete runs are not counted
  and happen any number of times.
* Two generation numbers and three toplevels: one number is enough for reuse, two for the limit
  to drop one, three toplevels for two owners of a number beside a neighbour. All share a kernel
  and two share an initrd, so that sharing between kept and removed generations occurs.
* `MaxTries` = 1: counters `+1`, `+0-1` and none cover a fresh, a tried and a blessed entry.
* Three systemd versions: older, equal and newer than what is installed, with a copy of each of
  two other versions during an interrupted update.
* A tree of five paths with a directory in a directory: removing a directory can meet roots,
  non-matching and undeletable files below it at two levels.
* `MaxFailures` = 2: one failure that is survived and one after it. The four section tables of `Stub_boot`
  have sections in and out of canonical order, ones that are measured and ones that are not (`.text`,
  `.pcrsig`, `.dtbauto`), one of them twice (`.sbat`), and one table cannot be booted.
* `PowerLoss`: `MaxEvents` = 2 (a generation and a change of configuration, or a kill) and one power loss,
  anywhere, with complete runs before and after it. Two toplevels share a kernel.
* `Provisioning`: two ESPs, two key pairs, two resets, up to two failing commands and rebuilds. The third boot of a
  complete provisioning can still be reset.
* `Formats_limits`: `u32` has 4 bits in `Cpio` and 5 in `PeImage`, where the address space has 8 pages of
  4 bytes, so that counters, sizes, names and addresses pass their limits; every length modulo 4 occurs; a `usize` of 511 cannot hold two entries and 8191 holds
  all. Stub sections have lengths 0 to 2 with a file alignment of 2, kernels any of some thousand
  section tables. Texts have up to five characters, values up to four, of those the parser tells
  apart, and one that only `trim_end` takes for whitespace.

Deadlock is checked in the `Installer` and `SystemdBoot` runs. A walk and a boot end, so
`GarbageCollector`, `Stub` and `Formats_limits` say `CHECK_DEADLOCK FALSE`; so do the `Provisioning`
runs, where a machine may end up refusing to boot. `PowerLoss_sync` checks deadlock.

### Fairness

`FairSpec` of `Installer` has weak fairness on `InstallStep \/ CollectStep \/ Finish`: `lzbt` is
one sequential process that the kernel keeps scheduling, and each step is a system call or a
child process that returns. Nothing is assumed of users, of the boot loader, or of the next run.

`FairSpec` of `Provisioning` has weak fairness on `Progress`: a machine that is off is switched on, the
firmware and systemd-boot boot it, and systemd starts the services it has queued and runs their
commands, which return. Reboots by the user, resets and rebuilds are not assumed to happen;
`Provisioned` asks for the automatic reboot of `prepare-sb-auto-enroll`.

## 4. Proofs

The theorems hold for every value of the constants that satisfies the named assumptions: any
number of generations, toplevels, specialisations, keys, blobs and configurations, and any
`MaxEvents`, `MaxLosses` and `MaxFailures`. Where a theorem needs more than the assumptions of its module,
that is a hypothesis of the theorem and is given here with the reason.

### `InstallerProofs`

Assumptions: `ConstantsAssumption`, `NoneAssumption` (types, and that `None` and `Partial` are
nothing else) and, for the limit, `VersionsAssumption` (generation numbers are `u64`, so finitely many). Part 1 proves `Core == TypeOK /\ CaNames /\ RunPosition`, one lemma
per action, and from it `StubNames` and `StubsWhole`. `NamesPromiseContents` is not inductive alone: that
a rename gives a final name the right contents needs the position of the run (`RunPosition`: which blob
is being installed, and that kernel and initrd are in place and rooted before the stub is written).
`Core` does not depend on what is under the name of a stub, so `PowerLossProofs` can use it. Theorems
`TypeCorrect` and `NamesPromiseContentsHolds`.

Part 2 assumes `~ConcurrentBless` (nobody renames stubs while `lzbt` runs; `Installer_bless_race`
shows what happens otherwise) and adds `Passed`: every generation of the run is still to do, is
the current one, or is `Kept`, that is, boots from files that are all roots. The argument: what
exists under a content-addressed name is right (Part 1), so a readable stub boots; installing
never changes a file that is right; collecting never touches a root. `RunInvariantHolds`,
`InstalledAfterLoopHolds`.

Part 3, `Refinement`: initial states map to initial states and every step of `Installer` to a step
or a stutter of `EspContract`, from `MenuGrows` (install steps), `MenuShrinks` (collecting) and
`TargetOnMenu` (Part 2).

### `CollectionProofs`

What a completed run leaves. `MeasurementsExactHolds` needs no hypothesis: the rooted tags are exactly
those of the generations the loop has passed (`RootedTagsExact`), and the collector removes the others.
The rest assumes `~ConcurrentBless` again. `BrokenProtectsHolds`: with a malformed generation no step
is a collecting step, and no installing step empties a final name. `CollectionInvariantHolds` says of the
other directories what `RootedTagsExact` says of the measurements: a rooted stub boots from rooted files
and belongs to a generation the loop has reached (`RootedStubsBoot`), there is one for each generation
unless a measurement was missing (`RootedOnce`), and a rooted file is one that a rooted stub needs
(`RootedFilesJustified`, with the exception for secrets that changed that `NoUnusedFiles` names).
`NoUnusedFilesHolds` and `MenuIsExactHolds` follow. `MenuIsExact` speaks of the profile and not of what the run
took from it: `RunIsCurrent` says that a run is about the limited links of the profile as it is, and
`LimitKeepsNewest` that counting the newer links (`LimitedLinks`) leaves the newest ones and as many as the limit allows
(`AreNewest`). The theorem assumes that Measured Boot and boot counting
are not combined (`NeverMeasured \/ NeverCounted`): if they are, a second stub can be written for a
generation (section 3).

### `PowerLossProofs`

`PowerCore` is `Core` with `DiskTypeOK` and `CaNamesSurvive`, which have to be proved together: what a power
loss leaves under a content-addressed name has to be right for `Core` to survive `LosePower`. From it
`SyncInvariant`: from `syncfs` on every root can come up in one way only. `DiskTypeCorrect`,
`CaNamesSurviveHolds` and `DurableAfterSyncHolds` need no hypothesis. `PowerInstalledAfterLoop` assumes
`~Undetected`: a stub that a power loss has damaged cannot be read (section 3 has the other case).
`SomethingBootsHolds`, an action property, assumes `NeverMeasured` and `NeverCounted`, as the
constants of `PowerLoss_sync` do: then a run writes a stub only under a name that does not boot
(`ReplacesDead`), so nothing that boots is lost before `syncfs`, and after it `DurableAfterSync` takes over.

### `SystemdBootProofs`

`UpdatePosition` says what has been replaced at each step of an update. `TypeCorrect`,
`UpToDateAfterRunHolds` and the action property `NeverWithoutBootLoaderHolds` need no hypothesis.
`MeasuredAfterRunHolds` assumes that Measured Boot is not switched off (`AlwaysMeasured`; section 3 says what
happens otherwise). Its invariant `PcrlockPosition` relates the two files to the two copies at each step
and the number of interrupted updates.

### `GarbageCollectorProofs`

From `TreeAssumption` (`Below` is the reflexive transitive closure of `Children`), the invariant
`WalkInvariant`: what exists is closed upwards, what is gone is garbage and was deletable, and
every collectable path that still exists is below the frontier. The last part is what makes the
result independent of the order of directory entries. `RootsSurviveHolds`,
`RemovesExactlyGarbageHolds`.

### `StubProofs`

`BootInvariant` records what is settled at each point of a boot: after loading the contents are
the signed ones, the command line is the embedded one unless Secure Boot is known to be off, the
handle is the stub's unless the kernel is running, LoadFile2 is registered only around it.
`OnlyVerifiedRunsHolds`, `SecureBootPinsCmdlineHolds`, `ReturnsCleanHolds`, also for a TPM that
vanishes. `CustomCmdlineMeasuredByTpmHolds`, `VariablesTruthfulHolds` and `MeasuredAsRunHolds` follow the
queue of measurements through the boot: without a failing call what is in a PCR and what is still queued
for it are together what the stub set out to measure. That this is what `ImageMeasuredAsRun` says of PCR 11 is a
fact about `SectionsToMeasure` for any section table, however long (`ImagePlan`): the entries of one rank fill
a block of positions (`Blocks`, by cardinalities), so every measurable section is there as often as in the
table, and the ranks do not decrease (`SectionsSorted`).

### `ProvisioningProofs`

For any number of mount points, key pairs, resets, failing commands and rebuilds. `Base` has the types,
that every command left belongs to the running service, how far key generation has come (`Generating`),
that nothing is ever about a key other than the one generated (`OneKey`), and that
`prepare-sb-auto-enroll` exports from complete keys (`Exporting`). `TypeCorrect`, `FirmwareKeyIsOursHolds`.

`EnrolledPolicyIsFullHolds` needs no hypothesis, and so covers failing commands with Measured Boot, which the
settings of `Provisioning_first_boot` leave out. A stub that Secure Boot accepts was written by an `lzbt`
that measured PCR 4 as well; sysinit measures PCR 7 under Secure Boot (`Measures`); and the hook keeps its
order whatever fails, so that `systemd-cryptenroll` never runs before a policy was made (`Hooked`, `Binding`).

`SuccessMeansSignedHolds` assumes `FailuresAreSeen`: no command fails for a reason of its own, or the hook is
one `lzbt`. Otherwise it is false (`Provisioning_hook_status`). The invariant `Signing`: what an ESP lacks is
still on the service's list, or the service is going to fail.

`AfterFailure` uses `Min`; the fact that a set of naturals has one comes from the well-founded minimum
of the library (`MinOfNaturals`), not from an induction.

### `FormatProofs`

For every batch, machine width, section table, page size, text and value. `CpioSpec`, `PeSpec` and `OsSpec` are
the three components on their own; `CpioAssumption`, `PeAssumption`, `StubAssumption` and `OsAssumption` say what arguments and
characters are (lengths are natural numbers, file names in a directory differ, a page is not empty).

`Cpio`: `CpioInv` has the types, that every entry starts at a multiple of 4 (`Aligned`), which is why padding each
entry on its own agrees with a reader that rounds offsets, and that the archive is the beginning of the plan
and `calls` the rest of it (`Planned`). The plan is canonical because the position that `SortedFiles` gives a file is a
cardinality: counting is injective on distinct ranks, so every position is taken. From these
`ReaderFindsEntriesHolds` and `ArchiveIsCanonicalHolds`. `OnlyOversizeFailsHolds` adds `Filled`: the buffer has what the
calls made so far have added. If the batch fits, the whole plan does, because the sums of `Fits` and those of the
plan are over the same lengths in another order (`PermutedSum`: `SumFunction` does not depend on the order), so
the next call has room, and then no check of `pack_one` or `pack_dir` fires (`CallAdds`).

`PeImage`: `PeInv` relates memory to the section table at each step of the copy. While the loader runs, an
address has the byte of the last copied section that covers it (`Loading`, `LastOf`); the pages taken hold the image
(`Allocated`); the six sections the tool adds are the last of the table and the first of their names, one after the
other, with all their data in the file (`InOrder`). `PagesExactHolds`, `LoadedAsLinkedHolds`, `SectionsReadBackHolds`.

`OsRelease`: `Buffers` (which states leave nothing in the buffers) gives `LinesIndependentHolds`.
`QuotedRoundTripHolds` and `BareRoundTripHolds` follow the parser through what the writer produced: `QuotedReads`
says how much of the value is in the buffer in each phase of the text. `BareReads` says that the parser has read the value
exactly, or has lost a character of it for good (then what is in the buffer is shorter than what has been
read, or shifted against it, to the end), or has already stored another one; only the first is possible for a `Plain` value, and the others for one
that is not.

What is computed in one step from a sequence (concatenated pieces, sums, positions) is proved without induction
over data: the library gives a set of natural numbers its least element (`MinOfNaturals`), and no index can be
the least at which the claim fails.

### Only model-checked

`RunEnds` and `Provisioned`: liveness under fairness is out of the prover's reach. Every other property of a
passing run is stated by a theorem, where needed with the hypotheses given above.

## 5. Not modelled, and why

* A FAT that a power loss corrupts, and power lost while systemd-boot is replaced.
* A full ESP as a state: ENOSPC is an `Abort` at any step, but not the space that is left.
* `objcopy` and `sbsign` beyond what the code relies on; the headers, certificates and image base of a
  PE file.
* The contents of EFI variables (partition UUID, firmware strings, `get_loader_features`, which only
  logs), the JSON of bootspec, and the parsing of version strings (`version.rs`).
* `sign_store_path` and `build_and_sign_stub`, which `lzbt install` does not use.
* Two `lzbt` processes at the same time on one ESP: nothing locks it, and the temporary names of both
  are the same. `Provisioning` lets one run at a time.
* `rust/uefi/pio/src/packer.rs`, which is not compiled; the fwupd service and the option declarations of the
  NixOS module.
* What systemd-pcrlock and systemd-cryptenroll do inside, beyond the PCRs a policy covers.
* Constant tables (architectures), argument parsing, logging.

## 6. Plan

Done, in this order: `Installer` with `EspContract` (the most important behaviour: never make a
machine unbootable), its proofs, `SystemdBoot`, `GarbageCollector` with proofs, `Stub` with proofs;
then `PowerLoss` over `Installer`, `Provisioning`, and the formats `Cpio`, `PeImage` and `OsRelease`.

Left to model: `BootChain`, which would compose `Installer`, `SystemdBoot` and `Stub` over one ESP (what a
run leaves is what `OnlyVerifiedRuns` lets boot; today the interface is `Boots` on one side and
`Reads` on the other), concurrent runs of `lzbt`, and the parsing of version strings.

Next theorems: what composes the existing ones over `BootChain`.
