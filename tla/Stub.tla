------------------------------- MODULE Stub -------------------------------
(***************************************************************************)
(* One boot of a lanzaboote stub (rust/uefi/stub and the parts of          *)
(* rust/uefi/linux-bootloader it calls): it loads and checks the kernel    *)
(* and the initrd its sections name, measures what it is about to run,     *)
(* gathers companion initrds, chooses the command line, and starts the     *)
(* kernel, which calls back for the initrd.  Every call into the firmware  *)
(* may fail.                                                               *)
(***************************************************************************)
EXTENDS Integers, Sequences, FiniteSets

CONSTANTS
  None,
  Kernel, Initrd,     \* the contents whose hashes are in .linuxh and .initrdh
  OtherBlob,          \* any other file contents
  Embedded,           \* the contents of .cmdline
  Custom,             \* another command line
  Layouts,            \* section tables of images, as sequences of names
  Creds, SysExts,     \* names of *.cred and of *.raw files
  MaxFailures         \* bound on the firmware calls that fail

ASSUME ConstantsAssumption ==
  /\ MaxFailures \in Nat
  /\ None \notin {Kernel, Initrd, OtherBlob, Embedded, Custom}
  /\ Kernel # OtherBlob /\ Initrd # OtherBlob /\ Embedded # Custom

ASSUME LayoutsAssumption == Layouts \subseteq Seq(STRING)

VARIABLES
  \* What the stub finds; it changes none of it.
  secure_boot,   \* the SecureBoot variable
  tpm,           \* no TPM, one that opens whenever it is asked to, or one that
                 \* opens at the start (tpm_available) and may not later
  passed,        \* the load options of the boot loader
  layout,        \* the names in the section table
  \* What it does.
  pc,
  kernel_data, initrd_data,
  dropin,        \* there is a drop-in directory
  companions,
  queue,         \* measurements still to be made by the current loop
  measured,      \* the PCRs that loop has counted measurements for
  pcr,           \* the events logged in the PCRs
  efivars,       \* EFI variables that exist
  cmdline,
  protocols,     \* what InitrdLoader has registered
  loaded_image,  \* the LoadedImage protocol: whose image, which options
  served,        \* what the kernel got from LoadFile2
  failures

inputs == <<secure_boot, tpm, passed, layout>>
vars == <<secure_boot, tpm, passed, layout, pc, kernel_data, initrd_data,
          dropin, companions, queue, measured, pcr, efivars, cmdline,
          protocols, loaded_image, served, failures>>

\* What a read of a file may yield.  Nobody keeps the ESP from changing, so
\* every read is free to find something else.
Reads(expected) == {expected, OtherBlob, None}
\* A companion initrd; its archive is determined by its files.
Companion == [type : {"GlobalCredentials", "Credentials", "SystemExtension"},
              files : SUBSET (Creds \cup SysExts)]

\* The image handle as the boot loader set it up.
Own == [image |-> "stub", options |-> passed]

\* Every variable stays within its type, and once the command line is chosen
\* there is one.
TypeOK ==
  /\ pc \in {"load", "measure", "export", "dropin", "credentials", "sysexts",
             "companions", "cmdline", "kernel", "register", "start",
             "running", "kernel_returned", "booted", "returned", "exited",
             "halted"}
  /\ kernel_data \in Reads(Kernel) /\ initrd_data \in Reads(Initrd)
  /\ dropin \in BOOLEAN
  /\ \A i \in 1..Len(companions) : companions[i] \in Companion
  /\ measured \subseteq {4, 11, 12, 13}
  /\ DOMAIN pcr = {4, 11, 12, 13}
  /\ cmdline \in {Embedded, Custom, None}
  /\ pc \in {"kernel", "register", "start", "running", "booted"} => cmdline # None
  /\ protocols \subseteq {"DevicePath", "LoadFile2"}
  /\ failures \in 0..MaxFailures

\* is_tpm_available
TpmAvailable == tpm # "none"

\* Any machine and any image, before the first step of main.
Init ==
  /\ secure_boot \in {"on", "off", "error", "not_found"}
  /\ tpm \in {"none", "stays", "may_vanish"}
  /\ passed \in {None, Embedded, Custom}
  /\ layout \in Layouts
  /\ pc = "load"
  /\ kernel_data = None /\ initrd_data = None /\ dropin = FALSE
  /\ companions = <<>> /\ queue = <<>> /\ measured = {}
  /\ pcr = [i \in {4, 11, 12, 13} |-> <<>>]
  /\ efivars \in {{}, {"LoaderDevicePartUUID"}}
  /\ cmdline = None /\ protocols = {} /\ loaded_image = Own /\ served = None
  /\ failures = 0

\* A call into the firmware fails.
Fails == failures < MaxFailures /\ failures' = failures + 1
Works == UNCHANGED failures

Step(from, to) == pc = from /\ pc' = to

-----------------------------------------------------------------------------
\* check_hash, as a comparison of contents.
CheckHash(data, expected) == data = expected

\* UnifiedSection: the sections that have a meaning, in canonical order.
UnifiedSection ==
  <<".linux", ".osrel", ".cmdline", ".initrd", ".ucode", ".splash", ".dtb", ".dtbauto",
    ".hwids", ".uname", ".sbat", ".pcrsig", ".pcrpkey">>

Rank(s) == CHOOSE r \in 1..13 : UnifiedSection[r] = s

\* should_be_measured
Measurable == {UnifiedSection[r] : r \in 1..13} \ {".dtbauto", ".pcrsig"}

\* The entries of the section table that are measured and not after the r-th
\* section of the canonical order.
UpTo(r) == {i \in 1..Len(layout) : layout[i] \in Measurable /\ Rank(layout[i]) <= r}

\* Mutant: the sections are measured in the order of the section table.
SectionsInTableOrder == SelectSeq(layout, LAMBDA s : s \in Measurable)

\* sections_to_measure.sort(): every section as often as the table has it, after
\* all that come before it in canonical order.
SectionsToMeasure ==
  [k \in 1..Cardinality(UpTo(13)) |->
     UnifiedSection[CHOOSE r \in 1..13 :
                      k \in (Cardinality(UpTo(r - 1)) + 1)..Cardinality(UpTo(r))]]

\* The contents of the sections that are measured as they are.
Contents(s) == IF s = ".cmdline" THEN Embedded ELSE [section |-> s]

\* The kernel and the initrd stand for the sections that only name them.
SectionData(s, kernel, initrd) ==
  CASE s = ".linux" -> kernel [] s = ".initrd" -> initrd [] OTHER -> Contents(s)

\* measure_image: the name and the contents of each section into PCR 11.
ImageMeasurements(kernel, initrd) ==
  [i \in 1..(2 * Len(SectionsToMeasure)) |->
     [pcr |-> 11,
      data |-> LET s == SectionsToMeasure[(i + 1) \div 2]
               IN  IF i % 2 = 1 THEN s ELSE SectionData(s, kernel, initrd)]]

\* What load_from_pe needs of the image.
HasSections ==
  \A s \in {".linux", ".linuxh", ".initrd", ".initrdh", ".cmdline"} :
    \E i \in 1..Len(layout) : layout[i] = s

\* UkiComponents::load_from_pe; both files are read once, and what was read is
\* checked and stays in memory.
LoadFromPe ==
  /\ Step("load", IF TpmAvailable THEN "measure" ELSE "export")
  /\ HasSections
  /\ \E kernel \in Reads(Kernel), initrd \in Reads(Initrd) :
       /\ kernel # None /\ initrd # None
       /\ CheckHash(kernel, Kernel) /\ CheckHash(initrd, Initrd)
       /\ kernel_data' = kernel /\ initrd_data' = initrd
  /\ Works
  /\ queue' = IF TpmAvailable THEN ImageMeasurements(kernel_data', initrd_data') ELSE <<>>
  /\ UNCHANGED <<inputs, dropin, companions, measured, pcr, efivars, cmdline,
                 protocols, loaded_image, served>>

\* A missing section or file, a wrong hash or a failing read ends in a panic.
LoadFails ==
  /\ Step("load", "halted")
  /\ \/ Fails
     \/ /\ Works
        /\ ~HasSections \/ \E kernel \in Reads(Kernel), initrd \in Reads(Initrd) :
             \/ kernel = None \/ initrd = None
             \/ ~CheckHash(kernel, Kernel) \/ ~CheckHash(initrd, Initrd)
  /\ UNCHANGED <<inputs, kernel_data, initrd_data, dropin, companions, queue,
                 measured, pcr, efivars, cmdline, protocols, loaded_image, served>>

\* Mutant: a measurement that failed is counted too.
MeasureCounted ==
  /\ pc \in {"measure", "companions"} /\ queue # <<>> /\ queue' = Tail(queue)
  /\ measured' = measured \cup {Head(queue).pcr}
  /\ \/ Works /\ pcr' = [pcr EXCEPT ![Head(queue).pcr] = Append(@, Head(queue).data)]
     \/ Fails /\ pcr' = pcr
  /\ UNCHANGED <<inputs, pc, kernel_data, initrd_data, dropin, companions,
                 efivars, cmdline, protocols, loaded_image, served>>

\* tpm_log_event_ascii in either loop; a failure is not counted, but a TPM
\* that cannot be opened any more is no failure.
Measure ==
  /\ pc \in {"measure", "companions"} /\ queue # <<>>
  /\ queue' = Tail(queue)
  /\ \/ /\ Works
        /\ pcr' = [pcr EXCEPT ![Head(queue).pcr] = Append(@, Head(queue).data)]
        /\ measured' = measured \cup {Head(queue).pcr}
     \/ /\ tpm = "may_vanish" /\ Fails
        /\ measured' = measured \cup {Head(queue).pcr} /\ UNCHANGED pcr
     \/ Fails /\ UNCHANGED <<pcr, measured>>
  /\ UNCHANGED <<inputs, pc, kernel_data, initrd_data, dropin, companions,
                 efivars, cmdline, protocols, loaded_image, served>>

\* The variables that say where measurements were made.
PcrVariable(i) ==
  CASE i = 11 -> "StubPcrKernelImage" [] i = 12 -> "StubPcrKernelParameters"
    [] i = 13 -> "StubPcrInitRDSysExts"

\* The loop is over.  The variable of PCR 12 is set before that of PCR 13, and
\* the first failure is the last attempt.
MeasureDone ==
  /\ queue = <<>>
  /\ Step("measure", "export") \/ Step("companions", "cmdline")
  /\ \/ Works /\ efivars' = efivars \cup {PcrVariable(i) : i \in measured}
     \/ /\ measured # {} /\ Fails
        /\ \E done \in SUBSET measured :
             /\ done # measured /\ \A i \in done, j \in measured \ done : i < j
             /\ efivars' = efivars \cup {PcrVariable(i) : i \in done}
  /\ measured' = {}
  /\ UNCHANGED <<inputs, kernel_data, initrd_data, dropin, companions, queue,
                 pcr, cmdline, protocols, loaded_image, served>>

\* export_efi_variables; one Loader variable stands for the four that are only
\* set if they do not exist, and one Stub variable for the two others.
ExportEfiVariables ==
  /\ Step("export", "dropin")
  /\ \/ Works /\ efivars' = efivars \cup {"LoaderDevicePartUUID", "StubInfo"}
     \/ /\ Fails
        /\ \E set \in {{}, {"LoaderDevicePartUUID"}, {"StubInfo"}} : efivars' = efivars \cup set
  /\ UNCHANGED <<inputs, kernel_data, initrd_data, dropin, companions, queue,
                 measured, pcr, cmdline, protocols, loaded_image, served>>

-----------------------------------------------------------------------------
(* Companion initrds.                                                      *)

\* The file system of the image is opened and the drop-in directory looked
\* for; without the former (a netboot) there are no companions.
FindDropin ==
  /\ \/ Works /\ Step("dropin", "credentials") /\ dropin' \in BOOLEAN
     \/ Fails /\ Step("dropin", "credentials") /\ dropin' = FALSE
     \/ Fails /\ Step("dropin", "cmdline") /\ dropin' = FALSE
  /\ UNCHANGED <<inputs, kernel_data, initrd_data, companions, queue, measured,
                 pcr, efivars, cmdline, protocols, loaded_image, served>>

\* The archive of these files, sorted by pack_cpio; none without files.
Packed(type, fs) == IF fs = {} THEN <<>> ELSE <<[type |-> type, files |-> fs]>>

\* discover_credentials; an error loses all credentials, an unreadable
\* directory or file is a panic.
DiscoverCredentials ==
  /\ pc = "credentials"
  /\ \/ /\ Works /\ pc' = "sysexts"
        /\ \E global \in SUBSET Creds, local \in IF dropin THEN SUBSET Creds ELSE {{}} :
             companions' = Packed("GlobalCredentials", global) \o Packed("Credentials", local)
     \/ Fails /\ pc' \in {"sysexts", "halted"} /\ companions' = companions
  /\ UNCHANGED <<inputs, kernel_data, initrd_data, dropin, queue, measured, pcr,
                 efivars, cmdline, protocols, loaded_image, served>>

\* measure_companion_initrds measures credentials into PCR 12, extensions into
\* PCR 13.
CompanionPcr(type) == IF type = "SystemExtension" THEN 13 ELSE 12

\* discover_system_extensions, and what measure_companion_initrds will do.
DiscoverSysExts ==
  /\ pc = "sysexts"
  /\ \/ /\ Works
        /\ \E raw \in IF dropin THEN SUBSET SysExts ELSE {{}} :
             companions' = companions \o Packed("SystemExtension", raw)
        /\ pc' = IF TpmAvailable THEN "companions" ELSE "cmdline"
     \/ /\ dropin /\ Fails
        /\ companions' = companions
        /\ pc' \in {IF TpmAvailable THEN "companions" ELSE "cmdline", "halted"}
  /\ queue' = IF pc' # "companions" THEN <<>>
              ELSE [i \in 1..Len(companions') |->
                      [pcr |-> CompanionPcr(companions'[i].type), data |-> companions'[i]]]
  /\ UNCHANGED <<inputs, kernel_data, initrd_data, dropin, measured, pcr,
                 efivars, cmdline, protocols, loaded_image, served>>

-----------------------------------------------------------------------------
(* thin::boot_linux                                                        *)

\* Mutant: an unreadable SecureBoot variable counts as disabled.
SecureOnlyIfOn == secure_boot = "on"

\* get_secure_boot_status: "In case of doubt, true".
GetSecureBootStatus == secure_boot \in {"on", "error"}

\* Mutant: the result of the measurement is ignored.
MeasureOptional ==
  \/ Works /\ pcr' = [pcr EXCEPT ![4] = Append(@, passed)] /\ cmdline' = passed
  \/ Fails /\ pcr' = pcr /\ cmdline' = passed

\* measure_boot_loader is Ok if no TPM can be opened; with one, it may fail.
MeasureCmdline ==
  \/ ~TpmAvailable /\ Works /\ pcr' = pcr /\ cmdline' = passed
  \/ TpmAvailable /\ Works /\ pcr' = [pcr EXCEPT ![4] = Append(@, passed)] /\ cmdline' = passed
  \/ tpm = "may_vanish" /\ Fails /\ pcr' = pcr /\ cmdline' = passed
  \/ TpmAvailable /\ Fails /\ pcr' = pcr /\ cmdline' = Embedded

\* There are load options to consider, and they are not the embedded ones.
OtherOptions == ~GetSecureBootStatus /\ passed \notin {None, Embedded}

\* get_cmdline
GetCmdline ==
  /\ Step("cmdline", "kernel")
  /\ \/ OtherOptions /\ MeasureCmdline
     \/ ~OtherOptions /\ Works /\ pcr' = pcr /\ cmdline' = Embedded
     \/ ~GetSecureBootStatus /\ Fails /\ pcr' = pcr /\ cmdline' = Embedded
  /\ UNCHANGED <<inputs, kernel_data, initrd_data, dropin, companions, queue,
                 measured, efivars, protocols, loaded_image, served>>

\* Image::load; a failure is a panic.
LoadKernel ==
  /\ \/ Works /\ Step("kernel", "register")
     \/ Fails /\ Step("kernel", "halted")
  /\ UNCHANGED <<inputs, kernel_data, initrd_data, dropin, companions, queue,
                 measured, pcr, efivars, cmdline, protocols, loaded_image, served>>

\* InitrdLoader::new registers two protocols; a failure returns to the boot
\* loader.
Register ==
  /\ \/ /\ Works /\ Step("register", "start")
        /\ protocols' = {"DevicePath", "LoadFile2"}
     \/ Fails /\ Step("register", "returned") /\ protocols' \in {{}, {"DevicePath"}}
  /\ UNCHANGED <<inputs, kernel_data, initrd_data, dropin, companions, queue,
                 measured, pcr, efivars, cmdline, loaded_image, served>>

\* Image::start up to the entry point: the stub's own image handle becomes the
\* kernel's.
StartKernel ==
  /\ \/ /\ Works /\ Step("start", "running")
        /\ loaded_image' = [image |-> "kernel", options |-> cmdline]
     \/ Fails /\ Step("start", "halted") /\ UNCHANGED loaded_image
  /\ UNCHANGED <<inputs, kernel_data, initrd_data, dropin, companions, queue,
                 measured, pcr, efivars, cmdline, protocols, served>>

\* What is served to the kernel, in pieces that are padded to 4 bytes.
InitrdPieces == <<initrd_data>> \o companions

\* Mutant: the initrd is read again when the kernel asks for it.
LoadFileReadsAgain(size) ==
  /\ pc = "running" /\ size >= Len(InitrdPieces)
  /\ \E initrd \in Reads(Initrd) : served' = <<initrd>> \o companions
  /\ UNCHANGED <<inputs, pc, kernel_data, initrd_data, dropin, companions, queue, measured,
                 pcr, efivars, cmdline, protocols, loaded_image, failures>>

\* LoadFile2Protocol::load_file with a buffer of `size` pieces; 0 is the null
\* pointer.  A buffer that is too small gets the size and no data.
LoadFile(size) ==
  /\ pc = "running"
  /\ size >= Len(InitrdPieces)
  /\ served' = InitrdPieces
  /\ UNCHANGED <<inputs, pc, kernel_data, initrd_data, dropin, companions, queue, measured,
                 pcr, efivars, cmdline, protocols, loaded_image, failures>>

\* The kernel takes over, returns, or leaves through Exit() (external).
KernelDoes ==
  /\ \/ Step("running", "booted")
     \/ Step("running", "kernel_returned")
     \/ Step("running", "exited")
  /\ UNCHANGED <<inputs, kernel_data, initrd_data, dropin, companions, queue,
                 measured, pcr, efivars, cmdline, protocols, loaded_image, served,
                 failures>>

\* Mutant: the protocols stay when the kernel reports an error.
ReturnAtOnce ==
  /\ Step("kernel_returned", "returned") /\ Works
  /\ loaded_image' = Own
  /\ UNCHANGED <<inputs, kernel_data, initrd_data, dropin, companions, queue,
                 measured, pcr, efivars, cmdline, protocols, served>>

\* The rest of Image::start frees the kernel's pages, where a failure is a
\* panic, and restores the image handle; then uninstall: if it fails the
\* assertion in Drop stops the machine.
Uninstall ==
  /\ \/ /\ Works /\ Step("kernel_returned", "returned")
        /\ protocols' = {} /\ loaded_image' = Own
     \/ /\ Fails /\ Step("kernel_returned", "halted")
        /\ UNCHANGED <<protocols, loaded_image>>
     \/ /\ Fails /\ Step("kernel_returned", "halted")
        /\ protocols' \in {{"DevicePath", "LoadFile2"}, {"LoadFile2"}} /\ loaded_image' = Own
  /\ UNCHANGED <<inputs, kernel_data, initrd_data, dropin, companions, queue,
                 measured, pcr, efivars, cmdline, served>>

Next ==
  \/ LoadFromPe \/ LoadFails \/ Measure \/ MeasureDone \/ ExportEfiVariables
  \/ FindDropin \/ DiscoverCredentials \/ DiscoverSysExts
  \/ GetCmdline \/ LoadKernel \/ Register \/ StartKernel
  \/ \E size \in 0..(Len(InitrdPieces) + 1) : LoadFile(size)
  \/ KernelDoes \/ Uninstall

Spec == Init /\ [][Next]_vars

-----------------------------------------------------------------------------
\* The kernel has been entered and has not left.
Running == pc \in {"running", "booted"}

\* Whatever Secure Boot says and whatever fails, the kernel that is entered is
\* the one the stub was signed for, and the initrd it can get starts with the
\* signed one and is complete: all the companions or nothing.
OnlyVerifiedRuns ==
  Running =>
    /\ kernel_data = Kernel
    /\ served \in {None, <<Initrd>> \o companions}

\* Unless Secure Boot is known to be off, the command line is the embedded one.
SecureBootPinsCmdline ==
  Running /\ secure_boot \notin {"off", "not_found"} =>
    loaded_image.options = Embedded

\* The entries of the section table with these names.
Entries(names) == {i \in 1..Len(layout) : layout[i] \in names}

\* PCR 11 holds names and contents in turn: all the sections that are measured
\* and as often as the image has them, in canonical order, with the kernel and
\* the initrd that run for the sections that name them.
ImageMeasuredAsRun ==
  LET n == Cardinality(Entries(Measurable))
      Name(k) == pcr[11][2 * k - 1]
      Data(k) == pcr[11][2 * k]
  IN  /\ Len(pcr[11]) = 2 * n
      /\ \A k \in 1..n : Name(k) \in Measurable
      /\ \A s \in Measurable : Cardinality({k \in 1..n : Name(k) = s}) = Cardinality(Entries({s}))
      /\ \A j, k \in 1..n : j < k => Rank(Name(j)) <= Rank(Name(k))
      /\ \A k \in 1..n : Data(k) = IF Name(k) = ".linux" THEN kernel_data
                                ELSE IF Name(k) = ".initrd" THEN initrd_data
                                ELSE Contents(Name(k))

\* With a TPM that does its work, the PCRs describe exactly what runs: PCR 11
\* the image, whatever its section table; PCR 12 the credentials and PCR 13 the
\* system extensions, together all companions in the order the kernel gets them;
\* PCR 4 a command line that is not the embedded one.
MeasuredAsRun ==
  Running /\ TpmAvailable /\ failures = 0 =>
    /\ ImageMeasuredAsRun
    /\ companions = pcr[12] \o pcr[13]
    /\ \A i \in 1..Len(pcr[12]) : pcr[12][i].type # "SystemExtension"
    /\ \A i \in 1..Len(pcr[13]) : pcr[13][i].type = "SystemExtension"
    /\ pcr[4] = IF loaded_image.options = Embedded THEN <<>> ELSE <<loaded_image.options>>

\* With a TPM that can always be opened a custom command line is used only if
\* it was measured, also if other calls failed before.
CustomCmdlineMeasuredByTpm ==
  Running /\ tpm = "stays" /\ loaded_image.options # Embedded =>
    pcr[4] = <<loaded_image.options>>

\* How far the boot has come and what is settled by then: the inductive
\* invariant behind OnlyVerifiedRuns, SecureBootPinsCmdline and ReturnsClean.
BootInvariant ==
  /\ secure_boot \in {"on", "off", "error", "not_found"}
  /\ pc \notin {"load", "halted"} => kernel_data = Kernel /\ initrd_data = Initrd
  /\ pc \in {"kernel", "register", "start", "running", "booted"} /\ GetSecureBootStatus =>
       cmdline = Embedded
  /\ pc \in {"running", "booted"} => loaded_image.options = cmdline
  /\ pc \notin {"running", "booted", "exited", "kernel_returned", "halted", "returned"} =>
       served = None
  /\ Running => served \in {None, <<Initrd>> \o companions}
  /\ pc \notin {"running", "booted", "exited", "kernel_returned", "halted"} => loaded_image = Own
  /\ pc \notin {"start", "running", "booted", "exited", "kernel_returned", "halted"} =>
       "LoadFile2" \notin protocols

\* "Measuring is mandatory here.  If the measurement fails, return the embedded
\* cmdline": a custom command line that runs was measured.
CustomCmdlineMeasured ==
  Running /\ loaded_image.options # Embedded =>
    pcr[4] = <<loaded_image.options>>

\* "If we did some measurements, expose a variable encoding the PCR where we
\* have done the measurements": the variables that tell user space where
\* measurements are do not announce a PCR nothing was measured into, as long
\* as the TPM can be opened.
VariablesTruthful ==
  tpm # "may_vanish" =>
    \A i \in {11, 12, 13} : PcrVariable(i) \in efivars => pcr[i] # <<>>

\* Back in the boot loader, the LoadFile2 interface, whose memory is gone, is
\* not registered any more and the image handle is the stub's again.
ReturnsClean ==
  pc = "returned" => "LoadFile2" \notin protocols /\ loaded_image = Own
=============================================================================
