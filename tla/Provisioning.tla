---------------------------- MODULE Provisioning ----------------------------
(***************************************************************************)
(* Automatic provisioning as nix/modules/lanzaboote.nix configures it: on  *)
(* the first boot services generate the Secure Boot keys, put the          *)
(* authenticated variables on the main ESP and sign everything again;      *)
(* systemd-boot enrols the variables on the next boot; with Measured Boot  *)
(* a volume is then bound to the pcrlock policy.  The machine may be reset *)
(* and a command may fail at any step.                                     *)
(*                                                                         *)
(* lzbt is here what its signer does to an ESP, in three steps (module     *)
(* Installer has the files).  Services and the user's nixos-rebuild do not *)
(* run lzbt at the same time.                                              *)
(***************************************************************************)
EXTENDS Integers, Sequences, FiniteSetsExt

CONSTANTS
  Settings, \* bound: the configurations, and what may go wrong in each
  MaxKeys   \* bound on the key pairs that are ever generated

ASSUME SettingsAssumption ==
  /\ Settings \subseteq
       [esps : Nat \ {0},            \* mount points, the main one is 1
        measured : BOOLEAN,          \* measuredBoot and autoCryptenroll
        reboots : SUBSET {"prepare", "cryptenroll"}, \* the autoReboot options
        resets : Nat,                \* bound on resets
        failures : Nat,              \* bound on failing commands
        rebuilds : Nat]              \* bound on nixos-rebuild
  /\ MaxKeys \in Nat \ {0}

\* Keys are numbered; 0 is no key, and the signer of an unsigned file.
Unsigned == 0

AuthFiles == {"PK", "KEK", "db"}

VARIABLES
  opt,       \* the configuration
  used,      \* how often each bounded event has happened
  keystate,  \* pkiBundle: nothing, keys/ without the db pair, one file of it, all
  key,       \* the db key pair
  auth,      \* loader/keys/auto on the main ESP: the key each file is about
  esp,       \* of each ESP the signers of the stubs and that of systemd-boot
  firmware,  \* the key Secure Boot enforces, Unsigned in setup mode
  machine,   \* "off", "loader", "up" or "dead"
  pending,   \* the services this boot has not come to
  job,       \* the running service, or "rebuild"
  todo,      \* the commands it has not run
  measured,  \* the PCRs there are pcrlock files for
  policy,    \* the PCRs the pcrlock policy covers
  bound,     \* is the LUKS2 volume bound to that policy?
  enrolled,  \* /var/lib/auto-cryptenroll/1
  prepared   \* has prepare-sb-auto-enroll ever succeeded?

pki == <<keystate, key>>
tpm == <<measured, policy, bound, enrolled>>
running == <<machine, pending, job, todo>>
vars == <<opt, used, pki, auth, esp, firmware, running, tpm, prepared>>

Bounded == {"resets", "failures", "rebuilds"}

Services == {"generate", "prepare", "cryptenroll"}

Command == [cmd : {"create_dir", "create_pem", "create_key", "enroll_keys",
                   "PK", "KEK", "db", "stubs", "loader", "collect", "policy",
                   "cryptenroll", "touch", "exit_1"},
            esp : Nat]

Do(name) == [cmd |-> name, esp |-> 0]

\* Every variable stays within its type.
TypeOK ==
  /\ opt \in Settings
  /\ \A kind \in Bounded : used[kind] \in 0..opt[kind]
  /\ keystate \in {"none", "dir", "half", "full"}
  /\ key \in 0..MaxKeys
  /\ keystate = "full" <=> key # Unsigned
  /\ auth \in [AuthFiles -> 0..MaxKeys]
  /\ esp \in [1..opt.esps -> [stubs : SUBSET (0..MaxKeys), loader : 0..MaxKeys]]
  /\ firmware \in 0..MaxKeys
  /\ machine \in {"off", "loader", "up", "dead"}
  /\ pending \subseteq Services
  /\ job \in Services \cup {"rebuild", "none"}
  /\ todo \in Seq(Command)
  /\ measured \subseteq {4, 7} /\ policy \subseteq {4, 7}
  /\ bound \in BOOLEAN /\ enrolled \in BOOLEAN /\ prepared \in BOOLEAN

\* A system with unsigned files on its ESPs, in setup mode.
Init ==
  /\ opt \in Settings
  /\ used = [kind \in Bounded |-> 0]
  /\ keystate = "none" /\ key = Unsigned
  /\ auth = [f \in AuthFiles |-> Unsigned]
  /\ esp = [e \in 1..opt.esps |-> [stubs |-> {Unsigned}, loader |-> Unsigned]]
  /\ firmware = Unsigned
  /\ machine = "off" /\ pending = {} /\ job = "none" /\ todo = <<>>
  /\ measured \in IF opt.measured THEN {{}, {4}} ELSE {{}}
  /\ policy = {} /\ bound = FALSE /\ enrolled = FALSE /\ prepared = FALSE

-----------------------------------------------------------------------------
(* The scripts.                                                            *)

\* lzbt for `n` mount points, one after the other, each in three steps.
LzbtSteps == <<"stubs", "loader", "collect">>

Lzbt(n) ==
  [i \in 1..(3 * n) |->
     [cmd |-> LzbtSteps[1 + ((i - 1) % 3)], esp |-> 1 + ((i - 1) \div 3)]]

\* Mutant: the extra mount points are forgotten.
HookMainOnly == Lzbt(1) \o (IF opt.measured THEN <<Do("policy")>> ELSE <<>>)

\* installHook: lzbt for every mount point, then the policy.
InstallHook == Lzbt(opt.esps) \o (IF opt.measured THEN <<Do("policy")>> ELSE <<>>)

IsHook(c) == c.cmd \in {"stubs", "loader", "collect", "policy"}

\* The commands of the services.  `install` copies three files, one by one.
GenerateSbKeys == <<Do("create_dir"), Do("create_pem"), Do("create_key")>>

PrepareSbAutoEnroll ==
  <<Do("enroll_keys"), Do("PK"), Do("KEK"), Do("db")>> \o InstallHook

AutoCryptenroll == InstallHook \o <<Do("cryptenroll"), Do("touch")>>

Script(s) ==
  CASE s = "generate" -> GenerateSbKeys [] s = "prepare" -> PrepareSbAutoEnroll
    [] s = "cryptenroll" -> AutoCryptenroll [] s = "rebuild" -> InstallHook

SecureBootOn == firmware # Unsigned

\* ConditionPathExists and ConditionSecurity of the services.
NoKeysDirectory == keystate = "none"
NoAuthFiles == \A f \in AuthFiles : auth[f] = Unsigned
NotEnrolled == opt.measured /\ ~enrolled /\ SecureBootOn

\* Mutant: the keys are generated on every boot.
ConditionIgnoresKeys(s) == s = "cryptenroll" => NotEnrolled

\* Mutant: cryptenroll does not wait for Secure Boot.
ConditionWithoutSecurity(s) ==
  CASE s = "generate" -> NoKeysDirectory [] s = "prepare" -> NoAuthFiles
    [] s = "cryptenroll" -> opt.measured /\ ~enrolled

\* Conditions are read when the service starts.
Condition(s) ==
  CASE s = "generate" -> NoKeysDirectory [] s = "prepare" -> NoAuthFiles
    [] s = "cryptenroll" -> NotEnrolled

\* Mutant: no After=.
Unordered(s) == TRUE

\* After=: key generation comes before enrolment, whatever became of it.
Ordered(s) == s = "prepare" => "generate" \notin pending

-----------------------------------------------------------------------------
(* The machine.                                                            *)

\* The firmware runs the boot loader and the boot loader a stub.
Accepts(e) ==
  SecureBootOn => esp[e].loader = firmware /\ firmware \in esp[e].stubs

Event(kind) == used[kind] < opt[kind] /\ used' = [used EXCEPT ![kind] = @ + 1]

Off == machine' = "off" /\ pending' = {} /\ job' = "none" /\ todo' = <<>>

PowerOn ==
  /\ machine = "off"
  /\ machine' = IF \E e \in DOMAIN esp : Accepts(e) THEN "loader" ELSE "dead"
  /\ UNCHANGED <<opt, used, pki, auth, esp, firmware, pending, job, todo, tpm, prepared>>

\* What secure-boot-enroll = force makes systemd-boot enrol.
CanEnroll == ~SecureBootOn /\ \A f \in AuthFiles : auth[f] # Unsigned

\* systemd-boot enrols the variables and resets the machine.  They are on the
\* first ESP; that any ESP enrols them allows more than the code does.
Enroll ==
  /\ machine = "loader" /\ CanEnroll
  /\ firmware' = auth["db"]
  /\ Off
  /\ UNCHANGED <<opt, used, pki, auth, esp, tpm, prepared>>

\* sysinit: with Secure Boot on PCR 7 is measured; the policy is made (external;
\* these units do not fail here).
StartSystem ==
  /\ machine = "loader" /\ ~CanEnroll
  /\ machine' = "up"
  /\ pending' = Services
  /\ measured' = measured \cup (IF opt.measured /\ SecureBootOn THEN {7} ELSE {})
  /\ policy' = IF opt.measured THEN measured' ELSE policy
  /\ UNCHANGED <<opt, used, pki, auth, esp, firmware, job, todo, bound, enrolled, prepared>>

Reboot ==
  /\ machine = "up" /\ job = "none" /\ pending = {}
  /\ Off
  /\ UNCHANGED <<opt, used, pki, auth, esp, firmware, tpm, prepared>>

Reset ==
  /\ machine \in {"loader", "up"} /\ Event("resets")
  /\ Off
  /\ UNCHANGED <<opt, pki, auth, esp, firmware, tpm, prepared>>

-----------------------------------------------------------------------------
(* Services and commands.                                                  *)

Idle == machine = "up" /\ job = "none"

StartService(s) ==
  /\ Idle /\ s \in pending /\ Ordered(s)
  /\ pending' = pending \ {s}
  /\ \/ Condition(s) /\ job' = s /\ todo' = Script(s)
     \/ ~Condition(s) /\ UNCHANGED <<job, todo>>
  /\ UNCHANGED <<opt, used, pki, auth, esp, firmware, machine, tpm, prepared>>

Rebuild ==
  /\ Idle /\ Event("rebuilds")
  /\ job' = "rebuild" /\ todo' = Script("rebuild")
  /\ UNCHANGED <<opt, pki, auth, esp, firmware, machine, pending, tpm, prepared>>

\* The signer lzbt chooses: with allowUnsigned it signs nothing if neither
\* file of the pair exists.  With one of them it fails.
Signer == key

LzbtCanStart == keystate # "half"

\* install_systemd_boot: EmptyKeyPair verifies everything, LocalKeyPair only
\* what its key has signed.
SignedLoader(e) == IF Signer = Unsigned THEN esp[e].loader ELSE Signer

\* Mutant: the directory is there in full before the keys are.
CreateKeysAtOnce(c) ==
  /\ c.cmd \in {"create_dir", "create_pem", "create_key"}
  /\ keystate' = "full" /\ key' = IF c.cmd = "create_key" THEN 1 ELSE key
  /\ UNCHANGED <<auth, esp, tpm>>

\* sbctl create-keys.
CreateKeys(c) ==
  /\ \/ c.cmd = "create_dir" /\ keystate' = "dir" /\ key' = Unsigned
     \/ c.cmd = "create_pem" /\ keystate' = "half" /\ key' = key
     \/ c.cmd = "create_key" /\ keystate' = "full" /\ \E k \in 1..MaxKeys :
          key' = k /\ \A e \in DOMAIN esp : k \notin esp[e].stubs
  /\ UNCHANGED <<auth, esp, tpm>>

\* sbctl enroll-keys exports the variables to its working directory, `install`
\* puts them on the ESP.
EnrollKeys(c) ==
  /\ \/ c.cmd = "enroll_keys" /\ keystate = "full" /\ auth' = auth
     \/ c.cmd \in AuthFiles /\ auth' = [auth EXCEPT ![c.cmd] = key]
  /\ UNCHANGED <<pki, esp, tpm>>

RunLzbt(c) ==
  /\ LzbtCanStart
  /\ \/ /\ c.cmd = "stubs"
        /\ esp' = [esp EXCEPT ![c.esp].stubs = @ \cup {Signer}]
        /\ measured' = measured \cup (IF opt.measured THEN {4} ELSE {})
     \/ /\ c.cmd = "loader"
        /\ esp' = [esp EXCEPT ![c.esp].loader = SignedLoader(c.esp)]
        /\ measured' = measured
     \/ /\ c.cmd = "collect"
        /\ esp' = [esp EXCEPT ![c.esp].stubs = {Signer}]
        /\ measured' = measured
  /\ UNCHANGED <<pki, auth, policy, bound, enrolled>>

\* systemd-pcrlock make-policy replaces the policy in the TPM, also one that a
\* volume is bound to.
LockTpm(c) ==
  /\ \/ c.cmd = "policy" /\ policy' = measured /\ UNCHANGED <<bound, enrolled>>
     \/ c.cmd = "cryptenroll" /\ bound' = TRUE /\ UNCHANGED <<policy, enrolled>>
     \/ c.cmd = "touch" /\ enrolled' = TRUE /\ UNCHANGED <<policy, bound>>
  /\ UNCHANGED <<pki, auth, esp, measured>>

RunCommand ==
  /\ machine = "up" /\ todo # <<>>
  /\ LET c == Head(todo)
     IN  CreateKeys(c) \/ EnrollKeys(c) \/ RunLzbt(c) \/ LockTpm(c)
  /\ todo' = Tail(todo)
  /\ UNCHANGED <<opt, used, firmware, machine, pending, job, prepared>>

\* What a service still runs when `c` has failed.  The hook is a shell script
\* without `set -e`: it goes on after a failed lzbt, and only the status of its
\* last command counts.  `install` tries its other files before it fails.
GoesOnWith(c, d) == IsHook(c) /\ IsHook(d) /\ d.esp # c.esp

Skipped(c, rest) ==
  Min({n \in 0..Len(rest) : n < Len(rest) => GoesOnWith(c, rest[n + 1])})

OtherFiles(rest) ==
  Min({n \in 0..Len(rest) : n < Len(rest) => rest[n + 1].cmd \notin AuthFiles})

AfterFailure(c, rest) ==
  IF c.cmd \in AuthFiles
  THEN SubSeq(rest, 1, OtherFiles(rest)) \o <<Do("exit_1")>>
  ELSE SubSeq(rest, Skipped(c, rest) + 1, Len(rest))

\* A command fails: for want of keys, or for any other reason.
CommandFails ==
  /\ machine = "up" /\ todo # <<>>
  /\ LET c == Head(todo)
         must == \/ c.cmd = "exit_1"
                 \/ c.cmd = "enroll_keys" /\ keystate # "full"
                 \/ c.cmd = "stubs" /\ ~LzbtCanStart
         rest == AfterFailure(c, Tail(todo))
     IN  /\ \/ must /\ used' = used
            \/ ~must /\ Event("failures")
         /\ todo' = rest
         /\ job' = IF rest = <<>> THEN "none" ELSE job
  /\ UNCHANGED <<opt, pki, auth, esp, firmware, machine, pending, tpm, prepared>>

\* All commands are done and the status of the last one is 0.
FinishJob ==
  /\ machine = "up" /\ job # "none" /\ todo = <<>>
  /\ prepared' = (prepared \/ job = "prepare")
  /\ \/ job \in opt.reboots /\ Off
     \/ job \notin opt.reboots /\ job' = "none" /\ UNCHANGED <<machine, pending, todo>>
  /\ UNCHANGED <<opt, used, pki, auth, esp, firmware, tpm>>

-----------------------------------------------------------------------------
\* What happens without anybody doing anything.
Progress ==
  \/ PowerOn \/ Enroll \/ StartSystem
  \/ \E s \in Services : StartService(s)
  \/ RunCommand \/ CommandFails \/ FinishJob

Next == Progress \/ Reboot \/ Reset \/ Rebuild

Spec == Init /\ [][Next]_vars

\* The machine boots, and systemd runs its services.
FairSpec == Spec /\ WF_vars(Progress)

-----------------------------------------------------------------------------
Signed(e) == esp[e].loader = key /\ esp[e].stubs = {key}

\* prepare-sb-auto-enroll succeeds, and reboots into enforcement, only when
\* every stub and every systemd-boot on every ESP has been signed again.  After
\* that no reset, failing command, rebuild or later boot undoes it or leaves a
\* machine that the firmware refuses to boot.
SuccessMeansSigned ==
  prepared => /\ key # Unsigned /\ \A e \in DOMAIN esp : Signed(e)
              /\ machine # "dead"

\* The firmware never enforces a key that lzbt does not sign with.
FirmwareKeyIsOurs == SecureBootOn => firmware = key

\* A volume is bound to a policy only when that covers the boot chain (PCR 4)
\* and the Secure Boot state (PCR 7), and no later policy covers less.
EnrolledPolicyIsFull == (enrolled => bound) /\ (bound => policy = {4, 7})

\* If nothing is reset and nothing fails, provisioning runs to its end by
\* itself: Secure Boot enforces the generated key, everything is signed and
\* the volume is bound to the policy.
Provisioned ==
  opt.resets + opt.failures = 0 /\ "prepare" \in opt.reboots ~>
    /\ machine = "up" /\ SecureBootOn
    /\ \A e \in DOMAIN esp : Signed(e)
    /\ opt.measured => bound /\ enrolled
=============================================================================
