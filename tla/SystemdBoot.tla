---------------------------- MODULE SystemdBoot ----------------------------
(***************************************************************************)
(* install_systemd_boot (rust/tool/systemd/src/install.rs): the two copies *)
(* of systemd-boot on the ESP, loader.conf, and with Measured Boot the     *)
(* pcrlock files "current" and "next" of the boot loader.  Like the rest   *)
(* of a run it can be cut short anywhere, and the package, the key and the *)
(* configuration change between runs.                                      *)
(***************************************************************************)
EXTENDS Integers

CONSTANTS
  None,
  Malformed,  \* a file that is not a systemd-boot binary
  Versions,   \* systemd versions, as SystemdVersion orders them
  Keys,       \* signing keys
  NoKey,      \* EmptyKeyPair, and the signer of an unsigned binary
  Confs,      \* contents of loader.conf
  Configs,    \* bound: the configurations the user may switch to
  MaxEvents   \* bound on the events around lzbt, aborts included

ASSUME ConstantsAssumption ==
  /\ Versions \subseteq Nat
  /\ Configs \subseteq [key : Keys \cup {NoKey}, measured : BOOLEAN,
                        version : Versions, conf : Confs]
  /\ MaxEvents \in Nat

\* A systemd-boot binary; lock_pe measures it without its signature.
Binary == [version : Versions, signer : Keys \cup {NoKey}]

ASSUME NoneAssumption ==
  /\ None \notin Versions /\ None \notin Confs /\ None \notin Binary
  /\ Malformed \notin Binary \cup {None}
  /\ NoKey \notin Keys

\* The two places systemd-boot is installed to.
Target == {"efi_fallback", "systemd_boot"}

VARIABLES
  cfg,     \* the signer, Measured Boot, the systemd package and loader.conf
  efi,     \* the two installed binaries
  conf,    \* the installed loader.conf
  pcrlock, \* 630-bootloader.pcrlock.d
  pc,      \* the next step of install_systemd_boot
  signed,  \* the temporary file install_signed is about to rename
  cut,     \* history: updates cut short since the last one that was completed
  events   \* how many events have happened, for the bound

vars == <<cfg, efi, conf, pcrlock, pc, signed, cut, events>>

\* Every variable stays within its type: a copy is a whole binary, a damaged
\* one or missing.
TypeOK ==
  /\ cfg \in Configs
  /\ efi \in [Target -> Binary \cup {None, Malformed}]
  /\ conf \in Confs \cup {None}
  /\ pcrlock \in [{"current", "next"} -> Versions \cup {None}]
  /\ pc \in {"idle", "lock", "sign_fallback", "rename_fallback", "sign_boot",
             "rename_boot", "promote", "conf", "done"}
  /\ signed \in Binary \cup {None}
  /\ cut \in 0..events
  /\ events \in 0..MaxEvents

\* No boot loader yet, or the unsigned one of another installer.
Init ==
  /\ cfg \in Configs
  /\ efi \in {[t \in Target |-> x] : x \in {None} \cup [version : Versions, signer : {NoKey}]}
  /\ conf = None
  /\ pcrlock = [f \in {"current", "next"} |-> None]
  /\ pc = "idle" /\ signed = None /\ cut = 0 /\ events = 0

-----------------------------------------------------------------------------
\* Mutant: only the fallback copy is compared.
NewerFallback(t) ==
  efi["efi_fallback"] \in {None, Malformed} \/ cfg.version > efi["efi_fallback"].version

\* newer_systemd_boot; a copy on which it panics ends the run, as Abort does.
Newer(t) == efi[t] \in {None, Malformed} \/ cfg.version > efi[t].version

\* Signer::verify_path; EmptyKeyPair accepts everything, even no file.
Verified(t) == cfg.key = NoKey \/ (efi[t] \in Binary /\ efi[t].signer = cfg.key)

\* Mutant: a missing measurement is no reason to install.
MeasurementIgnored == TRUE

\* Only asked with Measured Boot: is there a file called "current"?
MeasurementExists == cfg.measured => pcrlock["current"] # None

\* The condition under which both copies are replaced.
NeedsInstall ==
  \/ \E t \in Target : Newer(t)
  \/ \E t \in Target : ~Verified(t)
  \/ ~MeasurementExists

Step(from, to) == pc = from /\ pc' = to

Start ==
  /\ Step("idle", IF ~NeedsInstall THEN "conf"
                  ELSE IF cfg.measured THEN "lock" ELSE "sign_fallback")
  /\ UNCHANGED <<cfg, efi, conf, pcrlock, signed, cut, events>>

\* The measurement of the new binary is called "next", so that the old one
\* stays while the new one is installed.
LockNext ==
  /\ Step("lock", "sign_fallback")
  /\ pcrlock' = [pcrlock EXCEPT !["next"] = cfg.version]
  /\ UNCHANGED <<cfg, efi, conf, signed, cut, events>>

\* Mutant: the old copy is truncated before it is replaced.
SignInPlace(from, to) ==
  /\ Step(from, to)
  /\ signed' = [version |-> cfg.version, signer |-> cfg.key]
  /\ efi' = [t \in Target |-> IF from = "sign_boot" THEN Malformed ELSE efi[t]]
  /\ UNCHANGED <<cfg, conf, pcrlock, cut, events>>

\* install_signed, first half: sign into a temporary file.
Sign(from, to) ==
  /\ Step(from, to)
  /\ signed' = [version |-> cfg.version, signer |-> cfg.key]
  /\ UNCHANGED <<cfg, efi, conf, pcrlock, cut, events>>

\* Mutant: the binary of the package is put in place without a signer's work.
RenameNothing(t, from, to) ==
  /\ Step(from, to)
  /\ efi' = [efi EXCEPT ![t] = [version |-> cfg.version]]
  /\ signed' = None
  /\ UNCHANGED <<cfg, conf, pcrlock, cut, events>>

\* install_signed, second half: rename it to its final name.
Rename(t, from, to) ==
  /\ Step(from, to)
  /\ efi' = [efi EXCEPT ![t] = signed]
  /\ signed' = None
  /\ UNCHANGED <<cfg, conf, pcrlock, cut, events>>

SignFallback == Sign("sign_fallback", "rename_fallback")
RenameFallback == Rename("efi_fallback", "rename_fallback", "sign_boot")
SignBoot == Sign("sign_boot", "rename_boot")
RenameBoot ==
  Rename("systemd_boot", "rename_boot", IF cfg.measured THEN "promote" ELSE "conf")

\* The measurement of what is now installed becomes "current".
PromoteNext ==
  /\ Step("promote", "conf")
  /\ pcrlock' = [pcrlock EXCEPT !["current"] = pcrlock["next"], !["next"] = None]
  /\ cut' = 0
  /\ UNCHANGED <<cfg, efi, conf, signed, events>>

\* loader.conf is copied unless its contents are right already.
InstallConf ==
  /\ Step("conf", "done")
  /\ conf' = cfg.conf
  /\ UNCHANGED <<cfg, efi, pcrlock, signed, cut, events>>

Finish == Step("done", "idle") /\ UNCHANGED <<cfg, efi, conf, pcrlock, signed, cut, events>>

\* From the first write of an update to its last.
Updating ==
  pc \in {"sign_fallback", "rename_fallback", "sign_boot", "rename_boot", "promote"}

Event == events < MaxEvents /\ events' = events + 1

\* An error is returned or the process is killed.
Abort ==
  /\ pc \notin {"idle", "done"} /\ Event
  /\ pc' = "idle" /\ signed' = None
  /\ cut' = IF Updating THEN cut + 1 ELSE cut
  /\ UNCHANGED <<cfg, efi, conf, pcrlock>>

-----------------------------------------------------------------------------
(* The world around lzbt (external).                                       *)

\* Another generation is made the default: a new package, key or setting.
Reconfigure ==
  /\ pc = "idle" /\ Event
  /\ cfg' \in Configs \ {cfg}
  /\ UNCHANGED <<efi, conf, pcrlock, pc, signed, cut>>

\* A file is deleted, damaged or replaced by an unsigned one, as the
\* integration tests do it.
Tamper ==
  /\ pc = "idle" /\ Event
  /\ \E t \in Target :
       /\ efi[t] \in Binary
       /\ \E x \in {None, Malformed, [version |-> efi[t].version, signer |-> NoKey]} :
            efi' = [efi EXCEPT ![t] = x]
  /\ UNCHANGED <<cfg, conf, pcrlock, pc, signed, cut>>

RunStep ==
  \/ Start \/ LockNext \/ SignFallback \/ RenameFallback \/ SignBoot
  \/ RenameBoot \/ PromoteNext \/ InstallConf \/ Finish

Next == RunStep \/ Abort \/ Reconfigure \/ Tamper

Spec == Init /\ [][Next]_vars

-----------------------------------------------------------------------------
\* The firmware loads the copy, if the configured key is the one it trusts.
Usable(t) == efi[t] \in Binary /\ (cfg.key # NoKey => efi[t].signer = cfg.key)

\* After a completed run both copies are what the configuration asks for: no
\* older than the package, accepted by the signer, and loader.conf is in place.
UpToDateAfterRun ==
  pc = "done" =>
    /\ \A t \in Target : Usable(t) /\ efi[t].version >= cfg.version
    /\ conf = cfg.conf

\* A boot loader that the configured key signed is never lost in the middle of
\* an update, and an update that stops half-way leaves one of them usable.
NeverWithoutBootLoader ==
  [][pc # "idle" => \A t \in Target : Usable(t) => Usable(t)']_vars

\* With Measured Boot, what is installed is measured: after a completed run
\* "current" describes both copies unless an update that was cut short left a
\* "next" behind, and after one such update one of the two describes each
\* copy.  A second one overwrites "next", which may have been the only
\* description of a copy; if the package is then rolled back, nothing is
\* installed and that copy stays unmeasured.
MeasuredAfterRun ==
  pc = "done" /\ cfg.measured =>
    \A t \in Target :
      /\ pcrlock["next"] = None => efi[t].version = pcrlock["current"]
      /\ cut <= 1 => efi[t].version \in {pcrlock["current"], pcrlock["next"]}

-----------------------------------------------------------------------------
(* What is true between the steps of a run, from which the properties      *)
(* above follow.                                                           *)

\* A copy of the configured package, signed with the configured key.
Fresh == [version |-> cfg.version, signer |-> cfg.key]

Current(t) == Usable(t) /\ efi[t].version >= cfg.version

\* What the steps so far have put in place: the file that is about to be
\* renamed is the fresh one, a copy that was replaced is fresh, and a run that
\* replaces nothing has found both copies current.
UpdatePosition ==
  /\ pc \in {"rename_fallback", "rename_boot"} => signed = Fresh
  /\ pc \in {"sign_boot", "rename_boot", "promote"} => efi["efi_fallback"] = Fresh
  /\ pc = "promote" => efi["systemd_boot"] = Fresh
  /\ pc \in {"conf", "done"} => \A t \in Target : Current(t)
  /\ pc = "done" => conf = cfg.conf

\* The pcrlock files of a system that always measures: "next" predicts the
\* update under way, "current" describes both copies while there is no "next",
\* and up to the second update that is cut short one of them describes each.
PcrlockPosition ==
  /\ Updating => pcrlock["next"] = cfg.version
  /\ pc \in {"conf", "done"} => pcrlock["current"] # None
  /\ cut = 0 /\ ~Updating => pcrlock["next"] = None
  /\ pcrlock["current"] # None =>
       \A t \in Target : efi[t] \in Binary =>
         /\ pcrlock["next"] = None => efi[t].version = pcrlock["current"]
         /\ cut = 0 \/ (cut = 1 /\ ~Updating)
              => efi[t].version \in {pcrlock["current"], pcrlock["next"]}

\* No configuration switches Measured Boot off.
AlwaysMeasured == \A c \in Configs : c.measured
=============================================================================
