-------------------------- MODULE SystemdBootProofs --------------------------
(***************************************************************************)
(* Proofs about install_systemd_boot for any versions, keys, contents of   *)
(* loader.conf and configurations, and any number of runs, interruptions   *)
(* and damaged copies: what a completed run leaves behind, that an update  *)
(* never takes a usable boot loader away, and, on a system that always     *)
(* measures, that what is installed is measured.                           *)
(***************************************************************************)
EXTENDS SystemdBoot, TLAPS

-----------------------------------------------------------------------------
(* What the steps are made of.                                             *)

\* The parts of a configuration, and the binary install_signed makes of it.
LEMMA ConfigType ==
  ASSUME cfg \in Configs
  PROVE  /\ cfg.key \in Keys \cup {NoKey} /\ cfg.version \in Versions
         /\ cfg.version \in Nat /\ cfg.conf \in Confs /\ cfg.measured \in BOOLEAN
         /\ Fresh \in Binary /\ Fresh.version = cfg.version /\ Fresh.signer = cfg.key
BY ConstantsAssumption DEF Fresh, Binary

\* A binary is neither missing nor malformed, and has a version.
LEMMA BinaryType ==
  ASSUME NEW b \in Binary
  PROVE  b \notin {None, Malformed} /\ b.version \in Versions /\ b.version \in Nat
         /\ b.signer \in Keys \cup {NoKey}
BY ConstantsAssumption, NoneAssumption DEF Binary

\* A copy that newer_systemd_boot and verify_path are content with is current.
LEMMA NothingToInstall ==
  ASSUME TypeOK, ~NeedsInstall, NEW t \in Target
  PROVE  Current(t)
<1>1. efi[t] \in Binary
  BY DEF NeedsInstall, Newer, TypeOK
<1>2. ~(cfg.version > efi[t].version) /\ Verified(t)
  BY DEF NeedsInstall, Newer
<1>3. efi[t].version >= cfg.version
  BY <1>1, <1>2, ConfigType, BinaryType DEF TypeOK
<1>4. cfg.key # NoKey => efi[t].signer = cfg.key
  BY <1>2 DEF Verified
<1> QED  BY <1>1, <1>3, <1>4 DEF Current, Usable

\* A copy that was just replaced is current.
LEMMA FreshIsCurrent ==
  ASSUME cfg \in Configs, NEW t \in Target, efi[t] = Fresh
  PROVE  Current(t)
BY ConfigType DEF Current, Usable

-----------------------------------------------------------------------------
(* Part 1: types and position, on every system.                            *)

UpdateInvariant == TypeOK /\ UpdatePosition

\* Before the first run.
LEMMA UpdateInit == Init => UpdateInvariant
<1> SUFFICES ASSUME Init PROVE UpdateInvariant
  OBVIOUS
<1>1. efi \in [Target -> Binary \cup {None, Malformed}]
  BY DEF Init, Binary
<1>2. TypeOK
  BY <1>1, ConstantsAssumption DEF Init, TypeOK
<1> QED  BY <1>2 DEF Init, UpdateInvariant, UpdatePosition

\* install_systemd_boot decides what to do.
LEMMA StartStep == UpdateInvariant /\ Start => UpdateInvariant'
<1> SUFFICES ASSUME UpdateInvariant, Start PROVE UpdateInvariant'
  OBVIOUS
<1>1. TypeOK'
  BY ConfigType DEF UpdateInvariant, TypeOK, Start, Step
<1>2. CASE NeedsInstall
  BY <1>1, <1>2 DEF UpdateInvariant, UpdatePosition, Start, Step
<1>3. CASE ~NeedsInstall
  <2>1. \A t \in Target : Current(t)
    BY <1>3, NothingToInstall DEF UpdateInvariant
  <2>2. pc' = "conf" /\ \A t \in Target : Current(t)'
    BY <1>3, <2>1 DEF Start, Step, Current, Usable
  <2> QED  BY <1>1, <2>2 DEF UpdateInvariant, UpdatePosition
<1> QED  BY <1>2, <1>3

\* Both halves of install_signed, for either copy.
LEMMA SignStep ==
  ASSUME UpdateInvariant, NEW from, NEW to,
         Sign(from, to), to \in {"rename_fallback", "rename_boot"},
         to = "rename_boot" => from = "sign_boot"
  PROVE  UpdateInvariant'
<1>1. TypeOK'
  BY ConfigType DEF UpdateInvariant, TypeOK, Sign, Step, Fresh
<1>2. signed' = Fresh /\ Fresh' = Fresh /\ efi' = efi /\ pc' = to /\ pc = from
  BY DEF Sign, Step, Fresh
<1> QED  BY <1>1, <1>2 DEF UpdateInvariant, UpdatePosition

\* A rename gives the copy the fresh contents and leaves the other one alone.
LEMMA RenameFacts ==
  ASSUME UpdateInvariant, NEW t \in Target, NEW from, NEW to, Rename(t, from, to),
         from \in {"rename_fallback", "rename_boot"}
  PROVE  /\ efi' = [efi EXCEPT ![t] = Fresh] /\ efi'[t] = Fresh /\ Fresh \in Binary
         /\ Fresh' = Fresh /\ signed' = None /\ pc = from /\ pc' = to
BY ConfigType DEF UpdateInvariant, UpdatePosition, TypeOK, Rename, Step, Fresh

\* The first copy is replaced.
LEMMA RenameFallbackStep == UpdateInvariant /\ RenameFallback => UpdateInvariant'
<1> SUFFICES ASSUME UpdateInvariant, RenameFallback PROVE UpdateInvariant'
  OBVIOUS
<1>1. /\ efi' = [efi EXCEPT !["efi_fallback"] = Fresh] /\ Fresh \in Binary
      /\ efi'["efi_fallback"] = Fresh' /\ signed' = None /\ pc' = "sign_boot"
  BY RenameFacts DEF RenameFallback, Target
<1>2. TypeOK'
  BY <1>1 DEF UpdateInvariant, TypeOK, RenameFallback, Rename
<1> QED  BY <1>1, <1>2 DEF UpdateInvariant, UpdatePosition

\* The second copy is replaced.
LEMMA RenameBootStep == UpdateInvariant /\ RenameBoot => UpdateInvariant'
<1> SUFFICES ASSUME UpdateInvariant, RenameBoot PROVE UpdateInvariant'
  OBVIOUS
<1>1. /\ efi' = [efi EXCEPT !["systemd_boot"] = Fresh] /\ Fresh \in Binary
      /\ efi'["systemd_boot"] = Fresh' /\ signed' = None /\ pc = "rename_boot"
      /\ pc' \in {"promote", "conf"} /\ Fresh' = Fresh
  BY RenameFacts DEF RenameBoot, Target
<1>2. TypeOK'
  BY <1>1 DEF UpdateInvariant, TypeOK, RenameBoot, Rename
<1>3. efi'["efi_fallback"] = Fresh'
  BY <1>1 DEF UpdateInvariant, UpdatePosition, TypeOK, Target
<1>4. \A t \in Target : Current(t)'
  <2>1. cfg' \in Configs /\ \A t \in Target : efi'[t] = Fresh'
    BY <1>1, <1>2, <1>3 DEF TypeOK, Target
  <2>2. /\ cfg'.version \in Nat /\ Fresh' \in Binary
        /\ Fresh'.version = cfg'.version /\ Fresh'.signer = cfg'.key
    BY <2>1, ConstantsAssumption DEF Fresh, Binary
  <2> QED  BY <2>1, <2>2 DEF Current, Usable
<1> QED  BY <1>1, <1>2, <1>3, <1>4 DEF UpdateInvariant, UpdatePosition

\* Every step of a run and every event around it keeps the invariant.
LEMMA UpdateNext == UpdateInvariant /\ [Next]_vars => UpdateInvariant'
<1> SUFFICES ASSUME UpdateInvariant, [Next]_vars PROVE UpdateInvariant'
  OBVIOUS
<1> USE DEF UpdateInvariant
<1>1. CASE Start
  BY <1>1, StartStep
<1>2. CASE LockNext
  BY <1>2, ConfigType DEF LockNext, Step, TypeOK, UpdatePosition
<1>3. CASE SignFallback
  BY <1>3, SignStep DEF SignFallback
<1>4. CASE RenameFallback
  BY <1>4, RenameFallbackStep
<1>5. CASE SignBoot
  BY <1>5, SignStep DEF SignBoot
<1>6. CASE RenameBoot
  BY <1>6, RenameBootStep
<1>7. CASE PromoteNext
  <2>1. TypeOK'
    BY <1>7, ConstantsAssumption DEF PromoteNext, Step, TypeOK
  <2>2. \A t \in Target : Current(t)
    BY <1>7, FreshIsCurrent DEF PromoteNext, Step, UpdatePosition, TypeOK, Target
  <2>3. pc' = "conf" /\ \A t \in Target : Current(t)'
    BY <1>7, <2>2 DEF PromoteNext, Step, Current, Usable
  <2> QED  BY <2>1, <2>3 DEF UpdatePosition
<1>8. CASE InstallConf
  <2>1. TypeOK'
    BY <1>8, ConfigType DEF InstallConf, Step, TypeOK
  <2>2. conf' = cfg'.conf /\ pc' = "done" /\ \A t \in Target : Current(t)'
    BY <1>8 DEF InstallConf, Step, UpdatePosition, Current, Usable
  <2> QED  BY <2>1, <2>2 DEF UpdatePosition
<1>9. CASE Finish
  BY <1>9 DEF Finish, Step, TypeOK, UpdatePosition
<1>10. CASE Abort
  BY <1>10, ConstantsAssumption DEF Abort, Event, TypeOK, UpdatePosition
<1>11. CASE Reconfigure
  BY <1>11, ConstantsAssumption DEF Reconfigure, Event, TypeOK, UpdatePosition
<1>12. CASE Tamper
  <2>1. efi' \in [Target -> Binary \cup {None, Malformed}]
    BY <1>12 DEF Tamper, TypeOK, Binary
  <2> QED  BY <1>12, <2>1, ConstantsAssumption DEF Tamper, Event, TypeOK, UpdatePosition
<1>13. CASE UNCHANGED vars
  BY <1>13 DEF vars, TypeOK, UpdatePosition, Current, Usable, Fresh
<1> QED
  BY <1>1, <1>2, <1>3, <1>4, <1>5, <1>6, <1>7, <1>8, <1>9, <1>10, <1>11, <1>12,
     <1>13 DEF Next, RunStep

\* The invariant holds throughout any sequence of runs.
LEMMA UpdateInvariantHolds == Spec => []UpdateInvariant
  BY UpdateInit, UpdateNext, PTL DEF Spec

\* Every copy on the ESP is always a whole binary, a damaged one or missing,
\* and the pcrlock files name versions.
THEOREM TypeCorrect == Spec => []TypeOK
  BY UpdateInvariantHolds, PTL DEF UpdateInvariant

\* After a completed run both copies are no older than the package and
\* accepted by the signer, and loader.conf is in place.
THEOREM UpToDateAfterRunHolds == Spec => []UpToDateAfterRun
<1>1. UpdateInvariant => UpToDateAfterRun
  BY DEF UpdateInvariant, UpdatePosition, UpToDateAfterRun, Current
<1> QED  BY <1>1, UpdateInvariantHolds, PTL

\* No step of an update takes a usable boot loader away, an interruption
\* included: what replaces a copy is complete and signed before the rename.
THEOREM NeverWithoutBootLoaderHolds == Spec => NeverWithoutBootLoader
<1>1. ASSUME UpdateInvariant, [Next]_vars, pc # "idle", NEW t \in Target, Usable(t)
      PROVE  Usable(t)'
  <2>1. ASSUME NEW x \in Target, NEW from, NEW to, Rename(x, from, to),
               from \in {"rename_fallback", "rename_boot"}
        PROVE  Usable(t)'
    <3>1. efi' = [efi EXCEPT ![x] = Fresh] /\ Fresh \in Binary /\ cfg' = cfg
      BY <1>1, <2>1, RenameFacts DEF Rename
    <3>2. efi'[t] = Fresh \/ efi'[t] = efi[t]
      BY <3>1, <1>1 DEF UpdateInvariant, TypeOK
    <3> QED  BY <1>1, <3>1, <3>2 DEF Usable, Fresh
  <2>2. CASE RenameFallback \/ RenameBoot
    BY <2>1, <2>2 DEF RenameFallback, RenameBoot, Target
  <2>3. CASE ~(RenameFallback \/ RenameBoot)
    <3>1. efi' = efi /\ cfg' = cfg
      BY <1>1, <2>3 DEF Next, RunStep, Start, LockNext, SignFallback, SignBoot, Sign,
         PromoteNext, InstallConf, Finish, Abort, Reconfigure, Tamper, vars
    <3> QED  BY <1>1, <3>1 DEF Usable
  <2> QED  BY <2>2, <2>3
<1>2. UpdateInvariant /\ [Next]_vars
        => [pc # "idle" => \A t \in Target : Usable(t) => Usable(t)']_vars
  BY <1>1
<1> QED  BY <1>2, UpdateInvariantHolds, PTL DEF Spec, NeverWithoutBootLoader

-----------------------------------------------------------------------------
(* Part 2: the pcrlock files of a system that always measures.             *)

MeasuredInvariant == UpdateInvariant /\ PcrlockPosition

\* Before the first run there is no measurement.
LEMMA MeasuredInit == Init => MeasuredInvariant
  BY UpdateInit DEF Init, MeasuredInvariant, PcrlockPosition, Updating

\* What a rename leaves of the pcrlock files' meaning: the new copy is the one
\* that "next" predicts.
LEMMA RenameMeasured ==
  ASSUME MeasuredInvariant, NEW x \in Target, NEW from, NEW to, Rename(x, from, to),
         from \in {"rename_fallback", "rename_boot"}, to \in {"sign_boot", "promote"}
  PROVE  PcrlockPosition'
<1>1. /\ efi' = [efi EXCEPT ![x] = Fresh] /\ Fresh.version = cfg.version
      /\ cfg' = cfg /\ pcrlock' = pcrlock /\ cut' = cut
      /\ Updating /\ Updating' /\ pc' = to
  BY RenameFacts, ConfigType
     DEF MeasuredInvariant, UpdateInvariant, TypeOK, Rename, Step, Updating
<1>2. pcrlock["next"] = cfg.version /\ pcrlock["next"] # None
  BY <1>1, ConfigType, NoneAssumption
     DEF MeasuredInvariant, UpdateInvariant, TypeOK, PcrlockPosition
<1>3. ASSUME NEW t \in Target PROVE efi'[t] = Fresh \/ efi'[t] = efi[t]
  BY <1>1 DEF MeasuredInvariant, UpdateInvariant, TypeOK
<1> QED  BY <1>1, <1>2, <1>3 DEF MeasuredInvariant, PcrlockPosition

\* Every step of a run and every event around it keeps the invariant.
LEMMA MeasuredNext ==
  ASSUME AlwaysMeasured, MeasuredInvariant, [Next]_vars
  PROVE  MeasuredInvariant'
<1>0. UpdateInvariant'
  BY UpdateNext DEF MeasuredInvariant
<1>m. cfg.measured /\ cfg.version \in Versions /\ cfg.version # None /\ cfg \in Configs
  BY ConfigType, NoneAssumption DEF AlwaysMeasured, MeasuredInvariant, UpdateInvariant, TypeOK
<1> SUFFICES PcrlockPosition'
  BY <1>0 DEF MeasuredInvariant
<1>t. cut \in Nat
  BY ConstantsAssumption DEF MeasuredInvariant, UpdateInvariant, TypeOK
<1>1. CASE Start
  BY <1>1, <1>m DEF Start, Step, NeedsInstall, MeasurementExists, MeasuredInvariant,
     PcrlockPosition, Updating
<1>2. CASE LockNext
  <2>1. /\ pcrlock' = [pcrlock EXCEPT !["next"] = cfg.version] /\ pc = "lock"
        /\ pc' = "sign_fallback" /\ efi' = efi /\ cut' = cut /\ cfg' = cfg
    BY <1>2 DEF LockNext, Step
  <2>2. pcrlock'["next"] = cfg.version /\ pcrlock'["current"] = pcrlock["current"]
    BY <2>1 DEF MeasuredInvariant, UpdateInvariant, TypeOK
  <2> QED  BY <2>1, <2>2, <1>m DEF MeasuredInvariant, PcrlockPosition, Updating
<1>3. CASE SignFallback \/ SignBoot
  BY <1>3 DEF SignFallback, SignBoot, Sign, Step, MeasuredInvariant, PcrlockPosition, Updating
<1>4. CASE RenameFallback
  BY <1>4, RenameMeasured DEF RenameFallback, Target
<1>5. CASE RenameBoot
  BY <1>5, <1>m, RenameMeasured DEF RenameBoot, Target
<1>6. CASE PromoteNext
  <2>1. /\ pc = "promote" /\ pc' = "conf" /\ efi' = efi /\ cut' = 0 /\ cfg' = cfg
        /\ pcrlock' = [pcrlock EXCEPT !["current"] = pcrlock["next"], !["next"] = None]
    BY <1>6 DEF PromoteNext, Step
  <2>2. pcrlock'["next"] = None /\ pcrlock'["current"] = cfg.version
    BY <2>1 DEF MeasuredInvariant, UpdateInvariant, TypeOK, PcrlockPosition, Updating
  <2>3. \A t \in Target : efi[t].version = cfg.version
    BY <2>1, ConfigType DEF MeasuredInvariant, UpdateInvariant, TypeOK, UpdatePosition, Target
  <2> QED  BY <2>1, <2>2, <2>3, <1>m DEF PcrlockPosition, Updating
<1>7. CASE InstallConf \/ Finish
  BY <1>7 DEF InstallConf, Finish, Step, MeasuredInvariant, PcrlockPosition, Updating
<1>8. CASE Abort
  <2>1. /\ pc' = "idle" /\ pcrlock' = pcrlock /\ efi' = efi /\ ~Updating'
        /\ cut' = IF Updating THEN cut + 1 ELSE cut
    BY <1>8 DEF Abort, Updating
  <2> QED  BY <2>1, <1>t DEF MeasuredInvariant, PcrlockPosition
<1>9. CASE Reconfigure
  BY <1>9 DEF Reconfigure, MeasuredInvariant, PcrlockPosition, Updating
<1>10. CASE Tamper
  <2>1. pc = "idle" /\ pcrlock' = pcrlock /\ cut' = cut /\ pc' = pc
    BY <1>10 DEF Tamper
  <2>2. ASSUME NEW t \in Target, efi'[t] \in Binary
        PROVE  efi[t] \in Binary /\ efi'[t].version = efi[t].version
    BY <1>10, <2>2, NoneAssumption DEF Tamper, MeasuredInvariant, UpdateInvariant, TypeOK
  <2> QED  BY <2>1, <2>2 DEF MeasuredInvariant, PcrlockPosition, Updating
<1>11. CASE UNCHANGED vars
  BY <1>11 DEF vars, MeasuredInvariant, PcrlockPosition, Updating
<1> QED
  BY <1>1, <1>2, <1>3, <1>4, <1>5, <1>6, <1>7, <1>8, <1>9, <1>10, <1>11 DEF Next, RunStep

\* On a system that always measures: after a completed run "current" describes
\* both copies unless an update that was cut short left a "next" behind, and
\* after one such update one of the two files describes each copy.
THEOREM MeasuredAfterRunHolds ==
  ASSUME AlwaysMeasured PROVE Spec => []MeasuredAfterRun
<1>1. MeasuredInvariant => MeasuredAfterRun
  <2> SUFFICES ASSUME MeasuredInvariant, pc = "done", NEW t \in Target
               PROVE  /\ pcrlock["next"] = None => efi[t].version = pcrlock["current"]
                      /\ cut <= 1 => efi[t].version \in {pcrlock["current"], pcrlock["next"]}
    BY DEF MeasuredAfterRun
  <2>1. efi[t] \in Binary /\ pcrlock["current"] # None
    BY DEF MeasuredInvariant, UpdateInvariant, UpdatePosition, PcrlockPosition, Current, Usable
  <2>2. cut <= 1 => cut = 0 \/ cut = 1
    BY ConstantsAssumption DEF MeasuredInvariant, UpdateInvariant, TypeOK
  <2> QED  BY <2>1, <2>2 DEF MeasuredInvariant, PcrlockPosition, Updating
<1>2. MeasuredInvariant /\ [Next]_vars => MeasuredInvariant'
  BY MeasuredNext
<1> QED  BY <1>1, <1>2, MeasuredInit, PTL DEF Spec
=============================================================================
