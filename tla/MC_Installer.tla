--------------------------- MODULE MC_Installer ---------------------------
(* Small instances of Installer: one kernel for all toplevels, as after a   *)
(* configuration change, and an initrd of each toplevel's own.              *)
EXTENDS Installer

CONSTANTS a, b, c, k, i1, i2, i3, key1, key2, s

TwoVersions == {1, 2}
ThreeToplevels == {a, b, c}
AllBlobs == {k, i1, i2, i3}
SharedKernel == [t \in ThreeToplevels |-> k]
NoSpecialisations == [t \in ThreeToplevels |-> {}]

Config(limit, tries, measured, key) ==
  [limit |-> limit, tries |-> tries, measured |-> measured, key |-> key]

\* Without secrets a toplevel has one initrd; b and c share theirs.
PlainInitrds == [t \in ThreeToplevels |-> IF t = a THEN {i1} ELSE {i2}]

\* The limit and boot counting are switched on and off.
CountingConfigs == {Config(1, 0, FALSE, key1), Config(0, 1, FALSE, key1)}

\* Toplevel a has the specialisation c, and a's secrets can change.
OneSpecialisation == [t \in ThreeToplevels |-> IF t = a THEN {<<s, c>>} ELSE {}]
SecretInitrds ==
  [t \in ThreeToplevels |-> CASE t = a -> {i1, i2} [] t = b -> {i3} [] t = c -> {i1}]

\* Measured Boot is switched on and off; with a new key comes a limit.
RotationConfigs ==
  {Config(0, 0, FALSE, key1), Config(0, 0, TRUE, key1), Config(1, 0, TRUE, key2)}

AlwaysMeasured == {Config(0, 0, TRUE, key1)}
AlwaysCounting == {Config(0, 1, FALSE, key1)}
=============================================================================
