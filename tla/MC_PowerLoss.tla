---------------------------- MODULE MC_PowerLoss ----------------------------
(* PowerLoss on two generation numbers and two toplevels that share a      *)
(* kernel.  The key `torn` signs nothing.                                  *)
EXTENDS PowerLoss

CONSTANTS a, b, k, i1, i2, key1, key2, torn

TwoVersions == {1, 2}
TwoToplevels == {a, b}
SharedKernel == [t \in TwoToplevels |-> k]
OwnInitrds == [t \in TwoToplevels |-> IF t = a THEN {i1} ELSE {i2}]
NoSpecialisations == [t \in TwoToplevels |-> {}]

Config(limit, measured, key) ==
  [limit |-> limit, tries |-> 0, measured |-> measured, key |-> key]

\* The key is rotated, or only the newest generation is kept.
RotationConfigs == {Config(0, FALSE, key1), Config(1, FALSE, key2)}

\* Measured Boot is enabled.
EnableMeasured == {Config(0, FALSE, key1), Config(0, TRUE, key1)}
=============================================================================
