-------------------------- MODULE MC_Provisioning --------------------------
(* Provisioning with one or two ESPs.                                      *)
EXTENDS Provisioning

Setting(esps, measures, reboots, resets, failures, rebuilds) ==
  [esps |-> esps, measured |-> measures, reboots |-> reboots,
   resets |-> resets, failures |-> failures, rebuilds |-> rebuilds]

Both == {"prepare", "cryptenroll"}

\* Resets with several ESPs and Measured Boot; failing commands too where lzbt
\* is the last command of the hook; and nothing going wrong.
AllSettings ==
  {Setting(n, m, r, resets, 0, 1) :
     n \in {1, 2}, m \in BOOLEAN, r \in {{}, {"prepare"}, Both}, resets \in {0, 2}}
  \cup {Setting(1, FALSE, r, 2, 2, 2) : r \in {{}, {"prepare"}}}

\* One ESP and Measured Boot; one command fails.
FailingLzbt == {Setting(1, TRUE, Both, 0, 1, 0)}
=============================================================================
