-------------------------- MODULE MC_SystemdBoot --------------------------
(* Three versions of the package, two keys or none.                        *)
EXTENDS SystemdBoot

CONSTANTS key1, key2

Config(key, measured, version) ==
  [key |-> key, measured |-> measured, version |-> version, conf |-> "menu"]

\* The package is updated and rolled back, the key is created and rotated,
\* and loader.conf changes, on a system that always measures.
MeasuredConfigs ==
  {Config(k, TRUE, v) : k \in {NoKey, key1, key2}, v \in 1..2} \cup
  {[Config(key1, TRUE, 3) EXCEPT !.conf = "editor"]}
=============================================================================
