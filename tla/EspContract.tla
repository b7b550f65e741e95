---------------------------- MODULE EspContract ----------------------------
(***************************************************************************)
(* What `lzbt install` promises about the boot menu, without files: during *)
(* a run the set of bootable systems only grows until every system the run *)
(* is about is in it, and only then may others go.  An interrupted run     *)
(* leaves the menu as it is.  Outside a run the user and the boot loader   *)
(* may change the menu in any way.                                         *)
(***************************************************************************)
CONSTANT Bootable   \* the systems that can be on the menu

VARIABLES
  menu,    \* the systems that boot
  target,  \* the systems the current run is about
  phase    \* "idle", "install" or "collect"

menuvars == <<menu, target, phase>>

MenuTypeOK ==
  /\ menu \subseteq Bootable
  /\ target \subseteq Bootable
  /\ phase \in {"idle", "install", "collect"}

MenuInit == menu = {} /\ target = {} /\ phase = "idle"

Begin ==
  /\ phase = "idle" /\ phase' = "install"
  /\ target' \in (SUBSET Bootable) \ {{}}
  /\ menu' = menu

Grow ==
  /\ phase = "install"
  /\ menu' \in SUBSET Bootable /\ menu \subseteq menu'
  /\ UNCHANGED <<target, phase>>

BeginCollect ==
  /\ phase = "install" /\ phase' = "collect"
  /\ target \subseteq menu
  /\ UNCHANGED <<menu, target>>

Shrink ==
  /\ phase = "collect"
  /\ menu' \in SUBSET menu /\ target \subseteq menu'
  /\ UNCHANGED <<target, phase>>

\* The run completed, failed or was killed.
End ==
  /\ phase # "idle" /\ phase' = "idle"
  /\ target' = {}
  /\ menu' = menu

Outside ==
  /\ phase = "idle"
  /\ menu' \in SUBSET Bootable
  /\ UNCHANGED <<target, phase>>

MenuNext == Begin \/ Grow \/ BeginCollect \/ Shrink \/ End \/ Outside

MenuSpec == MenuInit /\ [][MenuNext]_menuvars
=============================================================================
