------------------------------ MODULE MC_Stub ------------------------------
(* Images: the one lanzaboote_image writes, one with its sections reversed,  *)
(* one whose stub brings more sections, also twice and also ones that are    *)
(* not measured, and one without a hash.                                     *)
EXTENDS Stub

Sections == <<".osrel", ".cmdline", ".initrd", ".linux", ".initrdh", ".linuxh">>
Reversed == [i \in 1..6 |-> Sections[7 - i]]
More == <<".text", ".sbat", ".dtbauto", ".ucode", ".pcrsig", ".sbat">> \o Sections
FourLayouts == {Sections, Reversed, More, SubSeq(Sections, 1, 5)}
OneLayout == {Sections}
=============================================================================
