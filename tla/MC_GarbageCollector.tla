------------------------ MODULE MC_GarbageCollector ------------------------
(* EFI/Linux with a stub and the drop-in directory of a stub, which holds a *)
(* directory with one credential.                                           *)
EXTENDS GarbageCollector

Tree == {"Linux", "stub", "extra", "sub", "cred"}
TreeDirs == {"Linux", "extra", "sub"}
TreeChildren ==
  [p \in Tree |-> CASE p = "Linux" -> {"stub", "extra"}
                    [] p = "extra" -> {"sub"}
                    [] p = "sub" -> {"cred"}
                    [] OTHER -> {}]
TreeBelow ==
  [p \in Tree |-> CASE p = "Linux" -> Tree
                    [] p = "extra" -> {"extra", "sub", "cred"}
                    [] p = "sub" -> {"sub", "cred"}
                    [] OTHER -> {p}]
=============================================================================
