-------------------------- MODULE GarbageCollector --------------------------
(***************************************************************************)
(* Roots::collect_garbage_with_filter (rust/tool/shared/src/gc.rs): a lazy *)
(* walk over a directory tree that removes, while it walks, every entry    *)
(* that is not a root and passes the filter; a directory goes with         *)
(* everything in it.  The walk starts at the directory itself, which       *)
(* InstallerBuilder::build has made a root.                                *)
(***************************************************************************)
CONSTANTS
  Paths,     \* the paths of the tree
  Top,       \* the directory that is collected
  Dirs,      \* those that are directories
  Children,  \* [Paths -> SUBSET Paths]
  Below      \* [Paths -> SUBSET Paths], a path and everything under it

ASSUME TreeAssumption ==
  /\ Top \in Dirs /\ Dirs \subseteq Paths
  /\ Children \in [Paths -> SUBSET Paths]
  /\ \A p \in Paths : /\ p \notin Dirs => Children[p] = {}
                      /\ Below[p] = {p} \cup UNION {Below[c] : c \in Children[p]}
                      /\ \A q \in Below[p] : Below[q] \subseteq Below[p]
  /\ Below[Top] = Paths

VARIABLES
  before,   \* what exists when the walk starts
  present,  \* what exists now
  locked,   \* files that cannot be removed
  roots,    \* the paths in Roots
  matches,  \* the paths for which the filter returns true
  frontier, \* entries that were listed and not looked at yet
  status    \* "walking", "done" or "failed"

vars == <<before, present, locked, roots, matches, frontier, status>>
inputs == <<before, locked, roots, matches>>

\* Every variable stays within its type; in particular the walk lists only
\* what there was when it started.
TypeOK ==
  /\ before \subseteq Paths /\ present \subseteq before
  /\ locked \subseteq Paths \ Dirs
  /\ roots \subseteq Paths /\ matches \subseteq Paths
  /\ frontier \subseteq before
  /\ status \in {"walking", "done", "failed"}

Init ==
  /\ before \in {P \in SUBSET Paths : \A p \in P, q \in Paths : p \in Below[q] => q \in P}
  /\ Top \in before
  /\ locked \in SUBSET (Paths \ Dirs)
  /\ roots \in {R \in SUBSET Paths : Top \in R}
  /\ matches \in SUBSET Paths
  /\ present = before
  /\ frontier = {Top}
  /\ status = "walking"

\* The entry passes both filters of the iterator.
Collectable(p) == p \notin roots /\ p \in matches

\* Mutant: a used directory is not entered.
KeepWhole(p) ==
  /\ status = "walking" /\ p \in frontier
  /\ ~Collectable(p)
  /\ frontier' = frontier \ {p}
  /\ UNCHANGED <<inputs, present, status>>

\* An entry that is kept is entered if it is a directory.
Keep(p) ==
  /\ status = "walking" /\ p \in frontier
  /\ ~Collectable(p)
  /\ frontier' = (frontier \ {p}) \cup (Children[p] \cap present)
  /\ UNCHANGED <<inputs, present, status>>

\* A file is removed; failing to remove it is ignored.
RemoveFile(p) ==
  /\ status = "walking" /\ p \in frontier \ Dirs
  /\ Collectable(p)
  /\ frontier' = frontier \ {p}
  /\ present' = present \ ({p} \ locked)
  /\ UNCHANGED <<inputs, status>>

\* Mutant: a directory goes if it matches, in use or not.
RemoveDirUsed(p) ==
  /\ status = "walking" /\ p \in frontier \cap Dirs
  /\ p \in matches
  /\ Below[p] \cap present \cap locked = {}
  /\ frontier' = frontier \ {p} /\ present' = present \ Below[p]
  /\ UNCHANGED <<inputs, status>>

\* remove_dir_all; the walk then finds nothing under it.
RemoveDir(p) ==
  /\ status = "walking" /\ p \in frontier \cap Dirs
  /\ Collectable(p)
  /\ Below[p] \cap present \cap locked = {}
  /\ frontier' = frontier \ {p}
  /\ present' = present \ Below[p]
  /\ UNCHANGED <<inputs, status>>

\* remove_dir_all fails at a file it cannot remove, after it removed some of
\* the others, and so does collect_garbage_with_filter.
RemoveDirFails(p) ==
  /\ status = "walking" /\ p \in frontier \cap Dirs
  /\ Collectable(p)
  /\ Below[p] \cap present \cap locked # {}
  /\ \E gone \in SUBSET (Below[p] \cap present) :
       /\ \A q \in gone : Below[q] \cap present \subseteq gone
       /\ gone \cap locked = {}
       /\ present' = present \ gone
  /\ status' = "failed"
  /\ UNCHANGED <<inputs, frontier>>

Finish ==
  /\ status = "walking" /\ frontier = {}
  /\ status' = "done"
  /\ UNCHANGED <<inputs, present, frontier>>

Next ==
  \/ \E p \in Paths : Keep(p) \/ RemoveFile(p) \/ RemoveDir(p) \/ RemoveDirFails(p)
  \/ Finish

Spec == Init /\ [][Next]_vars

-----------------------------------------------------------------------------
\* What the walk is meant to remove: every collectable path and everything
\* under a collectable directory.
GarbageSet == UNION {Below[p] \cap before : p \in {q \in before : Collectable(q)}}

\* What a walk may still meet and what it has done so far: the inductive
\* invariant behind RemovesExactlyGarbage.
WalkInvariant ==
  /\ \A p \in present : \A q \in Paths : p \in Below[q] => q \in present
  /\ before \ present \subseteq GarbageSet \ locked
  /\ status # "failed" =>
       \A c \in present \ locked :
         Collectable(c) => \E f \in frontier : c \in Below[f]
  /\ status = "done" => frontier = {}

\* A walk that completes has removed exactly the garbage, apart from single
\* files it could not remove, whatever the order of the directory entries.
RemovesExactlyGarbage ==
  status = "done" => present = before \ (GarbageSet \ locked)

\* At every moment, failed walks included, whatever is a root together with
\* all the directories it is in still exists.
RootsSurvive ==
  \A p \in before \cap roots :
    (\A q \in Paths : p \in Below[q] => q \in roots) => p \in present
=============================================================================
