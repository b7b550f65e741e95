----------------------- MODULE GarbageCollectorProofs -----------------------
(***************************************************************************)
(* Proofs that a walk of the garbage collector removes exactly the garbage *)
(* and no root, for every tree, every set of roots and every filter.       *)
(***************************************************************************)
EXTENDS GarbageCollector, TLAPS

\* What the tree looks like: Below is reflexive and transitive, everything
\* below a path is the path or below a child, and a file has nothing below it.
LEMMA TreeFacts ==
  /\ \A p \in Paths : p \in Below[p] /\ Below[p] \subseteq Paths
  /\ \A p \in Paths : \A q \in Below[p] : Below[q] \subseteq Below[p]
  /\ \A p \in Paths : \A q \in Below[p] :
       q = p \/ \E c \in Children[p] : q \in Below[c]
  /\ \A p \in Paths : Children[p] \subseteq Paths
  /\ \A p \in Paths \ Dirs : Below[p] = {p}
<1>1. \A p \in Paths : Children[p] \subseteq Paths
  BY TreeAssumption
<1>2. Dirs \subseteq Paths /\ Top \in Paths /\ Below[Top] = Paths
  BY TreeAssumption
<1>3. \A p \in Paths : p \in Below[p]
  <2> TAKE p \in Paths
  <2>1. Below[p] = {p} \cup UNION {Below[c] : c \in Children[p]}
    BY TreeAssumption
  <2>2. p \in {p} \cup UNION {Below[c] : c \in Children[p]}
    OBVIOUS
  <2> QED  BY <2>1, <2>2, Zenon
<1>4. \A p \in Paths : Below[p] \subseteq Paths
  BY <1>2, TreeAssumption
<1>5. \A p \in Paths : \A q \in Below[p] : q = p \/ \E c \in Children[p] : q \in Below[c]
  BY TreeAssumption
<1>6. \A p \in Paths \ Dirs : Below[p] = {p}
  BY <1>3, <1>5, TreeAssumption
<1> QED  BY <1>1, <1>3, <1>4, <1>5, <1>6, TreeAssumption

\* Collectable depends on the inputs only, and so does the garbage.
LEMMA GarbageFixed ==
  ASSUME UNCHANGED inputs
  PROVE  /\ \A p : Collectable(p)' <=> Collectable(p)
         /\ GarbageSet' = GarbageSet
<1>1. roots' = roots /\ matches' = matches /\ before' = before
  BY DEF inputs
<1> QED  BY <1>1 DEF Collectable, GarbageSet

Inv == TypeOK /\ WalkInvariant /\ RootsSurvive

\* Nothing is removed and the whole tree is still to be walked.
LEMMA InvInit == Init => Inv
<1> SUFFICES ASSUME Init PROVE Inv
  OBVIOUS
<1> USE TreeFacts
<1>1. Dirs \subseteq Paths /\ Top \in Paths /\ Below[Top] = Paths
  BY TreeAssumption
<1>2. TypeOK
  BY <1>1 DEF Init, TypeOK
<1>3. WalkInvariant
  <2>1. \A p \in present : \A q \in Paths : p \in Below[q] => q \in present
    BY DEF Init
  <2>2. before \ present \subseteq GarbageSet \ locked
    BY DEF Init
  <2>3. \A c \in present : c \in Below[Top] /\ Top \in frontier
    BY <1>1, <1>2 DEF Init, TypeOK
  <2> QED  BY <2>1, <2>2, <2>3 DEF Init, WalkInvariant
<1>4. RootsSurvive
  BY DEF Init, RootsSurvive
<1> QED  BY <1>2, <1>3, <1>4 DEF Inv

\* A step that takes `gone` away, where `gone` is closed downwards, lies below
\* a collectable entry and holds no locked file, keeps the parts of the
\* invariant that do not speak of the frontier.
LEMMA RemovalKeeps ==
  ASSUME Inv, UNCHANGED inputs, NEW p \in before, Collectable(p),
         NEW gone \in SUBSET (Below[p] \cap present),
         \A q \in gone : Below[q] \cap present \subseteq gone,
         gone \cap locked = {}, present' = present \ gone
  PROVE  /\ \A r \in present' : \A q \in Paths : r \in Below[q] => q \in present'
         /\ before' \ present' \subseteq GarbageSet' \ locked'
         /\ RootsSurvive'
<1> USE DEF Inv
<1>1. before' = before /\ locked' = locked /\ roots' = roots /\ GarbageSet' = GarbageSet
  BY GarbageFixed DEF inputs
<1>2. \A r \in present' : \A q \in Paths : r \in Below[q] => q \in present'
  BY DEF WalkInvariant
<1>3. gone \subseteq GarbageSet \ locked
  BY DEF GarbageSet, TypeOK
<1>4. before' \ present' \subseteq GarbageSet' \ locked'
  BY <1>1, <1>3 DEF WalkInvariant
<1>5. RootsSurvive'
  <2> SUFFICES ASSUME NEW r \in before \cap roots,
                      \A q \in Paths : r \in Below[q] => q \in roots
               PROVE r \in present'
    BY <1>1 DEF RootsSurvive
  <2>1. r \in present
    BY DEF RootsSurvive
  <2>2. r \notin Below[p]
    BY DEF Collectable, TypeOK
  <2> QED  BY <2>1, <2>2
<1> QED  BY <1>2, <1>4, <1>5

\* What the frontier part of the invariant says of one state.
StillListed ==
  \A c \in present \ locked : Collectable(c) => \E f \in frontier : c \in Below[f]

\* Every step of the walk keeps the invariant.
LEMMA InvNext == Inv /\ [Next]_vars => Inv'
<1> SUFFICES ASSUME Inv, [Next]_vars PROVE Inv'
  OBVIOUS
<1> USE DEF Inv
<1>t. Dirs \subseteq Paths
  BY TreeAssumption
<1>1. ASSUME NEW p \in Paths, Keep(p) PROVE Inv'
  <2>0. /\ UNCHANGED inputs /\ present' = present /\ status' = status
        /\ p \in frontier /\ status = "walking" /\ ~Collectable(p)
        /\ frontier' = (frontier \ {p}) \cup (Children[p] \cap present)
    BY <1>1 DEF Keep
  <2>1. TypeOK'
    BY <2>0 DEF TypeOK, inputs
  <2>2. StillListed'
    <3> SUFFICES ASSUME NEW c \in present \ locked, Collectable(c)
                 PROVE  \E f \in frontier' : c \in Below[f]
      BY <2>0, GarbageFixed DEF StillListed, inputs
    <3>1. PICK f \in frontier : c \in Below[f]
      BY <2>0 DEF WalkInvariant
    <3>2. CASE f # p
      BY <2>0, <3>1, <3>2
    <3>3. CASE f = p
      <4>1. c # p
        BY <2>0
      <4>2. PICK ch \in Children[p] : c \in Below[ch]
        BY <4>1, <3>1, <3>3, TreeFacts
      <4>3. ch \in present
        BY <4>2, TreeFacts DEF WalkInvariant
      <4> QED  BY <4>2, <4>3, <2>0
    <3> QED  BY <3>2, <3>3
  <2>3. WalkInvariant'
    BY <2>0, <2>2, GarbageFixed DEF WalkInvariant, StillListed, inputs
  <2>4. RootsSurvive'
    BY <2>0 DEF RootsSurvive, inputs
  <2> QED  BY <2>1, <2>3, <2>4
<1>2. ASSUME NEW p \in Paths, RemoveFile(p) PROVE Inv'
  <2>0. /\ UNCHANGED inputs /\ status' = status /\ p \notin Dirs
        /\ p \in frontier /\ status = "walking" /\ Collectable(p)
        /\ frontier' = frontier \ {p} /\ p \in before
        /\ present' = present \ ({p} \ locked)
    BY <1>2 DEF RemoveFile, TypeOK
  <2>1. TypeOK'
    BY <2>0 DEF TypeOK, inputs
  <2>b. Below[p] = {p}
    BY <2>0, TreeFacts
  <2> DEFINE gone == ({p} \ locked) \cap present
  <2>3. /\ gone \in SUBSET (Below[p] \cap present)
        /\ \A q \in gone : Below[q] \cap present \subseteq gone
        /\ gone \cap locked = {} /\ present' = present \ gone
    BY <2>0, <2>b
  <2> HIDE DEF gone
  <2>4. /\ \A r \in present' : \A q \in Paths : r \in Below[q] => q \in present'
        /\ before' \ present' \subseteq GarbageSet' \ locked'
        /\ RootsSurvive'
    BY <2>0, <2>3, RemovalKeeps
  <2>5. StillListed'
    <3> SUFFICES ASSUME NEW c \in present' \ locked, Collectable(c)
                 PROVE  \E f \in frontier' : c \in Below[f]
      BY <2>0, GarbageFixed DEF StillListed, inputs
    <3>0. c \in present /\ c # p
      BY <2>0
    <3>1. PICK f \in frontier : c \in Below[f]
      BY <2>0, <3>0 DEF WalkInvariant
    <3>2. f # p
      BY <3>0, <3>1, <2>b
    <3> QED  BY <3>1, <3>2, <2>0
  <2> QED  BY <2>0, <2>1, <2>4, <2>5 DEF WalkInvariant, StillListed
<1>3. ASSUME NEW p \in Paths, RemoveDir(p) PROVE Inv'
  <2>0. /\ UNCHANGED inputs /\ status' = status
        /\ p \in frontier /\ status = "walking" /\ Collectable(p)
        /\ frontier' = frontier \ {p} /\ p \in before
        /\ Below[p] \cap present \cap locked = {}
        /\ present' = present \ Below[p]
    BY <1>3 DEF RemoveDir, TypeOK
  <2>1. TypeOK'
    BY <2>0 DEF TypeOK, inputs
  <2> DEFINE gone == Below[p] \cap present
  <2>3. /\ gone \in SUBSET (Below[p] \cap present)
        /\ \A q \in gone : Below[q] \cap present \subseteq gone
        /\ gone \cap locked = {} /\ present' = present \ gone
    BY <2>0, TreeFacts
  <2> HIDE DEF gone
  <2>4. /\ \A r \in present' : \A q \in Paths : r \in Below[q] => q \in present'
        /\ before' \ present' \subseteq GarbageSet' \ locked'
        /\ RootsSurvive'
    BY <2>0, <2>3, RemovalKeeps
  <2>5. StillListed'
    <3> SUFFICES ASSUME NEW c \in present' \ locked, Collectable(c)
                 PROVE  \E f \in frontier' : c \in Below[f]
      BY <2>0, GarbageFixed DEF StillListed, inputs
    <3>1. PICK f \in frontier : c \in Below[f]
      BY <2>0 DEF WalkInvariant
    <3> QED  BY <3>1, <2>0
  <2> QED  BY <2>0, <2>1, <2>4, <2>5 DEF WalkInvariant, StillListed
<1>4. ASSUME NEW p \in Paths, RemoveDirFails(p) PROVE Inv'
  <2>0. /\ UNCHANGED inputs /\ status' = "failed" /\ frontier' = frontier
        /\ p \in before /\ Collectable(p)
    BY <1>4 DEF RemoveDirFails, TypeOK
  <2>1. PICK gone \in SUBSET (Below[p] \cap present) :
          /\ \A q \in gone : Below[q] \cap present \subseteq gone
          /\ gone \cap locked = {} /\ present' = present \ gone
    BY <1>4 DEF RemoveDirFails
  <2>2. TypeOK'
    BY <2>0, <2>1 DEF TypeOK, inputs
  <2>3. /\ \A r \in present' : \A q \in Paths : r \in Below[q] => q \in present'
        /\ before' \ present' \subseteq GarbageSet' \ locked'
        /\ RootsSurvive'
    BY <2>0, <2>1, RemovalKeeps
  <2> QED  BY <2>0, <2>2, <2>3 DEF WalkInvariant
<1>5. CASE Finish
  <2>0. /\ UNCHANGED inputs /\ present' = present /\ frontier' = frontier
        /\ status = "walking" /\ frontier = {} /\ status' = "done"
    BY <1>5 DEF Finish
  <2>1. TypeOK'
    BY <2>0 DEF TypeOK, inputs
  <2>2. WalkInvariant'
    BY <2>0, GarbageFixed DEF WalkInvariant, inputs
  <2>3. RootsSurvive'
    BY <2>0 DEF RootsSurvive, inputs
  <2> QED  BY <2>1, <2>2, <2>3
<1>6. CASE UNCHANGED vars
  <2>0. UNCHANGED inputs /\ present' = present /\ frontier' = frontier /\ status' = status
    BY <1>6 DEF vars, inputs
  <2>1. TypeOK'
    BY <2>0 DEF TypeOK, inputs
  <2>2. WalkInvariant'
    BY <2>0, GarbageFixed DEF WalkInvariant, inputs
  <2>3. RootsSurvive'
    BY <2>0 DEF RootsSurvive, inputs
  <2> QED  BY <2>1, <2>2, <2>3
<1> QED  BY <1>1, <1>2, <1>3, <1>4, <1>5, <1>6 DEF Next

\* The invariant holds throughout every walk.
THEOREM Invariance == Spec => []Inv
  BY InvInit, InvNext, PTL DEF Spec

\* No walk, a failing one included, ever takes away a root whose directories
\* are roots too: what collect_garbage_with_filter may not touch is safe.
THEOREM RootsSurviveHolds == Spec => []RootsSurvive
<1>1. Inv => RootsSurvive
  BY DEF Inv
<1> QED  BY <1>1, Invariance, PTL

\* A walk that completes has removed exactly the garbage, in whatever order
\* the directories list their entries, except for files it could not remove.
THEOREM RemovesExactlyGarbageHolds == Spec => []RemovesExactlyGarbage
<1>1. Inv => RemovesExactlyGarbage
  <2> SUFFICES ASSUME Inv, status = "done"
               PROVE  present = before \ (GarbageSet \ locked)
    BY DEF RemovesExactlyGarbage
  <2>1. ASSUME NEW r \in present PROVE r \notin GarbageSet \ locked
    <3> SUFFICES ASSUME r \in GarbageSet PROVE r \in locked
      OBVIOUS
    <3>1. PICK c \in before : Collectable(c) /\ r \in Below[c]
      BY DEF GarbageSet
    <3>2. c \in Paths /\ c \in present
      BY <2>1, <3>1 DEF Inv, TypeOK, WalkInvariant
    <3>3. c \in locked
      BY <3>1, <3>2 DEF Inv, WalkInvariant
    <3>4. Below[c] = {c}
      BY <3>2, <3>3, TreeFacts DEF Inv, TypeOK
    <3> QED  BY <3>1, <3>3, <3>4
  <2>2. before \ present \subseteq GarbageSet \ locked /\ present \subseteq before
    BY DEF Inv, TypeOK, WalkInvariant
  <2> QED  BY <2>1, <2>2
<1> QED  BY <1>1, Invariance, PTL
=============================================================================
