----------------------------- MODULE StubProofs -----------------------------
(***************************************************************************)
(* Proofs that the stub only runs what it was signed for, with the command *)
(* line Secure Boot asks for, that the PCRs describe what runs, and that   *)
(* nothing is left dangling, for any number of firmware failures, any      *)
(* layout and any companion files.                                         *)
(***************************************************************************)
EXTENDS Stub, SequenceTheorems, FiniteSetTheorems, TLAPS

\* The stub starts with nothing loaded and nothing registered.
LEMMA BootInit == Init => BootInvariant
  BY DEF Init, BootInvariant, Running

\* Every step of the stub and of the kernel keeps the invariant.
LEMMA BootNext == BootInvariant /\ [Next]_vars => BootInvariant'
<1> SUFFICES ASSUME BootInvariant, [Next]_vars PROVE BootInvariant'
  OBVIOUS
<1> USE DEF BootInvariant, Running, Own, inputs, GetSecureBootStatus
<1>1. CASE LoadFromPe
  BY <1>1 DEF LoadFromPe, Step, CheckHash, Reads
<1>2. CASE LoadFails
  BY <1>2 DEF LoadFails, Step
<1>3. CASE Measure
  BY <1>3 DEF Measure
<1>4. CASE MeasureDone
  BY <1>4 DEF MeasureDone, Step
<1>5. CASE ExportEfiVariables
  BY <1>5 DEF ExportEfiVariables, Step
<1>6. CASE FindDropin
  BY <1>6 DEF FindDropin, Step
<1>7. CASE DiscoverCredentials
  BY <1>7 DEF DiscoverCredentials, Step
<1>8. CASE DiscoverSysExts
  BY <1>8 DEF DiscoverSysExts, Step
<1>9. CASE GetCmdline
  BY <1>9 DEF GetCmdline, Step, MeasureCmdline, OtherOptions
<1>10. CASE LoadKernel
  BY <1>10 DEF LoadKernel, Step
<1>11. CASE Register
  BY <1>11 DEF Register, Step
<1>12. CASE StartKernel
  BY <1>12 DEF StartKernel, Step
<1>13. ASSUME NEW size \in 0..(Len(InitrdPieces) + 1), LoadFile(size) PROVE BootInvariant'
  BY <1>13 DEF LoadFile, InitrdPieces
<1>14. CASE KernelDoes
  BY <1>14 DEF KernelDoes, Step
<1>15. CASE Uninstall
  BY <1>15 DEF Uninstall, Step
<1>16. CASE UNCHANGED vars
  BY <1>16 DEF vars
<1> QED
  BY <1>1, <1>2, <1>3, <1>4, <1>5, <1>6, <1>7, <1>8, <1>9, <1>10, <1>11, <1>12,
     <1>13, <1>14, <1>15, <1>16 DEF Next

\* The invariant holds throughout every boot.
THEOREM BootInvariantHolds == Spec => []BootInvariant
  BY BootInit, BootNext, PTL DEF Spec

\* Whatever Secure Boot says and whatever fails, only the kernel and initrd
\* whose hashes the signed stub embeds are run.
THEOREM OnlyVerifiedRunsHolds == Spec => []OnlyVerifiedRuns
<1>1. BootInvariant => OnlyVerifiedRuns
  BY DEF BootInvariant, OnlyVerifiedRuns, Running
<1> QED  BY <1>1, BootInvariantHolds, PTL

\* Unless Secure Boot is known to be off, the kernel runs with the embedded
\* command line.
THEOREM SecureBootPinsCmdlineHolds == Spec => []SecureBootPinsCmdline
<1>1. BootInvariant => SecureBootPinsCmdline
  BY DEF BootInvariant, SecureBootPinsCmdline, Running, GetSecureBootStatus
<1> QED  BY <1>1, BootInvariantHolds, PTL

\* A stub that returns to the boot loader leaves no LoadFile2 interface behind
\* whose memory is gone, and has its image handle back.
THEOREM ReturnsCleanHolds == Spec => []ReturnsClean
<1>1. BootInvariant => ReturnsClean
  BY DEF BootInvariant, ReturnsClean
<1> QED  BY <1>1, BootInvariantHolds, PTL
-----------------------------------------------------------------------------
(* The order of the sections.                                              *)

\* The ranks count the sections in canonical order.
LEMMA Ranks ==
  /\ \A r \in 1..13 : Rank(UnifiedSection[r]) = r
  /\ \A s \in Measurable : Rank(s) \in 1..13 /\ UnifiedSection[Rank(s)] = s
<1>1. \A q, r \in 1..13 : UnifiedSection[q] = UnifiedSection[r] => q = r
  BY DEF UnifiedSection
<1>2. \A r \in 1..13 : Rank(UnifiedSection[r]) = r
  BY <1>1 DEF Rank
<1>3. \A s \in Measurable : \E r \in 1..13 : s = UnifiedSection[r]
  BY DEF Measurable
<1> QED  BY <1>2, <1>3

\* c counts the entries to measure that are not after the r-th section.
Counts(c) ==
  /\ c \in [0..13 -> Nat] /\ c[0] = 0
  /\ \A r \in 0..13 : c[r] = Cardinality(UpTo(r))
  /\ \A r \in 1..13 :
       /\ c[r - 1] <= c[r]
       /\ UnifiedSection[r] \notin Measurable => c[r] = c[r - 1]
       /\ UnifiedSection[r] \in Measurable =>
            c[r] = c[r - 1] + Cardinality(Entries({UnifiedSection[r]}))

\* Each section adds the entries that have its name.
LEMMA CountsExist == ASSUME layout \in Layouts PROVE \E c : Counts(c)
<1>1. layout \in Seq(STRING) /\ Len(layout) \in Nat
  BY LayoutsAssumption
<1>2. IsFiniteSet(1..Len(layout))
  BY <1>1, FS_Interval
<1>3. ASSUME NEW r \in 0..13 PROVE IsFiniteSet(UpTo(r)) /\ Cardinality(UpTo(r)) \in Nat
  <2>1. UpTo(r) \in SUBSET (1..Len(layout))
    BY DEF UpTo
  <2> QED  BY <1>2, <2>1, FS_Subset, FS_CardinalityType
<1>4. Cardinality(UpTo(0)) = 0
  <2>1. \A q \in 1..13 : ~(q <= 0)
    OBVIOUS
  <2>2. UpTo(0) = {}
    BY <2>1, Ranks DEF UpTo
  <2> QED  BY <2>2, FS_EmptySet
<1>5. ASSUME NEW r \in 1..13
      PROVE  LET a == Cardinality(UpTo(r - 1))
                 b == Cardinality(UpTo(r))
             IN  /\ a <= b
                 /\ UnifiedSection[r] \notin Measurable => b = a
                 /\ UnifiedSection[r] \in Measurable =>
                      b = a + Cardinality(Entries({UnifiedSection[r]}))
  <2> DEFINE S == UpTo(r - 1)  T == Entries({UnifiedSection[r]})
  <2>1. r - 1 \in 0..13 /\ r \in 0..13 /\ \A q \in 1..13 : q <= r <=> q <= r - 1 \/ q = r
    OBVIOUS
  <2>2. IsFiniteSet(S) /\ Cardinality(S) \in Nat /\ IsFiniteSet(UpTo(r))
    BY <1>3, <2>1
  <2>3. IsFiniteSet(T) /\ Cardinality(T) \in Nat
    <3>1. T \in SUBSET (1..Len(layout))
      BY DEF Entries
    <3> QED  BY <1>2, <3>1, FS_Subset, FS_CardinalityType
  <2>4. \A s \in Measurable : /\ Rank(s) <= r <=> Rank(s) <= r - 1 \/ s = UnifiedSection[r]
                              /\ s = UnifiedSection[r] => ~(Rank(s) <= r - 1)
    <3>1. ~(r <= r - 1)
      OBVIOUS
    <3>2. \A s \in Measurable : Rank(s) = r <=> s = UnifiedSection[r]
      BY Ranks
    <3> QED  BY <2>1, <3>1, <3>2, Ranks
  <2>5. CASE UnifiedSection[r] \notin Measurable
    <3>1. UpTo(r) = S
      BY <2>4, <2>5 DEF UpTo
    <3> QED  BY <2>2, <2>5, <3>1
  <2>6. CASE UnifiedSection[r] \in Measurable
    <3>1. UpTo(r) = S \cup T /\ S \cap T = {}
      BY <2>4, <2>6 DEF UpTo, Entries
    <3>2. Cardinality(S \cup T) = Cardinality(S) + Cardinality(T) - Cardinality(S \cap T)
      BY <2>2, <2>3, FS_Union
    <3>3. Cardinality(S \cap T) = 0
      BY <3>1, FS_EmptySet
    <3> HIDE DEF S, T
    <3>4. Cardinality(UpTo(r)) = Cardinality(S) + Cardinality(T)
      BY <2>2, <2>3, <3>1, <3>2, <3>3
    <3> QED  BY <2>2, <2>3, <2>6, <3>4 DEF S, T
  <2> QED  BY <2>5, <2>6
<1> DEFINE c == [r \in 0..13 |-> Cardinality(UpTo(r))]
<1>6. c \in [0..13 -> Nat] /\ c[0] = 0 /\ \A r \in 0..13 : c[r] = Cardinality(UpTo(r))
  BY <1>3, <1>4
<1>7. \A r \in 1..13 : r - 1 \in 0..13 /\ r \in 0..13
  OBVIOUS
<1> HIDE DEF c
<1>8. Counts(c)
  BY <1>5, <1>6, <1>7 DEF Counts
<1> QED  BY <1>8

\* The r-th section takes the places after all that come before it.
Block(c, r, k) == k \in (c[r - 1] + 1)..c[r]

\* Every place belongs to exactly one section, one that is measured, and the
\* blocks follow each other.
LEMMA Blocks ==
  ASSUME NEW c, Counts(c)
  PROVE  /\ \A k \in 1..c[13] : \E r \in 1..13 : Block(c, r, k)
         /\ \A r \in 1..13, k \in 1..c[13] : Block(c, r, k) => UnifiedSection[r] \in Measurable
         /\ \A q, r \in 1..13, j, k \in 1..c[13] :
              Block(c, q, j) /\ Block(c, r, k) /\ j <= k => q <= r
         /\ \A r \in 1..13 : (c[r - 1] + 1)..c[r] \subseteq 1..c[13]
<1>1. /\ \A r \in 0..13 : c[r] \in Nat
      /\ c[0] = 0 /\ \A r \in 1..13 : c[r - 1] <= c[r]
  BY DEF Counts
<1>2. /\ c[0] <= c[1] /\ c[1] <= c[2] /\ c[2] <= c[3] /\ c[3] <= c[4] /\ c[4] <= c[5]
      /\ c[5] <= c[6] /\ c[6] <= c[7] /\ c[7] <= c[8] /\ c[8] <= c[9] /\ c[9] <= c[10]
      /\ c[10] <= c[11] /\ c[11] <= c[12] /\ c[12] <= c[13]
  BY <1>1
<1>3. \A q, r \in 0..13 : q <= r => c[q] <= c[r]
  <2>1. \A q \in 0..13 : q = 0 \/ q = 1 \/ q = 2 \/ q = 3 \/ q = 4 \/ q = 5 \/ q = 6 \/ q = 7
                         \/ q = 8 \/ q = 9 \/ q = 10 \/ q = 11 \/ q = 12 \/ q = 13
    OBVIOUS
  <2> QED  BY <1>1, <1>2, <2>1
<1>4. ASSUME NEW k \in 1..c[13] PROVE \E r \in 1..13 : Block(c, r, k)
  <2> SUFFICES ASSUME \A r \in 1..13 : ~Block(c, r, k) PROVE FALSE
    OBVIOUS
  <2>1. ASSUME NEW r \in 1..13 PROVE c[r - 1] < k => c[r] < k
    BY <1>1 DEF Block
  <2>2. c[0] < k /\ ~(c[13] < k)
    BY <1>1
  <2>3. /\ (c[0] < k => c[1] < k) /\ (c[1] < k => c[2] < k) /\ (c[2] < k => c[3] < k)
        /\ (c[3] < k => c[4] < k) /\ (c[4] < k => c[5] < k) /\ (c[5] < k => c[6] < k)
        /\ (c[6] < k => c[7] < k) /\ (c[7] < k => c[8] < k) /\ (c[8] < k => c[9] < k)
        /\ (c[9] < k => c[10] < k) /\ (c[10] < k => c[11] < k) /\ (c[11] < k => c[12] < k)
        /\ (c[12] < k => c[13] < k)
    BY <2>1
  <2> QED  BY <2>2, <2>3
<1>5. ASSUME NEW r \in 1..13, NEW k \in 1..c[13], Block(c, r, k) PROVE UnifiedSection[r] \in Measurable
  <2>1. r - 1 \in 0..13 /\ r \in 0..13 /\ c[r - 1] # c[r]
    BY <1>1, <1>5 DEF Block
  <2> QED  BY <2>1 DEF Counts
<1>6. ASSUME NEW q \in 1..13, NEW r \in 1..13, NEW j \in 1..c[13], NEW k \in 1..c[13],
             Block(c, q, j), Block(c, r, k), j <= k, r < q
      PROVE  FALSE
  <2>1. r <= q - 1 /\ q - 1 \in 0..13 /\ r \in 0..13
    BY <1>6
  <2>2. c[r] <= c[q - 1] /\ c[r] \in Nat /\ c[q - 1] \in Nat
    BY <1>1, <1>3, <2>1
  <2> QED  BY <1>6, <2>2 DEF Block
<1>7. ASSUME NEW r \in 1..13 PROVE (c[r - 1] + 1)..c[r] \subseteq 1..c[13]
  <2>1. r \in 0..13 /\ r - 1 \in 0..13 /\ r <= 13 /\ 13 \in 0..13
    OBVIOUS
  <2>2. c[r - 1] \in Nat /\ c[r] \in Nat /\ c[13] \in Nat /\ c[r] <= c[13]
    BY <1>1, <1>3, <2>1
  <2> QED  BY <2>2
<1>8. \A q, r \in 1..13, j, k \in 1..c[13] : Block(c, q, j) /\ Block(c, r, k) /\ j <= k => q <= r
  <2>1. \A q, r \in 1..13 : q <= r \/ r < q
    OBVIOUS
  <2> QED  BY <1>6, <2>1
<1> QED  BY <1>4, <1>5, <1>7, <1>8

\* s has the sections to measure, as often as the image has them, in canonical order.
InCanonicalOrder(s) ==
  LET n == Cardinality(Entries(Measurable)) IN
  /\ s \in Seq(Measurable) /\ Len(s) = n
  /\ \A k \in 1..n : s[k] \in Measurable
  /\ \A x \in Measurable : Cardinality({k \in 1..n : s[k] = x}) = Cardinality(Entries({x}))
  /\ \A j, k \in 1..n : j < k => Rank(s[j]) <= Rank(s[k])

\* That is what measure_image has after sorting.
LEMMA SectionsSorted == ASSUME layout \in Layouts PROVE InCanonicalOrder(SectionsToMeasure)
<1>1. PICK c : Counts(c)
  BY CountsExist
<1>2. PICK n \in Nat : n = c[13]
  BY <1>1 DEF Counts
<1>3. n = Cardinality(UpTo(13)) /\ n = Cardinality(Entries(Measurable))
  <2>0. \A q \in 1..13 : q <= 13
    OBVIOUS
  <2>1. UpTo(13) = Entries(Measurable)
    BY <2>0, Ranks DEF UpTo, Entries
  <2> QED  BY <1>1, <1>2, <2>1 DEF Counts
<1> DEFINE At(k) == CHOOSE r \in 1..13 : Block(c, r, k)
<1>4. \A k \in 1..n : At(k) \in 1..13 /\ Block(c, At(k), k)
  BY <1>1, <1>2, Blocks
<1>5. SectionsToMeasure = [k \in 1..n |-> UnifiedSection[At(k)]]
  <2>1. \A k : (CHOOSE r \in 1..13 : k \in (Cardinality(UpTo(r - 1)) + 1)..Cardinality(UpTo(r))) = At(k)
    <3>1. \A r \in 1..13 : Cardinality(UpTo(r - 1)) = c[r - 1] /\ Cardinality(UpTo(r)) = c[r]
      <4>1. \A r \in 1..13 : r - 1 \in 0..13 /\ r \in 0..13
        OBVIOUS
      <4> QED  BY <1>1, <4>1 DEF Counts
    <3>2. \A k, r : r \in 1..13 =>
            (k \in (Cardinality(UpTo(r - 1)) + 1)..Cardinality(UpTo(r)) <=> Block(c, r, k))
      BY <3>1 DEF Block
    <3> QED  BY <3>2
  <2> DEFINE Chosen(k) == CHOOSE r \in 1..13 :
                            k \in (Cardinality(UpTo(r - 1)) + 1)..Cardinality(UpTo(r))
  <2>2. SectionsToMeasure = [k \in 1..n |-> UnifiedSection[Chosen(k)]] /\ \A k : Chosen(k) = At(k)
    BY <1>3, <2>1 DEF SectionsToMeasure
  <2> HIDE DEF Chosen, At
  <2> QED  BY <2>2
<1> HIDE DEF At
<1> DEFINE s == SectionsToMeasure
<1>6. \A k \in 1..n : UnifiedSection[At(k)] \in Measurable
  BY <1>1, <1>2, <1>4, Blocks
<1>7. /\ s \in Seq(Measurable) /\ Len(s) = n
      /\ \A k \in 1..n : s[k] = UnifiedSection[At(k)]
  BY <1>5, <1>6
<1> HIDE DEF s
<1>r. \A k \in 1..n : s[k] \in Measurable /\ Rank(s[k]) = At(k)
  BY <1>4, <1>6, <1>7, Ranks
<1>8. \A j, k \in 1..n : j < k => Rank(s[j]) <= Rank(s[k])
  <2> SUFFICES ASSUME NEW j \in 1..n, NEW k \in 1..n, j < k PROVE At(j) <= At(k)
    BY <1>r
  <2>1. j <= k
    OBVIOUS
  <2> QED  BY <1>1, <1>2, <1>4, <2>1, Blocks
<1>9. ASSUME NEW x \in Measurable
      PROVE  Cardinality({k \in 1..n : s[k] = x}) = Cardinality(Entries({x}))
  <2>1. PICK r \in 1..13 : r = Rank(x) /\ UnifiedSection[r] = x
    BY Ranks
  <2>2. PICK a \in Nat, b \in Nat : a = c[r - 1] /\ b = c[r] /\ a <= b
    <3>1. r - 1 \in 0..13 /\ r \in 0..13
      OBVIOUS
    <3> QED  BY <1>1, <3>1 DEF Counts
  <2>3. \A k \in 1..n : s[k] = x <=> Block(c, r, k)
    <3> SUFFICES ASSUME NEW k \in 1..n PROVE s[k] = x <=> Block(c, r, k)
      OBVIOUS
    <3>1. s[k] = x => At(k) = r
      BY <1>r, <2>1
    <3>2. Block(c, r, k) => At(k) = r
      <4> SUFFICES ASSUME Block(c, r, k) PROVE At(k) = r
        OBVIOUS
      <4>1. k <= k
        OBVIOUS
      <4>2. At(k) <= r /\ r <= At(k) /\ At(k) \in 1..13
        BY <1>1, <1>2, <1>4, <4>1, Blocks
      <4> QED  BY <4>2
    <3> QED  BY <1>4, <1>7, <2>1, <3>1, <3>2
  <2>4. {k \in 1..n : s[k] = x} = (a + 1)..b
    <3>1. (a + 1)..b \subseteq 1..n
      BY <1>1, <1>2, <2>2, Blocks
    <3>2. \A k : Block(c, r, k) <=> k \in (a + 1)..b
      BY <2>2 DEF Block
    <3> QED  BY <2>3, <3>1, <3>2
  <2>5. Cardinality((a + 1)..b) = b - a
    <3>1. a + 1 \in Int /\ b \in Int /\ (a + 1 > b <=> a = b) /\ b - (a + 1) + 1 = b - a /\ (a = b => b - a = 0)
      BY <2>2
    <3> QED  BY <3>1, FS_Interval
  <2>6. PICK e \in Nat : e = Cardinality(Entries({x}))
    <3>1. Entries({x}) \in SUBSET (1..Len(layout)) /\ Len(layout) \in Nat
      BY LayoutsAssumption DEF Entries
    <3>2. IsFiniteSet(1..Len(layout))
      BY <3>1, FS_Interval
    <3> QED  BY <3>1, <3>2, FS_Subset, FS_CardinalityType
  <2>7. b = a + e
    BY <1>1, <2>1, <2>2, <2>6 DEF Counts
  <2>8. b - a = e
    BY <2>7
  <2> QED  BY <2>4, <2>5, <2>6, <2>8
<1> QED  BY <1>3, <1>7, <1>r, <1>8, <1>9 DEF InCanonicalOrder, s

-----------------------------------------------------------------------------
(* What is measured.  First the types, which the sequences of measurements  *)
(* need.                                                                    *)

\* Everything that is ever logged in a PCR.
Logged == Measurable \cup [section : Measurable] \cup Companion
            \cup {Kernel, Initrd, OtherBlob, Embedded, Custom, None}

Measurement == [pcr : {11, 12, 13}, data : Logged]

\* What the stub finds is as Init says.
InputTypes ==
  /\ tpm \in {"none", "stays", "may_vanish"}
  /\ passed \in {None, Embedded, Custom}
  /\ layout \in Layouts

\* The files the stub has found, and what is still to be measured.
MeasureTypes ==
  /\ kernel_data \in Reads(Kernel) /\ initrd_data \in Reads(Initrd)
  /\ dropin \in BOOLEAN
  /\ companions \in Seq(Companion)
  /\ queue \in Seq(Measurement)
  /\ measured \subseteq {11, 12, 13}
  /\ pcr \in [{4, 11, 12, 13} -> Seq(Logged)]
  /\ cmdline \in {Embedded, Custom, None}
  /\ failures \in Nat

\* measure_image makes two measurements for every section: its name and its data.
LEMMA ImagePlan ==
  ASSUME layout \in Layouts, NEW k \in Logged, NEW r \in Logged
  PROVE  LET m == ImageMeasurements(k, r)
             t == SectionsToMeasure
         IN  /\ m \in Seq(Measurement) /\ Len(m) = 2 * Len(t)
             /\ \A i \in 1..Len(m) : m[i].pcr = 11
             /\ \A j \in 1..Len(t) : /\ m[2 * j - 1].data = t[j]
                                   /\ m[2 * j].data = SectionData(t[j], k, r)
<1> DEFINE m == ImageMeasurements(k, r)
           t == SectionsToMeasure
           d(i) == IF i % 2 = 1 THEN t[(i + 1) \div 2] ELSE SectionData(t[(i + 1) \div 2], k, r)
<1>1. PICK n \in Nat : n = Len(t) /\ \A j \in 1..n : t[j] \in Measurable
  BY SectionsSorted DEF InCanonicalOrder
<1>2. m = [i \in 1..(2 * n) |-> [pcr |-> 11, data |-> d(i)]]
  BY <1>1 DEF ImageMeasurements
<1>3. \A i \in 1..(2 * n) : (i + 1) \div 2 \in 1..n
  OBVIOUS
<1>4. \A x \in Measurable : SectionData(x, k, r) \in Logged /\ x \in Logged
  <2> SUFFICES ASSUME NEW x \in Measurable PROVE SectionData(x, k, r) \in Logged /\ x \in Logged
    OBVIOUS
  <2>1. Contents(x) \in Logged /\ x \in Logged
    BY DEF Contents, Logged
  <2> QED  BY <2>1 DEF SectionData
<1>5. \A i \in 1..(2 * n) : d(i) \in Logged
  BY <1>1, <1>3, <1>4
<1>6. \A j \in 1..n :
        /\ 2 * j - 1 \in 1..(2 * n) /\ (2 * j - 1) % 2 = 1 /\ ((2 * j - 1) + 1) \div 2 = j
        /\ 2 * j \in 1..(2 * n) /\ (2 * j) % 2 # 1 /\ (2 * j + 1) \div 2 = j
  OBVIOUS
<1>7. \A j \in 1..n : d(2 * j - 1) = t[j] /\ d(2 * j) = SectionData(t[j], k, r)
  BY <1>6
<1> HIDE DEF d
<1>8. m \in Seq(Measurement) /\ Len(m) = 2 * n
  BY <1>2, <1>5 DEF Measurement
<1>9. /\ \A i \in 1..(2 * n) : m[i].pcr = 11 /\ m[i].data = d(i)
  BY <1>2
<1> HIDE DEF m, t
<1>10. \A j \in 1..n : m[2 * j - 1].data = t[j] /\ m[2 * j].data = SectionData(t[j], k, r)
  BY <1>6, <1>7, <1>9
<1> QED  BY <1>1, <1>8, <1>9, <1>10 DEF m, t

\* The types of what the stub finds and does.
Types ==
  /\ InputTypes /\ MeasureTypes
  /\ pc \notin {"measure", "companions"} => queue = <<>>

\* pack_cpio yields at most one archive of a type.
LEMMA PackedType ==
  ASSUME NEW type \in {"GlobalCredentials", "Credentials", "SystemExtension"},
         NEW fs \in SUBSET (Creds \cup SysExts)
  PROVE  /\ Packed(type, fs) \in Seq(Companion)
         /\ \A i \in 1..Len(Packed(type, fs)) : Packed(type, fs)[i].type = type
<1>1. [type |-> type, files |-> fs] \in Companion
  BY DEF Companion
<1> QED  BY <1>1 DEF Packed

\* discover_credentials finds credentials only.
LEMMA CredentialsFound ==
  ASSUME InputTypes, MeasureTypes, DiscoverCredentials
  PROVE  /\ companions' \in Seq(Companion)
         /\ Len(companions) = 0 => \A i \in 1..Len(companions') : companions'[i].type # "SystemExtension"
<1>1. CASE companions' = companions
  BY <1>1 DEF MeasureTypes
<1>2. CASE companions' # companions
  <2>1. PICK global \in SUBSET Creds, local \in SUBSET Creds :
           companions' = Packed("GlobalCredentials", global) \o Packed("Credentials", local)
    BY <1>2 DEF DiscoverCredentials
  <2> DEFINE g == Packed("GlobalCredentials", global)  c == Packed("Credentials", local)
  <2>2. /\ g \in Seq(Companion) /\ \A i \in 1..Len(g) : g[i].type # "SystemExtension"
        /\ c \in Seq(Companion) /\ \A i \in 1..Len(c) : c[i].type # "SystemExtension"
    BY PackedType
  <2> HIDE DEF g, c
  <2>3. /\ g \o c \in Seq(Companion)
        /\ \A i \in 1..Len(g \o c) : (g \o c)[i].type # "SystemExtension"
    BY <2>2
  <2> QED  BY <2>1, <2>3 DEF g, c
<1> QED  BY <1>1, <1>2

\* discover_system_extensions adds extensions only.
LEMMA SysExtsFound ==
  ASSUME InputTypes, MeasureTypes, DiscoverSysExts
  PROVE  /\ companions' \in Seq(Companion) /\ Len(companions) <= Len(companions')
         /\ \A i \in 1..Len(companions) : companions'[i] = companions[i]
         /\ \A i \in (Len(companions) + 1)..Len(companions') :
              companions'[i].type = "SystemExtension"
<1>0. companions \in Seq(Companion)
  BY DEF MeasureTypes
<1>1. CASE companions' = companions
  BY <1>0, <1>1
<1>2. CASE companions' # companions
  <2>1. PICK raw \in SUBSET SysExts : companions' = companions \o Packed("SystemExtension", raw)
    BY <1>2 DEF DiscoverSysExts
  <2> DEFINE x == Packed("SystemExtension", raw)
  <2>2. x \in Seq(Companion) /\ \A i \in 1..Len(x) : x[i].type = "SystemExtension"
    BY PackedType
  <2> HIDE DEF x
  <2>3. companions' = companions \o x
    BY <2>1 DEF x
  <2> QED  BY <1>0, <2>2, <2>3, ConcatProperties
<1> QED  BY <1>1, <1>2

\* What measure_companion_initrds is going to measure.
LEMMA CompanionQueue ==
  ASSUME InputTypes, MeasureTypes, DiscoverSysExts, pc' = "companions"
  PROVE  /\ queue' \in Seq(Measurement) /\ Len(queue') = Len(companions')
         /\ \A i \in 1..Len(companions') : /\ queue'[i].pcr = CompanionPcr(companions'[i].type)
                                          /\ queue'[i].data = companions'[i]
<1>1. companions' \in Seq(Companion)
  BY SysExtsFound
<1>2. queue' = [i \in 1..Len(companions') |->
                  [pcr |-> CompanionPcr(companions'[i].type), data |-> companions'[i]]]
  BY DEF DiscoverSysExts
<1>3. \A i \in 1..Len(companions') :
        [pcr |-> CompanionPcr(companions'[i].type), data |-> companions'[i]] \in Measurement
  BY <1>1 DEF CompanionPcr, Measurement, Logged
<1> QED  BY <1>1, <1>2, <1>3

\* One measurement: the head of the queue, into its PCR or nowhere.
LEMMA MeasureFacts ==
  ASSUME MeasureTypes, Measure
  PROVE  \E m \in Measurement :
           /\ Len(queue) > 0 /\ m = queue[1] /\ queue' \in Seq(Measurement)
           /\ Len(queue') = Len(queue) - 1
           /\ \A i \in 1..Len(queue') : queue'[i] = queue[i + 1]
           /\ pcr' \in [{4, 11, 12, 13} -> Seq(Logged)]
           /\ \A j \in {4, 11, 12, 13} \ {m.pcr} : pcr'[j] = pcr[j]
           /\ \/ /\ UNCHANGED failures /\ measured' = measured \cup {m.pcr}
                 /\ Len(pcr'[m.pcr]) = Len(pcr[m.pcr]) + 1
                 /\ \A i \in 1..Len(pcr[m.pcr]) : pcr'[m.pcr][i] = pcr[m.pcr][i]
                 /\ pcr'[m.pcr][Len(pcr[m.pcr]) + 1] = m.data
              \/ /\ failures' = failures + 1 /\ pcr' = pcr
                 /\ \/ measured' = measured
                    \/ tpm = "may_vanish" /\ measured' = measured \cup {m.pcr}
<1>1. queue \in Seq(Measurement) /\ queue # <<>> /\ queue' = Tail(queue)
  BY DEF MeasureTypes, Measure
<1>2. PICK m \in Measurement : m = Head(queue)
  BY <1>1
<1>3. /\ Len(queue) > 0 /\ m = queue[1] /\ queue' \in Seq(Measurement)
      /\ Len(queue') = Len(queue) - 1 /\ \A i \in 1..Len(queue') : queue'[i] = queue[i + 1]
  BY <1>1, <1>2, HeadTailProperties
<1>4. m.pcr \in {11, 12, 13} /\ m.data \in Logged /\ pcr \in [{4, 11, 12, 13} -> Seq(Logged)]
  BY DEF Measurement, MeasureTypes
<1>5. CASE Works /\ pcr' = [pcr EXCEPT ![m.pcr] = Append(@, m.data)]
  <2> DEFINE new == Append(pcr[m.pcr], m.data)
  <2>1. /\ new \in Seq(Logged) /\ Len(new) = Len(pcr[m.pcr]) + 1
        /\ \A i \in 1..Len(pcr[m.pcr]) : new[i] = pcr[m.pcr][i]
        /\ new[Len(pcr[m.pcr]) + 1] = m.data
    BY <1>4, AppendProperties
  <2> HIDE DEF new
  <2>2. pcr' = [pcr EXCEPT ![m.pcr] = new]
    BY <1>5 DEF new
  <2>3. pcr'[m.pcr] = new /\ \A j \in {4, 11, 12, 13} \ {m.pcr} : pcr'[j] = pcr[j]
    BY <1>4, <2>2
  <2>4. pcr' \in [{4, 11, 12, 13} -> Seq(Logged)]
    BY <1>4, <2>1, <2>2
  <2>5. measured' = measured \cup {m.pcr} /\ UNCHANGED failures
    <3>1. CASE measured' = measured \cup {m.pcr}
      BY <1>5, <3>1 DEF Works
    <3>2. CASE Fails
      BY <1>5, <3>2 DEF Fails, Works, MeasureTypes
    <3> QED  BY <1>2, <3>1, <3>2 DEF Measure
  <2> QED  BY <1>3, <2>1, <2>3, <2>4, <2>5
<1>6. CASE Fails /\ UNCHANGED pcr
  <2>1. failures' = failures + 1 /\ failures' # failures
    BY <1>6 DEF Fails, MeasureTypes
  <2>2. \/ measured' = measured
        \/ tpm = "may_vanish" /\ measured' = measured \cup {m.pcr}
    BY <1>2, <2>1 DEF Measure, Works
  <2> QED  BY <1>3, <1>4, <1>6, <2>1, <2>2
<1> QED  BY <1>2, <1>5, <1>6 DEF Measure

\* Every step of the stub keeps the types.
LEMMA TypesNext == Types /\ [Next]_vars => Types'
<1> SUFFICES ASSUME Types, [Next]_vars PROVE Types'
  OBVIOUS
<1>0. InputTypes /\ MeasureTypes
  BY DEF Types
<1> USE DEF inputs, Works, Fails
<1>i. InputTypes'
  <2>1. UNCHANGED <<tpm, passed, layout>>
    BY DEF Next, LoadFromPe, LoadFails, Measure, MeasureDone, ExportEfiVariables, FindDropin,
       DiscoverCredentials, DiscoverSysExts, GetCmdline, LoadKernel, Register, StartKernel,
       LoadFile, KernelDoes, Uninstall, vars
  <2> QED  BY <1>0, <2>1 DEF InputTypes
<1>1. CASE LoadFromPe
  <2>1. /\ kernel_data' = Kernel /\ initrd_data' = Initrd /\ Kernel \in Logged /\ Initrd \in Logged
        /\ kernel_data' \in Reads(Kernel) /\ initrd_data' \in Reads(Initrd)
    BY <1>1 DEF LoadFromPe, CheckHash, Logged, Reads
  <2>2. ImageMeasurements(kernel_data', initrd_data') \in Seq(Measurement) /\ <<>> \in Seq(Measurement)
    BY <1>0, <2>1, ImagePlan DEF InputTypes
  <2>3. queue' \in Seq(Measurement) /\ (pc' # "measure" => queue' = <<>>)
    BY <1>1, <2>2 DEF LoadFromPe, Step
  <2> QED  BY <1>0, <1>i, <1>1, <2>1, <2>3 DEF LoadFromPe, Step, Types, MeasureTypes
<1>2. CASE Measure
  <2>1. UNCHANGED <<secure_boot, tpm, passed, layout, pc, kernel_data, initrd_data, dropin,
                    companions, cmdline>> /\ pc \in {"measure", "companions"}
    BY <1>2 DEF Measure
  <2>2. PICK m \in Measurement :
           /\ queue' \in Seq(Measurement) /\ pcr' \in [{4, 11, 12, 13} -> Seq(Logged)]
           /\ failures' = failures \/ failures' = failures + 1
           /\ measured' = measured \/ measured' = measured \cup {m.pcr}
    BY <1>0, <1>i, <1>2, MeasureFacts
  <2>3. m.pcr \in {11, 12, 13}
    BY DEF Measurement
  <2>4. failures' \in Nat /\ measured' \subseteq {11, 12, 13}
    <3>1. failures \in Nat /\ measured \subseteq {11, 12, 13}
      BY <1>0 DEF MeasureTypes
    <3>2. failures' \in Nat
      BY <2>2, <3>1
    <3>3. measured' \subseteq {11, 12, 13}
      BY <2>2, <2>3, <3>1, Zenon
    <3> QED  BY <3>2, <3>3
  <2>5. MeasureTypes'
    BY <1>0, <2>1, <2>2, <2>4 DEF MeasureTypes
  <2> QED  BY <1>i, <2>1, <2>5 DEF Types
<1>3. CASE DiscoverCredentials
  <2>1. companions' \in Seq(Companion) /\ failures' \in Nat
    <3>1. failures \in Nat /\ (failures' = failures \/ failures' = failures + 1)
      BY <1>0, <1>3 DEF DiscoverCredentials, MeasureTypes
    <3> QED  BY <1>0, <1>3, <3>1, CredentialsFound
  <2>2. MeasureTypes'
    BY <1>0, <1>3, <2>1 DEF DiscoverCredentials, MeasureTypes
  <2> QED  BY <1>i, <1>3, <2>2 DEF DiscoverCredentials, Types
<1>4. CASE DiscoverSysExts
  <2>1. companions' \in Seq(Companion)
    BY <1>0, <1>i, <1>4, SysExtsFound
  <2>2. queue' \in Seq(Measurement) /\ (pc' # "companions" => queue' = <<>>)
    <3>1. CASE pc' = "companions"
      BY <1>0, <1>i, <1>4, <3>1, CompanionQueue
    <3>2. CASE pc' # "companions"
      BY <1>4, <3>2 DEF DiscoverSysExts
    <3> QED  BY <3>1, <3>2
  <2>3. pc' # "measure"
    BY <1>4 DEF DiscoverSysExts
  <2> QED  BY <1>0, <1>i, <1>4, <2>1, <2>2, <2>3 DEF DiscoverSysExts, Types, MeasureTypes
<1>5. CASE GetCmdline
  <2>1. passed \in Logged
    BY <1>0 DEF InputTypes, Logged
  <2>2. pcr' = pcr \/ pcr' = [pcr EXCEPT ![4] = Append(@, passed)]
    BY <1>5 DEF GetCmdline, MeasureCmdline
  <2>3. pcr' \in [{4, 11, 12, 13} -> Seq(Logged)]
    <3>1. pcr \in [{4, 11, 12, 13} -> Seq(Logged)] /\ Append(pcr[4], passed) \in Seq(Logged)
      BY <1>0, <2>1, AppendProperties DEF MeasureTypes
    <3> QED  BY <2>2, <3>1
  <2>4. cmdline' \in {Embedded, Custom} /\ (failures' = failures \/ failures' = failures + 1)
    BY <1>0, <1>i, <1>5 DEF GetCmdline, MeasureCmdline, OtherOptions, InputTypes
  <2>5. /\ pc' = "kernel" /\ failures' \in Nat
        /\ UNCHANGED <<queue, measured, kernel_data, initrd_data, dropin, companions, efivars>>
    BY <1>0, <1>5, <2>4 DEF GetCmdline, Step, MeasureTypes
  <2> QED  BY <1>0, <1>i, <1>5, <2>3, <2>4, <2>5 DEF GetCmdline, Step, Types, MeasureTypes
<1>6. CASE FindDropin
  <2>1. dropin' \in BOOLEAN /\ failures' \in Nat
    <3>1. dropin' \in BOOLEAN
      BY <1>6, Zenon DEF FindDropin
    <3>2. failures' \in Nat
      BY <1>0, <1>6 DEF FindDropin, MeasureTypes
    <3> QED  BY <3>1, <3>2
  <2>2. MeasureTypes'
    BY <1>0, <1>6, <2>1 DEF FindDropin, MeasureTypes
  <2> QED  BY <1>i, <1>6, <2>2 DEF FindDropin, Step, Types
<1>7. CASE MeasureDone
  <2>1. measured' = {} /\ failures' \in Nat
    BY <1>0, <1>7 DEF MeasureDone, MeasureTypes
  <2>2. MeasureTypes'
    BY <1>0, <1>7, <2>1 DEF MeasureDone, MeasureTypes
  <2> QED  BY <1>i, <1>7, <2>2 DEF MeasureDone, Step, Types
<1>8. CASE LoadFails \/ ExportEfiVariables \/ LoadKernel \/ Register \/ StartKernel \/ Uninstall
  <2>1. /\ UNCHANGED <<kernel_data, initrd_data, dropin, companions, queue, measured, pcr, cmdline>>
        /\ failures' = failures \/ failures' = failures + 1
        /\ {pc, pc'} \cap {"measure", "companions"} = {}
    BY <1>8 DEF LoadFails, ExportEfiVariables, LoadKernel, Register, StartKernel, Uninstall, Step
  <2>2. MeasureTypes'
    BY <1>0, <2>1 DEF MeasureTypes
  <2> QED  BY <1>i, <2>1, <2>2 DEF Types
<1>9. CASE KernelDoes \/ (\E size \in 0..(Len(InitrdPieces) + 1) : LoadFile(size))
  BY <1>0, <1>i, <1>9 DEF KernelDoes, LoadFile, Step, Types, MeasureTypes
<1>10. CASE UNCHANGED vars
  BY <1>0, <1>i, <1>10 DEF vars, Types, MeasureTypes
<1> QED
  BY <1>1, <1>2, <1>3, <1>4, <1>5, <1>6, <1>7, <1>8, <1>9, <1>10 DEF Next

\* Nothing is measured before the first step.
LEMMA TypesInit == Init => Types
<1> SUFFICES ASSUME Init PROVE Types
  OBVIOUS
<1>1. <<>> \in Seq(Companion) /\ <<>> \in Seq(Measurement) /\ <<>> \in Seq(Logged)
  OBVIOUS
<1> QED  BY <1>1 DEF Init, Types, InputTypes, MeasureTypes, Reads

\* The types hold throughout every boot.
LEMMA TypesHold == Spec => []Types
  BY TypesInit, TypesNext, PTL DEF Spec

-----------------------------------------------------------------------------
(* The command line.                                                       *)

AfterCmdline == {"kernel", "register", "start", "running", "booted"}

\* Nothing is in PCR 4 before get_cmdline; after it, with a TPM that can be
\* opened, a command line that is not the embedded one.
CmdlineMeasured ==
  /\ pc \in {"load", "measure", "export", "dropin", "credentials", "sysexts", "companions",
             "cmdline"} => pcr[4] = <<>>
  /\ pc \in AfterCmdline /\ (tpm = "stays" \/ (TpmAvailable /\ failures = 0)) =>
       pcr[4] = IF cmdline = Embedded THEN <<>> ELSE <<cmdline>>

\* The steps before and after get_cmdline leave PCR 4 alone.
LEMMA CmdlineMeasuredNext == Types /\ CmdlineMeasured /\ [Next]_vars => CmdlineMeasured'
<1> SUFFICES ASSUME Types, CmdlineMeasured, [Next]_vars PROVE CmdlineMeasured'
  OBVIOUS
<1>0. InputTypes /\ MeasureTypes
  BY DEF Types
<1> USE DEF inputs, Works, Fails
<1>1. CASE GetCmdline
  <2>1. /\ pc = "cmdline" /\ pc' = "kernel" /\ tpm' = tpm /\ pcr[4] = <<>>
        /\ pcr \in [{4, 11, 12, 13} -> Seq(Logged)] /\ failures \in Nat
    BY <1>0, <1>1 DEF GetCmdline, Step, CmdlineMeasured, MeasureTypes
  <2>2. CASE pcr' = pcr /\ cmdline' = Embedded
    BY <2>1, <2>2 DEF CmdlineMeasured
  <2>3. CASE OtherOptions /\ pcr' = [pcr EXCEPT ![4] = Append(@, passed)] /\ cmdline' = passed
    <3>1. passed # Embedded /\ pcr'[4] = Append(pcr[4], passed)
      BY <2>1, <2>3 DEF OtherOptions
    <3>2. Append(<<>>, passed) = <<passed>>
      OBVIOUS
    <3> QED  BY <2>1, <2>3, <3>1, <3>2 DEF CmdlineMeasured
  <2>4. CASE ~TpmAvailable
    BY <2>1, <2>4 DEF CmdlineMeasured, TpmAvailable, AfterCmdline
  <2>5. CASE tpm = "may_vanish" /\ failures' = failures + 1
    BY <2>1, <2>5 DEF CmdlineMeasured, AfterCmdline
  <2> QED  BY <1>1, <2>2, <2>3, <2>4, <2>5 DEF GetCmdline, MeasureCmdline
<1>2. CASE Measure
  <2>1. pcr'[4] = pcr[4] /\ pc' = pc /\ pc \in {"measure", "companions"}
    BY <1>0, <1>2, MeasureFacts DEF Measure, Measurement
  <2> QED  BY <2>1 DEF CmdlineMeasured, AfterCmdline
<1>3. CASE LoadFromPe \/ LoadFails \/ MeasureDone \/ ExportEfiVariables \/ FindDropin
           \/ DiscoverCredentials \/ DiscoverSysExts
  <2>1. /\ pcr' = pcr /\ pc' \notin AfterCmdline
        /\ pc \in {"load", "measure", "export", "dropin", "credentials", "sysexts", "companions"}
    BY <1>3 DEF LoadFromPe, LoadFails, MeasureDone, ExportEfiVariables, FindDropin,
       DiscoverCredentials, DiscoverSysExts, Step, AfterCmdline
  <2> QED  BY <2>1 DEF CmdlineMeasured
<1>4. CASE LoadKernel \/ Register \/ StartKernel \/ KernelDoes \/ Uninstall
           \/ \E size \in 0..(Len(InitrdPieces) + 1) : LoadFile(size)
  <2>1. /\ UNCHANGED <<pcr, tpm, cmdline>>
        /\ pc \in AfterCmdline \/ pc' \notin AfterCmdline
        /\ pc' \in AfterCmdline \cup {"halted", "returned", "kernel_returned", "exited"}
        /\ failures' = failures \/ failures' = failures + 1
    BY <1>4 DEF LoadKernel, Register, StartKernel, KernelDoes, Uninstall, LoadFile, Step,
       AfterCmdline
  <2>2. failures' = 0 => failures = 0
    BY <1>0, <2>1 DEF MeasureTypes
  <2> QED  BY <2>1, <2>2 DEF CmdlineMeasured, AfterCmdline, TpmAvailable
<1>5. CASE UNCHANGED vars
  BY <1>5 DEF vars, CmdlineMeasured, TpmAvailable
<1> QED  BY <1>1, <1>2, <1>3, <1>4, <1>5 DEF Next

\* PCR 4 tells which command line was chosen.
LEMMA CmdlineMeasuredHolds == Spec => []CmdlineMeasured
<1>1. Init => CmdlineMeasured
  BY DEF Init, CmdlineMeasured, AfterCmdline
<1> QED  BY <1>1, CmdlineMeasuredNext, TypesHold, PTL DEF Spec

\* With a TPM that can always be opened a custom command line runs only if it
\* was measured (get_cmdline, measure_boot_loader).
THEOREM CustomCmdlineMeasuredByTpmHolds == Spec => []CustomCmdlineMeasuredByTpm
<1>1. BootInvariant /\ CmdlineMeasured => CustomCmdlineMeasuredByTpm
  BY DEF BootInvariant, CmdlineMeasured, CustomCmdlineMeasuredByTpm, Running, AfterCmdline
<1> QED  BY <1>1, BootInvariantHolds, CmdlineMeasuredHolds, PTL

-----------------------------------------------------------------------------
(* The variables that announce measurements.                               *)

\* What the loop has counted is in a PCR, if the TPM can be opened.
CountedMeasured ==
  tpm # "may_vanish" =>
    /\ \A i \in measured : Len(pcr[i]) > 0
    /\ \A i \in {11, 12, 13} : PcrVariable(i) \in efivars => Len(pcr[i]) > 0

\* The variables of two PCRs have different names, none that another step sets.
LEMMA VariableNames ==
  /\ \A i, j \in {11, 12, 13} : PcrVariable(i) = PcrVariable(j) => i = j
  /\ \A i \in {11, 12, 13} : PcrVariable(i) \notin {"LoaderDevicePartUUID", "StubInfo"}
<1>1. /\ PcrVariable(11) = "StubPcrKernelImage" /\ PcrVariable(12) = "StubPcrKernelParameters"
      /\ PcrVariable(13) = "StubPcrInitRDSysExts"
  BY DEF PcrVariable
<1> QED  BY <1>1

\* PCRs only grow, and the loops count what they have logged.
LEMMA CountedMeasuredNext == Types /\ CountedMeasured /\ [Next]_vars => CountedMeasured'
<1> SUFFICES ASSUME Types, CountedMeasured, [Next]_vars, tpm' # "may_vanish"
             PROVE  /\ \A i \in measured' : Len(pcr'[i]) > 0
                    /\ \A i \in {11, 12, 13} : PcrVariable(i) \in efivars' => Len(pcr'[i]) > 0
  BY DEF CountedMeasured, PcrVariable
<1>0. /\ InputTypes /\ MeasureTypes /\ measured \subseteq {11, 12, 13}
      /\ pcr \in [{4, 11, 12, 13} -> Seq(Logged)]
  BY DEF Types, MeasureTypes
<1>i. tpm' = tpm
  BY DEF Next, LoadFromPe, LoadFails, Measure, MeasureDone, ExportEfiVariables, FindDropin,
     DiscoverCredentials, DiscoverSysExts, GetCmdline, LoadKernel, Register, StartKernel,
     LoadFile, KernelDoes, Uninstall, vars, inputs
<1>c. /\ \A i \in measured : Len(pcr[i]) > 0
      /\ \A i \in {11, 12, 13} : PcrVariable(i) \in efivars => Len(pcr[i]) > 0
  BY <1>i DEF CountedMeasured
<1>1. CASE Measure
  <2>1. PICK m \in Measurement :
           /\ \A j \in {4, 11, 12, 13} \ {m.pcr} : pcr'[j] = pcr[j]
           /\ \/ /\ measured' = measured \cup {m.pcr}
                 /\ Len(pcr'[m.pcr]) = Len(pcr[m.pcr]) + 1
              \/ pcr' = pcr /\ measured' = measured
    BY <1>0, <1>1, <1>i, MeasureFacts
  <2>2. m.pcr \in {11, 12, 13} /\ efivars' = efivars
    BY <1>1 DEF Measurement, Measure
  <2>3. CASE pcr' = pcr /\ measured' = measured
    BY <1>c, <2>2, <2>3
  <2>4. CASE measured' = measured \cup {m.pcr} /\ Len(pcr'[m.pcr]) = Len(pcr[m.pcr]) + 1
    <3>1. Len(pcr[m.pcr]) \in Nat
      BY <1>0, <2>2
    <3>2. Len(pcr'[m.pcr]) > 0
      BY <2>4, <3>1
    <3> QED  BY <1>0, <1>c, <2>1, <2>2, <2>4, <3>2
  <2> QED  BY <2>1, <2>3, <2>4
<1>2. CASE MeasureDone
  <2>1. /\ measured' = {} /\ pcr' = pcr
        /\ efivars' \subseteq efivars \cup {PcrVariable(i) : i \in measured}
    BY <1>2 DEF MeasureDone
  <2>2. \A i \in {11, 12, 13} : PcrVariable(i) \in efivars' => PcrVariable(i) \in efivars \/ i \in measured
    <3> SUFFICES ASSUME NEW i \in {11, 12, 13}, PcrVariable(i) \in efivars',
                        PcrVariable(i) \notin efivars
                 PROVE  i \in measured
      OBVIOUS
    <3>1. PICK j \in measured : PcrVariable(i) = PcrVariable(j)
      BY <2>1
    <3>2. i = j
      BY <1>0, <3>1, VariableNames
    <3> QED  BY <3>2
  <2> QED  BY <1>c, <2>1, <2>2
<1>3. CASE ExportEfiVariables
  <2>1. /\ measured' = measured /\ pcr' = pcr
        /\ efivars' \subseteq efivars \cup {"LoaderDevicePartUUID", "StubInfo"}
    BY <1>3 DEF ExportEfiVariables
  <2> QED  BY <1>c, <2>1, VariableNames
<1>4. CASE GetCmdline
  <2>1. UNCHANGED <<measured, efivars>> /\ (pcr' = pcr \/ pcr' = [pcr EXCEPT ![4] = Append(@, passed)])
    BY <1>4 DEF GetCmdline, MeasureCmdline
  <2>2. \A i \in {11, 12, 13} : pcr'[i] = pcr[i]
    BY <1>0, <2>1
  <2> QED  BY <1>0, <1>c, <2>1, <2>2
<1>5. CASE \/ LoadFromPe \/ LoadFails \/ FindDropin \/ DiscoverCredentials \/ DiscoverSysExts
           \/ LoadKernel \/ Register \/ StartKernel \/ KernelDoes \/ Uninstall \/ UNCHANGED vars
           \/ \E size \in 0..(Len(InitrdPieces) + 1) : LoadFile(size)
  <2>1. UNCHANGED <<measured, pcr, efivars>>
    BY <1>5 DEF LoadFromPe, LoadFails, FindDropin, DiscoverCredentials, DiscoverSysExts,
       LoadKernel, Register, StartKernel, KernelDoes, Uninstall, LoadFile, vars
  <2> QED  BY <1>c, <2>1
<1> QED  BY <1>1, <1>2, <1>3, <1>4, <1>5 DEF Next

\* The variables that tell user space where measurements are do not announce a
\* PCR nothing was measured into (measure_image, measure_companion_initrds).
THEOREM VariablesTruthfulHolds == Spec => []VariablesTruthful
<1>1. Init => CountedMeasured
  <2> SUFFICES ASSUME Init PROVE CountedMeasured
    OBVIOUS
  <2>1. measured = {} /\ efivars \subseteq {"LoaderDevicePartUUID"}
    BY DEF Init
  <2> QED  BY <2>1, VariableNames DEF CountedMeasured
<1>2. CountedMeasured => VariablesTruthful
  BY DEF CountedMeasured, VariablesTruthful
<1> QED  BY <1>1, <1>2, CountedMeasuredNext, TypesHold, PTL DEF Spec

-----------------------------------------------------------------------------
(* What the PCRs hold when nothing fails: what is measured already and what *)
(* is in the queue are together what will run.                              *)

\* What measure_image measures of the image that runs.
ImageData == ImageMeasurements(kernel_data, initrd_data)

\* The sections to measure depend on the section table only.
LEMMA SameSections == ASSUME UNCHANGED layout PROVE SectionsToMeasure' = SectionsToMeasure
  BY DEF SectionsToMeasure, UpTo

\* It does not change while the files in memory stay.
LEMMA SameImage ==
  ASSUME UNCHANGED <<layout, kernel_data, initrd_data>>
  PROVE  ImageData' = ImageData
<1>1. SectionsToMeasure' = SectionsToMeasure
  BY SameSections
<1> QED  BY <1>1 DEF ImageData, ImageMeasurements

\* PCR 11 and the queue of measure_image.
ImageProgress ==
  /\ Len(pcr[11]) + Len(queue) = Len(ImageData)
  /\ \A i \in 1..Len(pcr[11]) : pcr[11][i] = ImageData[i].data
  /\ \A i \in 1..Len(queue) :
       queue[i].pcr = 11 /\ queue[i].data = ImageData[Len(pcr[11]) + i].data

\* PCR 11 after measure_image.
ImageMeasured ==
  /\ Len(pcr[11]) = Len(ImageData)
  /\ \A i \in 1..Len(ImageData) : pcr[11][i] = ImageData[i].data

\* PCR 12, PCR 13 and the queue of measure_companion_initrds; credentials come
\* before extensions.
CompanionProgress ==
  /\ Len(pcr[12]) + Len(pcr[13]) + Len(queue) = Len(companions)
  /\ \A i \in 1..Len(pcr[12]) :
       pcr[12][i] = companions[i] /\ companions[i].type # "SystemExtension"
  /\ \A i \in 1..Len(pcr[13]) :
       /\ pcr[13][i] = companions[Len(pcr[12]) + i]
       /\ companions[Len(pcr[12]) + i].type = "SystemExtension"
  /\ \A i \in 1..Len(queue) :
       /\ queue[i].data = companions[Len(pcr[12]) + Len(pcr[13]) + i]
       /\ queue[i].pcr = CompanionPcr(companions[Len(pcr[12]) + Len(pcr[13]) + i].type)
  /\ \A i, j \in 1..Len(companions) :
       i < j /\ companions[i].type = "SystemExtension" => companions[j].type = "SystemExtension"

\* How far the measurements are, as long as nothing has failed.
Progress ==
  TpmAvailable /\ failures = 0 =>
    /\ pc = "load" => Len(pcr[11]) = 0
    /\ pc = "measure" => ImageProgress
    /\ pc \in {"export", "dropin", "credentials", "sysexts", "companions", "cmdline"}
         \cup AfterCmdline => ImageMeasured
    /\ pc \in {"load", "measure", "export", "dropin", "credentials", "sysexts"} =>
         Len(pcr[12]) = 0 /\ Len(pcr[13]) = 0
    /\ pc \in {"load", "measure", "export", "dropin", "credentials"} => Len(companions) = 0
    /\ pc = "sysexts" =>
         \A i \in 1..Len(companions) : companions[i].type # "SystemExtension"
    /\ pc \in {"companions", "cmdline"} \cup AfterCmdline => CompanionProgress

\* t is s and one more element.
Extends(s, t, x) ==
  Len(t) = Len(s) + 1 /\ (\A i \in 1..Len(s) : t[i] = s[i]) /\ t[Len(s) + 1] = x

\* A measurement that works.
LEMMA MeasureWorks ==
  ASSUME MeasureTypes, Measure, failures' = failures
  PROVE  /\ Len(queue) \in Nat /\ Len(queue) > 0 /\ Len(queue') = Len(queue) - 1
         /\ \A i \in 1..Len(queue') : queue'[i] = queue[i + 1]
         /\ \A j \in {11, 12, 13} :
              /\ Len(pcr[j]) \in Nat
              /\ queue[1].pcr = j => Extends(pcr[j], pcr'[j], queue[1].data)
              /\ queue[1].pcr # j => pcr'[j] = pcr[j]
         /\ UNCHANGED <<layout, kernel_data, initrd_data, companions, pc>>
<1>1. PICK m \in Measurement :
        /\ Len(queue) > 0 /\ m = queue[1] /\ queue' \in Seq(Measurement)
        /\ Len(queue') = Len(queue) - 1
        /\ \A i \in 1..Len(queue') : queue'[i] = queue[i + 1]
        /\ \A j \in {4, 11, 12, 13} \ {m.pcr} : pcr'[j] = pcr[j]
        /\ Extends(pcr[m.pcr], pcr'[m.pcr], m.data)
  <2>1. failures + 1 # failures
    BY DEF MeasureTypes
  <2> QED  BY <2>1, MeasureFacts DEF Extends
<1>2. Len(queue) \in Nat /\ \A j \in {11, 12, 13} : Len(pcr[j]) \in Nat
  BY DEF MeasureTypes
<1>3. UNCHANGED <<layout, kernel_data, initrd_data, companions, pc>>
  BY DEF Measure, inputs
<1> QED  BY <1>1, <1>2, <1>3

\* measure_image makes its next measurement.
LEMMA ImageProgressStep ==
  ASSUME MeasureTypes, Measure, ImageProgress, failures' = failures
  PROVE  /\ ImageProgress' /\ pcr'[12] = pcr[12] /\ pcr'[13] = pcr[13]
<1>1. PICK l \in Nat, q \in Nat : l = Len(pcr[11]) /\ q = Len(queue) /\ q > 0 /\ l + q = Len(ImageData)
  BY MeasureWorks DEF ImageProgress
<1>n. PICK n \in Nat : n = Len(ImageData) /\ q > 0 /\ l + q = n
  BY <1>1
<1>2. ImageData' = ImageData
  BY MeasureWorks, SameImage
<1>3. 1 \in 1..q
  BY <1>n
<1>4. queue[1].pcr = 11 /\ queue[1].data = ImageData[l + 1].data
  BY <1>1, <1>3 DEF ImageProgress
<1>5. /\ Extends(pcr[11], pcr'[11], ImageData[l + 1].data)
      /\ pcr'[12] = pcr[12] /\ pcr'[13] = pcr[13]
  BY <1>4, MeasureWorks
<1>6. /\ Len(pcr'[11]) = l + 1 /\ (\A i \in 1..l : pcr'[11][i] = pcr[11][i])
      /\ pcr'[11][l + 1] = ImageData[l + 1].data
  BY <1>1, <1>5 DEF Extends
<1>7. Len(queue') = q - 1 /\ \A i \in 1..(q - 1) : queue'[i] = queue[i + 1]
  BY <1>1, MeasureWorks
<1>8. \A i \in 1..(l + 1) : pcr'[11][i] = ImageData[i].data
  <2>1. \A i \in 1..l : pcr'[11][i] = ImageData[i].data
    BY <1>1, <1>6 DEF ImageProgress
  <2>2. \A i \in 1..(l + 1) : i \in 1..l \/ i = l + 1
    OBVIOUS
  <2> QED  BY <1>6, <2>1, <2>2
<1>9. \A i \in 1..(q - 1) : queue'[i].pcr = 11 /\ queue'[i].data = ImageData[(l + 1) + i].data
  <2> SUFFICES ASSUME NEW i \in 1..(q - 1)
               PROVE  queue'[i].pcr = 11 /\ queue'[i].data = ImageData[(l + 1) + i].data
    OBVIOUS
  <2>1. i + 1 \in 1..q /\ l + (i + 1) = (l + 1) + i
    BY <1>n
  <2>2. \A k \in 1..q : queue[k].pcr = 11 /\ queue[k].data = ImageData[l + k].data
    BY <1>1 DEF ImageProgress
  <2>3. queue[i + 1].pcr = 11 /\ queue[i + 1].data = ImageData[l + (i + 1)].data
    BY <2>1, <2>2
  <2> QED  BY <1>7, <2>1, <2>3
<1>10. (l + 1) + (q - 1) = n
  BY <1>n
<1> QED  BY <1>n, <1>2, <1>5, <1>6, <1>7, <1>8, <1>9, <1>10 DEF ImageProgress

\* measure_companion_initrds makes its next measurement.
LEMMA CompanionProgressStep ==
  ASSUME MeasureTypes, Measure, CompanionProgress, failures' = failures
  PROVE  CompanionProgress' /\ pcr'[11] = pcr[11]
<1>0. Len(companions) \in Nat /\ companions' = companions
  BY MeasureWorks DEF MeasureTypes
<1>1. PICK a \in Nat, b \in Nat, q \in Nat, n \in Nat :
        /\ a = Len(pcr[12]) /\ b = Len(pcr[13]) /\ q = Len(queue) /\ n = Len(companions)
        /\ q > 0 /\ a + b + q = n
  <2>1. Len(pcr[12]) \in Nat /\ Len(pcr[13]) \in Nat /\ Len(queue) \in Nat /\ Len(queue) > 0
    BY MeasureWorks
  <2>2. Len(pcr[12]) + Len(pcr[13]) + Len(queue) = Len(companions)
    BY DEF CompanionProgress
  <2> QED  BY <1>0, <2>1, <2>2
<1>n. q > 0 /\ a + b + q = n
  BY <1>1
<1>2. /\ \A i \in 1..a : pcr[12][i] = companions[i] /\ companions[i].type # "SystemExtension"
      /\ \A i \in 1..b : /\ pcr[13][i] = companions[a + i]
                        /\ companions[a + i].type = "SystemExtension"
      /\ \A i \in 1..q : /\ queue[i].data = companions[a + b + i]
                        /\ queue[i].pcr = CompanionPcr(companions[a + b + i].type)
      /\ \A i, j \in 1..n :
           i < j /\ companions[i].type = "SystemExtension" => companions[j].type = "SystemExtension"
  BY <1>1 DEF CompanionProgress
<1>3. Len(queue') = q - 1 /\ \A i \in 1..(q - 1) : queue'[i] = queue[i + 1]
  BY <1>1, MeasureWorks
<1>4. \A i \in 1..(q - 1) :
        /\ queue'[i].data = companions[(a + b + 1) + i]
        /\ queue'[i].pcr = CompanionPcr(companions[(a + b + 1) + i].type)
  <2>1. \A i \in 1..(q - 1) : i + 1 \in 1..q /\ a + b + (i + 1) = (a + b + 1) + i
    BY <1>n
  <2> SUFFICES ASSUME NEW i \in 1..(q - 1)
               PROVE  /\ queue'[i].data = companions[(a + b + 1) + i]
                      /\ queue'[i].pcr = CompanionPcr(companions[(a + b + 1) + i].type)
    OBVIOUS
  <2>2. companions[a + b + (i + 1)] = companions[(a + b + 1) + i] /\ queue'[i] = queue[i + 1]
    BY <1>3, <2>1
  <2>3. /\ queue[i + 1].data = companions[a + b + (i + 1)]
        /\ queue[i + 1].pcr = CompanionPcr(companions[a + b + (i + 1)].type)
    BY <1>2, <2>1
  <2> QED  BY <2>2, <2>3
<1>5. queue[1].data = companions[a + b + 1] /\ queue[1].pcr = CompanionPcr(companions[a + b + 1].type)
  <2>1. 1 \in 1..q
    BY <1>n
  <2> QED  BY <1>2, <2>1
<1>6. (a + b + 1) + (q - 1) = n /\ a + b + 1 \in 1..n
  BY <1>n
<1>7. CASE companions[a + b + 1].type = "SystemExtension"
  <2>1. /\ Extends(pcr[13], pcr'[13], companions[a + b + 1])
        /\ pcr'[12] = pcr[12] /\ pcr'[11] = pcr[11]
    BY <1>5, <1>7, MeasureWorks DEF CompanionPcr
  <2>2. /\ Len(pcr'[13]) = b + 1 /\ Len(pcr'[12]) = a
        /\ \A i \in 1..b : pcr'[13][i] = pcr[13][i]
        /\ pcr'[13][b + 1] = companions[a + b + 1]
    BY <1>1, <2>1 DEF Extends
  <2>3. \A i \in 1..(b + 1) : i \in 1..b \/ (i = b + 1 /\ a + i = a + b + 1)
    BY <1>n
  <2>4. \A i \in 1..(b + 1) : /\ pcr'[13][i] = companions[a + i]
                              /\ companions[a + i].type = "SystemExtension"
    BY <1>2, <1>7, <2>2, <2>3
  <2>5. a + (b + 1) = a + b + 1
    BY <1>n
  <2>6. /\ Len(pcr'[12]) + Len(pcr'[13]) = a + b + 1
        /\ Len(pcr'[12]) + Len(pcr'[13]) + Len(queue') = Len(companions')
    BY <1>0, <1>1, <1>3, <1>6, <2>2, <2>5
  <2>7. /\ \A i \in 1..Len(pcr'[13]) : /\ pcr'[13][i] = companions'[Len(pcr'[12]) + i]
                                       /\ companions'[Len(pcr'[12]) + i].type = "SystemExtension"
        /\ \A i \in 1..Len(pcr'[12]) : /\ pcr'[12][i] = companions'[i]
                                       /\ companions'[i].type # "SystemExtension"
    BY <1>0, <1>2, <2>1, <2>2, <2>4
  <2>8. \A i \in 1..Len(queue') :
          /\ queue'[i].data = companions'[Len(pcr'[12]) + Len(pcr'[13]) + i]
          /\ queue'[i].pcr = CompanionPcr(companions'[Len(pcr'[12]) + Len(pcr'[13]) + i].type)
    BY <1>0, <1>3, <1>4, <2>6
  <2> QED  BY <1>0, <1>1, <1>2, <2>1, <2>6, <2>7, <2>8 DEF CompanionProgress
<1>8. CASE companions[a + b + 1].type # "SystemExtension"
  <2>1. /\ Extends(pcr[12], pcr'[12], companions[a + b + 1])
        /\ pcr'[13] = pcr[13] /\ pcr'[11] = pcr[11]
    BY <1>5, <1>8, MeasureWorks DEF CompanionPcr
  <2>2. b = 0
    <3> SUFFICES ASSUME b # 0 PROVE FALSE
      OBVIOUS
    <3>1. 1 \in 1..b /\ a + 1 \in 1..n /\ a + 1 < a + b + 1
      BY <1>n
    <3> QED  BY <1>2, <1>6, <1>8, <3>1
  <2>3. a + b + 1 = a + 1
    BY <1>n, <2>2
  <2>4. /\ Len(pcr'[12]) = a + 1 /\ Len(pcr'[13]) = 0
        /\ \A i \in 1..a : pcr'[12][i] = pcr[12][i]
        /\ pcr'[12][a + 1] = companions[a + 1]
    BY <1>1, <2>1, <2>2, <2>3 DEF Extends
  <2>5. \A i \in 1..(a + 1) : i \in 1..a \/ i = a + 1
    BY <1>n
  <2>6. \A i \in 1..(a + 1) : pcr'[12][i] = companions[i] /\ companions[i].type # "SystemExtension"
    BY <1>2, <1>8, <2>3, <2>4, <2>5
  <2>7. (a + 1) + 0 = a + b + 1 /\ 1..0 = {}
    BY <1>n, <2>2
  <2> QED  BY <1>0, <1>1, <1>2, <1>3, <1>4, <1>6, <2>1, <2>4, <2>6, <2>7 DEF CompanionProgress
<1> QED  BY <1>7, <1>8

\* Every step keeps what is measured in line with what will run.
LEMMA ProgressNext == BootInvariant /\ Types /\ Progress /\ [Next]_vars => Progress'
<1> SUFFICES ASSUME BootInvariant, Types, Progress, [Next]_vars, TpmAvailable', failures' = 0
             PROVE  Progress'
  BY DEF Progress
<1>0. InputTypes /\ MeasureTypes /\ failures \in Nat
  BY DEF Types, MeasureTypes
<1>i. UNCHANGED <<tpm, layout>> /\ layout \in Layouts
  BY <1>0 DEF Next, LoadFromPe, LoadFails, Measure, MeasureDone, ExportEfiVariables, FindDropin,
     DiscoverCredentials, DiscoverSysExts, GetCmdline, LoadKernel, Register, StartKernel,
     LoadFile, KernelDoes, Uninstall, vars, inputs, InputTypes
<1>f. failures = 0 /\ ~Fails
  <2>1. failures' = failures \/ failures' = failures + 1
    BY DEF Next, LoadFromPe, LoadFails, Measure, MeasureDone, ExportEfiVariables, FindDropin,
       DiscoverCredentials, DiscoverSysExts, GetCmdline, MeasureCmdline, LoadKernel, Register,
       StartKernel, LoadFile, KernelDoes, Uninstall, vars, Works, Fails
  <2> QED  BY <1>0, <2>1 DEF Fails
<1>t. TpmAvailable
  BY <1>i DEF TpmAvailable
<1>1. CASE LoadFromPe
  <2>1. /\ pc = "load" /\ pc' = "measure" /\ UNCHANGED <<pcr, companions>>
        /\ kernel_data' = Kernel /\ initrd_data' = Initrd
        /\ queue' = ImageMeasurements(Kernel, Initrd)
    BY <1>1, <1>t DEF LoadFromPe, Step, CheckHash
  <2>2. Kernel \in Logged /\ Initrd \in Logged
    BY DEF Logged
  <2>3. ImageData' = ImageMeasurements(Kernel, Initrd)
    <3>1. SectionsToMeasure' = SectionsToMeasure
      BY <1>i, SameSections
    <3> QED  BY <2>1, <3>1 DEF ImageData, ImageMeasurements
  <2>4. PICK n \in Nat : /\ n = Len(queue') /\ n = Len(ImageData')
                         /\ \A j \in 1..n : queue'[j].pcr = 11 /\ queue'[j].data = ImageData'[j].data
    BY <1>i, <2>1, <2>2, <2>3, ImagePlan
  <2>5. Len(pcr[11]) = 0 /\ Len(pcr[12]) = 0 /\ Len(pcr[13]) = 0 /\ Len(companions) = 0
    BY <1>f, <1>t, <2>1 DEF Progress
  <2>6. ImageProgress'
    <3>1. (\A j \in 1..n : 0 + j = j) /\ 1..0 = {} /\ 0 + n = n
      OBVIOUS
    <3> QED  BY <2>1, <2>4, <2>5, <3>1 DEF ImageProgress
  <2> QED  BY <2>1, <2>5, <2>6 DEF Progress, AfterCmdline
<1>2. CASE Measure /\ pc = "measure"
  <2>1. ImageProgress /\ Len(pcr[12]) = 0 /\ Len(pcr[13]) = 0 /\ Len(companions) = 0
    BY <1>f, <1>t, <1>2 DEF Progress
  <2>2. ImageProgress' /\ pcr'[12] = pcr[12] /\ pcr'[13] = pcr[13]
    BY <1>0, <1>2, <1>f, <2>1, ImageProgressStep
  <2>3. companions' = companions /\ pc' = "measure"
    BY <1>2 DEF Measure
  <2> QED  BY <2>1, <2>2, <2>3 DEF Progress, AfterCmdline
<1>3. CASE Measure /\ pc = "companions"
  <2>1. CompanionProgress /\ ImageMeasured
    BY <1>f, <1>t, <1>3 DEF Progress
  <2>2. CompanionProgress' /\ pcr'[11] = pcr[11]
    BY <1>0, <1>3, <1>f, <2>1, CompanionProgressStep
  <2>3. pc' = "companions" /\ ImageMeasured'
    BY <1>i, <1>3, <2>1, <2>2, SameImage DEF Measure, ImageMeasured
  <2> QED  BY <2>2, <2>3 DEF Progress, AfterCmdline
<1>4. CASE MeasureDone /\ pc = "measure"
  <2>1. /\ pc' = "export" /\ queue = <<>>
        /\ UNCHANGED <<pcr, companions, queue, kernel_data, initrd_data>>
    BY <1>4 DEF MeasureDone, Step
  <2>2. ImageProgress /\ Len(pcr[12]) = 0 /\ Len(pcr[13]) = 0 /\ Len(companions) = 0
    BY <1>f, <1>t, <1>4 DEF Progress
  <2>3. Len(queue) = 0 /\ Len(pcr[11]) \in Nat
    BY <1>0, <2>1 DEF MeasureTypes
  <2>4. Len(pcr[11]) = Len(ImageData)
    <3>1. Len(pcr[11]) + 0 = Len(pcr[11])
      BY <2>3
    <3> QED  BY <2>2, <2>3, <3>1 DEF ImageProgress
  <2>5. ImageMeasured'
    BY <1>i, <2>1, <2>2, <2>4, SameImage DEF ImageProgress, ImageMeasured
  <2> QED  BY <2>1, <2>2, <2>5 DEF Progress, AfterCmdline
<1>5. CASE \/ MeasureDone /\ pc # "measure"
           \/ ExportEfiVariables \/ FindDropin \/ LoadKernel \/ Register \/ StartKernel \/ Uninstall
           \/ KernelDoes \/ \E size \in 0..(Len(InitrdPieces) + 1) : LoadFile(size)
  <2>1. /\ UNCHANGED <<pcr, companions, queue, kernel_data, initrd_data>>
        /\ \/ pc = "export" /\ pc' = "dropin"
           \/ pc = "dropin" /\ pc' = "credentials"
           \/ pc \in {"companions"} \cup AfterCmdline /\ pc' \in {"cmdline"} \cup AfterCmdline
           \/ pc' \in {"halted", "returned", "kernel_returned", "exited"}
    <3>1. CASE MeasureDone /\ pc # "measure"
      BY <3>1 DEF MeasureDone, Step
    <3>2. CASE ExportEfiVariables
      BY <3>2 DEF ExportEfiVariables, Step
    <3>5. CASE FindDropin
      BY <1>f, <3>5 DEF FindDropin, Step
    <3>3. CASE LoadKernel \/ Register \/ StartKernel \/ Uninstall
      BY <3>3 DEF LoadKernel, Register, StartKernel, Uninstall, Step, AfterCmdline
    <3>4. CASE KernelDoes \/ \E size \in 0..(Len(InitrdPieces) + 1) : LoadFile(size)
      BY <3>4 DEF KernelDoes, LoadFile, Step, AfterCmdline
    <3> QED  BY <1>5, <3>1, <3>2, <3>3, <3>4, <3>5
  <2>2. /\ (ImageMeasured => ImageMeasured') /\ (CompanionProgress => CompanionProgress')
    BY <1>i, <2>1, SameImage DEF ImageMeasured, CompanionProgress
  <2> QED  BY <1>f, <1>t, <2>1, <2>2 DEF Progress, AfterCmdline
<1>6. CASE DiscoverCredentials
  <2>1. /\ pc = "credentials" /\ pc' = "sysexts"
        /\ UNCHANGED <<pcr, kernel_data, initrd_data>>
    BY <1>6, <1>f DEF DiscoverCredentials
  <2>2. ImageMeasured /\ Len(pcr[12]) = 0 /\ Len(pcr[13]) = 0 /\ Len(companions) = 0
    BY <1>f, <1>t, <2>1 DEF Progress
  <2>3. \A j \in 1..Len(companions') : companions'[j].type # "SystemExtension"
    BY <1>0, <1>6, <2>2, CredentialsFound
  <2>4. ImageMeasured'
    BY <1>i, <2>1, <2>2, SameImage DEF ImageMeasured
  <2> QED  BY <2>1, <2>2, <2>3, <2>4 DEF Progress, AfterCmdline
<1>7. CASE DiscoverSysExts
  <2>1. /\ pc = "sysexts" /\ pc' = "companions" /\ UNCHANGED <<pcr, kernel_data, initrd_data>>
    BY <1>7, <1>f, <1>t DEF DiscoverSysExts
  <2>2. /\ ImageMeasured /\ Len(pcr[12]) = 0 /\ Len(pcr[13]) = 0
        /\ \A j \in 1..Len(companions) : companions[j].type # "SystemExtension"
    BY <1>f, <1>t, <2>1 DEF Progress
  <2>3. /\ Len(queue') = Len(companions')
        /\ \A j \in 1..Len(companions') : /\ queue'[j].pcr = CompanionPcr(companions'[j].type)
                                         /\ queue'[j].data = companions'[j]
    BY <1>0, <1>7, <2>1, CompanionQueue
  <2>4. PICK l \in Nat, n \in Nat : l = Len(companions) /\ n = Len(companions') /\ l <= n
    BY <1>0, <1>7, SysExtsFound DEF MeasureTypes
  <2>5. \A j \in 1..n : IF j <= l THEN companions'[j].type # "SystemExtension"
                                  ELSE companions'[j].type = "SystemExtension"
    <3>1. /\ \A j \in 1..l : companions'[j] = companions[j]
          /\ \A j \in (l + 1)..n : companions'[j].type = "SystemExtension"
      BY <1>0, <1>7, <2>4, SysExtsFound
    <3>2. \A j \in 1..n : (j <= l => j \in 1..l) /\ (~(j <= l) => j \in (l + 1)..n)
      OBVIOUS
    <3> QED  BY <2>2, <2>4, <3>1, <3>2
  <2>6. \A j, h \in 1..n : j < h /\ companions'[j].type = "SystemExtension" =>
          companions'[h].type = "SystemExtension"
    <3>1. \A j, h \in 1..n : j < h /\ ~(j <= l) => ~(h <= l)
      OBVIOUS
    <3> QED  BY <2>5, <3>1
  <2>7. /\ Len(pcr'[12]) = 0 /\ Len(pcr'[13]) = 0
        /\ \A j \in 1..n : 0 + 0 + j = j
        /\ 0 + 0 + n = n /\ 1..0 = {}
    BY <2>1, <2>2
  <2>8. CompanionProgress'
    BY <2>3, <2>4, <2>6, <2>7 DEF CompanionProgress
  <2>9. ImageMeasured'
    BY <1>i, <2>1, <2>2, SameImage DEF ImageMeasured
  <2> QED  BY <2>1, <2>8, <2>9 DEF Progress, AfterCmdline
<1>8. CASE GetCmdline
  <2>1. /\ pc = "cmdline" /\ pc' = "kernel"
        /\ UNCHANGED <<companions, queue, kernel_data, initrd_data>>
        /\ pcr' = pcr \/ pcr' = [pcr EXCEPT ![4] = Append(@, passed)]
    BY <1>8 DEF GetCmdline, MeasureCmdline, Step
  <2>2. pcr'[11] = pcr[11] /\ pcr'[12] = pcr[12] /\ pcr'[13] = pcr[13]
    BY <1>0, <2>1 DEF MeasureTypes
  <2>3. ImageMeasured /\ CompanionProgress
    BY <1>f, <1>t, <2>1 DEF Progress
  <2>4. ImageMeasured'
    BY <1>i, <2>1, <2>2, <2>3, SameImage DEF ImageMeasured
  <2>5. CompanionProgress'
    BY <2>1, <2>2, <2>3 DEF CompanionProgress
  <2> QED  BY <2>1, <2>4, <2>5 DEF Progress, AfterCmdline
<1>9. CASE LoadFails
  BY <1>9 DEF LoadFails, Step, Progress, AfterCmdline
<1>10. CASE UNCHANGED vars
  <2>1. ImageData' = ImageData
    BY <1>10, SameImage DEF vars
  <2> QED  BY <1>10, <2>1 DEF vars, Progress, TpmAvailable, ImageProgress, ImageMeasured,
              CompanionProgress
<1> QED
  BY <1>1, <1>2, <1>3, <1>4, <1>5, <1>6, <1>7, <1>8, <1>9, <1>10 DEF Next, Measure

\* With a TPM that does its work the PCRs describe exactly what runs: all the
\* measured sections of any image in canonical order, the companions in the order the kernel gets them,
\* and a command line that is not the embedded one.
THEOREM MeasuredAsRunHolds == Spec => []MeasuredAsRun
<1>1. Init => Progress
  BY DEF Init, Progress, AfterCmdline
<1>2. BootInvariant /\ Types /\ CmdlineMeasured /\ Progress => MeasuredAsRun
  <2> SUFFICES ASSUME BootInvariant, Types, CmdlineMeasured, Progress,
                      Running, TpmAvailable, failures = 0
               PROVE  /\ ImageMeasuredAsRun /\ companions = pcr[12] \o pcr[13]
                      /\ \A i \in 1..Len(pcr[12]) : pcr[12][i].type # "SystemExtension"
                      /\ \A i \in 1..Len(pcr[13]) : pcr[13][i].type = "SystemExtension"
                      /\ pcr[4] = IF loaded_image.options = Embedded THEN <<>>
                                  ELSE <<loaded_image.options>>
    BY DEF MeasuredAsRun
  <2>1. ImageMeasured /\ CompanionProgress /\ MeasureTypes /\ queue = <<>>
    BY DEF Progress, Running, AfterCmdline, Types
  <2>2. ImageMeasuredAsRun
    <3> DEFINE t == SectionsToMeasure
    <3>1. layout \in Layouts /\ kernel_data \in Logged /\ initrd_data \in Logged
      BY <2>1 DEF Types, InputTypes, MeasureTypes, Reads, Logged
    <3>2. PICK n \in Nat :
             /\ n = Cardinality(Entries(Measurable)) /\ n = Len(t)
             /\ \A k \in 1..n : t[k] \in Measurable
             /\ \A x \in Measurable :
                  Cardinality({k \in 1..n : t[k] = x}) = Cardinality(Entries({x}))
             /\ \A j, k \in 1..n : j < k => Rank(t[j]) <= Rank(t[k])
      BY <3>1, SectionsSorted DEF InCanonicalOrder
    <3>3. /\ Len(ImageData) = 2 * n
          /\ \A k \in 1..n : /\ ImageData[2 * k - 1].data = t[k]
                              /\ ImageData[2 * k].data = SectionData(t[k], kernel_data, initrd_data)
      BY <3>1, <3>2, ImagePlan DEF ImageData
    <3> HIDE DEF t
    <3>4. \A k \in 1..n : 2 * k - 1 \in 1..(2 * n) /\ 2 * k \in 1..(2 * n)
      OBVIOUS
    <3>5. /\ Len(pcr[11]) = 2 * n
          /\ \A k \in 1..n : /\ pcr[11][2 * k - 1] = t[k]
                              /\ pcr[11][2 * k] = SectionData(t[k], kernel_data, initrd_data)
      BY <2>1, <3>3, <3>4 DEF ImageMeasured
    <3>6. \A x \in Measurable : {k \in 1..n : pcr[11][2 * k - 1] = x} = {k \in 1..n : t[k] = x}
      BY <3>5
    <3>7. \A x : SectionData(x, kernel_data, initrd_data) =
                   IF x = ".linux" THEN kernel_data ELSE IF x = ".initrd" THEN initrd_data
                   ELSE Contents(x)
      BY DEF SectionData
    <3>8. \A x \in Measurable : Cardinality({k \in 1..n : pcr[11][2 * k - 1] = x})
                               = Cardinality(Entries({x}))
      BY <3>2, <3>6
    <3>9. \A j, k \in 1..n : j < k => Rank(pcr[11][2 * j - 1]) <= Rank(pcr[11][2 * k - 1])
      BY <3>2, <3>5
    <3> QED  BY <3>2, <3>5, <3>7, <3>8, <3>9 DEF ImageMeasuredAsRun
  <2>3. companions = pcr[12] \o pcr[13]
    <3>1. /\ companions \in Seq(Logged) /\ pcr[12] \in Seq(Logged) /\ pcr[13] \in Seq(Logged)
      BY <2>1, SeqMonotonic DEF MeasureTypes, Logged
    <3> DEFINE both == pcr[12] \o pcr[13]
    <3>2. /\ both \in Seq(Logged) /\ Len(both) = Len(pcr[12]) + Len(pcr[13])
          /\ \A i \in 1..(Len(pcr[12]) + Len(pcr[13])) :
               both[i] = IF i <= Len(pcr[12]) THEN pcr[12][i] ELSE pcr[13][i - Len(pcr[12])]
      BY <3>1, ConcatProperties
    <3> HIDE DEF both
    <3>3. PICK a \in Nat, b \in Nat : a = Len(pcr[12]) /\ b = Len(pcr[13])
      BY <3>1
    <3>4. Len(companions) = a + b
      <4>1. Len(queue) = 0
        BY <2>1
      <4>2. a + b + 0 = a + b
        OBVIOUS
      <4> QED  BY <2>1, <3>3, <4>1, <4>2 DEF CompanionProgress
    <3>5. ASSUME NEW i \in 1..(a + b) PROVE companions[i] = both[i]
      <4>1. CASE i <= a
        <5>1. i \in 1..a
          BY <4>1
        <5> QED  BY <2>1, <3>2, <3>3, <4>1, <5>1 DEF CompanionProgress
      <4>2. CASE ~(i <= a)
        <5>1. i - a \in 1..b /\ a + (i - a) = i
          BY <4>2
        <5> QED  BY <2>1, <3>2, <3>3, <4>2, <5>1 DEF CompanionProgress
      <4> QED  BY <4>1, <4>2
    <3>6. companions = both
      BY <3>1, <3>2, <3>3, <3>4, <3>5, SeqEqual
    <3> QED  BY <3>6 DEF both
  <2>4. /\ \A i \in 1..Len(pcr[12]) : pcr[12][i].type # "SystemExtension"
        /\ \A i \in 1..Len(pcr[13]) : pcr[13][i].type = "SystemExtension"
    BY <2>1 DEF CompanionProgress
  <2>5. pcr[4] = IF loaded_image.options = Embedded THEN <<>> ELSE <<loaded_image.options>>
    BY DEF CmdlineMeasured, BootInvariant, Running, AfterCmdline
  <2> QED  BY <2>2, <2>3, <2>4, <2>5
<1> QED
  BY <1>1, <1>2, ProgressNext, BootInvariantHolds, TypesHold, CmdlineMeasuredHolds, PTL DEF Spec

=============================================================================
