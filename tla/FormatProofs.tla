---------------------------- MODULE FormatProofs ----------------------------
(***************************************************************************)
(* Proofs about the three formats of Cpio, PeImage and OsRelease, for      *)
(* every batch of files, every image and every value.  They induct on the  *)
(* steps of the reader or writer and, for what is computed in one step     *)
(* from a sequence, on the least index at which a claim would fail.        *)
(***************************************************************************)
EXTENDS Cpio, PeImage, OsRelease, FiniteSetTheorems, SequenceTheorems, WellFoundedInduction, TLAPS

-----------------------------------------------------------------------------
(* Least elements and concatenations.                                      *)

\* A set of numbers has a least one: the induction of this module is on least
\* counterexamples.
LEMMA MinOfNaturals ==
  ASSUME NEW S, S \subseteq Nat, S # {}
  PROVE  \E x \in S : \A n \in S : x <= n
<1>1. PICK x \in S : \A y \in S : ~ (<<y, x>> \in OpToRel(<, Nat))
  BY NatLessThanWellFounded, WFMin
<1>2. \A y \in S : x <= y
  <2>1. SUFFICES ASSUME NEW y \in S, y < x PROVE FALSE
    OBVIOUS
  <2>2. <<y, x>> \in OpToRel(<, Nat)
    BY <2>1 DEF OpToRel
  <2>3. QED BY <1>1, <2>2
<1>3. QED BY <1>2

\* A bounded set of numbers has a greatest one.
LEMMA MaxOfNaturals ==
  ASSUME NEW S, S \subseteq Nat, S # {}, NEW b \in Nat, \A x \in S : x <= b
  PROVE  Max(S) \in S /\ \A x \in S : x <= Max(S)
<1> DEFINE T == {b - x : x \in S}
<1>1. T \subseteq Nat
  <2> SUFFICES ASSUME NEW x \in S PROVE b - x \in Nat
    OBVIOUS
  <2> QED  OBVIOUS
<1>0. T # {}
  OBVIOUS
<1>2. PICK m \in T : \A n \in T : m <= n
  BY <1>0, <1>1, MinOfNaturals
<1>3. PICK x \in S : m = b - x
  OBVIOUS
<1>4. \A y \in S : x >= y
  BY <1>2, <1>3
<1> QED  BY <1>4 DEF Max

\* The elements of a concatenation.
LEMMA Joined ==
  ASSUME NEW S, NEW s \in Seq(S), NEW t \in Seq(S)
  PROVE  /\ s \o t \in Seq(S) /\ Len(s \o t) = Len(s) + Len(t)
         /\ \A i \in 1..Len(s) : (s \o t)[i] = s[i]
         /\ \A i \in 1..Len(t) : (s \o t)[Len(s) + i] = t[i]
<1>1. Len(s) \in Nat /\ Len(t) \in Nat
  OBVIOUS
<1>2. s \o t \in Seq(S)
  BY ConcatProperties, Zenon
<1>3. Len(s \o t) = Len(s) + Len(t)
  BY ConcatProperties, Zenon
<1>4. \A i \in 1..(Len(s) + Len(t)) : (s \o t)[i] = IF i <= Len(s) THEN s[i] ELSE t[i - Len(s)]
  BY ConcatProperties, Zenon
<1>5. ASSUME NEW i \in 1..Len(s) PROVE (s \o t)[i] = s[i]
  <2>1. i \in 1..(Len(s) + Len(t)) /\ i <= Len(s)
    BY <1>1
  <2> QED  BY <1>4, <2>1, Zenon
<1>6. ASSUME NEW i \in 1..Len(t) PROVE (s \o t)[Len(s) + i] = t[i]
  <2>1. /\ Len(s) + i \in 1..(Len(s) + Len(t)) /\ ~(Len(s) + i <= Len(s))
        /\ (Len(s) + i) - Len(s) = i
    BY <1>1
  <2>2. (s \o t)[Len(s) + i] = t[(Len(s) + i) - Len(s)]
    BY <1>4, <2>1, Zenon
  <2> QED  BY <2>1, <2>2, Zenon
<1> QED  BY <1>2, <1>3, <1>5, <1>6

\* Two sequences of known lengths.
Joins(all, s, m, t, n, S) ==
  /\ all \in Seq(S) /\ Len(all) = m + n
  /\ \A i \in 1..m : all[i] = s[i]
  /\ \A i \in 1..n : all[m + i] = t[i]

\* A concatenation, with the lengths of its two parts named.
LEMMA JoinedLengths ==
  ASSUME NEW S, NEW s \in Seq(S), NEW t \in Seq(S), NEW m, NEW n, m = Len(s), n = Len(t)
  PROVE  Joins(s \o t, s, m, t, n, S)
<1>1. Joins(s \o t, s, Len(s), t, Len(t), S)
  <2>1. s \o t \in Seq(S)
    BY Joined, Zenon
  <2>2. Len(s \o t) = Len(s) + Len(t)
    BY Joined, Zenon
  <2>3. \A i \in 1..Len(s) : (s \o t)[i] = s[i]
    BY Joined, Zenon
  <2>4. ASSUME NEW i \in 1..Len(t) PROVE (s \o t)[Len(s) + i] = t[i]
    BY Joined
  <2> QED  BY <2>1, <2>2, <2>3, <2>4, Zenon DEF Joins
<1> QED  BY <1>1, Zenon

-----------------------------------------------------------------------------
(* The cpio writer.                                                        *)

\* The writer on its own.
CpioSpec == CpioInit /\ [][CpioNext]_cpioVars

\* Numbers that differ have positions, from the smallest to the largest: the number
\* of those up to each.
LEMMA Positions ==
  ASSUME NEW n \in Nat, NEW r \in [1..n -> Nat], \A i, j \in 1..n : r[i] = r[j] => i = j
  PROVE  \E c \in [1..n -> 1..n] :
           /\ \A i \in 1..n : c[i] = Cardinality({j \in 1..n : r[j] <= r[i]})
           /\ \A i, j \in 1..n : r[i] < r[j] => c[i] < c[j]
           /\ \A k \in 1..n : \E i \in 1..n : c[i] = k
<1> DEFINE Below(i) == {j \in 1..n : r[j] <= r[i]}
<1>0. \A i \in 1..n : r[i] \in Nat
  OBVIOUS
<1>1. /\ IsFiniteSet(1..n) /\ Cardinality(1..n) = n
  BY FS_Interval
<1>2. ASSUME NEW i \in 1..n
      PROVE  IsFiniteSet(Below(i)) /\ Cardinality(Below(i)) \in 1..n
  <2>1. Below(i) \in SUBSET (1..n) /\ i \in Below(i)
    OBVIOUS
  <2>2. IsFiniteSet(Below(i)) /\ Cardinality(Below(i)) <= n
    BY <1>1, <2>1, FS_Subset
  <2>3. Cardinality(Below(i)) \in Nat /\ Cardinality(Below(i)) # 0
    BY <2>1, <2>2, FS_CardinalityType, FS_EmptySet
  <2> QED  BY <2>2, <2>3
<1>3. PICK c \in [1..n -> 1..n] : \A i \in 1..n : c[i] = Cardinality(Below(i))
  <2>1. [i \in 1..n |-> Cardinality(Below(i))] \in [1..n -> 1..n]
    BY <1>2
  <2> QED  BY <2>1
<1>4. ASSUME NEW i \in 1..n, NEW j \in 1..n, r[i] < r[j]
      PROVE  c[i] < c[j]
  <2>0. \A a, b, d \in Nat : /\ a <= b /\ b < d => a <= d
                             /\ ~(d <= b /\ b < d) /\ d <= d
    OBVIOUS
  <2>1. Below(i) \in SUBSET Below(j) /\ j \in Below(j) /\ j \notin Below(i)
    BY <1>0, <1>4, <2>0
  <2>2. IsFiniteSet(Below(j))
    BY <1>2
  <2>3. Cardinality(Below(i)) <= Cardinality(Below(j)) /\ Cardinality(Below(j)) # Cardinality(Below(i))
    BY <2>1, <2>2, FS_Subset
  <2>4. c[i] <= c[j] /\ c[i] # c[j] /\ c[i] \in 1..n /\ c[j] \in 1..n
    BY <1>3, <2>3
  <2> QED  BY <2>4
<1> HIDE DEF Below
<1>5. \A i, j \in 1..n : c[i] = c[j] => i = j
  <2> SUFFICES ASSUME NEW i \in 1..n, NEW j \in 1..n, c[i] = c[j], i # j PROVE FALSE
    OBVIOUS
  <2>1. r[i] < r[j] \/ r[j] < r[i]
    BY <1>0
  <2>2. c[i] < c[j] \/ c[j] < c[i]
    BY <1>4, <2>1, Zenon
  <2> QED  BY <2>2
<1>6. \A k \in 1..n : \E i \in 1..n : c[i] = k
  <2>1. c \in Injection(1..n, 1..n)
    BY <1>5 DEF Injection, IsInjective
  <2>2. c \in Surjection(1..n, 1..n)
    BY <1>1, <2>1, FS_Injection
  <2> QED  BY <2>2 DEF Surjection
<1> QED  BY <1>3, <1>4, <1>6 DEF Below

\* What a batch holds.
File == [rank : Nat, name : Nat, size : Nat]

\* No two files of a batch have the same rank.
Distinct(files) == \A i, j \in 1..Len(files) : files[i].rank = files[j].rank => i = j

\* The same files by increasing rank.
SortOf(sorted, files) ==
  /\ sorted \in Seq(File) /\ Len(sorted) = Len(files)
  /\ \A i \in 1..Len(files) : \E k \in 1..Len(files) : sorted[i] = files[k]
  /\ \A i, j \in 1..Len(files) : i < j => sorted[i].rank < sorted[j].rank

\* SortedFiles has the files of the batch, by increasing rank.
LEMMA SortedFilesFacts ==
  ASSUME NEW files \in Seq(File), Distinct(files)
  PROVE  SortOf(SortedFiles(files), files)
<1>1. PICK n \in Nat : n = Len(files)
  OBVIOUS
<1>0. \A i \in 1..n : files[i] \in File /\ files[i].rank \in Nat
  <2>1. \A i \in 1..n : files[i] \in File
    BY <1>1
  <2> QED  BY <2>1 DEF File
<1>2. PICK r \in [1..n -> Nat] : \A i \in 1..n : r[i] = files[i].rank
  <2>1. [i \in 1..n |-> files[i].rank] \in [1..n -> Nat]
    BY <1>0
  <2> QED  BY <2>1
<1>3. \A i, j \in 1..n : r[i] = r[j] => i = j
  BY <1>1, <1>2 DEF Distinct
<1>4. PICK c \in [1..n -> 1..n] :
           /\ \A i \in 1..n : c[i] = Cardinality({j \in 1..n : r[j] <= r[i]})
           /\ \A i, j \in 1..n : r[i] < r[j] => c[i] < c[j]
           /\ \A k \in 1..n : \E i \in 1..n : c[i] = k
  BY <1>3, Positions
<1>5. \A i \in 1..Len(files) :
        Cardinality({j \in 1..Len(files) : files[j].rank <= files[i].rank}) = c[i]
  <2>1. \A i \in 1..n : {j \in 1..Len(files) : files[j].rank <= files[i].rank} = {j \in 1..n : r[j] <= r[i]}
    BY <1>1, <1>2
  <2> QED  BY <1>1, <1>4, <2>1
<1> DEFINE Chosen(k) == CHOOSE i \in 1..Len(files) :
             Cardinality({j \in 1..Len(files) : files[j].rank <= files[i].rank}) = k
<1>a. ASSUME NEW k \in 1..n PROVE Chosen(k) \in 1..n /\ c[Chosen(k)] = k
  <2>1. \E i \in 1..Len(files) : Cardinality({j \in 1..Len(files) : files[j].rank <= files[i].rank}) = k
    <3>1. PICK i \in 1..n : c[i] = k
      BY <1>4
    <3>2. i \in 1..Len(files)
      BY <1>1
    <3> QED  BY <1>5, <3>1, <3>2
  <2>2. /\ Chosen(k) \in 1..Len(files)
        /\ Cardinality({j \in 1..Len(files) : files[j].rank <= files[Chosen(k)].rank}) = k
    BY <2>1
  <2> HIDE DEF Chosen
  <2> QED  BY <1>1, <1>5, <2>2
<1>b. SortedFiles(files) = [k \in 1..Len(files) |-> files[Chosen(k)]]
  BY DEF SortedFiles
<1> HIDE DEF Chosen
<1>6. PICK p \in [1..n -> 1..n] : \A k \in 1..n : p[k] = Chosen(k) /\ c[p[k]] = k
  <2>1. [k \in 1..n |-> Chosen(k)] \in [1..n -> 1..n]
    BY <1>a
  <2> QED  BY <1>a, <2>1
<1>7. SortedFiles(files) = [k \in 1..n |-> files[p[k]]]
  BY <1>1, <1>6, <1>b
<1>8. PICK s : s = SortedFiles(files)
  OBVIOUS
<1>9. s \in Seq(File) /\ Len(s) = n /\ \A k \in 1..n : s[k] = files[p[k]]
  <2>1. \A k \in 1..n : files[p[k]] \in File
    BY <1>0, <1>6
  <2> QED  BY <1>7, <1>8, <2>1
<1>10. ASSUME NEW i \in 1..n, NEW j \in 1..n, i < j PROVE s[i].rank < s[j].rank
  <2>1. r[p[i]] \in Nat /\ r[p[j]] \in Nat /\ c[p[i]] = i /\ c[p[j]] = j /\ p[i] \in 1..n /\ p[j] \in 1..n
    BY <1>6
  <2>2. ~(r[p[j]] < r[p[i]])
    <3>1. r[p[j]] < r[p[i]] => j < i
      BY <1>4, <2>1
    <3> QED  BY <1>10, <3>1
  <2>3. r[p[j]] # r[p[i]]
    BY <1>3, <1>10, <2>1
  <2>4. r[p[i]] < r[p[j]]
    BY <2>1, <2>2, <2>3
  <2> QED  BY <1>2, <1>9, <2>1, <2>4
<1>11. SortOf(s, files)
  BY <1>1, <1>6, <1>9, <1>10 DEF SortOf
<1> QED  BY <1>8, <1>11

-----------------------------------------------------------------------------
\* compute_pad4 fills up to a multiple of 4.
LEMMA PadType ==
  ASSUME NEW n \in Nat
  PROVE  ComputePad4(n) \in 0..3 /\ (n + ComputePad4(n)) % 4 = 0
  BY DEF ComputePad4

\* The multiple of 4 that the reader goes on to.
LEMMA NextMultipleIs ==
  ASSUME NEW n \in Nat, NEW m \in Nat, m % 4 = 0, n <= m, m <= n + 3
  PROVE  NextMultiple(n) = m
<1>1. m \in n..(n + 3) /\ m % 4 = 0
  OBVIOUS
<1>2. \A y \in n..(n + 3) : y % 4 = 0 => y = m
  OBVIOUS
<1> QED  BY <1>1, <1>2 DEF NextMultiple

\* The 110 bytes of a header and the name, padded, end at a multiple of 4.
LEMMA HeaderEnd ==
  ASSUME NEW name \in Nat
  PROVE  /\ HeaderSize(name) \in Nat /\ HeaderSize(name) % 4 = 0
         /\ StaticHeaderLen + name + 1 \in Nat
         /\ StaticHeaderLen + name + 1 <= HeaderSize(name)
         /\ HeaderSize(name) <= StaticHeaderLen + name + 1 + 3
<1>1. StaticHeaderLen \in Nat
  BY DEF StaticHeaderLen
<1>2. PICK h \in Nat : h = StaticHeaderLen + name + 1
  BY <1>1
<1>3. HeaderSize(name) = h + ComputePad4(h)
  BY <1>2 DEF HeaderSize
<1>4. PICK pad \in 0..3 : pad = ComputePad4(h) /\ (h + pad) % 4 = 0
  BY PadType
<1>5. PICK t \in Nat : t = h + pad /\ t % 4 = 0 /\ h <= t /\ t <= h + 3
  BY <1>4
<1>6. HeaderSize(name) = t
  BY <1>3, <1>4, <1>5
<1> QED  BY <1>2, <1>5, <1>6

\* Multiples of 4 add up to one.
LEMMA SumOfMultiples ==
  ASSUME NEW a \in Nat, NEW b \in Nat, a % 4 = 0, b % 4 = 0
  PROVE  (a + b) % 4 = 0
OBVIOUS

\* Where an entry at an offset ends, for the writer and for the reader.
EntryEnds(at, name, size) ==
  \E h, padded, end \in Nat :
    /\ h = HeaderSize(name) /\ padded = size + ComputePad4(size)
    /\ end = (at + h) + padded /\ end % 4 = 0
    /\ NextMultiple(NextMultiple(at + StaticHeaderLen + name + 1) + size) = end

\* An entry that starts at a multiple of 4 ends where the reader looks for the
\* next one.
LEMMA EntryEnd ==
  ASSUME NEW at \in Nat, at % 4 = 0, NEW name \in Nat, NEW size \in Nat
  PROVE  EntryEnds(at, name, size)
<1>1. PICK h \in Nat, hl \in Nat :
        h = HeaderSize(name) /\ hl = StaticHeaderLen + name + 1 /\ h % 4 = 0 /\ hl <= h /\ h <= hl + 3
  BY HeaderEnd
<1>2. PICK pad \in 0..3 : pad = ComputePad4(size) /\ (size + pad) % 4 = 0
  BY PadType
<1>3. at + StaticHeaderLen + name + 1 = at + hl
  BY <1>1 DEF StaticHeaderLen
<1>4. PICK a \in Nat : a = at + h /\ a % 4 = 0
  BY <1>1, SumOfMultiples
<1>5. NextMultiple(at + hl) = a
  BY <1>1, <1>4, NextMultipleIs
<1>6. PICK b \in Nat : b = size + pad /\ b % 4 = 0
  BY <1>2
<1>7. PICK end \in Nat : end = a + b /\ end % 4 = 0
  BY <1>4, <1>6, SumOfMultiples
<1>8. NextMultiple(a + size) = end
  <2>1. PICK n \in Nat : n = a + size /\ n <= end /\ end <= n + 3
    <3>1. pad \in 0..3 /\ end = a + (size + pad)
      BY <1>2, <1>6, <1>7
    <3> QED  BY <3>1
  <2> QED  BY <1>7, <2>1, NextMultipleIs
<1>9. h = HeaderSize(name) /\ b = size + ComputePad4(size) /\ end = (at + h) + b /\ end % 4 = 0
  BY <1>1, <1>2, <1>4, <1>6, <1>7
<1>10. NextMultiple(NextMultiple(at + StaticHeaderLen + name + 1) + size) = end
  BY <1>3, <1>5, <1>8
<1> QED  BY <1>9, <1>10, Zenon DEF EntryEnds

-----------------------------------------------------------------------------
\* The calls of pack_one and the entries they write.
Kinds == {"dir", "file", "trailer"}
Modes == {"dir_mode", "555", "access_mode", "0"}
Call == [kind : Kinds, rank : Nat, prefix : Nat, name : Nat, size : Nat, mode : Modes]
Entry == [at : Nat, ino : Nat, kind : Kinds, rank : Nat, name : Nat, size : Nat, mode : Modes]

\* The calls of pack_cpio.
Plan(b) == Directories(b.prefix) \o FileCalls(b.prefix, SortedFiles(b.files)) \o <<Trailer>>

\* Directories from the top, the files by rank, the trailer.
Canonical(plan, b, dirs, files) ==
  /\ plan \in Seq(Call) /\ Len(plan) = dirs + files + 1
  /\ \A i \in 1..dirs : /\ plan[i].kind = "dir" /\ plan[i].rank = i /\ plan[i].size = 0
                        /\ plan[i].mode = "dir_mode" <=> i = dirs
  /\ \A i \in 1..files :
       /\ plan[dirs + i].kind = "file"
       /\ \E k \in 1..files : plan[dirs + i].rank = b.files[k].rank /\ plan[dirs + i].size = b.files[k].size
  /\ \A i, j \in 1..files : i < j => plan[dirs + i].rank < plan[dirs + j].rank
  /\ plan[dirs + files + 1].kind = "trailer"

\* The parts of the plan.
Parts(plan, b, dirs, files) ==
  /\ Len(plan) = dirs + files + 1
  /\ \A i \in 1..dirs : plan[i] = Directories(b.prefix)[i]
  /\ \A i \in 1..files : plan[dirs + i] = FileCalls(b.prefix, SortedFiles(b.files))[i]
  /\ plan[dirs + files + 1] = Trailer

\* The calls of pack_cpio are the directories from the top, the files by rank and
\* the trailer.
LEMMA PlanIsCanonical ==
  ASSUME NEW b \in Batches
  PROVE  /\ Parts(Plan(b), b, Len(b.prefix), Len(b.files))
         /\ Len(b.prefix) \in Nat \ {0} /\ Len(b.files) \in Nat /\ b.files \in Seq(File)
         /\ Canonical(Plan(b), b, Len(b.prefix), Len(b.files))
<1>1. b.prefix \in Seq(Nat) /\ b.prefix # <<>> /\ b.files \in Seq(File) /\ Distinct(b.files)
  BY CpioAssumption DEF File, Distinct
<1>2. PICK d \in Nat \ {0}, f \in Nat : d = Len(b.prefix) /\ f = Len(b.files)
  BY <1>1
<1>3. \A i \in 1..d : b.prefix[i] \in Nat
  BY <1>1, <1>2
<1>4. PICK dirs \in Seq(Call) :
        /\ dirs = Directories(b.prefix) /\ Len(dirs) = d
        /\ \A i \in 1..d : /\ dirs[i].kind = "dir" /\ dirs[i].rank = i /\ dirs[i].size = 0
                           /\ dirs[i].mode = "dir_mode" <=> i = d
  <2>1. Directories(b.prefix) = [i \in 1..d |->
          [kind |-> "dir", rank |-> i, prefix |-> 0, name |-> 1 + b.prefix[i],
           size |-> 0, mode |-> IF i = d THEN "dir_mode" ELSE "555"]]
    BY <1>2 DEF Directories
  <2>2. \A i \in 1..d : [kind |-> "dir", rank |-> i, prefix |-> 0, name |-> 1 + b.prefix[i],
           size |-> 0, mode |-> IF i = d THEN "dir_mode" ELSE "555"] \in Call
    BY <1>3 DEF Call, Kinds, Modes
  <2>3. Directories(b.prefix) \in Seq(Call) /\ Len(Directories(b.prefix)) = d
    BY <2>1, <2>2
  <2>4. \A i \in 1..d : LET e == Directories(b.prefix)[i]
                        IN  /\ e.kind = "dir" /\ e.rank = i /\ e.size = 0
                            /\ e.mode = "dir_mode" <=> i = d
    BY <2>1
  <2> QED  BY <2>3, <2>4
<1>5. PICK sorted \in Seq(File) :
        /\ sorted = SortedFiles(b.files) /\ Len(sorted) = f
        /\ \A i \in 1..f : \E k \in 1..f : sorted[i] = b.files[k]
        /\ \A i, j \in 1..f : i < j => sorted[i].rank < sorted[j].rank
  <2>1. SortOf(SortedFiles(b.files), b.files)
    BY <1>1, SortedFilesFacts, Zenon
  <2> QED  BY <1>2, <2>1 DEF SortOf
<1>6. \A i \in 1..f : sorted[i] \in File
  BY <1>5
<1>7. PICK files \in Seq(Call) :
        /\ files = FileCalls(b.prefix, sorted) /\ Len(files) = f
        /\ \A i \in 1..f : /\ files[i].kind = "file" /\ files[i].rank = sorted[i].rank
                           /\ files[i].size = sorted[i].size
  <2>1. PICK last \in Nat : last = b.prefix[Len(b.prefix)]
    BY <1>2, <1>3
  <2>2. FileCalls(b.prefix, sorted) = [i \in 1..f |->
          [kind |-> "file", rank |-> sorted[i].rank, prefix |-> last, name |-> sorted[i].name,
           size |-> sorted[i].size, mode |-> "access_mode"]]
    BY <1>5, <2>1 DEF FileCalls
  <2>3. \A i \in 1..f :
          [kind |-> "file", rank |-> sorted[i].rank, prefix |-> last, name |-> sorted[i].name,
           size |-> sorted[i].size, mode |-> "access_mode"] \in Call
    BY <1>6 DEF Call, Kinds, Modes, File
  <2>4. FileCalls(b.prefix, sorted) \in Seq(Call) /\ Len(FileCalls(b.prefix, sorted)) = f
    BY <2>2, <2>3
  <2>5. \A i \in 1..f : LET e == FileCalls(b.prefix, sorted)[i]
                        IN  e.kind = "file" /\ e.rank = sorted[i].rank /\ e.size = sorted[i].size
    BY <2>2
  <2> QED  BY <2>4, <2>5
<1>8. PICK t \in Seq(Call) : t = <<Trailer>> /\ Len(t) = 1 /\ t[1].kind = "trailer" /\ t[1] = Trailer
  <2>1. Trailer \in Call /\ Trailer.kind = "trailer"
    BY DEF Trailer, Call, Kinds, Modes, TrailerNameLen
  <2>2. PICK e \in Call : e = Trailer /\ e.kind = "trailer"
    BY <2>1
  <2>3. <<e>> \in Seq(Call) /\ Len(<<e>>) = 1 /\ <<e>>[1] = e
    OBVIOUS
  <2> QED  BY <2>2, <2>3
<1>9. PICK left \in Seq(Call) : left = dirs \o files /\ Joins(left, dirs, d, files, f, Call)
  <2>1. Joins(dirs \o files, dirs, d, files, f, Call)
    BY <1>4, <1>7, JoinedLengths, Zenon
  <2> QED  BY <2>1 DEF Joins
<1>10. PICK all \in Seq(Call) : all = left \o t /\ Joins(all, left, d + f, t, 1, Call)
  <2>1. Len(left) = d + f /\ Len(t) = 1
    BY <1>8, <1>9 DEF Joins
  <2>2. Joins(left \o t, left, d + f, t, 1, Call)
    BY <2>1, JoinedLengths, Zenon
  <2> QED  BY <2>2 DEF Joins
<1>11. Plan(b) = all
  BY <1>4, <1>5, <1>7, <1>8, <1>9, <1>10 DEF Plan
<1>12. \A i \in 1..d : all[i] = dirs[i]
  BY <1>9, <1>10 DEF Joins
<1>13. \A i \in 1..f : all[d + i] = files[i]
  <2>1. \A i \in 1..f : d + i \in 1..(d + f)
    OBVIOUS
  <2> QED  BY <1>9, <1>10, <2>1, Zenon DEF Joins
<1>14. Len(all) = d + f + 1 /\ all[d + f + 1] = t[1]
  BY <1>10 DEF Joins
<1>15. Canonical(all, b, d, f)
  <2>1. \A i \in 1..d : /\ all[i].kind = "dir" /\ all[i].rank = i /\ all[i].size = 0
                        /\ all[i].mode = "dir_mode" <=> i = d
    <3> SUFFICES ASSUME NEW i \in 1..d
                 PROVE  /\ all[i].kind = "dir" /\ all[i].rank = i /\ all[i].size = 0
                        /\ all[i].mode = "dir_mode" <=> i = d
      OBVIOUS
    <3>1. /\ dirs[i].kind = "dir" /\ dirs[i].rank = i /\ dirs[i].size = 0
          /\ dirs[i].mode = "dir_mode" <=> i = d
      BY <1>4
    <3>2. all[i] = dirs[i]
      BY <1>12
    <3> QED  BY <3>1, <3>2, Zenon
  <2>2. ASSUME NEW i \in 1..f
        PROVE  /\ all[d + i].kind = "file" /\ all[d + i].rank = sorted[i].rank
               /\ all[d + i].size = sorted[i].size
    <3>1. all[d + i] = files[i]
      BY <1>13
    <3>2. files[i].kind = "file" /\ files[i].rank = sorted[i].rank /\ files[i].size = sorted[i].size
      BY <1>7
    <3> QED  BY <3>1, <3>2, Zenon
  <2>3. ASSUME NEW i \in 1..f
        PROVE  \E k \in 1..f : all[d + i].rank = b.files[k].rank /\ all[d + i].size = b.files[k].size
    <3>1. PICK k \in 1..f : sorted[i] = b.files[k]
      BY <1>5
    <3> QED  BY <2>2, <3>1, Zenon
  <2>4. ASSUME NEW i \in 1..f, NEW j \in 1..f, i < j PROVE all[d + i].rank < all[d + j].rank
    <3>1. sorted[i].rank < sorted[j].rank
      BY <1>5, <2>4
    <3> QED  BY <2>2, <3>1, Zenon
  <2> QED  BY <1>8, <1>14, <2>1, <2>2, <2>3, <2>4 DEF Canonical
<1>16. Parts(all, b, d, f)
  BY <1>4, <1>5, <1>7, <1>8, <1>12, <1>13, <1>14, Zenon DEF Parts
<1> QED  BY <1>1, <1>2, <1>11, <1>15, <1>16, Zenon

-----------------------------------------------------------------------------
\* The types of the writer's variables.
CpioTypes ==
  /\ machine \in [u32 : Nat \ {0}, usize : Nat \ {0}]
  /\ calls \in Seq(Call) /\ archive \in Seq(Entry)
  /\ buffer \in Nat /\ inode = Len(archive) /\ inode <= machine.u32

\* Every entry starts at a multiple of 4.
Aligned == buffer % 4 = 0 /\ (archive = <<>> => buffer = 0)

\* The archive is the beginning of the plan, the calls are the rest.
Planned ==
  /\ result = "none" => archive = <<>>
  /\ result \in {"packing", "ok"} =>
       /\ batch \in Batches
       /\ Len(archive) + Len(calls) = Len(Plan(batch))
       /\ \A i \in 1..Len(archive) :
            LET c == Plan(batch)[i]
            IN  /\ archive[i].kind = c.kind /\ archive[i].rank = c.rank
                /\ archive[i].size = c.size /\ archive[i].mode = c.mode
       /\ \A i \in 1..Len(calls) : calls[i] = Plan(batch)[Len(archive) + i]
  /\ result = "ok" => calls = <<>>

\* The inductive invariant of the writer.
CpioInv == CpioTypes /\ Aligned /\ ReaderFindsEntries /\ Planned

\* The invariant holds before the first batch.
LEMMA CpioInitInv == CpioInit => CpioInv
<1> SUFFICES ASSUME CpioInit PROVE CpioInv
  OBVIOUS
<1>1. machine \in [u32 : Nat \ {0}, usize : Nat \ {0}]
  BY CpioAssumption DEF CpioInit
<1>2. CpioTypes
  BY <1>1 DEF CpioInit, CpioTypes
<1>3. Aligned /\ Planned /\ ReaderFindsEntries
  BY DEF CpioInit, Aligned, Planned, ReaderFindsEntries
<1> QED  BY <1>2, <1>3 DEF CpioInv

\* A failed call leaves what has been written.
LEMMA FailStep ==
  ASSUME CpioInv, NEW error, error \notin {"none", "packing", "ok"}, Fail(error),
         UNCHANGED <<machine, batch>>
  PROVE  CpioInv'
<1>1. CpioTypes' /\ Aligned'
  BY DEF Fail, CpioInv, CpioTypes, Aligned
<1>2. ReaderFindsEntries'
  BY DEF Fail, CpioInv, ReaderFindsEntries, ReaderNext
<1>3. Planned'
  BY DEF Fail, Planned
<1> QED  BY <1>1, <1>2, <1>3 DEF CpioInv

\* An entry is appended at the end of the buffer.
LEMMA AppendedStep ==
  ASSUME CpioInv, calls # <<>>, result = "packing", UNCHANGED <<machine, batch>>,
         NEW e \in Call,
         e.kind = Head(calls).kind, e.rank = Head(calls).rank, e.size = Head(calls).size,
         e.mode = Head(calls).mode, e.kind = "dir" => e.size = 0,
         e.size <= machine.u32, inode # machine.u32, Append4(e)
  PROVE  CpioInv'
<1>1. CASE Fail("panic")
  BY <1>1, FailStep
<1>2. CASE ~Fail("panic")
  <2>1. /\ e.name + 1 <= machine.u32
        /\ inode' = inode + 1
        /\ archive' = Append(archive,
            [at |-> buffer, ino |-> inode', kind |-> e.kind, rank |-> e.rank,
             name |-> e.name, size |-> e.size, mode |-> e.mode])
        /\ buffer' = buffer + EntrySize(e)
        /\ calls' = Tail(calls)
        /\ UNCHANGED result
    <3>1. e.name \in Nat /\ machine.u32 \in Nat
      BY DEF CpioInv, CpioTypes, Call
    <3> QED  BY <1>2, <3>1 DEF Append4
  <2>2. PICK n \in Nat, k \in Nat, u \in Nat :
          n = Len(archive) /\ k = Len(calls) /\ u = machine.u32 /\ n = inode /\ n + 1 <= u /\ k > 0
    BY DEF CpioInv, CpioTypes
  <2>3. PICK new \in Entry :
          /\ archive' = Append(archive, new)
          /\ new.at = buffer /\ new.ino = n + 1 /\ new.kind = e.kind /\ new.rank = e.rank
          /\ new.name = e.name /\ new.size = e.size /\ new.mode = e.mode
    <3>1. [at |-> buffer, ino |-> inode', kind |-> e.kind, rank |-> e.rank,
             name |-> e.name, size |-> e.size, mode |-> e.mode] \in Entry
      <4>1. buffer \in Nat /\ inode' \in Nat
        BY <2>1, <2>2 DEF CpioInv, CpioTypes
      <4>2. e.kind \in Kinds /\ e.rank \in Nat /\ e.name \in Nat /\ e.size \in Nat /\ e.mode \in Modes
        BY DEF Call
      <4> QED  BY <4>1, <4>2 DEF Entry
    <3> QED  BY <2>1, <2>2, <3>1
  <2>4. /\ archive' \in Seq(Entry) /\ Len(archive') = n + 1 /\ archive'[n + 1] = new
        /\ \A i \in 1..n : archive'[i] = archive[i]
    BY <2>2, <2>3, AppendProperties DEF CpioInv, CpioTypes
  <2>5. /\ calls' \in Seq(Call) /\ Len(calls') = k - 1
        /\ \A i \in 1..(k - 1) : calls'[i] = calls[i + 1]
    BY <2>1, <2>2 DEF CpioInv, CpioTypes
  <2>6. ReaderNext(new) = buffer' /\ buffer' \in Nat /\ buffer' % 4 = 0
    <3>1. PICK at \in Nat, name \in Nat, size \in Nat :
            at = buffer /\ name = e.name /\ size = e.size /\ at % 4 = 0
      BY DEF CpioInv, CpioTypes, Aligned, Call
    <3>2. PICK h \in Nat, padded \in Nat, end \in Nat :
            /\ h = HeaderSize(name) /\ padded = size + ComputePad4(size)
            /\ end = (at + h) + padded /\ end % 4 = 0
            /\ NextMultiple(NextMultiple(at + StaticHeaderLen + name + 1) + size) = end
      <4>1. EntryEnds(at, name, size)
        BY <3>1, EntryEnd, Zenon
      <4> QED  BY <4>1, Zenon DEF EntryEnds
    <3>3. ReaderNext(new) = end
      BY <2>3, <3>1, <3>2 DEF ReaderNext
    <3>4. EntrySize(e) = h + padded
      <4>1. e.kind = "dir" => padded = 0
        <5>1. ComputePad4(0) = 0
          BY DEF ComputePad4
        <5>2. e.kind = "dir" => size = 0
          BY <3>1
        <5> QED  BY <3>2, <5>1, <5>2
      <4> QED  BY <3>1, <3>2, <4>1 DEF EntrySize
    <3>5. buffer' = end
      <4>1. (at + h) + padded = at + (h + padded)
        OBVIOUS
      <4> QED  BY <2>1, <3>1, <3>2, <3>4, <4>1, Zenon
    <3> QED  BY <3>2, <3>3, <3>5
  <2>7. CpioTypes' /\ Aligned'
    BY <2>1, <2>2, <2>4, <2>5, <2>6 DEF CpioInv, CpioTypes, Aligned
  <2>8. ReaderFindsEntries'
    <3> SUFFICES ASSUME NEW i \in 1..(n + 1)
                 PROVE  /\ archive'[1].at = 0
                        /\ ReaderNext(archive'[i]) = IF i = n + 1 THEN buffer' ELSE archive'[i + 1].at
                        /\ archive'[i].ino = i /\ i <= machine.u32
                        /\ archive'[i].size <= machine.u32 /\ archive'[i].name + 1 <= machine.u32
      BY <2>4 DEF ReaderFindsEntries, ReaderNext
    <3>1. archive'[1].at = 0
      <4>1. CASE n = 0
        BY <2>2, <2>3, <2>4, <4>1 DEF CpioInv, CpioTypes, Aligned
      <4>2. CASE n > 0
        BY <2>2, <2>4, <4>2 DEF CpioInv, ReaderFindsEntries
      <4> QED  BY <2>2, <4>1, <4>2
    <3>2. CASE i = n + 1
      BY <2>1, <2>2, <2>3, <2>4, <2>6, <3>1, <3>2
    <3>3. CASE i \in 1..n
      <4>1. /\ ReaderNext(archive[i]) = IF i = n THEN buffer ELSE archive[i + 1].at
            /\ archive[i].ino = i /\ i <= machine.u32
            /\ archive[i].size <= machine.u32 /\ archive[i].name + 1 <= machine.u32
        BY <2>2, <3>3 DEF CpioInv, ReaderFindsEntries
      <4>2. archive'[i] = archive[i]
        BY <2>4, <3>3
      <4>3. archive'[i + 1].at = IF i = n THEN buffer ELSE archive[i + 1].at
        <5>1. CASE i = n
          BY <2>3, <2>4, <5>1
        <5>2. CASE i # n
          <6>1. i + 1 \in 1..n
            BY <3>3, <5>2
          <6> QED  BY <2>4, <5>2, <6>1
        <5> QED  BY <5>1, <5>2
      <4>4. i # n + 1
        BY <3>3
      <4> QED  BY <3>1, <4>1, <4>2, <4>3, <4>4
    <3>4. i = n + 1 \/ i \in 1..n
      OBVIOUS
    <3> QED  BY <3>2, <3>3, <3>4
  <2>9. Planned'
    <3>1. /\ batch \in Batches /\ n + k = Len(Plan(batch))
          /\ \A i \in 1..n : /\ archive[i].kind = Plan(batch)[i].kind
                             /\ archive[i].rank = Plan(batch)[i].rank
                             /\ archive[i].size = Plan(batch)[i].size
                             /\ archive[i].mode = Plan(batch)[i].mode
          /\ \A i \in 1..k : calls[i] = Plan(batch)[n + i]
      BY <2>2 DEF CpioInv, Planned
    <3>2. Plan(batch)' = Plan(batch)
      BY DEF Plan, Directories, FileCalls, SortedFiles, Trailer, TrailerNameLen
    <3>3. Head(calls) = Plan(batch)[n + 1]
      <4>1. 1 \in 1..k /\ Head(calls) = calls[1]
        BY <2>2 DEF CpioInv, CpioTypes
      <4> QED  BY <3>1, <4>1
    <3>4. ASSUME NEW i \in 1..(n + 1)
          PROVE  /\ archive'[i].kind = Plan(batch)[i].kind /\ archive'[i].rank = Plan(batch)[i].rank
                 /\ archive'[i].size = Plan(batch)[i].size /\ archive'[i].mode = Plan(batch)[i].mode
      <4>1. CASE i = n + 1
        BY <2>3, <2>4, <3>3, <4>1
      <4>2. CASE i \in 1..n
        BY <2>4, <3>1, <4>2
      <4> QED  BY <4>1, <4>2
    <3>5. ASSUME NEW i \in 1..(k - 1) PROVE calls'[i] = Plan(batch)[(n + 1) + i]
      <4>1. i + 1 \in 1..k /\ n + (i + 1) = (n + 1) + i
        OBVIOUS
      <4>2. calls[i + 1] = Plan(batch)[n + (i + 1)]
        BY <3>1, <4>1
      <4> QED  BY <2>5, <4>1, <4>2
    <3>6. (n + 1) + (k - 1) = n + k
      OBVIOUS
    <3>7. result' = "packing" /\ batch' = batch
      BY <2>1
    <3>8. Len(archive') = n + 1 /\ Len(calls') = k - 1
      BY <2>4, <2>5
    <3>9. batch' \in Batches /\ Len(archive') + Len(calls') = Len(Plan(batch)')
      BY <3>1, <3>2, <3>6, <3>7, <3>8
    <3>10. \A i \in 1..Len(archive') :
             LET c == Plan(batch)'[i]
             IN  /\ archive'[i].kind = c.kind /\ archive'[i].rank = c.rank
                 /\ archive'[i].size = c.size /\ archive'[i].mode = c.mode
      BY <3>2, <3>4, <3>8
    <3>11. \A i \in 1..Len(calls') : calls'[i] = Plan(batch)'[Len(archive') + i]
      BY <3>2, <3>5, <3>8
    <3> QED  BY <3>7, <3>9, <3>10, <3>11 DEF Planned
  <2> QED  BY <2>7, <2>8, <2>9 DEF CpioInv
<1> QED  BY <1>1, <1>2

\* A call of pack_one, whether it writes or fails, preserves the invariant.
LEMMA PackNextStep == CpioInv /\ PackNext => CpioInv'
<1> SUFFICES ASSUME CpioInv, PackNext PROVE CpioInv'
  OBVIOUS
<1>1. calls # <<>> /\ result = "packing" /\ UNCHANGED <<machine, batch>>
  BY DEF PackNext
<1>2. PICK c \in Call : c = Head(calls)
  BY <1>1 DEF CpioInv, CpioTypes
<1>3. c.kind = "dir" => c.size = 0
  <2>1. batch \in Batches /\ c = Plan(batch)[Len(archive) + 1]
        /\ Len(archive) + 1 \in 1..Len(Plan(batch))
    <3>1. /\ Len(calls) \in Nat /\ Len(calls) > 0 /\ Len(archive) \in Nat
          /\ Head(calls) = calls[1]
      BY <1>1 DEF CpioInv, CpioTypes
    <3>2. /\ batch \in Batches /\ Len(archive) + Len(calls) = Len(Plan(batch))
          /\ \A i \in 1..Len(calls) : calls[i] = Plan(batch)[Len(archive) + i]
      BY <1>1 DEF CpioInv, Planned
    <3>3. 1 \in 1..Len(calls) /\ Len(archive) + 1 \in 1..(Len(archive) + Len(calls))
      BY <3>1
    <3> QED  BY <1>2, <3>1, <3>2, <3>3
  <2>2. PICK i \in Nat : i = Len(archive) + 1 /\ i \in 1..Len(Plan(batch))
    BY <2>1
  <2>3. PICK d \in Nat, f \in Nat : Canonical(Plan(batch), batch, d, f)
    BY <2>1, PlanIsCanonical
  <2>4. i \in 1..d \/ (\E k \in 1..f : i = d + k) \/ i = d + f + 1
    <3>1. i \in 1..(d + f + 1)
      BY <2>2, <2>3 DEF Canonical
    <3>2. i > d /\ i < d + f + 1 => i - d \in 1..f /\ i = d + (i - d)
      BY <3>1
    <3> QED  BY <3>1, <3>2
  <2> QED  BY <2>1, <2>2, <2>3, <2>4 DEF Canonical
<1>4. inode # machine.u32 \/ Fail("MaximumInodesReached") \/ Fail("TooLargeFileSize")
  BY <1>2 DEF PackNext, PackDir, PackOne
<1>5. CASE \E error \in {"MaximumInodesReached", "MaximumArchiveReached", "TooLargeFileSize"} : Fail(error)
  BY <1>1, <1>5, FailStep
<1>6. CASE ~\E error \in {"MaximumInodesReached", "MaximumArchiveReached", "TooLargeFileSize"} : Fail(error)
  <2>1. inode # machine.u32
    BY <1>4, <1>6
  <2>2. CASE c.kind = "dir"
    <3>1. Append4(c)
      BY <1>2, <1>6, <2>2 DEF PackNext, PackDir
    <3>2. c.size <= machine.u32
      BY <1>3, <2>2 DEF CpioInv, CpioTypes
    <3> QED  BY <1>1, <1>2, <1>3, <2>1, <3>1, <3>2, AppendedStep
  <2>3. CASE c.kind # "dir"
    <3>1. ~(c.size > machine.u32) /\ Append4([c EXCEPT !.name = FullName(c.prefix, c.name)])
      BY <1>2, <1>6, <2>3 DEF PackNext, PackOne
    <3>2. FullName(c.prefix, c.name) \in Nat
      BY DEF FullName, Call
    <3>3. PICK e \in Call :
            /\ e = [c EXCEPT !.name = FullName(c.prefix, c.name)]
            /\ e.kind = c.kind /\ e.rank = c.rank /\ e.size = c.size /\ e.mode = c.mode
      <4>1. PICK full \in Nat : full = FullName(c.prefix, c.name)
        BY <3>2
      <4>2. [c EXCEPT !.name = full] \in Call
        BY DEF Call
      <4>3. /\ [c EXCEPT !.name = full].kind = c.kind /\ [c EXCEPT !.name = full].rank = c.rank
            /\ [c EXCEPT !.name = full].size = c.size /\ [c EXCEPT !.name = full].mode = c.mode
        BY DEF Call
      <4> QED  BY <4>1, <4>2, <4>3, Zenon
    <3>4. e.size <= machine.u32
      BY <3>1, <3>3 DEF CpioInv, CpioTypes, Call
    <3>5. Append4(e)
      BY <3>1, <3>3
    <3> QED  BY <1>1, <1>2, <2>1, <2>3, <3>3, <3>4, <3>5, AppendedStep
  <2> QED  BY <2>2, <2>3
<1> QED  BY <1>5, <1>6

\* A new batch starts with an empty archive and all of its plan.
LEMMA PackCpioStep == ASSUME CpioInv, result = "none", NEW b \in Batches, PackCpio(b) PROVE CpioInv'
<1>1. batch' = b /\ calls' = Plan(b) /\ result' = "packing" /\ UNCHANGED <<machine, archive, buffer, inode>>
  BY DEF PackCpio, Plan
<1>2. Plan(b) \in Seq(Call)
  BY PlanIsCanonical DEF Canonical
<1>3. archive = <<>>
  BY DEF CpioInv, Planned
<1>4. CpioTypes' /\ Aligned'
  BY <1>1, <1>2 DEF CpioInv, CpioTypes, Aligned
<1>5. ReaderFindsEntries'
  BY <1>1, <1>3 DEF ReaderFindsEntries
<1>6. Planned'
  <2>1. Plan(batch') = Plan(b)
    BY <1>1
  <2>2. Len(archive') = 0 /\ Len(Plan(b)) \in Nat
    BY <1>1, <1>2, <1>3
  <2>3. \A i \in 1..Len(Plan(b)) : 0 + i = i
    BY <2>2
  <2> QED  BY <1>1, <2>1, <2>2, <2>3 DEF Planned
<1> QED  BY <1>4, <1>5, <1>6 DEF CpioInv

\* CpioInv is an invariant of the writer.
LEMMA CpioInvariant == CpioSpec => []CpioInv
<1>1. CpioInv /\ [CpioNext]_cpioVars => CpioInv'
  <2> SUFFICES ASSUME CpioInv, [CpioNext]_cpioVars PROVE CpioInv'
    OBVIOUS
  <2>1. CASE result = "none" /\ \E b \in Batches : PackCpio(b)
    BY <2>1, PackCpioStep
  <2>2. CASE PackNext
    BY <2>2, PackNextStep
  <2>3. CASE PackDone \/ UNCHANGED cpioVars
    <3>1. UNCHANGED <<machine, batch, calls, archive, buffer, inode>>
      BY <2>3 DEF PackDone, cpioVars
    <3>2. CpioTypes' /\ Aligned'
      BY <3>1 DEF CpioInv, CpioTypes, Aligned
    <3>3. ReaderFindsEntries'
      BY <3>1 DEF CpioInv, ReaderFindsEntries, ReaderNext
    <3>4. Planned'
      <4>1. Plan(batch)' = Plan(batch)
        BY <3>1 DEF Plan, Directories, FileCalls, SortedFiles, Trailer, TrailerNameLen
      <4>2. (result' = result) \/ (result = "packing" /\ calls = <<>> /\ result' = "ok")
        BY <2>3 DEF PackDone, cpioVars
      <4> QED  BY <3>1, <4>1, <4>2 DEF CpioInv, Planned
    <3> QED  BY <3>2, <3>3, <3>4 DEF CpioInv
  <2> QED  BY <2>1, <2>2, <2>3 DEF CpioNext
<1> QED  BY <1>1, CpioInitInv, PTL DEF CpioSpec

\* For every batch: a reader that walks the archive finds each entry where it was
\* written.
THEOREM ReaderFindsEntriesHolds == CpioSpec => []ReaderFindsEntries
  BY CpioInvariant, PTL DEF CpioInv

\* For every batch: the archive has the directories from the top, the files in order,
\* the trailer last, and consecutive inodes.
THEOREM ArchiveIsCanonicalHolds == CpioSpec => []ArchiveIsCanonical
<1>1. CpioInv => ArchiveIsCanonical
  <2> SUFFICES ASSUME CpioInv, result = "ok" PROVE ArchiveIsCanonical
    BY DEF ArchiveIsCanonical
  <2>1. /\ batch \in Batches /\ calls = <<>> /\ Len(archive) + Len(calls) = Len(Plan(batch))
        /\ \A i \in 1..Len(archive) :
             /\ archive[i].kind = Plan(batch)[i].kind /\ archive[i].rank = Plan(batch)[i].rank
             /\ archive[i].size = Plan(batch)[i].size /\ archive[i].mode = Plan(batch)[i].mode
    BY DEF CpioInv, Planned
  <2>2. PICK d \in Nat \ {0}, f \in Nat :
          /\ d = Len(batch.prefix) /\ f = Len(batch.files) /\ batch.files \in Seq(File)
          /\ Canonical(Plan(batch), batch, d, f)
    BY <2>1, PlanIsCanonical
  <2>3. Len(archive) = d + f + 1
    <3>1. Len(calls) = 0 /\ Len(archive) \in Nat
      BY <2>1 DEF CpioInv, CpioTypes
    <3>2. Len(Plan(batch)) = d + f + 1
      BY <2>2, Zenon DEF Canonical
    <3> QED  BY <2>1, <3>1, <3>2
  <2>4. ASSUME NEW i \in 1..d
        PROVE  /\ archive[i].kind = "dir" /\ archive[i].rank = i
               /\ archive[i].mode = "dir_mode" <=> i = d
    <3>1. i \in 1..Len(archive)
      BY <2>3
    <3>2. /\ Plan(batch)[i].kind = "dir" /\ Plan(batch)[i].rank = i
          /\ Plan(batch)[i].mode = "dir_mode" <=> i = d
      BY <2>2, Zenon DEF Canonical
    <3>3. /\ archive[i].kind = Plan(batch)[i].kind /\ archive[i].rank = Plan(batch)[i].rank
          /\ archive[i].mode = Plan(batch)[i].mode
      BY <2>1, <3>1, Zenon
    <3> QED  BY <3>2, <3>3, Zenon
  <2>5. ASSUME NEW k \in 1..f
        PROVE  /\ archive[d + k].kind = "file"
               /\ archive[d + k].rank = Plan(batch)[d + k].rank
               /\ \E f1 \in ToSet(batch.files) : f1.rank = archive[d + k].rank /\ f1.size = archive[d + k].size
    <3>1. d + k \in 1..Len(archive)
      BY <2>3
    <3>2. PICK h \in 1..f : /\ Plan(batch)[d + k].rank = batch.files[h].rank
                            /\ Plan(batch)[d + k].size = batch.files[h].size
      BY <2>2 DEF Canonical
    <3>3. batch.files[h] \in ToSet(batch.files)
      BY <2>2 DEF ToSet
    <3>4. Plan(batch)[d + k].kind = "file"
      BY <2>2 DEF Canonical
    <3>5. /\ archive[d + k].kind = Plan(batch)[d + k].kind /\ archive[d + k].rank = Plan(batch)[d + k].rank
          /\ archive[d + k].size = Plan(batch)[d + k].size
      BY <2>1, <3>1
    <3> QED  BY <3>2, <3>3, <3>4, <3>5, Zenon
  <2>6. ASSUME NEW i \in (d + 1)..(d + f)
        PROVE  /\ archive[i].kind = "file"
               /\ \E f1 \in {f2 \in ToSet(batch.files) : f2.rank = archive[i].rank} : archive[i].size = f1.size
               /\ i > d + 1 => archive[i].rank > archive[i - 1].rank
    <3>1. PICK k \in 1..f : i = d + k
      <4>1. i - d \in 1..f /\ i = d + (i - d)
        OBVIOUS
      <4> QED  BY <4>1
    <3>2. ASSUME i > d + 1 PROVE archive[i].rank > archive[i - 1].rank
      <4>1. PICK h \in 1..f : h < k /\ i - 1 = d + h
        <5>1. k - 1 \in 1..f /\ k - 1 < k /\ i - 1 = d + (k - 1)
          BY <3>1, <3>2
        <5> QED  BY <5>1
      <4>2. Plan(batch)[d + h].rank < Plan(batch)[d + k].rank
        BY <2>2, <4>1 DEF Canonical
      <4>3. archive[i - 1].rank < archive[i].rank
        BY <2>5, <3>1, <4>1, <4>2, Zenon
      <4>4. i \in 1..Len(archive) /\ i - 1 \in 1..Len(archive)
        BY <2>3, <3>2
      <4>5. archive[i - 1].rank \in Nat /\ archive[i].rank \in Nat
        <5>1. archive[i - 1] \in Entry /\ archive[i] \in Entry
          BY <4>4 DEF CpioInv, CpioTypes
        <5> QED  BY <5>1 DEF Entry
      <4> QED  BY <4>3, <4>5
    <3> QED  BY <2>5, <3>1, <3>2
  <2>7. archive[Len(archive)].kind = "trailer"
    <3>1. d + f + 1 \in 1..Len(archive)
      BY <2>3
    <3>2. Plan(batch)[d + f + 1].kind = "trailer"
      BY <2>2, Zenon DEF Canonical
    <3>3. archive[d + f + 1].kind = Plan(batch)[d + f + 1].kind
      BY <2>1, <3>1, Zenon
    <3> QED  BY <2>3, <3>2, <3>3, Zenon
  <2> QED  BY <2>2, <2>3, <2>4, <2>6, <2>7 DEF ArchiveIsCanonical
<1> QED  BY <1>1, CpioInvariant, PTL

-----------------------------------------------------------------------------
\* The sums of the first 0, 1, ..., n weights.
RunSum(R, n, w) ==
  /\ R \in [0..n -> Nat] /\ R[0] = 0
  /\ \A i \in 1..n : R[i] = R[i - 1] + w[i]

\* There are such sums: no n is the least without.
LEMMA SumsExist ==
  ASSUME NEW n \in Nat, NEW w \in [1..n -> Nat]
  PROVE  \E R : RunSum(R, n, w)
<1> DEFINE Has(m) == \E R : RunSum(R, m, w)
           Bad == {m \in 0..n : ~Has(m)}
<1> SUFFICES ASSUME ~Has(n) PROVE FALSE
  OBVIOUS
<1>1. n \in Bad /\ Bad \subseteq Nat
  OBVIOUS
<1>2. PICK m \in Bad : \A k \in Bad : m <= k
  <2> HIDE DEF Bad
  <2> QED  BY <1>1, MinOfNaturals
<1>3. Has(0)
  <2>1. PICK R : R = [i \in 0..0 |-> 0]
    OBVIOUS
  <2>2. RunSum(R, 0, w)
    BY <2>1 DEF RunSum
  <2> QED  BY <2>2
<1>4. m # 0 /\ m \in 0..n /\ ~Has(m)
  BY <1>2, <1>3
<1>5. m - 1 \in 0..n /\ m - 1 \notin Bad /\ m \in 1..n
  <2>1. m - 1 < m /\ m - 1 \in 0..n /\ m \in 1..n
    BY <1>4
  <2>2. m - 1 \notin Bad
    <3> HIDE DEF Bad
    <3> QED  BY <1>2, <1>4, <2>1
  <2> QED  BY <2>1, <2>2
<1>6. PICK Q : RunSum(Q, m - 1, w)
  BY <1>5
<1>7. Q \in [0..(m - 1) -> Nat] /\ Q[0] = 0 /\ \A i \in 1..(m - 1) : Q[i] = Q[i - 1] + w[i]
  BY <1>6 DEF RunSum
<1>8. PICK R : R = [i \in 0..m |-> IF i = m THEN Q[m - 1] + w[m] ELSE Q[i]]
  OBVIOUS
<1>9. m \in Nat /\ w[m] \in Nat /\ Q[m - 1] \in Nat
  BY <1>5, <1>7
<1>10. R \in [0..m -> Nat] /\ R[0] = 0
  BY <1>4, <1>7, <1>8, <1>9
<1>11. ASSUME NEW i \in 1..m PROVE R[i] = R[i - 1] + w[i]
  <2>1. i - 1 \in 0..m /\ i - 1 # m /\ i \in 0..m
    BY <1>9
  <2>2. R[i - 1] = Q[i - 1]
    BY <1>8, <2>1
  <2>3. CASE i = m
    BY <1>8, <2>1, <2>2, <2>3
  <2>4. CASE i # m
    <3>1. i \in 1..(m - 1)
      BY <1>9, <2>4
    <3> QED  BY <1>7, <1>8, <2>1, <2>2, <2>4, <3>1
  <2> QED  BY <2>3, <2>4
<1>12. RunSum(R, m, w)
  BY <1>10, <1>11 DEF RunSum
<1> QED  BY <1>4, <1>12

\* The sums of weights that are sums of weights.
AddUp(n, u, v, w, A, B, R) ==
  /\ n \in Nat /\ u \in [1..n -> Nat] /\ v \in [1..n -> Nat]
  /\ \A i \in 1..n : w[i] = u[i] + v[i]
  /\ RunSum(A, n, u) /\ RunSum(B, n, v) /\ RunSum(R, n, w)

\* Sums of sums.
LEMMA SumsAdd ==
  ASSUME NEW n, NEW u, NEW v, NEW w, NEW A, NEW B, NEW R, AddUp(n, u, v, w, A, B, R)
  PROVE  R[n] = A[n] + B[n]
<1>a. /\ n \in Nat /\ u \in [1..n -> Nat] /\ v \in [1..n -> Nat]
      /\ \A i \in 1..n : w[i] = u[i] + v[i]
      /\ RunSum(A, n, u) /\ RunSum(B, n, v) /\ RunSum(R, n, w)
  BY DEF AddUp
<1> DEFINE Bad == {i \in 0..n : R[i] # A[i] + B[i]}
<1> SUFFICES ASSUME R[n] # A[n] + B[n] PROVE FALSE
  OBVIOUS
<1>1. n \in Bad /\ Bad \subseteq Nat
  BY <1>a
<1>2. PICK m \in Bad : \A k \in Bad : m <= k
  <2> HIDE DEF Bad
  <2> QED  BY <1>1, MinOfNaturals
<1>3. m \in 0..n /\ R[m] # A[m] + B[m]
  BY <1>2
<1>4. m # 0
  BY <1>a, <1>3 DEF RunSum
<1>5. m - 1 \in 0..n /\ m \in 1..n /\ m - 1 < m
  BY <1>a, <1>3, <1>4
<1>6. m - 1 \notin Bad
  <2> HIDE DEF Bad
  <2> QED  BY <1>2, <1>3, <1>5, <1>a
<1>7. R[m - 1] = A[m - 1] + B[m - 1]
  BY <1>5, <1>6
<1>8. /\ R[m] = R[m - 1] + w[m] /\ A[m] = A[m - 1] + u[m] /\ B[m] = B[m - 1] + v[m]
      /\ w[m] = u[m] + v[m]
  BY <1>a, <1>5 DEF RunSum
<1>9. PICK a \in Nat, b \in Nat, c \in Nat, d \in Nat :
        a = A[m - 1] /\ b = B[m - 1] /\ c = u[m] /\ d = v[m]
  BY <1>a, <1>5 DEF RunSum
<1>10. R[m] = (a + b) + (c + d) /\ A[m] = a + c /\ B[m] = b + d
  BY <1>7, <1>8, <1>9, Zenon
<1>11. (a + b) + (c + d) = (a + c) + (b + d)
  OBVIOUS
<1> QED  BY <1>3, <1>10, <1>11, Zenon

\* The same weights have the same sums.
LEMMA SumsUnique ==
  ASSUME NEW n \in Nat, NEW w \in [1..n -> Nat], NEW A, NEW R, RunSum(A, n, w), RunSum(R, n, w)
  PROVE  R[n] = A[n]
<1> DEFINE Bad == {i \in 0..n : R[i] # A[i]}
<1> SUFFICES ASSUME R[n] # A[n] PROVE FALSE
  OBVIOUS
<1>1. n \in Bad /\ Bad \subseteq Nat
  OBVIOUS
<1>2. PICK m \in Bad : \A k \in Bad : m <= k
  <2> HIDE DEF Bad
  <2> QED  BY <1>1, MinOfNaturals
<1>3. m \in 0..n /\ R[m] # A[m]
  BY <1>2
<1>4. m # 0
  BY <1>3 DEF RunSum
<1>5. m - 1 \in 0..n /\ m \in 1..n /\ m - 1 < m
  BY <1>3, <1>4
<1>6. m - 1 \notin Bad
  <2> HIDE DEF Bad
  <2> QED  BY <1>2, <1>3, <1>5
<1> QED  BY <1>3, <1>5, <1>6 DEF RunSum

\* Sums grow.
LEMMA SumsGrow ==
  ASSUME NEW n \in Nat, NEW w \in [1..n -> Nat], NEW R, RunSum(R, n, w), NEW k \in 0..n
  PROVE  R[k] <= R[n]
<1> DEFINE Bad == {i \in 0..n : k <= i /\ R[i] < R[k]}
<1>0. \A i \in 0..n : R[i] \in Nat
  BY DEF RunSum
<1> SUFFICES ASSUME R[n] < R[k] PROVE FALSE
  BY <1>0
<1>1. n \in Bad /\ Bad \subseteq Nat
  OBVIOUS
<1>2. PICK m \in Bad : \A j \in Bad : m <= j
  <2> HIDE DEF Bad
  <2> QED  BY <1>1, MinOfNaturals
<1>3. m \in 0..n /\ k <= m /\ R[m] < R[k]
  BY <1>2
<1>4. m # k
  BY <1>0, <1>3
<1>5. m - 1 \in 0..n /\ m \in 1..n /\ m - 1 < m /\ k <= m - 1
  BY <1>3, <1>4
<1>6. m - 1 \notin Bad
  <2> HIDE DEF Bad
  <2> QED  BY <1>2, <1>3, <1>5
<1>7. ~(R[m - 1] < R[k])
  BY <1>5, <1>6
<1>8. R[m] = R[m - 1] + w[m] /\ w[m] \in Nat
  BY <1>5 DEF RunSum
<1> QED  BY <1>0, <1>3, <1>5, <1>7, <1>8

\* The sums of weights of which one only is not 0.
LEMMA SingleSum ==
  ASSUME NEW n \in Nat, NEW k \in 1..n, NEW v \in Nat
  PROVE  \E R : RunSum(R, n, [i \in 1..n |-> IF i = k THEN v ELSE 0]) /\ R[n] = v
<1> DEFINE R == [i \in 0..n |-> IF i < k THEN 0 ELSE v]
           w == [i \in 1..n |-> IF i = k THEN v ELSE 0]
<1>1. R \in [0..n -> Nat] /\ R[0] = 0
  OBVIOUS
<1>2. ASSUME NEW i \in 1..n PROVE R[i] = R[i - 1] + w[i]
  <2>1. i \in 0..n /\ i - 1 \in 0..n
    OBVIOUS
  <2>2. R[i] = (IF i < k THEN 0 ELSE v) /\ R[i - 1] = (IF i - 1 < k THEN 0 ELSE v)
    BY <2>1
  <2>3. w[i] = IF i = k THEN v ELSE 0
    OBVIOUS
  <2> HIDE DEF R, w
  <2> QED  BY <2>2, <2>3
<1>3. R[n] = v
  OBVIOUS
<1> HIDE DEF R, w
<1>4. RunSum(R, n, w) /\ R[n] = v
  BY <1>1, <1>2, <1>3 DEF RunSum
<1>5. \E Q : RunSum(Q, n, w) /\ Q[n] = v
  BY <1>4
<1> QED  BY <1>5 DEF w

\* p goes through S without repeating an element.
Enumerates(p, n, S) ==
  /\ \A i, j \in 1..n : p[i] = p[j] => i = j
  /\ \A x \in S : \E i \in 1..n : p[i] = x

\* The values of f at the places of p that are in s.
Within(p, f, n, s) == [i \in 1..n |-> IF p[i] \in s THEN f[p[i]] ELSE 0]

\* Its values are natural numbers.
LEMMA WithinType ==
  ASSUME NEW n \in Nat, NEW S, NEW f \in [S -> Nat], NEW p \in [1..n -> S], NEW s
  PROVE  Within(p, f, n, s) \in [1..n -> Nat]
BY DEF Within

\* The sums with and without an element.
Without(n, S, p, f, s, x, A, R) ==
  /\ n \in Nat /\ f \in [S -> Nat] /\ p \in [1..n -> S] /\ Enumerates(p, n, S)
  /\ s \in SUBSET S /\ x \in s
  /\ RunSum(A, n, Within(p, f, n, s \ {x})) /\ RunSum(R, n, Within(p, f, n, s))

\* Taking an element out of a set takes its value out of the sum.
LEMMA TakeOut ==
  ASSUME NEW n, NEW S, NEW p, NEW f, NEW s, NEW x, NEW A, NEW R, Without(n, S, p, f, s, x, A, R)
  PROVE  R[n] = f[x] + A[n]
<1>a. /\ n \in Nat /\ f \in [S -> Nat] /\ p \in [1..n -> S] /\ Enumerates(p, n, S)
      /\ s \in SUBSET S /\ x \in s
  BY DEF Without
<1>0. RunSum(A, n, Within(p, f, n, s \ {x})) /\ RunSum(R, n, Within(p, f, n, s))
  BY DEF Without
<1>1. PICK k \in 1..n, v \in Nat : p[k] = x /\ v = f[x]
  BY <1>a DEF Enumerates
<1>2. PICK u \in [1..n -> Nat] : u = Within(p, f, n, s \ {x})
  BY <1>a, WithinType
<1>3. PICK w \in [1..n -> Nat] : w = Within(p, f, n, s)
  BY <1>a, WithinType
<1>4. PICK o \in [1..n -> Nat] : o = [i \in 1..n |-> IF i = k THEN v ELSE 0]
  OBVIOUS
<1>5. PICK B : RunSum(B, n, o) /\ B[n] = v
  <2>1. \E Q : RunSum(Q, n, [i \in 1..n |-> IF i = k THEN v ELSE 0]) /\ Q[n] = v
    BY <1>a, SingleSum
  <2> QED  BY <1>4, <2>1, Zenon
<1>6. ASSUME NEW i \in 1..n PROVE w[i] = o[i] + u[i]
  <2>1. CASE i = k
    <3>1. w[i] = v /\ o[i] = v /\ u[i] = 0
      BY <1>1, <1>2, <1>3, <1>4, <2>1, <1>a DEF Within
    <3> QED  BY <3>1
  <2>2. CASE i # k
    <3>1. p[i] # p[k]
      BY <1>a, <2>2 DEF Enumerates
    <3>2. w[i] = u[i] /\ o[i] = 0 /\ u[i] \in Nat
      BY <1>1, <1>2, <1>3, <1>4, <2>2, <3>1, <1>a DEF Within
    <3> QED  BY <3>2
  <2> QED  BY <2>1, <2>2
<1>7. RunSum(A, n, u) /\ RunSum(R, n, w)
  BY <1>0, <1>2, <1>3, Zenon
<1>8. AddUp(n, o, u, w, B, A, R)
  BY <1>a, <1>5, <1>6, <1>7 DEF AddUp
<1>9. R[n] = B[n] + A[n]
  BY <1>8, SumsAdd
<1> QED  BY <1>1, <1>5, <1>9, Zenon

\* What SumFunction computes: a function that solves its recursion.
Recursion(g, f, S) ==
  g = [s \in SUBSET S |-> IF s = {} THEN 0
                          ELSE f[CHOOSE x \in s : TRUE] + g[s \ {CHOOSE x \in s : TRUE}]]

\* The sum of the community module, as such a function.
LEMMA Unfold ==
  ASSUME NEW f
  PROVE  SumFunction(f) = (CHOOSE g : Recursion(g, f, DOMAIN f))[DOMAIN f]
BY DEF SumFunction, SumFunctionOnSet, FoldFunctionOnSet, MapThenFoldSet, Recursion

\* The sums of the values of f in the order of p.
InOrderOf(R, n, S, f, p) ==
  /\ n \in Nat /\ f \in [S -> Nat] /\ p \in [1..n -> S] /\ Enumerates(p, n, S)
  /\ RunSum(R, n, [i \in 1..n |-> f[p[i]]])

\* In whichever order the values of a function are added, the sum is SumFunction.
LEMMA PermutedSum ==
  ASSUME NEW R, NEW n, NEW S, NEW f, NEW p, InOrderOf(R, n, S, f, p)
  PROVE  SumFunction(f) = R[n]
<1>a. /\ n \in Nat /\ f \in [S -> Nat] /\ p \in [1..n -> S] /\ Enumerates(p, n, S)
      /\ RunSum(R, n, [i \in 1..n |-> f[p[i]]])
  BY DEF InOrderOf
<1> DEFINE Sums(s) == CHOOSE Q : RunSum(Q, n, Within(p, f, n, s))
<1>1. \A s : RunSum(Sums(s), n, Within(p, f, n, s))
  BY <1>a, WithinType, SumsExist
<1> HIDE DEF Sums
<1>2. PICK T : T = [s \in SUBSET S |-> Sums(s)[n]]
  OBVIOUS
<1>3. T[{}] = 0
  <2>1. PICK z \in [1..n -> Nat] : z = Within(p, f, n, {})
    BY <1>a, WithinType
  <2>2. \A i \in 1..n : z[i] = 0
    BY <1>a, <2>1 DEF Within
  <2>3. PICK Z : Z = [i \in 0..n |-> 0]
    OBVIOUS
  <2>4. RunSum(Z, n, z) /\ Z[n] = 0
    BY <1>a, <2>2, <2>3 DEF RunSum
  <2>5. RunSum(Sums({}), n, z)
    BY <1>1, <2>1, Zenon
  <2>6. Sums({})[n] = Z[n]
    <3>1. RunSum(Z, n, z) /\ z \in [1..n -> Nat]
      BY <2>4
    <3> QED  BY <1>a, <2>5, <3>1, SumsUnique, Zenon
  <2> QED  BY <1>2, <2>4, <2>6
<1>4. ASSUME NEW s \in SUBSET S, NEW x \in s PROVE T[s] = f[x] + T[s \ {x}]
  <2>1. Without(n, S, p, f, s, x, Sums(s \ {x}), Sums(s))
    BY <1>a, <1>1 DEF Without
  <2>2. Sums(s)[n] = f[x] + Sums(s \ {x})[n]
    BY <2>1, TakeOut
  <2> QED  BY <1>2, <2>2
<1>5. Recursion(T, f, S)
  <2>1. ASSUME NEW s \in SUBSET S
        PROVE  T[s] = IF s = {} THEN 0
                      ELSE f[CHOOSE x \in s : TRUE] + T[s \ {CHOOSE x \in s : TRUE}]
    <3>1. CASE s = {}
      BY <1>3, <3>1
    <3>2. CASE s # {}
      <4>1. PICK x \in s : x = CHOOSE y \in s : TRUE
        BY <3>2
      <4> QED  BY <1>4, <3>2, <4>1
    <3> QED  BY <3>1, <3>2
  <2> QED  BY <1>2, <2>1 DEF Recursion
<1>6. PICK g : g = (CHOOSE h : Recursion(h, f, S)) /\ Recursion(g, f, S)
  BY <1>5
<1>7. SumFunction(f) = g[S]
  <2>1. DOMAIN f = S
    BY <1>a
  <2> QED  BY <1>6, <2>1, Unfold
<1>8. IsFiniteSet(S)
  <2>1. p \in Surjection(1..n, S)
    BY <1>a DEF Surjection, Enumerates
  <2>2. IsFiniteSet(1..n)
    BY <1>a, FS_Interval
  <2> QED  BY <2>1, <2>2, FS_Surjection
<1>9. g[S] = T[S]
  <2> DEFINE Bad == {k \in Nat : \E s \in SUBSET S : Cardinality(s) = k /\ g[s] # T[s]}
  <2> SUFFICES ASSUME g[S] # T[S] PROVE FALSE
    OBVIOUS
  <2>0. \A s \in SUBSET S : IsFiniteSet(s) /\ Cardinality(s) \in Nat
    BY <1>8, FS_Subset, FS_CardinalityType
  <2>1. Cardinality(S) \in Bad /\ Bad \subseteq Nat
    BY <2>0
  <2>2. PICK k \in Bad : \A j \in Bad : k <= j
    <3> HIDE DEF Bad
    <3> QED  BY <2>1, MinOfNaturals
  <2>3. PICK s \in SUBSET S : Cardinality(s) = k /\ g[s] # T[s]
    BY <2>2
  <2>a. g[s] = IF s = {} THEN 0
               ELSE f[CHOOSE x \in s : TRUE] + g[s \ {CHOOSE x \in s : TRUE}]
    <3>1. PICK h : h = [r \in SUBSET S |-> IF r = {} THEN 0
                          ELSE f[CHOOSE x \in r : TRUE] + g[r \ {CHOOSE x \in r : TRUE}]]
      OBVIOUS
    <3>2. g = h
      BY <1>6, <3>1, Zenon DEF Recursion
    <3>3. h[s] = IF s = {} THEN 0
               ELSE f[CHOOSE x \in s : TRUE] + g[s \ {CHOOSE x \in s : TRUE}]
      BY <3>1
    <3> QED  BY <3>2, <3>3, Zenon
  <2>4. s # {}
    BY <1>3, <2>3, <2>a
  <2>5. PICK x \in s : x = CHOOSE y \in s : TRUE
    BY <2>4
  <2>6. T[s] = f[x] + T[s \ {x}]
    BY <1>4
  <2>7. g[s] = f[x] + g[s \ {x}]
    BY <2>4, <2>5, <2>a
  <2>8. Cardinality(s \ {x}) = k - 1 /\ k \in Nat /\ s \ {x} \in SUBSET S
    BY <2>0, <2>2, <2>3, FS_RemoveElement
  <2>9. Cardinality(s \ {x}) \in Bad
    BY <2>0, <2>3, <2>6, <2>7, <2>8
  <2> HIDE DEF Bad
  <2> QED  BY <2>2, <2>8, <2>9
<1>10. T[S] = R[n]
  <2>1. PICK w : w = Within(p, f, n, S)
    OBVIOUS
  <2>2. w = [i \in 1..n |-> f[p[i]]] /\ w \in [1..n -> Nat]
    BY <1>a, <2>1 DEF Within
  <2>3. RunSum(Sums(S), n, w)
    BY <1>1, <2>1, Zenon
  <2>4. RunSum(R, n, w)
    BY <1>a, <2>2, Zenon
  <2>5. Sums(S)[n] = R[n]
    BY <1>a, <2>2, <2>3, <2>4, SumsUnique, Zenon
  <2> QED  BY <1>2, <2>5
<1> QED  BY <1>7, <1>9, <1>10

\* Which file is at each position of the sorted ones.
SortedBy(p, f, files) ==
  /\ p \in [1..f -> 1..f] /\ Enumerates(p, f, 1..f)
  /\ \A i \in 1..f : SortedFiles(files)[i] = files[p[i]]

\* Every file of the batch is at one position.
LEMMA Sorting ==
  ASSUME NEW files \in Seq(File), Distinct(files), NEW f, f = Len(files)
  PROVE  \E p : SortedBy(p, f, files)
<1>1. SortOf(SortedFiles(files), files) /\ f \in Nat
  BY SortedFilesFacts
<1>2. PICK s \in Seq(File) : s = SortedFiles(files)
  BY <1>1 DEF SortOf
<1>3. /\ Len(s) = f
      /\ \A i \in 1..f : \E k \in 1..f : s[i] = files[k]
      /\ \A i, j \in 1..f : i < j => s[i].rank < s[j].rank
  BY <1>1, <1>2 DEF SortOf
<1>4. PICK p \in [1..f -> 1..f] : \A i \in 1..f : s[i] = files[p[i]]
  <2> DEFINE At(i) == CHOOSE k \in 1..f : s[i] = files[k]
  <2>1. \A i \in 1..f : At(i) \in 1..f /\ s[i] = files[At(i)]
    BY <1>3
  <2> HIDE DEF At
  <2>2. [i \in 1..f |-> At(i)] \in [1..f -> 1..f]
    BY <2>1
  <2> QED  BY <2>1, <2>2
<1>5. ASSUME NEW i \in 1..f, NEW j \in 1..f, p[i] = p[j] PROVE i = j
  <2>1. s[i].rank = s[j].rank /\ s[i].rank \in Nat /\ s[j].rank \in Nat
    <3>1. s[i] \in File /\ s[j] \in File
      <4>1. s \in Seq(File) /\ Len(s) = f
        BY <1>3
      <4> QED  BY <4>1
    <3> QED  BY <1>4, <1>5, <3>1 DEF File
  <2>2. ~(s[i].rank < s[j].rank) /\ ~(s[j].rank < s[i].rank)
    BY <2>1
  <2>3. ~(i < j) /\ ~(j < i)
    BY <1>3, <2>2, Zenon
  <2> QED  BY <1>1, <2>3
<1>6. \A x \in 1..f : \E i \in 1..f : p[i] = x
  <2>1. p \in Injection(1..f, 1..f)
    BY <1>5 DEF Injection, IsInjective
  <2>2. IsFiniteSet(1..f)
    BY <1>1, FS_Interval
  <2>3. p \in Surjection(1..f, 1..f)
    BY <2>1, <2>2, FS_Injection
  <2> QED  BY <2>3 DEF Surjection
<1>7. Enumerates(p, f, 1..f)
  BY <1>5, <1>6, Zenon DEF Enumerates
<1>8. SortedBy(p, f, files)
  BY <1>2, <1>4, <1>7, Zenon DEF SortedBy
<1> QED  BY <1>8, Zenon

\* A length is padded to the next multiple.
LEMMA NextMultiplePads ==
  ASSUME NEW n \in Nat
  PROVE  /\ NextMultiple(n) = n + ComputePad4(n) /\ NextMultiple(n) \in Nat
         /\ n <= NextMultiple(n) /\ NextMultiple(n) <= n + 3
<1>1. PICK pad \in 0..3 : pad = ComputePad4(n) /\ (n + pad) % 4 = 0
  BY PadType
<1>2. PICK m \in Nat : m = n + pad /\ n <= m /\ m <= n + 3 /\ m % 4 = 0
  BY <1>1
<1>3. NextMultiple(n) = m
  BY <1>2, NextMultipleIs
<1> QED  BY <1>1, <1>2, <1>3

\* What a call adds to the buffer.
CallName(c) == FullName(c.prefix, c.name)
\* The header with the name.
HeaderOf(c) == NextMultiple(StaticHeaderLen + CallName(c) + 1)
ContentOf(c) == NextMultiple(c.size)

\* The types of these lengths, and that they are not shorter than what they hold.
LEMMA CallTypes ==
  ASSUME NEW c \in Call
  PROVE  /\ CallName(c) \in Nat /\ c.prefix + c.name <= CallName(c)
         /\ HeaderOf(c) \in Nat /\ ContentOf(c) \in Nat
         /\ StaticHeaderLen + CallName(c) + 1 <= HeaderOf(c) /\ c.size <= ContentOf(c)
<1>1. PICK prefix \in Nat, name \in Nat, size \in Nat :
        prefix = c.prefix /\ name = c.name /\ size = c.size
  BY DEF Call
<1>2. PICK full \in Nat : full = CallName(c) /\ prefix + name <= full
  BY <1>1 DEF CallName, FullName
<1>3. PICK h \in Nat : h = StaticHeaderLen + full + 1
  BY DEF StaticHeaderLen
<1>4. NextMultiple(h) \in Nat /\ h <= NextMultiple(h) /\ NextMultiple(size) \in Nat /\ size <= NextMultiple(size)
  BY NextMultiplePads
<1> QED  BY <1>1, <1>2, <1>3, <1>4 DEF HeaderOf, ContentOf

\* The names of a batch, one after the other.
NameParts(names, b, d, f) ==
  /\ names \in Seq(Nat) /\ Len(names) = d + f + 1
  /\ \A i \in 1..d : names[i] = 1 + b.prefix[i]
  /\ \A i \in 1..f : names[d + i] = FullName(b.prefix[d], b.files[i].name)
  /\ names[d + f + 1] = TrailerNameLen

\* The names of Fits, in the order of the arguments.
LEMMA NamesAre ==
  ASSUME NEW b \in Batches
  PROVE  NameParts(Names(b), b, Len(b.prefix), Len(b.files))
<1>1. b.prefix \in Seq(Nat) /\ b.prefix # <<>> /\ b.files \in Seq(File)
  BY CpioAssumption DEF File
<1>0. PICK d \in Nat \ {0}, f \in Nat : d = Len(b.prefix) /\ f = Len(b.files)
  BY <1>1
<1>2. \A i \in 1..d : b.prefix[i] \in Nat
  BY <1>0, <1>1
<1>3. PICK last \in Nat : last = b.prefix[Len(b.prefix)] /\ last = b.prefix[d]
  BY <1>0, <1>2
<1>4. \A i \in 1..f : FullName(last, b.files[i].name) \in Nat
  <2>1. \A i \in 1..f : b.files[i] \in File
    BY <1>0, <1>1
  <2> QED  BY <2>1 DEF FullName, File
<1>5. PICK ds \in Seq(Nat) : /\ ds = [n \in 1..Len(b.prefix) |-> 1 + b.prefix[n]] /\ Len(ds) = d
                             /\ \A i \in 1..d : ds[i] = 1 + b.prefix[i]
  <2>1. \A i \in 1..d : 1 + b.prefix[i] \in Nat
    BY <1>2
  <2>2. [n \in 1..Len(b.prefix) |-> 1 + b.prefix[n]] = [n \in 1..d |-> 1 + b.prefix[n]]
    BY <1>0
  <2>3. PICK s : s = [n \in 1..d |-> 1 + b.prefix[n]]
    OBVIOUS
  <2>4. s \in Seq(Nat) /\ Len(s) = d /\ \A i \in 1..d : s[i] = 1 + b.prefix[i]
    <3>1. s \in [1..d -> Nat]
      BY <2>1, <2>3, Zenon
    <3>2. s \in Seq(Nat) /\ Len(s) = d
      BY <3>1
    <3>3. \A i \in 1..d : s[i] = 1 + b.prefix[i]
      BY <2>3, Zenon
    <3> QED  BY <3>2, <3>3
  <2> QED  BY <2>2, <2>3, <2>4, Zenon
<1>6. PICK fs \in Seq(Nat) :
        /\ fs = [i \in 1..Len(b.files) |-> FullName(b.prefix[Len(b.prefix)], b.files[i].name)] /\ Len(fs) = f
        /\ \A i \in 1..f : fs[i] = FullName(last, b.files[i].name)
  <2>1. [i \in 1..Len(b.files) |-> FullName(b.prefix[Len(b.prefix)], b.files[i].name)]
        = [i \in 1..f |-> FullName(last, b.files[i].name)]
    BY <1>0, <1>3
  <2>2. PICK s : s = [i \in 1..f |-> FullName(last, b.files[i].name)]
    OBVIOUS
  <2>3. s \in Seq(Nat) /\ Len(s) = f /\ \A i \in 1..f : s[i] = FullName(last, b.files[i].name)
    <3>1. s \in [1..f -> Nat]
      BY <1>4, <2>2, Zenon
    <3>2. s \in Seq(Nat) /\ Len(s) = f
      BY <3>1
    <3>3. \A i \in 1..f : s[i] = FullName(last, b.files[i].name)
      BY <2>2, Zenon
    <3> QED  BY <3>2, <3>3
  <2> QED  BY <2>1, <2>2, <2>3, Zenon
<1>7. PICK ts \in Seq(Nat) : ts = <<TrailerNameLen>> /\ Len(ts) = 1 /\ ts[1] = TrailerNameLen
  <2>1. PICK t \in Nat : t = TrailerNameLen
    BY DEF TrailerNameLen
  <2>2. <<t>> \in Seq(Nat) /\ Len(<<t>>) = 1 /\ <<t>>[1] = t
    OBVIOUS
  <2> QED  BY <2>1, <2>2
<1>8. PICK left \in Seq(Nat) : left = ds \o fs /\ Joins(left, ds, d, fs, f, Nat)
  <2>1. Joins(ds \o fs, ds, d, fs, f, Nat)
    BY <1>5, <1>6, JoinedLengths, Zenon
  <2> QED  BY <2>1 DEF Joins
<1>9. PICK all \in Seq(Nat) : all = left \o ts /\ Joins(all, left, d + f, ts, 1, Nat)
  <2>1. Len(left) = d + f /\ Len(ts) = 1
    BY <1>7, <1>8 DEF Joins
  <2>2. Joins(left \o ts, left, d + f, ts, 1, Nat)
    BY <2>1, JoinedLengths, Zenon
  <2> QED  BY <2>2 DEF Joins
<1>10. Names(b) = all
  BY <1>5, <1>6, <1>7, <1>8, <1>9 DEF Names
<1>11. \A i \in 1..d : all[i] = ds[i]
  <2>1. \A i \in 1..d : i \in 1..(d + f)
    OBVIOUS
  <2> QED  BY <1>8, <1>9, <2>1, Zenon DEF Joins
<1>12. \A i \in 1..f : all[d + i] = fs[i]
  <2>1. \A i \in 1..f : d + i \in 1..(d + f)
    OBVIOUS
  <2> QED  BY <1>8, <1>9, <2>1, Zenon DEF Joins
<1>13. Len(all) = d + f + 1 /\ all[d + f + 1] = ts[1]
  <2>1. 1 \in 1..1
    OBVIOUS
  <2> QED  BY <1>9, <2>1, Zenon DEF Joins
<1>14. NameParts(all, b, d, f)
  <2>1. \A i \in 1..d : all[i] = 1 + b.prefix[i]
    BY <1>5, <1>11, Zenon
  <2>2. \A i \in 1..f : all[d + i] = FullName(b.prefix[d], b.files[i].name)
    BY <1>3, <1>6, <1>12, Zenon
  <2>3. all[d + f + 1] = TrailerNameLen
    BY <1>7, <1>13, Zenon
  <2> QED  BY <1>13, <2>1, <2>2, <2>3, Zenon DEF NameParts
<1> QED  BY <1>0, <1>10, <1>14, Zenon

\* Which name and which file of the batch each call of the plan is about.
Layout(plan, b, d, f, q, p) ==
  /\ p \in [1..f -> 1..f] /\ Enumerates(p, f, 1..f)
  /\ q \in [1..(d + f + 1) -> 1..(d + f + 1)] /\ Enumerates(q, d + f + 1, 1..(d + f + 1))
  /\ \A i \in 1..(d + f + 1) : CallName(plan[i]) = Names(b)[q[i]]
  /\ \A i \in 1..d : plan[i].size = 0 /\ plan[i].kind = "dir" /\ plan[i].prefix = 0
  /\ \A i \in 1..f : plan[d + i].size = b.files[p[i]].size /\ plan[d + i].kind = "file"
  /\ plan[d + f + 1].size = 0 /\ plan[d + f + 1].kind = "trailer"

\* The position in the names of Fits of each position in the plan: the files move.
MovedTo(q, p, d, f) ==
  /\ q \in [1..(d + f + 1) -> 1..(d + f + 1)]
  /\ Enumerates(q, d + f + 1, 1..(d + f + 1))
  /\ \A i \in 1..d : q[i] = i
  /\ \A i \in 1..f : q[d + i] = d + p[i]
  /\ q[d + f + 1] = d + f + 1

\* There is such an order.
LEMMA Moved ==
  ASSUME NEW d \in Nat, NEW f \in Nat, NEW p \in [1..f -> 1..f], Enumerates(p, f, 1..f)
  PROVE  \E q : MovedTo(q, p, d, f)
<1>1. PICK n \in Nat : n = d + f + 1
  OBVIOUS
<1>2. PICK q : q = [i \in 1..n |-> IF i \in (d + 1)..(d + f) THEN d + p[i - d] ELSE i]
  OBVIOUS
<1>3. ASSUME NEW i \in (d + 1)..(d + f)
      PROVE  i \in 1..n /\ i - d \in 1..f /\ q[i] = d + p[i - d] /\ q[i] \in (d + 1)..(d + f)
  <2>1. i \in 1..n /\ i - d \in 1..f
    BY <1>1
  <2>2. PICK k \in 1..f : k = p[i - d]
    BY <2>1
  <2>3. d + k \in (d + 1)..(d + f)
    OBVIOUS
  <2>4. q[i] = d + p[i - d]
    BY <1>2, <2>1
  <2> QED  BY <2>1, <2>2, <2>3, <2>4
<1>4. ASSUME NEW i \in 1..n, i \notin (d + 1)..(d + f) PROVE q[i] = i
  BY <1>2, <1>4
<1>5. q \in [1..n -> 1..n]
  <2>1. \A i \in 1..n : q[i] \in 1..n
    <3> SUFFICES ASSUME NEW i \in 1..n PROVE q[i] \in 1..n
      OBVIOUS
    <3>1. CASE i \in (d + 1)..(d + f)
      <4>1. q[i] \in (d + 1)..(d + f)
        BY <1>3, <3>1
      <4> QED  BY <1>1, <4>1
    <3>2. CASE i \notin (d + 1)..(d + f)
      BY <1>4, <3>2
    <3> QED  BY <3>1, <3>2
  <2> QED  BY <1>2, <2>1
<1>6. ASSUME NEW i \in 1..n, NEW j \in 1..n, q[i] = q[j] PROVE i = j
  <2>1. CASE i \in (d + 1)..(d + f) /\ j \in (d + 1)..(d + f)
    <3>1. PICK a \in 1..f, c \in 1..f : a = i - d /\ c = j - d /\ q[i] = d + p[a] /\ q[j] = d + p[c]
      BY <1>3, <2>1
    <3>2. p[a] \in 1..f /\ p[c] \in 1..f /\ d + p[a] = d + p[c]
      BY <1>6, <3>1
    <3>3. p[a] = p[c]
      BY <3>2
    <3>4. a = c
      BY <3>3 DEF Enumerates
    <3> QED  BY <2>1, <3>1, <3>4
  <2>2. CASE i \in (d + 1)..(d + f) /\ j \notin (d + 1)..(d + f)
    BY <1>3, <1>4, <1>6, <2>2
  <2>3. CASE i \notin (d + 1)..(d + f) /\ j \in (d + 1)..(d + f)
    BY <1>3, <1>4, <1>6, <2>3
  <2>4. CASE i \notin (d + 1)..(d + f) /\ j \notin (d + 1)..(d + f)
    BY <1>4, <1>6, <2>4
  <2> QED  BY <2>1, <2>2, <2>3, <2>4
<1>7. \A x \in 1..n : \E i \in 1..n : q[i] = x
  <2>1. q \in Injection(1..n, 1..n)
    BY <1>5, <1>6 DEF Injection, IsInjective
  <2>2. IsFiniteSet(1..n)
    BY FS_Interval
  <2>3. q \in Surjection(1..n, 1..n)
    BY <2>1, <2>2, FS_Injection
  <2> QED  BY <2>3 DEF Surjection
<1>8. Enumerates(q, n, 1..n)
  BY <1>6, <1>7 DEF Enumerates
<1>9. ASSUME NEW i \in 1..d PROVE q[i] = i
  <2>1. i \in 1..n /\ i \notin (d + 1)..(d + f)
    BY <1>1
  <2> QED  BY <1>4, <2>1
<1>10. ASSUME NEW i \in 1..f PROVE q[d + i] = d + p[i]
  <2>1. d + i \in (d + 1)..(d + f) /\ (d + i) - d = i
    OBVIOUS
  <2> QED  BY <1>3, <2>1
<1>11. q[n] = n
  <2>1. n \in 1..n /\ n \notin (d + 1)..(d + f)
    BY <1>1
  <2> QED  BY <1>4, <2>1
<1>12. MovedTo(q, p, d, f)
  BY <1>1, <1>5, <1>8, <1>9, <1>10, <1>11 DEF MovedTo
<1> QED  BY <1>12

\* Every plan has such a layout.
LEMMA PlanLayout ==
  ASSUME NEW b \in Batches
  PROVE  \E q, p : Layout(Plan(b), b, Len(b.prefix), Len(b.files), q, p)
<1>1. b.prefix \in Seq(Nat) /\ b.prefix # <<>> /\ b.files \in Seq(File) /\ Distinct(b.files)
  BY CpioAssumption DEF File, Distinct
<1>2. PICK d \in Nat \ {0}, f \in Nat : d = Len(b.prefix) /\ f = Len(b.files)
  BY <1>1
<1>3. PICK p \in [1..f -> 1..f] :
        Enumerates(p, f, 1..f) /\ \A i \in 1..f : SortedFiles(b.files)[i] = b.files[p[i]]
  <2>1. PICK p : SortedBy(p, f, b.files)
    BY <1>1, <1>2, Sorting, Zenon
  <2> QED  BY <2>1, Zenon DEF SortedBy
<1>4. PICK q \in [1..(d + f + 1) -> 1..(d + f + 1)] :
           /\ Enumerates(q, d + f + 1, 1..(d + f + 1))
           /\ \A i \in 1..d : q[i] = i
           /\ \A i \in 1..f : q[d + i] = d + p[i]
           /\ q[d + f + 1] = d + f + 1
  <2>1. d \in Nat
    OBVIOUS
  <2>2. Enumerates(p, f, 1..f)
    BY <1>3
  <2>3. PICK q : MovedTo(q, p, d, f)
    BY <2>1, <2>2, Moved
  <2> QED  BY <2>3 DEF MovedTo
<1>5. PICK plan, names : plan = Plan(b) /\ names = Names(b)
  OBVIOUS
<1>6. NameParts(names, b, d, f)
  BY <1>2, <1>5, NamesAre, Zenon
<1>7. Parts(plan, b, d, f)
  BY <1>2, <1>5, PlanIsCanonical, Zenon
<1>8. ASSUME NEW i \in 1..d
      PROVE  /\ plan[i].size = 0 /\ plan[i].kind = "dir" /\ plan[i].prefix = 0
             /\ CallName(plan[i]) = names[q[i]]
  <2>1. plan[i] = Directories(b.prefix)[i]
    BY <1>7, Zenon DEF Parts
  <2>2. i \in 1..Len(b.prefix)
    BY <1>2
  <2>3. plan[i].size = 0 /\ plan[i].kind = "dir" /\ plan[i].prefix = 0 /\ plan[i].name = 1 + b.prefix[i]
    BY <2>1, <2>2 DEF Directories
  <2>4. names[q[i]] = 1 + b.prefix[i]
    BY <1>4, <1>6 DEF NameParts
  <2> QED  BY <2>3, <2>4 DEF CallName, FullName
<1>9. ASSUME NEW i \in 1..f
      PROVE  /\ plan[d + i].size = b.files[p[i]].size /\ plan[d + i].kind = "file"
             /\ CallName(plan[d + i]) = names[q[d + i]]
  <2>1. plan[d + i] = FileCalls(b.prefix, SortedFiles(b.files))[i]
    BY <1>7, Zenon DEF Parts
  <2>2. PICK s : s = SortedFiles(b.files) /\ Len(s) = f
    <3>1. SortOf(SortedFiles(b.files), b.files)
      BY <1>1, SortedFilesFacts, Zenon
    <3> QED  BY <1>2, <3>1 DEF SortOf
  <2>3. PICK file : file = b.files[p[i]] /\ s[i] = file
    BY <1>3, <2>2, Zenon
  <2>4. /\ plan[d + i].size = file.size /\ plan[d + i].kind = "file"
        /\ plan[d + i].prefix = b.prefix[Len(b.prefix)] /\ plan[d + i].name = file.name
    <3>1. FileCalls(b.prefix, s) = [k \in 1..f |->
            [kind |-> "file", rank |-> s[k].rank, prefix |-> b.prefix[Len(b.prefix)],
             name |-> s[k].name, size |-> s[k].size, mode |-> "access_mode"]]
      BY <2>2 DEF FileCalls
    <3>2. FileCalls(b.prefix, s)[i] =
            [kind |-> "file", rank |-> s[i].rank, prefix |-> b.prefix[Len(b.prefix)],
             name |-> s[i].name, size |-> s[i].size, mode |-> "access_mode"]
      BY <3>1, Zenon
    <3>3. plan[d + i] = FileCalls(b.prefix, s)[i]
      BY <2>1, <2>2, Zenon
    <3> QED  BY <2>3, <3>2, <3>3
  <2>5. PICK k \in 1..f : k = p[i] /\ q[d + i] = d + k
    BY <1>4
  <2>6. names[d + k] = FullName(b.prefix[d], b.files[k].name)
    BY <1>6 DEF NameParts
  <2>7. names[q[d + i]] = FullName(b.prefix[d], file.name)
    BY <2>3, <2>5, <2>6, Zenon
  <2> QED  BY <1>2, <2>3, <2>4, <2>7, Zenon DEF CallName
<1>10. /\ plan[d + f + 1].size = 0 /\ plan[d + f + 1].kind = "trailer"
       /\ CallName(plan[d + f + 1]) = names[q[d + f + 1]]
  <2>1. plan[d + f + 1] = Trailer
    BY <1>7, Zenon DEF Parts
  <2>2. Trailer.size = 0 /\ Trailer.kind = "trailer" /\ Trailer.prefix = 0 /\ Trailer.name = TrailerNameLen
    BY DEF Trailer
  <2>3. names[q[d + f + 1]] = TrailerNameLen
    BY <1>4, <1>6, Zenon DEF NameParts
  <2> QED  BY <2>1, <2>2, <2>3, Zenon DEF CallName, FullName
<1>11. ASSUME NEW i \in 1..(d + f + 1) PROVE CallName(plan[i]) = names[q[i]]
  <2>1. i \in 1..d \/ (i - d \in 1..f /\ i = d + (i - d)) \/ i = d + f + 1
    OBVIOUS
  <2>2. i \in 1..d \/ (\E k \in 1..f : i = d + k) \/ i = d + f + 1
    BY <2>1
  <2>3. CASE i \in 1..d
    BY <1>8, <2>3
  <2>4. CASE \E k \in 1..f : i = d + k
    BY <1>9, <2>4, Zenon
  <2> QED  BY <1>10, <2>2, <2>3, <2>4, Zenon
<1>12. Layout(plan, b, d, f, q, p)
  BY <1>3, <1>4, <1>5, <1>8, <1>9, <1>10, <1>11, Zenon DEF Layout
<1> QED  BY <1>2, <1>5, <1>12, Zenon

\* What the calls of the plan add to the buffer.
Weight(c) == HeaderOf(c) + ContentOf(c)
Weights(plan) == [i \in 1..Len(plan) |-> Weight(plan[i])]

\* The two sums of Fits.
Headers(b) == [i \in DOMAIN Names(b) |-> NextMultiple(StaticHeaderLen + Names(b)[i] + 1)]
Sizes(b) == [i \in DOMAIN b.files |-> NextMultiple(b.files[i].size)]

\* A plan with its layout.
PlanOf(plan, b, n, d, f, q, p) ==
  /\ n \in Nat /\ d \in Nat \ {0} /\ f \in Nat /\ n = d + f + 1
  /\ plan = Plan(b) /\ plan \in Seq(Call) /\ Len(plan) = n
  /\ b.files \in Seq(File) /\ f = Len(b.files)
  /\ Names(b) \in Seq(Nat) /\ Len(Names(b)) = n
  /\ Layout(plan, b, d, f, q, p)

\* Every batch has its plan.
LEMMA PlanExists ==
  ASSUME NEW b \in Batches
  PROVE  \E n, d, f, q, p : PlanOf(Plan(b), b, n, d, f, q, p)
<1>1. b.prefix \in Seq(Nat) /\ b.prefix # <<>> /\ b.files \in Seq(File)
  BY CpioAssumption DEF File
<1>2. PICK d \in Nat \ {0}, f \in Nat, n \in Nat : d = Len(b.prefix) /\ f = Len(b.files) /\ n = d + f + 1
  <2>1. PICK d \in Nat \ {0}, f \in Nat : d = Len(b.prefix) /\ f = Len(b.files)
    BY <1>1
  <2>2. PICK n \in Nat : n = d + f + 1
    OBVIOUS
  <2> QED  BY <2>1, <2>2, Zenon
<1>3. PICK q, p : Layout(Plan(b), b, d, f, q, p)
  <2>1. \E q, p : Layout(Plan(b), b, Len(b.prefix), Len(b.files), q, p)
    BY PlanLayout
  <2> QED  BY <1>2, <2>1, Zenon
<1>4. Canonical(Plan(b), b, d, f)
  BY <1>2, PlanIsCanonical, Zenon
<1>5. NameParts(Names(b), b, d, f)
  BY <1>2, NamesAre, Zenon
<1>6. Plan(b) \in Seq(Call) /\ Len(Plan(b)) = n
  BY <1>2, <1>4, Zenon DEF Canonical
<1>7. Names(b) \in Seq(Nat) /\ Len(Names(b)) = n
  BY <1>2, <1>5, Zenon DEF NameParts
<1>8. n \in Nat /\ d \in Nat \ {0} /\ f \in Nat
  OBVIOUS
<1>9. PlanOf(Plan(b), b, n, d, f, q, p)
  BY <1>1, <1>2, <1>3, <1>6, <1>7, <1>8, Zenon DEF PlanOf
<1> QED  BY <1>9, Zenon

\* The headers of the plan add up to those of Fits.
LEMMA HeadersTotal ==
  ASSUME NEW plan, NEW b, NEW n, NEW d, NEW f, NEW q, NEW p, PlanOf(plan, b, n, d, f, q, p),
         NEW A, RunSum(A, n, [i \in 1..n |-> HeaderOf(plan[i])])
  PROVE  SumFunction(Headers(b)) = A[n]
<1>1. PICK names \in Seq(Nat) : names = Names(b) /\ Len(names) = n
  BY DEF PlanOf
<1>2. n \in Nat /\ q \in [1..n -> 1..n] /\ Enumerates(q, n, 1..n) /\ \A i \in 1..n : CallName(plan[i]) = names[q[i]]
  BY <1>1, Zenon DEF PlanOf, Layout
<1>3. DOMAIN names = 1..n /\ \A i \in 1..n : names[i] \in Nat
  BY <1>1, <1>2
<1>4. PICK h : h = [i \in 1..n |-> NextMultiple(StaticHeaderLen + names[i] + 1)]
  OBVIOUS
<1>5. h = Headers(b)
  BY <1>1, <1>3, <1>4, Zenon DEF Headers
<1>6. h \in [1..n -> Nat]
  <2>1. \A i \in 1..n : StaticHeaderLen + names[i] + 1 \in Nat
    BY <1>3 DEF StaticHeaderLen
  <2>2. \A i \in 1..n : NextMultiple(StaticHeaderLen + names[i] + 1) \in Nat
    BY <2>1, NextMultiplePads, Zenon
  <2> QED  BY <1>4, <2>2
<1>7. [i \in 1..n |-> HeaderOf(plan[i])] = [i \in 1..n |-> h[q[i]]]
  <2>1. ASSUME NEW i \in 1..n PROVE HeaderOf(plan[i]) = h[q[i]]
    <3>1. q[i] \in 1..n
      BY <1>2
    <3>2. h[q[i]] = NextMultiple(StaticHeaderLen + names[q[i]] + 1)
      BY <1>4, <3>1
    <3> QED  BY <1>2, <3>2, Zenon DEF HeaderOf
  <2> QED  BY <2>1
<1>8. RunSum(A, n, [i \in 1..n |-> h[q[i]]])
  BY <1>7, Zenon
<1>9. SumFunction(h) = A[n]
  <2>1. InOrderOf(A, n, 1..n, h, q)
    BY <1>2, <1>6, <1>8, Zenon DEF InOrderOf
  <2> QED  BY <2>1, PermutedSum, Zenon
<1> QED  BY <1>5, <1>9, Zenon

\* Weights w with their sums Q, and v with a 0 for d more in front and one after.
ZerosAround(d, f, w, Q, v) ==
  /\ d \in Nat /\ f \in Nat /\ RunSum(Q, f, w) /\ v \in [1..(d + f + 1) -> Nat]
  /\ \A i \in 1..d : v[i] = 0
  /\ \A i \in 1..f : v[d + i] = w[i]
  /\ v[d + f + 1] = 0

\* What is 0 adds nothing.
LEMMA ZerosAddNothing ==
  ASSUME NEW d, NEW f, NEW w, NEW Q, NEW v, ZerosAround(d, f, w, Q, v)
  PROVE  \E B : RunSum(B, d + f + 1, v) /\ B[d + f + 1] = Q[f]
<1>0. d \in Nat /\ f \in Nat
  BY DEF ZerosAround
<1>a. \A i \in 1..d : v[i] = 0
  BY DEF ZerosAround
<1>b. \A i \in 1..f : v[d + i] = w[i]
  BY DEF ZerosAround
<1>c. v[d + f + 1] = 0
  BY DEF ZerosAround
<1>1. PICK n \in Nat : n = d + f + 1
  BY <1>0
<1>2. Q \in [0..f -> Nat] /\ Q[0] = 0 /\ \A i \in 1..f : Q[i] = Q[i - 1] + w[i]
  BY DEF RunSum, ZerosAround
<1>3. PICK B : B = [i \in 0..n |-> IF i <= d THEN 0 ELSE IF i <= d + f THEN Q[i - d] ELSE Q[f]]
  OBVIOUS
<1>4. ASSUME NEW i \in 0..d PROVE B[i] = 0
  <2>1. i \in 0..n /\ i <= d
    BY <1>0, <1>1
  <2> QED  BY <1>3, <2>1
<1>5. ASSUME NEW k \in 0..f PROVE B[d + k] = Q[k]
  <2>1. d + k \in 0..n /\ (d + k) - d = k /\ d + k <= d + f /\ (d + k <= d <=> k = 0)
    BY <1>0, <1>1
  <2>2. B[d + k] = IF d + k <= d THEN 0 ELSE IF d + k <= d + f THEN Q[(d + k) - d] ELSE Q[f]
    BY <1>3, <2>1, Zenon
  <2> QED  BY <1>2, <2>1, <2>2, Zenon
<1>6. B[n] = Q[f]
  <2>1. n \in 0..n /\ ~(n <= d) /\ ~(n <= d + f)
    BY <1>0, <1>1
  <2> QED  BY <1>3, <2>1
<1>7. ASSUME NEW i \in 0..n PROVE i \in 0..d \/ (\E k \in 1..f : i = d + k) \/ i = n
  <2>1. i \in 0..d \/ (i - d \in 1..f /\ i = d + (i - d)) \/ i = n
    BY <1>0, <1>1
  <2> QED  BY <2>1
<1>8. B \in [0..n -> Nat]
  <2>1. ASSUME NEW i \in 0..n PROVE B[i] \in Nat
    <3>1. CASE i \in 0..d
      BY <1>4, <3>1
    <3>2. CASE \E k \in 1..f : i = d + k
      <4>1. PICK k \in 1..f : i = d + k
        BY <3>2
      <4>2. k \in 0..f
        BY <1>0
      <4>3. B[i] = Q[k]
        BY <1>5, <4>1, <4>2
      <4> QED  BY <1>2, <4>2, <4>3
    <3>3. CASE i = n
      BY <1>0, <1>2, <1>6, <3>3
    <3> QED  BY <1>7, <3>1, <3>2, <3>3
  <2> QED  BY <1>3, <2>1
<1>9. ASSUME NEW i \in 1..n PROVE B[i] = B[i - 1] + v[i]
  <2>1. CASE i \in 1..d
    <3>1. i \in 0..d /\ i - 1 \in 0..d
      BY <1>0, <2>1
    <3>2. B[i] = 0 /\ B[i - 1] = 0 /\ v[i] = 0
      BY <1>a, <1>4, <2>1, <3>1
    <3> QED  BY <3>2
  <2>2. CASE \E k \in 1..f : i = d + k
    <3>1. PICK k \in 1..f : i = d + k
      BY <2>2
    <3>2. k \in 0..f /\ k - 1 \in 0..f /\ i - 1 = d + (k - 1)
      BY <1>0, <3>1
    <3>3. B[i] = Q[k] /\ B[i - 1] = Q[k - 1] /\ v[i] = w[k]
      BY <1>b, <1>5, <3>1, <3>2
    <3>4. Q[k] = Q[k - 1] + w[k]
      BY <1>2
    <3> QED  BY <3>3, <3>4, Zenon
  <2>3. CASE i = n
    <3>1. i - 1 = d + f /\ f \in 0..f
      BY <1>0, <1>1, <2>3
    <3>2. B[i - 1] = Q[f] /\ Q[f] \in Nat
      BY <1>0, <1>2, <1>5, <3>1
    <3>3. v[i] = 0
      BY <1>1, <1>c, <2>3
    <3> QED  BY <1>6, <2>3, <3>2, <3>3
  <2>4. i \in 0..n /\ (i \in 0..d => i \in 1..d)
    BY <1>0
  <2> QED  BY <1>7, <2>1, <2>2, <2>3, <2>4
<1>10. B[0] = 0
  BY <1>0, <1>4
<1>11. RunSum(B, n, v) /\ B[n] = Q[f]
  BY <1>6, <1>8, <1>9, <1>10 DEF RunSum
<1> QED  BY <1>1, <1>11

\* So do the contents.
LEMMA ContentsTotal ==
  ASSUME NEW plan, NEW b, NEW n, NEW d, NEW f, NEW q, NEW p, PlanOf(plan, b, n, d, f, q, p),
         NEW B, RunSum(B, n, [i \in 1..n |-> ContentOf(plan[i])])
  PROVE  SumFunction(Sizes(b)) = B[n]
<1>1. n \in Nat /\ d \in Nat /\ f \in Nat /\ n = d + f + 1 /\ Layout(plan, b, d, f, q, p)
  BY DEF PlanOf
<1>2. PICK files \in Seq(File) : files = b.files /\ Len(files) = f
  BY DEF PlanOf
<1>3. DOMAIN files = 1..f /\ \A i \in 1..f : files[i].size \in Nat
  <2>1. \A i \in 1..f : files[i] \in File
    BY <1>2
  <2> QED  BY <1>2, <2>1 DEF File
<1>4. PICK z : z = [i \in 1..f |-> NextMultiple(files[i].size)]
  OBVIOUS
<1>5. z = Sizes(b)
  BY <1>2, <1>3, <1>4, Zenon DEF Sizes
<1>6. z \in [1..f -> Nat]
  <2>1. \A i \in 1..f : NextMultiple(files[i].size) \in Nat
    BY <1>3, NextMultiplePads, Zenon
  <2> QED  BY <1>4, <2>1
<1>7. p \in [1..f -> 1..f] /\ Enumerates(p, f, 1..f)
  BY <1>1, Zenon DEF Layout
<1>8. PICK w \in [1..f -> Nat] : w = [i \in 1..f |-> z[p[i]]]
  BY <1>6, <1>7
<1>9. PICK Q : RunSum(Q, f, w)
  BY <1>1, <1>8, SumsExist
<1>10. SumFunction(z) = Q[f]
  <2>1. InOrderOf(Q, f, 1..f, z, p)
    BY <1>1, <1>6, <1>7, <1>8, <1>9, Zenon DEF InOrderOf
  <2> QED  BY <2>1, PermutedSum, Zenon
<1>11. PICK v : v = [i \in 1..n |-> ContentOf(plan[i])]
  OBVIOUS
<1>12. NextMultiple(0) = 0
  BY NextMultipleIs
<1>13. ASSUME NEW i \in 1..d PROVE v[i] = 0
  <2>1. i \in 1..n
    BY <1>1
  <2>2. plan[i].size = 0
    BY <1>1, Zenon DEF Layout
  <2> QED  BY <1>11, <1>12, <2>1, <2>2 DEF ContentOf
<1>14. ASSUME NEW i \in 1..f PROVE v[d + i] = w[i]
  <2>1. d + i \in 1..n /\ p[i] \in 1..f
    <3>1. p[i] \in 1..f
      BY <1>7, Zenon
    <3>2. d \in Nat /\ f \in Nat /\ n = d + f + 1
      BY <1>1
    <3>3. d + i \in 1..n
      BY <3>2
    <3> QED  BY <3>1, <3>3
  <2>2. plan[d + i].size = files[p[i]].size
    BY <1>1, <1>2, Zenon DEF Layout
  <2>3. v[d + i] = NextMultiple(files[p[i]].size)
    BY <1>11, <2>1, <2>2 DEF ContentOf
  <2>4. w[i] = NextMultiple(files[p[i]].size)
    BY <1>4, <1>8, <2>1
  <2> QED  BY <2>3, <2>4, Zenon
<1>15. v[n] = 0
  <2>1. n \in 1..n
    BY <1>1
  <2>2. plan[n].size = 0
    BY <1>1, Zenon DEF Layout
  <2> QED  BY <1>11, <1>12, <2>1, <2>2 DEF ContentOf
<1>16. v \in [1..n -> Nat]
  <2>1. ASSUME NEW i \in 1..n PROVE v[i] \in Nat
    <3>1. plan[i] \in Call
      BY DEF PlanOf
    <3> QED  BY <1>11, <3>1, CallTypes
  <2> QED  BY <1>11, <2>1
<1>17. PICK C : RunSum(C, n, v) /\ C[n] = Q[f]
  <2>1. v \in [1..(d + f + 1) -> Nat] /\ v[d + f + 1] = 0
    BY <1>1, <1>15, <1>16, Zenon
  <2>2. \E C : RunSum(C, d + f + 1, v) /\ C[d + f + 1] = Q[f]
    <3>1. ZerosAround(d, f, w, Q, v)
      BY <1>1, <1>9, <1>13, <1>14, <2>1 DEF ZerosAround
    <3> QED  BY <3>1, ZerosAddNothing
  <2> QED  BY <1>1, <2>2, Zenon
<1>18. RunSum(B, n, v)
  BY <1>11, Zenon
<1>19. B[n] = C[n]
  <2>1. RunSum(C, n, v)
    BY <1>17
  <2>2. n \in Nat
    BY <1>1
  <2> QED  BY <1>16, <1>18, <2>1, <2>2, SumsUnique, Zenon
<1> QED  BY <1>5, <1>10, <1>17, <1>19, Zenon

\* The buffer of a complete plan.
LEMMA Totals ==
  ASSUME NEW plan, NEW b, NEW n, NEW d, NEW f, NEW q, NEW p, PlanOf(plan, b, n, d, f, q, p),
         NEW R, RunSum(R, n, Weights(plan))
  PROVE  R[n] = SumFunction(Headers(b)) + SumFunction(Sizes(b))
<1>1. n \in Nat /\ Len(plan) = n /\ \A i \in 1..n : plan[i] \in Call
  BY DEF PlanOf
<1>2. \A i \in 1..n : HeaderOf(plan[i]) \in Nat /\ ContentOf(plan[i]) \in Nat
  BY <1>1, CallTypes, Zenon
<1>3. PICK u : u = [i \in 1..n |-> HeaderOf(plan[i])]
  OBVIOUS
<1>4. PICK v : v = [i \in 1..n |-> ContentOf(plan[i])]
  OBVIOUS
<1>5. u \in [1..n -> Nat] /\ v \in [1..n -> Nat]
  BY <1>2, <1>3, <1>4
<1>6. PICK A, B : RunSum(A, n, u) /\ RunSum(B, n, v)
  <2>1. PICK A : RunSum(A, n, u)
    BY <1>1, <1>5, SumsExist
  <2>2. PICK B : RunSum(B, n, v)
    BY <1>1, <1>5, SumsExist
  <2> QED  BY <2>1, <2>2
<1>7. AddUp(n, u, v, Weights(plan), A, B, R)
  <2>1. \A i \in 1..n : Weights(plan)[i] = u[i] + v[i]
    BY <1>1, <1>3, <1>4 DEF Weights, Weight
  <2> QED  BY <1>1, <1>5, <1>6, <2>1 DEF AddUp
<1>8. R[n] = A[n] + B[n]
  BY <1>7, SumsAdd
<1>9. SumFunction(Headers(b)) = A[n]
  <2>1. RunSum(A, n, [i \in 1..n |-> HeaderOf(plan[i])])
    BY <1>3, <1>6, Zenon
  <2> QED  BY <2>1, HeadersTotal, Zenon
<1>10. SumFunction(Sizes(b)) = B[n]
  <2>1. RunSum(B, n, [i \in 1..n |-> ContentOf(plan[i])])
    BY <1>4, <1>6, Zenon
  <2> QED  BY <2>1, ContentsTotal, Zenon
<1> QED  BY <1>8, <1>9, <1>10, Zenon

\* There is room for the entry of a call after the first size bytes.
Room(c, size) ==
  /\ CallName(c) + 1 <= machine.u32 /\ c.size <= machine.u32
  /\ (size + HeaderOf(c)) + ContentOf(c) <= VecMax

\* Where the arguments fit, every call of the plan has room after the ones before it.
LEMMA FitsHasRoom ==
  ASSUME CpioTypes, NEW b \in Batches, Fits(b),
         NEW R, RunSum(R, Len(Plan(b)), Weights(Plan(b))), NEW k \in 1..Len(Plan(b))
  PROVE  Len(Plan(b)) <= machine.u32 /\ Room(Plan(b)[k], R[k - 1])
<1>1. PICK plan, n, d, f, q, p : plan = Plan(b) /\ PlanOf(plan, b, n, d, f, q, p)
  BY PlanExists
<1>2. /\ n \in Nat /\ d \in Nat /\ f \in Nat /\ n = d + f + 1 /\ Layout(plan, b, d, f, q, p)
      /\ Len(plan) = n /\ Len(Names(b)) = n /\ DOMAIN Names(b) = 1..n
      /\ DOMAIN b.files = 1..f /\ \A i \in 1..n : plan[i] \in Call
  <2>1. /\ n \in Nat /\ d \in Nat \ {0} /\ f \in Nat /\ n = d + f + 1 /\ Layout(plan, b, d, f, q, p)
        /\ plan \in Seq(Call) /\ Len(plan) = n /\ Names(b) \in Seq(Nat) /\ Len(Names(b)) = n
        /\ b.files \in Seq(File) /\ Len(b.files) = f
    BY <1>1, Zenon DEF PlanOf
  <2>2. ASSUME NEW S, NEW s \in Seq(S)
        PROVE  DOMAIN s = 1..Len(s) /\ \A i \in 1..Len(s) : s[i] \in S
    OBVIOUS
  <2>3. DOMAIN Names(b) = 1..n /\ DOMAIN b.files = 1..f /\ \A i \in 1..n : plan[i] \in Call
    BY <2>1, <2>2, Zenon
  <2>4. d \in Nat
    BY <2>1
  <2> QED  BY <2>1, <2>3, <2>4, Zenon
<1>3. /\ n <= machine.u32
      /\ \A i \in 1..n : Names(b)[i] + 1 <= machine.u32
      /\ \A i \in 1..f : b.files[i].size <= machine.u32
      /\ SumFunction(Headers(b)) + SumFunction(Sizes(b)) <= VecMax
  BY <1>2 DEF Fits, Headers, Sizes
<1>4. k \in 1..n /\ RunSum(R, n, Weights(plan))
  BY <1>1, <1>2, Zenon
<1>5. R[n] <= VecMax
  <2>1. R[n] = SumFunction(Headers(b)) + SumFunction(Sizes(b))
    BY <1>1, <1>4, Totals, Zenon
  <2> QED  BY <1>3, <2>1, Zenon
<1>6. PICK c \in Call : c = plan[k]
  BY <1>2, <1>4
<1>7. CallName(c) + 1 <= machine.u32
  <2>1. q[k] \in 1..n /\ CallName(c) = Names(b)[q[k]]
    BY <1>2, <1>4, <1>6 DEF Layout
  <2> QED  BY <1>3, <2>1, Zenon
<1>8. c.size <= machine.u32
  <2>1. k \in 1..d \/ (k - d \in 1..f /\ k = d + (k - d)) \/ k = n
    BY <1>2, <1>4
  <2>2. c.size = 0 \/ \E i \in 1..f : c.size = b.files[i].size
    <3>1. CASE k \in 1..d \/ k = n
      BY <1>2, <1>6, <3>1 DEF Layout
    <3>2. CASE \E j \in 1..f : k = d + j
      <4>1. PICK j \in 1..f : k = d + j
        BY <3>2
      <4>2. p[j] \in 1..f /\ plan[d + j].size = b.files[p[j]].size
        BY <1>2 DEF Layout
      <4> QED  BY <1>6, <4>1, <4>2
    <3> QED  BY <2>1, <3>1, <3>2
  <2>3. 0 <= machine.u32
    BY DEF CpioTypes
  <2> QED  BY <1>3, <2>2, <2>3, Zenon
<1>9. (R[k - 1] + HeaderOf(c)) + ContentOf(c) <= VecMax
  <2>1. R \in [0..n -> Nat] /\ R[k] = R[k - 1] + Weights(plan)[k] /\ k \in 0..n /\ k - 1 \in 0..n /\ n \in 0..n
    <3>1. R \in [0..n -> Nat] /\ R[k] = R[k - 1] + Weights(plan)[k]
      BY <1>4, Zenon DEF RunSum
    <3>2. n \in Nat /\ k \in 1..n
      BY <1>2, <1>4
    <3>3. k \in 0..n /\ k - 1 \in 0..n /\ n \in 0..n
      BY <3>2
    <3> QED  BY <3>1, <3>3
  <2>2. Weights(plan)[k] = HeaderOf(c) + ContentOf(c)
    BY <1>2, <1>4, <1>6 DEF Weights, Weight
  <2>3. PICK r \in Nat, h \in Nat, s \in Nat : r = R[k - 1] /\ h = HeaderOf(c) /\ s = ContentOf(c)
    BY <2>1, CallTypes
  <2>4. R[k] <= R[n]
    <3>1. Weights(plan) \in [1..n -> Nat]
      <4>1. \A i \in 1..n : HeaderOf(plan[i]) \in Nat /\ ContentOf(plan[i]) \in Nat
        BY <1>2, CallTypes, Zenon
      <4>2. Weights(plan) = [i \in 1..n |-> HeaderOf(plan[i]) + ContentOf(plan[i])]
        BY <1>2 DEF Weights, Weight
      <4> QED  BY <4>1, <4>2
    <3> QED  BY <1>2, <1>4, <2>1, <3>1, SumsGrow, Zenon
  <2>5. R[k] \in Nat /\ R[n] \in Nat /\ VecMax \in Nat
    <3>1. PICK usize \in Nat : usize = machine.usize
      BY DEF CpioTypes
    <3>2. usize \div 2 \in Nat
      OBVIOUS
    <3> QED  BY <2>1, <3>1, <3>2 DEF VecMax
  <2>6. R[k] = (r + h) + s
    <3>1. R[k] = r + (h + s)
      BY <2>1, <2>2, <2>3, Zenon
    <3> QED  BY <3>1
  <2>7. PICK x \in Nat, y \in Nat, v \in Nat : x = R[k] /\ y = R[n] /\ v = VecMax
    BY <2>5
  <2>8. x <= y /\ y <= v
    BY <1>5, <2>4, <2>7, Zenon
  <2>9. x <= v
    BY <2>8
  <2> QED  BY <2>3, <2>6, <2>7, <2>9, Zenon
<1> QED  BY <1>1, <1>2, <1>3, <1>6, <1>7, <1>8, <1>9, Zenon DEF Room

\* Below the limit align::<4> does not saturate.
LEMMA AlignBelow ==
  ASSUME NEW u \in Nat, u = machine.usize, NEW v \in Nat, v + 3 <= u
  PROVE  Align4(v) \in Nat /\ Align4(v) <= v + 3
<1>1. ~(v > u - 3)
  OBVIOUS
<1>2. ((v + 3) \div 4) * 4 \in Nat /\ ((v + 3) \div 4) * 4 <= v + 3
  OBVIOUS
<1> QED  BY <1>1, <1>2 DEF Align4

\* What an entry takes, however its call is written.
LEMMA EntrySizeIs ==
  ASSUME NEW e, NEW name \in Nat, NEW size \in Nat, e.name = name, e.size = size,
         e.kind = "dir" => size = 0
  PROVE  EntrySize(e) = NextMultiple(StaticHeaderLen + name + 1) + NextMultiple(size)
<1>1. PICK h \in Nat : h = StaticHeaderLen + name + 1
  BY DEF StaticHeaderLen
<1>2. HeaderSize(name) = NextMultiple(h) /\ NextMultiple(h) \in Nat
  BY <1>1, NextMultiplePads DEF HeaderSize
<1>3. NextMultiple(size) = size + ComputePad4(size)
  BY NextMultiplePads
<1>4. NextMultiple(0) = 0
  BY NextMultipleIs
<1>5. EntrySize(e) = HeaderSize(name) + NextMultiple(size)
  <2>1. CASE e.kind = "dir"
    BY <1>2, <1>4, <2>1 DEF EntrySize
  <2>2. CASE e.kind # "dir"
    BY <1>3, <2>2 DEF EntrySize
  <2> QED  BY <2>1, <2>2
<1> QED  BY <1>1, <1>2, <1>5, Zenon

\* A call that has written its entry.
Added(c) ==
  /\ result' = "packing" /\ Len(archive') = Len(archive) + 1
  /\ buffer' = buffer + Weight(c)

\* An entry is appended, or the writer panics for want of room.
LEMMA AppendAdds ==
  ASSUME CpioTypes, result = "packing", NEW c \in Call, c.kind = "dir" => c.size = 0,
         NEW e, e.name = CallName(c), e.size = c.size, e.kind = c.kind, Append4(e)
  PROVE  /\ Added(c) \/ Fail("panic")
         /\ Room(c, buffer) => Added(c)
<1>1. PICK name \in Nat, size \in Nat : name = CallName(c) /\ size = c.size
  BY CallTypes DEF Call
<1>2. EntrySize(e) = Weight(c)
  <2>1. EntrySize(e) = NextMultiple(StaticHeaderLen + name + 1) + NextMultiple(size)
    BY <1>1, EntrySizeIs
  <2> QED  BY <1>1, <2>1, Zenon DEF Weight, HeaderOf, ContentOf
<1>3. PICK h \in Nat, s \in Nat, b \in Nat, u \in Nat, v \in Nat :
        h = HeaderOf(c) /\ s = ContentOf(c) /\ b = buffer /\ u = machine.u32 /\ v = VecMax
  <2>1. PICK usize \in Nat : usize = machine.usize
    BY DEF CpioTypes
  <2>2. usize \div 2 \in Nat
    OBVIOUS
  <2>3. VecMax \in Nat
    BY <2>1, <2>2 DEF VecMax
  <2> QED  BY <2>3, CallTypes DEF CpioTypes
<1>4. Weight(c) = h + s
  BY <1>3 DEF Weight
<1>5. CASE name + 1 > u \/ b + (h + s) > v
  <2>1. Fail("panic")
    BY <1>1, <1>2, <1>3, <1>4, <1>5 DEF Append4
  <2>2. ~Room(c, buffer)
    BY <1>1, <1>3, <1>5 DEF Room
  <2> QED  BY <2>1, <2>2
<1>6. CASE ~(name + 1 > u \/ b + (h + s) > v)
  <2>1. /\ result' = result /\ buffer' = buffer + Weight(c)
        /\ \E new : archive' = Append(archive, new)
    BY <1>1, <1>2, <1>3, <1>4, <1>6 DEF Append4
  <2>2. Len(archive') = Len(archive) + 1
    BY <2>1 DEF CpioTypes
  <2> QED  BY <2>1, <2>2 DEF Added
<1> QED  BY <1>5, <1>6

\* pack_dir and pack_one fail only where there is no room, and the sums that they
\* check first refuse nothing that has.
LEMMA CallAdds ==
  ASSUME CpioTypes, result = "packing", NEW c \in Call, c.kind = "dir" => c.size = 0 /\ c.prefix = 0,
         IF c.kind = "dir" THEN PackDir(c) ELSE PackOne(c)
  PROVE  /\ Added(c) \/ result' # "packing"
         /\ inode # machine.u32 /\ Room(c, buffer) => Added(c)
<1>1. PICK prefix \in Nat, own \in Nat, name \in Nat, size \in Nat :
        /\ prefix = c.prefix /\ own = c.name /\ name = CallName(c) /\ size = c.size
        /\ prefix + own <= name
  BY CallTypes DEF Call
<1>2. PICK h \in Nat, s \in Nat, b \in Nat, u \in Nat, z \in Nat :
        /\ h = HeaderOf(c) /\ s = ContentOf(c) /\ b = buffer /\ u = machine.u32 /\ z = machine.usize
        /\ 110 + name + 1 <= h /\ size <= s
  <2>1. PICK h \in Nat, s \in Nat : h = HeaderOf(c) /\ s = ContentOf(c)
    BY CallTypes
  <2>2. StaticHeaderLen + CallName(c) + 1 <= HeaderOf(c) /\ c.size <= ContentOf(c) /\ StaticHeaderLen = 110
    BY CallTypes DEF StaticHeaderLen
  <2>3. 110 + name + 1 <= h /\ size <= s
    BY <1>1, <2>1, <2>2, Zenon
  <2>4. buffer \in Nat /\ machine.u32 \in Nat /\ machine.usize \in Nat
    BY DEF CpioTypes
  <2> QED  BY <2>1, <2>3, <2>4, Zenon
<1>3. PICK v \in Nat : v = VecMax /\ 2 * v <= z
  <2>1. z \div 2 \in Nat /\ 2 * (z \div 2) <= z
    OBVIOUS
  <2> QED  BY <1>2, <2>1 DEF VecMax
<1>4. ASSUME Room(c, buffer)
      PROVE  name + 1 <= u /\ size <= u /\ (b + h) + s <= v
  BY <1>1, <1>2, <1>3, <1>4 DEF Room
<1>5. ASSUME NEW error, Fail(error), error # "packing" PROVE ~Added(c) /\ result' # "packing"
  BY <1>5 DEF Fail, Added
<1>6. CASE c.kind = "dir"
  <2>0. name = own /\ prefix = 0
    BY <1>1, <1>6 DEF CallName, FullName
  <2>1. Append4(c) \/ \E error \in {"MaximumInodesReached", "MaximumArchiveReached"} : Fail(error)
    BY <1>6 DEF PackDir
  <2>2. ASSUME inode # machine.u32, Room(c, buffer) PROVE Append4(c)
    <3>1. PICK t \in Nat : t = 110 + own /\ t + 3 <= z /\ b + (t + 3) <= z /\ b # z
      BY <1>2, <1>3, <1>4, <2>0, <2>2
    <3>2. Align4(t) \in Nat /\ Align4(t) <= t + 3
      BY <1>2, <3>1, AlignBelow
    <3>3. PICK a \in Nat : a = Align4(t) /\ a <= t + 3
      BY <3>2
    <3>4. ~(b > z - a) /\ ~(110 > z - own)
      BY <3>1, <3>3
    <3>5. StaticHeaderLen = 110
      BY DEF StaticHeaderLen
    <3>6. ~(buffer > machine.usize - Align4(StaticHeaderLen + c.name)) /\ ~(StaticHeaderLen > machine.usize - c.name)
      BY <1>1, <1>2, <3>1, <3>3, <3>4, <3>5, Zenon
    <3>7. buffer # machine.usize
      BY <1>2, <3>1
    <3> QED  BY <1>6, <2>2, <3>6, <3>7, Zenon DEF PackDir
  <2>3. ASSUME Append4(c) PROVE (Added(c) \/ Fail("panic")) /\ (Room(c, buffer) => Added(c))
    <3>1. c.name = CallName(c)
      BY <1>1, <2>0
    <3> QED  BY <1>6, <2>3, <3>1, AppendAdds
  <2> QED  BY <1>5, <2>1, <2>2, <2>3
<1>7. CASE c.kind # "dir"
  <2>0. PICK e : /\ e = [c EXCEPT !.name = FullName(c.prefix, c.name)]
                 /\ e.name = CallName(c) /\ e.size = c.size /\ e.kind = c.kind
    <3>1. PICK full : full = FullName(c.prefix, c.name)
      OBVIOUS
    <3>2. /\ [c EXCEPT !.name = full].name = full /\ [c EXCEPT !.name = full].size = c.size
          /\ [c EXCEPT !.name = full].kind = c.kind
      BY DEF Call
    <3> QED  BY <3>1, <3>2, Zenon DEF CallName
  <2>1. Append4(e) \/ \E error \in {"MaximumInodesReached", "MaximumArchiveReached", "TooLargeFileSize"} : Fail(error)
    BY <1>7, <2>0 DEF PackOne
  <2>2. ASSUME inode # machine.u32, Room(c, buffer) PROVE Append4(e)
    <3>1. PICK t \in Nat : t = 110 + 1 + prefix + own /\ t + 3 < z /\ size + 3 < z
                           /\ b + ((t + 3) + (size + 3)) <= z
      BY <1>1, <1>2, <1>3, <1>4, <2>2
    <3>2. Align4(t) \in Nat /\ Align4(t) <= t + 3 /\ Align4(size) \in Nat /\ Align4(size) <= size + 3
      BY <1>2, <3>1, AlignBelow
    <3>3. PICK x \in Nat, y \in Nat : x = Align4(t) /\ y = Align4(size) /\ x <= t + 3 /\ y <= size + 3
      BY <3>2
    <3>4. /\ ~(110 + 1 > z - prefix) /\ ~(110 + 1 + prefix > z - own)
          /\ ~(prefix + own >= u) /\ x # z /\ y # z /\ ~(x > z - y) /\ ~(b > z - (x + y))
      BY <1>1, <1>4, <2>2, <3>1, <3>3
    <3>5. StaticHeaderLen = 110
      BY DEF StaticHeaderLen
    <3>6. ~TooLargeArchive(prefix, own, size)
      BY <1>2, <3>1, <3>3, <3>4, <3>5, Zenon DEF TooLargeArchive
    <3>7. ~(c.size > machine.u32)
      BY <1>1, <1>2, <1>4, <2>2
    <3> QED  BY <1>1, <1>7, <2>0, <2>2, <3>6, <3>7, Zenon DEF PackOne
  <2>3. ASSUME Append4(e) PROVE (Added(c) \/ Fail("panic")) /\ (Room(c, buffer) => Added(c))
    BY <1>7, <2>0, <2>3, AppendAdds
  <2> QED  BY <1>5, <2>1, <2>2, <2>3
<1> QED  BY <1>6, <1>7

\* The buffer has what the calls of the plan that were made have added.
Filled ==
  result = "packing" =>
    \A R : RunSum(R, Len(Plan(batch)), Weights(Plan(batch))) => buffer = R[Len(archive)]

\* The inductive invariant for the room in the buffer.
RoomInv == CpioInv /\ Filled /\ OnlyOversizeFails

\* Nothing else enters into the plan and the limits.
LEMMA SameArguments ==
  ASSUME UNCHANGED <<machine, batch>>
  PROVE  /\ Plan(batch)' = Plan(batch) /\ Weights(Plan(batch))' = Weights(Plan(batch))
         /\ Fits(batch)' <=> Fits(batch)
<1>1. Plan(batch)' = Plan(batch)
  BY DEF Plan, Directories, FileCalls, SortedFiles, Trailer, TrailerNameLen
<1>2. Weights(Plan(batch))' = Weights(Plan(batch))
  BY <1>1 DEF Weights, Weight, HeaderOf, ContentOf, CallName, NextMultiple, StaticHeaderLen, FullName
<1>3. Fits(batch)' <=> Fits(batch)
  BY DEF Fits, Names, VecMax, NextMultiple, StaticHeaderLen, TrailerNameLen, FullName
<1> QED  BY <1>1, <1>2, <1>3

\* A call fails only if the batch does not fit, and adds what the plan says otherwise.
LEMMA PackNextRoom == RoomInv /\ PackNext => Filled' /\ OnlyOversizeFails'
<1> SUFFICES ASSUME RoomInv, PackNext PROVE Filled' /\ OnlyOversizeFails'
  OBVIOUS
<1>1. calls # <<>> /\ result = "packing" /\ UNCHANGED <<machine, batch>>
  BY DEF PackNext
<1>2. CpioTypes /\ Planned /\ Filled
  BY DEF RoomInv, CpioInv
<1>3. PICK c \in Call, n \in Nat, k \in Nat :
        c = Head(calls) /\ c = calls[1] /\ n = Len(archive) /\ k = Len(calls) /\ k > 0 /\ inode = n
  BY <1>1, <1>2 DEF CpioTypes
<1>4. /\ batch \in Batches /\ n + k = Len(Plan(batch)) /\ n + 1 \in 1..Len(Plan(batch))
      /\ c = Plan(batch)[n + 1]
  <2>1. batch \in Batches /\ n + k = Len(Plan(batch)) /\ \A i \in 1..k : calls[i] = Plan(batch)[n + i]
    BY <1>1, <1>2, <1>3 DEF Planned
  <2>2. 1 \in 1..k /\ n + 1 \in 1..(n + k)
    BY <1>3
  <2> QED  BY <1>3, <2>1, <2>2
<1>5. PICK plan, m, d, f, q, p : plan = Plan(batch) /\ PlanOf(plan, batch, m, d, f, q, p)
  BY <1>4, PlanExists
<1>6. m \in Nat /\ Len(plan) = m /\ \A i \in 1..m : plan[i] \in Call
  BY <1>5 DEF PlanOf
<1>7. c.kind = "dir" => c.size = 0 /\ c.prefix = 0
  <2>1. m = d + f + 1 /\ d \in Nat /\ f \in Nat /\ Layout(plan, batch, d, f, q, p)
    BY <1>5 DEF PlanOf
  <2>2. PICK i \in 1..m : i = n + 1 /\ c = plan[i]
    BY <1>4, <1>5, <1>6
  <2>3. i \in 1..d \/ (i - d \in 1..f /\ i = d + (i - d)) \/ i = d + f + 1
    BY <2>1
  <2>4. CASE i \in 1..d
    BY <2>1, <2>2, <2>4 DEF Layout
  <2>5. CASE \E j \in 1..f : i = d + j
    <3>1. PICK j \in 1..f : i = d + j
      BY <2>5
    <3>2. plan[d + j].kind = "file"
      BY <2>1 DEF Layout
    <3> QED  BY <2>2, <3>1, <3>2
  <2>6. CASE i = d + f + 1
    BY <2>1, <2>2, <2>6 DEF Layout
  <2> QED  BY <2>3, <2>4, <2>5, <2>6
<1>8. /\ Added(c) \/ result' # "packing"
      /\ inode # machine.u32 /\ Room(c, buffer) => Added(c)
  <2>1. IF c.kind = "dir" THEN PackDir(c) ELSE PackOne(c)
    BY <1>3 DEF PackNext
  <2> QED  BY <1>1, <1>2, <1>7, <2>1, CallAdds
<1>9. Filled'
  <2> SUFFICES ASSUME result' = "packing", NEW R, RunSum(R, m, Weights(plan))
               PROVE  buffer' = R[Len(archive')]
    BY <1>1, <1>5, <1>6, SameArguments DEF Filled, RunSum
  <2>1. Added(c)
    BY <1>8
  <2>2. buffer = R[n]
    BY <1>1, <1>2, <1>3, <1>5, <1>6 DEF Filled
  <2>3. n + 1 \in 1..m /\ (n + 1) - 1 = n
    BY <1>4, <1>5, <1>6
  <2>4. R[n + 1] = R[n] + Weights(plan)[n + 1]
    BY <2>3 DEF RunSum
  <2>5. Weights(plan)[n + 1] = Weight(c)
    BY <1>4, <1>5, <1>6, <2>3 DEF Weights
  <2>6. buffer' = buffer + Weight(c) /\ Len(archive') = n + 1
    BY <1>3, <2>1 DEF Added
  <2> QED  BY <2>2, <2>4, <2>5, <2>6, Zenon
<1>10. OnlyOversizeFails'
  <2> SUFFICES ASSUME Fits(batch) PROVE result' = "packing"
    BY <1>1, SameArguments DEF OnlyOversizeFails
  <2>1. PICK R : RunSum(R, m, Weights(plan))
    <3>1. \A i \in 1..m : HeaderOf(plan[i]) \in Nat /\ ContentOf(plan[i]) \in Nat
      BY <1>6, CallTypes, Zenon
    <3>2. Weights(plan) = [i \in 1..m |-> HeaderOf(plan[i]) + ContentOf(plan[i])]
      BY <1>6 DEF Weights, Weight
    <3>3. Weights(plan) \in [1..m -> Nat]
      BY <3>1, <3>2
    <3> QED  BY <1>6, <3>3, SumsExist
  <2>2. PICK j \in 1..Len(Plan(batch)) : j = n + 1 /\ j - 1 = n
    BY <1>4
  <2>3. RunSum(R, Len(Plan(batch)), Weights(Plan(batch)))
    BY <1>5, <1>6, <2>1, Zenon
  <2>4. Len(Plan(batch)) <= machine.u32 /\ Room(Plan(batch)[j], R[j - 1])
    BY <1>2, <1>4, <2>3, FitsHasRoom
  <2>5. buffer = R[n]
    BY <1>1, <1>2, <1>3, <2>3 DEF Filled
  <2>6. Room(c, buffer)
    BY <1>4, <2>2, <2>4, <2>5, Zenon
  <2>7. inode # machine.u32
    <3>1. machine.u32 \in Nat
      BY <1>2 DEF CpioTypes
    <3> QED  BY <1>3, <1>4, <2>4, <3>1
  <2> QED  BY <1>8, <2>6, <2>7 DEF Added
<1> QED  BY <1>9, <1>10

\* For every batch and every machine: an error or a panic means that the batch does
\* not fit.  None of the checks on the way refuses what does.
THEOREM OnlyOversizeFailsHolds == CpioSpec => []OnlyOversizeFails
<1>1. CpioInit => Filled /\ OnlyOversizeFails
  BY DEF CpioInit, Filled, OnlyOversizeFails
<1>2. RoomInv /\ [CpioNext]_cpioVars => Filled' /\ OnlyOversizeFails'
  <2> SUFFICES ASSUME RoomInv, [CpioNext]_cpioVars PROVE Filled' /\ OnlyOversizeFails'
    OBVIOUS
  <2>1. CASE result = "none" /\ \E b \in Batches : PackCpio(b)
    <3>1. /\ archive' = <<>> /\ buffer' = 0 /\ result' = "packing"
      BY <2>1 DEF PackCpio, RoomInv, CpioInv, Planned, Aligned
    <3>2. Len(archive') = 0
      BY <3>1
    <3> QED  BY <3>1, <3>2 DEF Filled, OnlyOversizeFails, RunSum
  <2>2. CASE PackNext
    BY <2>2, PackNextRoom
  <2>3. CASE PackDone
    <3>1. result' = "ok"
      BY <2>3 DEF PackDone
    <3> QED  BY <3>1 DEF Filled, OnlyOversizeFails
  <2>4. CASE UNCHANGED cpioVars
    <3>1. UNCHANGED <<machine, batch, archive, buffer, result>>
      BY <2>4 DEF cpioVars
    <3>2. Plan(batch)' = Plan(batch) /\ Weights(Plan(batch))' = Weights(Plan(batch)) /\ (Fits(batch)' <=> Fits(batch))
      BY <3>1, SameArguments
    <3> QED  BY <3>1, <3>2 DEF RoomInv, Filled, OnlyOversizeFails, RunSum
  <2> QED  BY <2>1, <2>2, <2>3, <2>4 DEF CpioNext
<1> QED  BY <1>1, <1>2, CpioInvariant, PTL DEF CpioSpec, RoomInv

-----------------------------------------------------------------------------
(* The PE images: wrap_in_pe and the loader.                               *)

\* The loader on its own.
PeSpec == PeInit /\ [][PeNext]_peVars

\* Division rounds down.
LEMMA DivBounds ==
  ASSUME NEW n \in Nat, NEW d \in Nat \ {0}
  PROVE  /\ n \div d \in Nat
         /\ (n \div d) * d <= n /\ n < ((n \div d) + 1) * d
OBVIOUS

\* RoundUp rounds up.
LEMMA RoundUpType ==
  ASSUME NEW n \in Nat
  PROVE  RoundUp(n) \in Nat /\ RoundUp(n) >= n
<1>1. FileAlign \in Nat \ {0}
  BY PeAssumption
<1>2. n + FileAlign - 1 \in Nat
  BY <1>1
<1> DEFINE q == (n + FileAlign - 1) \div FileAlign
<1>3. q \in Nat /\ n + FileAlign - 1 < (q + 1) * FileAlign
  BY <1>1, <1>2, DivBounds
<1> HIDE DEF q
<1>4. (q + 1) * FileAlign = q * FileAlign + FileAlign /\ q * FileAlign \in Nat
  BY <1>1, <1>3
<1>5. RoundUp(n) = q * FileAlign
  BY DEF RoundUp, q
<1> QED  BY <1>1, <1>3, <1>4, <1>5

\* bytes_to_pages gives the least number of pages that holds the bytes.
LEMMA PagesOfBytes ==
  ASSUME NEW n \in Nat, n <= UsizeMax
  PROVE  /\ BytesToPages(n) \in Nat
         /\ BytesToPages(n) * PageSize >= n
         /\ BytesToPages(n) > 0 => (BytesToPages(n) - 1) * PageSize < n
<1>1. PageSize \in Nat \ {0} /\ AddressPages \in Nat \ {0}
  BY PeAssumption
<1> DEFINE q == (n + (PageSize - 1)) \div PageSize
<1>2. q \in Nat /\ q * PageSize <= n + (PageSize - 1) /\ n + (PageSize - 1) < (q + 1) * PageSize
  BY <1>1, DivBounds
<1> HIDE DEF q
<1>3. (q + 1) * PageSize = q * PageSize + PageSize /\ (q - 1) * PageSize = q * PageSize - PageSize
  BY <1>1, <1>2
<1>4. (AddressPages - 1) * PageSize = PageSize * AddressPages - PageSize
  BY <1>1
<1>5. CASE n + (PageSize - 1) <= UsizeMax
  <2>1. BytesToPages(n) = q
    BY <1>5 DEF BytesToPages, q
  <2>2. q * PageSize \in Nat
    BY <1>1, <1>2
  <2> QED  BY <1>1, <1>2, <1>3, <2>1, <2>2
<1>6. CASE ~(n + (PageSize - 1) <= UsizeMax)
  <2>1. BytesToPages(n) = AddressPages
    BY <1>6 DEF BytesToPages
  <2>2. PageSize * AddressPages \in Nat /\ AddressPages * PageSize = PageSize * AddressPages
    BY <1>1
  <2> QED  BY <1>1, <1>4, <1>6, <2>1, <2>2 DEF UsizeMax
<1> QED  BY <1>5, <1>6

-----------------------------------------------------------------------------
\* A section header whose fields are natural numbers.
NatSection ==
  [name : STRING \cup {SectionNames[i] : i \in 1..6}, va : Nat, vs : Nat, raw : Nat, rs : Nat]

\* The types of the loader's variables.
PeTypes ==
  /\ pe \in [sections : Seq(NatSection), length : Nat, entry : Nat, reloc : BOOLEAN]
  /\ load \in {"none", "parsed", "copying", "loaded", "returned", "LOAD_ERROR",
               "OUT_OF_RESOURCES", "INCOMPATIBLE_VERSION"}
  /\ memory \in Seq(Int)
  /\ next \in 1..(Len(pe.sections) + 1)
  /\ load \in {"none", "parsed"} => next = 1
  /\ load = "none" => added = <<>>

\* Does the data of section i cover the address?
Covers(i, address) ==
  address \in pe.sections[i].va..(pe.sections[i].va + CopySize(pe.sections[i]) - 1)

\* After the first n sections an address has the byte of the last of them that
\* covers it.
LastOf(n, address) ==
  \/ memory[address + 1] = Zero /\ \A i \in 1..n : ~Covers(i, address)
  \/ \E i \in 1..n :
       /\ Covers(i, address)
       /\ \A j \in (i + 1)..n : ~Covers(j, address)
       /\ memory[address + 1] = pe.sections[i].raw + (address - pe.sections[i].va)

\* While the loader runs, memory is what the sections copied so far make of it.
Loading ==
  load \in {"copying", "loaded"} =>
    /\ \A address \in 0..(Len(memory) - 1) : LastOf(next - 1, address)
    /\ \A i \in 1..(next - 1) :
         LET s == pe.sections[i]
         IN  s.va + CopySize(s) <= Len(memory) /\ s.raw + CopySize(s) <= pe.length
    /\ load = "loaded" => next = Len(pe.sections) + 1 /\ pe.entry < Len(memory)

\* The pages that were asked for hold the image.
Allocated ==
  /\ load \in {"copying", "loaded", "returned"} =>
       Len(memory) <= UsizeMax /\ pages = BytesToPages(Len(memory))
  /\ load = "returned" => freed = BytesToPages(Len(memory))

\* The sections the tool has added are the last ones of the image, one after the
\* other, and all of their data is in the file.
InOrder ==
  load # "none" /\ added # <<>> =>
    /\ Len(added) = 6
    /\ \E n \in Nat : /\ Len(pe.sections) = n + 6
                      /\ \A j \in 1..6 : added[j] = pe.sections[n + j]
                      /\ \A i \in 1..n, j \in 1..6 : pe.sections[i].name # SectionNames[j]
    /\ \A j \in 1..6 : added[j].vs <= added[j].rs /\ added[j].name = SectionNames[j]
    /\ \A j, k \in 1..6 : j < k => added[j].va + added[j].vs <= added[k].va

\* The inductive invariant of the loader.
PeInv == PeTypes /\ Loading /\ Allocated /\ InOrder

\* What a section header holds are natural numbers.
LEMMA SectionNumbers == Section \subseteq NatSection
  BY PeAssumption DEF Section, NatSection

\* The part of a section that the loader copies is a natural number.
LEMMA CopySizeType ==
  ASSUME NEW s \in NatSection
  PROVE  CopySize(s) \in Nat /\ CopySize(s) <= s.vs /\ CopySize(s) <= s.rs
         /\ s.va \in Nat /\ s.vs \in Nat /\ s.raw \in Nat /\ s.rs \in Nat
  BY DEF NatSection, CopySize, LeastOf

\* wrap_in_pe lays its sections out one after the other.
LEMMA OffsetsType ==
  ASSUME NEW a \in Nat, NEW size \in [1..6 -> Nat]
  PROVE  /\ Offsets(a, size) \in [1..6 -> Nat]
         /\ \A j, k \in 1..6 : j < k => Offsets(a, size)[j] + size[j] <= Offsets(a, size)[k]
<1>1. /\ size[1] \in Nat /\ size[2] \in Nat /\ size[3] \in Nat /\ size[4] \in Nat /\ size[5] \in Nat
      /\ size[6] \in Nat
  OBVIOUS
<1> DEFINE o == Offsets(a, size)
<1>2. o = <<a, a + size[1], a + size[1] + size[2], a + size[1] + size[2] + size[3],
            a + size[1] + size[2] + size[3] + size[4],
            a + size[1] + size[2] + size[3] + size[4] + size[5]>>
  BY DEF Offsets
<1>3. /\ o[1] = a /\ o[2] = o[1] + size[1] /\ o[3] = o[2] + size[2] /\ o[4] = o[3] + size[3]
      /\ o[5] = o[4] + size[4] /\ o[6] = o[5] + size[5]
  BY <1>2
<1>4. o \in [1..6 -> Nat]
  BY <1>1, <1>2
<1> HIDE DEF o
<1>5. ASSUME NEW j \in 1..6, NEW k \in 1..6, j < k PROVE o[j] + size[j] <= o[k]
  BY <1>1, <1>3, <1>4, <1>5
<1> QED  BY <1>4, <1>5 DEF o

\* The address the first added section gets.
LEMMA StubOffsetType ==
  ASSUME NEW ss \in Seq(NatSection), Len(ss) \in Nat \ {0}
  PROVE  StubOffset(ss) \in Nat
<1>1. ss[Len(ss)] \in NatSection
  OBVIOUS
<1>2. ss[Len(ss)].va \in Nat /\ ss[Len(ss)].vs \in Nat
  BY <1>1, CopySizeType
<1>3. StubOffset(ss) = ss[Len(ss)].va + ss[Len(ss)].vs
  BY DEF StubOffset
<1> QED  BY <1>2, <1>3

\* The first elements of a concatenation are those of its first part.
LEMMA First ==
  ASSUME NEW S, NEW s \in Seq(S), NEW t \in Seq(S), NEW i \in 1..Len(s)
  PROVE  (s \o t)[i] = s[i]
BY Joined

\* The last elements of a concatenation are those of its second part.
LEMMA Second ==
  ASSUME NEW S, NEW s \in Seq(S), NEW t \in Seq(S), NEW i \in 1..Len(t)
  PROVE  (s \o t)[Len(s) + i] = t[i]
BY Joined

\* What wrap_in_pe makes of a stub with n sections.
Assembled(file, n) ==
  /\ file \in [sections : Seq(NatSection), length : Nat, entry : Nat, reloc : BOOLEAN]
  /\ Len(file.sections) = n + 6
  /\ \A i \in 1..n, j \in 1..6 : file.sections[i].name # SectionNames[j]
  /\ \A j \in 1..6 : file.sections[n + j].name = SectionNames[j]
  /\ \A j \in 1..6 : file.sections[n + j].vs <= file.sections[n + j].rs
  /\ \A j, k \in 1..6 :
       j < k => file.sections[n + j].va + file.sections[n + j].vs <= file.sections[n + k].va

\* wrap_in_pe adds its six sections, in order and within the file.
LEMMA AssembleType ==
  ASSUME NEW ss \in Seq(NatSection), Len(ss) \in Nat \ {0}, NEW length \in Nat,
         NEW lens \in [1..6 -> Nat],
         \A i \in 1..Len(ss), j \in 1..6 : ss[i].name # SectionNames[j]
  PROVE  Assembled(Assemble(ss, length, lens), Len(ss))
<1>1. \A i \in 1..6 : RoundUp(lens[i]) \in Nat /\ lens[i] <= RoundUp(lens[i])
  BY RoundUpType
<1>2. PICK padded \in [1..6 -> Nat] : padded = [i \in 1..6 |-> RoundUp(lens[i])]
  BY <1>1
<1>3. \A i \in 1..6 : lens[i] <= padded[i]
  BY <1>1, <1>2
<1>4. PICK vas \in [1..6 -> Nat] :
        /\ vas = Offsets(StubOffset(ss), lens)
        /\ \A j, k \in 1..6 : j < k => vas[j] + lens[j] <= vas[k]
  BY StubOffsetType, OffsetsType
<1>5. PICK raws \in [1..6 -> Nat] : raws = Offsets(RoundUp(length), padded)
  BY RoundUpType, OffsetsType
<1>6. PICK new : new = [i \in 1..6 |-> [name |-> SectionNames[i], va |-> vas[i], vs |-> lens[i],
                                         raw |-> raws[i], rs |-> padded[i]]]
  OBVIOUS
<1>7. \A j \in 1..6 : /\ new[j] \in NatSection
                      /\ new[j].va = vas[j] /\ new[j].vs = lens[j] /\ new[j].rs = padded[j]
                      /\ new[j].name = SectionNames[j]
  BY <1>6 DEF NatSection
<1>8. new \in Seq(NatSection) /\ Len(new) = 6
  BY <1>6, <1>7
<1>9. PICK end \in Nat : end = raws[6] + padded[6]
  <2>1. \A x, y \in Nat : x + y \in Nat
    OBVIOUS
  <2>2. 6 \in 1..6
    OBVIOUS
  <2>3. raws[6] \in Nat /\ padded[6] \in Nat
    BY <2>2, Zenon
  <2> QED  BY <2>1, <2>3, Zenon
<1>10. PICK all \in Seq(NatSection) :
         /\ all = ss \o new /\ Len(all) = Len(ss) + Len(new)
         /\ \A i \in 1..Len(new) : all[Len(ss) + i] = new[i]
         /\ \A i \in 1..Len(ss) : all[i] = ss[i]
  <2>1. ss \in Seq(NatSection) /\ new \in Seq(NatSection)
    BY <1>8
  <2>2. /\ ss \o new \in Seq(NatSection) /\ Len(ss \o new) = Len(ss) + Len(new)
        /\ \A i \in 1..Len(new) : (ss \o new)[Len(ss) + i] = new[i]
        /\ \A i \in 1..Len(ss) : (ss \o new)[i] = ss[i]
    <3>1. \A s, t \in Seq(NatSection) : Joins(s \o t, s, Len(s), t, Len(t), NatSection)
      BY JoinedLengths, Zenon
    <3>2. Joins(ss \o new, ss, Len(ss), new, Len(new), NatSection)
      BY <2>1, <3>1, Zenon
    <3> QED  BY <3>2, Zenon DEF Joins
  <2> QED  BY <2>2, Zenon
<1>11. Assemble(ss, length, lens)
         = [sections |-> all, length |-> end, entry |-> 0, reloc |-> FALSE]
  BY <1>2, <1>4, <1>5, <1>6, <1>9, <1>10 DEF Assemble
<1>12. \A j \in 1..6 : all[Len(ss) + j].va = vas[j] /\ all[Len(ss) + j].vs = lens[j]
                       /\ all[Len(ss) + j].rs = padded[j]
                       /\ all[Len(ss) + j].name = SectionNames[j]
  BY <1>7, <1>8, <1>10
<1>13. Len(all) = Len(ss) + 6
  BY <1>8, <1>10
<1>14. \A j \in 1..6 : all[Len(ss) + j].vs <= all[Len(ss) + j].rs
  BY <1>3, <1>12
<1>15. \A j, k \in 1..6 : j < k =>
         all[Len(ss) + j].va + all[Len(ss) + j].vs <= all[Len(ss) + k].va
  BY <1>4, <1>12
<1>16. PICK file : file = Assemble(ss, length, lens)
  OBVIOUS
<1>17. /\ file \in [sections : Seq(NatSection), length : Nat, entry : Nat, reloc : BOOLEAN]
       /\ file.sections = all
  BY <1>11, <1>16
<1>a. \A i \in 1..Len(ss), j \in 1..6 : all[i].name # SectionNames[j]
  BY <1>10
<1>b. \A j \in 1..6 : all[Len(ss) + j].name = SectionNames[j]
  BY <1>12
<1>18. Assembled(file, Len(ss))
  BY <1>a, <1>b, <1>13, <1>14, <1>15, <1>17, Zenon DEF Assembled
<1> QED  BY <1>16, <1>18

\* The sections that were added are the last six.
LEMMA LastSix ==
  ASSUME NEW S, NEW all \in Seq(S), NEW a \in Nat, Len(all) = a + 6
  PROVE  /\ Len(SubSeq(all, a + 1, a + 6)) = 6
         /\ \A j \in 1..6 : SubSeq(all, a + 1, a + 6)[j] = all[a + j]
<1>1. Len(SubSeq(all, a + 1, a + 6)) = 6
  OBVIOUS
<1>2. ASSUME NEW j \in 1..6 PROVE SubSeq(all, a + 1, a + 6)[j] = all[a + j]
  <2>1. j \in 1..((a + 6) - (a + 1) + 1) /\ (a + 1) + j - 1 = a + j
    OBVIOUS
  <2> QED  BY <2>1
<1> QED  BY <1>1, <1>2

\* The invariant holds before an image is chosen.
LEMMA PeInitInv == PeInit => PeInv
  BY DEF PeInit, PeInv, PeTypes, Loading, Allocated, InOrder

\* wrap_in_pe preserves the invariant.
LEMMA LanzabooteImageStep == PeInv /\ LanzabooteImage => PeInv'
<1> SUFFICES ASSUME PeInv, LanzabooteImage PROVE PeInv'
  OBVIOUS
<1>1. PICK stub \in StubLayouts, lens \in Contents :
        /\ pe' = Assemble(stub.sections, stub.length, lens)
        /\ added' = SubSeq(pe'.sections, Len(stub.sections) + 1, Len(pe'.sections))
  BY DEF LanzabooteImage
<1>2. /\ stub.sections \in Seq(Section) /\ stub.sections # <<>> /\ stub.length \in Nat
      /\ lens \in [1..6 -> Nat]
  BY PeAssumption
<1>3. PICK ss \in Seq(NatSection) : ss = stub.sections /\ Len(ss) \in Nat \ {0}
  BY <1>2, SectionNumbers
<1>a. PICK length \in Nat, sizes \in [1..6 -> Nat] : length = stub.length /\ sizes = lens
  BY <1>2
<1>c. \A i \in 1..Len(ss), j \in 1..6 : ss[i].name # SectionNames[j]
  BY <1>3, StubAssumption, Zenon
<1>b. Assembled(Assemble(ss, length, sizes), Len(ss))
  BY <1>3, <1>c, AssembleType, Zenon
<1>4. Assembled(pe', Len(ss))
  BY <1>1, <1>3, <1>a, <1>b, Zenon
<1>5. /\ pe' \in [sections : Seq(NatSection), length : Nat, entry : Nat, reloc : BOOLEAN]
      /\ pe'.sections \in Seq(NatSection) /\ Len(pe'.sections) = Len(ss) + 6
  BY <1>4 DEF Assembled
<1>6. Len(added') = 6 /\ \A j \in 1..6 : added'[j] = pe'.sections[Len(ss) + j]
  BY <1>1, <1>3, <1>5, LastSix
<1>7. InOrder'
  <2>1. PICK n \in Nat : n = Len(ss)
    BY <1>3
  <2>2. Len(pe'.sections) = n + 6 /\ \A j \in 1..6 : added'[j] = pe'.sections[n + j]
    BY <1>5, <1>6, <2>1
  <2>3. /\ \A j \in 1..6 : added'[j].vs <= added'[j].rs /\ added'[j].name = SectionNames[j]
        /\ \A i \in 1..n, j \in 1..6 : pe'.sections[i].name # SectionNames[j]
        /\ \A j, k \in 1..6 : j < k => added'[j].va + added'[j].vs <= added'[k].va
    BY <1>4, <2>1, <2>2 DEF Assembled
  <2> QED  BY <1>6, <2>2, <2>3, Zenon DEF InOrder
<1>8. PeTypes'
  BY <1>5 DEF PeInv, PeTypes, LanzabooteImage
<1>9. Loading' /\ Allocated'
  BY DEF LanzabooteImage, Loading, Allocated
<1> QED  BY <1>7, <1>8, <1>9 DEF PeInv

\* An image of another tool preserves the invariant.
LEMMA OtherImageStep == PeInv /\ OtherImage => PeInv'
<1> SUFFICES ASSUME PeInv, OtherImage PROVE PeInv'
  OBVIOUS
<1>1. pe' \in [sections : Seq(Section), length : Nat, entry : 0..U32Max, reloc : BOOLEAN]
  BY PeAssumption DEF OtherImage
<1>2. pe'.sections \in Seq(NatSection)
  BY <1>1, SectionNumbers
<1>3. pe' \in [sections : Seq(NatSection), length : Nat, entry : Nat, reloc : BOOLEAN]
  BY <1>1, <1>2, PeAssumption
<1>4. PeTypes'
  BY <1>3 DEF PeInv, PeTypes, OtherImage
<1>5. Loading' /\ Allocated' /\ InOrder'
  BY DEF OtherImage, Loading, Allocated, InOrder, PeInv, PeTypes
<1> QED  BY <1>4, <1>5 DEF PeInv

\* Refusing the image preserves the invariant.
LEMMA GotoStep ==
  ASSUME PeInv, NEW status, Goto(status), load # "none",
         status \in {"LOAD_ERROR", "OUT_OF_RESOURCES", "INCOMPATIBLE_VERSION"}
  PROVE  PeInv'
BY DEF Goto, PeInv, PeTypes, Loading, Allocated, InOrder

\* Checking the headers and taking the pages preserves the invariant.
LEMMA AllocateStep == PeInv /\ Allocate => PeInv'
<1> SUFFICES ASSUME PeInv, Allocate PROVE PeInv'
  OBVIOUS
<1>1. CASE Goto("LOAD_ERROR") \/ Goto("OUT_OF_RESOURCES")
  BY <1>1, GotoStep DEF Allocate
<1>2. CASE /\ \A end \in SectionEnds : end <= U32Max
           /\ pages' = BytesToPages(Max(SectionEnds \cup {0}))
           /\ memory' = [i \in 1..Max(SectionEnds \cup {0}) |-> Zero]
           /\ load' = "copying"
           /\ UNCHANGED <<pe, added, next, freed>>
  <2>1. SectionEnds \subseteq Nat
    <3> SUFFICES ASSUME NEW i \in 1..Len(pe.sections)
                 PROVE  pe.sections[i].va + pe.sections[i].vs \in Nat
      BY DEF SectionEnds
    <3>1. pe.sections[i] \in NatSection
      BY DEF PeInv, PeTypes
    <3>2. pe.sections[i].va \in Nat /\ pe.sections[i].vs \in Nat
      BY <3>1, CopySizeType
    <3>3. \A a, c \in Nat : a + c \in Nat
      OBVIOUS
    <3> QED  BY <3>2, <3>3, Zenon
  <2>2. PICK S : S = SectionEnds \cup {0}
    OBVIOUS
  <2>3. S \subseteq Nat /\ S # {} /\ U32Max \in Nat /\ \A x \in S : x <= U32Max
    BY <1>2, <2>1, <2>2, PeAssumption
  <2>4. PICK n \in Nat : n = Max(SectionEnds \cup {0}) /\ n <= U32Max
    <3>1. Max(S) \in S
      BY <2>3, MaxOfNaturals
    <3> QED  BY <2>2, <2>3, <3>1
  <2>5. memory' \in Seq(Int) /\ Len(memory') = n /\ \A i \in 1..n : memory'[i] = Zero
    <3>1. memory' = [i \in 1..n |-> -1]
      BY <1>2, <2>4 DEF Zero
    <3> QED  BY <3>1 DEF Zero
  <2>6. PeTypes'
    BY <1>2, <2>5 DEF PeInv, PeTypes, Allocate
  <2>7. next' - 1 = 0
    BY <1>2 DEF PeInv, PeTypes, Allocate
  <2>8. Loading'
    <3>1. ASSUME NEW a \in 0..(n - 1) PROVE LastOf(next - 1, a)'
      BY <2>5, <2>7 DEF LastOf
    <3>2. \A i \in 1..(next' - 1) : FALSE
      BY <2>7
    <3> QED  BY <1>2, <2>5, <3>1, <3>2 DEF Loading
  <2>9. Allocated'
    <3>1. n <= UsizeMax
      BY <2>4, PeAssumption DEF UsizeMax
    <3> QED  BY <1>2, <2>4, <2>5, <3>1 DEF Allocated
  <2>10. InOrder'
    BY <1>2 DEF PeInv, InOrder, Allocate
  <2> QED  BY <2>6, <2>8, <2>9, <2>10 DEF PeInv
<1> QED  BY <1>1, <1>2 DEF Allocate

\* Copying a section, or refusing it, preserves the invariant: the memory has the
\* bytes of the last section that covers an address.
LEMMA CopySectionStep == PeInv /\ CopySection => PeInv'
<1> SUFFICES ASSUME PeInv, CopySection PROVE PeInv'
  OBVIOUS
<1>1. CASE Goto("LOAD_ERROR")
  BY <1>1, GotoStep DEF CopySection
<1>2. CASE /\ ~OutOfBounds(pe.sections[next])
           /\ memory' = Copied(pe.sections[next])
           /\ next' = next + 1
           /\ UNCHANGED <<pe, added, load, pages, freed>>
  <2>1. PICK n \in Nat, l \in Nat : n = next /\ l = Len(memory) /\ n \in 1..Len(pe.sections)
    BY DEF CopySection, PeInv, PeTypes
  <2>2. PICK s \in NatSection : s = pe.sections[n]
    BY <2>1 DEF PeInv, PeTypes
  <2>3. PICK c \in Nat, va \in Nat, raw \in Nat : c = CopySize(s) /\ va = s.va /\ raw = s.raw
    BY CopySizeType
  <2>4. va + c <= l /\ raw + c <= pe.length
    <3>1. pe.length \in Nat
      BY DEF PeInv, PeTypes
    <3>2. ~(va + c > l) /\ ~(raw + c > pe.length)
      BY <1>2, <2>1, <2>2, <2>3 DEF OutOfBounds
    <3> QED  BY <3>1, <3>2
  <2>5. /\ memory' \in Seq(Int) /\ Len(memory') = l
        /\ \A i \in 1..l : memory'[i] = IF i - 1 \in va..(va + c - 1) THEN raw + (i - 1 - va) ELSE memory[i]
    <3>1. memory' = [i \in 1..l |-> IF i - 1 \in va..(va + c - 1) THEN raw + (i - 1 - va) ELSE memory[i]]
      BY <1>2, <2>1, <2>2, <2>3 DEF Copied
    <3>2. \A i \in 1..l : memory[i] \in Int
      BY <2>1 DEF PeInv, PeTypes
    <3>3. \A i \in 1..l : (IF i - 1 \in va..(va + c - 1) THEN raw + (i - 1 - va) ELSE memory[i]) \in Int
      BY <3>2
    <3> QED  BY <3>1, <3>3
  <2>6. PeTypes'
    BY <1>2, <2>1, <2>5 DEF PeInv, PeTypes, CopySection
  <2>7. \A address \in 0..(l - 1) : LastOf(next - 1, address)'
    <3> SUFFICES ASSUME NEW address \in 0..(l - 1) PROVE LastOf(next - 1, address)'
      OBVIOUS
    <3>1. \A i : Covers(i, address)' <=> Covers(i, address)
      BY <1>2 DEF Covers, CopySize, LeastOf
    <3>2. next' - 1 = n /\ pe' = pe
      BY <1>2, <2>1
    <3>3. LastOf(n - 1, address)
      BY <2>1 DEF CopySection, PeInv, Loading
    <3>4. Covers(n, address) <=> address \in va..(va + c - 1)
      BY <2>2, <2>3 DEF Covers
    <3>5. memory'[address + 1] = IF Covers(n, address) THEN raw + (address - va) ELSE memory[address + 1]
      <4>1. address + 1 \in 1..l /\ (address + 1) - 1 = address
        BY <2>1
      <4> QED  BY <2>5, <3>4, <4>1
    <3>6. \A i \in 1..n : i = n \/ i \in 1..(n - 1)
      OBVIOUS
    <3>7. CASE Covers(n, address)
      <4>1. \A j \in (n + 1)..n : FALSE
        BY <2>1
      <4>2. memory'[address + 1] = pe'.sections[n].raw + (address - pe'.sections[n].va)
        BY <2>2, <2>3, <3>2, <3>5, <3>7
      <4>3. n \in 1..n
        BY <2>1
      <4> QED  BY <3>1, <3>2, <3>7, <4>1, <4>2, <4>3 DEF LastOf
    <3>8. CASE ~Covers(n, address)
      <4>1. memory'[address + 1] = memory[address + 1]
        BY <3>5, <3>8
      <4>2. CASE memory[address + 1] = Zero /\ \A i \in 1..(n - 1) : ~Covers(i, address)
        <5>1. \A i \in 1..n : ~Covers(i, address)
          BY <3>6, <3>8, <4>2
        <5> QED  BY <3>1, <3>2, <4>1, <4>2, <5>1 DEF LastOf
      <4>3. ASSUME NEW i \in 1..(n - 1), Covers(i, address),
                   \A j \in (i + 1)..(n - 1) : ~Covers(j, address),
                   memory[address + 1] = pe.sections[i].raw + (address - pe.sections[i].va)
            PROVE  LastOf(next - 1, address)'
        <5>1. \A j \in (i + 1)..n : j = n \/ j \in (i + 1)..(n - 1)
          OBVIOUS
        <5>2. \A j \in (i + 1)..n : ~Covers(j, address)
          BY <3>8, <4>3, <5>1
        <5>3. i \in 1..n
          OBVIOUS
        <5> QED  BY <3>1, <3>2, <4>1, <4>3, <5>2, <5>3 DEF LastOf
      <4> QED  BY <3>3, <4>2, <4>3 DEF LastOf
    <3> QED  BY <3>7, <3>8
  <2>8. ASSUME NEW i \in 1..n
        PROVE  pe.sections[i].va + CopySize(pe.sections[i]) <= l
               /\ pe.sections[i].raw + CopySize(pe.sections[i]) <= pe.length
    <3>1. CASE i = n
      BY <2>2, <2>3, <2>4, <3>1
    <3>2. CASE i \in 1..(n - 1)
      BY <2>1, <3>2 DEF CopySection, PeInv, Loading
    <3> QED  BY <3>1, <3>2
  <2>9. Loading'
    <3>1. next' - 1 = n /\ pe' = pe /\ load' = "copying"
      BY <1>2, <2>1 DEF CopySection
    <3> QED  BY <2>5, <2>7, <2>8, <3>1 DEF Loading, CopySize, LeastOf
  <2>10. Allocated'
    BY <1>2, <2>1, <2>5 DEF PeInv, Allocated
  <2>11. InOrder'
    <3>1. pe' = pe /\ added' = added /\ load' = load /\ InOrder
      BY <1>2 DEF PeInv
    <3> QED  BY <3>1 DEF InOrder
  <2> QED  BY <2>6, <2>9, <2>10, <2>11 DEF PeInv
<1> QED  BY <1>1, <1>2 DEF CopySection

\* The end of the load preserves the invariant.
LEMMA FinishLoadStep == PeInv /\ FinishLoad => PeInv'
<1> SUFFICES ASSUME PeInv, FinishLoad PROVE PeInv'
  OBVIOUS
<1>1. CASE Goto("LOAD_ERROR") \/ Goto("INCOMPATIBLE_VERSION")
  BY <1>1, GotoStep DEF FinishLoad
<1>2. CASE pe.entry < Len(memory) /\ Goto("loaded")
  <2>1. next = Len(pe.sections) + 1
    BY DEF FinishLoad, PeInv, PeTypes
  <2>2. PeTypes'
    BY <1>2, <2>1 DEF Goto, PeInv, PeTypes
  <2>3. Loading'
    <3>1. /\ memory' = memory /\ pe' = pe /\ next' = next /\ load = "copying" /\ load' = "loaded"
          /\ Loading
      BY <1>2 DEF Goto, FinishLoad, PeInv
    <3>2. ASSUME NEW address PROVE LastOf(next - 1, address)' <=> LastOf(next - 1, address)
      BY <3>1 DEF LastOf, Covers, CopySize, LeastOf
    <3>3. \A address \in 0..(Len(memory) - 1) : LastOf(next - 1, address)'
      BY <3>1, <3>2 DEF Loading
    <3>4. \A i \in 1..(next - 1) :
            /\ pe.sections[i].va + CopySize(pe.sections[i]) <= Len(memory)
            /\ pe.sections[i].raw + CopySize(pe.sections[i]) <= pe.length
      BY <3>1 DEF Loading
    <3> QED  BY <1>2, <2>1, <3>1, <3>3, <3>4 DEF Loading, CopySize, LeastOf
  <2>4. Allocated' /\ InOrder'
    BY <1>2 DEF Goto, PeInv, Allocated, InOrder, FinishLoad
  <2> QED  BY <2>2, <2>3, <2>4 DEF PeInv
<1> QED  BY <1>1, <1>2 DEF FinishLoad

\* The return of the loaded image preserves the invariant: its pages are freed.
LEMMA ReturnedStep == PeInv /\ Returned => PeInv'
  BY DEF Returned, PeInv, PeTypes, Loading, Allocated, InOrder

\* PeInv is an invariant of the loader.
LEMMA PeInvariant == PeSpec => []PeInv
<1>1. PeInv /\ [PeNext]_peVars => PeInv'
  <2>1. PeInv /\ UNCHANGED peVars => PeInv'
    BY DEF peVars, PeInv, PeTypes, Loading, Allocated, InOrder, LastOf, Covers, CopySize, LeastOf
  <2> QED  BY <2>1, LanzabooteImageStep, OtherImageStep, AllocateStep, CopySectionStep, FinishLoadStep,
              ReturnedStep DEF PeNext
<1> QED  BY <1>1, PeInitInv, PTL DEF PeSpec

\* For every image: allocate_pages asks for exactly the pages the image needs, and
\* as many are freed.
THEOREM PagesExactHolds == PeSpec => []PagesExact
<1>1. PeInv => PagesExact
  <2> SUFFICES ASSUME PeInv PROVE PagesExact
    OBVIOUS
  <2>1. PICK n \in Nat : n = Len(memory)
    BY DEF PeInv, PeTypes
  <2>2. ASSUME load \in {"copying", "loaded", "returned"}
        PROVE  pages * PageSize >= n /\ (pages > 0 => (pages - 1) * PageSize < n)
    BY <2>1, <2>2, PagesOfBytes DEF PeInv, Allocated
  <2>3. load = "returned" => freed = pages
    BY DEF PeInv, Allocated
  <2> QED  BY <2>1, <2>2, <2>3 DEF PagesExact
<1> QED  BY <1>1, PeInvariant, PTL

\* For every image: what the loader starts has every byte where the sections
\* put it.
THEOREM LoadedAsLinkedHolds == PeSpec => []LoadedAsLinked
<1>1. PeInv => LoadedAsLinked
  <2> SUFFICES ASSUME PeInv, load = "loaded" PROVE LoadedAsLinked
    BY DEF LoadedAsLinked
  <2>1. PICK n \in Nat, l \in Nat : n = Len(pe.sections) /\ l = Len(memory)
    BY DEF PeInv, PeTypes
  <2>2. next - 1 = n
    BY <2>1 DEF PeInv, Loading
  <2>3. ASSUME NEW address \in 0..(l - 1)
        PROVE  /\ memory[address + 1] = Linked(address)
               /\ memory[address + 1] = Zero \/ memory[address + 1] \in 0..(pe.length - 1)
    <3>1. LastOf(n, address)
      BY <2>1, <2>2 DEF PeInv, Loading
    <3>2. PICK S : S = {i \in 1..n : Covers(i, address)}
      OBVIOUS
    <3>3. Linked(address) = IF S = {} THEN Zero
                            ELSE pe.sections[Max(S)].raw + (address - pe.sections[Max(S)].va)
      BY <2>1, <3>2 DEF Linked, Covers
    <3>4. CASE memory[address + 1] = Zero /\ \A i \in 1..n : ~Covers(i, address)
      BY <3>2, <3>3, <3>4
    <3>5. ASSUME NEW i \in 1..n, Covers(i, address), \A j \in (i + 1)..n : ~Covers(j, address),
                 memory[address + 1] = pe.sections[i].raw + (address - pe.sections[i].va)
          PROVE  /\ memory[address + 1] = Linked(address)
                 /\ memory[address + 1] \in 0..(pe.length - 1)
      <4>1. i \in S /\ S \subseteq Nat /\ \A x \in S : x <= n
        BY <3>2, <3>5
      <4>2. PICK m \in 1..n : m = Max(S) /\ m \in S /\ i <= m
        BY <3>2, <4>1, MaxOfNaturals
      <4>3. ~(m > i)
        <5>1. m > i => m \in (i + 1)..n
          BY <4>2
        <5> QED  BY <3>2, <3>5, <4>2, <5>1
      <4>4. Max(S) = i
        BY <4>2, <4>3
      <4>5. memory[address + 1] = Linked(address)
        BY <3>3, <3>5, <4>1, <4>4
      <4>6. PICK s \in NatSection : s = pe.sections[i]
        BY <2>1 DEF PeInv, PeTypes
      <4>7. PICK c \in Nat, va \in Nat, raw \in Nat : c = CopySize(s) /\ va = s.va /\ raw = s.raw
        BY CopySizeType
      <4>8. raw + c <= pe.length /\ pe.length \in Nat
        BY <2>2, <4>6, <4>7 DEF PeInv, PeTypes, Loading
      <4>9. address \in va..(va + c - 1)
        BY <3>5, <4>6, <4>7 DEF Covers
      <4>10. raw + (address - va) \in 0..(pe.length - 1)
        BY <4>8, <4>9
      <4> QED  BY <3>5, <4>5, <4>6, <4>7, <4>10
    <3> QED  BY <3>1, <3>4, <3>5 DEF LastOf
  <2>4. \A i \in 1..l : i - 1 \in 0..(l - 1) /\ (i - 1) + 1 = i
    OBVIOUS
  <2>5. \A i \in 1..l : memory[i] = Zero \/ memory[i] \in 0..(pe.length - 1)
    BY <2>3, <2>4
  <2>6. pe.entry \in 0..(l - 1)
    BY <2>1 DEF PeInv, PeTypes, Loading
  <2> QED  BY <2>1, <2>3, <2>5, <2>6 DEF LoadedAsLinked
<1> QED  BY <1>1, PeInvariant, PTL

\* No two sections that the tool adds have the same name.
LEMMA NamesDiffer == \A j, k \in 1..6 : j # k => SectionNames[j] # SectionNames[k]
  BY DEF SectionNames

\* For every stub without sections of these names: the sections that wrap_in_pe
\* adds are found by name and read back in full, from the file and from memory.
THEOREM SectionsReadBackHolds == PeSpec => []SectionsReadBack
<1>1. PeInv => SectionsReadBack
  <2> SUFFICES ASSUME PeInv, load = "loaded", NEW j \in 1..Len(added)
               PROVE  LET s    == added[j]
                          data == [i \in 1..s.vs |-> s.raw + i - 1]
                      IN  /\ s.name = SectionNames[j] /\ s.vs <= s.rs
                          /\ ReadSectionData(s.name) = data /\ SectionData(s.name) = data
    BY DEF SectionsReadBack
  <2>0. added # <<>>
    OBVIOUS
  <2>1. /\ Len(added) = 6 /\ j \in 1..6
        /\ \A k \in 1..6 : added[k].vs <= added[k].rs /\ added[k].name = SectionNames[k]
        /\ \A i, k \in 1..6 : i < k => added[i].va + added[i].vs <= added[k].va
    BY <2>0 DEF PeInv, InOrder
  <2>a. PICK a \in Nat : /\ Len(pe.sections) = a + 6
                         /\ \A k \in 1..6 : added[k] = pe.sections[a + k]
                         /\ \A i \in 1..a, k \in 1..6 : pe.sections[i].name # SectionNames[k]
    BY <2>0 DEF PeInv, InOrder
  <2>b. \A k \in 1..6 : added[k] \in NatSection /\ added[k] = pe.sections[a + k]
    <3>1. ASSUME NEW k \in 1..6 PROVE pe.sections[a + k] \in NatSection
      <4>1. a + k \in 1..(a + 6)
        OBVIOUS
      <4>2. a + k \in 1..Len(pe.sections)
        BY <2>a, <4>1, Zenon
      <4>3. pe.sections \in Seq(NatSection)
        BY DEF PeInv, PeTypes
      <4> QED  BY <4>2, <4>3
    <3> QED  BY <2>a, <3>1
  <2>2. PICK n \in Nat, m \in Nat : m = a + j /\ n = Len(pe.sections) /\ m \in 1..n /\ n = a + 6
    BY <2>1, <2>a
  <2>3. PICK s \in NatSection : s = added[j] /\ s = pe.sections[m]
    BY <2>1, <2>2, <2>b
  <2>4. PICK vs \in Nat, va \in Nat, raw \in Nat : vs = s.vs /\ va = s.va /\ raw = s.raw
    BY CopySizeType
  <2>5. CopySize(s) = vs
    BY <2>1, <2>3, <2>4 DEF CopySize, LeastOf
  <2>6. ASSUME NEW k \in (m + 1)..n
        PROVE  va + vs <= pe.sections[k].va /\ pe.sections[k] \in NatSection
    <3>1. PICK h \in 1..6 : j < h /\ k = a + h
      <4>1. k - a \in 1..6 /\ j < k - a /\ k = a + (k - a)
        BY <2>1, <2>2
      <4> QED  BY <4>1
    <3>2. added[h] = pe.sections[k] /\ added[h] \in NatSection
      BY <2>b, <3>1
    <3>3. va + vs <= pe.sections[k].va
      BY <2>1, <2>3, <2>4, <3>1, <3>2
    <3> QED  BY <3>2, <3>3
  <2>7. ASSUME NEW i \in 1..vs PROVE memory[va + i] = raw + i - 1
    <3>1. PICK address \in Nat : address = va + i - 1
      OBVIOUS
    <3>2. Covers(m, address)
      <4>1. address \in va..(va + vs - 1)
        BY <3>1
      <4> QED  BY <2>3, <2>4, <2>5, <4>1 DEF Covers
    <3>3. ASSUME NEW k \in (m + 1)..n PROVE ~Covers(k, address)
      <4>1. pe.sections[k].va \in Nat /\ address < pe.sections[k].va
        <5>1. PICK t \in NatSection : t = pe.sections[k] /\ va + vs <= t.va
          BY <2>6
        <5>2. PICK w \in Nat : w = t.va
          BY CopySizeType, <5>1
        <5>3. va + i - 1 < w
          BY <5>1, <5>2
        <5> QED  BY <3>1, <5>1, <5>2, <5>3
      <4> QED  BY <4>1 DEF Covers
    <3>4. address \in 0..(Len(memory) - 1)
      <4>1. va + vs <= Len(memory) /\ Len(memory) \in Nat
        <5>1. m \in 1..(next - 1)
          BY <2>2 DEF PeInv, Loading
        <5>2. pe.sections[m].va + CopySize(pe.sections[m]) <= Len(memory)
          BY <5>1 DEF PeInv, Loading
        <5> QED  BY <2>3, <2>4, <2>5, <5>2 DEF PeInv, PeTypes
      <4> QED  BY <3>1, <4>1
    <3>5. LastOf(n, address)
      <4>1. next - 1 = n
        BY <2>2 DEF PeInv, Loading
      <4> QED  BY <3>4, <4>1 DEF PeInv, Loading
    <3>6. PICK k \in 1..n : /\ Covers(k, address)
                            /\ \A h \in (k + 1)..n : ~Covers(h, address)
                            /\ memory[address + 1] = pe.sections[k].raw + (address - pe.sections[k].va)
      BY <2>2, <3>2, <3>5 DEF LastOf
    <3>7. k = m
      <4>1. k \in (m + 1)..n \/ m \in (k + 1)..n \/ k = m
        BY <2>2
      <4> QED  BY <3>2, <3>3, <3>6, <4>1
    <3>8. memory[address + 1] = raw + (address - va)
      BY <2>3, <2>4, <3>6, <3>7
    <3> QED  BY <3>1, <3>8
  <2>8. Find(s.name) = s
    <3>1. \A k \in 1..(m - 1) : pe.sections[k].name # s.name
      <4>1. SUFFICES ASSUME NEW k \in 1..(m - 1) PROVE pe.sections[k].name # SectionNames[j]
        BY <2>1, <2>3
      <4>2. CASE k \in 1..a
        BY <2>1, <2>a, <4>2
      <4>3. CASE k \notin 1..a
        <5>1. PICK h \in 1..6 : h < j /\ k = a + h
          <6>1. k - a \in 1..6 /\ k - a < j /\ k = a + (k - a)
            BY <2>1, <2>2, <4>3
          <6> QED  BY <6>1
        <5>2. pe.sections[k].name = SectionNames[h]
          BY <2>1, <2>b, <5>1
        <5> QED  BY <2>1, <5>1, <5>2, NamesDiffer
      <4> QED  BY <4>2, <4>3
    <3>2. m \in 1..n /\ pe.sections[m].name = s.name
      BY <2>2, <2>3
    <3>3. PICK i \in 1..n : /\ Find(s.name) = pe.sections[i] /\ pe.sections[i].name = s.name
                            /\ \A k \in 1..(i - 1) : pe.sections[k].name # s.name
      BY <2>2, <3>1, <3>2 DEF Find
    <3>4. i \in 1..(m - 1) \/ m \in 1..(i - 1) \/ i = m
      BY <2>2, <3>3
    <3> QED  BY <2>3, <3>1, <3>2, <3>3, <3>4
  <2>9. SectionData(s.name) = [i \in 1..vs |-> memory[va + i]]
    BY <2>4, <2>5, <2>8 DEF SectionData
  <2>10. ReadSectionData(s.name) = [i \in 1..vs |-> raw + i - 1]
    BY <2>4, <2>8 DEF ReadSectionData
  <2>11. SectionData(s.name) = [i \in 1..vs |-> raw + i - 1]
    BY <2>7, <2>9
  <2> QED  BY <2>1, <2>3, <2>4, <2>10, <2>11
<1> QED  BY <1>1, PeInvariant, PTL

-----------------------------------------------------------------------------
(* The os-release texts.                                                   *)

\* The parser on its own.
OsSpec == OsInit /\ [][OsNext]_osVars

\* The sequences that FlattenSeq runs through.
Running(g, n, seqs, A) ==
  /\ g \in [0..n -> Seq(A)] /\ g[0] = <<>>
  /\ \A i \in 1..n : g[i] = g[i - 1] \o seqs[i]

\* There are such sequences.
LEMMA RunningExists ==
  ASSUME NEW A, NEW n \in Nat, NEW seqs \in [1..n -> Seq(A)]
  PROVE  \E g : Running(g, n, seqs, A)
<1> DEFINE Bad == {m \in 0..n : ~ \E g : Running(g, m, seqs, A)}
<1> SUFFICES ASSUME ~ \E g : Running(g, n, seqs, A) PROVE FALSE
  OBVIOUS
<1>1. PICK m \in 0..n : /\ ~ \E g : Running(g, m, seqs, A)
                        /\ \A k \in 0..n : k < m => \E g : Running(g, k, seqs, A)
  <2>1. Bad \subseteq Nat /\ Bad # {}
    <3>1. n \in 0..n
      OBVIOUS
    <3>2. n \in Bad
      BY <3>1
    <3>3. Bad \subseteq 0..n
      OBVIOUS
    <3>4. 0..n \subseteq Nat
      OBVIOUS
    <3> HIDE DEF Bad
    <3> QED  BY <3>2, <3>3, <3>4, Zenon
  <2>2. PICK m \in Bad : \A k \in Bad : m <= k
    <3> HIDE DEF Bad
    <3> QED  BY <2>1, MinOfNaturals
  <2>3. \A k \in 0..n : k < m => k \notin Bad
    <3> HIDE DEF Bad
    <3> QED  BY <2>1, <2>2
  <2> QED  BY <2>2, <2>3
<1> HIDE DEF Bad
<1>2. m # 0
  <2>1. Running([i \in 0..0 |-> <<>>], 0, seqs, A)
    BY DEF Running
  <2> QED  BY <1>1, <2>1
<1>3. m \in 1..n /\ m - 1 \in 0..n /\ m - 1 < m
  BY <1>2
<1>4. PICK g : Running(g, m - 1, seqs, A)
  BY <1>1, <1>3
<1>5. g[m - 1] \in Seq(A) /\ seqs[m] \in Seq(A)
  BY <1>3, <1>4 DEF Running
<1>6. PICK last \in Seq(A) : last = g[m - 1] \o seqs[m]
  BY <1>5, ConcatProperties
<1>7. PICK h : h = [i \in 0..m |-> IF i = m THEN last ELSE g[i]]
  OBVIOUS
<1>8. Running(h, m, seqs, A)
  <2>1. \A i \in 0..m : i = m \/ i \in 0..(m - 1)
    BY <1>3
  <2>2. \A i \in 0..(m - 1) : g[i] \in Seq(A)
    BY <1>4 DEF Running
  <2>3. h \in [0..m -> Seq(A)]
    BY <1>7, <2>1, <2>2
  <2>4. h[0] = <<>>
    BY <1>3, <1>4, <1>7 DEF Running
  <2>5. ASSUME NEW i \in 1..m PROVE h[i] = h[i - 1] \o seqs[i]
    <3>0. i \in 0..m /\ i - 1 \in 0..m /\ i - 1 # m
      BY <1>3
    <3>1. h[i - 1] = g[i - 1]
      BY <1>7, <3>0
    <3>2. CASE i = m
      <4>1. h[m] = last
        BY <1>7, <3>0, <3>2
      <4> QED  BY <1>6, <3>1, <3>2, <4>1
    <3>3. CASE i # m
      <4>1. h[i] = g[i]
        BY <1>7, <3>0, <3>3
      <4>2. i \in 1..(m - 1)
        BY <3>3
      <4>3. g[i] = g[i - 1] \o seqs[i]
        BY <1>4, <4>2 DEF Running
      <4> QED  BY <3>1, <4>1, <4>3
    <3> QED  BY <3>2, <3>3
  <2> QED  BY <2>3, <2>4, <2>5 DEF Running
<1> QED  BY <1>1, <1>8

\* FlattenSeq gives the last of them: no index is the least at which it would not.
LEMMA Flattened ==
  ASSUME NEW A, NEW n \in Nat, NEW seqs \in [1..n -> Seq(A)], NEW g, Running(g, n, seqs, A)
  PROVE  FlattenSeq(seqs) = g[n]
<1> DEFINE Eq(f) == f = [i \in 1..Len(seqs) |-> IF i = 1 THEN seqs[i] ELSE f[i - 1] \o seqs[i]]
<1>1. Len(seqs) = n
  OBVIOUS
<1>2. CASE n = 0
  <2>1. FlattenSeq(seqs) = seqs
    BY <1>1, <1>2 DEF FlattenSeq
  <2>2. seqs = <<>>
    BY <1>2
  <2> QED  BY <1>2, <2>1, <2>2 DEF Running
<1>3. CASE n # 0
  <2>1. FlattenSeq(seqs) = (CHOOSE f : Eq(f))[Len(seqs)]
    BY <1>1, <1>3 DEF FlattenSeq
  <2>2. PICK f : f = CHOOSE h : Eq(h)
    OBVIOUS
  <2>3. Eq(f)
    <3>1. PICK h : h = [i \in 1..n |-> g[i]]
      OBVIOUS
    <3>2. ASSUME NEW i \in 1..n PROVE g[i] = IF i = 1 THEN seqs[i] ELSE h[i - 1] \o seqs[i]
      <4>1. g[i] = g[i - 1] \o seqs[i]
        BY DEF Running
      <4>2. CASE i = 1
        <5>1. seqs[1] \in Seq(A)
          BY <4>2
        <5>2. g[i - 1] = <<>>
          BY <4>2 DEF Running
        <5>3. <<>> \o seqs[1] = seqs[1]
          BY <5>1
        <5> QED  BY <4>1, <4>2, <5>2, <5>3
      <4>3. CASE i # 1
        <5>1. i - 1 \in 1..n
          BY <4>3
        <5>2. h[i - 1] = g[i - 1]
          BY <3>1, <5>1
        <5> QED  BY <4>1, <4>3, <5>2
      <4> QED  BY <4>2, <4>3
    <3>3. h = [i \in 1..n |-> IF i = 1 THEN seqs[i] ELSE h[i - 1] \o seqs[i]]
      BY <3>1, <3>2
    <3>4. Eq(h)
      BY <1>1, <3>3
    <3> HIDE DEF Eq
    <3> QED  BY <2>2, <3>4
  <2>4. \A i \in 1..n : f[i] = IF i = 1 THEN seqs[i] ELSE f[i - 1] \o seqs[i]
    <3>1. f = [i \in 1..n |-> IF i = 1 THEN seqs[i] ELSE f[i - 1] \o seqs[i]]
      BY <1>1, <2>3
    <3> QED  BY <3>1
  <2>5. \A i \in 1..n : f[i] = g[i]
    <3> DEFINE Bad == {i \in 1..n : f[i] # g[i]}
    <3> SUFFICES ASSUME NEW x \in 1..n, f[x] # g[x] PROVE FALSE
      OBVIOUS
    <3>1. PICK m \in 1..n : f[m] # g[m] /\ \A k \in 1..n : k < m => f[k] = g[k]
      <4>0. x \in Bad
        OBVIOUS
      <4>1. Bad \subseteq Nat
        OBVIOUS
      <4>2. PICK m \in Bad : \A k \in Bad : m <= k
        <5> HIDE DEF Bad
        <5>1. Bad # {}
          BY <4>0
        <5> QED  BY <4>1, <5>1, MinOfNaturals
      <4>3. \A k \in 1..n : k < m => k \notin Bad
        BY <4>2
      <4> QED  BY <4>2, <4>3
    <3> HIDE DEF Bad
    <3>2. g[m] = g[m - 1] \o seqs[m]
      BY DEF Running
    <3>3. CASE m = 1
      <4>1. f[m] = seqs[m]
        BY <2>4, <3>3
      <4>2. seqs[m] \in Seq(A)
        OBVIOUS
      <4>3. g[m - 1] = <<>>
        BY <3>3 DEF Running
      <4>4. <<>> \o seqs[m] = seqs[m]
        BY <4>2
      <4> QED  BY <3>1, <3>2, <4>1, <4>3, <4>4
    <3>4. CASE m # 1
      <4>1. m - 1 \in 1..n /\ m - 1 < m
        BY <3>4
      <4>2. f[m - 1] = g[m - 1]
        BY <3>1, <4>1
      <4>3. f[m] = f[m - 1] \o seqs[m]
        BY <2>4, <3>4
      <4> QED  BY <3>1, <3>2, <4>2, <4>3
    <3> QED  BY <3>3, <3>4
  <2>6. n \in 1..n
    BY <1>3
  <2> HIDE DEF Eq
  <2> QED  BY <1>1, <2>1, <2>2, <2>5, <2>6
<1> QED  BY <1>2, <1>3

\* A sequence and one that it begins with.
Begins(all, s) == Len(s) <= Len(all) /\ \A j \in 1..Len(s) : all[j] = s[j]

\* Each of them begins with those before it.
LEMMA PrefixesAgree ==
  ASSUME NEW A, NEW n \in Nat, NEW seqs \in [1..n -> Seq(A)], NEW g, Running(g, n, seqs, A),
         NEW k \in 0..n, NEW x \in k..n
  PROVE  Begins(g[x], g[k])
<1> DEFINE Ok(m) == Begins(g[m], g[k])
           Bad == {m \in k..n : ~Ok(m)}
<1>0. \A m \in 0..n : g[m] \in Seq(A) /\ Len(g[m]) \in Nat
  BY DEF Running
<1>1. SUFFICES ASSUME ~Ok(x) PROVE FALSE
  OBVIOUS
<1>2. PICK m \in k..n : ~Ok(m) /\ \A y \in k..n : y < m => Ok(y)
  <2> HIDE DEF Ok
  <2>1. Bad \subseteq k..n /\ x \in Bad
    BY <1>1
  <2>2. k..n \subseteq Nat
    OBVIOUS
  <2>3. PICK m \in Bad : \A y \in Bad : m <= y
    <3> HIDE DEF Bad
    <3>1. Bad \subseteq Nat /\ Bad # {}
      BY <2>1, <2>2, Zenon
    <3> QED  BY <3>1, MinOfNaturals
  <2>4. \A y \in k..n : y < m => y \notin Bad
    <3> HIDE DEF Bad
    <3> QED  BY <2>1, <2>2, <2>3
  <2> QED  BY <2>3, <2>4
<1>3. Ok(k)
  BY <1>0 DEF Begins
<1>4. m \in 1..n /\ m - 1 \in k..n /\ m - 1 \in 0..n /\ m - 1 < m
  <2>1. m # k
    <3> HIDE DEF Ok
    <3> QED  BY <1>2, <1>3
  <2> QED  BY <2>1
<1>5. PICK s \in Seq(A), t \in Seq(A) : s = g[m - 1] /\ t = seqs[m]
  BY <1>0, <1>4
<1>6. g[m] = s \o t
  BY <1>4, <1>5 DEF Running
<1>7. Joins(g[m], s, Len(s), t, Len(t), A)
  <2>1. Joins(s \o t, s, Len(s), t, Len(t), A)
    BY JoinedLengths, Zenon
  <2> QED  BY <1>6, <2>1, Zenon
<1>8. Ok(m - 1)
  BY <1>2, <1>4
<1>9. Len(g[k]) <= Len(s) /\ Len(s) <= Len(g[m]) /\ Len(g[k]) \in Nat /\ Len(s) \in Nat /\ Len(g[m]) \in Nat
  <2>1. Len(g[m]) = Len(s) + Len(t)
    BY <1>7, Zenon DEF Joins
  <2>2. Len(s) \in Nat /\ Len(t) \in Nat
    OBVIOUS
  <2>3. Len(g[k]) \in Nat /\ Len(g[k]) <= Len(s)
    BY <1>0, <1>5, <1>8 DEF Begins
  <2> QED  BY <2>1, <2>2, <2>3
<1>10. ASSUME NEW j \in 1..Len(g[k]) PROVE g[m][j] = g[k][j]
  <2>1. j \in 1..Len(s)
    BY <1>9
  <2>2. g[m][j] = s[j]
    BY <1>7, <2>1 DEF Joins
  <2> QED  BY <1>5, <1>8, <2>2 DEF Begins
<1>11. Ok(m)
  BY <1>9, <1>10 DEF Begins
<1> HIDE DEF Ok
<1> QED  BY <1>2, <1>11

\* The k-th sequence of the flattened one.
Piece(g, n, seqs, k) ==
  /\ Len(g[k]) = Len(g[k - 1]) + Len(seqs[k])
  /\ \A j \in 1..Len(seqs[k]) : g[n][Len(g[k - 1]) + j] = seqs[k][j]

\* Every sequence that is flattened is found where the ones before it end.
LEMMA Pieces ==
  ASSUME NEW A, NEW n \in Nat, NEW seqs \in [1..n -> Seq(A)], NEW g, Running(g, n, seqs, A),
         NEW k \in 1..n
  PROVE  Piece(g, n, seqs, k)
<1>1. k \in 0..n /\ k - 1 \in 0..n /\ n \in k..n
  OBVIOUS
<1>2. PICK s \in Seq(A), t \in Seq(A) : s = g[k - 1] /\ t = seqs[k]
  BY <1>1 DEF Running
<1>3. g[k] = s \o t
  BY <1>2 DEF Running
<1>4. Joins(g[k], s, Len(s), t, Len(t), A)
  <2>1. Joins(s \o t, s, Len(s), t, Len(t), A)
    BY JoinedLengths, Zenon
  <2> QED  BY <1>3, <2>1, Zenon
<1>5. ASSUME NEW j \in 1..Len(g[k]) PROVE g[n][j] = g[k][j]
  <2>1. PICK y \in 0..n : y = k
    BY <1>1
  <2>2. PICK x \in y..n : x = n
    BY <1>1
  <2>3. Begins(g[x], g[y])
    BY PrefixesAgree, Zenon
  <2> QED  BY <2>1, <2>2, <2>3 DEF Begins
<1>6. ASSUME NEW j \in 1..Len(t) PROVE g[n][Len(s) + j] = t[j]
  <2>1. Len(s) + j \in 1..Len(g[k])
    BY <1>4 DEF Joins
  <2>2. g[k][Len(s) + j] = t[j]
    BY <1>4 DEF Joins
  <2> QED  BY <1>5, <2>1, <2>2
<1>7. Len(g[k]) = Len(s) + Len(t)
  BY <1>4 DEF Joins
<1> QED  BY <1>2, <1>6, <1>7 DEF Piece

-----------------------------------------------------------------------------
\* Characters: those of a value and those the writer adds.
Chars == STRING \cup {"k", "equals", "quote", "apostrophe", "backslash", "newline"}

\* Three sequences of known lengths, one after the other.
Framed(all, h, a, body, b, t, c) ==
  /\ all \in Seq(Chars) /\ Len(all) = a + b + c
  /\ \A i \in 1..a : all[i] = h[i]
  /\ \A i \in 1..b : all[a + i] = body[i]
  /\ \A i \in 1..c : all[a + b + i] = t[i]

\* The elements of three sequences in a row.
LEMMA FramedText ==
  ASSUME NEW h \in Seq(Chars), NEW body \in Seq(Chars), NEW t \in Seq(Chars),
         NEW a \in Nat, NEW b \in Nat, NEW c \in Nat, a = Len(h), b = Len(body), c = Len(t)
  PROVE  Framed((h \o body) \o t, h, a, body, b, t, c)
<1>1. PICK left : left = h \o body
  OBVIOUS
<1>2. Joins(left, h, a, body, b, Chars)
  BY <1>1, JoinedLengths, Zenon
<1>3. left \in Seq(Chars) /\ Len(left) = a + b
  BY <1>2 DEF Joins
<1>4. PICK all : all = left \o t
  OBVIOUS
<1>5. PICK d \in Nat : d = a + b
  OBVIOUS
<1>6. Joins(all, left, d, t, c, Chars)
  BY <1>3, <1>4, <1>5, JoinedLengths, Zenon
<1>7. all \in Seq(Chars) /\ Len(all) = a + b + c
  BY <1>5, <1>6 DEF Joins
<1>8. \A i \in 1..d : all[i] = left[i]
  BY <1>6, Zenon DEF Joins
<1>9. ASSUME NEW i \in 1..a PROVE all[i] = h[i]
  <2>1. i \in 1..d
    BY <1>5
  <2>2. left[i] = h[i]
    BY <1>2, Zenon DEF Joins
  <2> QED  BY <1>8, <2>1, <2>2
<1>10. ASSUME NEW i \in 1..b PROVE all[a + i] = body[i]
  <2>1. a + i \in 1..d
    BY <1>5
  <2>2. left[a + i] = body[i]
    BY <1>2, Zenon DEF Joins
  <2> QED  BY <1>8, <2>1, <2>2
<1>11. \A i \in 1..c : all[d + i] = t[i]
  BY <1>6, Zenon DEF Joins
<1>12. Framed(all, h, a, body, b, t, c)
  BY <1>5, <1>7, <1>9, <1>10, <1>11 DEF Framed
<1> QED  BY <1>1, <1>4, <1>12

\* A text with a value in quotes; e[k] is where the k-th character of the value
\* ends, X the characters that have a backslash in front.
QuotedText(T, v, n, e, mark, X) ==
  /\ T \in Seq(Chars) /\ e \in [0..n -> Nat] /\ e[0] = 0 /\ Len(T) = e[n] + 5
  /\ T[1] = "k" /\ T[2] = "equals" /\ T[3] = mark
  /\ \A k \in 1..n : e[k] <= e[n]
  /\ \A k \in 1..n :
       \/ /\ v[k] \in X /\ e[k] = e[k - 1] + 2
          /\ T[e[k - 1] + 4] = "backslash" /\ T[e[k - 1] + 5] = v[k]
       \/ v[k] \notin X /\ e[k] = e[k - 1] + 1 /\ T[e[k - 1] + 4] = v[k]
  /\ T[e[n] + 4] = mark /\ T[e[n] + 5] = "newline"

\* Sequences of three and of two elements.
LEMMA ThreeAndTwo ==
  ASSUME NEW S, NEW a \in S, NEW b \in S, NEW c \in S, NEW d \in S
  PROVE  /\ <<a>> \o <<b, c>> = <<a, b, c>>
         /\ <<a, b, c>> \in Seq(S) /\ Len(<<a, b, c>>) = 3
         /\ <<c, d>> \in Seq(S) /\ Len(<<c, d>>) = 2
<1>0. <<a>> \in Seq(S) /\ <<b, c>> \in Seq(S) /\ <<a, b, c>> \in Seq(S)
  OBVIOUS
<1>a. PICK x \in Seq(S) : x = <<a>>
  BY <1>0, Zenon
<1>b. PICK y \in Seq(S) : y = <<b, c>>
  BY <1>0, Zenon
<1>c. PICK z \in Seq(S) : z = <<a, b, c>>
  BY <1>0, Zenon
<1>1. /\ x = <<a>> /\ Len(x) = 1 /\ x[1] = a
      /\ y = <<b, c>> /\ Len(y) = 2 /\ y[1] = b /\ y[2] = c
      /\ z = <<a, b, c>> /\ Len(z) = 3 /\ z[1] = a /\ z[2] = b /\ z[3] = c
  BY <1>a, <1>b, <1>c
<1>2. PICK w : w = x \o y
  OBVIOUS
<1>3. Joins(w, x, 1, y, 2, S)
  BY <1>1, <1>2, JoinedLengths, Zenon
<1>4. w \in Seq(S) /\ Len(w) = 3 /\ w[1] = x[1] /\ w[2] = y[1] /\ w[3] = y[2]
  BY <1>3 DEF Joins
<1>5. \A i \in 1..3 : i = 1 \/ i = 2 \/ i = 3
  OBVIOUS
<1>6. \A i \in 1..3 : w[i] = z[i]
  BY <1>1, <1>4, <1>5, Zenon
<1>7. w = z
  BY <1>1, <1>4, <1>6, SeqEqual
<1>8. <<c, d>> \in Seq(S) /\ Len(<<c, d>>) = 2
  OBVIOUS
<1> QED  BY <1>1, <1>2, <1>7, <1>8

\* The texts begin with a key and an equals sign and end in a newline.
LEMMA QuotedEnds ==
  ASSUME NEW mark \in {"quote", "apostrophe"}
  PROVE  \E h, t \in Seq(Chars) :
           /\ h = Key \o <<"equals", mark>> /\ t = <<mark, "newline">>
           /\ Len(h) = 3 /\ Len(t) = 2 /\ h[1] = "k" /\ h[2] = "equals" /\ h[3] = mark
           /\ t[1] = mark /\ t[2] = "newline"
<1>1. PICK a \in Chars, b \in Chars, c \in Chars, d \in Chars :
        a = "k" /\ b = "equals" /\ c = mark /\ d = "newline"
  BY DEF Chars
<1>2. Key \o <<"equals", mark>> = <<a>> \o <<b, c>>
  BY <1>1 DEF Key
<1>3. /\ <<a>> \o <<b, c>> = <<a, b, c>>
      /\ <<a, b, c>> \in Seq(Chars) /\ Len(<<a, b, c>>) = 3
      /\ <<c, d>> \in Seq(Chars) /\ Len(<<c, d>>) = 2
  BY ThreeAndTwo
<1>4. PICK h \in Seq(Chars) : h = <<a, b, c>> /\ Len(h) = 3 /\ h[1] = a /\ h[2] = b /\ h[3] = c
  BY <1>3
<1>5. PICK t \in Seq(Chars) : t = <<c, d>> /\ Len(t) = 2 /\ t[1] = c /\ t[2] = d
  BY <1>3
<1> QED  BY <1>1, <1>2, <1>3, <1>4, <1>5, Zenon

\* What is written in apostrophes is such a text, nothing escaped.
LEMMA SingleQuotedText ==
  ASSUME NEW v \in Seq(Chars), NEW n \in Nat, n = Len(v)
  PROVE  \E e : QuotedText(SingleQuoted(v), v, n, e, "apostrophe", {})
<1>1. PICK h \in Seq(Chars), t \in Seq(Chars) :
        /\ h = Key \o <<"equals", "apostrophe">> /\ t = <<"apostrophe", "newline">>
        /\ Len(h) = 3 /\ Len(t) = 2 /\ h[1] = "k" /\ h[2] = "equals" /\ h[3] = "apostrophe"
        /\ t[1] = "apostrophe" /\ t[2] = "newline"
  BY QuotedEnds
<1>2. SingleQuoted(v) = (h \o v) \o t
  BY <1>1 DEF SingleQuoted
<1>3. PICK T : T = SingleQuoted(v)
  OBVIOUS
<1>4. Framed(T, h, 3, v, n, t, 2)
  <2>1. PICK a \in Nat, d \in Nat : a = 3 /\ d = 2 /\ a = Len(h) /\ d = Len(t)
    BY <1>1
  <2>2. Framed((h \o v) \o t, h, a, v, n, t, d)
    BY <2>1, FramedText, Zenon
  <2> QED  BY <1>2, <1>3, <2>1, <2>2
<1>5. PICK e : e = [k \in 0..n |-> k]
  OBVIOUS
<1>6. QuotedText(T, v, n, e, "apostrophe", {})
  <2>1. T \in Seq(Chars) /\ Len(T) = e[n] + 5 /\ e \in [0..n -> Nat] /\ e[0] = 0 /\ e[n] = n
    BY <1>4, <1>5 DEF Framed
  <2>2. T[1] = "k" /\ T[2] = "equals" /\ T[3] = "apostrophe"
    BY <1>1, <1>4 DEF Framed
  <2>3. T[n + 4] = "apostrophe" /\ T[n + 5] = "newline"
    <3>1. T[3 + n + 1] = t[1] /\ T[3 + n + 2] = t[2]
      BY <1>4 DEF Framed
    <3> QED  BY <1>1, <3>1
  <2>5. \A k \in 1..n : e[k] <= e[n]
    BY <1>5
  <2>4. ASSUME NEW k \in 1..n PROVE e[k] = e[k - 1] + 1 /\ T[e[k - 1] + 4] = v[k]
    <3>1. e[k] = k /\ e[k - 1] = k - 1 /\ e[k - 1] + 4 = 3 + k
      BY <1>5
    <3>2. T[3 + k] = v[k]
      BY <1>4 DEF Framed
    <3> QED  BY <3>1, <3>2
  <2> QED  BY <2>1, <2>2, <2>3, <2>4, <2>5 DEF QuotedText
<1> QED  BY <1>3, <1>6

\* What is written in quotes is such a text, with what a shell takes escaped.
LEMMA DoubleQuotedText ==
  ASSUME NEW v \in Seq(Chars), NEW n \in Nat, n = Len(v)
  PROVE  \E e : QuotedText(DoubleQuoted(v), v, n, e, "quote", ShellNeedEscape)
<1>0. \A i \in 1..n : v[i] \in Chars
  OBVIOUS
<1>1. PICK seqs : seqs = [i \in 1..Len(v) |->
           IF v[i] \in ShellNeedEscape THEN <<"backslash", v[i]>> ELSE <<v[i]>>]
  OBVIOUS
<1>2. ASSUME NEW i \in 1..n
      PROVE  /\ seqs[i] \in Seq(Chars)
             /\ v[i] \in ShellNeedEscape => Len(seqs[i]) = 2 /\ seqs[i][1] = "backslash" /\ seqs[i][2] = v[i]
             /\ v[i] \notin ShellNeedEscape => Len(seqs[i]) = 1 /\ seqs[i][1] = v[i]
  <2>1. seqs[i] = IF v[i] \in ShellNeedEscape THEN <<"backslash", v[i]>> ELSE <<v[i]>>
    BY <1>1
  <2>2. PICK c \in Chars, b \in Chars : c = v[i] /\ b = "backslash"
    BY <1>0 DEF Chars
  <2>3. <<b, c>> \in Seq(Chars) /\ <<c>> \in Seq(Chars)
    OBVIOUS
  <2> QED  BY <2>1, <2>2, <2>3
<1>3. seqs \in [1..n -> Seq(Chars)]
  BY <1>1, <1>2
<1>4. PICK g : Running(g, n, seqs, Chars)
  BY <1>3, RunningExists, Zenon
<1>5. PICK body \in Seq(Chars) : body = g[n] /\ body = FlattenSeq(seqs)
  <2>1. FlattenSeq(seqs) = g[n]
    BY <1>3, <1>4, Flattened, Zenon
  <2>2. g[n] \in Seq(Chars)
    <3>1. n \in 0..n
      OBVIOUS
    <3> QED  BY <1>4, <3>1 DEF Running
  <2> QED  BY <2>1, <2>2
<1>6. PICK e \in [0..n -> Nat] : \A k \in 0..n : e[k] = Len(g[k])
  <2>1. [k \in 0..n |-> Len(g[k])] \in [0..n -> Nat]
    BY <1>4 DEF Running
  <2> QED  BY <2>1
<1>7. PICK h \in Seq(Chars), t \in Seq(Chars) :
        /\ h = Key \o <<"equals", "quote">> /\ t = <<"quote", "newline">>
        /\ Len(h) = 3 /\ Len(t) = 2 /\ h[1] = "k" /\ h[2] = "equals" /\ h[3] = "quote"
        /\ t[1] = "quote" /\ t[2] = "newline"
  BY QuotedEnds
<1>8. DoubleQuoted(v) = (h \o body) \o t
  BY <1>1, <1>5, <1>7 DEF DoubleQuoted
<1>9. PICK T : T = DoubleQuoted(v)
  OBVIOUS
<1>10. PICK b \in Nat : b = Len(body) /\ b = e[n]
  <2>1. n \in 0..n
    OBVIOUS
  <2>2. e[n] = Len(g[n]) /\ e[n] \in Nat
    BY <1>6, <2>1
  <2> QED  BY <1>5, <2>2
<1>11. Framed(T, h, 3, body, b, t, 2)
  <2>1. PICK a \in Nat, d \in Nat : a = 3 /\ d = 2 /\ a = Len(h) /\ d = Len(t)
    BY <1>7
  <2>2. Framed((h \o body) \o t, h, a, body, b, t, d)
    BY <1>10, <2>1, FramedText, Zenon
  <2> QED  BY <1>8, <1>9, <2>1, <2>2
<1>12. QuotedText(T, v, n, e, "quote", ShellNeedEscape)
  <2>1. T \in Seq(Chars) /\ Len(T) = e[n] + 5 /\ e[0] = 0
    <3>1. e[0] = Len(<<>>)
      BY <1>4, <1>6 DEF Running
    <3> QED  BY <1>10, <1>11, <3>1 DEF Framed
  <2>2. T[1] = "k" /\ T[2] = "equals" /\ T[3] = "quote"
    BY <1>7, <1>11 DEF Framed
  <2>3. T[e[n] + 4] = "quote" /\ T[e[n] + 5] = "newline"
    <3>1. T[3 + b + 1] = t[1] /\ T[3 + b + 2] = t[2]
      BY <1>11 DEF Framed
    <3>2. 3 + b + 1 = e[n] + 4 /\ 3 + b + 2 = e[n] + 5
      BY <1>10
    <3> QED  BY <1>7, <3>1, <3>2
  <2>4. ASSUME NEW k \in 1..n
        PROVE  /\ e[k] <= e[n]
               /\ \/ /\ v[k] \in ShellNeedEscape /\ e[k] = e[k - 1] + 2
                     /\ T[e[k - 1] + 4] = "backslash" /\ T[e[k - 1] + 5] = v[k]
                  \/ v[k] \notin ShellNeedEscape /\ e[k] = e[k - 1] + 1 /\ T[e[k - 1] + 4] = v[k]
    <3>1. PICK x \in Nat, l \in Nat : /\ x = e[k - 1] /\ l = Len(seqs[k]) /\ e[k] = x + l
                                      /\ \A j \in 1..l : body[x + j] = seqs[k][j]
      <4>1. Piece(g, n, seqs, k)
        BY <1>3, <1>4, Pieces, Zenon
      <4>2. k \in 0..n /\ k - 1 \in 0..n
        OBVIOUS
      <4>3. e[k - 1] \in Nat /\ e[k - 1] = Len(g[k - 1]) /\ e[k] = Len(g[k])
        BY <1>6, <4>2
      <4>4. Len(seqs[k]) \in Nat
        BY <1>2
      <4>5. PICK x \in Nat, l \in Nat : x = Len(g[k - 1]) /\ l = Len(seqs[k])
        BY <4>3, <4>4
      <4>6. Len(g[k]) = x + l /\ \A j \in 1..l : body[x + j] = seqs[k][j]
        BY <1>5, <4>1, <4>5, Zenon DEF Piece
      <4>7. x = e[k - 1] /\ e[k] = x + l
        BY <4>3, <4>5, <4>6
      <4> QED  BY <4>5, <4>6, <4>7
    <3>2. x + l <= b
      <4>1. Begins(g[n], g[k])
        <5>1. PICK y \in 0..n : y = k
          OBVIOUS
        <5>2. PICK z \in y..n : z = n
          OBVIOUS
        <5>3. Begins(g[z], g[y])
          BY <1>3, <1>4, PrefixesAgree, Zenon
        <5> QED  BY <5>1, <5>2, <5>3
      <4> QED  BY <1>5, <1>6, <1>10, <3>1, <4>1 DEF Begins
    <3>3. ASSUME NEW j \in 1..l PROVE T[x + 3 + j] = seqs[k][j]
      <4>1. x + j \in 1..b /\ 3 + (x + j) = x + 3 + j
        BY <3>2
      <4>2. T[3 + (x + j)] = body[x + j]
        BY <1>11, <4>1 DEF Framed
      <4> QED  BY <3>1, <4>1, <4>2
    <3>4. x + 3 + 1 = x + 4 /\ x + 3 + 2 = x + 5
      OBVIOUS
    <3>5. CASE v[k] \in ShellNeedEscape
      <4>1. l = 2 /\ seqs[k][1] = "backslash" /\ seqs[k][2] = v[k]
        BY <1>2, <3>1, <3>5
      <4>2. T[x + 3 + 1] = "backslash" /\ T[x + 3 + 2] = v[k]
        BY <3>3, <4>1
      <4> QED  BY <1>10, <3>1, <3>2, <3>4, <3>5, <4>1, <4>2
    <3>6. CASE v[k] \notin ShellNeedEscape
      <4>1. l = 1 /\ seqs[k][1] = v[k]
        BY <1>2, <3>1, <3>6
      <4>2. T[x + 3 + 1] = v[k]
        BY <3>3, <4>1
      <4> QED  BY <1>10, <3>1, <3>2, <3>4, <3>6, <4>1, <4>2
    <3> QED  BY <3>5, <3>6
  <2> QED  BY <2>1, <2>2, <2>3, <2>4 DEF QuotedText
<1> QED  BY <1>9, <1>12

-----------------------------------------------------------------------------
\* What Display writes.
BareLayout(T, v, n) ==
  /\ T \in Seq(Chars) /\ Len(T) = n + 3 /\ T[1] = "k" /\ T[2] = "equals"
  /\ \A i \in 1..n : T[i + 2] = v[i]
  /\ T[n + 3] = "newline"

\* Display writes the key, an equals sign, the value and a newline.
LEMMA BareText ==
  ASSUME NEW v \in Seq(Chars)
  PROVE  BareLayout(Bare(v), v, Len(v)) /\ Bare(v) \in Seq(Chars)
<1>0. PICK n \in Nat : n = Len(v)
  OBVIOUS
<1>1. PICK a \in Chars, b \in Chars, c \in Chars : a = "k" /\ b = "equals" /\ c = "newline"
  BY DEF Chars
<1>2. <<a>> \in Seq(Chars) /\ <<b>> \in Seq(Chars) /\ <<c>> \in Seq(Chars)
  OBVIOUS
<1>3. PICK x \in Seq(Chars) : x = <<a>>
  BY <1>2, Zenon
<1>4. PICK y \in Seq(Chars) : y = <<b>>
  BY <1>2, Zenon
<1>5. PICK t \in Seq(Chars) : t = <<c>>
  BY <1>2, Zenon
<1>6. Len(x) = 1 /\ x[1] = a /\ Len(y) = 1 /\ y[1] = b /\ Len(t) = 1 /\ t[1] = c
  BY <1>3, <1>4, <1>5
<1>7. PICK h : h = x \o y
  OBVIOUS
<1>8. Joins(h, x, 1, y, 1, Chars)
  BY <1>6, <1>7, JoinedLengths, Zenon
<1>9. h \in Seq(Chars) /\ Len(h) = 2 /\ h[1] = "k" /\ h[2] = "equals"
  BY <1>1, <1>6, <1>8 DEF Joins
<1>10. PICK T : T = (h \o v) \o t
  OBVIOUS
<1>11. Framed(T, h, 2, v, n, t, 1)
  BY <1>0, <1>6, <1>9, <1>10, FramedText
<1>12. Bare(v) = T
  BY <1>1, <1>3, <1>4, <1>5, <1>7, <1>10 DEF Bare, Key
<1>13. BareLayout(T, v, n)
  <2>1. T \in Seq(Chars) /\ Len(T) = n + 3
    BY <1>11 DEF Framed
  <2>2. T[1] = "k" /\ T[2] = "equals"
    BY <1>9, <1>11 DEF Framed
  <2>3. ASSUME NEW i \in 1..n PROVE T[i + 2] = v[i]
    <3>1. T[2 + i] = v[i] /\ 2 + i = i + 2
      BY <1>11 DEF Framed
    <3> QED  BY <3>1
  <2>4. T[n + 3] = "newline"
    <3>1. T[2 + n + 1] = t[1] /\ 2 + n + 1 = n + 3
      BY <1>11 DEF Framed
    <3> QED  BY <1>1, <1>6, <3>1
  <2> QED  BY <2>1, <2>2, <2>3, <2>4 DEF BareLayout
<1> QED  BY <1>0, <1>12, <1>13 DEF BareLayout

\* trim_end shortens what ends in whitespace and leaves anything else alone.
LEMMA TrimEndFacts ==
  ASSUME NEW s \in Seq(Chars)
  PROVE  /\ TrimEnd(s) \in Seq(Chars) /\ Len(TrimEnd(s)) \in Nat /\ Len(TrimEnd(s)) <= Len(s)
         /\ s = <<>> \/ s[Len(s)] \notin UnicodeWhitespace => TrimEnd(s) = s
         /\ s # <<>> /\ s[Len(s)] \in UnicodeWhitespace => Len(TrimEnd(s)) < Len(s)
<1>1. PICK l \in Nat : l = Len(s)
  OBVIOUS
<1> DEFINE Kept == {n \in 0..l : \A i \in (n + 1)..l : s[i] \in UnicodeWhitespace}
<1>2. Kept \subseteq Nat /\ l \in Kept
  <2>1. l \in 0..l /\ \A i \in (l + 1)..l : FALSE
    OBVIOUS
  <2> QED  BY <2>1
<1>3. \E n \in Kept : \A m \in Kept : n <= m
  <2> HIDE DEF Kept
  <2> QED  BY <1>2, MinOfNaturals
<1>4. PICK n : n = CHOOSE k \in Kept : \A m \in Kept : k <= m
  OBVIOUS
<1>5. n \in Kept /\ \A m \in Kept : n <= m
  <2> HIDE DEF Kept
  <2> QED  BY <1>3, <1>4
<1>6. TrimEnd(s) = SubSeq(s, 1, n)
  BY <1>1, <1>4 DEF TrimEnd
<1>7. n \in 0..l /\ \A i \in (n + 1)..l : s[i] \in UnicodeWhitespace
  BY <1>5
<1>8. l > 0 /\ s[l] \in UnicodeWhitespace => l - 1 \in Kept
  <2>1. l > 0 => l - 1 \in 0..l /\ \A i \in ((l - 1) + 1)..l : i = l
    OBVIOUS
  <2> QED  BY <2>1
<1>9. l > 0 /\ s[l] \in UnicodeWhitespace => n < l
  <2> HIDE DEF Kept
  <2> QED  BY <1>5, <1>7, <1>8
<1> HIDE DEF Kept
<1>10. l = 0 \/ s[l] \notin UnicodeWhitespace => n = l
  <2>1. l > 0 /\ n < l => l \in (n + 1)..l
    BY <1>7
  <2> QED  BY <1>7, <2>1
<1>11. PICK t : t = SubSeq(s, 1, n)
  OBVIOUS
<1>12. t \in Seq(Chars) /\ Len(t) = n /\ \A i \in 1..n : t[i] = s[i]
  BY <1>1, <1>7, <1>11, SubSeqProperties
<1>13. n = l => t = s
  BY <1>1, <1>12, SeqEqual
<1> QED  BY <1>1, <1>6, <1>7, <1>9, <1>10, <1>11, <1>12, <1>13

\* An entry of the map.
Pairs == Seq(Chars) \X Seq(Chars)

\* The types of the parser's variables.
OsTypes ==
  /\ text \in Seq(Chars) /\ current_key \in Seq(Chars) /\ current_value \in Seq(Chars)
  /\ map \in Seq(Pairs) /\ written.value \in Seq(Chars)
  /\ state = "Idle" => map = <<>>

\* What the parser appends to a buffer.
LEMMA AppendAny ==
  ASSUME NEW s \in Seq(Chars), NEW c \in Chars
  PROVE  /\ Append(s, c) \in Seq(Chars) /\ s \o <<"backslash", c>> \in Seq(Chars)
         /\ Len(Append(s, c)) = Len(s) + 1 /\ Append(s, c)[Len(s) + 1] = c
         /\ \A i \in 1..Len(s) : Append(s, c)[i] = s[i]
         /\ Joins(s \o <<"backslash", c>>, s, Len(s), <<"backslash", c>>, 2, Chars)
<1>1. PICK b \in Chars : b = "backslash"
  BY DEF Chars
<1>2. <<b, c>> \in Seq(Chars) /\ Len(<<b, c>>) = 2
  OBVIOUS
<1>3. PICK t \in Seq(Chars) : t = <<"backslash", c>> /\ Len(t) = 2
  BY <1>1, <1>2
<1>4. Joins(s \o t, s, Len(s), t, 2, Chars)
  BY <1>3, JoinedLengths, Zenon
<1>5. s \o t \in Seq(Chars)
  BY <1>4 DEF Joins
<1>6. /\ Append(s, c) \in Seq(Chars)
      /\ Len(Append(s, c)) = Len(s) + 1 /\ Append(s, c)[Len(s) + 1] = c
      /\ \A i \in 1..Len(s) : Append(s, c)[i] = s[i]
  BY AppendProperties
<1> QED  BY <1>3, <1>4, <1>5, <1>6

\* What the parser stores.
LEMMA StoreType ==
  ASSUME NEW k \in Seq(Chars), NEW v \in Seq(Chars), NEW m \in Seq(Pairs)
  PROVE  /\ Append(m, <<TrimEnd(k), v>>) \in Seq(Pairs)
         /\ Append(m, <<TrimEnd(k), TrimEnd(v)>>) \in Seq(Pairs)
<1>1. TrimEnd(k) \in Seq(Chars) /\ TrimEnd(v) \in Seq(Chars)
  BY TrimEndFacts
<1>2. PICK x \in Pairs, y \in Pairs : x = <<TrimEnd(k), v>> /\ y = <<TrimEnd(k), TrimEnd(v)>>
  BY <1>1 DEF Pairs
<1> QED  BY <1>2, AppendProperties

\* The character that is read and the text after it.
LEMMA HeadTail ==
  ASSUME OsTypes, ReadChar
  PROVE  Head(text) \in Chars /\ text' \in Seq(Chars)
  BY DEF OsTypes, ReadChar

\* OsTypes is preserved by every step.
LEMMA OsTypesStep == OsTypes /\ [OsNext]_osVars => OsTypes'
<1> SUFFICES ASSUME OsTypes, [OsNext]_osVars PROVE OsTypes'
  OBVIOUS
<1>0. \A t \in Texts \cup Values : t \in Seq(Chars)
  BY OsAssumption DEF Chars
<1>a. current_key \in Seq(Chars) /\ current_value \in Seq(Chars) /\ map \in Seq(Pairs)
  BY DEF OsTypes
<1>b. /\ map \in Seq(Pairs)
      /\ Append(map, <<TrimEnd(current_key), current_value>>) \in Seq(Pairs)
      /\ Append(map, <<TrimEnd(current_key), TrimEnd(current_value)>>) \in Seq(Pairs)
  BY <1>a, StoreType, Zenon
<1>1. CASE BeginParse
  <2>0. state' = "PreKey" /\ UNCHANGED <<current_key, current_value, map>>
    BY <1>1 DEF BeginParse, Begin
  <2>1. ASSUME NEW t \in Texts, Begin(t, "none", <<>>) PROVE OsTypes'
    BY <1>0, <2>0, <2>1 DEF Begin, OsTypes
  <2>2. ASSUME NEW v \in Values, Begin(Bare(v), "bare", v) PROVE OsTypes'
    BY <1>0, <2>0, <2>2, BareText DEF Begin, OsTypes
  <2>3. ASSUME NEW v \in Values, Begin(DoubleQuoted(v), "double", v) PROVE OsTypes'
    <3>1. v \in Seq(Chars) /\ Len(v) \in Nat
      BY <1>0
    <3>2. DoubleQuoted(v) \in Seq(Chars)
      BY <3>1, DoubleQuotedText DEF QuotedText
    <3> QED  BY <2>0, <2>3, <3>1, <3>2 DEF Begin, OsTypes
  <2>4. ASSUME NEW v \in Values, Begin(SingleQuoted(v), "single", v) PROVE OsTypes'
    <3>1. v \in Seq(Chars) /\ Len(v) \in Nat
      BY <1>0
    <3>2. SingleQuoted(v) \in Seq(Chars)
      BY <3>1, SingleQuotedText DEF QuotedText
    <3> QED  BY <2>0, <2>4, <3>1, <3>2 DEF Begin, OsTypes
  <2> QED  BY <1>1, <2>1, <2>2, <2>3, <2>4 DEF BeginParse
<1>2. CASE ReadChar
  <2>1. PICK c \in Chars : c = Head(text)
    BY <1>2, HeadTail
  <2>2. text' \in Seq(Chars) /\ written' = written
    BY <1>2, HeadTail DEF ReadChar
  <2>3. /\ current_key' \in {current_key, <<>>, Append(current_key, c)}
        /\ current_value' \in {current_value, <<>>, Append(current_value, c),
                               current_value \o <<"backslash", c>>}
        /\ map' \in {map, Append(map, <<TrimEnd(current_key), current_value>>),
                     Append(map, <<TrimEnd(current_key), TrimEnd(current_value)>>)}
        /\ state' # "Idle"
    BY <1>2, <2>1 DEF ReadChar, PreKey, ReadKey, PreValue, Value, ValueEscape, SingleQuoteValue,
       DoubleQuoteValue, DoubleQuoteValueEscape, Comment, CommentEscape, Go, Push, Store
  <2>4. current_key' \in Seq(Chars) /\ current_value' \in Seq(Chars)
    <3>1. current_key \in Seq(Chars) /\ current_value \in Seq(Chars)
      BY DEF OsTypes
    <3>2. /\ Append(current_key, c) \in Seq(Chars) /\ Append(current_value, c) \in Seq(Chars)
          /\ current_value \o <<"backslash", c>> \in Seq(Chars)
      BY <3>1, AppendAny, Zenon
    <3>3. <<>> \in Seq(Chars)
      OBVIOUS
    <3>4. current_key' \in Seq(Chars)
      BY <2>3, <3>1, <3>2, <3>3, Zenon
    <3>5. current_value' \in Seq(Chars)
      BY <2>3, <3>1, <3>2, <3>3, Zenon
    <3> QED  BY <3>4, <3>5
  <2>5. map' \in Seq(Pairs)
    BY <1>b, <2>3, Zenon
  <2> QED  BY <2>2, <2>3, <2>4, <2>5 DEF OsTypes
<1>3. CASE EndOfText
  <2>1. map' \in {map, Append(map, <<TrimEnd(current_key), current_value>>),
                  Append(map, <<TrimEnd(current_key), TrimEnd(current_value)>>)}
    BY <1>3 DEF EndOfText
  <2>2. map' \in Seq(Pairs)
    BY <1>b, <2>1, Zenon
  <2> QED  BY <1>3, <2>2 DEF OsTypes, EndOfText
<1>4. CASE UNCHANGED osVars
  BY <1>4 DEF OsTypes, osVars
<1> QED  BY <1>1, <1>2, <1>3, <1>4 DEF OsNext

-----------------------------------------------------------------------------
(* The parser on a written text.                                           *)

\* `text` is what follows the first p characters of T.
Rest(T, p) ==
  /\ T \in Seq(Chars) /\ p \in 0..Len(T) /\ text \in Seq(Chars) /\ Len(text) = Len(T) - p
  /\ \A i \in 1..Len(text) : text[i] = T[p + i]

\* At first nothing has been read.
LEMMA RestBegins ==
  ASSUME NEW T \in Seq(Chars), text' = T
  PROVE  Rest(T, 0)'
  BY DEF Rest

\* Reading takes the next character.
LEMMA ReadNext ==
  ASSUME NEW T, NEW p, Rest(T, p), ReadChar
  PROVE  /\ p + 1 \in 1..Len(T) /\ Head(text) = T[p + 1] /\ T[p + 1] \in Chars
         /\ Rest(T, p + 1)'
<1>1. PICK l \in Nat : l = Len(T)
  BY DEF Rest
<1>2. text # <<>> /\ text' = Tail(text)
  BY DEF ReadChar
<1>3. text \in Seq(Chars) /\ T \in Seq(Chars) /\ p \in 0..l /\ Len(text) = l - p
  BY <1>1 DEF Rest
<1>4. l - p > 0
  BY <1>2, <1>3
<1>5. /\ text' \in Seq(Chars) /\ Len(text') = Len(text) - 1
      /\ \A i \in 1..Len(text') : text'[i] = text[i + 1]
  BY <1>2, <1>3, HeadTailProperties
<1>6. \A i \in 1..(l - p) : text[i] = T[p + i]
  BY <1>1, <1>3 DEF Rest
<1>7. Head(text) = text[1] /\ 1 \in 1..(l - p)
  BY <1>3, <1>4
<1>8. Head(text) = T[p + 1]
  BY <1>6, <1>7
<1>9. \A i \in 1..(l - (p + 1)) : text'[i] = T[p + 1 + i]
  <2> TAKE i \in 1..(l - (p + 1))
  <2>1. text'[i] = text[i + 1] /\ i + 1 \in 1..(l - p)
    BY <1>3, <1>5
  <2>2. text[i + 1] = T[p + (i + 1)]
    BY <1>6, <2>1
  <2>3. p + (i + 1) = p + 1 + i
    BY <1>3
  <2> QED  BY <2>1, <2>2, <2>3
<1>10. p + 1 \in 1..l /\ T[p + 1] \in Chars
  BY <1>1, <1>3, <1>4
<1>11. Rest(T, p + 1)'
  <2>1. p + 1 \in 0..l /\ Len(text') = l - (p + 1)
    BY <1>3, <1>4, <1>5
  <2> QED  BY <1>1, <1>3, <1>5, <1>9, <2>1 DEF Rest
<1> QED  BY <1>1, <1>8, <1>10, <1>11

\* Nothing is left once every character has been read.
LEMMA AllRead ==
  ASSUME NEW T, NEW p, Rest(T, p), text = <<>>
  PROVE  p = Len(T)
  BY DEF Rest

\* A character is read by the handler of the state.
LEMMA ReadIn ==
  ASSUME ReadChar
  PROVE  /\ state = "PreKey" => PreKey(Head(text))
         /\ state = "Key" => ReadKey(Head(text))
         /\ state = "PreValue" => PreValue(Head(text))
         /\ state = "Value" => Value(Head(text))
         /\ state = "ValueEscape" => ValueEscape(Head(text))
         /\ state = "SingleQuoteValue" => SingleQuoteValue(Head(text))
         /\ state = "DoubleQuoteValue" => DoubleQuoteValue(Head(text))
         /\ state = "DoubleQuoteValueEscape" => DoubleQuoteValueEscape(Head(text))
  BY DEF ReadChar

\* The key the writer uses has no whitespace to trim.
LEMMA KeyFacts == Key \in Seq(Chars) /\ TrimEnd(Key) = Key /\ Append(<<>>, "k") = Key
<1>1. PICK c \in Chars : c = "k"
  BY DEF Chars
<1>2. <<c>> \in Seq(Chars) /\ Len(<<c>>) = 1 /\ <<c>>[1] = c
  OBVIOUS
<1>3. Key = <<c>>
  BY <1>1 DEF Key
<1>4. TrimEnd(Key) = Key
  <2>1. c \notin UnicodeWhitespace
    BY <1>1 DEF UnicodeWhitespace, Whitespace, Newline
  <2> QED  BY <1>2, <1>3, <2>1, TrimEndFacts
<1>5. Append(<<>>, c) = <<c>>
  OBVIOUS
<1> QED  BY <1>1, <1>2, <1>3, <1>4, <1>5

\* The first k characters of v.
Agree(s, v, k) == s \in Seq(Chars) /\ Len(s) = k /\ \A i \in 1..k : s[i] = v[i]

\* A buffer follows the value character by character, up to all of it.
LEMMA AgreeFacts ==
  ASSUME NEW v \in Seq(Chars)
  PROVE  /\ Agree(<<>>, v, 0)
         /\ \A s : Agree(s, v, Len(v)) => s = v
         /\ \A s, k, c : /\ k + 1 \in 1..Len(v) /\ k \in Nat /\ Agree(s, v, k) /\ c = v[k + 1]
                         => Agree(Append(s, c), v, k + 1)
<1>1. Agree(<<>>, v, 0)
  <2>1. <<>> \in Seq(Chars) /\ Len(<<>>) = 0 /\ \A i \in 1..0 : FALSE
    OBVIOUS
  <2> QED  BY <2>1 DEF Agree
<1>2. ASSUME NEW s, Agree(s, v, Len(v)) PROVE s = v
  BY <1>2, SeqEqual DEF Agree
<1>3. ASSUME NEW s, NEW k \in Nat, NEW c, k + 1 \in 1..Len(v), Agree(s, v, k), c = v[k + 1]
      PROVE  Agree(Append(s, c), v, k + 1)
  <2>1. c \in Chars
    BY <1>3
  <2>2. s \in Seq(Chars) /\ Len(s) = k /\ \A i \in 1..k : s[i] = v[i]
    BY <1>3 DEF Agree
  <2>3. PICK t : t = Append(s, c)
    OBVIOUS
  <2>4. t \in Seq(Chars) /\ Len(t) = k + 1 /\ t[k + 1] = c /\ \A i \in 1..k : t[i] = s[i]
    BY <2>1, <2>2, <2>3, AppendAny
  <2>5. \A i \in 1..(k + 1) : i \in 1..k \/ i = k + 1
    OBVIOUS
  <2>6. \A i \in 1..(k + 1) : t[i] = v[i]
    BY <1>3, <2>2, <2>4, <2>5, Zenon
  <2> QED  BY <2>3, <2>4, <2>6 DEF Agree
<1> QED  BY <1>1, <1>2, <1>3

\* The first entry that is stored.
LEMMA OneEntry ==
  ASSUME NEW v, current_key = Key, map = <<>>, Store(v)
  PROVE  map' = <<<<Key, v>>>> /\ state' = "PreKey"
  BY KeyFacts DEF Store

\* The two ways of quoting.
Quoting(v, n, mark, X, inside) ==
  \/ mark = "quote" /\ X = ShellNeedEscape /\ inside = "DoubleQuoteValue"
  \/ /\ mark = "apostrophe" /\ X = {} /\ inside = "SingleQuoteValue"
     /\ \A i \in 1..n : v[i] # "apostrophe"

\* How far the parser is in a text with a value in quotes.
InKey == current_key = Key /\ map = <<>>
AtStart(T) == Rest(T, 0) /\ state = "PreKey" /\ current_key = <<>> /\ current_value = <<>> /\ map = <<>>
AtEquals(T) == Rest(T, 1) /\ state = "Key" /\ InKey /\ current_value = <<>>
AtMark(T) == Rest(T, 2) /\ state = "PreValue" /\ InKey /\ current_value = <<>>
Inside(T, v, n, e, inside) ==
  \E k \in 0..n : Rest(T, e[k] + 3) /\ state = inside /\ InKey /\ Agree(current_value, v, k)
Escaped(T, v, n, e, X) ==
  \E k \in 0..n : /\ k + 1 \in 1..n /\ v[k + 1] \in X /\ X = ShellNeedEscape
                  /\ Rest(T, e[k] + 4) /\ state = "DoubleQuoteValueEscape" /\ InKey
                  /\ Agree(current_value, v, k)
AtNewline(T, v, n, e) == Rest(T, e[n] + 4) /\ state = "PreValue" /\ InKey /\ current_value = v
Read(v) == text = <<>> /\ state \in {"PreKey", "Done"} /\ map = <<<<Key, v>>>>

\* One of these phases.
QuotedPhase(T, v, n, e, X, inside) ==
  \/ AtStart(T) \/ AtEquals(T) \/ AtMark(T)
  \/ Inside(T, v, n, e, inside) \/ Escaped(T, v, n, e, X) \/ AtNewline(T, v, n, e)
  \/ Read(v)

\* The first character is the key.
LEMMA StartStep ==
  ASSUME NEW T, AtStart(T), ReadChar, T[1] = "k"
  PROVE  AtEquals(T)'
<1>1. Head(text) = "k" /\ Rest(T, 1)'
  BY ReadNext DEF AtStart
<1>2. PreKey("k")
  BY <1>1, ReadIn DEF AtStart
<1>3. state' = "Key" /\ current_key' = Append(<<>>, "k") /\ current_value' = <<>> /\ map' = <<>>
  BY <1>2 DEF PreKey, AtStart, Comments, Whitespace, Newline
<1> QED  BY <1>1, <1>3, KeyFacts DEF AtEquals, InKey

\* The second character ends the key.
LEMMA EqualsStep ==
  ASSUME NEW T, AtEquals(T), ReadChar, T[2] = "equals"
  PROVE  AtMark(T)'
<1>1. Head(text) = "equals" /\ Rest(T, 2)'
  <2>1. Rest(T, 1) /\ 1 + 1 = 2
    BY DEF AtEquals
  <2> QED  BY <2>1, ReadNext
<1>2. ReadKey("equals")
  BY <1>1, ReadIn DEF AtEquals
<1> QED  BY <1>1, <1>2 DEF ReadKey, Go, AtEquals, AtMark, InKey, Newline

\* Every character of a quoted value moves the parser to the next phase.
LEMMA QuotedStep ==
  ASSUME NEW T, NEW n \in Nat, NEW v \in Seq(Chars), n = Len(v), NEW e, NEW mark, NEW X, NEW inside,
         QuotedText(T, v, n, e, mark, X), Quoting(v, n, mark, X, inside),
         QuotedPhase(T, v, n, e, X, inside), ReadChar
  PROVE  QuotedPhase(T, v, n, e, X, inside)'
<1>1. /\ T \in Seq(Chars) /\ e \in [0..n -> Nat] /\ e[0] = 0 /\ Len(T) = e[n] + 5
      /\ T[1] = "k" /\ T[2] = "equals" /\ T[3] = mark
      /\ T[e[n] + 4] = mark /\ T[e[n] + 5] = "newline" /\ e[n] \in Nat
  BY DEF QuotedText
<1>2. CASE AtStart(T)
  BY <1>1, <1>2, StartStep DEF QuotedPhase
<1>3. CASE AtEquals(T)
  BY <1>1, <1>3, EqualsStep DEF QuotedPhase
<1>4. CASE AtMark(T)
  <2>1. Head(text) = mark /\ Rest(T, 3)'
    <3>1. Rest(T, 2) /\ 2 + 1 = 3
      BY <1>4 DEF AtMark
    <3> QED  BY <1>1, <3>1, ReadNext
  <2>2. PreValue(mark)
    BY <1>4, <2>1, ReadIn DEF AtMark
  <2>3. Go(inside)
    BY <2>2 DEF PreValue, Quoting, Whitespace, Newline
  <2>4. Agree(<<>>, v, 0) /\ 0 \in 0..n /\ e[0] + 3 = 3
    BY <1>1, AgreeFacts
  <2>5. Inside(T, v, n, e, inside)'
    BY <1>4, <2>1, <2>3, <2>4 DEF Inside, Go, AtMark, InKey
  <2> QED  BY <2>5 DEF QuotedPhase
<1>5. CASE Inside(T, v, n, e, inside)
  <2>1. PICK k \in 0..n :
          Rest(T, e[k] + 3) /\ state = inside /\ InKey /\ Agree(current_value, v, k)
    BY <1>5 DEF Inside
  <2>2. e[k] \in Nat
    BY <1>1
  <2>3. Head(text) = T[e[k] + 4] /\ Rest(T, e[k] + 4)'
    <3>1. e[k] + 3 + 1 = e[k] + 4
      BY <2>2
    <3> QED  BY <2>1, <3>1, ReadNext
  <2>4. PICK c : c = T[e[k] + 4]
    OBVIOUS
  <2>5. \/ inside = "DoubleQuoteValue" /\ DoubleQuoteValue(c)
        \/ inside = "SingleQuoteValue" /\ SingleQuoteValue(c)
    BY <2>1, <2>3, <2>4, ReadIn DEF Quoting
  <2>6. CASE k = n
    <3>1. c = mark
      BY <1>1, <2>4, <2>6
    <3>2. Go("PreValue")
      BY <2>5, <3>1 DEF DoubleQuoteValue, SingleQuoteValue, Quoting
    <3>3. current_value = v
      BY <2>1, <2>6, AgreeFacts
    <3>4. AtNewline(T, v, n, e)'
      BY <2>1, <2>3, <2>6, <3>2, <3>3 DEF AtNewline, Go, InKey
    <3> QED  BY <3>4 DEF QuotedPhase
  <2>7. CASE k < n
    <3>1. k + 1 \in 1..n /\ (k + 1) - 1 = k /\ k \in Nat
      BY <2>7
    <3>2. \/ v[k + 1] \in X /\ e[k + 1] = e[k] + 2 /\ c = "backslash"
          \/ v[k + 1] \notin X /\ e[k + 1] = e[k] + 1 /\ c = v[k + 1]
      <4>1. \A j \in 1..n :
             \/ v[j] \in X /\ e[j] = e[j - 1] + 2 /\ T[e[j - 1] + 4] = "backslash"
             \/ v[j] \notin X /\ e[j] = e[j - 1] + 1 /\ T[e[j - 1] + 4] = v[j]
        BY DEF QuotedText
      <4> QED  BY <2>4, <3>1, <4>1
    <3>3. CASE v[k + 1] \in X
      <4>1. X = ShellNeedEscape /\ inside = "DoubleQuoteValue" /\ c = "backslash"
        BY <3>2, <3>3 DEF Quoting
      <4>2. Go("DoubleQuoteValueEscape")
        BY <2>5, <4>1 DEF DoubleQuoteValue
      <4>3. Escaped(T, v, n, e, X)'
        BY <2>1, <2>3, <3>1, <3>3, <4>1, <4>2 DEF Escaped, Go, InKey
      <4> QED  BY <4>3 DEF QuotedPhase
    <3>4. CASE v[k + 1] \notin X
      <4>1. c = v[k + 1] /\ e[k + 1] = e[k] + 1
        BY <3>2, <3>4
      <4>2. Push(inside, c)
        <5>1. mark = "quote" => c \notin {"quote", "backslash"}
          BY <3>4, <4>1 DEF Quoting, ShellNeedEscape
        <5>2. mark = "apostrophe" => c # "apostrophe"
          BY <3>1, <4>1 DEF Quoting
        <5> QED  BY <2>5, <5>1, <5>2 DEF DoubleQuoteValue, SingleQuoteValue, Quoting
      <4>3. Agree(Append(current_value, c), v, k + 1)
        BY <2>1, <3>1, <4>1, AgreeFacts
      <4>4. Rest(T, e[k + 1] + 3)' /\ k + 1 \in 0..n
        <5>1. e[k + 1] + 3 = e[k] + 4
          BY <2>2, <4>1
        <5> QED  BY <2>3, <3>1, <5>1
      <4>5. Inside(T, v, n, e, inside)'
        BY <2>1, <4>2, <4>3, <4>4 DEF Inside, Push, InKey
      <4> QED  BY <4>5 DEF QuotedPhase
    <3> QED  BY <3>3, <3>4
  <2> QED  BY <2>6, <2>7
<1>6. CASE Escaped(T, v, n, e, X)
  <2>1. PICK k \in 0..n :
          /\ k + 1 \in 1..n /\ v[k + 1] \in X /\ X = ShellNeedEscape
          /\ Rest(T, e[k] + 4) /\ state = "DoubleQuoteValueEscape" /\ InKey
          /\ Agree(current_value, v, k)
    BY <1>6 DEF Escaped
  <2>2. e[k] \in Nat /\ inside = "DoubleQuoteValue" /\ (k + 1) - 1 = k
    BY <1>1, <2>1 DEF Quoting
  <2>3. e[k + 1] = e[k] + 2 /\ T[e[k] + 5] = v[k + 1]
    <3>1. \A j \in 1..n : v[j] \in X => e[j] = e[j - 1] + 2 /\ T[e[j - 1] + 5] = v[j]
      BY DEF QuotedText
    <3> QED  BY <2>1, <2>2, <3>1
  <2>4. Head(text) = v[k + 1] /\ Rest(T, e[k + 1] + 3)'
    <3>1. e[k] + 4 + 1 = e[k] + 5 /\ e[k + 1] + 3 = e[k] + 5
      BY <2>2, <2>3
    <3>2. Head(text) = T[e[k] + 5] /\ Rest(T, e[k] + 5)'
      BY <2>1, <3>1, ReadNext
    <3> QED  BY <2>3, <3>1, <3>2
  <2>5. DoubleQuoteValueEscape(v[k + 1])
    BY <2>1, <2>4, ReadIn
  <2>6. Push(inside, v[k + 1])
    BY <2>1, <2>2, <2>5 DEF DoubleQuoteValueEscape, ShellNeedEscape
  <2>7. Agree(Append(current_value, v[k + 1]), v, k + 1) /\ k + 1 \in 0..n
    BY <2>1, AgreeFacts
  <2>8. Inside(T, v, n, e, inside)'
    BY <2>1, <2>4, <2>6, <2>7 DEF Inside, Push, InKey
  <2> QED  BY <2>8 DEF QuotedPhase
<1>7. CASE AtNewline(T, v, n, e)
  <2>1. Head(text) = "newline" /\ Rest(T, Len(T))'
    <3>1. e[n] + 4 + 1 = e[n] + 5
      BY <1>1
    <3> QED  BY <1>1, <1>7, <3>1, ReadNext DEF AtNewline
  <2>2. PreValue("newline")
    BY <1>7, <2>1, ReadIn DEF AtNewline
  <2>3. Store(v)
    <3>1. Store(current_value)
      BY <2>2 DEF PreValue, Newline, Whitespace
    <3> QED  BY <1>7, <3>1 DEF AtNewline, Store
  <2>4. map' = <<<<Key, v>>>> /\ state' = "PreKey"
    BY <1>7, <2>3, OneEntry DEF AtNewline, InKey
  <2>5. text' = <<>>
    BY <2>1 DEF Rest
  <2> QED  BY <2>4, <2>5 DEF QuotedPhase, Read
<1>8. CASE Read(v)
  BY <1>8 DEF Read, ReadChar
<1> QED  BY <1>2, <1>3, <1>4, <1>5, <1>6, <1>7, <1>8 DEF QuotedPhase

\* The text ends only once the value has been stored.
LEMMA QuotedAllRead ==
  ASSUME NEW T, NEW n \in Nat, NEW v \in Seq(Chars), n = Len(v), NEW e, NEW mark, NEW X, NEW inside,
         QuotedText(T, v, n, e, mark, X), QuotedPhase(T, v, n, e, X, inside), text = <<>>
  PROVE  Read(v)
<1>1. /\ e \in [0..n -> Nat] /\ e[0] = 0 /\ Len(T) = e[n] + 5
      /\ \A k \in 1..n : e[k] <= e[n] /\ (v[k] \in X => e[k] = e[k - 1] + 2)
  BY DEF QuotedText
<1>2. n \in 0..n /\ e[n] \in Nat
  BY <1>1
<1>3. ~AtStart(T) /\ ~AtEquals(T) /\ ~AtMark(T)
  BY <1>1, <1>2, AllRead DEF AtStart, AtEquals, AtMark
<1>4. ~AtNewline(T, v, n, e)
  BY <1>1, <1>2, AllRead DEF AtNewline
<1>5. ASSUME NEW k \in 0..n PROVE e[k] \in Nat /\ e[k] <= e[n]
  <2>1. k = 0 \/ k \in 1..n
    OBVIOUS
  <2> QED  BY <1>1, <1>2, <2>1
<1>6. ~Inside(T, v, n, e, inside)
  <2>1. \A k \in 0..n : e[k] + 3 # Len(T)
    BY <1>1, <1>2, <1>5
  <2> QED  BY <2>1, AllRead DEF Inside
<1>7. ~Escaped(T, v, n, e, X)
  <2>1. \A k \in 0..n : e[k] + 4 # Len(T)
    BY <1>1, <1>2, <1>5
  <2> QED  BY <2>1, AllRead DEF Escaped
<1> QED  BY <1>3, <1>4, <1>6, <1>7 DEF QuotedPhase

\* What is parsed is a value in quotes, and the parser is somewhere in it.
Reads(v, mark, X, inside) ==
  \E T, e : \E n \in Nat : /\ n = Len(v) /\ QuotedText(T, v, n, e, mark, X)
                           /\ Quoting(v, n, mark, X, inside) /\ QuotedPhase(T, v, n, e, X, inside)

\* So the parser stays in the text until it is done.
LEMMA ReadsStep ==
  ASSUME NEW v \in Seq(Chars), NEW mark, NEW X, NEW inside,
         Reads(v, mark, X, inside), ReadChar \/ EndOfText \/ UNCHANGED osVars
  PROVE  Reads(v, mark, X, inside)'
<1>1. PICK T, e : \E n \in Nat : /\ n = Len(v) /\ QuotedText(T, v, n, e, mark, X)
                                 /\ Quoting(v, n, mark, X, inside)
                                 /\ QuotedPhase(T, v, n, e, X, inside)
  BY DEF Reads
<1>2. PICK n \in Nat : /\ n = Len(v) /\ QuotedText(T, v, n, e, mark, X)
                       /\ Quoting(v, n, mark, X, inside) /\ QuotedPhase(T, v, n, e, X, inside)
  BY <1>1
<1>3. CASE ReadChar
  <2>1. QuotedPhase(T, v, n, e, X, inside)'
    BY <1>2, <1>3, QuotedStep
  <2> QED  BY <1>2, <2>1 DEF Reads
<1>4. CASE EndOfText
  <2>1. Read(v) /\ text = <<>>
    BY <1>2, <1>4, QuotedAllRead DEF EndOfText
  <2>2. Read(v)'
    BY <1>4, <2>1 DEF Read, EndOfText, InValue
  <2>3. QuotedPhase(T, v, n, e, X, inside)'
    BY <2>2 DEF QuotedPhase
  <2> QED  BY <1>2, <2>3 DEF Reads
<1>5. CASE UNCHANGED osVars
  <2>1. QuotedPhase(T, v, n, e, X, inside)'
    BY <1>2, <1>5 DEF QuotedPhase, AtStart, AtEquals, AtMark, Inside, Escaped, AtNewline, Read, Rest,
       InKey, Agree, osVars
  <2> QED  BY <1>2, <2>1 DEF Reads
<1> QED  BY <1>3, <1>4, <1>5

-----------------------------------------------------------------------------
\* Which states have nothing in the buffers.
Buffers ==
  /\ state \in {"Idle", "PreKey", "Comment", "CommentEscape"} => current_key = <<>>
  /\ state \in {"Idle", "PreKey", "Key", "Comment", "CommentEscape"} => current_value = <<>>

\* The buffers are empty at first.
LEMMA BuffersInit == OsInit => Buffers
  BY DEF OsInit, Buffers

\* A handler that ends a line empties the buffers.
LEMMA BuffersStep == Buffers /\ [OsNext]_osVars => Buffers'
<1> SUFFICES ASSUME Buffers, [OsNext]_osVars PROVE Buffers'
  OBVIOUS
<1>1. CASE BeginParse
  BY <1>1 DEF Buffers, BeginParse, Begin
<1>2. CASE ReadChar
  BY <1>2 DEF Buffers, ReadChar, PreKey, ReadKey, PreValue, Value, ValueEscape, SingleQuoteValue,
     DoubleQuoteValue, DoubleQuoteValueEscape, Comment, CommentEscape, Go, Push, Store
<1>3. CASE EndOfText
  BY <1>3 DEF Buffers, EndOfText, InValue
<1>4. CASE UNCHANGED osVars
  BY <1>4 DEF Buffers, osVars
<1> QED  BY <1>1, <1>2, <1>3, <1>4 DEF OsNext

\* No text carries a key or a value over from one line to the next.
THEOREM LinesIndependentHolds == OsSpec => []LinesIndependent
<1>1. Buffers => LinesIndependent
  BY DEF Buffers, LinesIndependent
<1> QED  BY <1>1, BuffersInit, BuffersStep, PTL DEF OsSpec

\* OsTypes holds at first.
LEMMA OsTypesInit == OsInit => OsTypes
<1>1. <<>> \in Seq(Chars) /\ <<>> \in Seq(Pairs)
  OBVIOUS
<1> QED  BY <1>1 DEF OsInit, OsTypes

\* The inductive invariant for quoted values.
QuotedReads ==
  /\ written.style = "double" => Reads(written.value, "quote", ShellNeedEscape, "DoubleQuoteValue")
  /\ written.style = "single" /\ ~Contains(written.value, "apostrophe") =>
       Reads(written.value, "apostrophe", {}, "SingleQuoteValue")
  /\ written.style \in {"none", "bare", "double", "single"}

\* QuotedReads is preserved by every step.
LEMMA QuotedReadsStep ==
  OsTypes /\ Buffers /\ QuotedReads /\ [OsNext]_osVars => QuotedReads'
<1> SUFFICES ASSUME OsTypes, Buffers, QuotedReads, [OsNext]_osVars PROVE QuotedReads'
  OBVIOUS
<1>1. CASE BeginParse
  <2>0. \A t \in Texts \cup Values : t \in Seq(Chars)
    BY OsAssumption DEF Chars
  <2>1. ASSUME NEW T, NEW s, NEW v, Begin(T, s, v), T \in Seq(Chars) PROVE AtStart(T)'
    <3>1. /\ state = "Idle" /\ current_key = <<>> /\ current_value = <<>> /\ map = <<>>
      BY <1>1 DEF BeginParse, Buffers, OsTypes
    <3>2. Rest(T, 0)'
      BY <2>1, RestBegins DEF Begin
    <3> QED  BY <2>1, <3>1, <3>2 DEF Begin, AtStart
  <2>2. ASSUME NEW t \in Texts, Begin(t, "none", <<>>) PROVE QuotedReads'
    BY <2>2 DEF Begin, QuotedReads
  <2>3. ASSUME NEW v \in Values, Begin(Bare(v), "bare", v) PROVE QuotedReads'
    BY <2>3 DEF Begin, QuotedReads
  <2>4. ASSUME NEW v \in Values, Begin(DoubleQuoted(v), "double", v) PROVE QuotedReads'
    <3>1. PICK n \in Nat : v \in Seq(Chars) /\ n = Len(v)
      BY <2>0
    <3>2. PICK e : QuotedText(DoubleQuoted(v), v, n, e, "quote", ShellNeedEscape)
      BY <3>1, DoubleQuotedText
    <3>3. AtStart(DoubleQuoted(v))'
      BY <2>1, <2>4, <3>2 DEF QuotedText
    <3>4. Reads(v, "quote", ShellNeedEscape, "DoubleQuoteValue")'
      BY <3>1, <3>2, <3>3 DEF Reads, QuotedPhase, Quoting
    <3> QED  BY <2>4, <3>4 DEF Begin, QuotedReads
  <2>5. ASSUME NEW v \in Values, Begin(SingleQuoted(v), "single", v) PROVE QuotedReads'
    <3>1. PICK n \in Nat : v \in Seq(Chars) /\ n = Len(v)
      BY <2>0
    <3>2. PICK e : QuotedText(SingleQuoted(v), v, n, e, "apostrophe", {})
      BY <3>1, SingleQuotedText
    <3>3. AtStart(SingleQuoted(v))'
      BY <2>1, <2>5, <3>2 DEF QuotedText
    <3>4. ~Contains(v, "apostrophe") => Reads(v, "apostrophe", {}, "SingleQuoteValue")'
      <4>1. ~Contains(v, "apostrophe") => Quoting(v, n, "apostrophe", {}, "SingleQuoteValue")
        BY <3>1 DEF Contains, Quoting
      <4> QED  BY <3>1, <3>2, <3>3, <4>1 DEF Reads, QuotedPhase
    <3> QED  BY <2>5, <3>4 DEF Begin, QuotedReads
  <2> QED  BY <1>1, <2>2, <2>3, <2>4, <2>5 DEF BeginParse
<1>2. CASE ReadChar \/ EndOfText \/ UNCHANGED osVars
  <2>1. PICK v \in Seq(Chars) : v = written.value /\ v = written'.value /\ written' = written
    BY <1>2 DEF OsTypes, ReadChar, EndOfText, osVars
  <2>2. ASSUME NEW mark, NEW X, NEW inside, Reads(written.value, mark, X, inside)
        PROVE  Reads(v, mark, X, inside)'
    BY <1>2, <2>1, <2>2, ReadsStep
  <2>3. written.style = "double" => Reads(v, "quote", ShellNeedEscape, "DoubleQuoteValue")'
    BY <2>2 DEF QuotedReads
  <2>4. written.style = "single" /\ ~Contains(written.value, "apostrophe") =>
          Reads(v, "apostrophe", {}, "SingleQuoteValue")'
    BY <2>2 DEF QuotedReads
  <2> QED  BY <2>1, <2>3, <2>4 DEF QuotedReads
<1> QED  BY <1>1, <1>2 DEF OsNext

\* For every value: written in quotes, with what a shell takes escaped, or in
\* apostrophes if it has none, it is read back as it was.
THEOREM QuotedRoundTripHolds == OsSpec => []QuotedRoundTrip
<1>1. OsInit => QuotedReads
  BY DEF OsInit, QuotedReads
<1>2. OsTypes /\ QuotedReads => QuotedRoundTrip
  <2> SUFFICES ASSUME OsTypes, QuotedReads PROVE QuotedRoundTrip
    OBVIOUS
  <2>1. ASSUME NEW mark, NEW X, NEW inside, Reads(written.value, mark, X, inside), state = "Done",
               inside \in {"DoubleQuoteValue", "SingleQuoteValue"}
        PROVE  map = <<<<Key, written.value>>>>
    BY <2>1 DEF Reads, QuotedPhase, AtStart, AtEquals, AtMark, Inside, Escaped, AtNewline, Read
  <2> QED  BY <2>1 DEF QuotedReads, QuotedRoundTrip
<1> QED  BY <1>1, <1>2, OsTypesInit, OsTypesStep, BuffersInit, BuffersStep, QuotedReadsStep, PTL
         DEF OsSpec

-----------------------------------------------------------------------------
(* The parser on what Display writes.                                      *)

\* The first k characters keep the value Plain.
Fine(v, k) ==
  /\ k > 0 => v[1] \notin Whitespace \cup {"apostrophe", "quote"}
  /\ \A i \in 1..k : v[i] \notin Newline \cup {"backslash"}

\* So far the value is read as it is.
Exact(T, v, n) ==
  \E k \in 0..n : /\ Rest(T, k + 2) /\ InKey /\ Agree(current_value, v, k) /\ Fine(v, k)
                  /\ state = IF k = 0 THEN "PreValue" ELSE "Value"

\* All that is lost is the quote in front.
Shift(T, v, n, q, l) ==
  /\ Len(q) = l /\ n > 0 /\ v[1] \in {"apostrophe", "quote"}
  /\ \A i \in 1..l : q[i] = T[i + 3]

\* After k characters the buffer q is too short to become the value.
Lossy(T, v, n, k, s, q) ==
  \/ s = "PreValue" /\ T[k + 2] # "newline" /\ Len(q) <= k - 1
  \/ s = "Value" /\ Len(q) <= k - 1 /\ (k = n + 1 => Len(q) <= k - 2)
  \/ s = "ValueEscape" /\ T[k + 2] = "backslash" /\ Len(q) <= k - 1
  \/ /\ s \in {"SingleQuoteValue", "DoubleQuoteValue"}
     /\ Len(q) <= k - 2 \/ Shift(T, v, n, q, k - 1)
  \/ /\ s = "DoubleQuoteValueEscape" /\ T[k + 2] = "backslash"
     /\ Len(q) <= k - 3 \/ Shift(T, v, n, q, k - 2)

\* The value is not Plain and the parser has lost a character of it.
InLossy(T, v, n) ==
  /\ ~Plain(v) /\ map = <<>>
  /\ \E k \in 1..(n + 1) : Rest(T, k + 2) /\ Lossy(T, v, n, k, state, current_value)

\* The value is not Plain and another one has been stored.
Wrong(v) == ~Plain(v) /\ map \in Seq(Pairs) /\ Len(map) >= 1 /\ map[1][2] # v

\* How far the parser is in what Display wrote.
BarePhase(T, v, n) ==
  \/ AtStart(T) \/ AtEquals(T) \/ Exact(T, v, n) \/ InLossy(T, v, n) \/ Wrong(v)
  \/ Plain(v) /\ Read(v)

\* Plain, character by character.
LEMMA PlainFacts ==
  ASSUME NEW v \in Seq(Chars), NEW n \in Nat, n = Len(v)
  PROVE  /\ \A i \in 1..n : v[i] \in Newline \cup {"backslash"} => ~Plain(v)
         /\ n > 0 /\ v[1] \in Whitespace \cup {"apostrophe", "quote"} => ~Plain(v)
         /\ n > 0 /\ v[n] \in UnicodeWhitespace => ~Plain(v)
         /\ Fine(v, n) /\ (n > 0 => v[n] \notin UnicodeWhitespace) => Plain(v)
<1>1. v = <<>> <=> n = 0
  OBVIOUS
<1> QED  BY <1>1 DEF Plain, Fine

\* A first entry with another value is wrong.
LEMMA WrongEntry ==
  ASSUME NEW v, NEW k \in Seq(Chars), NEW w \in Seq(Chars), w # v, ~Plain(v), map = <<>>,
         map' = Append(map, <<k, w>>)
  PROVE  Wrong(v)'
<1>1. PICK x \in Pairs : x = <<k, w>> /\ x[2] = w
  BY DEF Pairs
<1>2. <<>> \in Seq(Pairs)
  OBVIOUS
<1>3. map' \in Seq(Pairs) /\ Len(map') = 1 /\ map'[1] = x
  BY <1>1, <1>2, AppendProperties
<1> QED  BY <1>1, <1>3 DEF Wrong

\* Nothing that is stored later mends a wrong first entry.
LEMMA WrongStays ==
  ASSUME NEW v, OsTypes, Wrong(v), ReadChar \/ EndOfText
  PROVE  Wrong(v)'
<1>1. map' \in {map, Append(map, <<TrimEnd(current_key), current_value>>),
                Append(map, <<TrimEnd(current_key), TrimEnd(current_value)>>)}
  BY DEF ReadChar, PreKey, ReadKey, PreValue, Value, ValueEscape, SingleQuoteValue,
     DoubleQuoteValue, DoubleQuoteValueEscape, Comment, CommentEscape, Go, Push, Store, EndOfText
<1>2. TrimEnd(current_key) \in Seq(Chars) /\ TrimEnd(current_value) \in Seq(Chars)
  BY TrimEndFacts DEF OsTypes
<1>3. map' = map \/ \E x \in Pairs : map' = Append(map, x)
  <2>1. PICK x \in Pairs, y \in Pairs : /\ x = <<TrimEnd(current_key), current_value>>
                                        /\ y = <<TrimEnd(current_key), TrimEnd(current_value)>>
    BY <1>2 DEF Pairs, OsTypes
  <2> QED  BY <1>1, <2>1
<1>4. ASSUME NEW x \in Pairs, map' = Append(map, x) PROVE Wrong(v)'
  <2>1. map \in Seq(Pairs) /\ Len(map) >= 1 /\ map[1][2] # v /\ ~Plain(v)
    BY DEF Wrong
  <2>2. map' \in Seq(Pairs) /\ Len(map') = Len(map) + 1 /\ map'[1] = map[1]
    BY <1>4, <2>1, AppendProperties
  <2> QED  BY <2>1, <2>2 DEF Wrong
<1> QED  BY <1>3, <1>4 DEF Wrong

\* A buffer that is too short stays too short, or is stored as it is.
LEMMA LossyStep ==
  ASSUME NEW v \in Seq(Chars), NEW n \in Nat, n = Len(v), NEW T, BareLayout(T, v, n), OsTypes,
         InLossy(T, v, n), ReadChar
  PROVE  InLossy(T, v, n)' \/ Wrong(v)'
<1>1. PICK k \in 1..(n + 1) : Rest(T, k + 2) /\ Lossy(T, v, n, k, state, current_value)
  BY DEF InLossy
<1>2. PICK c \in Chars : c = Head(text) /\ c = T[k + 3] /\ k \in 1..n /\ Rest(T, (k + 1) + 2)'
  <2>1. k + 2 + 1 = k + 3 /\ (k + 1) + 2 = k + 3
    OBVIOUS
  <2>2. k + 3 \in 1..Len(T) /\ Head(text) = T[k + 3] /\ T[k + 3] \in Chars /\ Rest(T, k + 3)'
    BY <1>1, <2>1, ReadNext
  <2>3. Len(T) = n + 3
    BY DEF BareLayout
  <2> QED  BY <2>1, <2>2, <2>3
<1>3. ~Plain(v) /\ map = <<>> /\ (k = n => c = "newline")
  BY <1>2 DEF InLossy, BareLayout
<1>4. PICK q \in Seq(Chars) : q = current_value /\ Len(q) \in Nat
  BY DEF OsTypes
<1>5. k + 1 \in 1..(n + 1) /\ (k + 1) - 1 = k /\ (k + 1) - 2 = k - 1 /\ (k + 1) + 2 = k + 3
  BY <1>2
<1>6. Lossy(T, v, n, k + 1, state', current_value') /\ map' = <<>> => InLossy(T, v, n)'
  BY <1>2, <1>3, <1>5 DEF InLossy
<1>7. ASSUME NEW w \in Seq(Chars), Store(w), Len(w) < n PROVE Wrong(v)'
  <2>1. TrimEnd(current_key) \in Seq(Chars)
    BY TrimEndFacts DEF OsTypes
  <2> QED  BY <1>3, <1>7, <2>1, WrongEntry DEF Store
<1>8. /\ Append(q, c) \in Seq(Chars) /\ Len(Append(q, c)) = Len(q) + 1
      /\ Append(q, c)[Len(q) + 1] = c /\ \A i \in 1..Len(q) : Append(q, c)[i] = q[i]
  BY AppendAny
<1>9. CASE state = "PreValue"
  <2>1. Len(q) <= k - 1
    BY <1>1, <1>4, <1>9 DEF Lossy
  <2>2. PreValue(c)
    BY <1>2, <1>9, ReadIn
  <2>3. CASE Store(current_value)
    BY <1>2, <1>4, <1>7, <2>1, <2>3
  <2>4. CASE \/ c = "apostrophe" /\ Go("SingleQuoteValue")
             \/ c = "quote" /\ Go("DoubleQuoteValue")
             \/ c = "backslash" /\ Go("ValueEscape")
             \/ c \in Whitespace \ Newline /\ Go("PreValue")
    <3>1. Lossy(T, v, n, k + 1, state', q)
      BY <1>2, <1>4, <1>5, <2>1, <2>4 DEF Lossy, Go, Newline
    <3> QED  BY <1>3, <1>4, <1>6, <2>4, <3>1 DEF Go
  <2>5. CASE c \notin Whitespace \cup {"apostrophe", "quote", "backslash"} /\ Push("Value", c)
    <3>1. k # n
      BY <1>3, <2>5 DEF Whitespace, Newline
    <3>2. Lossy(T, v, n, k + 1, "Value", Append(q, c))
      BY <1>2, <1>4, <1>5, <1>8, <2>1, <3>1 DEF Lossy
    <3> QED  BY <1>3, <1>4, <1>6, <2>5, <3>2 DEF Push
  <2> QED  BY <2>2, <2>3, <2>4, <2>5, Zenon DEF PreValue
<1>10. CASE state = "Value"
  <2>1. Len(q) <= k - 1
    BY <1>1, <1>4, <1>10 DEF Lossy
  <2>2. Value(c)
    BY <1>2, <1>10, ReadIn
  <2>3. CASE Store(TrimEnd(current_value))
    <3>1. TrimEnd(q) \in Seq(Chars) /\ Len(TrimEnd(q)) \in Nat /\ Len(TrimEnd(q)) <= Len(q)
      BY TrimEndFacts
    <3> QED  BY <1>2, <1>4, <1>7, <2>1, <2>3, <3>1
  <2>4. CASE c = "backslash" /\ Go("ValueEscape")
    <3>0. T[(k + 1) + 2] = "backslash"
      BY <1>2, <1>5, <2>4
    <3>1. Lossy(T, v, n, k + 1, "ValueEscape", q)
      BY <1>5, <2>1, <3>0 DEF Lossy
    <3> QED  BY <1>3, <1>4, <1>6, <2>4, <3>1 DEF Go
  <2>5. CASE c \notin Newline \cup {"backslash"} /\ Push("Value", c)
    <3>1. k # n
      BY <1>3, <2>5 DEF Newline
    <3>2. Lossy(T, v, n, k + 1, "Value", Append(q, c))
      BY <1>2, <1>4, <1>5, <1>8, <2>1, <3>1 DEF Lossy
    <3> QED  BY <1>3, <1>4, <1>6, <2>5, <3>2 DEF Push
  <2> QED  BY <2>2, <2>3, <2>4, <2>5 DEF Value
<1>11. CASE state = "ValueEscape"
  <2>1. Len(q) <= k - 1
    BY <1>1, <1>4, <1>11 DEF Lossy
  <2>2. ValueEscape(c)
    BY <1>2, <1>11, ReadIn
  <2>3. CASE c \in Newline /\ Go("Value")
    <3>1. Lossy(T, v, n, k + 1, "Value", q)
      BY <1>2, <1>4, <1>5, <2>1 DEF Lossy
    <3> QED  BY <1>3, <1>4, <1>6, <2>3, <3>1 DEF Go
  <2>4. CASE c \notin Newline /\ Push("Value", c)
    <3>1. k # n
      BY <1>3, <2>4 DEF Newline
    <3>2. Lossy(T, v, n, k + 1, "Value", Append(q, c))
      BY <1>2, <1>4, <1>5, <1>8, <2>1, <3>1 DEF Lossy
    <3> QED  BY <1>3, <1>4, <1>6, <2>4, <3>2 DEF Push
  <2> QED  BY <2>2, <2>3, <2>4 DEF ValueEscape
<1>12. CASE state \in {"SingleQuoteValue", "DoubleQuoteValue"}
  <2>1. Len(q) <= k - 2 \/ Shift(T, v, n, q, k - 1)
    BY <1>1, <1>4, <1>12 DEF Lossy
  <2>2. Len(q) <= k - 1
    BY <1>2, <2>1 DEF Shift
  <2>3. \/ c \in {"apostrophe", "quote"} /\ Go("PreValue")
        \/ c = "backslash" /\ Go("DoubleQuoteValueEscape")
        \/ \E s \in {"SingleQuoteValue", "DoubleQuoteValue"} : Push(s, c)
    BY <1>2, <1>12, ReadIn DEF SingleQuoteValue, DoubleQuoteValue
  <2>4. CASE c \in {"apostrophe", "quote"} /\ Go("PreValue")
    <3>1. Lossy(T, v, n, k + 1, "PreValue", q)
      BY <1>2, <1>4, <1>5, <2>2, <2>4 DEF Lossy
    <3> QED  BY <1>3, <1>4, <1>6, <2>4, <3>1 DEF Go
  <2>5. CASE c = "backslash" /\ Go("DoubleQuoteValueEscape")
    <3>1. (k + 1) - 3 = k - 2
      BY <1>2
    <3>2. Lossy(T, v, n, k + 1, "DoubleQuoteValueEscape", q)
      BY <1>2, <1>4, <1>5, <2>1, <2>5, <3>1 DEF Lossy
    <3> QED  BY <1>3, <1>4, <1>6, <2>5, <3>2 DEF Go
  <2>6. ASSUME NEW s \in {"SingleQuoteValue", "DoubleQuoteValue"}, Push(s, c)
        PROVE  InLossy(T, v, n)'
    <3>1. Shift(T, v, n, q, k - 1) => Shift(T, v, n, Append(q, c), k)
      <4> SUFFICES ASSUME Shift(T, v, n, q, k - 1) PROVE Shift(T, v, n, Append(q, c), k)
        OBVIOUS
      <4>1. /\ Len(q) = k - 1 /\ n > 0 /\ v[1] \in {"apostrophe", "quote"}
            /\ \A i \in 1..(k - 1) : q[i] = T[i + 3]
        BY DEF Shift
      <4>2. PICK t : t = Append(q, c)
        OBVIOUS
      <4>3. Len(t) = k /\ t[k] = c /\ \A i \in 1..(k - 1) : t[i] = q[i]
        BY <1>2, <1>8, <4>1, <4>2
      <4>4. \A i \in 1..k : i \in 1..(k - 1) \/ i = k
        BY <1>2
      <4>5. \A i \in 1..k : t[i] = T[i + 3]
        BY <1>2, <4>1, <4>3, <4>4
      <4> QED  BY <4>1, <4>2, <4>3, <4>5 DEF Shift
    <3>2. Len(q) <= k - 2 => Len(Append(q, c)) <= k - 1
      BY <1>2, <1>4, <1>8
    <3>3. Lossy(T, v, n, k + 1, s, Append(q, c))
      BY <1>5, <2>1, <3>1, <3>2 DEF Lossy
    <3> QED  BY <1>3, <1>4, <1>6, <2>6, <3>3 DEF Push
  <2> QED  BY <2>3, <2>4, <2>5, <2>6
<1>13. CASE state = "DoubleQuoteValueEscape"
  <2>1. T[k + 2] = "backslash" /\ (Len(q) <= k - 3 \/ Shift(T, v, n, q, k - 2))
    BY <1>1, <1>4, <1>13 DEF Lossy
  <2>2. Len(q) <= k - 2
    BY <1>2, <2>1 DEF Shift
  <2>3. DoubleQuoteValueEscape(c)
    BY <1>2, <1>13, ReadIn
  <2>4. CASE Push("DoubleQuoteValue", c)
    <3>0. Len(Append(q, c)) <= (k + 1) - 2
      BY <1>2, <1>4, <1>8, <2>2
    <3>1. Lossy(T, v, n, k + 1, "DoubleQuoteValue", Append(q, c))
      BY <3>0 DEF Lossy
    <3> QED  BY <1>3, <1>4, <1>6, <2>4, <3>1 DEF Push
  <2>5. CASE Go("DoubleQuoteValue")
    <3>1. Lossy(T, v, n, k + 1, "DoubleQuoteValue", q)
      BY <1>2, <1>4, <1>5, <2>2 DEF Lossy
    <3> QED  BY <1>3, <1>4, <1>6, <2>5, <3>1 DEF Go
  <2>6. CASE /\ state' = "DoubleQuoteValue"
             /\ current_value' = current_value \o <<"backslash", c>> /\ UNCHANGED <<current_key, map>>
    <3>1. PICK t : t = q \o <<"backslash", c>>
      OBVIOUS
    <3>2. PICK b : b = <<"backslash", c>> /\ b[1] = "backslash" /\ b[2] = c
      <4>1. PICK a \in Chars : a = "backslash"
        BY DEF Chars
      <4>2. <<a, c>>[1] = a /\ <<a, c>>[2] = c
        OBVIOUS
      <4> QED  BY <4>1, <4>2
    <3>3. Joins(t, q, Len(q), b, 2, Chars)
      BY <3>1, <3>2, AppendAny
    <3>4. /\ t \in Seq(Chars) /\ Len(t) = Len(q) + 2 /\ \A i \in 1..Len(q) : t[i] = q[i]
          /\ t[Len(q) + 1] = "backslash" /\ t[Len(q) + 2] = c
      BY <1>4, <3>2, <3>3 DEF Joins
    <3>5. Shift(T, v, n, q, k - 2) => Shift(T, v, n, t, k)
      <4> SUFFICES ASSUME Shift(T, v, n, q, k - 2) PROVE Shift(T, v, n, t, k)
        OBVIOUS
      <4>1. /\ Len(q) = k - 2 /\ n > 0 /\ v[1] \in {"apostrophe", "quote"}
            /\ \A i \in 1..(k - 2) : q[i] = T[i + 3]
        BY DEF Shift
      <4>2. Len(t) = k /\ t[k - 1] = T[k + 2] /\ t[k] = T[k + 3] /\ (k - 1) + 3 = k + 2
        <5>1. Len(q) + 1 = k - 1 /\ Len(q) + 2 = k
          BY <1>2, <4>1
        <5> QED  BY <1>2, <2>1, <3>4, <5>1
      <4>3. \A i \in 1..k : i \in 1..(k - 2) \/ i = k - 1 \/ i = k
        BY <1>2
      <4>4. \A i \in 1..(k - 2) : t[i] = T[i + 3]
        BY <3>4, <4>1
      <4>5. \A i \in 1..k : t[i] = T[i + 3]
        BY <1>2, <4>2, <4>3, <4>4
      <4> QED  BY <4>1, <4>2, <4>5 DEF Shift
    <3>6. Len(q) <= k - 3 => Len(t) <= k - 1
      BY <1>2, <1>4, <3>4
    <3>7. Lossy(T, v, n, k + 1, "DoubleQuoteValue", t)
      BY <1>5, <2>1, <3>5, <3>6 DEF Lossy
    <3> QED  BY <1>3, <1>4, <1>6, <2>6, <3>1, <3>7
  <2> QED  BY <2>3, <2>4, <2>5, <2>6 DEF DoubleQuoteValueEscape
<1> QED  BY <1>1, <1>9, <1>10, <1>11, <1>12, <1>13 DEF Lossy

\* At the end of the text a buffer that is too short is stored as it is.
LEMMA LossyEnd ==
  ASSUME NEW v \in Seq(Chars), NEW n \in Nat, n = Len(v), NEW T, BareLayout(T, v, n), OsTypes,
         InLossy(T, v, n), EndOfText
  PROVE  Wrong(v)'
<1>1. PICK k \in 1..(n + 1) : Rest(T, k + 2) /\ Lossy(T, v, n, k, state, current_value)
  BY DEF InLossy
<1>2. k = n + 1 /\ T[k + 2] = "newline"
  <2>1. k + 2 = Len(T)
    BY <1>1, AllRead DEF EndOfText
  <2>2. Len(T) = n + 3 /\ T[n + 3] = "newline"
    BY DEF BareLayout
  <2> QED  BY <2>1, <2>2
<1>3. PICK q \in Seq(Chars) : q = current_value /\ Len(q) \in Nat
  BY DEF OsTypes
<1>4. \/ state = "Value" /\ Len(q) <= n - 1
      \/ /\ state \in {"SingleQuoteValue", "DoubleQuoteValue"}
         /\ Len(q) <= n - 1 \/ Shift(T, v, n, q, n)
  <2>1. k - 2 = n - 1 /\ k - 1 = n
    BY <1>2
  <2> QED  BY <1>1, <1>2, <1>3, <2>1 DEF Lossy
<1>5. ASSUME Shift(T, v, n, q, n) PROVE q # v
  <2> SUFFICES ASSUME q = v PROVE FALSE
    OBVIOUS
  <2>1. n \in 1..n /\ v[1] # "newline" /\ \A i \in 1..n : v[i] = T[i + 3]
    BY <1>5 DEF Shift
  <2> DEFINE Breaks == {i \in 1..n : v[i] = "newline"}
  <2>2. Breaks \subseteq Nat /\ n \in Breaks
    <3>1. T[n + 3] = "newline"
      BY DEF BareLayout
    <3> QED  BY <2>1, <3>1
  <2>3. PICK m \in Breaks : \A i \in Breaks : m <= i
    <3> HIDE DEF Breaks
    <3> QED  BY <2>2, MinOfNaturals
  <2>4. m \in 1..n /\ v[m] = "newline" /\ m # 1
    BY <2>1, <2>3
  <2>5. m - 1 \in 1..n /\ (m - 1) + 3 = m + 2
    BY <2>4
  <2>6. v[m - 1] = v[m]
    <3>1. v[m - 1] = T[(m - 1) + 3]
      BY <2>1, <2>5
    <3>2. T[m + 2] = v[m]
      BY <2>4 DEF BareLayout
    <3> QED  BY <2>5, <3>1, <3>2
  <2>7. m - 1 \in Breaks
    BY <2>4, <2>5, <2>6
  <2>8. m <= m - 1
    <3> HIDE DEF Breaks
    <3> QED  BY <2>3, <2>7
  <2> QED  BY <2>4, <2>8
<1>6. /\ TrimEnd(q) \in Seq(Chars) /\ Len(TrimEnd(q)) \in Nat /\ Len(TrimEnd(q)) <= Len(q)
      /\ TrimEnd(current_key) \in Seq(Chars)
  BY TrimEndFacts DEF OsTypes
<1>7. PICK w \in Seq(Chars) : w # v /\ map' = Append(map, <<TrimEnd(current_key), w>>)
  <2>1. CASE state = "Value"
    <3>1. TrimEnd(q) # v
      BY <1>3, <1>4, <1>6, <2>1
    <3>2. map' = Append(map, <<TrimEnd(current_key), TrimEnd(q)>>)
      BY <1>3, <2>1 DEF EndOfText, InValue
    <3> QED  BY <1>6, <3>1, <3>2
  <2>2. CASE state \in {"SingleQuoteValue", "DoubleQuoteValue"}
    <3>1. q # v
      BY <1>3, <1>4, <1>5, <2>2
    <3>2. map' = Append(map, <<TrimEnd(current_key), q>>)
      BY <1>3, <2>2 DEF EndOfText, InValue
    <3> QED  BY <1>3, <3>1, <3>2
  <2> QED  BY <1>4, <2>1, <2>2
<1> QED  BY <1>6, <1>7, WrongEntry DEF InLossy

\* A character is read as it is, or the value is one that is not Plain.
LEMMA ExactStep ==
  ASSUME NEW v \in Seq(Chars), NEW n \in Nat, n = Len(v), NEW T, BareLayout(T, v, n), OsTypes,
         Exact(T, v, n), ReadChar
  PROVE  BarePhase(T, v, n)'
<1>1. PICK k \in 0..n : /\ Rest(T, k + 2) /\ InKey /\ Agree(current_value, v, k) /\ Fine(v, k)
                        /\ state = IF k = 0 THEN "PreValue" ELSE "Value"
  BY DEF Exact
<1>2. PICK c \in Chars : c = Head(text) /\ c = T[k + 3] /\ Rest(T, (k + 1) + 2)'
  <2>1. k + 2 + 1 = k + 3 /\ (k + 1) + 2 = k + 3
    OBVIOUS
  <2> QED  BY <1>1, <2>1, ReadNext
<1>3. map = <<>> /\ current_key = Key /\ TrimEnd(current_key) = Key /\ Key \in Seq(Chars)
  BY <1>1, KeyFacts DEF InKey
<1>4. PICK q \in Seq(Chars) : q = current_value /\ Len(q) = k
  BY <1>1 DEF Agree
<1>5. Append(q, c) \in Seq(Chars) /\ Len(Append(q, c)) = k + 1
  BY <1>4, AppendAny
<1>6. ASSUME NEW w \in Seq(Chars), Store(w), w # v, ~Plain(v) PROVE BarePhase(T, v, n)'
  BY <1>3, <1>6, WrongEntry DEF Store, BarePhase
<1>7. CASE k = n
  <2>1. c = "newline" /\ Len(T) = n + 3 /\ (k + 1) + 2 = n + 3
    BY <1>2, <1>7 DEF BareLayout
  <2>2. text' = <<>>
    BY <1>2, <2>1 DEF Rest
  <2>3. q = v
    BY <1>1, <1>4, <1>7, AgreeFacts
  <2>4. Fine(v, n)
    BY <1>1, <1>7
  <2>5. ASSUME Store(v), Plain(v) PROVE BarePhase(T, v, n)'
    <3>1. map' = <<<<Key, v>>>> /\ state' = "PreKey"
      BY <1>3, <2>5, OneEntry
    <3> QED  BY <2>2, <2>5, <3>1 DEF BarePhase, Read
  <2>6. CASE k = 0
    <3>1. PreValue(c)
      BY <1>1, <1>2, <2>6, ReadIn
    <3>2. Store(current_value)
      BY <2>1, <3>1 DEF PreValue, Newline, Whitespace
    <3>3. Store(v)
      BY <1>4, <2>3, <3>2 DEF Store
    <3>4. Plain(v)
      <4>1. ~(n > 0)
        BY <1>7, <2>6
      <4> QED  BY <2>4, <4>1, PlainFacts
    <3> QED  BY <2>5, <3>3, <3>4
  <2>7. CASE k > 0
    <3>1. Value(c)
      BY <1>1, <1>2, <2>7, ReadIn
    <3>2. Store(TrimEnd(current_value))
      BY <2>1, <3>1 DEF Value, Newline
    <3>3. Store(TrimEnd(v))
      BY <1>4, <2>3, <3>2 DEF Store
    <3>4. v # <<>>
      BY <1>7, <2>7
    <3>5. CASE v[n] \in UnicodeWhitespace
      <4>1. TrimEnd(v) \in Seq(Chars) /\ Len(TrimEnd(v)) < Len(v) /\ Len(TrimEnd(v)) \in Nat
        BY <3>4, <3>5, TrimEndFacts
      <4>2. ~Plain(v)
        BY <1>7, <2>7, <3>5, PlainFacts
      <4>3. TrimEnd(v) # v
        BY <4>1
      <4> QED  BY <1>6, <3>3, <4>1, <4>2, <4>3
    <3>6. CASE v[n] \notin UnicodeWhitespace
      <4>1. TrimEnd(v) = v
        BY <3>6, TrimEndFacts
      <4>2. Plain(v)
        BY <2>4, <3>6, PlainFacts
      <4>3. Store(v)
        BY <3>3, <4>1 DEF Store
      <4> QED  BY <2>5, <4>2, <4>3
    <3> QED  BY <3>5, <3>6
  <2> QED  BY <2>6, <2>7
<1>8. CASE k < n
  <2>1. c = v[k + 1] /\ k + 1 \in 1..n /\ k + 1 \in 1..(n + 1) /\ k + 1 # n + 1
    <3>1. k + 1 \in 1..n /\ (k + 1) + 2 = k + 3
      BY <1>8
    <3>2. T[(k + 1) + 2] = v[k + 1]
      BY <3>1 DEF BareLayout
    <3> QED  BY <1>2, <3>1, <3>2
  <2>2. T[(k + 1) + 2] = c /\ (k + 1) - 1 = k /\ n > 0
    <3>1. (k + 1) + 2 = k + 3
      OBVIOUS
    <3> QED  BY <1>2, <1>8, <3>1
  <2>3. ASSUME ~Plain(v), Lossy(T, v, n, k + 1, state', current_value'), map' = <<>>
        PROVE  BarePhase(T, v, n)'
    BY <1>2, <2>1, <2>3 DEF InLossy, BarePhase
  <2>4. c \in Newline \cup {"backslash"} => ~Plain(v)
    BY <2>1, PlainFacts
  <2>5. q # v
    BY <1>4, <1>8
  <2>6. ASSUME Push("Value", c), c \notin Newline \cup {"backslash"},
               k = 0 => c \notin Whitespace \cup {"apostrophe", "quote"}
        PROVE  BarePhase(T, v, n)'
    <3>1. Agree(Append(q, c), v, k + 1)
      BY <1>1, <1>4, <2>1, AgreeFacts
    <3>2. Fine(v, k + 1)
      <4>1. v[1] \notin Whitespace \cup {"apostrophe", "quote"}
        BY <1>1, <2>1, <2>6 DEF Fine
      <4>2. \A i \in 1..(k + 1) : i \in 1..k \/ i = k + 1
        OBVIOUS
      <4>3. \A i \in 1..(k + 1) : v[i] \notin Newline \cup {"backslash"}
        BY <1>1, <2>1, <2>6, <4>2 DEF Fine
      <4> QED  BY <4>1, <4>3 DEF Fine
    <3>3. Exact(T, v, n)'
      <4>1. k + 1 \in 0..n /\ k + 1 # 0
        BY <2>1
      <4>2. /\ state' = "Value" /\ current_value' = Append(q, c) /\ InKey'
        BY <1>1, <1>4, <2>6 DEF Push, InKey
      <4> QED  BY <1>2, <3>1, <3>2, <4>1, <4>2 DEF Exact
    <3> QED  BY <3>3 DEF BarePhase
  <2>7. CASE k = 0
    <3>1. PreValue(c)
      BY <1>1, <1>2, <2>7, ReadIn
    <3>2. c \in Whitespace \cup {"apostrophe", "quote"} => ~Plain(v)
      BY <2>1, <2>2, <2>7, PlainFacts
    <3>3. CASE c \in Newline /\ Store(current_value)
      BY <1>4, <1>6, <2>4, <2>5, <3>3
    <3>4. CASE \/ c = "apostrophe" /\ Go("SingleQuoteValue")
               \/ c = "quote" /\ Go("DoubleQuoteValue")
      <4>1. Shift(T, v, n, q, 0)
        BY <1>4, <2>1, <2>2, <2>7, <3>4 DEF Shift
      <4>2. Lossy(T, v, n, k + 1, state', q)
        BY <2>2, <2>7, <3>4, <4>1 DEF Lossy, Go
      <4> QED  BY <1>3, <1>4, <2>3, <3>2, <3>4, <4>2 DEF Go
    <3>5. CASE c = "backslash" /\ Go("ValueEscape")
      <4>1. Lossy(T, v, n, k + 1, state', q)
        BY <1>4, <2>2, <3>5 DEF Lossy, Go
      <4> QED  BY <1>3, <1>4, <2>3, <2>4, <3>5, <4>1 DEF Go
    <3>6. CASE c \in Whitespace \ Newline /\ Go("PreValue")
      <4>1. Lossy(T, v, n, k + 1, state', q)
        BY <1>4, <2>2, <3>6 DEF Lossy, Go, Newline
      <4> QED  BY <1>3, <1>4, <2>3, <3>2, <3>6, <4>1 DEF Go
    <3>7. CASE c \notin Whitespace \cup {"apostrophe", "quote", "backslash"} /\ Push("Value", c)
      BY <2>6, <3>7 DEF Whitespace
    <3> QED  BY <3>1, <3>3, <3>4, <3>5, <3>6, <3>7, Zenon DEF PreValue
  <2>8. CASE k > 0
    <3>1. Value(c)
      BY <1>1, <1>2, <2>8, ReadIn
    <3>2. CASE c \in Newline /\ Store(TrimEnd(current_value))
      <4>1. TrimEnd(q) \in Seq(Chars) /\ Len(TrimEnd(q)) \in Nat /\ Len(TrimEnd(q)) <= Len(q)
        BY TrimEndFacts
      <4>2. TrimEnd(q) # v
        BY <1>4, <1>8, <4>1
      <4> QED  BY <1>4, <1>6, <2>4, <3>2, <4>1, <4>2
    <3>3. CASE c = "backslash" /\ Go("ValueEscape")
      <4>1. Lossy(T, v, n, k + 1, state', q)
        BY <1>4, <2>2, <3>3 DEF Lossy, Go
      <4> QED  BY <1>3, <1>4, <2>3, <2>4, <3>3, <4>1 DEF Go
    <3>4. CASE c \notin Newline \cup {"backslash"} /\ Push("Value", c)
      BY <2>6, <2>8, <3>4
    <3> QED  BY <3>1, <3>2, <3>3, <3>4, Zenon DEF Value
  <2> QED  BY <2>7, <2>8
<1> QED  BY <1>7, <1>8

\* Every step moves the parser to the next phase of the text that Display wrote.
LEMMA BareStep ==
  ASSUME NEW v \in Seq(Chars), NEW n \in Nat, n = Len(v), NEW T, BareLayout(T, v, n), OsTypes,
         BarePhase(T, v, n), ReadChar \/ EndOfText \/ UNCHANGED osVars
  PROVE  BarePhase(T, v, n)'
<1>1. /\ Len(T) = n + 3 /\ T[1] = "k" /\ T[2] = "equals"
  BY DEF BareLayout
<1>2. CASE ReadChar
  <2>1. CASE AtStart(T)
    BY <1>1, <1>2, <2>1, StartStep DEF BarePhase
  <2>2. CASE AtEquals(T)
    <3>1. AtMark(T)'
      BY <1>1, <1>2, <2>2, EqualsStep
    <3>2. Agree(<<>>, v, 0) /\ 0 \in 0..n /\ 0 + 2 = 2 /\ Fine(v, 0)
      BY AgreeFacts DEF Fine
    <3>3. Exact(T, v, n)'
      BY <3>1, <3>2 DEF AtMark, Exact
    <3> QED  BY <3>3 DEF BarePhase
  <2>3. CASE Exact(T, v, n)
    BY <1>2, <2>3, ExactStep
  <2>4. CASE InLossy(T, v, n)
    BY <1>2, <2>4, LossyStep DEF BarePhase
  <2>5. CASE Wrong(v)
    BY <1>2, <2>5, WrongStays DEF BarePhase
  <2>6. CASE Plain(v) /\ Read(v)
    BY <1>2, <2>6 DEF Read, ReadChar
  <2> QED  BY <2>1, <2>2, <2>3, <2>4, <2>5, <2>6 DEF BarePhase
<1>3. CASE EndOfText
  <2>1. text = <<>>
    BY <1>3 DEF EndOfText
  <2>2. ~AtStart(T) /\ ~AtEquals(T)
    BY <1>1, <2>1, AllRead DEF AtStart, AtEquals
  <2>3. ~Exact(T, v, n)
    <3>1. \A k \in 0..n : k + 2 # Len(T)
      BY <1>1
    <3> QED  BY <2>1, <3>1, AllRead DEF Exact
  <2>4. CASE InLossy(T, v, n)
    BY <1>3, <2>4, LossyEnd DEF BarePhase
  <2>5. CASE Wrong(v)
    BY <1>3, <2>5, WrongStays DEF BarePhase
  <2>6. CASE Plain(v) /\ Read(v)
    <3>1. Read(v)'
      BY <1>3, <2>6 DEF Read, EndOfText, InValue
    <3> QED  BY <2>6, <3>1 DEF BarePhase
  <2> QED  BY <2>2, <2>3, <2>4, <2>5, <2>6 DEF BarePhase
<1>4. CASE UNCHANGED osVars
  BY <1>4 DEF BarePhase, AtStart, AtEquals, Exact, InLossy, Wrong, Read, Rest, InKey, osVars
<1> QED  BY <1>2, <1>3, <1>4

\* The inductive invariant for what Display writes.
BareReads ==
  written.style = "bare" =>
    \E n \in Nat : /\ n = Len(written.value) /\ BareLayout(Bare(written.value), written.value, n)
                   /\ BarePhase(Bare(written.value), written.value, n)

\* BareReads is preserved by every step.
LEMMA BareReadsStep == OsTypes /\ Buffers /\ BareReads /\ [OsNext]_osVars => BareReads'
<1> SUFFICES ASSUME OsTypes, Buffers, BareReads, [OsNext]_osVars PROVE BareReads'
  OBVIOUS
<1>1. CASE BeginParse
  <2>1. ASSUME NEW v \in Values, Begin(Bare(v), "bare", v) PROVE BareReads'
    <3>1. PICK n \in Nat : v \in Seq(Chars) /\ n = Len(v)
      BY OsAssumption DEF Chars
    <3>2. BareLayout(Bare(v), v, n) /\ Bare(v) \in Seq(Chars)
      BY <3>1, BareText
    <3>3. /\ state = "Idle" /\ current_key = <<>> /\ current_value = <<>> /\ map = <<>>
      BY <1>1 DEF BeginParse, Buffers, OsTypes
    <3>4. Rest(Bare(v), 0)'
      BY <2>1, <3>2, RestBegins DEF Begin
    <3>5. AtStart(Bare(v))'
      BY <2>1, <3>3, <3>4 DEF Begin, AtStart
    <3>6. BarePhase(Bare(v), v, n)' /\ written'.value = v
      BY <2>1, <3>5 DEF BarePhase, Begin
    <3> QED  BY <3>1, <3>2, <3>6 DEF BareReads
  <2>2. CASE written'.style # "bare"
    BY <2>2 DEF BareReads
  <2> QED  BY <1>1, <2>1, <2>2 DEF BeginParse, Begin
<1>2. CASE ReadChar \/ EndOfText \/ UNCHANGED osVars
  <2>1. PICK v \in Seq(Chars) : v = written.value /\ v = written'.value /\ written' = written
    BY <1>2 DEF OsTypes, ReadChar, EndOfText, osVars
  <2> SUFFICES ASSUME written.style = "bare" PROVE BareReads'
    BY <2>1 DEF BareReads
  <2>2. PICK n \in Nat : n = Len(v) /\ BareLayout(Bare(v), v, n) /\ BarePhase(Bare(v), v, n)
    BY <2>1 DEF BareReads
  <2>3. BarePhase(Bare(v), v, n)'
    BY <1>2, <2>2, BareStep
  <2> QED  BY <2>1, <2>2, <2>3 DEF BareReads
<1> QED  BY <1>1, <1>2 DEF OsNext

\* For every value: written by Display without quotes it is read back exactly if it
\* is Plain.
THEOREM BareRoundTripHolds == OsSpec => []BareRoundTrip
<1>1. OsInit => BareReads
  BY DEF OsInit, BareReads
<1>2. OsTypes /\ BareReads => BareRoundTrip
  <2> SUFFICES ASSUME OsTypes, BareReads, state = "Done", written.style = "bare"
               PROVE  map = <<<<Key, written.value>>>> <=> Plain(written.value)
    BY DEF BareRoundTrip
  <2>1. PICK v : v = written.value
    OBVIOUS
  <2>2. PICK n \in Nat : BarePhase(Bare(v), v, n)
    BY <2>1 DEF BareReads
  <2>3. Wrong(v) \/ (Plain(v) /\ Read(v))
    BY <2>2 DEF BarePhase, AtStart, AtEquals, Exact, InLossy, Lossy
  <2>4. CASE Wrong(v)
    <3>1. <<<<Key, v>>>>[1][2] = v
      OBVIOUS
    <3>2. map # <<<<Key, v>>>> /\ ~Plain(v)
      BY <2>4, <3>1 DEF Wrong
    <3> QED  BY <2>1, <3>2
  <2>5. CASE Plain(v) /\ Read(v)
    BY <2>1, <2>5 DEF Read
  <2> QED  BY <2>3, <2>4, <2>5
<1> QED  BY <1>1, <1>2, OsTypesInit, OsTypesStep, BuffersInit, BuffersStep, BareReadsStep, PTL
         DEF OsSpec
=============================================================================
