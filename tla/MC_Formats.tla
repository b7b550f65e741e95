----------------------------- MODULE MC_Formats -----------------------------
(* The file formats: the cpio writer, PE images and os-release.  Each is a *)
(* machine of its own; a behaviour runs one of them.                       *)
EXTENDS Cpio, PeImage, OsRelease

Init == CpioInit /\ PeInit /\ OsInit

Next ==
  \/ load = "none" /\ state = "Idle" /\ CpioNext /\ UNCHANGED <<peVars, osVars>>
  \/ result = "none" /\ state = "Idle" /\ PeNext /\ UNCHANGED <<cpioVars, osVars>>
  \/ result = "none" /\ load = "none" /\ OsNext /\ UNCHANGED <<cpioVars, peVars>>

Spec == Init /\ [][Next]_<<cpioVars, peVars, osVars>>

-----------------------------------------------------------------------------
\* Four bits stand for 32; the second machine cannot hold two entries.
FourBits == {[u32 |-> 15, usize |-> 8191], [u32 |-> 15, usize |-> 511]}

File(rank, name, size) == [rank |-> rank, name |-> name, size |-> size]
Batch(prefix, files) == [prefix |-> prefix, files |-> files]

\* Up to two files in either order with every length modulo 4, up to the limits
\* of names and sizes, and enough files to run out of inodes.
CpioBatches ==
  {Batch(p, <<>>) : p \in {<<0>>, <<1, 4>>, <<15>>}} \cup
  {Batch(p, <<File(1, n, z)>>) : p \in {<<0>>, <<1, 4>>, <<2, 6>>}, n \in 1..14, z \in 0..16} \cup
  {Batch(<<1, 4>>, <<File(r, 3, y), File(3 - r, 4, z)>>) : r \in {1, 2}, y, z \in 0..15} \cup
  {Batch(<<1, 4>>, [i \in 1..n |-> File(n + 1 - i, 2, 1)]) : n \in 10..14}

-----------------------------------------------------------------------------
Sec(name, va, vs, raw, rs) == [name |-> name, va |-> va, vs |-> vs, raw |-> raw, rs |-> rs]

\* A stub with padding before and zeros behind its data.
TwoStubs ==
  {[sections |-> <<Sec(".text", 2, 3, 2, 4), Sec(".data", 6, 5, 6, 2)>>, length |-> 8],
   [sections |-> <<Sec(".text", 1, 1, 1, 2)>>, length |-> 3]}

SixLengths == [1..6 -> 0..2]

\* Section tables at and beyond every limit, overlapping ones included.
OddKernels ==
  {[sections |-> ss, length |-> n, entry |-> e, reloc |-> r] :
     ss \in {<<s, t>> : s \in {Sec("a", va, vs, raw, rs) : va \in {0, 4, 31}, vs \in {0, 3, 8, 27},
                                                      raw \in {0, 2, 31}, rs \in {0, 3, 8}},
                       t \in {Sec("b", va, vs, raw, 4) : va \in {0, 6, 28}, vs \in {3, 5}, raw \in {1, 9}}},
     n \in {6, 24}, e \in {0, 12}, r \in BOOLEAN}
  \cup {[sections |-> <<>>, length |-> 4, entry |-> 0, reloc |-> FALSE]}

-----------------------------------------------------------------------------
Strings(chars, n) == UNION {[1..m -> chars] : m \in 0..n}

\* Every value of up to four characters of these.
ShortValues ==
  Strings({"k", "space", "quote", "apostrophe", "backslash", "dollar", "newline", "hash", "nbsp"}, 4)

\* Lines of any kind.
ShortTexts ==
  Strings({"k", "space", "equals", "hash", "backslash", "newline", "quote"}, 5)
=============================================================================
