-------------------------------- MODULE Cpio --------------------------------
(***************************************************************************)
(* The cpio writer of the stub (rust/uefi/pio/src/writer.rs) as pack_cpio  *)
(* drives it: the directories of the prefix, the files in sorted order and *)
(* the trailer, one call per step.  Names and contents are their lengths;  *)
(* an archive is the sequence of its entries with the offsets at which the *)
(* writer put them.  The widths of the machine are parameters, so that the *)
(* limits of the format are within reach.                                  *)
(***************************************************************************)
EXTENDS Integers, Sequences, FiniteSets, SequencesExt

CONSTANTS
  Platforms,  \* records [u32, usize] of the largest values
  Batches     \* bound: the arguments of pack_cpio

\* The lengths of the target directory up to each of its slashes and to its end,
\* and the lengths of each file in the order read_dir gives them.  Files are
\* numbered in the order of their names, which differ in a directory.
ASSUME CpioAssumption ==
  /\ Platforms \subseteq [u32 : Nat \ {0}, usize : Nat \ {0}]
  /\ \A b \in Batches : /\ b.prefix \in Seq(Nat) /\ b.prefix # <<>>
                        /\ b.files \in Seq([rank : Nat, name : Nat, size : Nat])
                        /\ \A i, j \in 1..Len(b.files) : b.files[i].rank = b.files[j].rank => i = j

VARIABLES
  machine,  \* the platform
  batch,    \* the arguments
  calls,    \* the calls that pack_cpio has still to make
  archive,  \* the entries written
  buffer,   \* the length of the buffer
  inode,    \* inode_counter
  result    \* "none", "packing", "ok", an error or "panic"

cpioVars == <<machine, batch, calls, archive, buffer, inode, result>>

CpioInit ==
  /\ machine \in Platforms
  /\ batch = <<>> /\ calls = <<>> /\ archive = <<>>
  /\ buffer = 0 /\ inode = 0 /\ result = "none"

-----------------------------------------------------------------------------
StaticHeaderLen == 6 + 8 * 13
TrailerNameLen == 10

\* Mutant: a length that is a multiple of 4 is padded too.
ComputePad4Always(len) == 4 - (len % 4)

ComputePad4(len) == IF len % 4 # 0 THEN 4 - (len % 4) ELSE 0

\* align::<4>, which saturates.
Align4(value) ==
  IF value > machine.usize - 3 THEN machine.usize ELSE ((value + 3) \div 4) * 4

\* The most a Vec can hold is isize::MAX.
VecMax == machine.usize \div 2

\* The header with the name, its NUL and the padding that write_cpio_header
\* puts after it, counted from the start of the entry.
HeaderSize(name) == LET h == StaticHeaderLen + name + 1 IN h + ComputePad4(h)

\* write_cpio_contents.
EntrySize(e) ==
  HeaderSize(e.name) + IF e.kind = "dir" THEN 0 ELSE e.size + ComputePad4(e.size)

Fail(error) == result' = error /\ UNCHANGED <<calls, archive, buffer, inode>>

\* An entry is serialised on its own and appended.
Append4(e) ==
  IF \/ e.name + 1 > machine.u32              \* "Filename cannot be longer ..."
     \/ buffer + EntrySize(e) > VecMax        \* capacity overflow
  THEN Fail("panic")
  ELSE /\ inode' = inode + 1
       /\ archive' = Append(archive,
            [at |-> buffer, ino |-> inode', kind |-> e.kind, rank |-> e.rank,
             name |-> e.name, size |-> e.size, mode |-> e.mode])
       /\ buffer' = buffer + EntrySize(e)
       /\ calls' = Tail(calls)
       /\ UNCHANGED result

\* pack_dir.  Neither the NUL nor the width of the name is part of its sum.
PackDir(c) ==
  IF inode = machine.u32 THEN Fail("MaximumInodesReached")
  ELSE IF StaticHeaderLen > machine.usize - c.name THEN Fail("MaximumArchiveReached")
  ELSE IF buffer = machine.usize \/ buffer > machine.usize - Align4(StaticHeaderLen + c.name)
  THEN Fail("MaximumArchiveReached")
  ELSE Append4(c)

\* The name of a file is its own, or `prefix/name`.
FullName(prefix, name) == IF prefix = 0 THEN name ELSE prefix + 1 + name

\* The checks on the sizes of one file, in the order of pack_one.
TooLargeArchive(prefix, name, size) ==
  LET header == StaticHeaderLen + 1 + prefix + name
  IN  \/ StaticHeaderLen + 1 > machine.usize - prefix
      \/ StaticHeaderLen + 1 + prefix > machine.usize - name
      \/ prefix + name >= machine.u32
      \/ Align4(header) = machine.usize
      \/ Align4(size) = machine.usize
      \/ Align4(header) > machine.usize - Align4(size)
      \/ buffer > machine.usize - (Align4(header) + Align4(size))

\* Mutant: the last inode and the largest size are refused.
PackOneEarly(c) ==
  IF c.size >= machine.u32 THEN Fail("TooLargeFileSize")
  ELSE IF inode + 1 >= machine.u32 THEN Fail("MaximumInodesReached")
  ELSE Append4([c EXCEPT !.name = FullName(c.prefix, c.name)])

\* pack_one; the trailer is an empty file.
PackOne(c) ==
  IF c.size > machine.u32 THEN Fail("TooLargeFileSize")
  ELSE IF inode = machine.u32 THEN Fail("MaximumInodesReached")
  ELSE IF TooLargeArchive(c.prefix, c.name, c.size) THEN Fail("MaximumArchiveReached")
  ELSE Append4([c EXCEPT !.name = FullName(c.prefix, c.name)])

-----------------------------------------------------------------------------
\* pack_prefix: every ancestor with mode 555, the directory itself with its
\* own mode, each name starting with "/".
Directories(prefix) ==
  [n \in 1..Len(prefix) |->
     [kind |-> "dir", rank |-> n, prefix |-> 0, name |-> 1 + prefix[n],
      size |-> 0, mode |-> IF n = Len(prefix) THEN "dir_mode" ELSE "555"]]

\* Mutant: the files are packed in the order of read_dir.
UnsortedFiles(files) == files

\* files.sort(): the file at position n is the one up to which there are n.
SortedFiles(files) ==
  LET UpTo(f) == {i \in 1..Len(files) : files[i].rank <= f.rank}
  IN  [n \in 1..Len(files) |-> files[CHOOSE i \in 1..Len(files) : Cardinality(UpTo(files[i])) = n]]

FileCalls(prefix, files) ==
  [i \in 1..Len(files) |->
     [kind |-> "file", rank |-> files[i].rank, prefix |-> prefix[Len(prefix)],
      name |-> files[i].name, size |-> files[i].size, mode |-> "access_mode"]]

Trailer == [kind |-> "trailer", rank |-> 0, prefix |-> 0, name |-> TrailerNameLen,
            size |-> 0, mode |-> "0"]

\* pack_cpio; pack_cpio_literal is the case of one file.
PackCpio(b) ==
  /\ batch' = b
  /\ calls' = Directories(b.prefix) \o FileCalls(b.prefix, SortedFiles(b.files)) \o <<Trailer>>
  /\ result' = "packing"
  /\ UNCHANGED <<machine, archive, buffer, inode>>

PackNext ==
  /\ result = "packing" /\ calls # <<>>
  /\ IF Head(calls).kind = "dir" THEN PackDir(Head(calls)) ELSE PackOne(Head(calls))
  /\ UNCHANGED <<machine, batch>>

PackDone ==
  /\ result = "packing" /\ calls = <<>>
  /\ result' = "ok"
  /\ UNCHANGED <<machine, batch, calls, archive, buffer, inode>>

CpioNext ==
  \/ result = "none" /\ \E b \in Batches : PackCpio(b)
  \/ PackNext \/ PackDone

-----------------------------------------------------------------------------
\* The least multiple of 4 that is not below n.
NextMultiple(n) == CHOOSE m \in n..(n + 3) : m % 4 = 0

\* Where a newc reader finds what follows the entry: it rounds up offsets in
\* the archive, knows c_namesize (with the NUL) and c_filesize, and expects the
\* next header right after.
ReaderNext(e) == NextMultiple(NextMultiple(e.at + StaticHeaderLen + e.name + 1) + e.size)

\* However long names and contents are, the reader finds every entry where the
\* writer, who pads each one on its own, has put it, and the end of the buffer
\* after the last one.  The inodes it reads are distinct and all fields fit into
\* their eight hexadecimal digits, at the limits of the counter and the sizes
\* too.
ReaderFindsEntries ==
  \A i \in 1..Len(archive) :
    /\ archive[1].at = 0
    /\ ReaderNext(archive[i]) = IF i = Len(archive) THEN buffer ELSE archive[i + 1].at
    /\ archive[i].ino = i /\ i <= machine.u32
    /\ archive[i].size <= machine.u32 /\ archive[i].name + 1 <= machine.u32

\* An archive that is handed out depends on the set of files only, so that its
\* TPM measurement can be predicted: first the directories from the top, then
\* every file in the order of the names, then the trailer.
ArchiveIsCanonical ==
  result = "ok" =>
    LET dirs  == Len(batch.prefix)
        files == Len(batch.files)
        Of(i) == {f \in ToSet(batch.files) : f.rank = archive[i].rank}
    IN  /\ Len(archive) = dirs + files + 1
        /\ \A i \in 1..dirs : archive[i].kind = "dir" /\ archive[i].rank = i
        /\ \A i \in 1..dirs : archive[i].mode = "dir_mode" <=> i = dirs
        /\ \A i \in (dirs + 1)..(dirs + files) :
             /\ archive[i].kind = "file"
             /\ \E f \in Of(i) : archive[i].size = f.size
             /\ i > dirs + 1 => archive[i].rank > archive[i - 1].rank
        /\ archive[Len(archive)].kind = "trailer"

\* What the format and the machine have room for, computed from the arguments
\* alone.
Names(b) ==
  [n \in 1..Len(b.prefix) |-> 1 + b.prefix[n]] \o
  [i \in 1..Len(b.files) |-> FullName(b.prefix[Len(b.prefix)], b.files[i].name)] \o
  <<TrailerNameLen>>

Fits(b) ==
  LET names == Names(b)
      headers == [i \in DOMAIN names |-> NextMultiple(StaticHeaderLen + names[i] + 1)]
      sizes == [i \in DOMAIN b.files |-> NextMultiple(b.files[i].size)]
  IN  /\ Len(names) <= machine.u32
      /\ \A i \in DOMAIN names : names[i] + 1 <= machine.u32
      /\ \A i \in DOMAIN b.files : b.files[i].size <= machine.u32
      /\ SumFunction(headers) + SumFunction(sizes) <= VecMax

\* An error or a panic means that the archive really has no room: too many
\* inodes, a size or a name beyond 32 bits, or more than a Vec can hold.  The
\* sums of pack_one and pack_dir leave out the NUL and saturate, and still
\* refuse nothing that fits.
OnlyOversizeFails ==
  result \notin {"none", "packing", "ok"} => ~Fits(batch)
=============================================================================
