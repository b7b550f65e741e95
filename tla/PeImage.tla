------------------------------ MODULE PeImage ------------------------------
(***************************************************************************)
(* PE images at the level of sections.  The tool appends the sections of a *)
(* stub to its binary (lanzaboote_image in rust/tool/shared/src/pe.rs) and *)
(* reads them from the file again (read_section_data); the firmware loads  *)
(* the stub, which reads the same sections from memory (uefi_helpers.rs)   *)
(* and loads the kernel image itself (Image::load in pe_loader.rs).        *)
(*                                                                         *)
(* A byte of a file or of memory is a value that says where it comes from; *)
(* Zero is the byte 0.  The largest u32, the size of a page and the size   *)
(* of the address space are parameters, so that the limits are within      *)
(* reach.                                                                  *)
(***************************************************************************)
EXTENDS Integers, Sequences, FiniteSets, FiniteSetsExt

CONSTANTS
  U32Max,       \* the largest u32
  PageSize,     \* 1 << UEFI_PAGE_BITS
  AddressPages, \* how many pages fill the address space
  StubLayouts,  \* bound: the sections of a stub binary before assembly
  Contents,     \* bound: the lengths of the sections the tool adds
  FileAlign,    \* how objcopy pads sections in the file
  Kernels       \* bound: other PE files, whatever their section tables say

UsizeMax == PageSize * AddressPages - 1

\* A section table entry and a file; bytes of the file are numbered.
Section == [name : STRING, va : 0..U32Max, vs : 0..U32Max, raw : 0..U32Max, rs : 0..U32Max]

ASSUME PeAssumption ==
  /\ {U32Max, PageSize, AddressPages, FileAlign} \subseteq Nat \ {0}
  /\ U32Max <= UsizeMax
  /\ Kernels \subseteq [sections : Seq(Section), length : Nat, entry : 0..U32Max, reloc : BOOLEAN]
  /\ StubLayouts \subseteq [sections : Seq(Section) \ {<<>>}, length : Nat]
  /\ Contents \subseteq [1..6 -> Nat]

\* The sections the tool adds.
SectionNames == <<".osrel", ".cmdline", ".initrd", ".linux", ".initrdh", ".linuxh">>

\* The stub is built without them; lookups by name rely on it.
ASSUME StubAssumption ==
  \A stub \in StubLayouts : \A i \in 1..Len(stub.sections), j \in 1..6 :
    stub.sections[i].name # SectionNames[j]

Zero == -1

VARIABLES
  pe,      \* the file: its section table, its length, entry point, relocations
  added,   \* the sections the tool has added
  load,    \* where Image::load stands
  memory,  \* the bytes of the image, a sequence
  next,    \* the next section to copy
  pages,   \* pages allocated
  freed    \* pages freed

peVars == <<pe, added, load, memory, next, pages, freed>>

PeInit ==
  /\ pe = [sections |-> <<>>, length |-> 0, entry |-> 0, reloc |-> FALSE]
  /\ added = <<>> /\ load = "none" /\ memory = <<>> /\ next = 1 /\ pages = 0 /\ freed = 0

-----------------------------------------------------------------------------
(* The tool.                                                               *)

\* The end of the last section of the stub binary.
StubOffset(sections) == sections[Len(sections)].va + sections[Len(sections)].vs

\* Mutant: the length of the command line is forgotten.
OffsetsFlat(osrel, size) ==
  LET cmdline == osrel + size[1]
      linux   == cmdline + size[3]
      initrdh == linux + size[4]
  IN  <<osrel, cmdline, cmdline, linux, initrdh, initrdh + size[5]>>

\* Each section starts where the one before it ends.
Offsets(osrel, size) ==
  LET cmdline == osrel + size[1]
      initrd  == cmdline + size[2]
      linux   == initrd + size[3]
      initrdh == linux + size[4]
      linuxh  == initrdh + size[5]
  IN  <<osrel, cmdline, initrd, linux, initrdh, linuxh>>

\* objcopy: the contents go to the end of the file, padded.
RoundUp(n) == ((n + FileAlign - 1) \div FileAlign) * FileAlign

\* wrap_in_pe
Assemble(sections, length, lens) ==
  LET padded == [i \in 1..6 |-> RoundUp(lens[i])]
      vas    == Offsets(StubOffset(sections), lens)
      raws   == Offsets(RoundUp(length), padded)
      new    == [i \in 1..6 |-> [name |-> SectionNames[i], va |-> vas[i], vs |-> lens[i],
                                 raw |-> raws[i], rs |-> padded[i]]]
  IN  [sections |-> sections \o new, length |-> raws[6] + padded[6], entry |-> 0, reloc |-> FALSE]

LanzabooteImage ==
  /\ load = "none"
  /\ \E stub \in StubLayouts, lens \in Contents :
       /\ pe' = Assemble(stub.sections, stub.length, lens)
       /\ added' = SubSeq(pe'.sections, Len(stub.sections) + 1, Len(pe'.sections))
  /\ load' = "parsed"
  /\ UNCHANGED <<memory, next, pages, freed>>

\* Any other file that PE::parse accepts.
OtherImage ==
  /\ load = "none"
  /\ pe' \in Kernels
  /\ load' = "parsed"
  /\ UNCHANGED <<added, memory, next, pages, freed>>

-----------------------------------------------------------------------------
(* Image::load and Image::start.                                           *)

LeastOf(a, b) == IF a <= b THEN a ELSE b

\* Mutant: rounding down.
BytesToPagesDown(bytes) == bytes \div PageSize

\* checked_add; the fallback is the whole address space.
BytesToPages(bytes) ==
  IF bytes + (PageSize - 1) <= UsizeMax THEN (bytes + (PageSize - 1)) \div PageSize ELSE AddressPages

SectionEnds == {pe.sections[i].va + pe.sections[i].vs : i \in 1..Len(pe.sections)}

Goto(status) == load' = status /\ UNCHANGED <<pe, added, memory, next, pages, freed>>

\* The image is as long as its last section reaches; it starts as zeros.
Allocate ==
  /\ load = "parsed"
  /\ \/ (\E end \in SectionEnds : end > U32Max) /\ Goto("LOAD_ERROR")
     \/ Goto("OUT_OF_RESOURCES")
     \/ /\ \A end \in SectionEnds : end <= U32Max
        /\ LET length == Max(SectionEnds \cup {0})
           IN  /\ pages' = BytesToPages(length)
               /\ memory' = [i \in 1..length |-> Zero]
        /\ load' = "copying"
        /\ UNCHANGED <<pe, added, next, freed>>

CopySize(s) == LeastOf(s.vs, s.rs)

\* Mutant: the end of the file is not looked at.
OutOfBoundsVirtual(s) == s.va + CopySize(s) > Len(memory)

OutOfBounds(s) ==
  \/ s.raw + CopySize(s) > UsizeMax \/ s.va + CopySize(s) > UsizeMax
  \/ s.va + CopySize(s) > Len(memory) \/ s.raw + CopySize(s) > pe.length

Copied(s) ==
  [i \in 1..Len(memory) |->
     IF i - 1 \in s.va..(s.va + CopySize(s) - 1) THEN s.raw + (i - 1 - s.va) ELSE memory[i]]

CopySection ==
  /\ load = "copying" /\ next <= Len(pe.sections)
  /\ \/ OutOfBounds(pe.sections[next]) /\ Goto("LOAD_ERROR")
     \/ /\ ~OutOfBounds(pe.sections[next])
        /\ memory' = Copied(pe.sections[next])
        /\ next' = next + 1
        /\ UNCHANGED <<pe, added, load, pages, freed>>

\* Relocations are refused; the entry point has to be inside the image.
FinishLoad ==
  /\ load = "copying" /\ next > Len(pe.sections)
  /\ \/ pe.reloc /\ Goto("INCOMPATIBLE_VERSION")
     \/ ~pe.reloc /\ pe.entry >= Len(memory) /\ Goto("LOAD_ERROR")
     \/ ~pe.reloc /\ pe.entry < Len(memory) /\ Goto("loaded")

\* Image::start: the entry point returns and the image is freed.
Returned ==
  /\ load = "loaded"
  /\ load' = "returned"
  /\ freed' = BytesToPages(Len(memory))
  /\ UNCHANGED <<pe, added, memory, next, pages>>

PeNext ==
  LanzabooteImage \/ OtherImage \/ Allocate \/ CopySection \/ FinishLoad \/ Returned

-----------------------------------------------------------------------------
(* Reading sections.                                                       *)

\* The first section of this name.
Find(name) ==
  pe.sections[CHOOSE i \in 1..Len(pe.sections) :
                pe.sections[i].name = name /\ \A k \in 1..(i - 1) : pe.sections[k].name # name]

\* read_section_data on the file: from the start of the raw data, as long as
\* the section is in memory.
ReadSectionData(name) == LET s == Find(name) IN [i \in 1..s.vs |-> s.raw + i - 1]

\* section_data on a loaded image, filled up with zeros.
SectionData(name) ==
  LET s == Find(name)
  IN  [i \in 1..s.vs |-> IF i <= CopySize(s) THEN memory[s.va + i] ELSE Zero]

-----------------------------------------------------------------------------
\* The byte that belongs at an address of the image: of the last section whose
\* data covers it, zero if there is none.
Linked(address) ==
  LET covering == {i \in 1..Len(pe.sections) :
                     address \in pe.sections[i].va..(pe.sections[i].va + CopySize(pe.sections[i]) - 1)}
      s == pe.sections[Max(covering)]
  IN  IF covering = {} THEN Zero ELSE s.raw + (address - s.va)

\* Whatever the section table says, a loaded image has at every address the
\* byte that belongs there, all of them from inside the file, and the entry
\* point is one of them.
LoadedAsLinked ==
  load = "loaded" =>
    /\ \A address \in 0..(Len(memory) - 1) : memory[address + 1] = Linked(address)
    /\ \A i \in 1..Len(memory) : memory[i] = Zero \/ memory[i] \in 0..(pe.length - 1)
    /\ pe.entry \in 0..(Len(memory) - 1)

\* The allocation has room for the image and not a page more, at the end of the
\* address space too, and what Image::start frees is what Image::load took.
PagesExact ==
  /\ load \in {"copying", "loaded", "returned"} =>
       /\ pages * PageSize >= Len(memory)
       /\ pages > 0 => (pages - 1) * PageSize < Len(memory)
  /\ load = "returned" => freed = pages

\* Every section the tool adds is found by its name and read back in full, from
\* the file by the tool and from memory by the stub, whatever the lengths of the
\* sections before it: none overlaps another, and none is overwritten.
SectionsReadBack ==
  load = "loaded" =>
    \A j \in 1..Len(added) :
      LET s    == added[j]
          data == [i \in 1..s.vs |-> s.raw + i - 1]
      IN  /\ s.name = SectionNames[j] /\ s.vs <= s.rs
          /\ ReadSectionData(s.name) = data /\ SectionData(s.name) = data
=============================================================================
