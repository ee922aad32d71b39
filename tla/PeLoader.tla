------------------------------ MODULE PeLoader ------------------------------
(***************************************************************************)
(* The PE loader (src/efi/peloader.rs).  Files and images are sequences of *)
(* 16 bit cells, Cell values each; offsets and sizes count cells.  A file  *)
(* is a record of the header fields the loader uses, its sections, the     *)
(* blocks of its relocation directory and its data.  What the loader       *)
(* writes outside the image is lost here.                                  *)
(***************************************************************************)
EXTENDS Integers, Sequences, Functions, FiniteSets

CONSTANTS
  Cell,               \* 2^16
  DosHeader,          \* the sizes of ImageDosHeader,
  NtHeader,           \* ImageNtHeader64,
  OptionalOffset,     \* its part before optional_header,
  SectionHeader,      \* ImageSectionHeader
  BlockHeader         \* and ImageBaseRelocation

ASSUME PeAssumption == Cell > 1 /\ {DosHeader, NtHeader, OptionalOffset, SectionHeader, BlockHeader} \subseteq Nat

\* The size of the image, 0 for a file that is refused.
peloader_get_image_info(f) ==
  IF /\ DosHeader <= f.size
     /\ f.e_magic
     /\ f.e_lfanew + NtHeader <= f.size
     /\ f.signature /\ f.machine /\ f.magic
  THEN f.size_of_image ELSE 0

total_header_size(f) ==
  f.e_lfanew + OptionalOffset + f.size_of_optional_header + Len(f.sections) * SectionHeader

Copy(m, data, from, to, n) ==
  [a \in DOMAIN m |-> IF a \in to .. to + n - 1 THEN data[from + a - to + 1] ELSE m[a]]

Zero(m, at, n) == [a \in DOMAIN m |-> IF a \in at .. at + n - 1 THEN 0 ELSE m[a]]

\* The part zeroed is the one behind the section, as long as the section.
LoadSection(m, f, s) ==
  Copy(Zero(m, s.virtual_address + s.virtual_size, s.virtual_size),
       f.data, s.pointer_to_raw_data, s.virtual_address, s.size_of_raw_data)

LoadSections(m, f) ==
  LET after[i \in 0 .. Len(f.sections)] == IF i = 0 THEN m ELSE LoadSection(after[i - 1], f, f.sections[i])
  IN  after[Len(f.sections)]

-----------------------------------------------------------------------------
\* The n cells at o as a little endian number.
Value(m, o, n) ==
  LET v[i \in 0 .. n] == IF i = 0 THEN 0 ELSE v[i - 1] + m[o + i - 1] * Cell ^ (i - 1) IN v[n]

AddAt(m, o, n, d) ==
  LET v == (Value(m, o, n) + d) % Cell ^ n
  IN  [a \in DOMAIN m |-> IF a \in o .. o + n - 1 THEN (v \div Cell ^ (a - o)) % Cell ELSE m[a]]

\* One relocation; the 16 bit additions drop their carry.
Relocate(m, r, delta) ==
  CASE r.type = "ABSOLUTE" -> m
    [] r.type = "HIGH" -> AddAt(m, r.offset, 1, (delta \div Cell) % Cell)
    [] r.type = "LOW" -> AddAt(m, r.offset, 1, delta % Cell)
    [] r.type = "HIGHLOW" -> AddAt(m, r.offset, 2, delta % Cell ^ 2)
    [] r.type = "DIR64" -> AddAt(m, r.offset, 4, delta)

Known == {"ABSOLUTE", "HIGH", "LOW", "HIGHLOW", "DIR64"}

\* Mutant of Blocks: a block that starts at the end of the directory is used.
BlocksPastEnd(f) ==
  LET start[i \in DOMAIN f.relocs] == IF i = 1 THEN 0 ELSE start[i - 1] + f.relocs[i - 1].size_of_block
      used == {i \in DOMAIN f.relocs :
                 start[i] <= f.reloc_size /\ \A j \in 1 .. i : f.relocs[j].size_of_block # 0}
  IN  SubSeq(f.relocs, 1, Cardinality(used))

\* The blocks the loop gets to: up to the end of the directory or a block of size 0.
Blocks(f) ==
  LET start[i \in DOMAIN f.relocs] == IF i = 1 THEN 0 ELSE start[i - 1] + f.relocs[i - 1].size_of_block
      used == {i \in DOMAIN f.relocs :
                 start[i] < f.reloc_size /\ \A j \in 1 .. i : f.relocs[j].size_of_block # 0}
  IN  SubSeq(f.relocs, 1, Cardinality(used))

\* The relocations of a block, as many as its size says.
Relocations(b) ==
  [i \in 1 .. b.size_of_block - BlockHeader |->
     [type |-> b.relocs[i].type, offset |-> b.virtual_address + b.relocs[i].offset]]

RelocateBlock(m, b, delta) ==
  LET relocs == Relocations(b)
      after[i \in 0 .. Len(relocs)] == IF i = 0 THEN m ELSE Relocate(after[i - 1], relocs[i], delta)
  IN  after[Len(relocs)]

\* After an error nobody looks at the memory.
relocate_image(m, f, base) ==
  LET delta == (base - f.image_base) % Cell ^ 4
      blocks == Blocks(f)
      after[i \in 0 .. Len(blocks)] == IF i = 0 THEN m ELSE RelocateBlock(after[i - 1], blocks[i], delta)
  IN  IF delta = 0 THEN [ok |-> TRUE, memory |-> m]
      ELSE IF \E b \in Range(blocks) : \E r \in Range(Relocations(b)) : r.type \notin Known
           THEN [ok |-> FALSE, memory |-> m]
      ELSE [ok |-> TRUE, memory |-> after[Len(blocks)]]

\* The image at base, in memory that held m; entry 0 for failure.
peloader_load_image(m, f, base) ==
  LET loaded == LoadSections(Copy(m, f.data, 0, 0, total_header_size(f)), f)
      done == relocate_image(loaded, f, base)
  IN  [entry |-> IF done.ok THEN base + f.address_of_entry_point ELSE 0, memory |-> done.memory]

-----------------------------------------------------------------------------
(* What a loaded image should be, from the file alone; f.fixups are the fields of
   the image that hold addresses, which the linker encoded in f.relocs. *)

\* The file's content by offset in the image: headers and raw data of the sections.
Linked(f) ==
  LET pieces == {[virtual_address |-> 0, pointer_to_raw_data |-> 0, size |-> total_header_size(f)]}
                  \cup {[virtual_address |-> s.virtual_address, size |-> s.size_of_raw_data,
                         pointer_to_raw_data |-> s.pointer_to_raw_data] : s \in Range(f.sections)}
      holds(p, a) == a \in p.virtual_address .. p.virtual_address + p.size - 1
  IN  [a \in {b \in 0 .. f.size_of_image - 1 : \E p \in pieces : holds(p, b)} |->
         LET p == CHOOSE p \in pieces : holds(p, a)
         IN  f.data[p.pointer_to_raw_data + a - p.virtual_address + 1]]

\* The fixups moved by the distance to the address linked for, everything else as in
\* the file.
IsLoaded(f, base, memory) ==
  /\ \A x \in f.fixups :
       Value(memory, x.offset, x.width) =
         (Value(Linked(f), x.offset, x.width) + base - f.image_base) % Cell ^ x.width
  /\ \A a \in DOMAIN Linked(f) :
       (\A x \in f.fixups : a \notin x.offset .. x.offset + x.width - 1) => memory[a] = Linked(f)[a]
=============================================================================
