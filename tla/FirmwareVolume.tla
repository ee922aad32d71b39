--------------------------- MODULE FirmwareVolume ---------------------------
(***************************************************************************)
(* The search for an image in a firmware volume (src/pi/fv_lib.rs), one    *)
(* turn of its two loops at a time, and the layout of a volume to compare  *)
(* it with.  A header is what the search reads of it, a type and a size;   *)
(* mem maps the addresses where a header lies to it, and any other address *)
(* reads as mem.other.                                                     *)
(***************************************************************************)
EXTENDS Integers, Sequences, FiniteSetsExt

CONSTANTS
  AddressModulus,     \* 2^32: the masks of the alignment also cut the upper half off
  FfsAlign,           \* 8
  FfsHeader,          \* size_of::<FfsFileHeader>(), 24
  SectionAlign,       \* 4
  SectionHeader       \* size_of::<CommonSectionHeader>(), 4

Up(a, n) == n * ((a + n - 1) \div n)

Aligned(a, n) == Up(a, n) % AddressModulus

HeaderAt(mem, a) == IF a \in DOMAIN mem.headers THEN mem.headers[a] ELSE mem.other

\* Mutant of Turn: the next header is looked for where this one ends.
TurnUnaligned(mem, next, end, align, least) ==
  LET current == next % AddressModulus
      h == HeaderAt(mem, current)
  IN  IF current > end \/ h.size < least \/ current + h.size > end THEN [stop |-> TRUE]
      ELSE [stop |-> FALSE, current |-> current, type |-> h.type, size |-> h.size]

\* Mutant of Turn: a header of any size is taken for one.
TurnAnySize(mem, next, end, align, least) ==
  LET current == Aligned(next, align)
      h == HeaderAt(mem, current)
  IN  IF current > end \/ current + h.size > end THEN [stop |-> TRUE]
      ELSE [stop |-> FALSE, current |-> current, type |-> h.type, size |-> h.size]

\* What both loops do first: the header at the next aligned address, unless that is
\* behind the end, the header is too small for one or what it describes ends behind
\* the end.  An address right at the end is still read.
Turn(mem, next, end, align, least) ==
  LET current == Aligned(next, align)
      h == HeaderAt(mem, current)
  IN  IF current > end \/ h.size < least \/ current + h.size > end THEN [stop |-> TRUE]
      ELSE [stop |-> FALSE, current |-> current, type |-> h.type, size |-> h.size]

FileTurn(mem, next, end) == Turn(mem, next, end, FfsAlign, FfsHeader + SectionHeader)

SectionTurn(mem, next, end) == Turn(mem, next, end, SectionAlign, SectionHeader)

-----------------------------------------------------------------------------
(* The reference: how files and their sections lie in a volume.            *)

\* Parts of given sizes one after the other, each at an aligned address.
Laid(parts, start, align) ==
  LET laid[i \in 0 .. Len(parts)] ==
        IF i = 0 THEN [end |-> start, parts |-> << >>]
        ELSE LET at == Up(laid[i - 1].end, align)
             IN  [end |-> at + parts[i].size,
                  parts |-> Append(laid[i - 1].parts, [type |-> parts[i].type, size |-> parts[i].size, at |-> at])]
  IN  laid[Len(parts)]

SectionsOf(file, at) ==
  Laid([i \in DOMAIN file.sections |->
          [type |-> file.sections[i].type, size |-> SectionHeader + file.sections[i].length]],
       at + FfsHeader, SectionAlign)

\* The files of a volume, with their sections.
FilesOf(v) ==
  LET sized == [i \in DOMAIN v.files |->
                  [type |-> v.files[i].type, size |-> SectionsOf(v.files[i], 0).end]]
      laid == Laid(sized, v.base + v.header_length, FfsAlign).parts
  IN  [i \in DOMAIN laid |->
         [type |-> laid[i].type, size |-> laid[i].size, at |-> laid[i].at,
          sections |-> SectionsOf(v.files[i], laid[i].at).parts]]

\* The headers of a volume, by address.
HeadersOf(v) ==
  UNION {{f} \cup Range(f.sections) : f \in Range(FilesOf(v))}

\* The sequences of a sequence, one behind the other.
Joined(lists) ==
  LET joined[i \in 0 .. Len(lists)] == IF i = 0 THEN << >> ELSE joined[i - 1] \o lists[i]
  IN  joined[Len(lists)]

\* The images of a volume, in order: the PE32 sections of its applications.
ImagesOf(v) ==
  Joined([i \in DOMAIN v.files |->
    LET f == FilesOf(v)[i]
        pe32 == SelectSeq(f.sections, LAMBDA s : s.type = "PE32")
    IN  IF f.type # "APPLICATION" THEN << >>
        ELSE [j \in DOMAIN pe32 |-> [start |-> pe32[j].at + SectionHeader, size |-> pe32[j].size - SectionHeader]]])
=============================================================================
