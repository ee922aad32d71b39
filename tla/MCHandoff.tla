----------------------------- MODULE MCHandoff -----------------------------
(***************************************************************************)
(* The start-up up to the first image, and what that image does with       *)
(* memory.                                                                 *)
(***************************************************************************)
EXTENDS MemoryMap

Memory(start, pages) ==
  [type |-> "RESOURCE_DESCRIPTOR", system_memory |-> TRUE, physical_start |-> start * PageSize,
   resource_length |-> pages * PageSize]

Taken(type, page, length) ==
  [type |-> "MEMORY_ALLOCATION", memory_type |-> type, memory_base_address |-> page * PageSize,
   memory_length |-> length]

Mark == [type |-> "END_OF_HOB_LIST"]
Phit == [type |-> "HANDOFF"]

\* Three pages around the 1 MiB mark and eight above it.
Low == Memory(0, 3)
High == Memory(3, 8)

MCRegions == MemoryRegions(<<Low, High, Mark>>)

\* None, one at the start of the memory, two with a gap, two that overlap, one that
\* leaves the memory, one that ends within a page and one that leaves no room for a copy.
Reservations ==
  {<< >>, <<Taken("Data", 3, 4)>>, <<Taken("Data", 6, 2), Taken("RuntimeData", 3, 4)>>,
   <<Taken("Data", 4, 4), Taken("RuntimeData", 4, 2)>>, <<Taken("Data", 10, 6)>>, <<Taken("Data", 3, 3)>>,
   <<Taken("Data", 3, 12)>>}

Section(type, length) == [type |-> type, length |-> length]
File(type, sections) == [type |-> type, sections |-> sections]

Pe == File("APPLICATION", <<Section("PE32", 5)>>)
Dxe == File("DRIVER", <<Section("PE32", 1)>>)
Ui == File("APPLICATION", <<Section("UI", 1), Section("RAW", 3)>>)
PeLate == File("APPLICATION", <<Section("UI", 3), Section("PE32", 0), Section("PE32", 4)>>)

Contents == {<< >>, <<Pe>>, <<Dxe, Pe>>, <<Ui, PeLate>>, <<Ui, Dxe>>, <<Dxe, PeLate, Pe>>}

\* A volume with nothing, or some free space, behind its files.
Volume(files, base, slack, signature) ==
  LET v == [type |-> "FV", files |-> files, base |-> base, header_length |-> 3, signature |-> signature]
      laid == FilesOf(v)
      end == IF laid = << >> THEN base + 3 ELSE laid[Len(laid)].at + laid[Len(laid)].size
  IN  [type |-> "FV", files |-> files, base |-> base, header_length |-> 3, signature |-> signature,
       length |-> end - base + slack]

\* The last of these ends at 4 GiB.
AtTop(files) ==
  LET length == Volume(files, 0, 0, TRUE).length
  IN  [Volume(files, AddressModulus - Up(length, FfsAlign), 0, TRUE) EXCEPT !.length = Up(length, FfsAlign)]

VolumeLists ==
  {<<Volume(files, 32, slack, TRUE)>> : files \in Contents, slack \in {0, 1, 20}}
    \cup {<<Volume(a, 32, 4, TRUE), Volume(b, 128, 0, signature)>> : a, b \in Contents, signature \in BOOLEAN}
    \cup {<<AtTop(files)>> : files \in Contents}

Reserving ==
  {[list |-> <<Phit>> \o taken \o <<Low, High, Volume(<<Pe>>, 32, 0, TRUE), Mark>>, marked |-> TRUE] :
     taken \in Reservations}

MCHobLists ==
  Reserving \cup {[list |-> <<Phit, Low>> \o volumes \o <<High, Mark>>, marked |-> marked] :
                    volumes \in VolumeLists, marked \in BOOLEAN}

\* Zeroes, erased flash, and something that looks like a small file.
MCOther == [type : {"none"}, size : {0, FfsHeader + SectionHeader, AddressModulus}]

\* The image does its work where there are reservations, and the rest is zero.
MCNext == Starting \/ (hobs \in Reserving /\ mem.other.size = 0 /\ Running)

MCSpec == MemoryInit /\ [][MCNext]_mvars /\ WF_mvars(Starting)
=============================================================================
