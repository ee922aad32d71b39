------------------------------ MODULE Handoff ------------------------------
(***************************************************************************)
(* From the hand-off blocks to the first image: the part of enter_uefi     *)
(* (src/efi/mod.rs) that deals with memory.  initialize_memory takes over  *)
(* the memory and reserves what the blocks say is in use, relocate_hob     *)
(* copies the list (src/pi/hob_lib.rs), the disk driver allocates its      *)
(* wrappers, and find_loader searches the firmware volumes the copy names  *)
(* for the image that is loaded and started (src/pi/fv_lib.rs).            *)
(*                                                                         *)
(* Whether efi_end_of_hob_list lies behind the end mark or points at it    *)
(* is up to the producer of the list; it decides if the copy has the mark. *)
(* Behind the copy lies whatever the page held before, and the search that *)
(* gets there, or has no copy, is astray.                                  *)
(***************************************************************************)
EXTENDS Allocator, Hob, FirmwareVolume

CONSTANTS
  HobLists,        \* records [list, marked], marked if the total size includes the end mark
  Other,           \* the headers read outside the volumes
  BootServicesData, LoaderData,
  MaxWrappers,     \* bound on the pages the disk driver allocates
  Null

\* The lists are sequences with an end mark, and what they reserve is not reserved as free
\* memory.
ASSUME HandoffAssumption ==
  /\ PageSize \in Nat \ {0} /\ HobSize \in Nat \ {0}
  /\ {BootServicesData, LoaderData} \subseteq Types \ {Conventional}
  /\ \A h \in HobLists :
       /\ h.list \in Seq(Range(h.list)) /\ h.marked \in BOOLEAN
       /\ \E i \in DOMAIN h.list : h.list[i].type = "END_OF_HOB_LIST"
       /\ MemoryAllocations(h.list) \in Seq([how : {"Address"}, type : Types \ {Conventional},
                                            count : Nat, page : Nat, aligned : BOOLEAN])

VARIABLES
  hobs,
  phase,         \* where enter_uefi is
  statuses,      \* what the reservations returned
  copy,          \* new_hob: its pages and the blocks in it
  wrappers,      \* pages allocated for the disk
  mem,           \* the headers in the volumes
  search,        \* where the search is
  image          \* what it found

hvars == <<hobs, phase, statuses, copy, wrappers, mem, search, image>>

Volumes(list) == SelectSeq(UpToEnd(list), LAMBDA h : h.type = "FV")

AnyPages(type, count) == [how |-> "Any", type |-> type, count |-> count, page |-> 0, aligned |-> TRUE]

PagesFor(size) == (size + PageSize - 1) \div PageSize

-----------------------------------------------------------------------------
\* The first walk of initialize_memory, one region at a time.
take_over ==
  /\ phase = "memory"
  /\ \/ add_initial_allocation /\ UNCHANGED phase
     \/ region = Len(Regions) /\ phase' = "reserve" /\ UNCHANGED vars
  /\ UNCHANGED <<hobs, statuses, copy, wrappers, mem, search, image>>

\* Mutant of reserve: the second walk is left out.
ReserveNothing ==
  /\ phase = "reserve"
  /\ phase' = "relocate"
  /\ statuses' = [i \in DOMAIN MemoryAllocations(hobs.list) |-> "SUCCESS"]
  /\ UNCHANGED <<vars, hobs, copy, wrappers, mem, search, image>>

\* The second walk: the status of a reservation is ignored.
reserve ==
  LET calls == MemoryAllocations(hobs.list)
  IN  /\ phase = "reserve"
      /\ \/ /\ Len(statuses) < Len(calls)
            /\ allocate_pages(calls[Len(statuses) + 1])
            /\ statuses' = Append(statuses, ret'.status)
            /\ UNCHANGED phase
         \/ /\ Len(statuses) = Len(calls)
            /\ phase' = "relocate"
            /\ UNCHANGED <<vars, statuses>>
      /\ UNCHANGED <<hobs, copy, wrappers, mem, search, image>>

relocate_hob ==
  LET total == get_hob_total_size(hobs)
      request == AnyPages(BootServicesData, PagesFor(total))
  IN  /\ phase = "relocate"
      /\ allocate_pages(request)
      /\ copy' = IF ret'.status = "SUCCESS"
                 THEN [page |-> ret'.address, pages |-> request.count,
                       list |-> SubSeq(hobs.list, 1, total \div HobSize)]
                 ELSE Null
      /\ phase' = "disk"
      /\ UNCHANGED <<hobs, statuses, wrappers, mem, search, image>>

\* The wrappers of the disk, its partitions and its file system are a page each.  Without
\* a disk, without an EFI partition on it and without memory for a wrapper, no image
\* is looked for.
start_disk ==
  /\ phase = "disk"
  /\ \/ phase' = "stopped" /\ UNCHANGED <<vars, wrappers, search>>
     \/ /\ Cardinality(wrappers) < MaxWrappers
        /\ allocate_pages(AnyPages(LoaderData, 1))
        /\ wrappers' = IF ret'.status = "SUCCESS" THEN wrappers \cup {ret'.address} ELSE wrappers
        /\ phase' = IF ret'.status = "SUCCESS" THEN "disk" ELSE "stopped"
        /\ UNCHANGED search
     \/ /\ phase' = IF copy = Null THEN "astray" ELSE "search"
        /\ search' = [at |-> "hob", hob |-> 1]
        /\ UNCHANGED <<vars, wrappers>>
  /\ UNCHANGED <<hobs, statuses, copy, mem, image>>

-----------------------------------------------------------------------------
(* find_loader *)

Searching(at) == phase = "search" /\ search.at = at

NextHob == [at |-> "hob", hob |-> search.hob + 1]

\* A turn of find_image_in_fv; get_image_from_fv asserts the signature.
find_image_in_fv ==
  LET h == copy.list[search.hob]
  IN  /\ Searching("hob")
      /\ \/ search.hob > Len(copy.list) /\ phase' = "astray" /\ UNCHANGED search
         \/ /\ search.hob <= Len(copy.list)
            /\ CASE h.type = "FV" ->
                      /\ phase' = IF h.signature THEN "search" ELSE "panic"
                      /\ search' = [at |-> "file", hob |-> search.hob, next |-> h.base + h.header_length,
                                    fv_end |-> h.base + h.length]
                 [] h.type = "END_OF_HOB_LIST" -> phase' = "none" /\ UNCHANGED search
                 [] OTHER -> search' = NextHob /\ UNCHANGED phase
      /\ UNCHANGED <<vars, hobs, statuses, copy, wrappers, mem, image>>

get_image_from_fv ==
  LET t == FileTurn(mem, search.next, search.fv_end)
  IN  /\ Searching("file")
      /\ search' = IF t.stop THEN NextHob
                   ELSE IF t.type # "APPLICATION" THEN [search EXCEPT !.next = t.current + t.size]
                   ELSE [at |-> "section", hob |-> search.hob, fv_end |-> search.fv_end,
                         next |-> t.current + FfsHeader, end |-> t.current + t.size]
      /\ UNCHANGED <<vars, hobs, phase, statuses, copy, wrappers, mem, image>>

\* Mutant of get_image_from_sections: a file without a PE32 section ends the volume.
SectionsEndVolume ==
  LET t == SectionTurn(mem, search.next, search.end)
  IN  /\ Searching("section")
      /\ IF t.stop
         THEN search' = NextHob /\ UNCHANGED <<phase, image>>
         ELSE IF t.type # "PE32"
         THEN search' = [search EXCEPT !.next = t.current + t.size] /\ UNCHANGED <<phase, image>>
         ELSE /\ image' = [start |-> t.current + SectionHeader, size |-> t.size - SectionHeader]
              /\ phase' = "loader" /\ UNCHANGED search
      /\ UNCHANGED <<vars, hobs, statuses, copy, wrappers, mem>>

\* The file behind is looked at when the sections of this one are through.
get_image_from_sections ==
  LET t == SectionTurn(mem, search.next, search.end)
  IN  /\ Searching("section")
      /\ IF t.stop
         THEN /\ search' = [at |-> "file", hob |-> search.hob, fv_end |-> search.fv_end, next |-> search.end]
              /\ UNCHANGED <<phase, image>>
         ELSE IF t.type # "PE32"
         THEN search' = [search EXCEPT !.next = t.current + t.size] /\ UNCHANGED <<phase, image>>
         ELSE /\ image' = [start |-> t.current + SectionHeader, size |-> t.size - SectionHeader]
              /\ phase' = "loader" /\ UNCHANGED search
      /\ UNCHANGED <<vars, hobs, statuses, copy, wrappers, mem>>

-----------------------------------------------------------------------------
HandoffInit ==
  /\ Init
  /\ hobs \in {h \in HobLists : MemoryRegions(h.list) = Regions}
  /\ phase = "memory"
  /\ statuses = << >> /\ copy = Null /\ wrappers = {}
  /\ \E other \in Other, headers \in {UNION {HeadersOf(v) : v \in Range(Volumes(hobs.list))}} :
       mem = [other |-> other,
              headers |-> [a \in {h.at : h \in headers} |-> CHOOSE h \in headers : h.at = a]]
  /\ search = Null /\ image = Null

Startup ==
  \/ take_over \/ reserve \/ relocate_hob \/ start_disk
  \/ find_image_in_fv \/ get_image_from_fv \/ get_image_from_sections

-----------------------------------------------------------------------------
(* Properties *)

\* A range of pages has a type, in one block or in several.
Holds(page, count, type) ==
  \A p \in page .. page + count - 1 :
    \E s \in InUse(allocations) : p \in Block(allocations, s) /\ allocations[s].type = type

\* The reservations do not overlap, are of whole pages inside one region each, and there
\* are slots for the two splits each may take.
Orderly(calls) ==
  /\ \A i, j \in DOMAIN calls : i < j =>
       \/ calls[i].page + calls[i].count <= calls[j].page
       \/ calls[j].page + calls[j].count <= calls[i].page
  /\ \A i \in DOMAIN calls :
       /\ calls[i].aligned /\ calls[i].count > 0
       /\ \E k \in DOMAIN Regions :
            /\ Regions[k].start <= calls[i].page
            /\ calls[i].page + calls[i].count <= Regions[k].start + Regions[k].pages
  /\ Len(Regions) + 2 * Len(calls) <= MaxAllocations

\* What the hand-off blocks declare in use is still so when the first image runs: no
\* reservation of an orderly list fails, although nobody would notice, and neither the
\* copy of the list nor a wrapper is put on reserved memory or on each other.
ReservationsHold ==
  LET calls == MemoryAllocations(hobs.list)
  IN  /\ Orderly(calls) => \A i \in DOMAIN statuses : statuses[i] = "SUCCESS"
      /\ \A i \in DOMAIN statuses :
           statuses[i] = "SUCCESS" => Holds(calls[i].page, calls[i].count, calls[i].type)
      /\ copy # Null => /\ Holds(copy.page, copy.pages, BootServicesData)
                        /\ Len(copy.list) * HobSize <= copy.pages * PageSize
      /\ \A w \in wrappers : Holds(w, 1, LoaderData)

Images == Joined([i \in DOMAIN Volumes(hobs.list) |-> ImagesOf(Volumes(hobs.list)[i])])

\* The end of a volume is so close to 4 GiB that the address behind its last file
\* is aligned to 0.
Wraps == \E v \in Range(Volumes(hobs.list)) : v.base + v.length + FfsAlign > AddressModulus

\* The search over the copied list finds the first PE32 section of the first application
\* that has one in the original list's volumes, with its place and size, whatever
\* padding, other files and other sections lie before it; and it finds nothing only if
\* there is none, or stops at a volume without a signature.  Volumes that reach up to
\* 4 GiB are left out, except that an image in the first of them is found.
LoaderFound ==
  /\ phase = "loader" /\ ~ Wraps => image = Images[1]
  /\ phase = "loader" /\ Wraps /\ ImagesOf(Volumes(hobs.list)[1]) # << >> => image = Images[1]
  /\ phase = "none" /\ ~ Wraps => Images = << >>
  /\ phase = "astray" => copy = Null \/ ~ hobs.marked
  /\ phase = "panic" => \E v \in Range(Volumes(hobs.list)) : ~ v.signature

\* The search comes to an end.
SearchEnds == (phase = "search" /\ ~ Wraps) ~> (phase # "search")
=============================================================================
