-------------------------------- MODULE Hob --------------------------------
(***************************************************************************)
(* What initialize_memory (src/efi/init.rs) makes of the hand-off blocks   *)
(* (HOBs): the memory it hands to the allocator, and the ranges it then    *)
(* reserves in it.  A HOB has a type; lengths and addresses are in bytes.  *)
(***************************************************************************)
EXTENDS Integers, Sequences, FiniteSetsExt

CONSTANTS
  PageSize,
  HobSize       \* the length of a HOB; all are of one length here

\* A walk stops at the first end mark.
UpToEnd(hobs) == SubSeq(hobs, 1, Min({i \in DOMAIN hobs : hobs[i].type = "END_OF_HOB_LIST"}) - 1)

\* The first walk: a partial page at the end of a range is left out.
MemoryRegions(hobs) ==
  LET memory == SelectSeq(UpToEnd(hobs), LAMBDA h : h.type = "RESOURCE_DESCRIPTOR" /\ h.system_memory)
  IN  [i \in DOMAIN memory |-> [start |-> memory[i].physical_start \div PageSize,
                                pages |-> memory[i].resource_length \div PageSize]]

\* The second walk: the calls of allocate_pages, whose status is ignored.
MemoryAllocations(hobs) ==
  LET taken == SelectSeq(UpToEnd(hobs), LAMBDA h : h.type = "MEMORY_ALLOCATION")
  IN  [i \in DOMAIN taken |-> [how |-> "Address", type |-> taken[i].memory_type,
                               count |-> taken[i].memory_length \div PageSize,
                               page |-> taken[i].memory_base_address \div PageSize,
                               aligned |-> taken[i].memory_base_address % PageSize = 0]]

\* get_hob_total_size: the bytes up to efi_end_of_hob_list, which lies behind the end
\* mark of a list that is marked and in front of it otherwise.
get_hob_total_size(hobs) == HobSize * (Len(UpToEnd(hobs.list)) + IF hobs.marked THEN 1 ELSE 0)

=============================================================================
