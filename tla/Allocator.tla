----------------------------- MODULE Allocator -----------------------------
(***************************************************************************)
(* The physical page allocator of src/efi/alloc.rs and the boot services   *)
(* that call it (allocate_pages, free_pages, allocate_pool, free_pool and  *)
(* set_virtual_address_map of src/efi/mod.rs).                             *)
(*                                                                         *)
(* The allocator is a fixed array of slots.  The slots in use are chained  *)
(* by next_allocation into one list of memory blocks, each described by    *)
(* its type, first page, number of pages, attributes and virtual address.  *)
(*                                                                         *)
(* Addresses are in pages.  Block starts are page aligned (the HOB regions *)
(* are, and splits move by whole pages); a requested address is a page and *)
(* a flag that says whether it is aligned, which is all that the address   *)
(* comparisons of the code can tell apart.                                 *)
(*                                                                         *)
(* The code walks the list to find a block.  Here a walk is a choice among *)
(* the slots in use, taken in list order; ListedIsInUse says that this is  *)
(* the same thing, and AllocatorLoops transcribes the loops themselves.    *)
(***************************************************************************)
EXTENDS Integers, Sequences

CONSTANTS
  MaxAllocations,   \* number of slots, MAX_ALLOCATIONS
  LowMemoryTop,     \* the page of the 1 MiB mark
  Types,            \* memory types
  Conventional,     \* the type of free memory
  Reserved,         \* type 0, the type field of a slot never used
  RuntimeTypes,     \* RuntimeServicesCode and RuntimeServicesData
  Regions,          \* system memory resource HOBs, in HOB order: [start, pages]
  Requests,         \* allocation requests: [how, type, count, page, aligned]
  FreeAddresses,    \* addresses passed to free_pages
  VirtualMaps,      \* arguments of set_virtual_address_map: sequences of [start, virt]
  MaxKey            \* bound on the number of successful searches explored

Slots == 0 .. MaxAllocations - 1
None == MaxAllocations

ASSUME SlotsAssumption == MaxAllocations \in Nat \ {0}

ASSUME TypesAssumption == {Conventional, Reserved} \subseteq Types /\ RuntimeTypes \subseteq Types

ASSUME RegionsAssumption ==
  /\ Regions \in Seq([start : Nat, pages : Nat])
  /\ \A i, j \in 1 .. Len(Regions) : i < j =>
        \/ Regions[i].start + Regions[i].pages <= Regions[j].start
        \/ Regions[j].start + Regions[j].pages <= Regions[i].start

Request ==
  [how : {"Address", "Any", "Max"}, type : Types, count : Nat, page : Nat, aligned : BOOLEAN]

ASSUME RequestsAssumption ==
  /\ LowMemoryTop \in Nat
  /\ Requests \subseteq Request
  /\ FreeAddresses \subseteq Nat
  /\ VirtualMaps \subseteq Seq([start : Nat, virt : Nat])

Attributes == {"WB", "RUNTIME"}

VARIABLES
  allocations,        \* the slot array
  first_allocation,   \* head of the list
  key,                \* the memory map key
  region,             \* number of region HOBs initialize_memory has handed over
  ret                 \* what the last call returned

vars == <<allocations, first_allocation, key, region, ret>>

Allocation ==
  [in_use : BOOLEAN, next : Slots \cup {None}, type : Types, start : Nat,
   virt : Nat, pages : Nat, attribute : SUBSET Attributes]

Statuses == {"SUCCESS", "OUT_OF_RESOURCES", "NOT_FOUND"}

TypeOK ==
  /\ allocations \in [Slots -> Allocation]
  /\ first_allocation \in Slots \cup {None}
  /\ key \in Nat
  /\ region \in 0 .. Len(Regions)
  /\ ret \in [status : Statuses, address : Nat]

-----------------------------------------------------------------------------
(* The list *)

InUse(A) == {s \in Slots : A[s].in_use}

End(A, s) == A[s].start + A[s].pages

\* t is s or comes after s in the list: t is in every set of slots that
\* contains s and the successors of its members.
Before(A, s, t) ==
  \A C \in SUBSET InUse(A) :
    (s \in C /\ \A u \in C : A[u].next \in C \cup {None}) => t \in C

\* The first slot that is not in use, None when every slot is.
find_free_allocation(A) ==
  IF InUse(A) = Slots
  THEN None
  ELSE CHOOSE i \in Slots \ InUse(A) : \A j \in Slots \ InUse(A) : i <= j

\* Mutant of split_allocation: the new slot is not linked behind orig.
SplitUnlinked(A, orig, pages) ==
  LET new == find_free_allocation(A)
  IN  [A EXCEPT ![new] = [A[orig] EXCEPT !.start = @ + pages, !.pages = @ - pages],
                ![orig] = [A[orig] EXCEPT !.pages = pages]]

\* Mutant of split_allocation: orig keeps all its pages.
SplitKeepsPages(A, orig, pages) ==
  LET new == find_free_allocation(A)
  IN  [A EXCEPT ![new] = [A[orig] EXCEPT !.start = @ + pages, !.pages = @ - pages],
                ![orig] = [A[orig] EXCEPT !.next = new]]

\* Mutant of split_allocation: the new half starts a page late.
SplitLosesPage(A, orig, pages) ==
  LET new == find_free_allocation(A)
  IN  [A EXCEPT ![new] = [A[orig] EXCEPT !.start = @ + pages + 1, !.pages = @ - pages - 1],
                ![orig] = [A[orig] EXCEPT !.next = new, !.pages = pages]]

\* Slot orig keeps its first pages pages, the rest goes to a free slot that is
\* linked behind it.  The new slot keeps the virtual address of its last use.
split_allocation(A, orig, pages) ==
  LET new == find_free_allocation(A)
  IN  [A EXCEPT ![new] = [in_use |-> TRUE,
                          next |-> A[orig].next,
                          type |-> A[orig].type,
                          start |-> A[orig].start + pages,
                          virt |-> A[new].virt,
                          pages |-> A[orig].pages - pages,
                          attribute |-> A[orig].attribute],
                ![orig] = [A[orig] EXCEPT !.next = new, !.pages = pages]]

\* A slot that is not in use.  Of its stale fields only the virtual address can
\* be seen again: every reuse of a slot sets the others, so they are not kept.
Released(slot) ==
  [in_use |-> FALSE, next |-> None, type |-> Reserved, start |-> 0,
   virt |-> slot.virt, pages |-> 0, attribute |-> {}]

\* The condition under which merge_free_memory joins s with its successor.
Mergeable(A, s) ==
  /\ A[s].in_use
  /\ A[s].next # None
  /\ A[s].type = Conventional
  /\ A[A[s].next].type = Conventional
  /\ A[A[s].next].start = End(A, s)

\* The slots that the loop joins into h, h included.
Run(A, h) ==
  {t \in InUse(A) :
     \A C \in SUBSET InUse(A) :
       (h \in C /\ \A u \in C : Mergeable(A, u) => A[u].next \in C) => t \in C}

Absorbed(A) == {A[s].next : s \in {u \in InUse(A) : Mergeable(A, u)}}

\* Mutant of merge_free_memory: only the pages of the next block are added.
MergeAddsNext(A) ==
  [s \in Slots |->
     IF s \in Absorbed(A) THEN Released(A[s])
     ELSE IF ~ Mergeable(A, s) THEN A[s]
     ELSE LET last == CHOOSE t \in Run(A, s) : ~ Mergeable(A, t)
          IN  [A[s] EXCEPT !.pages = @ + A[A[s].next].pages, !.next = A[last].next]]

\* merge_free_memory: each maximal run of contiguous free blocks becomes its
\* first block and the slots of the others are released.
merge_free_memory(A) ==
  [s \in Slots |->
     IF s \in Absorbed(A) THEN Released(A[s])
     ELSE IF ~ Mergeable(A, s) THEN A[s]
     ELSE LET last == CHOOSE t \in Run(A, s) : ~ Mergeable(A, t)
          IN  [A[s] EXCEPT !.pages = End(A, last) - A[s].start,
                           !.next = A[last].next]]

-----------------------------------------------------------------------------
(* Finding memory *)

\* The block of slot s can hold the request.
Fits(A, r, s) ==
  /\ A[s].type = Conventional
  /\ \/ /\ r.how = "Address"
        /\ r.page >= A[s].start
        /\ \/ r.page + r.count < End(A, s)
           \/ r.aligned /\ r.page + r.count = End(A, s)
     \/ /\ r.how = "Any"
        /\ A[s].pages >= r.count
        /\ A[s].start > LowMemoryTop
     \/ /\ r.how = "Max"
        /\ A[s].pages >= r.count
        /\ A[s].start + r.count <= r.page

Candidates(A, r) == {s \in InUse(A) : Fits(A, r, s)}

\* find_free_memory: dest is the first block of the list that fits.
find_free_memory(A, r, dest) ==
  /\ dest \in Candidates(A, r)
  /\ \A t \in Candidates(A, r) : t = dest \/ Before(A, dest, t)

-----------------------------------------------------------------------------
(* Operations *)

Returns(status, address) == ret' = [status |-> status, address |-> address]

OutOfResources == Returns("OUT_OF_RESOURCES", 0)

\* The slot gets its new type; runtime types add the runtime attribute.
Assign(A, s, type) ==
  [A EXCEPT ![s] = [A[s] EXCEPT
     !.type = type,
     !.attribute = @ \cup IF type \in RuntimeTypes THEN {"RUNTIME"} ELSE {}]]

Succeed(A, s, type) ==
  /\ allocations' = Assign(A, s, type)
  /\ Returns("SUCCESS", A[s].start)

\* The block has exactly the size asked for: only its type changes.
AllocateWhole(r, dest) ==
  /\ allocations[dest].pages = r.count
  /\ allocations' = [allocations EXCEPT ![dest] = [@ EXCEPT !.type = r.type]]
  /\ Returns("SUCCESS", allocations[dest].start)

\* The request takes the first pages of the block.
AllocateFront(r, dest) ==
  /\ allocations[dest].pages # r.count
  /\ r.how = "Address" => r.page = allocations[dest].start /\ r.aligned
  /\ IF find_free_allocation(allocations) = None
     THEN OutOfResources /\ UNCHANGED allocations
     ELSE Succeed(split_allocation(allocations, dest, r.count), dest, r.type)

\* Mutant of AllocateInside: the part before the request is handed out.
AllocateInsideFirst(r, dest) ==
  LET split == find_free_allocation(allocations)
      A1 == split_allocation(allocations, dest, r.page - allocations[dest].start)
  IN  /\ allocations[dest].pages # r.count
      /\ r.how = "Address"
      /\ ~ (r.page = allocations[dest].start /\ r.aligned)
      /\ split # None
      /\ Succeed(A1, dest, r.type)

\* The request starts further into the block: it is split once before the
\* request and, if pages are left behind it, once after.  When the second split
\* finds no slot the first one stays.
AllocateInside(r, dest) ==
  LET split == find_free_allocation(allocations)
      A1 == split_allocation(allocations, dest, r.page - allocations[dest].start)
  IN  /\ allocations[dest].pages # r.count
      /\ r.how = "Address"
      /\ ~ (r.page = allocations[dest].start /\ r.aligned)
      /\ \/ /\ split = None
            /\ OutOfResources /\ UNCHANGED allocations
         \/ /\ split # None
            /\ A1[split].pages <= r.count
            /\ Succeed(A1, split, r.type)
         \/ /\ split # None
            /\ A1[split].pages > r.count
            /\ IF find_free_allocation(A1) = None
               THEN OutOfResources /\ allocations' = A1
               ELSE Succeed(split_allocation(A1, split, r.count), split, r.type)

\* initialize_memory hands over the resource HOBs one by one, before any other
\* call.
add_initial_allocation ==
  LET new == find_free_allocation(allocations)
      block(s) == [in_use |-> TRUE, next |-> None, type |-> Conventional,
                   start |-> Regions[region + 1].start, virt |-> allocations[s].virt,
                   pages |-> Regions[region + 1].pages, attribute |-> {"WB"}]
  IN  /\ region < Len(Regions)
      /\ region' = region + 1
      /\ key' = key + 1
      /\ \/ /\ first_allocation = None
            /\ allocations' = [allocations EXCEPT ![0] = block(0)]
            /\ first_allocation' = 0
            /\ Returns("SUCCESS", 0)
         \/ /\ first_allocation # None
            /\ new = None
            /\ OutOfResources
            /\ UNCHANGED <<allocations, first_allocation>>
         \/ /\ first_allocation # None
            /\ new # None
            /\ \E last \in InUse(allocations) :
                 /\ allocations[last].next = None
                 /\ allocations' = [allocations EXCEPT ![last] = [@ EXCEPT !.next = new],
                                                       ![new] = block(new)]
            /\ UNCHANGED first_allocation
            /\ Returns("SUCCESS", 0)

\* Mutant of allocate_pages: the map key stays.
AllocateKeepsKey(r) ==
  /\ region = Len(Regions)
  /\ UNCHANGED <<first_allocation, region, key>>
  /\ \E dest \in Candidates(allocations, r) :
       /\ find_free_memory(allocations, r, dest)
       /\ AllocateWhole(r, dest) \/ AllocateFront(r, dest) \/ AllocateInside(r, dest)

allocate_pages(r) ==
  /\ region = Len(Regions)
  /\ UNCHANGED <<first_allocation, region>>
  /\ \/ /\ Candidates(allocations, r) = {}
        /\ OutOfResources
        /\ UNCHANGED <<allocations, key>>
     \/ /\ key < MaxKey
        /\ key' = key + 1
        /\ \E dest \in Candidates(allocations, r) :
             /\ find_free_memory(allocations, r, dest)
             /\ AllocateWhole(r, dest) \/ AllocateFront(r, dest) \/ AllocateInside(r, dest)

\* Mutant of free_pages: no merge.
FreeWithoutMerge(address) ==
  LET At == {s \in InUse(allocations) : allocations[s].start = address}
  IN  /\ region = Len(Regions)
      /\ UNCHANGED <<first_allocation, key, region>>
      /\ \E s \in At :
           /\ allocations' = [allocations EXCEPT ![s] = [@ EXCEPT !.type = Conventional]]
           /\ Returns("SUCCESS", 0)

\* The first block that starts at the address becomes free memory, whatever it
\* was; its attributes stay.
free_pages(address) ==
  LET At == {s \in InUse(allocations) : allocations[s].start = address}
  IN  /\ region = Len(Regions)
      /\ UNCHANGED <<first_allocation, key, region>>
      /\ \/ /\ At = {}
            /\ Returns("NOT_FOUND", 0)
            /\ UNCHANGED allocations
         \/ \E s \in At :
              /\ \A t \in At : t = s \/ Before(allocations, s, t)
              /\ allocations' = merge_free_memory(
                   [allocations EXCEPT ![s] = [@ EXCEPT !.type = Conventional]])
              /\ Returns("SUCCESS", 0)

\* The virtual address that descriptors 1 .. n of map give to the block of slot
\* s.  A descriptor is applied to the first block with its start.
Mapped(A, map, n, s) ==
  LET Is == {i \in 1 .. n : /\ map[i].start = A[s].start
                            /\ \A t \in InUse(A) : A[t].start = A[s].start =>
                                  t = s \/ Before(A, s, t)}
  IN  IF ~ A[s].in_use \/ Is = {} THEN A[s].virt
      ELSE map[CHOOSE i \in Is : \A j \in Is : j <= i].virt

\* Descriptors are applied in order up to the first that no block matches.
update_virtual_addresses(map) ==
  LET Unknown == {i \in 1 .. Len(map) :
                    \A s \in InUse(allocations) : allocations[s].start # map[i].start}
      n == IF Unknown = {} THEN Len(map)
           ELSE (CHOOSE i \in Unknown : \A j \in Unknown : i <= j) - 1
  IN  /\ region = Len(Regions)
      /\ allocations' = [s \in Slots |->
           [allocations[s] EXCEPT !.virt = Mapped(allocations, map, n, s)]]
      /\ Returns(IF Unknown = {} THEN "SUCCESS" ELSE "NOT_FOUND", 0)
      /\ UNCHANGED <<first_allocation, key, region>>

-----------------------------------------------------------------------------
(* The memory map *)

\* Where the walks of the list are after so many turns.
Turns(A, first) ==
  LET cur[i \in 0 .. MaxAllocations] ==
        IF i = 0 THEN first ELSE IF cur[i - 1] = None THEN None ELSE A[cur[i - 1]].next
  IN  cur

\* get_descriptor_count: the turns until there is no next block.
get_descriptor_count(A, first) ==
  CHOOSE n \in 0 .. MaxAllocations :
    Turns(A, first)[n] = None /\ \A i \in 0 .. n - 1 : Turns(A, first)[i] # None

Descriptor(a) ==
  [type |-> a.type, start |-> a.start, pages |-> a.pages, virt |-> a.virt, attribute |-> a.attribute]

\* Mutant of get_descriptors: the walk ends at the last block without copying it.
DescriptorsButLast(A, first) ==
  [i \in 1 .. get_descriptor_count(A, first) - 1 |-> Descriptor(A[Turns(A, first)[i - 1]])]

\* get_descriptors: the blocks in the order of the list.
get_descriptors(A, first) ==
  [i \in 1 .. get_descriptor_count(A, first) |-> Descriptor(A[Turns(A, first)[i - 1]])]

-----------------------------------------------------------------------------
Init ==
  /\ allocations = [s \in Slots |-> Released([virt |-> 0])]
  /\ first_allocation = None
  /\ key = 0
  /\ region = 0
  /\ ret = [status |-> "SUCCESS", address |-> 0]

Next ==
  \/ add_initial_allocation
  \/ \E r \in Requests : allocate_pages(r)
  \/ \E address \in FreeAddresses : free_pages(address)
  \/ \E map \in VirtualMaps : update_virtual_addresses(map)

Spec == Init /\ [][Next]_vars

-----------------------------------------------------------------------------
(* Properties *)

\* The slots in use form one list with head first.
Listed(A, first) ==
  /\ first = None <=> InUse(A) = {}
  /\ first \in InUse(A) \cup {None}
  /\ \A s \in InUse(A) : A[s].next \in InUse(A) \cup {None} /\ A[s].next # first
  /\ \A s, t \in InUse(A) : A[s].next = A[t].next /\ A[s].next # None => s = t
  /\ \A s \in InUse(A) : Before(A, first, s)
  /\ \A C \in SUBSET InUse(A) : C # {} => \E u \in C : A[u].next \notin C

Block(A, s) == A[s].start .. End(A, s) - 1

Disjoint(A) == \A s, t \in InUse(A) : s # t => Block(A, s) \cap Block(A, t) = {}

PagesOf(A) == UNION {Block(A, s) : s \in InUse(A)}

\* The pages of the first n regions, as far as there are slots for them.
RegionPages(n) ==
  UNION {Regions[i].start .. Regions[i].start + Regions[i].pages - 1 :
           i \in {j \in 1 .. n : j <= MaxAllocations}}

\* The chain that starts at first_allocation visits exactly the slots in use,
\* each once, and ends: split_allocation and merge_free_memory never leak a slot
\* (in use but unreachable), reuse one that is still linked, or close a cycle
\* that the walks of alloc.rs would follow for ever.
ListedIsInUse == Listed(allocations, first_allocation)

\* No page belongs to two blocks of the memory map.
BlocksDisjoint == Disjoint(allocations)

\* No page is lost or invented: the blocks cover exactly the regions that
\* initialize_memory handed over (those for which there was a slot), through
\* every split, merge, partly failed allocation and zero page request.
PagesConserved == PagesOf(allocations) = RegionPages(region)

\* After a successful free_pages no two neighbours of the list could still be
\* merged, also when an earlier allocation failed between its two splits and
\* left free fragments behind.
FreeCoalesces ==
  [][(\E a \in FreeAddresses : free_pages(a)) /\ ret'.status = "SUCCESS"
     => \A s \in InUse(allocations') : ~ Mergeable(allocations', s)]_vars

\* While the map key stays the same no free page is handed out: what a holder
\* of an old key believes allocated may have been freed, but memory it believes
\* free is still free.  (free_pages does not change the key.)
KeyGuardsFreeMemory ==
  [][key' = key => \A s \in InUse(allocations) : allocations[s].type = Conventional =>
       \A t \in InUse(allocations') :
         \/ allocations'[t].type = Conventional
         \/ Block(allocations, s) \cap Block(allocations', t) = {}]_vars
=============================================================================
