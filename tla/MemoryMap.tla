----------------------------- MODULE MemoryMap -----------------------------
(***************************************************************************)
(* The memory services an image uses before it leaves the firmware:        *)
(* get_memory_map, allocate_pool, free_pool and exit_boot_services of      *)
(* src/efi/mod.rs, and malloc and free of src/calloc.rs, which the file    *)
(* protocol calls for every file that is opened and closed.                *)
(*                                                                         *)
(* The image asks for the size of the map, allocates a buffer with room    *)
(* for Slack descriptors more, gets the map, and leaves with its key.      *)
(* Before the first and after the last of these it may do anything else    *)
(* with memory.  The processor runs one call at a time, so the three locks *)
(* of get_memory_map are one step.                                         *)
(***************************************************************************)
EXTENDS Handoff

CONSTANTS
  DescriptorSize,
  Slack,         \* descriptors the image leaves room for
  PoolSizes,     \* sizes of its other allocations
  MaxOwned       \* bound on the pages it holds

\* An image asks for something, and leaves room for what its buffer adds to the map.
ASSUME MemoryAssumption ==
  /\ DescriptorSize \in Nat \ {0} /\ Slack \in Nat \ {0}
  /\ PoolSizes \subseteq Nat \ {0}

VARIABLE client    \* [at, room, buffer, status, map, map_key, owned, files]

\* What get_memory_map answers to a buffer with room for some descriptors.
MapInto(room) ==
  LET count == get_descriptor_count(allocations, first_allocation)
  IN  IF room < count THEN [status |-> "BUFFER_TOO_SMALL", size |-> count]
      ELSE [status |-> "SUCCESS", size |-> count, map_key |-> key,
            map |-> get_descriptors(allocations, first_allocation)]

-----------------------------------------------------------------------------
AskSize ==
  /\ client.at = "idle"
  /\ client' = [client EXCEPT !.at = "sized", !.room = MapInto(0).size + Slack]
  /\ UNCHANGED vars

\* allocate_pool of the buffer.
AllocateBuffer ==
  /\ client.at = "sized"
  /\ allocate_pages(AnyPages(LoaderData, PagesFor(client.room * DescriptorSize)))
  /\ client' = IF ret'.status = "SUCCESS" THEN [client EXCEPT !.at = "pooled", !.buffer = ret'.address]
               ELSE [client EXCEPT !.at = "gave up"]

get_memory_map ==
  LET answer == MapInto(client.room)
  IN  /\ client.at = "pooled"
      /\ client' = [client EXCEPT !.at = "mapped", !.status = answer.status,
                      !.map = IF answer.status = "SUCCESS" THEN answer.map ELSE << >>,
                      !.map_key = IF answer.status = "SUCCESS" THEN answer.map_key ELSE Null]
      /\ UNCHANGED vars

\* exit_boot_services does not look at the key.
exit_boot_services ==
  /\ client.at = "mapped"
  /\ client' = [client EXCEPT !.at = "left"]
  /\ UNCHANGED vars

Free == client.at \in {"idle", "mapped"}

allocate_pool(size) ==
  /\ Free /\ Cardinality(client.owned \cup client.files) < MaxOwned
  /\ allocate_pages(AnyPages(LoaderData, PagesFor(size)))
  /\ client' = IF ret'.status = "SUCCESS" THEN [client EXCEPT !.owned = @ \cup {ret'.address}] ELSE client

free_pool(page) ==
  /\ Free
  /\ free_pages(page)
  /\ client' = [client EXCEPT !.owned = @ \ {page}]

\* malloc, when a file is opened.
malloc ==
  /\ Free /\ Cardinality(client.owned \cup client.files) < MaxOwned
  /\ allocate_pages(AnyPages(LoaderData, 1))
  /\ client' = IF ret'.status = "SUCCESS" THEN [client EXCEPT !.files = @ \cup {ret'.address}] ELSE client

\* free, when it is closed: free_pages is called with the address of the pointer, on the
\* stack, where no block starts.  The page stays allocated.
free ==
  /\ Free /\ client.files # {}
  /\ ret' = [status |-> "NOT_FOUND", address |-> 0]
  /\ UNCHANGED <<allocations, first_allocation, key, region, client>>

ClientInit ==
  client = [at |-> "idle", room |-> 0, buffer |-> 0, status |-> Null, map |-> << >>,
            map_key |-> Null, owned |-> {}, files |-> {}]

Client ==
  \/ AskSize \/ AllocateBuffer \/ get_memory_map \/ exit_boot_services
  \/ \E size \in PoolSizes : allocate_pool(size)
  \/ \E page \in client.owned : free_pool(page)
  \/ malloc \/ free

MemoryInit == HandoffInit /\ ClientInit

Starting == Startup /\ UNCHANGED client

Running == phase = "loader" /\ Client /\ UNCHANGED hvars

mvars == <<vars, hvars, client>>

MemorySpec == MemoryInit /\ [][Starting \/ Running]_mvars

-----------------------------------------------------------------------------
(* Properties *)

\* Everyone's memory stays their own: the reservations, the copy of the list and the
\* wrappers while the image runs, and what the image got from allocate_pool or, through
\* open files, from malloc and has not freed.  free releases nothing.
MemoryKept ==
  /\ ReservationsHold
  /\ \A page \in client.owned \cup client.files : Holds(page, 1, LoaderData)
  /\ client.owned \cap client.files = {}
  /\ copy # Null => (client.owned \cup client.files) \cap (copy.page .. copy.page + copy.pages - 1) = {}
  /\ (client.owned \cup client.files) \cap wrappers = {}

\* An image that leaves room for one descriptor more than it was told gets the map with
\* its second call, although allocating the buffer changed the map in between.  The map
\* lists all of memory, with the buffer as allocated.  And since exit_boot_services
\* takes any key, the image has to compare keys itself: as long as the key is that of
\* its map, the memory the map calls free is free.
MapUsable ==
  client.at \in {"mapped", "left"} =>
    /\ client.status = "SUCCESS"
    /\ UNION {d.start .. d.start + d.pages - 1 : d \in Range(client.map)} = PagesOf(allocations)
    /\ \E d \in Range(client.map) : d.start = client.buffer /\ d.type = LoaderData
    /\ client.map_key = key =>
         \A d \in Range(client.map) : d.type = Conventional => Holds(d.start, d.pages, Conventional)
=============================================================================
