---------------------------- MODULE MemoryProofs ----------------------------
(***************************************************************************)
(* Proofs about the memory of the firmware from its start to the image's   *)
(* exit_boot_services, for any slots, regions, lists of hand-off blocks,   *)
(* sizes and slack.  The inductive invariant is MemoryInv: every block the *)
(* start-up reserved or copied to, every wrapper, and every page the image *)
(* or a file holds, is a block of the allocator with its type, all of them *)
(* different; and the size and the map the image has been given fit the    *)
(* list as it is now.  OrderInv adds, for a list of reservations that does *)
(* not overlap and leaves slots for the splits, that what is still to be   *)
(* reserved is free and that there are slots for it.                       *)
(***************************************************************************)
EXTENDS MemoryMap, AllocatorProofs

\* Every leaf is tried with Zenon, with the SMT solver, and with Zenon for longer.
USE ZenonT(2), SMTT(30), ZenonT(30)

-----------------------------------------------------------------------------
(* The invariant *)

Calls == MemoryAllocations(hobs.list)

\* Blocks that are somebody's.
HeldBlock == [page : Nat, count : Nat, type : Types \ {Conventional}]

Held(page, count, type) == [page |-> page, count |-> count, type |-> type]

\* What the start-up holds and never frees: the reservations, the copy, the wrappers.
Fixed ==
  {Held(Calls[i].page, Calls[i].count, Calls[i].type) : i \in {j \in DOMAIN statuses : statuses[j] = "SUCCESS"}}
    \cup {Held(c.page, c.pages, BootServicesData) : c \in {copy} \ {Null}}
    \cup {Held(w, 1, LoaderData) : w \in wrappers}

\* The blocks of F are there, and the pages of O, which are others, start blocks.
Hold(A, F, O) ==
  /\ \A b \in F : b.count > 0 => HasBlock(A, b.page, b.count, b.type) /\ b.page \notin O
  /\ \A p \in O : \E n \in Nat \ {0} : HasBlock(A, p, n, LoaderData)

Span(d) == d.start .. d.start + d.pages - 1

\* How far the image's dealings with the map have come.
MapInv ==
  LET count == get_descriptor_count(allocations, first_allocation)
  IN  /\ client.at = "sized" => client.room = count + Slack
      /\ client.at = "pooled" =>
           count <= client.room /\ \E n : HasBlock(allocations, client.buffer, n, LoaderData)
      /\ client.at \in {"mapped", "left"} =>
           /\ client.status = "SUCCESS"
           /\ UNION {Span(d) : d \in Range(client.map)} = RegionPages(region)
           /\ \E d \in Range(client.map) : d.start = client.buffer /\ d.type = LoaderData
           /\ client.map_key \in Nat /\ client.map_key <= key
           /\ client.map_key = key =>
                \A d \in Range(client.map) : d.type = Conventional =>
                  \A p \in Span(d) : FreePage(allocations, p)

MapDescriptor == [type : Types, start : Nat, pages : Nat, virt : Nat, attribute : SUBSET Attributes]

ClientType ==
  [at : {"idle", "sized", "pooled", "mapped", "left", "gave up"}, room : Nat, buffer : Nat,
   status : {"SUCCESS", "BUFFER_TOO_SMALL", Null}, map : Seq(MapDescriptor), map_key : Nat \cup {Null},
   owned : SUBSET Nat, files : SUBSET Nat]

StartType ==
  /\ hobs \in HobLists
  /\ statuses \in Seq(Statuses) /\ Len(statuses) <= Len(Calls)
  /\ wrappers \in SUBSET Nat
  /\ copy # Null => /\ copy.page \in Nat /\ copy.pages \in Nat
                    /\ Len(copy.list) * HobSize <= copy.pages * PageSize

PhaseInv ==
  /\ phase = "memory" => statuses = << >> /\ copy = Null /\ wrappers = {}
  /\ phase # "loader" => client.at = "idle" /\ client.owned = {} /\ client.files = {}

MemoryInv ==
  /\ AllocatorInv
  /\ StartType
  /\ client \in ClientType
  /\ PhaseInv
  /\ Hold(allocations, Fixed, client.owned \cup client.files)
  /\ client.owned \cap client.files = {}
  /\ MapInv

\* A call of a list is a request.
LEMMA CallIs ==
  ASSUME NEW h \in HobLists, NEW i \in 1 .. Len(MemoryAllocations(h.list))
  PROVE  LET r == MemoryAllocations(h.list)[i]
         IN  /\ r \in Request /\ r.how = "Address" /\ r.type # Conventional
             /\ r.type \in Types /\ r.page \in Nat /\ r.count \in Nat
<1>. DEFINE C == MemoryAllocations(h.list)
            S == [how : {"Address"}, type : Types \ {Conventional}, count : Nat, page : Nat, aligned : BOOLEAN]
<1>1. C \in Seq(S)
  BY HandoffAssumption
<1>. HIDE DEF C
<1>2. C[i] \in S
  <2>. HIDE DEF S
  <2>. QED BY <1>1 DEF C
<1>. QED BY <1>2 DEF Request, C

LEMMA FixedType ==
  ASSUME StartType
  PROVE  Fixed \subseteq HeldBlock
<1>1. {BootServicesData, LoaderData} \subseteq Types \ {Conventional}
  BY HandoffAssumption
<1>2. ASSUME NEW i \in DOMAIN statuses PROVE Held(Calls[i].page, Calls[i].count, Calls[i].type) \in HeldBlock
  <2>1. i \in 1 .. Len(Calls)
    BY HandoffAssumption DEF StartType, Calls
  <2>. QED BY <2>1, CallIs DEF StartType, Calls, HeldBlock, Held
<1>3. copy # Null => Held(copy.page, copy.pages, BootServicesData) \in HeldBlock
  BY <1>1 DEF StartType, Held, HeldBlock
<1>4. \A w \in wrappers : Held(w, 1, LoaderData) \in HeldBlock
  BY <1>1 DEF StartType, Held, HeldBlock
<1>. QED BY <1>2, <1>3, <1>4 DEF Fixed

\* Fewer blocks are still held.
LEMMA HoldFewer ==
  ASSUME NEW A, NEW F, NEW O, Hold(A, F, O), NEW G, G \subseteq F
  PROVE  Hold(A, G, O)
BY DEF Hold

\* Through an allocation everything is held, and what it returns can be held as well.
LEMMA HoldAllocate ==
  ASSUME AllocatorInv, NEW r \in Request, r.type # Conventional, allocate_pages(r),
         NEW F, F \subseteq HeldBlock, NEW O, Hold(allocations, F, O)
  PROVE  /\ Hold(allocations', F, O)
         /\ ret'.status = "SUCCESS" =>
              /\ ret'.address \in Nat
              /\ r.how = "Address" => ret'.address = r.page
              /\ HasBlock(allocations', ret'.address, r.count, r.type)
              /\ Hold(allocations', F \cup {Held(ret'.address, r.count, r.type)}, O)
              /\ r.count > 0 /\ r.type = LoaderData =>
                   Hold(allocations', F, O \cup {ret'.address}) /\ ret'.address \notin O
<1>. DEFINE A == allocations
            B == allocations'
            a == ret'.address
<1>0. LoaderData # Conventional /\ r.count \in Nat
  BY HandoffAssumption DEF Request
<1>1. /\ StayPut(A, B)
      /\ ret'.status = "SUCCESS" =>
           /\ a \in Nat
           /\ HasBlock(B, a, r.count, r.type)
           /\ r.how = "Address" => a = r.page
           /\ r.count > 0 => \A s \in InUse(A) : A[s].type # Conventional /\ A[s].pages > 0 => A[s].start # a
  BY AllocateKeeps
<1>. HIDE DEF B, a
<1>2. \A b \in F : b.type # Conventional /\ b.count \in Nat
  BY DEF HeldBlock
<1>3. \A b \in F : b.count > 0 => HasBlock(B, b.page, b.count, b.type) /\ b.page \notin O
  BY <1>1, <1>2, StillThere DEF Hold
<1>4. \A p \in O : \E n \in Nat \ {0} : HasBlock(B, p, n, LoaderData)
  BY <1>0, <1>1, StillThere DEF Hold
<1>5. Hold(B, F, O)
  BY <1>3, <1>4 DEF Hold
<1>6. ASSUME ret'.status = "SUCCESS"
      PROVE  /\ Hold(B, F \cup {Held(a, r.count, r.type)}, O)
             /\ r.count > 0 /\ r.type = LoaderData => Hold(B, F, O \cup {a}) /\ a \notin O
  <2>1. r.count > 0 => a \notin O
    <3>. SUFFICES ASSUME r.count > 0, a \in O PROVE FALSE
      OBVIOUS
    <3>1. PICK n \in Nat \ {0} : HasBlock(A, a, n, LoaderData)
      BY DEF Hold
    <3>2. PICK s \in InUse(A) : A[s].start = a /\ A[s].pages = n /\ A[s].type = LoaderData
      BY <3>1 DEF HasBlock
    <3>3. A[s].pages > 0
      BY <3>2
    <3>. QED BY <1>0, <1>1, <1>6, <3>2, <3>3
  <2>2. r.count > 0 => \A b \in F : b.count > 0 => b.page # a
    <3>. SUFFICES ASSUME r.count > 0, NEW b \in F, b.count > 0, b.page = a PROVE FALSE
      OBVIOUS
    <3>1. PICK s \in InUse(A) : A[s].start = a /\ A[s].pages = b.count /\ A[s].type = b.type
      BY DEF Hold, HasBlock
    <3>. QED BY <1>1, <1>2, <1>6, <3>1
  <2>3. Hold(B, F \cup {Held(a, r.count, r.type)}, O)
    <3>. DEFINE h == Held(a, r.count, r.type)
    <3>1. h.page = a /\ h.count = r.count /\ h.type = r.type
      BY DEF Held
    <3>. HIDE DEF h
    <3>2. h.count > 0 => HasBlock(B, h.page, h.count, h.type) /\ h.page \notin O
      BY <1>1, <1>6, <2>1, <3>1
    <3>3. Hold(B, F \cup {h}, O)
      BY <1>3, <1>4, <3>2 DEF Hold
    <3>. QED BY <3>3 DEF h
  <2>4. ASSUME r.count > 0, r.type = LoaderData PROVE Hold(B, F, O \cup {a})
    <3>1. r.count \in Nat \ {0} /\ HasBlock(B, a, r.count, LoaderData)
      BY <1>0, <1>1, <1>6, <2>4
    <3>2. \A b \in F : b.count > 0 => b.page \notin O \cup {a}
      BY <1>3, <2>2, <2>4
    <3>. QED BY <1>3, <1>4, <3>1, <3>2 DEF Hold
  <2>. QED BY <2>1, <2>3, <2>4
<1>. QED BY <1>1, <1>5, <1>6 DEF B, a

\* A free of a page of O leaves the rest held.
LEMMA HoldFree ==
  ASSUME AllocatorInv, NEW p, free_pages(p), NEW F, F \subseteq HeldBlock, NEW O, p \in O,
         Hold(allocations, F, O)
  PROVE  Hold(allocations', F, O \ {p})
<1>0. LoaderData # Conventional
  BY HandoffAssumption
<1>1. ASSUME NEW b \in F, b.count > 0
      PROVE  HasBlock(allocations', b.page, b.count, b.type) /\ b.page \notin O \ {p}
  <2>1. HasBlock(allocations, b.page, b.count, b.type) /\ b.page \notin O /\ b.type # Conventional
    BY <1>1 DEF Hold, HeldBlock
  <2>2. b.page # p
    BY <2>1
  <2>. QED BY <2>1, <2>2, FreeKeeps
<1>2. ASSUME NEW q \in O \ {p} PROVE \E n \in Nat \ {0} : HasBlock(allocations', q, n, LoaderData)
  <2>1. PICK n \in Nat \ {0} : HasBlock(allocations, q, n, LoaderData)
    BY DEF Hold
  <2>2. HasBlock(allocations', q, n, LoaderData)
    BY <1>0, <2>1, FreeKeeps
  <2>. QED BY <2>2
<1>. QED BY <1>1, <1>2 DEF Hold

-----------------------------------------------------------------------------
(* The start-up *)

\* A step of the start-up that allocates keeps the invariant, if it holds no more than it got.
LEMMA StartAllocates ==
  ASSUME MemoryInv, phase # "loader", UNCHANGED client, NEW r \in Request, r.type # Conventional,
         allocate_pages(r), StartType', PhaseInv',
         ret'.status = "SUCCESS" => Fixed' \subseteq Fixed \cup {Held(ret'.address, r.count, r.type)},
         ret'.status # "SUCCESS" => Fixed' \subseteq Fixed
  PROVE  MemoryInv'
<1>. DEFINE O == client.owned \cup client.files
<1>1. AllocatorInv'
  BY AllocateInv DEF MemoryInv
<1>2. Fixed \subseteq HeldBlock /\ Hold(allocations, Fixed, O)
  BY FixedType DEF MemoryInv
<1>. HIDE DEF O
<1>3. /\ Hold(allocations', Fixed, O)
      /\ ret'.status = "SUCCESS" => Hold(allocations', Fixed \cup {Held(ret'.address, r.count, r.type)}, O)
  BY <1>2, HoldAllocate DEF MemoryInv
<1>4. Hold(allocations', Fixed', O)
  BY <1>3, HoldFewer
<1>5. client.at = "idle"
  BY DEF MemoryInv, PhaseInv
<1>6. MapInv'
  BY <1>5 DEF MapInv
<1>7. (client \in ClientType)' /\ (client.owned \cap client.files = {})'
  BY DEF MemoryInv
<1>. QED BY <1>1, <1>4, <1>6, <1>7 DEF MemoryInv, O

\* So does one that does not touch the memory.
LEMMA StartRests ==
  ASSUME MemoryInv, phase # "loader", UNCHANGED <<vars, client>>, StartType', PhaseInv', Fixed' \subseteq Fixed
  PROVE  MemoryInv'
<1>1. AllocatorInv'
  BY DEF MemoryInv, AllocatorInv, TypeOK, ListedIsInUse, BlocksDisjoint, PagesConserved, Booting, vars
<1>2. Hold(allocations', Fixed', client.owned \cup client.files)
  BY HoldFewer DEF MemoryInv, vars
<1>3. client.at = "idle"
  BY DEF MemoryInv, PhaseInv
<1>4. MapInv'
  BY <1>3 DEF MapInv
<1>5. (client \in ClientType)' /\ (client.owned \cap client.files = {})'
  BY DEF MemoryInv
<1>. QED BY <1>1, <1>2, <1>4, <1>5 DEF MemoryInv

LEMMA TakeOver ==
  ASSUME MemoryInv, take_over, UNCHANGED client
  PROVE  MemoryInv'
<1>1. /\ phase = "memory" /\ phase' \in {"memory", "reserve"}
      /\ UNCHANGED <<hobs, statuses, copy, wrappers>>
  BY DEF take_over
<1>2. /\ client.at = "idle" /\ client.owned = {} /\ client.files = {}
      /\ statuses = << >> /\ copy = Null /\ wrappers = {}
  BY <1>1 DEF MemoryInv, PhaseInv
<1>3. StartType' /\ PhaseInv'
  BY <1>1, <1>2 DEF MemoryInv, StartType, PhaseInv, Calls
<1>4. Fixed' = {}
  BY <1>1, <1>2 DEF Fixed
<1>5. Hold(allocations', Fixed', (client.owned \cup client.files)')
  BY <1>2, <1>4 DEF Hold
<1>6. MapInv'
  BY <1>2 DEF MapInv
<1>7. AllocatorInv'
  <2>1. CASE add_initial_allocation
    BY <2>1, AddInitial DEF MemoryInv
  <2>2. CASE UNCHANGED vars
    BY <2>2 DEF MemoryInv, AllocatorInv, TypeOK, ListedIsInUse, BlocksDisjoint, PagesConserved, Booting, vars
  <2>. QED BY <2>1, <2>2 DEF take_over
<1>8. (client \in ClientType)' /\ (client.owned \cap client.files = {})'
  BY DEF MemoryInv
<1>. QED BY <1>3, <1>5, <1>6, <1>7, <1>8 DEF MemoryInv

LEMMA Reserve ==
  ASSUME MemoryInv, reserve, UNCHANGED client
  PROVE  MemoryInv'
<1>1. /\ phase = "reserve" /\ phase' \in {"reserve", "relocate"}
      /\ UNCHANGED <<hobs, copy, wrappers>>
  BY DEF reserve
<1>2. Calls' = Calls
  BY <1>1 DEF Calls
<1>3. statuses \in Seq(Statuses) /\ Len(statuses) <= Len(Calls) /\ hobs \in HobLists
  BY DEF MemoryInv, StartType
<1>4. Calls \in Seq([how : {"Address"}, type : Types \ {Conventional}, count : Nat, page : Nat, aligned : BOOLEAN])
  BY <1>3, HandoffAssumption DEF Calls
<1>5. PhaseInv'
  BY <1>1 DEF MemoryInv, PhaseInv
<1>6. CASE UNCHANGED <<vars, statuses>>
  <2>1. StartType'
    BY <1>1, <1>2, <1>6 DEF MemoryInv, StartType
  <2>2. Fixed' = Fixed
    BY <1>1, <1>2, <1>6 DEF Fixed
  <2>. QED BY <1>1, <1>5, <1>6, <2>1, <2>2, StartRests
<1>7. CASE /\ Len(statuses) < Len(Calls) /\ allocate_pages(Calls[Len(statuses) + 1])
           /\ statuses' = Append(statuses, ret'.status)
  <2>. DEFINE k == Len(statuses) + 1
              r == Calls[k]
  <2>1. k \in Nat /\ k \in 1 .. Len(Calls)
    BY <1>3, <1>4, <1>7
  <2>2. r \in Request /\ r.how = "Address" /\ r.type # Conventional
    BY <1>3, <2>1, CallIs DEF Calls
  <2>. HIDE DEF r
  <2>3. allocate_pages(r) /\ k = Len(statuses) + 1
    BY <1>7 DEF r
  <2>4. AllocatorInv'
    BY <2>2, <2>3, AllocateInv DEF MemoryInv
  <2>5. ret'.status \in Statuses
    BY <2>4 DEF AllocatorInv, TypeOK
  <2>6. statuses' \in Seq(Statuses) /\ Len(statuses') = k /\ statuses'[k] = ret'.status
        /\ \A i \in 1 .. Len(statuses) : statuses'[i] = statuses[i]
    BY <1>3, <1>7, <2>5
  <2>7. StartType'
    BY <1>1, <1>2, <1>4, <2>1, <2>6 DEF MemoryInv, StartType
  <2>8. ret'.status = "SUCCESS" => r.page = ret'.address
    BY <2>2, <2>3, AllocateKeeps DEF MemoryInv
  <2>9. DOMAIN statuses = 1 .. Len(statuses) /\ DOMAIN statuses' = 1 .. k
    BY <1>3, <2>6
  <2>10. \A i \in 1 .. k : i = k \/ i \in 1 .. Len(statuses)
    BY <1>3, <2>3
  <2>. DEFINE Won(s) == {j \in DOMAIN s : s[j] = "SUCCESS"}
              Rest == {Held(c.page, c.pages, BootServicesData) : c \in {copy} \ {Null}}
                        \cup {Held(w, 1, LoaderData) : w \in wrappers}
  <2>11. /\ Fixed = {Held(Calls[i].page, Calls[i].count, Calls[i].type) : i \in Won(statuses)} \cup Rest
         /\ Fixed' = {Held(Calls[i].page, Calls[i].count, Calls[i].type) : i \in Won(statuses')} \cup Rest
    BY <1>1, <1>2 DEF Fixed
  <2>. HIDE DEF Rest, k
  <2>12. /\ ret'.status = "SUCCESS" => Won(statuses') \subseteq Won(statuses) \cup {k}
         /\ ret'.status # "SUCCESS" => Won(statuses') \subseteq Won(statuses)
    BY <2>6, <2>9, <2>10
  <2>. HIDE DEF Won
  <2>13. ret'.status # "SUCCESS" => Fixed' \subseteq Fixed
    BY <2>11, <2>12
  <2>14. ret'.status = "SUCCESS" => Fixed' \subseteq Fixed \cup {Held(ret'.address, r.count, r.type)}
    BY <2>8, <2>11, <2>12 DEF r
  <2>. QED BY <1>1, <1>5, <2>2, <2>3, <2>7, <2>13, <2>14, StartAllocates
<1>. QED BY <1>6, <1>7 DEF reserve, Calls

\* The pages for so many bytes.
LEMMA PagesEnough ==
  ASSUME NEW size \in Nat
  PROVE  /\ PagesFor(size) \in Nat /\ size <= PagesFor(size) * PageSize
         /\ size > 0 => PagesFor(size) > 0
<1>1. PageSize \in Nat \ {0}
  BY HandoffAssumption
<1>. DEFINE x == size + PageSize - 1
            q == x \div PageSize
<1>2. x \in Nat
  BY <1>1
<1>. HIDE DEF x
<1>3. q \in Nat /\ x = PageSize * q + (x % PageSize) /\ x % PageSize \in 0 .. PageSize - 1
  BY <1>1, <1>2
<1>. HIDE DEF q
<1>4. PageSize * q \in Nat /\ PageSize * q = q * PageSize
  BY <1>1, <1>3
<1>5. size <= q * PageSize
  BY <1>1, <1>3, <1>4 DEF x
<1>6. size > 0 => q > 0
  <2>. SUFFICES ASSUME size > 0, q = 0 PROVE FALSE
    BY <1>3
  <2>1. q * PageSize = 0
    BY <1>1
  <2>. QED BY <1>5, <2>1
<1>7. PagesFor(size) = q
  BY DEF PagesFor, x, q
<1>. QED BY <1>3, <1>5, <1>6, <1>7

\* The copy has as many blocks as its size says.
LEMMA CopySize ==
  ASSUME NEW h \in HobLists
  PROVE  LET total == get_hob_total_size(h)
         IN  /\ total \in Nat
             /\ Len(SubSeq(h.list, 1, total \div HobSize)) * HobSize = total
<1>. DEFINE list == h.list
            E == {i \in DOMAIN list : list[i].type = "END_OF_HOB_LIST"}
            e == Min(E)
            k == Len(UpToEnd(list)) + IF h.marked THEN 1 ELSE 0
<1>1. /\ list \in Seq(Range(list)) /\ h.marked \in BOOLEAN /\ HobSize \in Nat \ {0}
      /\ E # {}
  BY HandoffAssumption
<1>. HIDE DEF list
<1>2. DOMAIN list = 1 .. Len(list) /\ Len(list) \in Nat
  BY <1>1
<1>3. E \in SUBSET Nat
  BY <1>2
<1>4. e \in E
  <2>. HIDE DEF E
  <2>. QED BY <1>1, <1>3, MinIsLeast
<1>5. e \in 1 .. Len(list)
  BY <1>2, <1>4
<1>6. UpToEnd(list) = SubSeq(list, 1, e - 1)
  BY DEF UpToEnd
<1>. HIDE DEF e
<1>7. \A n \in 0 .. Len(list) : Len(SubSeq(list, 1, n)) = n
  BY <1>1, <1>2
<1>8. e - 1 \in 0 .. Len(list)
  BY <1>2, <1>5
<1>9. k \in 0 .. Len(list)
  <2>1. Len(UpToEnd(list)) = e - 1
    BY <1>6, <1>7, <1>8
  <2>. QED BY <1>1, <1>2, <1>5, <2>1
<1>. HIDE DEF k
<1>10. k \in Nat /\ HobSize * k = k * HobSize + 0 /\ HobSize * k \in Nat /\ 0 \in 0 .. HobSize - 1
  BY <1>1, <1>2, <1>9
<1>11. (k * HobSize + 0) \div HobSize = k
  BY <1>1, <1>10, Divided
<1>12. get_hob_total_size(h) = HobSize * k
  BY DEF get_hob_total_size, k, list
<1>13. Len(SubSeq(list, 1, k)) = k
  BY <1>7, <1>9
<1>14. k * HobSize = HobSize * k
  BY <1>1, <1>10
<1>. QED BY <1>10, <1>11, <1>12, <1>13, <1>14 DEF list

LEMMA RelocateHob ==
  ASSUME MemoryInv, relocate_hob, UNCHANGED client
  PROVE  MemoryInv'
<1>. DEFINE total == get_hob_total_size(hobs)
            r == AnyPages(BootServicesData, PagesFor(total))
<1>1. /\ phase = "relocate" /\ phase' = "disk" /\ allocate_pages(r)
      /\ UNCHANGED <<hobs, statuses, wrappers>>
      /\ copy' = IF ret'.status = "SUCCESS"
                 THEN [page |-> ret'.address, pages |-> r.count, list |-> SubSeq(hobs.list, 1, total \div HobSize)]
                 ELSE Null
  BY DEF relocate_hob
<1>2. hobs \in HobLists
  BY DEF MemoryInv, StartType
<1>3. total \in Nat /\ Len(SubSeq(hobs.list, 1, total \div HobSize)) * HobSize = total
  BY <1>2, CopySize
<1>. HIDE DEF total
<1>4. PagesFor(total) \in Nat /\ total <= PagesFor(total) * PageSize
  BY <1>3, PagesEnough
<1>5. r \in Request /\ r.type = BootServicesData /\ r.count = PagesFor(total) /\ r.type # Conventional
  BY <1>4, HandoffAssumption DEF AnyPages, Request
<1>. HIDE DEF r
<1>6. AllocatorInv'
  BY <1>1, <1>5, AllocateInv DEF MemoryInv
<1>7. ret'.address \in Nat
  BY <1>6 DEF AllocatorInv, TypeOK
<1>8. Calls' = Calls
  BY <1>1 DEF Calls
<1>9. copy' # Null => /\ ret'.status = "SUCCESS"
                      /\ copy'.page = ret'.address /\ copy'.pages = r.count
                      /\ copy'.list = SubSeq(hobs.list, 1, total \div HobSize)
  BY <1>1
<1>10. StartType'
  BY <1>1, <1>3, <1>4, <1>5, <1>7, <1>8, <1>9 DEF MemoryInv, StartType
<1>11. PhaseInv'
  BY <1>1 DEF MemoryInv, PhaseInv
<1>. DEFINE Mine(x) == {Held(c.page, c.pages, BootServicesData) : c \in {x} \ {Null}}
<1>12. Fixed' \subseteq Fixed \cup Mine(copy')
  BY <1>1, <1>8 DEF Fixed
<1>13. copy' = Null => Mine(copy') = {}
  OBVIOUS
<1>14. copy' # Null => Mine(copy') = {Held(ret'.address, r.count, r.type)}
  BY <1>5, <1>9
<1>. HIDE DEF Mine
<1>15. /\ ret'.status = "SUCCESS" => Fixed' \subseteq Fixed \cup {Held(ret'.address, r.count, r.type)}
       /\ ret'.status # "SUCCESS" => Fixed' \subseteq Fixed
  BY <1>9, <1>12, <1>13, <1>14
<1>. QED BY <1>1, <1>5, <1>10, <1>11, <1>15, StartAllocates

LEMMA StartDisk ==
  ASSUME MemoryInv, start_disk, UNCHANGED client
  PROVE  MemoryInv'
<1>1. /\ phase = "disk" /\ phase' \in {"stopped", "disk", "astray", "search"}
      /\ UNCHANGED <<hobs, statuses, copy>>
  BY DEF start_disk
<1>2. Calls' = Calls
  BY <1>1 DEF Calls
<1>3. PhaseInv'
  BY <1>1 DEF MemoryInv, PhaseInv
<1>4. CASE UNCHANGED <<vars, wrappers>>
  <2>1. StartType' /\ Fixed' = Fixed
    BY <1>1, <1>2, <1>4 DEF MemoryInv, StartType, Fixed
  <2>. QED BY <1>1, <1>3, <1>4, <2>1, StartRests
<1>5. CASE /\ allocate_pages(AnyPages(LoaderData, 1))
           /\ wrappers' = IF ret'.status = "SUCCESS" THEN wrappers \cup {ret'.address} ELSE wrappers
  <2>. DEFINE r == AnyPages(LoaderData, 1)
  <2>1. r \in Request /\ r.type = LoaderData /\ r.count = 1 /\ r.type # Conventional
    BY HandoffAssumption DEF AnyPages, Request
  <2>2. allocate_pages(r)
    BY <1>5
  <2>. HIDE DEF r
  <2>3. AllocatorInv'
    BY <2>1, <2>2, AllocateInv DEF MemoryInv
  <2>4. ret'.address \in Nat
    BY <2>3 DEF AllocatorInv, TypeOK
  <2>5. StartType'
    BY <1>1, <1>2, <1>5, <2>4 DEF MemoryInv, StartType
  <2>6. /\ ret'.status = "SUCCESS" => Fixed' \subseteq Fixed \cup {Held(ret'.address, r.count, r.type)}
        /\ ret'.status # "SUCCESS" => Fixed' \subseteq Fixed
    BY <1>1, <1>2, <1>5, <2>1 DEF Fixed
  <2>. QED BY <1>1, <1>3, <2>1, <2>2, <2>5, <2>6, StartAllocates
<1>. QED BY <1>4, <1>5 DEF start_disk

\* Where the search goes.
LEMMA SearchPhase ==
  ASSUME find_image_in_fv \/ get_image_from_fv \/ get_image_from_sections
  PROVE  phase' \in {"search", "astray", "panic", "none", "loader"}
<1>1. phase = "search"
  BY DEF find_image_in_fv, get_image_from_fv, get_image_from_sections, Searching
<1>2. CASE find_image_in_fv
  <2>1. \/ phase' = "astray" 
        \/ CASE copy.list[search.hob].type = "FV" -> phase' = IF copy.list[search.hob].signature THEN "search" ELSE "panic"
             [] copy.list[search.hob].type = "END_OF_HOB_LIST" -> phase' = "none"
             [] OTHER -> UNCHANGED phase
    BY <1>2 DEF find_image_in_fv
  <2>. QED BY <1>1, <2>1
<1>3. CASE get_image_from_fv
  BY <1>1, <1>3 DEF get_image_from_fv
<1>4. CASE get_image_from_sections
  BY <1>1, <1>4 DEF get_image_from_sections
<1>. QED BY <1>2, <1>3, <1>4

\* The search only reads.
LEMMA Search ==
  ASSUME MemoryInv, find_image_in_fv \/ get_image_from_fv \/ get_image_from_sections, UNCHANGED client
  PROVE  MemoryInv'
<1>1. phase = "search" /\ UNCHANGED <<vars, hobs, statuses, copy, wrappers>>
  BY DEF find_image_in_fv, get_image_from_fv, get_image_from_sections, Searching
<1>2. phase' \in {"search", "astray", "panic", "none", "loader"}
  BY SearchPhase
<1>3. PhaseInv'
  BY <1>1, <1>2 DEF MemoryInv, PhaseInv
<1>4. StartType' /\ Fixed' = Fixed
  BY <1>1 DEF MemoryInv, StartType, Fixed, Calls
<1>. QED BY <1>1, <1>3, <1>4, StartRests

-----------------------------------------------------------------------------
(* The image *)

\* The image's steps leave the start-up's state alone.
LEMMA StartStays ==
  ASSUME MemoryInv, UNCHANGED hvars, phase = "loader"
  PROVE  StartType' /\ PhaseInv' /\ Fixed' = Fixed /\ Fixed \subseteq HeldBlock
<1>1. StartType' /\ PhaseInv' /\ Fixed' = Fixed
  BY DEF MemoryInv, StartType, PhaseInv, Fixed, Calls, hvars
<1>. QED BY <1>1, FixedType DEF MemoryInv

LEMMA CountType ==
  ASSUME AllocatorInv
  PROVE  get_descriptor_count(allocations, first_allocation) \in Nat
BY WalkDone, SlotsAssumption DEF AllocatorInv, TypeOK, ListedIsInUse

LEMMA SizeAnswer ==
  MapInto(0).size = get_descriptor_count(allocations, first_allocation)
BY DEF MapInto

\* A step of the image that leaves the memory alone.
LEMMA ImageRests ==
  ASSUME MemoryInv, UNCHANGED hvars, phase = "loader",
         UNCHANGED <<allocations, first_allocation, key, region>>, TypeOK', (client \in ClientType)',
         client'.owned = client.owned, client'.files = client.files, MapInv'
  PROVE  MemoryInv'
<1>1. AllocatorInv'
  BY DEF MemoryInv, AllocatorInv, ListedIsInUse, BlocksDisjoint, PagesConserved, Booting
<1>2. StartType' /\ PhaseInv' /\ Fixed' = Fixed
  BY StartStays
<1>. QED BY <1>1, <1>2 DEF MemoryInv

LEMMA AskSizeInv ==
  ASSUME MemoryInv, UNCHANGED hvars, phase = "loader", AskSize
  PROVE  MemoryInv'
<1>. DEFINE n == get_descriptor_count(allocations, first_allocation)
<1>1. n \in Nat /\ n + Slack \in Nat
  BY CountType, MemoryAssumption DEF MemoryInv
<1>. HIDE DEF n
<1>2. client \in ClientType /\ client' = [client EXCEPT !.at = "sized", !.room = n + Slack] /\ UNCHANGED vars
  BY SizeAnswer DEF AskSize, MemoryInv, n
<1>3. (client \in ClientType)' /\ client'.at = "sized" /\ client'.room = n + Slack
      /\ client'.owned = client.owned /\ client'.files = client.files
  BY <1>1, <1>2 DEF ClientType
<1>4. n' = n
  BY <1>2 DEF n, vars
<1>5. MapInv'
  BY <1>3, <1>4 DEF MapInv, n
<1>6. TypeOK' /\ UNCHANGED <<allocations, first_allocation, key, region>>
  BY <1>2 DEF MemoryInv, AllocatorInv, TypeOK, vars
<1>. QED BY <1>3, <1>5, <1>6, ImageRests

LEMMA ExitInv ==
  ASSUME MemoryInv, UNCHANGED hvars, phase = "loader", exit_boot_services
  PROVE  MemoryInv'
<1>1. /\ client \in ClientType /\ client' = [client EXCEPT !.at = "left"] /\ UNCHANGED vars
      /\ client.at = "mapped"
  BY DEF exit_boot_services, MemoryInv
<1>2. /\ (client \in ClientType)' /\ client'.at = "left"
      /\ client'.owned = client.owned /\ client'.files = client.files
      /\ client'.status = client.status /\ client'.map = client.map /\ client'.map_key = client.map_key
      /\ client'.buffer = client.buffer
  BY <1>1 DEF ClientType
<1>3. MapInv'
  BY <1>1, <1>2 DEF MemoryInv, MapInv, vars
<1>4. TypeOK' /\ UNCHANGED <<allocations, first_allocation, key, region>>
  BY <1>1 DEF MemoryInv, AllocatorInv, TypeOK, vars
<1>. QED BY <1>2, <1>3, <1>4, ImageRests

\* A file that is closed gives nothing back.
LEMMA FreeInvariant ==
  ASSUME MemoryInv, UNCHANGED hvars, phase = "loader", free
  PROVE  MemoryInv'
<1>1. /\ ret' = [status |-> "NOT_FOUND", address |-> 0]
      /\ UNCHANGED <<allocations, first_allocation, key, region, client>>
  BY DEF free
<1>2. TypeOK'
  BY <1>1 DEF MemoryInv, AllocatorInv, TypeOK, Statuses
<1>3. MapInv' /\ (client \in ClientType)'
  BY <1>1 DEF MemoryInv, MapInv
<1>. QED BY <1>1, <1>2, <1>3, ImageRests

\* The map an image gets has all of memory in it, and what it calls free is free.
LEMMA MapIs ==
  ASSUME AllocatorInv, NEW map, map = get_descriptors(allocations, first_allocation)
  PROVE  /\ map \in Seq(MapDescriptor)
         /\ UNION {Span(d) : d \in Range(map)} = RegionPages(region)
         /\ \A page, n, type : HasBlock(allocations, page, n, type) =>
              \E d \in Range(map) : d.start = page /\ d.type = type
         /\ \A d \in Range(map) : d.type = Conventional => \A p \in Span(d) : FreePage(allocations, p)
<1>. DEFINE A == allocations
            f == first_allocation
            n == get_descriptor_count(A, f)
            c == Turns(A, f)
<1>1. A \in [Slots -> Allocation] /\ Listed(A, f) /\ PagesOf(A) = RegionPages(region)
  BY DEF AllocatorInv, TypeOK, ListedIsInUse, PagesConserved
<1>2. Range(map) = {Descriptor(A[s]) : s \in InUse(A)}
  BY <1>1, Enumerated
<1>3. \A s \in InUse(A) : Descriptor(A[s]) \in MapDescriptor
  BY <1>1 DEF InUse, Allocation, Descriptor, MapDescriptor
<1>4. n \in 0 .. MaxAllocations /\ \A i \in 0 .. n - 1 : c[i] \in InUse(A)
  BY <1>1, WalkDone
<1>5. map = [i \in 1 .. n |-> Descriptor(A[c[i - 1]])]
  BY DEF get_descriptors
<1>. HIDE DEF n, c
<1>6. \A i \in 1 .. n : i - 1 \in 0 .. n - 1
  BY <1>4, SlotsAssumption
<1>7. map \in Seq(MapDescriptor)
  <2>1. n \in Nat
    BY <1>4, SlotsAssumption
  <2>2. \A i \in 1 .. n : Descriptor(A[c[i - 1]]) \in MapDescriptor
    BY <1>3, <1>4, <1>6
  <2>. QED BY <1>5, <2>1, <2>2
<1>8. \A s \in InUse(A) : /\ Descriptor(A[s]).start = A[s].start /\ Descriptor(A[s]).type = A[s].type
                          /\ Span(Descriptor(A[s])) = Block(A, s)
  <2>. SUFFICES ASSUME NEW s \in InUse(A)
                PROVE  /\ Descriptor(A[s]).start = A[s].start /\ Descriptor(A[s]).type = A[s].type
                       /\ Span(Descriptor(A[s])) = Block(A, s)
    OBVIOUS
  <2>1. /\ Descriptor(A[s]).start = A[s].start /\ Descriptor(A[s]).type = A[s].type
        /\ Descriptor(A[s]).pages = A[s].pages
    BY DEF Descriptor
  <2>2. A[s].start \in Nat /\ A[s].pages \in Nat
    BY <1>1 DEF InUse, Allocation
  <2>3. \A d : \A x, y \in Nat : d.start = x /\ d.pages = y => Span(d) = x .. x + y - 1
    BY SMT DEF Span
  <2>. QED BY <2>1, <2>2, <2>3 DEF Block, End
<1>9. UNION {Span(d) : d \in Range(map)} = PagesOf(A)
  BY <1>2, <1>8 DEF PagesOf
<1>10. \A page, k, type : HasBlock(A, page, k, type) => \E d \in Range(map) : d.start = page /\ d.type = type
  BY <1>2, <1>8 DEF HasBlock
<1>11. \A d \in Range(map) : d.type = Conventional => \A p \in Span(d) : FreePage(A, p)
  BY <1>2, <1>8 DEF FreePage
<1>. QED BY <1>1, <1>7, <1>9, <1>10, <1>11

LEMMA GetMapInv ==
  ASSUME MemoryInv, UNCHANGED hvars, phase = "loader", get_memory_map
  PROVE  MemoryInv'
<1>. DEFINE n == get_descriptor_count(allocations, first_allocation)
            map == get_descriptors(allocations, first_allocation)
<1>1. client.at = "pooled" /\ UNCHANGED vars /\ client \in ClientType
  BY DEF get_memory_map, MemoryInv
<1>2. n <= client.room /\ \E k : HasBlock(allocations, client.buffer, k, LoaderData)
  BY <1>1 DEF MemoryInv, MapInv
<1>3. n \in Nat /\ client.room \in Nat
  BY <1>1, CountType DEF MemoryInv, ClientType
<1>4. MapInto(client.room) = [status |-> "SUCCESS", size |-> n, map_key |-> key, map |-> map]
  <2>1. ~ (client.room < n)
    BY <1>2, <1>3
  <2>. QED BY <2>1 DEF MapInto
<1>5. /\ map \in Seq(MapDescriptor)
      /\ UNION {Span(d) : d \in Range(map)} = RegionPages(region)
      /\ \A page, k, type : HasBlock(allocations, page, k, type) =>
           \E d \in Range(map) : d.start = page /\ d.type = type
      /\ \A d \in Range(map) : d.type = Conventional => \A p \in Span(d) : FreePage(allocations, p)
  BY MapIs DEF MemoryInv
<1>. HIDE DEF map, n
<1>6. client' = [client EXCEPT !.at = "mapped", !.status = "SUCCESS", !.map = map, !.map_key = key]
  BY <1>4 DEF get_memory_map
<1>7. key \in Nat
  BY DEF MemoryInv, AllocatorInv, TypeOK
<1>8. /\ (client \in ClientType)' /\ client'.at = "mapped" /\ client'.status = "SUCCESS"
      /\ client'.map = map /\ client'.map_key = key /\ client'.buffer = client.buffer
      /\ client'.owned = client.owned /\ client'.files = client.files
  BY <1>1, <1>5, <1>6, <1>7 DEF ClientType
<1>9. \E d \in Range(map) : d.start = client.buffer /\ d.type = LoaderData
  BY <1>2, <1>5
<1>10. key <= key
  BY <1>7
<1>11. MapInv'
  BY <1>1, <1>5, <1>7, <1>8, <1>9, <1>10 DEF MapInv, vars
<1>12. TypeOK' /\ UNCHANGED <<allocations, first_allocation, key, region>>
  BY <1>1 DEF MemoryInv, AllocatorInv, TypeOK, vars
<1>. QED BY <1>8, <1>11, <1>12, ImageRests

\* What is known of the map stays so through an allocation, which changes the key, and
\* through a free, which makes nothing that was free anything else.
LEMMA MapStays ==
  ASSUME MemoryInv, client.at \in {"idle", "mapped"}, client'.at = client.at,
         client'.status = client.status, client'.map = client.map, client'.map_key = client.map_key,
         client'.buffer = client.buffer,
         (\E r \in Request : allocate_pages(r)) \/ (\E p : free_pages(p))
  PROVE  MapInv'
<1>. SUFFICES ASSUME client.at = "mapped" PROVE MapInv'
  BY DEF MapInv
<1>1. /\ client.status = "SUCCESS"
      /\ UNION {Span(d) : d \in Range(client.map)} = RegionPages(region)
      /\ \E d \in Range(client.map) : d.start = client.buffer /\ d.type = LoaderData
      /\ client.map_key \in Nat /\ client.map_key <= key
      /\ client.map_key = key =>
           \A d \in Range(client.map) : d.type = Conventional => \A p \in Span(d) : FreePage(allocations, p)
  BY DEF MemoryInv, MapInv
<1>2. key \in Nat /\ AllocatorInv
  BY DEF MemoryInv, AllocatorInv, TypeOK
<1>3. region' = region
  BY DEF allocate_pages, free_pages
<1>4. /\ client.map_key <= key'
      /\ client.map_key = key' =>
           \A d \in Range(client.map) : d.type = Conventional => \A p \in Span(d) : FreePage(allocations', p)
  <2>1. CASE \E r \in Request : allocate_pages(r)
    <3>1. key' = key + 1 \/ (key' = key /\ allocations' = allocations)
      BY <2>1 DEF allocate_pages
    <3>2. CASE key' = key + 1
      BY <1>1, <1>2, <3>2
    <3>3. CASE key' = key /\ allocations' = allocations
      BY <1>1, <3>3
    <3>. QED BY <3>1, <3>2, <3>3
  <2>2. CASE \E p : free_pages(p)
    <3>1. key' = key
      BY <2>2 DEF free_pages
    <3>2. \A p : FreePage(allocations, p) => FreePage(allocations', p)
      BY <1>2, <2>2, FreeStaysFree
    <3>. QED BY <1>1, <3>1, <3>2
  <2>. QED BY <2>1, <2>2
<1>. QED BY <1>1, <1>3, <1>4 DEF MapInv

\* A request of the image.
LEMMA ImageRequest ==
  ASSUME NEW n \in Nat
  PROVE  LET r == AnyPages(LoaderData, n)
         IN  r \in Request /\ r.type = LoaderData /\ r.count = n /\ r.type # Conventional /\ r.how = "Any"
BY HandoffAssumption DEF AnyPages, Request

\* A step of the image that allocates n pages and holds them if it got them.
LEMMA ImageAllocates ==
  ASSUME MemoryInv, UNCHANGED hvars, phase = "loader", NEW n \in Nat \ {0},
         allocate_pages(AnyPages(LoaderData, n)), (client \in ClientType)', MapInv',
         LET O == client.owned \cup client.files
             P == client'.owned \cup client'.files
         IN  P = O \/ (ret'.status = "SUCCESS" /\ P = O \cup {ret'.address}),
         ret'.address \notin client.owned \cup client.files => client'.owned \cap client'.files = {},
         (client'.owned = client.owned /\ client'.files = client.files) \/ ret'.status = "SUCCESS"
  PROVE  MemoryInv'
<1>. DEFINE r == AnyPages(LoaderData, n)
            O == client.owned \cup client.files
<1>1. r \in Request /\ r.type = LoaderData /\ r.count = n /\ r.type # Conventional
  BY ImageRequest
<1>. HIDE DEF r
<1>2. allocate_pages(r)
  BY DEF r
<1>3. AllocatorInv'
  BY <1>1, <1>2, AllocateInv DEF MemoryInv
<1>4. StartType' /\ PhaseInv' /\ Fixed' = Fixed /\ Fixed \subseteq HeldBlock
  BY StartStays
<1>5. Hold(allocations, Fixed, O) /\ client.owned \cap client.files = {}
  BY DEF MemoryInv
<1>. HIDE DEF O
<1>6. r.count > 0
  BY <1>1
<1>7. /\ Hold(allocations', Fixed, O)
      /\ ret'.status = "SUCCESS" => Hold(allocations', Fixed, O \cup {ret'.address}) /\ ret'.address \notin O
  BY <1>1, <1>2, <1>4, <1>5, <1>6, HoldAllocate DEF MemoryInv
<1>8. Hold(allocations', Fixed', client'.owned \cup client'.files)
  BY <1>4, <1>7 DEF O
<1>9. client'.owned \cap client'.files = {}
  BY <1>5, <1>7 DEF O
<1>. QED BY <1>3, <1>4, <1>8, <1>9 DEF MemoryInv

\* The buffer takes one slot at most, so that the map still fits into the room.
LEMMA AllocateBufferInv ==
  ASSUME MemoryInv, UNCHANGED hvars, phase = "loader", AllocateBuffer
  PROVE  MemoryInv'
<1>. DEFINE n == PagesFor(client.room * DescriptorSize)
            r == AnyPages(LoaderData, n)
            count == get_descriptor_count(allocations, first_allocation)
<1>1. client \in ClientType /\ client.at = "sized" /\ allocate_pages(r)
  BY DEF MemoryInv, AllocateBuffer
<1>2. client.room = count + Slack
  BY <1>1 DEF MemoryInv, MapInv
<1>3. count \in Nat
  BY CountType DEF MemoryInv
<1>. HIDE DEF count
<1>4. client.room \in Nat \ {0}
  BY <1>2, <1>3, MemoryAssumption
<1>5. client.room * DescriptorSize \in Nat /\ client.room * DescriptorSize > 0
  BY <1>4, MemoryAssumption
<1>6. n \in Nat \ {0}
  BY <1>5, PagesEnough
<1>. HIDE DEF n
<1>7. r \in Request /\ r.type = LoaderData /\ r.count = n /\ r.type # Conventional /\ r.how = "Any"
  BY <1>6, ImageRequest
<1>. HIDE DEF r
<1>8. AllocatorInv'
  BY <1>1, <1>7, AllocateInv DEF MemoryInv
<1>9. ret'.address \in Nat
  BY <1>8 DEF AllocatorInv, TypeOK
<1>10. client' = IF ret'.status = "SUCCESS" THEN [client EXCEPT !.at = "pooled", !.buffer = ret'.address]
                 ELSE [client EXCEPT !.at = "gave up"]
  BY DEF AllocateBuffer
<1>11. /\ client' \in ClientType /\ client'.owned = client.owned /\ client'.files = client.files
       /\ client'.room = client.room
       /\ ret'.status = "SUCCESS" => client'.at = "pooled" /\ client'.buffer = ret'.address
       /\ ret'.status # "SUCCESS" => client'.at = "gave up"
  BY <1>1, <1>9, <1>10 DEF ClientType
<1>12. count' <= count + 1
  <2>1. PICK new : InUse(allocations') \subseteq InUse(allocations) \cup {new}
    <3>1. CASE allocations' = allocations
      BY <3>1
    <3>2. ASSUME NEW dest \in Candidates(allocations, r),
                 AllocateWhole(r, dest) \/ AllocateFront(r, dest) \/ AllocateInside(r, dest)
          PROVE  \E new : InUse(allocations') \subseteq InUse(allocations) \cup {new}
      <4>1. Outcome(allocations, allocations', r, dest)
        BY <1>7, <3>2, Outcomes DEF MemoryInv, AllocatorInv, TypeOK
      <4>. QED BY <1>7, <4>1, AnySlots
    <3>. QED BY <1>1, <3>1, <3>2 DEF allocate_pages
  <2>2. /\ allocations \in [Slots -> Allocation] /\ Listed(allocations, first_allocation)
        /\ allocations' \in [Slots -> Allocation] /\ Listed(allocations', first_allocation')
    BY <1>8 DEF MemoryInv, AllocatorInv, TypeOK, ListedIsInUse
  <2>. QED BY <2>1, <2>2, CountGrows DEF count
<1>13. count' <= client'.room
  <2>1. count' \in Nat
    BY <1>8, WalkDone, SlotsAssumption DEF count, AllocatorInv, TypeOK, ListedIsInUse
  <2>2. \A x, y \in Nat : x <= y + 1 => x <= y + Slack
    BY MemoryAssumption
  <2>. QED BY <1>2, <1>3, <1>11, <1>12, <2>1, <2>2
<1>14. ret'.status = "SUCCESS" => HasBlock(allocations', ret'.address, n, LoaderData)
  BY <1>1, <1>7, AllocateKeeps DEF MemoryInv
<1>15. MapInv'
  BY <1>11, <1>13, <1>14 DEF MapInv, count
<1>16. AllocatorInv /\ client.owned \cap client.files = {}
  BY DEF MemoryInv
<1>. QED BY <1>1, <1>6, <1>11, <1>15, <1>16, ImageAllocates DEF r

LEMMA PoolInvariant ==
  ASSUME MemoryInv, UNCHANGED hvars, phase = "loader", NEW size \in PoolSizes, allocate_pool(size)
  PROVE  MemoryInv'
<1>. DEFINE n == PagesFor(size)
            r == AnyPages(LoaderData, n)
<1>1. client \in ClientType /\ client.at \in {"idle", "mapped"} /\ allocate_pages(r)
  BY DEF MemoryInv, allocate_pool, Free
<1>2. n \in Nat \ {0}
  BY MemoryAssumption, PagesEnough
<1>. HIDE DEF n
<1>3. r \in Request
  BY <1>2, ImageRequest
<1>4. ret'.address \in Nat
  BY <1>1, <1>3, AllocateInv DEF MemoryInv, AllocatorInv, TypeOK
<1>5. client' = IF ret'.status = "SUCCESS" THEN [client EXCEPT !.owned = @ \cup {ret'.address}] ELSE client
  BY DEF allocate_pool
<1>6. /\ client' \in ClientType /\ client'.files = client.files /\ client'.at = client.at
      /\ client'.status = client.status /\ client'.map = client.map /\ client'.map_key = client.map_key
      /\ client'.buffer = client.buffer
      /\ ret'.status = "SUCCESS" => client'.owned = client.owned \cup {ret'.address}
      /\ ret'.status # "SUCCESS" => client'.owned = client.owned
  BY <1>1, <1>4, <1>5 DEF ClientType
<1>7. MapInv'
  BY <1>1, <1>3, <1>6, MapStays
<1>8. client.owned \cap client.files = {}
  BY DEF MemoryInv
<1>. QED BY <1>1, <1>2, <1>6, <1>7, <1>8, ImageAllocates

LEMMA MallocInv ==
  ASSUME MemoryInv, UNCHANGED hvars, phase = "loader", malloc
  PROVE  MemoryInv'
<1>. DEFINE r == AnyPages(LoaderData, 1)
<1>1. client \in ClientType /\ client.at \in {"idle", "mapped"} /\ allocate_pages(r)
  BY DEF MemoryInv, malloc, Free
<1>2. 1 \in Nat \ {0}
  OBVIOUS
<1>3. r \in Request
  BY <1>2, ImageRequest
<1>4. ret'.address \in Nat
  BY <1>1, <1>3, AllocateInv DEF MemoryInv, AllocatorInv, TypeOK
<1>5. client' = IF ret'.status = "SUCCESS" THEN [client EXCEPT !.files = @ \cup {ret'.address}] ELSE client
  BY DEF malloc
<1>6. /\ client' \in ClientType /\ client'.owned = client.owned /\ client'.at = client.at
      /\ client'.status = client.status /\ client'.map = client.map /\ client'.map_key = client.map_key
      /\ client'.buffer = client.buffer
      /\ ret'.status = "SUCCESS" => client'.files = client.files \cup {ret'.address}
      /\ ret'.status # "SUCCESS" => client'.files = client.files
  BY <1>1, <1>4, <1>5 DEF ClientType
<1>7. MapInv'
  BY <1>1, <1>3, <1>6, MapStays
<1>8. client.owned \cap client.files = {}
  BY DEF MemoryInv
<1>. QED BY <1>1, <1>2, <1>6, <1>7, <1>8, ImageAllocates

LEMMA FreePoolInv ==
  ASSUME MemoryInv, UNCHANGED hvars, phase = "loader", NEW page \in client.owned, free_pool(page)
  PROVE  MemoryInv'
<1>1. /\ client \in ClientType /\ client.at \in {"idle", "mapped"} /\ free_pages(page)
      /\ client' = [client EXCEPT !.owned = @ \ {page}]
  BY DEF MemoryInv, free_pool, Free
<1>2. page \in Nat
  BY <1>1 DEF ClientType
<1>3. AllocatorInv'
  BY <1>1, <1>2, FreeInv DEF MemoryInv
<1>4. /\ client' \in ClientType /\ client'.files = client.files /\ client'.at = client.at
      /\ client'.status = client.status /\ client'.map = client.map /\ client'.map_key = client.map_key
      /\ client'.buffer = client.buffer /\ client'.owned = client.owned \ {page}
  BY <1>1 DEF ClientType
<1>5. MapInv'
  BY <1>1, <1>4, MapStays
<1>6. StartType' /\ PhaseInv' /\ Fixed' = Fixed /\ Fixed \subseteq HeldBlock
  BY StartStays
<1>. DEFINE O == client.owned \cup client.files
<1>7. Hold(allocations, Fixed, O) /\ page \in O /\ client.owned \cap client.files = {}
  BY DEF MemoryInv
<1>8. client'.owned \cup client'.files = O \ {page} /\ client'.owned \cap client'.files = {}
  BY <1>4, <1>7
<1>. HIDE DEF O
<1>9. Hold(allocations', Fixed, O \ {page})
  BY <1>1, <1>6, <1>7, HoldFree DEF MemoryInv
<1>10. Hold(allocations', Fixed', client'.owned \cup client'.files)
  BY <1>6, <1>8, <1>9
<1>. QED BY <1>3, <1>4, <1>5, <1>6, <1>8, <1>10 DEF MemoryInv

LEMMA MemoryStart == MemoryInit => MemoryInv
<1>. SUFFICES ASSUME MemoryInit PROVE MemoryInv
  OBVIOUS
<1>1. AllocatorInv
  BY InitInv DEF MemoryInit, HandoffInit
<1>2. /\ hobs \in HobLists /\ phase = "memory" /\ statuses = << >> /\ copy = Null /\ wrappers = {}
      /\ client = [at |-> "idle", room |-> 0, buffer |-> 0, status |-> Null, map |-> << >>,
                   map_key |-> Null, owned |-> {}, files |-> {}]
  BY DEF MemoryInit, HandoffInit, ClientInit
<1>3. << >> \in Seq(MapDescriptor)
  OBVIOUS
<1>4. client \in ClientType /\ client.at = "idle" /\ client.owned = {} /\ client.files = {}
  BY <1>2, <1>3 DEF ClientType
<1>5. Calls \in Seq([how : {"Address"}, type : Types \ {Conventional}, count : Nat, page : Nat, aligned : BOOLEAN])
  BY <1>2, HandoffAssumption DEF Calls
<1>6. StartType
  BY <1>2, <1>5 DEF StartType
<1>7. Fixed = {}
  BY <1>2 DEF Fixed
<1>8. Hold(allocations, Fixed, client.owned \cup client.files)
  BY <1>4, <1>7 DEF Hold
<1>9. PhaseInv /\ MapInv
  BY <1>2, <1>4 DEF PhaseInv, MapInv
<1>. QED BY <1>1, <1>4, <1>6, <1>8, <1>9 DEF MemoryInv

LEMMA MemoryStep == MemoryInv /\ [Starting \/ Running]_mvars => MemoryInv'
<1>. SUFFICES ASSUME MemoryInv, [Starting \/ Running]_mvars PROVE MemoryInv'
  OBVIOUS
<1>1. CASE Starting
  BY <1>1, TakeOver, Reserve, RelocateHob, StartDisk, Search DEF Starting, Startup
<1>2. CASE Running
  <2>1. phase = "loader" /\ UNCHANGED hvars /\ Client
    BY <1>2 DEF Running
  <2>. QED BY <2>1, AskSizeInv, AllocateBufferInv, GetMapInv, ExitInv, PoolInvariant, FreePoolInv,
              MallocInv, FreeInvariant DEF Client
<1>3. CASE UNCHANGED mvars
  <2>1. UNCHANGED <<allocations, first_allocation, key, region, ret, client>> /\ UNCHANGED hvars
    BY <1>3 DEF mvars, vars
  <2>2. AllocatorInv'
    BY <2>1 DEF MemoryInv, AllocatorInv, TypeOK, ListedIsInUse, BlocksDisjoint, PagesConserved, Booting
  <2>3. StartType' /\ PhaseInv' /\ Fixed' = Fixed
    BY <2>1 DEF MemoryInv, StartType, PhaseInv, Fixed, Calls, hvars
  <2>4. MapInv'
    BY <2>1 DEF MemoryInv, MapInv
  <2>. QED BY <2>1, <2>2, <2>3, <2>4 DEF MemoryInv
<1>. QED BY <1>1, <1>2, <1>3

\* What is held has its type.
LEMMA HeldHolds ==
  ASSUME NEW page \in Nat, NEW n \in Nat, NEW type, n > 0 => HasBlock(allocations, page, n, type)
  PROVE  Holds(page, n, type)
<1>. SUFFICES ASSUME NEW p \in page .. page + n - 1
              PROVE  \E s \in InUse(allocations) : p \in Block(allocations, s) /\ allocations[s].type = type
  BY DEF Holds
<1>1. n > 0
  OBVIOUS
<1>2. PICK s \in InUse(allocations) :
        allocations[s].start = page /\ allocations[s].pages = n /\ allocations[s].type = type
  BY <1>1 DEF HasBlock
<1>3. p \in Block(allocations, s)
  BY <1>2 DEF Block, End
<1>. QED BY <1>2, <1>3

-----------------------------------------------------------------------------
(* The reservations of an orderly list succeed *)

OrderInv ==
  Orderly(Calls) =>
    /\ \A i \in DOMAIN statuses : statuses[i] = "SUCCESS"
    /\ phase = "memory" =>
         /\ FirstSlots(allocations, region)
         /\ \A k \in 1 .. region :
              /\ allocations[k - 1].type = Conventional /\ allocations[k - 1].start = Regions[k].start
              /\ allocations[k - 1].pages = Regions[k].pages
    /\ phase = "reserve" =>
         /\ \E m \in Nat : m <= Len(Regions) + 2 * Len(statuses) /\ FirstSlots(allocations, m)
         /\ \A j \in Len(statuses) + 1 .. Len(Calls) : Covered(allocations, Calls[j])

\* What the start-up has reserved does not change in other steps.
LEMMA OrderRests ==
  ASSUME OrderInv, UNCHANGED <<hobs, statuses>>, phase' \notin {"memory", "reserve"}
  PROVE  OrderInv'
BY DEF OrderInv, Calls

LEMMA OrderRegion ==
  ASSUME MemoryInv, OrderInv, Orderly(Calls), phase = "memory", add_initial_allocation
  PROVE  /\ FirstSlots(allocations', region')
         /\ \A k \in 1 .. region' :
              /\ allocations'[k - 1].type = Conventional /\ allocations'[k - 1].start = Regions[k].start
              /\ allocations'[k - 1].pages = Regions[k].pages
<1>. DEFINE A == allocations
            B == allocations'
<1>0. /\ A \in [Slots -> Allocation] /\ region \in Nat /\ region < Len(Regions) /\ region' = region + 1
      /\ Listed(A, first_allocation) /\ Len(Regions) \in Nat
  BY RegionsAssumption DEF MemoryInv, AllocatorInv, TypeOK, ListedIsInUse, add_initial_allocation
<1>1. /\ FirstSlots(A, region)
      /\ \A k \in 1 .. region : /\ A[k - 1].type = Conventional /\ A[k - 1].start = Regions[k].start
                                /\ A[k - 1].pages = Regions[k].pages
  BY DEF OrderInv
<1>2. region < MaxAllocations
  <2>1. Len(Regions) + 2 * Len(Calls) <= MaxAllocations
    BY DEF Orderly
  <2>2. Len(Calls) \in Nat
    BY HandoffAssumption DEF MemoryInv, StartType, Calls
  <2>. QED BY <1>0, <2>1, <2>2, SlotsAssumption
<1>3. /\ find_free_allocation(A) = region /\ region # None /\ region \in Slots /\ region \notin InUse(A)
      /\ \A C : InUse(C) = InUse(A) \cup {region} => FirstSlots(C, region + 1)
  BY <1>0, <1>1, <1>2, NextSlot
<1>4. /\ \A s \in InUse(A) : s \in Slots
      /\ \A k \in 1 .. region : k - 1 \in Slots /\ k - 1 # region
  BY <1>0, <1>2, SlotsAssumption DEF InUse, Slots
<1>5. /\ \A s \in Slots : s # region =>
           /\ B[s].in_use = A[s].in_use /\ B[s].type = A[s].type /\ B[s].start = A[s].start
           /\ B[s].pages = A[s].pages
      /\ B[region].in_use /\ B[region].type = Conventional /\ B[region].start = Regions[region + 1].start
      /\ B[region].pages = Regions[region + 1].pages
  <2>1. CASE first_allocation = None
    <3>1. region = 0
      <4>1. InUse(A) = {}
        BY <1>0, <2>1 DEF Listed
      <4>2. region # 0 => 0 \in InUse(A)
        BY <1>0, <1>1, SlotsAssumption DEF FirstSlots, Slots
      <4>. QED BY <4>1, <4>2
    <3>. QED BY <1>0, <1>3, <2>1, <3>1 DEF add_initial_allocation
  <2>2. CASE first_allocation # None
    <3>1. PICK last \in InUse(A) :
            B = [A EXCEPT ![last] = [@ EXCEPT !.next = region],
                          ![region] = [in_use |-> TRUE, next |-> None, type |-> Conventional,
                                       start |-> Regions[region + 1].start, virt |-> A[region].virt,
                                       pages |-> Regions[region + 1].pages, attribute |-> {"WB"}]]
      BY <1>3, <2>2 DEF add_initial_allocation
    <3>2. last \in Slots /\ last # region
      BY <1>3, <1>4
    <3>. HIDE DEF B
    <3>. QED BY <1>0, <1>3, <3>1, <3>2 DEF Allocation
  <2>. QED BY <2>1, <2>2
<1>. HIDE DEF B
<1>6. InUse(B) = InUse(A) \cup {region}
  BY <1>3, <1>5 DEF InUse
<1>7. FirstSlots(B, region + 1)
  BY <1>3, <1>6
<1>8. ASSUME NEW k \in 1 .. region + 1
      PROVE  /\ B[k - 1].type = Conventional /\ B[k - 1].start = Regions[k].start
             /\ B[k - 1].pages = Regions[k].pages
  <2>1. CASE k = region + 1
    <3>1. k - 1 = region
      BY <1>0, <2>1
    <3>. QED BY <1>5, <2>1, <3>1
  <2>2. CASE k \in 1 .. region
    BY <1>1, <1>4, <1>5, <2>2
  <2>. QED BY <1>0, <2>1, <2>2
<1>. QED BY <1>0, <1>7, <1>8 DEF B

LEMMA OrderTakeOver ==
  ASSUME MemoryInv, OrderInv, take_over
  PROVE  OrderInv'
<1>1. phase = "memory" /\ UNCHANGED <<hobs, statuses>>
  BY DEF take_over
<1>2. Calls' = Calls /\ statuses = << >>
  BY <1>1 DEF Calls, MemoryInv, PhaseInv
<1>. SUFFICES ASSUME Orderly(Calls) PROVE OrderInv'
  BY <1>2 DEF OrderInv
<1>3. CASE add_initial_allocation /\ UNCHANGED phase
  <2>1. /\ FirstSlots(allocations', region')
        /\ \A k \in 1 .. region' :
             /\ allocations'[k - 1].type = Conventional /\ allocations'[k - 1].start = Regions[k].start
             /\ allocations'[k - 1].pages = Regions[k].pages
    BY <1>1, <1>3, OrderRegion
  <2>. QED BY <1>1, <1>2, <1>3, <2>1 DEF OrderInv
<1>4. CASE region = Len(Regions) /\ phase' = "reserve" /\ UNCHANGED vars
  <2>1. /\ FirstSlots(allocations, region)
        /\ \A k \in 1 .. region :
             /\ allocations[k - 1].type = Conventional /\ allocations[k - 1].start = Regions[k].start
             /\ allocations[k - 1].pages = Regions[k].pages
    BY <1>1 DEF OrderInv
  <2>2. region \in Nat /\ Len(statuses) = 0 /\ allocations' = allocations
    BY <1>2, <1>4 DEF MemoryInv, AllocatorInv, TypeOK, vars
  <2>3. Calls \in Seq([how : {"Address"}, type : Types \ {Conventional}, count : Nat, page : Nat, aligned : BOOLEAN])
    BY HandoffAssumption DEF Calls, MemoryInv, StartType
  <2>4. ASSUME NEW j \in 1 .. Len(Calls) PROVE Covered(allocations, Calls[j])
    <3>1. PICK k \in DOMAIN Regions : /\ Regions[k].start <= Calls[j].page
                                      /\ Calls[j].page + Calls[j].count <= Regions[k].start + Regions[k].pages
      <4>1. j \in DOMAIN Calls
        BY <2>3
      <4>. QED BY <4>1 DEF Orderly
    <3>2. k \in 1 .. region
      BY <1>4, RegionsAssumption
    <3>3. k - 1 \in InUse(allocations)
      <4>1. k - 1 \in Nat /\ k - 1 < region
        BY <2>2, <3>2
      <4>. QED BY <2>1, <2>2, <4>1, SlotsAssumption DEF FirstSlots, Slots
    <3>. QED BY <2>1, <3>1, <3>2, <3>3 DEF Covered, End
  <2>5. region <= Len(Regions) + 2 * Len(statuses)
    BY <1>4, <2>2
  <2>6. \A j \in Len(statuses) + 1 .. Len(Calls) : Covered(allocations, Calls[j])
    BY <2>2, <2>4
  <2>. QED BY <1>1, <1>2, <1>4, <2>1, <2>2, <2>5, <2>6 DEF OrderInv
<1>. QED BY <1>3, <1>4 DEF take_over

LEMMA OrderReserve ==
  ASSUME MemoryInv, OrderInv, reserve
  PROVE  OrderInv'
<1>1. phase = "reserve" /\ UNCHANGED hobs /\ Calls' = Calls
  BY DEF reserve, Calls
<1>2. CASE phase' = "relocate" /\ UNCHANGED statuses
  BY <1>1, <1>2, OrderRests
<1>3. CASE /\ Len(statuses) < Len(Calls) /\ allocate_pages(Calls[Len(statuses) + 1])
           /\ statuses' = Append(statuses, ret'.status) /\ UNCHANGED phase
  <2>. SUFFICES ASSUME Orderly(Calls) PROVE OrderInv'
    BY <1>1 DEF OrderInv
  <2>. DEFINE n == Len(statuses)
              r == Calls[n + 1]
              A == allocations
              B == allocations'
  <2>1. Calls \in Seq([how : {"Address"}, type : Types \ {Conventional}, count : Nat, page : Nat, aligned : BOOLEAN])
    BY HandoffAssumption DEF Calls, MemoryInv, StartType
  <2>2. statuses \in Seq(Statuses) /\ n \in Nat /\ Len(Calls) \in Nat /\ n + 1 \in 1 .. Len(Calls)
    BY <1>3, <2>1 DEF MemoryInv, StartType
  <2>3. \A j \in 1 .. Len(Calls) : Calls[j] \in Request
    BY CallIs DEF Calls, MemoryInv, StartType
  <2>4. r \in Request /\ r.how = "Address" /\ r.aligned /\ r.count > 0
    <3>1. r \in Request /\ r.how = "Address"
      BY <2>2, CallIs DEF Calls, MemoryInv, StartType
    <3>2. r.aligned /\ r.count > 0
      BY <2>1, <2>2 DEF Orderly
    <3>. QED BY <3>1, <3>2
  <2>5. PICK m \in Nat : m <= Len(Regions) + 2 * n /\ FirstSlots(A, m)
    BY <1>1 DEF OrderInv
  <2>6. \A j \in n + 1 .. Len(Calls) : Covered(A, Calls[j])
    BY <1>1 DEF OrderInv
  <2>7. Len(Regions) \in Nat /\ Len(Regions) + 2 * Len(Calls) <= MaxAllocations /\ MaxAllocations \in Nat
    BY RegionsAssumption, SlotsAssumption DEF Orderly
  <2>8. m + 2 <= MaxAllocations
    BY <2>2, <2>5, <2>7
  <2>9. allocate_pages(r)
    BY <1>3
  <2>10. Covered(A, r)
    <3>1. n + 1 \in n + 1 .. Len(Calls)
      BY <2>2
    <3>. QED BY <2>6, <3>1
  <2>. HIDE DEF n, r
  <2>11. Candidates(A, r) # {}
    <3>1. PICK s \in InUse(A) : A[s].type = Conventional /\ A[s].start <= r.page /\ r.page + r.count <= End(A, s)
      BY <2>10 DEF Covered
    <3>2. A[s].start \in Nat /\ End(A, s) \in Nat /\ r.page \in Nat /\ r.count \in Nat
      BY <2>4, BlockRange DEF MemoryInv, AllocatorInv, TypeOK, Request
    <3>3. Fits(A, r, s)
      BY <2>4, <3>1, <3>2 DEF Fits
    <3>. QED BY <3>3 DEF Candidates
  <2>12. PICK dest \in Candidates(A, r) :
           AllocateWhole(r, dest) \/ AllocateFront(r, dest) \/ AllocateInside(r, dest)
    BY <2>9, <2>11 DEF allocate_pages
  <2>13. A \in [Slots -> Allocation] /\ Outcome(A, B, r, dest)
    BY <2>4, <2>12, Outcomes DEF MemoryInv, AllocatorInv, TypeOK
  <2>14. /\ ret'.status = "SUCCESS"
         /\ \E k \in Nat : k <= m + 2 /\ FirstSlots(B, k)
         /\ \A q \in Request : q.count > 0 /\ Apart(q, r) /\ Covered(A, q) => Covered(B, q)
    BY <2>4, <2>5, <2>8, <2>13, ReserveBlocks
  <2>. HIDE DEF B
  <2>15. PICK k \in Nat : k <= m + 2 /\ FirstSlots(B, k)
    BY <2>14
  <2>16. Len(statuses') = n + 1 /\ \A i \in 1 .. n + 1 : statuses'[i] = "SUCCESS"
    <3>1. \A i \in DOMAIN statuses : statuses[i] = "SUCCESS"
      BY DEF OrderInv
    <3>2. statuses' = Append(statuses, "SUCCESS")
      BY <1>3, <2>14
    <3>3. "SUCCESS" \in Statuses
      BY DEF Statuses
    <3>. QED BY <2>2, <3>1, <3>2, <3>3 DEF n
  <2>17. DOMAIN statuses' = 1 .. n + 1
    <3>1. statuses' = Append(statuses, "SUCCESS") /\ "SUCCESS" \in Statuses
      BY <1>3, <2>14 DEF Statuses
    <3>. QED BY <2>2, <3>1 DEF n
  <2>18. k <= Len(Regions) + 2 * Len(statuses')
    BY <2>2, <2>5, <2>7, <2>15, <2>16
  <2>19. ASSUME NEW j \in Len(statuses') + 1 .. Len(Calls) PROVE Covered(B, Calls[j])
    <3>1. j \in n + 1 .. Len(Calls) /\ j \in 1 .. Len(Calls) /\ n + 1 < j
      BY <2>2, <2>16, <2>19
    <3>2. Calls[j] \in Request /\ Covered(A, Calls[j])
      BY <2>3, <2>6, <3>1
    <3>3. DOMAIN Calls = 1 .. Len(Calls)
      BY <2>1
    <3>4. Calls[j].count > 0 /\ Apart(Calls[j], r)
      BY <2>2, <3>1, <3>3 DEF Orderly, Apart, r
    <3>. QED BY <2>14, <3>2, <3>4
  <2>. QED BY <1>1, <1>3, <2>15, <2>16, <2>17, <2>18, <2>19 DEF OrderInv, B
<1>. QED BY <1>2, <1>3 DEF reserve, Calls

LEMMA OrderStep == MemoryInv /\ OrderInv /\ [Starting \/ Running]_mvars => OrderInv'
<1>. SUFFICES ASSUME MemoryInv, OrderInv, [Starting \/ Running]_mvars PROVE OrderInv'
  OBVIOUS
<1>1. CASE take_over
  BY <1>1, OrderTakeOver
<1>2. CASE reserve
  BY <1>2, OrderReserve
<1>3. CASE relocate_hob
  BY <1>3, OrderRests DEF relocate_hob
<1>4. CASE start_disk
  <2>1. phase' \in {"stopped", "disk", "astray", "search"} /\ UNCHANGED <<hobs, statuses>>
    BY <1>4 DEF start_disk
  <2>. QED BY <2>1, OrderRests
<1>5. CASE find_image_in_fv \/ get_image_from_fv \/ get_image_from_sections
  <2>1. phase' \notin {"memory", "reserve"}
    BY <1>5, SearchPhase
  <2>2. UNCHANGED <<hobs, statuses>>
    BY <1>5 DEF find_image_in_fv, get_image_from_fv, get_image_from_sections
  <2>. QED BY <2>1, <2>2, OrderRests
<1>6. CASE Running
  <2>1. phase' = "loader" /\ UNCHANGED <<hobs, statuses>>
    BY <1>6 DEF Running, hvars
  <2>. QED BY <2>1, OrderRests
<1>7. CASE UNCHANGED mvars
  <2>1. UNCHANGED <<allocations, region, hobs, statuses, phase>>
    BY <1>7 DEF mvars, vars, hvars
  <2>. QED BY <2>1 DEF OrderInv, Calls
<1>. QED BY <1>1, <1>2, <1>3, <1>4, <1>5, <1>6, <1>7 DEF Starting, Startup

LEMMA OrderStart == MemoryInit => OrderInv
<1>. SUFFICES ASSUME MemoryInit PROVE OrderInv
  OBVIOUS
<1>1. /\ allocations = [s \in Slots |-> Released([virt |-> 0])] /\ region = 0
      /\ phase = "memory" /\ statuses = << >>
  BY DEF MemoryInit, HandoffInit, Init
<1>2. InUse(allocations) = {}
  BY <1>1 DEF InUse, Released
<1>3. FirstSlots(allocations, 0)
  BY <1>2, SlotsAssumption DEF FirstSlots, Slots
<1>. QED BY <1>1, <1>3 DEF OrderInv

-----------------------------------------------------------------------------
\* The invariant, for any slots, regions, lists of hand-off blocks and sizes the image asks
\* for.
THEOREM MemoryInvariance == MemorySpec => [](MemoryInv /\ OrderInv)
<1>1. MemoryInit => MemoryInv /\ OrderInv
  BY MemoryStart, OrderStart
<1>2. MemoryInv /\ OrderInv /\ [Starting \/ Running]_mvars => MemoryInv' /\ OrderInv'
  BY MemoryStep, OrderStep
<1>. QED BY <1>1, <1>2, PTL DEF MemorySpec

\* Reservations, the copy of the hand-off blocks, wrappers and what the image got from
\* allocate_pool or malloc stay their owners', through all that enter_uefi and the image do.
THEOREM MemoryIsKept == MemorySpec => []MemoryKept
<1>1. MemoryInv /\ OrderInv => MemoryKept
  <2>. SUFFICES ASSUME MemoryInv, OrderInv PROVE MemoryKept
    OBVIOUS
  <2>. DEFINE O == client.owned \cup client.files
  <2>0. allocations \in [Slots -> Allocation] /\ Disjoint(allocations)
    BY DEF MemoryInv, AllocatorInv, TypeOK, BlocksDisjoint
  <2>1. /\ \A b \in Fixed : b.count > 0 => HasBlock(allocations, b.page, b.count, b.type) /\ b.page \notin O
        /\ \A p \in O : \E n \in Nat \ {0} : HasBlock(allocations, p, n, LoaderData)
    BY DEF MemoryInv, Hold
  <2>2. O \subseteq Nat /\ client.owned \cap client.files = {}
    BY DEF MemoryInv, ClientType
  <2>. HIDE DEF O
  <2>3. ASSUME NEW i \in DOMAIN statuses, statuses[i] = "SUCCESS"
        PROVE  Holds(Calls[i].page, Calls[i].count, Calls[i].type)
    <3>. DEFINE b == Held(Calls[i].page, Calls[i].count, Calls[i].type)
    <3>1. b \in Fixed
      BY <2>3 DEF Fixed
    <3>2. b.page = Calls[i].page /\ b.count = Calls[i].count /\ b.type = Calls[i].type
      BY DEF Held
    <3>3. b \in HeldBlock
      BY <3>1, FixedType DEF MemoryInv
    <3>. HIDE DEF b
    <3>4. b.page \in Nat /\ b.count \in Nat
      BY <3>3 DEF HeldBlock
    <3>. QED BY <2>1, <3>1, <3>2, <3>4, HeldHolds
  <2>4. ASSUME copy # Null
        PROVE  /\ copy.page \in Nat /\ copy.pages \in Nat /\ Len(copy.list) * HobSize <= copy.pages * PageSize
               /\ copy.pages > 0 => HasBlock(allocations, copy.page, copy.pages, BootServicesData) /\ copy.page \notin O
    <3>. DEFINE b == Held(copy.page, copy.pages, BootServicesData)
    <3>1. b \in Fixed
      BY <2>4 DEF Fixed
    <3>2. b.page = copy.page /\ b.count = copy.pages /\ b.type = BootServicesData
      BY DEF Held
    <3>. HIDE DEF b
    <3>3. /\ copy.page \in Nat /\ copy.pages \in Nat /\ Len(copy.list) * HobSize <= copy.pages * PageSize
      BY <2>4 DEF MemoryInv, StartType
    <3>. QED BY <2>1, <3>1, <3>2, <3>3
  <2>5. ASSUME NEW w \in wrappers PROVE Holds(w, 1, LoaderData) /\ w \notin O
    <3>. DEFINE b == Held(w, 1, LoaderData)
    <3>1. b \in Fixed
      BY DEF Fixed
    <3>2. b.page = w /\ b.count = 1 /\ b.type = LoaderData
      BY DEF Held
    <3>. HIDE DEF b
    <3>3. w \in Nat
      BY DEF MemoryInv, StartType
    <3>. QED BY <2>1, <3>1, <3>2, <3>3, HeldHolds
  <2>6. ASSUME NEW p \in O
        PROVE  \E s \in InUse(allocations) :
                 allocations[s].start = p /\ p \in Block(allocations, s) /\ allocations[s].type = LoaderData
    <3>1. PICK n \in Nat \ {0} : HasBlock(allocations, p, n, LoaderData)
      BY <2>1
    <3>2. PICK s \in InUse(allocations) :
            allocations[s].start = p /\ allocations[s].pages = n /\ allocations[s].type = LoaderData
      BY <3>1 DEF HasBlock
    <3>3. p \in Nat
      BY <2>2
    <3>4. p \in Block(allocations, s)
      BY <3>2, <3>3 DEF Block, End
    <3>. QED BY <3>2, <3>4
  <2>7. \A p \in O : Holds(p, 1, LoaderData)
    <3>. SUFFICES ASSUME NEW p \in O PROVE Holds(p, 1, LoaderData)
      OBVIOUS
    <3>1. p \in Nat
      BY <2>2
    <3>2. \A x \in p .. p + 1 - 1 : x = p
      BY <3>1
    <3>. QED BY <2>6, <3>2 DEF Holds
  <2>8. ASSUME copy # Null PROVE O \cap (copy.page .. copy.page + copy.pages - 1) = {}
    <3>. SUFFICES ASSUME NEW p \in O, p \in copy.page .. copy.page + copy.pages - 1 PROVE FALSE
      OBVIOUS
    <3>1. copy.page \in Nat /\ copy.pages \in Nat /\ copy.pages > 0
      BY <2>4, <2>8
    <3>2. HasBlock(allocations, copy.page, copy.pages, BootServicesData) /\ copy.page \notin O
      BY <2>4, <2>8, <3>1
    <3>3. PICK s \in InUse(allocations) : allocations[s].start = copy.page /\ allocations[s].pages = copy.pages
      BY <3>2 DEF HasBlock
    <3>4. p \in Block(allocations, s)
      BY <3>1, <3>3 DEF Block, End
    <3>5. PICK t \in InUse(allocations) : allocations[t].start = p /\ p \in Block(allocations, t)
      BY <2>6
    <3>6. s # t
      BY <3>2, <3>3, <3>5
    <3>. QED BY <2>0, <3>4, <3>5, <3>6 DEF Disjoint
  <2>9. copy # Null => Holds(copy.page, copy.pages, BootServicesData)
    BY <2>4, HeldHolds
  <2>10. ReservationsHold
    <3>1. Orderly(Calls) => \A i \in DOMAIN statuses : statuses[i] = "SUCCESS"
      BY DEF OrderInv
    <3>. QED BY <2>3, <2>4, <2>5, <2>9, <3>1 DEF ReservationsHold, Calls
  <2>. QED BY <2>2, <2>5, <2>7, <2>8, <2>10 DEF MemoryKept, O
<1>. QED BY <1>1, MemoryInvariance, PTL

\* An image that leaves room for one descriptor more gets the whole map with its second call,
\* and may trust what the map calls free as long as the key is the map's.
THEOREM MapIsUsable == MemorySpec => []MapUsable
<1>1. MemoryInv => MapUsable
  <2>. SUFFICES ASSUME MemoryInv, client.at \in {"mapped", "left"} PROVE MapUsable
    BY DEF MapUsable
  <2>1. /\ client.status = "SUCCESS"
        /\ UNION {Span(d) : d \in Range(client.map)} = RegionPages(region)
        /\ \E d \in Range(client.map) : d.start = client.buffer /\ d.type = LoaderData
        /\ client.map_key = key =>
             \A d \in Range(client.map) : d.type = Conventional => \A p \in Span(d) : FreePage(allocations, p)
    BY DEF MemoryInv, MapInv
  <2>2. PagesOf(allocations) = RegionPages(region)
    BY DEF MemoryInv, AllocatorInv, PagesConserved
  <2>. QED BY <2>1, <2>2 DEF MapUsable, Span, FreePage, Holds
<1>. QED BY <1>1, MemoryInvariance, PTL

=============================================================================
