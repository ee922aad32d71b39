-------------------------- MODULE AllocatorProofs --------------------------
(***************************************************************************)
(* Proofs about Allocator for every number of slots, list of regions and   *)
(* set of requests.  The inductive invariant is AllocatorInv: the type     *)
(* invariant, the list structure, disjointness of the blocks, conservation *)
(* of pages, and, while regions are still being handed over, which slots   *)
(* are in use.                                                             *)
(*                                                                         *)
(* The lemmas before it are about any slot array: finding a free slot,     *)
(* inserting it into the list and splitting a block; and the runs of       *)
(* adjacent free blocks, what merge_free_memory does to slots, links and   *)
(* pages.                                                                  *)
(*                                                                         *)
(* Then come the refinement of PagePool, what frees and the key promise,   *)
(* and lemmas for those who use the allocator: what a call does to the     *)
(* blocks of others (Outcome), that the walks of the list visit each block *)
(* once, and that the reservations of an orderly list find their place and *)
(* their slots.                                                            *)
(***************************************************************************)
EXTENDS AllocatorPages, NatLemmas

\* Every leaf is tried with Zenon, with the SMT solver, and with Zenon for longer.
USE ZenonT(2), SMTT(30), ZenonT(30)

-----------------------------------------------------------------------------
(* Slots *)

\* find_free_allocation returns the first slot not in use, or None when there
\* is none.
LEMMA FreeSlot ==
  ASSUME NEW A \in [Slots -> Allocation]
  PROVE  \/ InUse(A) = Slots /\ find_free_allocation(A) = None
         \/ /\ find_free_allocation(A) \in Slots
            /\ find_free_allocation(A) \notin InUse(A)
            /\ find_free_allocation(A) # None
            /\ \A j \in Slots \ InUse(A) : find_free_allocation(A) <= j
<1>1. CASE InUse(A) = Slots
  BY <1>1 DEF find_free_allocation
<1>2. CASE InUse(A) # Slots
  <2>1. Slots \ InUse(A) # {} /\ Slots \ InUse(A) \in SUBSET Nat
    BY <1>2, SlotsAssumption DEF InUse, Slots
  <2>2. \E i \in Slots \ InUse(A) : \A j \in Slots \ InUse(A) : i <= j
    BY <2>1, LeastNat, Zenon
  <2>3. find_free_allocation(A) =
          CHOOSE i \in Slots \ InUse(A) : \A j \in Slots \ InUse(A) : i <= j
    BY <1>2 DEF find_free_allocation
  <2>4. /\ find_free_allocation(A) \in Slots \ InUse(A)
        /\ \A j \in Slots \ InUse(A) : find_free_allocation(A) <= j
    BY <2>2, <2>3
  <2>5. None \notin Slots
    BY SlotsAssumption DEF Slots, None
  <2>. QED BY <2>4, <2>5
<1>. QED BY <1>1, <1>2

-----------------------------------------------------------------------------
(* Splitting *)

\* What split_allocation does to each slot.
LEMMA SplitSlots ==
  ASSUME NEW A \in [Slots -> Allocation], NEW o \in InUse(A), NEW n \in Nat,
         n <= A[o].pages, find_free_allocation(A) # None,
         NEW B, B = split_allocation(A, o, n),
         NEW new, new = find_free_allocation(A)
  PROVE  /\ new \in Slots \ InUse(A)
         /\ B \in [Slots -> Allocation]
         /\ InUse(B) = InUse(A) \cup {new}
         /\ B[o].next = new /\ B[o].type = A[o].type
         /\ B[o].start = A[o].start /\ B[o].pages = n
         /\ B[new].next = A[o].next /\ B[new].type = A[o].type
         /\ B[new].start = A[o].start + n /\ B[new].pages = A[o].pages - n
         /\ \A s \in Slots \ {o, new} : B[s] = A[s]
<1>1. new \in Slots \ InUse(A) /\ o \in Slots /\ o # new
  BY FreeSlot DEF InUse
<1>2. A[o] \in Allocation /\ A[new] \in Allocation
  BY <1>1
<1>3. B = [A EXCEPT ![new] = [in_use |-> TRUE,
                          next |-> A[o].next,
                          type |-> A[o].type,
                          start |-> A[o].start + n,
                          virt |-> A[new].virt,
                          pages |-> A[o].pages - n,
                          attribute |-> A[o].attribute],
                ![o] = [A[o] EXCEPT !.next = new, !.pages = n]]
  BY DEF split_allocation
<1>4. B[new] = [in_use |-> TRUE,
                          next |-> A[o].next,
                          type |-> A[o].type,
                          start |-> A[o].start + n,
                          virt |-> A[new].virt,
                          pages |-> A[o].pages - n,
                          attribute |-> A[o].attribute]
  BY <1>1, <1>3, Zenon
<1>5. B[o] = [A[o] EXCEPT !.next = new, !.pages = n]
  BY <1>1, <1>3
<1>6. \A s \in Slots \ {o, new} : B[s] = A[s]
  BY <1>1, <1>3
<1>7. B[new] \in Allocation /\ B[o] \in Allocation
  <2>1. /\ A[o].next \in Slots \cup {None} /\ A[o].type \in Types
        /\ A[o].start + n \in Nat /\ A[o].pages - n \in Nat
        /\ A[o].attribute \in SUBSET Attributes /\ A[new].virt \in Nat
    BY <1>2 DEF Allocation
  <2>2. B[new] \in Allocation
    BY <1>4, <2>1 DEF Allocation
  <2>3. B[o] \in Allocation
    BY <1>1, <1>2, <1>5, Zenon DEF Allocation
  <2>. QED BY <2>2, <2>3
<1>8. B \in [Slots -> Allocation]
  BY <1>1, <1>3, <1>6, <1>7
<1>9. /\ B[o].in_use = A[o].in_use /\ B[o].next = new /\ B[o].type = A[o].type
      /\ B[o].start = A[o].start /\ B[o].pages = n
  BY <1>2, <1>5 DEF Allocation
<1>10. InUse(B) = InUse(A) \cup {new}
  BY <1>1, <1>4, <1>6, <1>9 DEF InUse
<1>. QED BY <1>1, <1>4, <1>6, <1>8, <1>9, <1>10

\* The two halves of a split cover the block and nothing else.
LEMMA SplitBlocks ==
  ASSUME NEW A \in [Slots -> Allocation], NEW o \in InUse(A), NEW n \in Nat,
         n <= A[o].pages, find_free_allocation(A) # None,
         NEW B, B = split_allocation(A, o, n), Disjoint(A)
  PROVE  Disjoint(B) /\ PagesOf(B) = PagesOf(A)
<1>. DEFINE new == find_free_allocation(A)
<1>1. /\ new \in Slots \ InUse(A)
      /\ InUse(B) = InUse(A) \cup {new}
      /\ B[o].start = A[o].start /\ B[o].pages = n
      /\ B[new].start = A[o].start + n /\ B[new].pages = A[o].pages - n
      /\ \A s \in Slots \ {o, new} : B[s] = A[s]
  BY SplitSlots
<1>. HIDE DEF new
<1>2. o \in Slots /\ A[o].start \in Nat /\ A[o].pages \in Nat
  BY DEF InUse, Allocation
<1>3. /\ Block(B, o) \cap Block(B, new) = {}
      /\ Block(B, o) \cup Block(B, new) = Block(A, o)
  BY <1>1, <1>2 DEF Block, End
<1>4. \A s \in InUse(A) \ {o} : Block(B, s) = Block(A, s)
  BY <1>1 DEF Block, End, InUse
<1>5. Disjoint(B)
  BY <1>1, <1>3, <1>4 DEF Disjoint
<1>6. PagesOf(B) = PagesOf(A)
  BY <1>1, <1>3, <1>4 DEF PagesOf
<1>. QED BY <1>5, <1>6

-----------------------------------------------------------------------------
(* Links *)

LEMMA NoneIsNoSlot == None \notin Slots
BY SlotsAssumption DEF Slots, None

\* The list depends on in_use and next only.
LEMMA SameLinks ==
  ASSUME NEW A, NEW B, NEW f, Listed(A, f), InUse(B) = InUse(A),
         \A s \in InUse(A) : B[s].next = A[s].next
  PROVE  Listed(B, f)
<1>1. \A s \in InUse(A) : Before(A, f, s) => Before(B, f, s)
  BY DEF Before
<1>. QED BY <1>1 DEF Listed

\* A slot linked in behind another one keeps the list a list.
LEMMA InsertLinks ==
  ASSUME NEW A, NEW B, NEW f, Listed(A, f),
         NEW o \in InUse(A), NEW new \in Slots \ InUse(A),
         InUse(B) = InUse(A) \cup {new},
         B[o].next = new, B[new].next = A[o].next,
         \A s \in InUse(A) \ {o} : B[s].next = A[s].next
  PROVE  Listed(B, f)
<1>1. InUse(A) \subseteq Slots /\ None \notin Slots /\ f \in InUse(A)
  BY NoneIsNoSlot DEF Listed, InUse
<1>2. \A s \in InUse(B) : B[s].next \in InUse(B) \cup {None} /\ B[s].next # f
  BY <1>1 DEF Listed
<1>3. \A s, t \in InUse(B) : B[s].next = B[t].next /\ B[s].next # None => s = t
  BY <1>1 DEF Listed
<1>4. ASSUME NEW s \in InUse(B), NEW C \in SUBSET InUse(B), f \in C,
             \A u \in C : B[u].next \in C \cup {None}
      PROVE  s \in C
  <2>1. \A u \in C \ {new} : A[u].next \in (C \ {new}) \cup {None}
    <3>1. \A u \in C \ {new} : u = o => A[u].next \in (C \ {new}) \cup {None}
      BY <1>1, <1>4 DEF Listed
    <3>2. \A u \in C \ {new} : u # o => A[u].next \in (C \ {new}) \cup {None}
      BY <1>1, <1>4 DEF Listed
    <3>. QED BY <3>1, <3>2
  <2>2. C \ {new} \in SUBSET InUse(A) /\ f \in C \ {new}
    BY <1>1, <1>4
  <2>3. InUse(A) \subseteq C \ {new}
    BY <2>1, <2>2, Zenon DEF Listed, Before
  <2>4. new \in C
    BY <1>1, <1>4, <2>3
  <2>. QED BY <2>3, <2>4
<1>5. \A s \in InUse(B) : Before(B, f, s)
  BY <1>4 DEF Before
<1>6. ASSUME NEW C \in SUBSET InUse(B), C # {}
      PROVE  \E u \in C : B[u].next \notin C
  <2>1. CASE C \ {new} = {}
    BY <1>1, <1>6, <2>1 DEF Listed
  <2>2. CASE C \ {new} # {}
    <3>1. PICK u \in C \ {new} : A[u].next \notin C \ {new}
      BY <1>6, <2>2, Zenon DEF Listed
    <3>2. u \in InUse(A) /\ A[u].next # new
      BY <1>1, <1>6 DEF Listed
    <3>3. CASE u # o
      BY <3>1, <3>2, <3>3
    <3>4. CASE u = o
      BY <3>1, <3>2, <3>4
    <3>. QED BY <3>3, <3>4
  <2>. QED BY <2>1, <2>2
<1>. QED BY <1>1, <1>2, <1>3, <1>5, <1>6 DEF Listed

-----------------------------------------------------------------------------
(* What the operations on the array preserve *)

\* A typed array whose slots in use form a list with head f and whose blocks
\* are disjoint and cover the pages P.
Sound(A, f, P) ==
  /\ A \in [Slots -> Allocation]
  /\ Listed(A, f)
  /\ Disjoint(A)
  /\ PagesOf(A) = P

\* A change of types, attributes or virtual addresses changes no block.
LEMMA SameBlocks ==
  ASSUME NEW A, NEW B \in [Slots -> Allocation], NEW f, NEW P, Sound(A, f, P),
         \A s \in Slots : /\ B[s].in_use = A[s].in_use /\ B[s].next = A[s].next
                          /\ B[s].start = A[s].start /\ B[s].pages = A[s].pages
  PROVE  Sound(B, f, P)
<1>1. InUse(B) = InUse(A)
  BY DEF InUse
<1>2. Listed(B, f)
  BY <1>1, SameLinks DEF Sound, InUse
<1>3. \A s \in InUse(A) : Block(B, s) = Block(A, s)
  BY DEF Block, End, InUse
<1>4. Disjoint(B) /\ PagesOf(B) = PagesOf(A)
  BY <1>1, <1>3 DEF Sound, Disjoint, PagesOf
<1>. QED BY <1>2, <1>4 DEF Sound

LEMMA SplitSound ==
  ASSUME NEW A, NEW f, NEW P, Sound(A, f, P), NEW o \in InUse(A), NEW n \in Nat,
         n <= A[o].pages, find_free_allocation(A) # None
  PROVE  Sound(split_allocation(A, o, n), f, P)
<1>. DEFINE new == find_free_allocation(A)
            B == split_allocation(A, o, n)
<1>1. A \in [Slots -> Allocation] /\ Disjoint(A) /\ Listed(A, f) /\ PagesOf(A) = P
  BY DEF Sound
<1>2. /\ new \in Slots \ InUse(A)
      /\ B \in [Slots -> Allocation]
      /\ InUse(B) = InUse(A) \cup {new}
      /\ B[o].next = new
      /\ B[new].next = A[o].next
      /\ \A s \in Slots \ {o, new} : B[s] = A[s]
  BY <1>1, SplitSlots
<1>3. Disjoint(B) /\ PagesOf(B) = PagesOf(A)
  BY <1>1, SplitBlocks
<1>. HIDE DEF new, B
<1>4. \A s \in InUse(A) \ {o} : B[s].next = A[s].next
  BY <1>2 DEF InUse
<1>5. Listed(B, f)
  BY <1>1, <1>2, <1>4, InsertLinks
<1>6. Sound(B, f, P)
  BY <1>1, <1>2, <1>3, <1>5 DEF Sound
<1>. QED BY <1>6 DEF B

-----------------------------------------------------------------------------
(* Runs of mergeable blocks *)

Heads(A) == InUse(A) \ Absorbed(A)

RunLast(A, h) == CHOOSE t \in Run(A, h) : ~ Mergeable(A, t)

\* Run(A, h) is the least set with h that is closed under the merge step.
LEMMA RunLeast ==
  ASSUME NEW A, NEW h, NEW C \in SUBSET InUse(A), h \in C,
         \A u \in C : Mergeable(A, u) => A[u].next \in C
  PROVE  Run(A, h) \subseteq C
BY DEF Run

LEMMA RunClosed ==
  ASSUME NEW A, NEW f, Listed(A, f), NEW h \in InUse(A)
  PROVE  /\ h \in Run(A, h)
         /\ Run(A, h) \subseteq InUse(A)
         /\ \A u \in Run(A, h) : Mergeable(A, u) => A[u].next \in Run(A, h)
<1>1. h \in Run(A, h) /\ Run(A, h) \subseteq InUse(A)
  BY DEF Run
<1>2. ASSUME NEW u \in Run(A, h), Mergeable(A, u)
      PROVE  A[u].next \in Run(A, h)
  <2>1. A[u].next \in InUse(A)
    BY <1>1, <1>2 DEF Listed, Mergeable
  <2>. QED BY <1>2, <2>1 DEF Run
<1>. QED BY <1>1, <1>2

\* Every member of a run but its head follows another member.
LEMMA RunStep ==
  ASSUME NEW A, NEW f, Listed(A, f), NEW h \in InUse(A),
         NEW t \in Run(A, h), t # h
  PROVE  \E u \in Run(A, h) : Mergeable(A, u) /\ A[u].next = t
<1>. SUFFICES ASSUME \A u \in Run(A, h) : Mergeable(A, u) => A[u].next # t
     PROVE  FALSE
  OBVIOUS
<1>. DEFINE C == Run(A, h) \ {t}
<1>1. C \in SUBSET InUse(A) /\ h \in C
  BY RunClosed
<1>2. \A u \in C : Mergeable(A, u) => A[u].next \in C
  BY RunClosed
<1>3. Run(A, h) \subseteq C
  BY <1>1, <1>2, RunLeast, Zenon
<1>. QED BY <1>3

\* A run has exactly one member where merging stops, and every other member
\* leads to it.
LEMMA RunEnd ==
  ASSUME NEW A, NEW f, Listed(A, f), NEW h \in InUse(A)
  PROVE  /\ RunLast(A, h) \in Run(A, h)
         /\ ~ Mergeable(A, RunLast(A, h))
         /\ \A u \in Run(A, h) : RunLast(A, h) \in Run(A, u)
         /\ \A u \in Run(A, h) : ~ Mergeable(A, u) => u = RunLast(A, h)
<1>1. /\ h \in Run(A, h) /\ Run(A, h) \subseteq InUse(A)
      /\ \A u \in Run(A, h) : Mergeable(A, u) => A[u].next \in Run(A, h)
  BY RunClosed
<1>2. \E t \in Run(A, h) : ~ Mergeable(A, t)
  BY <1>1 DEF Listed
<1>3. RunLast(A, h) \in Run(A, h) /\ ~ Mergeable(A, RunLast(A, h))
  BY <1>2 DEF RunLast
<1>4. ASSUME NEW t \in Run(A, h), ~ Mergeable(A, t)
      PROVE  \A u \in Run(A, h) : t \in Run(A, u)
  <2>. DEFINE D == {u \in Run(A, h) : t \in Run(A, u)}
  <2>1. t \in Run(A, h) /\ h \in D /\ D \in SUBSET InUse(A)
    BY <1>1, <1>4
  <2>2. ASSUME NEW u \in D, Mergeable(A, u)
        PROVE  A[u].next \in D
    <3>. DEFINE v == A[u].next
    <3>1. v \in Run(A, h) /\ u \in InUse(A) /\ v \in InUse(A) /\ t # u
      BY <1>1, <1>4, <2>2
    <3>2. /\ v \in Run(A, v) /\ Run(A, v) \subseteq InUse(A)
          /\ \A w \in Run(A, v) : Mergeable(A, w) => A[w].next \in Run(A, v)
      BY <3>1, RunClosed
    <3>. DEFINE C == Run(A, v) \cup {u}
    <3>3. Run(A, u) \subseteq C
      <4>1. C \in SUBSET InUse(A) /\ u \in C
        BY <3>1, <3>2
      <4>2. \A w \in C : Mergeable(A, w) => A[w].next \in C
        BY <3>2
      <4>. HIDE DEF C
      <4>. QED BY <4>1, <4>2, RunLeast
    <3>4. t \in Run(A, v)
      BY <2>2, <3>1, <3>3
    <3>. QED BY <3>1, <3>4
  <2>3. Run(A, h) \subseteq D
    BY <2>1, <2>2, RunLeast, Zenon
  <2>. QED BY <2>3
<1>5. ASSUME NEW t \in InUse(A), ~ Mergeable(A, t)
      PROVE  Run(A, t) \subseteq {t}
  <2>. DEFINE C == {t}
  <2>1. C \in SUBSET InUse(A) /\ t \in C
    OBVIOUS
  <2>2. \A w \in C : Mergeable(A, w) => A[w].next \in C
    BY <1>5
  <2>3. Run(A, t) \subseteq C
    <3>. HIDE DEF C
    <3>. QED BY <2>1, <2>2, RunLeast
  <2>. QED BY <2>3
<1>6. \A u \in Run(A, h) : RunLast(A, h) \in Run(A, u)
  BY <1>3, <1>4
<1>7. \A u \in Run(A, h) : ~ Mergeable(A, u) => u = RunLast(A, h)
  BY <1>1, <1>5, <1>6
<1>. QED BY <1>3, <1>6, <1>7

\* The runs of the blocks that remain partition the slots in use.
LEMMA RunsApart ==
  ASSUME NEW A, NEW f, Listed(A, f), NEW g \in Heads(A), NEW h \in Heads(A), g # h
  PROVE  Run(A, g) \cap Run(A, h) = {}
<1>1. g \in InUse(A) /\ h \in InUse(A)
  BY DEF Heads
<1>2. \A u \in InUse(A) : Mergeable(A, u) => A[u].next # g /\ A[u].next # h
  BY DEF Heads, Absorbed
<1>3. Run(A, h) \subseteq InUse(A) /\ Run(A, g) \subseteq InUse(A)
  BY <1>1, RunClosed
<1>. DEFINE C == InUse(A) \ Run(A, h)
<1>4. g \in C
  BY <1>1, <1>2, <1>3, RunStep
<1>5. ASSUME NEW u \in C, Mergeable(A, u), A[u].next \notin C
      PROVE  FALSE
  <2>1. A[u].next \in InUse(A) /\ A[u].next # None
    BY <1>5 DEF Listed, Mergeable
  <2>2. A[u].next \in Run(A, h) /\ A[u].next # h
    BY <1>2, <1>5, <2>1
  <2>3. PICK w \in Run(A, h) : Mergeable(A, w) /\ A[w].next = A[u].next
    BY <1>1, <2>2, RunStep
  <2>4. w = u
    BY <1>3, <2>1, <2>3 DEF Listed
  <2>. QED BY <2>4
<1>6. Run(A, g) \subseteq C
  BY <1>4, <1>5, RunLeast, Zenon
<1>. QED BY <1>6

LEMMA RunsCover ==
  ASSUME NEW A, NEW f, Listed(A, f)
  PROVE  /\ \A u \in InUse(A) : \E h \in Heads(A) : u \in Run(A, h)
         /\ \A u \in InUse(A) : ~ Mergeable(A, u) =>
               A[u].next \in Heads(A) \cup {None}
<1>1. \A u \in InUse(A) : ~ Mergeable(A, u) => A[u].next \in Heads(A) \cup {None}
  BY DEF Listed, Heads, Absorbed
<1>. DEFINE C == {u \in InUse(A) : \E h \in Heads(A) : u \in Run(A, h)}
<1>2. \A h \in Heads(A) : h \in InUse(A) /\ h \in C
  BY RunClosed DEF Heads
<1>3. ASSUME NEW u \in C
      PROVE  A[u].next \in C \cup {None}
  <2>1. CASE ~ Mergeable(A, u)
    BY <1>1, <1>2, <2>1
  <2>2. CASE Mergeable(A, u)
    <3>1. PICK h \in Heads(A) : u \in Run(A, h)
      OBVIOUS
    <3>2. A[u].next \in Run(A, h) /\ Run(A, h) \subseteq InUse(A)
      BY <1>2, <2>2, <3>1, RunClosed
    <3>. QED BY <3>2
  <2>. QED BY <2>1, <2>2
<1>4. CASE f = None
  BY <1>1, <1>4 DEF Listed
<1>5. CASE f # None
  <2>1. f \in Heads(A)
    BY <1>5 DEF Listed, Heads, Absorbed
  <2>2. f \in C /\ C \in SUBSET InUse(A)
    BY <1>2, <2>1
  <2>3. InUse(A) \subseteq C
    <3>. HIDE DEF C
    <3>. QED BY <1>3, <2>2 DEF Listed, Before
  <2>. QED BY <1>1, <2>3
<1>. QED BY <1>4, <1>5

\* Along a run the blocks only move up.
LEMMA RunSpan ==
  ASSUME NEW A \in [Slots -> Allocation], NEW f, Listed(A, f), NEW h \in InUse(A)
  PROVE  \A u \in Run(A, h) : A[h].start <= A[u].start /\ End(A, h) <= End(A, u)
<1>. DEFINE D == {u \in Run(A, h) : A[h].start <= A[u].start /\ End(A, h) <= End(A, u)}
<1>1. /\ h \in Run(A, h) /\ Run(A, h) \subseteq InUse(A)
      /\ \A u \in Run(A, h) : Mergeable(A, u) => A[u].next \in Run(A, h)
  BY RunClosed
<1>2. \A s \in InUse(A) : A[s].start \in Nat /\ A[s].pages \in Nat
  BY DEF InUse, Allocation
<1>3. h \in D /\ D \in SUBSET InUse(A)
  BY <1>1, <1>2 DEF End
<1>4. ASSUME NEW u \in D, Mergeable(A, u)
      PROVE  A[u].next \in D
  <2>1. A[u].next \in Run(A, h) /\ A[A[u].next].start = End(A, u)
    BY <1>1, <1>4 DEF Mergeable
  <2>2. u \in InUse(A) /\ A[u].next \in InUse(A)
    BY <1>1, <2>1
  <2>. QED BY <1>2, <2>1, <2>2 DEF End
<1>5. Run(A, h) \subseteq D
  <2>. HIDE DEF D
  <2>. QED BY <1>3, <1>4, RunLeast
<1>. QED BY <1>5

\* The pages from the head of a run to the end of its last block are those of
\* the blocks of the run.
LEMMA RunPages ==
  ASSUME NEW A \in [Slots -> Allocation], NEW f, Listed(A, f), NEW h \in InUse(A)
  PROVE  A[h].start .. End(A, RunLast(A, h)) - 1 = UNION {Block(A, u) : u \in Run(A, h)}
<1>. DEFINE U == UNION {Block(A, u) : u \in Run(A, h)}
            D == {u \in Run(A, h) : A[h].start .. End(A, u) - 1 \subseteq U}
<1>1. /\ h \in Run(A, h) /\ Run(A, h) \subseteq InUse(A)
      /\ \A u \in Run(A, h) : Mergeable(A, u) => A[u].next \in Run(A, h)
  BY RunClosed
<1>2. \A s \in InUse(A) : A[s].start \in Nat /\ A[s].pages \in Nat
  BY DEF InUse, Allocation
<1>3. h \in D /\ D \in SUBSET InUse(A)
  BY <1>1 DEF Block
<1>4. ASSUME NEW u \in D, Mergeable(A, u)
      PROVE  A[u].next \in D
  <2>. DEFINE v == A[u].next
  <2>1. v \in Run(A, h) /\ A[v].start = End(A, u)
    BY <1>1, <1>4 DEF Mergeable
  <2>2. u \in InUse(A) /\ v \in InUse(A)
    BY <1>1, <2>1
  <2>3. A[h].start .. End(A, v) - 1 \subseteq (A[h].start .. End(A, u) - 1) \cup Block(A, v)
    BY <1>2, <2>1, <2>2 DEF End, Block
  <2>4. Block(A, v) \subseteq U
    BY <2>1
  <2>. QED BY <2>1, <2>3, <2>4
<1>5. Run(A, h) \subseteq D
  <2>. HIDE DEF D
  <2>. QED BY <1>3, <1>4, RunLeast
<1>6. RunLast(A, h) \in Run(A, h) /\ \A u \in Run(A, h) : RunLast(A, h) \in Run(A, u)
  BY RunEnd
<1>7. A[h].start .. End(A, RunLast(A, h)) - 1 \subseteq U
  BY <1>5, <1>6
<1>8. ASSUME NEW u \in Run(A, h)
      PROVE  Block(A, u) \subseteq A[h].start .. End(A, RunLast(A, h)) - 1
  <2>1. A[h].start <= A[u].start /\ End(A, u) <= End(A, RunLast(A, h))
    BY <1>1, <1>6, RunSpan
  <2>. QED BY <1>1, <1>2, <1>6, <2>1 DEF Block, End
<1>. QED BY <1>7, <1>8

-----------------------------------------------------------------------------
(* Merging *)

\* What merge_free_memory does to each slot.
LEMMA MergeSlots ==
  ASSUME NEW A \in [Slots -> Allocation], NEW f, Listed(A, f),
         NEW M, M = merge_free_memory(A)
  PROVE  /\ M \in [Slots -> Allocation]
         /\ InUse(M) = Heads(A)
         /\ \A h \in Heads(A) : /\ M[h].next = A[RunLast(A, h)].next
                                /\ M[h].start = A[h].start
                                /\ End(M, h) = End(A, RunLast(A, h))
                                /\ M[h].type = A[h].type
<1>1. \A s \in Slots : M[s] = IF s \in Absorbed(A) THEN Released(A[s])
                              ELSE IF ~ Mergeable(A, s) THEN A[s]
                              ELSE [A[s] EXCEPT !.pages = End(A, RunLast(A, s)) - A[s].start,
                                                !.next = A[RunLast(A, s)].next]
  BY Zenon DEF merge_free_memory, RunLast
<1>2. ASSUME NEW s \in Slots, s \in Absorbed(A)
      PROVE  M[s] \in Allocation /\ s \notin InUse(M)
  <2>1. M[s] = Released(A[s]) /\ A[s].virt \in Nat
    BY <1>1, <1>2, Zenon DEF Allocation
  <2>2. {} \in SUBSET Attributes /\ None \in Slots \cup {None} /\ Reserved \in Types
    BY TypesAssumption
  <2>3. M[s] \in Allocation
    BY <2>1, <2>2 DEF Released, Allocation
  <2>. QED BY <2>1, <2>3 DEF Released, InUse
<1>3. ASSUME NEW s \in Slots, s \notin Absorbed(A), ~ Mergeable(A, s)
      PROVE  /\ M[s] \in Allocation
             /\ s \in InUse(M) <=> s \in InUse(A)
             /\ s \in InUse(A) => RunLast(A, s) = s
  <2>1. M[s] = A[s]
    BY <1>1, <1>3, Zenon
  <2>2. s \in InUse(A) => RunLast(A, s) = s
    BY <1>3, RunClosed, RunEnd
  <2>. QED BY <2>1, <2>2 DEF InUse
<1>4. ASSUME NEW s \in Slots, s \notin Absorbed(A), Mergeable(A, s)
      PROVE  /\ M[s] \in Allocation
             /\ s \in InUse(M) /\ s \in InUse(A)
             /\ M[s].next = A[RunLast(A, s)].next
             /\ M[s].start = A[s].start
             /\ M[s].type = A[s].type
             /\ M[s].pages = End(A, RunLast(A, s)) - A[s].start
  <2>1. M[s] = [A[s] EXCEPT !.pages = End(A, RunLast(A, s)) - A[s].start,
                            !.next = A[RunLast(A, s)].next]
    BY <1>1, <1>4, Zenon
  <2>2. s \in InUse(A)
    BY <1>4 DEF Mergeable, InUse
  <2>3. /\ RunLast(A, s) \in InUse(A)
        /\ End(A, s) <= End(A, RunLast(A, s))
    BY <2>2, RunClosed, RunEnd, RunSpan
  <2>4. A[s] \in Allocation /\ A[RunLast(A, s)] \in Allocation
    BY <2>3 DEF InUse
  <2>5. End(A, RunLast(A, s)) - A[s].start \in Nat
    BY <2>3, <2>4 DEF Allocation, End
  <2>6. M[s] \in Allocation
    BY <2>1, <2>4, <2>5, Zenon DEF Allocation
  <2>7. /\ M[s].in_use = A[s].in_use
        /\ M[s].next = A[RunLast(A, s)].next
        /\ M[s].start = A[s].start
        /\ M[s].type = A[s].type
        /\ M[s].pages = End(A, RunLast(A, s)) - A[s].start
    BY <2>1, <2>4 DEF Allocation
  <2>. QED BY <2>2, <2>6, <2>7 DEF InUse
<1>5. M \in [Slots -> Allocation]
  BY <1>2, <1>3, <1>4, Zenon DEF merge_free_memory
<1>6. InUse(M) = Heads(A)
  BY <1>2, <1>3, <1>4 DEF InUse, Heads
<1>7. ASSUME NEW h \in Heads(A)
      PROVE  /\ M[h].next = A[RunLast(A, h)].next
             /\ M[h].start = A[h].start
             /\ End(M, h) = End(A, RunLast(A, h))
             /\ M[h].type = A[h].type
  <2>1. h \in Slots /\ h \in InUse(A) /\ h \notin Absorbed(A)
    BY DEF Heads, InUse
  <2>2. CASE ~ Mergeable(A, h)
    BY <1>1, <1>3, <2>1, <2>2, Zenon DEF End
  <2>3. CASE Mergeable(A, h)
    <3>1. RunLast(A, h) \in InUse(A)
      BY <2>1, RunClosed, RunEnd
    <3>2. /\ A[h].start \in Nat /\ A[RunLast(A, h)].start \in Nat
          /\ A[RunLast(A, h)].pages \in Nat
      BY <2>1, <3>1 DEF InUse, Allocation
    <3>3. /\ M[h].next = A[RunLast(A, h)].next /\ M[h].start = A[h].start
          /\ M[h].type = A[h].type
          /\ M[h].pages = End(A, RunLast(A, h)) - A[h].start
      BY <1>4, <2>1, <2>3
    <3>. QED BY <3>2, <3>3 DEF End
  <2>. QED BY <2>2, <2>3
<1>. QED BY <1>5, <1>6, <1>7

\* The blocks that remain after a merge are linked into one list.
LEMMA MergeLinks ==
  ASSUME NEW A \in [Slots -> Allocation], NEW f, Listed(A, f),
         NEW M, M = merge_free_memory(A)
  PROVE  Listed(M, f)
<1>1. /\ InUse(M) = Heads(A)
      /\ \A h \in Heads(A) : M[h].next = A[RunLast(A, h)].next
  BY MergeSlots
<1>2. \A h \in Heads(A) :
        /\ h \in InUse(A) /\ h \in Run(A, h) /\ Run(A, h) \subseteq InUse(A)
        /\ \A u \in Run(A, h) : Mergeable(A, u) => A[u].next \in Run(A, h)
  BY RunClosed DEF Heads
<1>3. \A h \in Heads(A) :
        /\ RunLast(A, h) \in Run(A, h) /\ RunLast(A, h) \in InUse(A)
        /\ ~ Mergeable(A, RunLast(A, h))
        /\ \A u \in Run(A, h) : ~ Mergeable(A, u) => u = RunLast(A, h)
  BY <1>2, RunEnd
<1>4. \A g, h \in Heads(A) : g # h => Run(A, g) \cap Run(A, h) = {}
  BY RunsApart
<1>5. /\ \A u \in InUse(A) : \E h \in Heads(A) : u \in Run(A, h)
      /\ \A u \in InUse(A) : ~ Mergeable(A, u) => A[u].next \in Heads(A) \cup {None}
  BY RunsCover
<1>6. f = None <=> InUse(M) = {}
  BY <1>1, <1>2, <1>5 DEF Listed
<1>7. f \in InUse(M) \cup {None}
  BY <1>1 DEF Listed, Heads, Absorbed
<1>8. \A h \in InUse(M) : M[h].next \in InUse(M) \cup {None} /\ M[h].next # f
  BY <1>1, <1>3, <1>5 DEF Listed
<1>9. ASSUME NEW g \in InUse(M), NEW h \in InUse(M),
             M[g].next = M[h].next, M[g].next # None
      PROVE  g = h
  <2>1. RunLast(A, g) = RunLast(A, h)
    BY <1>1, <1>3, <1>9 DEF Listed
  <2>. QED BY <1>1, <1>3, <1>4, <2>1
<1>. DEFINE Cover(C) == {u \in InUse(A) : \E h \in C : u \in Run(A, h)}
<1>10. ASSUME NEW C \in SUBSET Heads(A), NEW u \in Cover(C), A[u].next \notin Cover(C)
       PROVE  \E h \in C : u = RunLast(A, h) /\ M[h].next = A[u].next /\ M[h].next \notin C
  <2>1. PICK h \in C : u \in Run(A, h)
    BY <1>10
  <2>2. h \in Heads(A) /\ ~ Mergeable(A, u)
    BY <1>2, <1>10, <2>1
  <2>3. u = RunLast(A, h) /\ M[h].next = A[u].next
    BY <1>1, <1>3, <2>1, <2>2
  <2>4. A[u].next \notin C
    BY <1>2, <1>10
  <2>. QED BY <2>3, <2>4
<1>11. ASSUME NEW s \in InUse(M), NEW C \in SUBSET InUse(M), f \in C,
              \A h \in C : M[h].next \in C \cup {None}
       PROVE  s \in C
  <2>. DEFINE D == Cover(C)
  <2>1. f \in D /\ D \in SUBSET InUse(A)
    BY <1>1, <1>2, <1>11
  <2>2. \A u \in D : A[u].next \in D \cup {None}
    <3>. SUFFICES ASSUME NEW u \in D, A[u].next \notin D
         PROVE  A[u].next = None
      OBVIOUS
    <3>1. PICK h \in C : M[h].next = A[u].next /\ M[h].next \notin C
      <4>. HIDE DEF Cover
      <4>. QED BY <1>1, <1>10
    <3>. QED BY <1>11, <3>1
  <2>3. InUse(A) \subseteq D
    <3>. HIDE DEF D
    <3>. QED BY <2>1, <2>2 DEF Listed, Before
  <2>4. PICK h \in C : s \in Run(A, h)
    BY <1>1, <1>2, <2>3
  <2>. QED BY <1>1, <1>2, <1>4, <1>11, <2>4
<1>12. \A s \in InUse(M) : Before(M, f, s)
  BY <1>11 DEF Before
<1>13. ASSUME NEW C \in SUBSET InUse(M), C # {}
       PROVE  \E h \in C : M[h].next \notin C
  <2>. DEFINE D == Cover(C)
  <2>1. D # {} /\ D \in SUBSET InUse(A)
    BY <1>1, <1>2, <1>13
  <2>2. PICK u \in D : A[u].next \notin D
    <3>. HIDE DEF D
    <3>. QED BY <2>1 DEF Listed
  <2>. HIDE DEF Cover
  <2>. QED BY <1>1, <1>10, <2>2
<1>. QED BY <1>6, <1>7, <1>8, <1>9, <1>12, <1>13 DEF Listed

LEMMA MergeSound ==
  ASSUME NEW A, NEW f, NEW P, Sound(A, f, P)
  PROVE  Sound(merge_free_memory(A), f, P)
<1>. DEFINE M == merge_free_memory(A)
<1>1. A \in [Slots -> Allocation] /\ Listed(A, f) /\ Disjoint(A) /\ PagesOf(A) = P
  BY DEF Sound
<1>2. /\ M \in [Slots -> Allocation]
      /\ InUse(M) = Heads(A)
      /\ \A h \in Heads(A) : M[h].start = A[h].start /\ End(M, h) = End(A, RunLast(A, h))
  BY <1>1, MergeSlots
<1>3. Listed(M, f)
  BY <1>1, MergeLinks
<1>. HIDE DEF M
<1>4. \A h \in Heads(A) : h \in InUse(A) /\ Run(A, h) \subseteq InUse(A)
  BY <1>1, RunClosed DEF Heads
<1>5. \A h \in Heads(A) : Block(M, h) = UNION {Block(A, u) : u \in Run(A, h)}
  BY <1>1, <1>2, <1>4, RunPages DEF Block
<1>6. ASSUME NEW g \in InUse(M), NEW h \in InUse(M), g # h
      PROVE  Block(M, g) \cap Block(M, h) = {}
  <2>1. \A u \in Run(A, g), v \in Run(A, h) : u # v /\ u \in InUse(A) /\ v \in InUse(A)
    BY <1>1, <1>2, <1>4, <1>6, RunsApart
  <2>2. \A u \in Run(A, g), v \in Run(A, h) : Block(A, u) \cap Block(A, v) = {}
    BY <1>1, <2>1 DEF Disjoint
  <2>3. /\ Block(M, g) = UNION {Block(A, u) : u \in Run(A, g)}
        /\ Block(M, h) = UNION {Block(A, u) : u \in Run(A, h)}
    BY <1>2, <1>5
  <2>. QED BY <2>2, <2>3
<1>7. Disjoint(M)
  BY <1>6 DEF Disjoint
<1>8. PagesOf(M) \subseteq PagesOf(A)
  <2>. SUFFICES ASSUME NEW p \in PagesOf(M)
                PROVE  p \in PagesOf(A)
    OBVIOUS
  <2>1. PICK h \in Heads(A) : p \in Block(M, h)
    BY <1>2 DEF PagesOf
  <2>2. PICK u \in Run(A, h) : p \in Block(A, u)
    BY <1>5, <2>1
  <2>3. u \in InUse(A)
    BY <1>4
  <2>. QED BY <2>2, <2>3 DEF PagesOf
<1>9. PagesOf(A) \subseteq PagesOf(M)
  <2>. SUFFICES ASSUME NEW p \in PagesOf(A)
                PROVE  p \in PagesOf(M)
    OBVIOUS
  <2>1. PICK u \in InUse(A) : p \in Block(A, u)
    BY DEF PagesOf
  <2>2. PICK h \in Heads(A) : u \in Run(A, h)
    BY <1>1, RunsCover
  <2>3. p \in Block(M, h)
    BY <1>5, <2>1, <2>2
  <2>. QED BY <1>2, <2>3 DEF PagesOf
<1>10. Sound(M, f, P)
  BY <1>1, <1>2, <1>3, <1>7, <1>8, <1>9, Zenon DEF Sound
<1>. QED BY <1>10 DEF M

-----------------------------------------------------------------------------
(* The invariant *)

\* While initialize_memory is at work, region i is in slot i - 1.
Booting ==
  region < Len(Regions) => InUse(allocations) = {s \in Slots : s < region}

AllocatorInv ==
  /\ TypeOK
  /\ ListedIsInUse
  /\ BlocksDisjoint
  /\ PagesConserved
  /\ Booting

-----------------------------------------------------------------------------
(* The operations *)

\* A slot gets another type and other attributes.
LEMMA RetypeSound ==
  ASSUME NEW A, NEW f, NEW P, Sound(A, f, P), NEW s \in InUse(A),
         NEW type \in Types, NEW attribute \in SUBSET Attributes
  PROVE  Sound([A EXCEPT ![s] = [A[s] EXCEPT !.type = type, !.attribute = attribute]], f, P)
<1>. DEFINE B == [A EXCEPT ![s] = [A[s] EXCEPT !.type = type, !.attribute = attribute]]
<1>1. A \in [Slots -> Allocation] /\ s \in Slots /\ A[s] \in Allocation
  BY DEF Sound, InUse
<1>2. B[s] = [A[s] EXCEPT !.type = type, !.attribute = attribute]
  BY <1>1
<1>3. \A t \in Slots \ {s} : B[t] = A[t]
  BY <1>1
<1>4. B[s] \in Allocation
  BY <1>1, <1>2, Zenon DEF Allocation
<1>5. B \in [Slots -> Allocation]
  BY <1>1, <1>3, <1>4
<1>6. /\ B[s].in_use = A[s].in_use /\ B[s].next = A[s].next
      /\ B[s].start = A[s].start /\ B[s].pages = A[s].pages
  BY <1>1, <1>2 DEF Allocation
<1>. HIDE DEF B
<1>7. \A t \in Slots : /\ B[t].in_use = A[t].in_use /\ B[t].next = A[t].next
                       /\ B[t].start = A[t].start /\ B[t].pages = A[t].pages
  BY <1>3, <1>6
<1>8. Sound(B, f, P)
  BY <1>5, <1>7, SameBlocks
<1>. QED BY <1>8 DEF B

LEMMA AssignSound ==
  ASSUME NEW A, NEW f, NEW P, Sound(A, f, P), NEW s \in InUse(A), NEW type \in Types
  PROVE  Sound(Assign(A, s, type), f, P)
<1>. DEFINE attribute == A[s].attribute \cup IF type \in RuntimeTypes THEN {"RUNTIME"} ELSE {}
<1>1. A \in [Slots -> Allocation] /\ s \in Slots /\ A[s] \in Allocation
  BY DEF Sound, InUse
<1>2. attribute \in SUBSET Attributes
  BY <1>1 DEF Allocation, Attributes
<1>3. Assign(A, s, type) =
        [A EXCEPT ![s] = [A[s] EXCEPT !.type = type, !.attribute = attribute]]
  BY <1>1 DEF Assign, Allocation
<1>. HIDE DEF attribute
<1>4. Sound([A EXCEPT ![s] = [A[s] EXCEPT !.type = type, !.attribute = attribute]], f, P)
  BY <1>2, RetypeSound, Zenon
<1>. QED BY <1>3, <1>4, Zenon

LEMMA TypeOnlySound ==
  ASSUME NEW A, NEW f, NEW P, Sound(A, f, P), NEW s \in InUse(A), NEW type \in Types
  PROVE  Sound([A EXCEPT ![s] = [@ EXCEPT !.type = type]], f, P)
<1>1. A \in [Slots -> Allocation] /\ s \in Slots /\ A[s] \in Allocation
  BY DEF Sound, InUse
<1>2. A[s].attribute \in SUBSET Attributes
  BY <1>1 DEF Allocation
<1>3. [A EXCEPT ![s] = [@ EXCEPT !.type = type]] =
        [A EXCEPT ![s] = [A[s] EXCEPT !.type = type, !.attribute = A[s].attribute]]
  BY <1>1, Zenon DEF Allocation
<1>4. Sound([A EXCEPT ![s] = [A[s] EXCEPT !.type = type, !.attribute = A[s].attribute]], f, P)
  BY <1>2, RetypeSound, Zenon
<1>. QED BY <1>3, <1>4, Zenon

\* A block that fits a request is large enough for the splits.
LEMMA FitsBounds ==
  ASSUME NEW A \in [Slots -> Allocation], NEW r \in Request, NEW dest \in Candidates(A, r)
  PROVE  /\ dest \in InUse(A) /\ dest \in Slots
         /\ A[dest].start \in Nat /\ A[dest].pages \in Nat
         /\ r.count \in Nat /\ r.type \in Types
         /\ r.count <= A[dest].pages
         /\ r.how = "Address" => /\ r.page - A[dest].start \in Nat
                                 /\ r.page - A[dest].start <= A[dest].pages
<1>1. dest \in InUse(A) /\ dest \in Slots /\ Fits(A, r, dest)
  BY DEF Candidates, InUse
<1>2. A[dest].start \in Nat /\ A[dest].pages \in Nat
  BY <1>1 DEF Allocation
<1>3. r \in [how : {"Address", "Any", "Max"}, type : Types,
             count : Nat, page : Nat, aligned : BOOLEAN]
  BY DEF Request
<1>4. r.count \in Nat /\ r.type \in Types /\ r.page \in Nat
  BY <1>3
<1>5. /\ r.count <= A[dest].pages
      /\ r.how = "Address" => /\ r.page - A[dest].start \in Nat
                              /\ r.page - A[dest].start <= A[dest].pages
  <2>1. CASE /\ r.how = "Address" /\ r.page >= A[dest].start
             /\ r.page + r.count <= End(A, dest)
    BY <1>2, <1>4, <2>1 DEF End
  <2>2. CASE r.how # "Address" /\ A[dest].pages >= r.count
    BY <1>2, <1>4, <2>2
  <2>3. End(A, dest) \in Nat
    BY <1>2 DEF End
  <2>. QED BY <1>1, <1>4, <2>1, <2>2, <2>3 DEF Fits
<1>. QED BY <1>1, <1>2, <1>4, <1>5

LEMMA AllocateSound ==
  ASSUME NEW f, NEW P, Sound(allocations, f, P), NEW r \in Request,
         NEW dest \in Candidates(allocations, r),
         AllocateWhole(r, dest) \/ AllocateFront(r, dest) \/ AllocateInside(r, dest)
  PROVE  Sound(allocations', f, P) /\ ret' \in [status : Statuses, address : Nat]
<1>. DEFINE A == allocations
            new == find_free_allocation(A)
<1>1. A \in [Slots -> Allocation]
  BY DEF Sound
<1>2. /\ dest \in InUse(A) /\ dest \in Slots
      /\ A[dest].start \in Nat /\ A[dest].pages \in Nat
      /\ r.count \in Nat /\ r.type \in Types
      /\ r.count <= A[dest].pages
      /\ r.how = "Address" => /\ r.page - A[dest].start \in Nat
                              /\ r.page - A[dest].start <= A[dest].pages
  BY <1>1, FitsBounds
<1>3. ASSUME NEW B, NEW s \in InUse(B), Sound(B, f, P), Succeed(B, s, r.type)
      PROVE  Sound(allocations', f, P) /\ ret' \in [status : Statuses, address : Nat]
  <2>1. Sound(allocations', f, P)
    BY <1>2, <1>3, AssignSound DEF Succeed
  <2>2. B[s].start \in Nat
    BY <1>3 DEF Sound, InUse, Allocation
  <2>. QED BY <1>3, <2>1, <2>2 DEF Succeed, Returns, Statuses
<1>4. ASSUME OutOfResources, Sound(allocations', f, P)
      PROVE  Sound(allocations', f, P) /\ ret' \in [status : Statuses, address : Nat]
  BY <1>4 DEF OutOfResources, Returns, Statuses
<1>5. CASE AllocateWhole(r, dest)
  <2>1. Sound(allocations', f, P)
    BY <1>2, <1>5, TypeOnlySound, Zenon DEF AllocateWhole
  <2>. QED BY <1>2, <1>5, <2>1 DEF AllocateWhole, Returns, Statuses
<1>6. CASE AllocateFront(r, dest)
  <2>1. CASE new = None
    BY <1>4, <1>6, <2>1 DEF AllocateFront
  <2>2. CASE new # None
    <3>1. Sound(split_allocation(A, dest, r.count), f, P)
      BY <1>2, <2>2, SplitSound
    <3>2. dest \in InUse(split_allocation(A, dest, r.count))
      BY <1>1, <1>2, <2>2, SplitSlots
    <3>3. Succeed(split_allocation(A, dest, r.count), dest, r.type)
      BY <1>6, <2>2 DEF AllocateFront
    <3>. QED BY <1>3, <3>1, <3>2, <3>3
  <2>. QED BY <2>1, <2>2
<1>7. CASE AllocateInside(r, dest)
  <2>. DEFINE A1 == split_allocation(A, dest, r.page - A[dest].start)
  <2>1. CASE new = None
    BY <1>4, <1>7, <2>1 DEF AllocateInside
  <2>2. CASE new # None
    <3>1. r.page - A[dest].start \in Nat /\ r.page - A[dest].start <= A[dest].pages
      BY <1>2, <1>7 DEF AllocateInside
    <3>2. Sound(A1, f, P)
      BY <1>2, <2>2, <3>1, SplitSound
    <3>3. /\ new \in InUse(A1) /\ A1 \in [Slots -> Allocation]
          /\ A1[new].pages = A[dest].pages - (r.page - A[dest].start)
      BY <1>1, <1>2, <2>2, <3>1, SplitSlots
    <3>. HIDE DEF A1, new
    <3>4. CASE Succeed(A1, new, r.type)
      BY <1>3, <3>2, <3>3, <3>4
    <3>5. CASE OutOfResources /\ allocations' = A1
      BY <1>4, <3>2, <3>5
    <3>6. CASE /\ A1[new].pages > r.count /\ find_free_allocation(A1) # None
               /\ Succeed(split_allocation(A1, new, r.count), new, r.type)
      <4>1. r.count <= A1[new].pages
        BY <1>2, <3>1, <3>3, <3>6
      <4>2. Sound(split_allocation(A1, new, r.count), f, P)
        BY <1>2, <3>2, <3>3, <3>6, <4>1, SplitSound
      <4>3. new \in InUse(split_allocation(A1, new, r.count))
        BY <1>2, <3>3, <3>6, <4>1, SplitSlots
      <4>. QED BY <1>3, <3>6, <4>2, <4>3
    <3>. QED BY <1>7, <2>2, <3>4, <3>5, <3>6 DEF AllocateInside, A1, new
  <2>. QED BY <2>1, <2>2
<1>. QED BY <1>5, <1>6, <1>7

\* A list of one block.
LEMMA FirstLink ==
  ASSUME NEW B, InUse(B) = {0}, B[0].next = None, 0 \in Slots
  PROVE  Listed(B, 0)
<1>1. None # 0
  BY NoneIsNoSlot
<1>2. \A s \in InUse(B) : Before(B, 0, s)
  BY DEF Before
<1>3. \A C \in SUBSET InUse(B) : C # {} => \E u \in C : B[u].next \notin C
  BY <1>1
<1>. QED BY <1>1, <1>2, <1>3 DEF Listed

LEMMA IntervalsApart ==
  ASSUME NEW s \in Nat, NEW p \in Nat, NEW t \in Nat, NEW q \in Nat, s + p <= t \/ t + q <= s
  PROVE  (s .. s + p - 1) \cap (t .. t + q - 1) = {}
OBVIOUS

\* Region i is apart from the regions handed over before it.
LEMMA NextRegion ==
  ASSUME NEW n \in Nat, n < Len(Regions)
  PROVE  LET P == Regions[n + 1].start .. Regions[n + 1].start + Regions[n + 1].pages - 1
         IN  /\ Regions[n + 1].start \in Nat /\ Regions[n + 1].pages \in Nat
             /\ n < MaxAllocations => /\ RegionPages(n) \cap P = {}
                                      /\ RegionPages(n + 1) = RegionPages(n) \cup P
             /\ n >= MaxAllocations => RegionPages(n + 1) = RegionPages(n)
<1>0. Len(Regions) \in Nat /\ n + 1 \in 1 .. Len(Regions) /\ 1 .. n \subseteq 1 .. Len(Regions)
  BY RegionsAssumption
<1>1. \A i \in 1 .. n + 1 : Regions[i].start \in Nat /\ Regions[i].pages \in Nat
  <2>1. \A i \in 1 .. n + 1 : Regions[i] \in [start : Nat, pages : Nat]
    <3>. DEFINE R == [start : Nat, pages : Nat]
    <3>1. Regions \in Seq(R)
      BY RegionsAssumption
    <3>2. \A i \in 1 .. n + 1 : i \in 1 .. Len(Regions)
      BY <1>0
    <3>. HIDE DEF R
    <3>3. \A i \in 1 .. n + 1 : Regions[i] \in R
      BY <3>1, <3>2
    <3>. QED BY <3>3 DEF R
  <2>. QED BY <2>1
<1>2. \A i \in 1 .. n : \/ Regions[i].start + Regions[i].pages <= Regions[n + 1].start
                        \/ Regions[n + 1].start + Regions[n + 1].pages <= Regions[i].start
  <2>1. \A i \in 1 .. n : i < n + 1
    OBVIOUS
  <2>. QED BY <1>0, <2>1, RegionsAssumption, Zenon
<1>. DEFINE Region(i) == Regions[i].start .. Regions[i].start + Regions[i].pages - 1
            Placed(k) == {j \in 1 .. k : j <= MaxAllocations}
<1>3. \A k : RegionPages(k) = UNION {Region(i) : i \in Placed(k)}
  BY DEF RegionPages
<1>4. ASSUME NEW i \in 1 .. n
      PROVE  Region(i) \cap Region(n + 1) = {}
  <2>1. /\ Regions[i].start \in Nat /\ Regions[i].pages \in Nat
        /\ Regions[n + 1].start \in Nat /\ Regions[n + 1].pages \in Nat
    BY <1>1
  <2>2. \/ Regions[i].start + Regions[i].pages <= Regions[n + 1].start
        \/ Regions[n + 1].start + Regions[n + 1].pages <= Regions[i].start
    BY <1>2
  <2>. QED BY <2>1, <2>2, IntervalsApart
<1>5. n < MaxAllocations => Placed(n + 1) = Placed(n) \cup {n + 1}
  BY SlotsAssumption
<1>6. n >= MaxAllocations => Placed(n + 1) = Placed(n)
  BY SlotsAssumption
<1>7. Placed(n) \subseteq 1 .. n
  OBVIOUS
<1>8. Regions[n + 1].start \in Nat /\ Regions[n + 1].pages \in Nat
  BY <1>1
<1>. HIDE DEF Region, Placed
<1>9. RegionPages(n) \cap Region(n + 1) = {}
  BY <1>3, <1>4, <1>7
<1>10. n < MaxAllocations => RegionPages(n + 1) = RegionPages(n) \cup Region(n + 1)
  BY <1>3, <1>5
<1>11. n >= MaxAllocations => RegionPages(n + 1) = RegionPages(n)
  BY <1>3, <1>6, Zenon
<1>. QED BY <1>8, <1>9, <1>10, <1>11 DEF Region

\* initialize_memory adds the next region.
LEMMA AddInitial ==
  ASSUME AllocatorInv, add_initial_allocation
  PROVE  AllocatorInv'
<1>. DEFINE A == allocations
            n == region
            B == allocations'
            new == find_free_allocation(A)
            P == Regions[n + 1].start .. Regions[n + 1].start + Regions[n + 1].pages - 1
            block(s) == [in_use |-> TRUE, next |-> None, type |-> Conventional,
                         start |-> Regions[n + 1].start, virt |-> A[s].virt,
                         pages |-> Regions[n + 1].pages, attribute |-> {"WB"}]
<1>1. /\ A \in [Slots -> Allocation] /\ Listed(A, first_allocation) /\ Disjoint(A)
      /\ PagesOf(A) = RegionPages(n) /\ n \in Nat /\ n < Len(Regions)
      /\ region' = n + 1 /\ key \in Nat /\ key' = key + 1
      /\ InUse(A) = {s \in Slots : s < n}
      /\ first_allocation \in Slots \cup {None}
  BY RegionsAssumption DEF AllocatorInv, TypeOK, ListedIsInUse, BlocksDisjoint, PagesConserved,
         Booting, add_initial_allocation
<1>2. /\ Regions[n + 1].start \in Nat /\ Regions[n + 1].pages \in Nat
      /\ n < MaxAllocations => /\ RegionPages(n) \cap P = {}
                               /\ RegionPages(n + 1) = RegionPages(n) \cup P
      /\ n >= MaxAllocations => RegionPages(n + 1) = RegionPages(n)
  BY <1>1, NextRegion
<1>3. region' \in 0 .. Len(Regions) /\ key' \in Nat
  BY <1>1, RegionsAssumption
<1>4. ret' \in [status : Statuses, address : Nat]
  BY DEF add_initial_allocation, OutOfResources, Returns, Statuses
<1>5. \A s \in Slots : block(s) \in Allocation
  <2>1. Conventional \in Types /\ {"WB"} \in SUBSET Attributes
    BY TypesAssumption DEF Attributes
  <2>2. \A s \in Slots : A[s].virt \in Nat
    BY <1>1 DEF Allocation
  <2>. QED BY <1>2, <2>1, <2>2 DEF Allocation
<1>6. SUFFICES /\ Sound(B, first_allocation', RegionPages(n + 1))
               /\ InUse(B) = {s \in Slots : s < n + 1}
               /\ first_allocation' \in Slots \cup {None}
  BY <1>1, <1>3, <1>4 DEF Sound, AllocatorInv, TypeOK, ListedIsInUse, BlocksDisjoint,
     PagesConserved, Booting
<1>7. CASE first_allocation = None
  <2>1. 0 \in Slots /\ InUse(A) = {} /\ n = 0
    BY <1>1, <1>7, SlotsAssumption DEF Listed, Slots
  <2>2. B = [A EXCEPT ![0] = block(0)] /\ first_allocation' = 0
    BY <1>7 DEF add_initial_allocation
  <2>3. /\ B[0].in_use /\ B[0].next = None /\ \A s \in Slots \ {0} : B[s] = A[s]
        /\ B[0].start = Regions[n + 1].start /\ B[0].pages = Regions[n + 1].pages
    BY <1>1, <2>1, <2>2
  <2>4. B \in [Slots -> Allocation]
    BY <1>1, <1>5, <2>1, <2>2
  <2>5. InUse(B) = {0}
    BY <2>1, <2>3 DEF InUse
  <2>6. Listed(B, 0)
    BY <2>1, <2>3, <2>5, FirstLink
  <2>7. Disjoint(B) /\ PagesOf(B) = P
    <3>1. Block(B, 0) = P
      BY <1>2, <2>3 DEF Block, End
    <3>. QED BY <2>5, <3>1, Zenon DEF Disjoint, PagesOf
  <2>8. P = RegionPages(n + 1)
    <3>1. PagesOf(A) = {} /\ n < MaxAllocations
      BY <2>1, SlotsAssumption DEF PagesOf
    <3>. QED BY <1>1, <1>2, <3>1
  <2>9. {0} = {s \in Slots : s < n + 1}
    BY <2>1, SlotsAssumption DEF Slots
  <2>. QED BY <2>1, <2>2, <2>4, <2>5, <2>6, <2>7, <2>8, <2>9, Zenon DEF Sound
<1>8. CASE first_allocation # None /\ new = None
  <2>1. InUse(A) = Slots
    BY <1>1, <1>8, FreeSlot
  <2>2. n >= MaxAllocations
    <3>1. MaxAllocations - 1 \in Slots
      BY SlotsAssumption DEF Slots
    <3>. QED BY <1>1, <2>1, <3>1, SlotsAssumption
  <2>3. B = A /\ first_allocation' = first_allocation
    BY <1>8 DEF add_initial_allocation
  <2>4. InUse(A) = {s \in Slots : s < n + 1}
    BY <1>1, <2>2, SlotsAssumption DEF Slots
  <2>5. PagesOf(B) = RegionPages(n + 1)
    BY <1>1, <1>2, <2>2, <2>3
  <2>. QED BY <1>1, <2>3, <2>4, <2>5 DEF Sound
<1>9. CASE first_allocation # None /\ new # None
  <2>1. new \in Slots \ InUse(A) /\ \A j \in Slots \ InUse(A) : new <= j
    BY <1>1, <1>9, FreeSlot
  <2>2. new = n /\ n < MaxAllocations
    BY <1>1, <2>1, SlotsAssumption DEF Slots
  <2>3. PICK last \in InUse(A) :
          /\ A[last].next = None
          /\ B = [A EXCEPT ![last] = [@ EXCEPT !.next = new], ![new] = block(new)]
    BY <1>9 DEF add_initial_allocation
  <2>4. first_allocation' = first_allocation
    BY <1>9 DEF add_initial_allocation
  <2>. HIDE DEF new
  <2>5. last \in Slots /\ last # new /\ A[last] \in Allocation
    BY <1>1, <2>1 DEF InUse
  <2>6. /\ B[last] = [A[last] EXCEPT !.next = new] /\ B[new] = block(new)
        /\ \A s \in Slots \ {last, new} : B[s] = A[s]
    BY <1>1, <2>1, <2>3, <2>5
  <2>6a. /\ B[new].in_use /\ B[new].next = None
         /\ B[new].start = Regions[n + 1].start /\ B[new].pages = Regions[n + 1].pages
    BY <2>6
  <2>7. B[last] \in Allocation
    BY <2>1, <2>5, <2>6 DEF Allocation
  <2>8. B \in [Slots -> Allocation]
    BY <1>1, <1>5, <2>1, <2>3, <2>6, <2>7
  <2>9. /\ B[last].next = new /\ B[last].in_use = A[last].in_use
        /\ B[last].start = A[last].start /\ B[last].pages = A[last].pages
    BY <2>5, <2>6 DEF Allocation
  <2>9a. \A s \in Slots \ {last, new} : B[s] = A[s]
    BY <2>6
  <2>. HIDE DEF block
  <2>10. InUse(B) = InUse(A) \cup {new}
    BY <2>1, <2>6a, <2>9, <2>9a DEF InUse
  <2>11. B[new].next = A[last].next /\ \A s \in InUse(A) \ {last} : B[s].next = A[s].next
    BY <2>1, <2>3, <2>6a, <2>9a, Zenon DEF InUse
  <2>12. Listed(B, first_allocation)
    BY <1>1, <2>1, <2>9, <2>10, <2>11, InsertLinks
  <2>13. (\A s \in InUse(A) : Block(B, s) = Block(A, s)) /\ Block(B, new) = P
    <3>1. \A s \in InUse(A) : B[s].start = A[s].start /\ B[s].pages = A[s].pages
      BY <2>1, <2>9, <2>9a DEF InUse
    <3>2. Block(B, new) = P
      BY <1>2, <2>6a DEF Block, End
    <3>. QED BY <3>1, <3>2 DEF Block, End
  <2>. HIDE DEF P
  <2>14. PagesOf(B) = RegionPages(n + 1)
    <3>1. PagesOf(B) = PagesOf(A) \cup P
      BY <2>10, <2>13 DEF PagesOf
    <3>. QED BY <1>1, <1>2, <2>2, <3>1
  <2>15. \A s \in InUse(A) : Block(A, s) \cap P = {}
    BY <1>1, <1>2, <2>2 DEF PagesOf
  <2>16. Disjoint(B)
    BY <1>1, <2>1, <2>10, <2>13, <2>15 DEF Disjoint
  <2>17. InUse(B) = {s \in Slots : s < n + 1}
    BY <1>1, <2>1, <2>2, <2>10 DEF Slots
  <2>. QED BY <1>1, <2>4, <2>8, <2>12, <2>14, <2>16, <2>17 DEF Sound
<1>. QED BY <1>7, <1>8, <1>9

\* The virtual address a map gives to a block is one of the map, or the old one.
LEMMA MappedType ==
  ASSUME NEW A \in [Slots -> Allocation], NEW map \in VirtualMaps, NEW n \in Nat,
         n <= Len(map), NEW s \in Slots
  PROVE  Mapped(A, map, n, s) \in Nat
<1>. DEFINE R == [start : Nat, virt : Nat]
            Is == {i \in 1 .. n : /\ map[i].start = A[s].start
                                  /\ \A t \in InUse(A) : A[t].start = A[s].start =>
                                        t = s \/ Before(A, s, t)}
            Back == {n - i : i \in Is}
<1>1. A[s].virt \in Nat
  BY DEF Allocation
<1>2. map \in Seq(R)
  BY RequestsAssumption
<1>3. CASE ~ A[s].in_use \/ Is = {}
  <2>1. Mapped(A, map, n, s) = A[s].virt
    BY <1>3 DEF Mapped
  <2>. QED BY <1>1, <2>1
<1>4. CASE A[s].in_use /\ Is # {}
  <2>1. Is \subseteq 1 .. n /\ 1 .. n \subseteq 1 .. Len(map)
    BY <1>2
  <2>2. Mapped(A, map, n, s) = map[CHOOSE i \in Is : \A j \in Is : j <= i].virt
    BY <1>4 DEF Mapped
  <2>. HIDE DEF Is
  <2>3. Back # {} /\ Back \in SUBSET Nat
    <3>1. \A i \in Is : n - i \in Nat
      BY <2>1
    <3>. QED BY <1>4, <3>1
  <2>4. \E m \in Back : \A k \in Back : m <= k
    <3>. HIDE DEF Back
    <3>. QED BY <2>3, LeastNat
  <2>5. \E i \in Is : \A j \in Is : n - i <= n - j
    BY <2>4
  <2>6. \E i \in Is : \A j \in Is : j <= i
    <3>1. PICK i \in Is : \A j \in Is : n - i <= n - j
      BY <2>5
    <3>2. \A j \in Is : j <= i
      BY <2>1, <3>1
    <3>. QED BY <3>2
  <2>7. (CHOOSE i \in Is : \A j \in Is : j <= i) \in 1 .. Len(map)
    BY <2>1, <2>6, Zenon
  <2>. HIDE DEF R
  <2>8. \A k \in 1 .. Len(map) : map[k] \in R
    BY <1>2
  <2>9. \A k \in 1 .. Len(map) : map[k].virt \in Nat
    BY <2>8 DEF R
  <2>. QED BY <2>2, <2>7, <2>9
<1>. QED BY <1>3, <1>4

LEMMA UpdateSound ==
  ASSUME NEW f, NEW P, Sound(allocations, f, P), NEW map \in VirtualMaps,
         update_virtual_addresses(map)
  PROVE  Sound(allocations', f, P) /\ ret' \in [status : Statuses, address : Nat]
<1>. DEFINE A == allocations
            Unknown == {i \in 1 .. Len(map) : \A s \in InUse(A) : A[s].start # map[i].start}
            n == IF Unknown = {} THEN Len(map)
                 ELSE (CHOOSE i \in Unknown : \A j \in Unknown : i <= j) - 1
            B == [s \in Slots |-> [A[s] EXCEPT !.virt = Mapped(A, map, n, s)]]
<1>1. A \in [Slots -> Allocation]
  BY DEF Sound
<1>2. Len(map) \in Nat
  BY RequestsAssumption
<1>3. n \in Nat /\ n <= Len(map)
  <2>1. CASE Unknown = {}
    BY <1>2, <2>1
  <2>2. CASE Unknown # {}
    <3>1. Unknown \in SUBSET Nat /\ Unknown \subseteq 1 .. Len(map)
      OBVIOUS
    <3>. HIDE DEF Unknown
    <3>2. \E i \in Unknown : \A j \in Unknown : i <= j
      BY <2>2, <3>1, LeastNat
    <3>3. (CHOOSE i \in Unknown : \A j \in Unknown : i <= j) \in 1 .. Len(map)
      BY <3>1, <3>2, Zenon
    <3>. QED BY <1>2, <2>2, <3>3
  <2>. QED BY <2>1, <2>2
<1>4. allocations' = B
  BY DEF update_virtual_addresses
<1>5. ret' \in [status : Statuses, address : Nat]
  BY DEF update_virtual_addresses, Returns, Statuses
<1>. HIDE DEF n, Unknown
<1>6. \A s \in Slots : A[s] \in Allocation /\ Mapped(A, map, n, s) \in Nat
  BY <1>1, <1>3, MappedType
<1>7. \A s \in Slots : B[s] = [A[s] EXCEPT !.virt = Mapped(A, map, n, s)]
  OBVIOUS
<1>8. \A s \in Slots : B[s] \in Allocation
  BY <1>6, <1>7 DEF Allocation
<1>9. B \in [Slots -> Allocation]
  BY <1>8
<1>10. \A s \in Slots : /\ B[s].in_use = A[s].in_use /\ B[s].next = A[s].next
                        /\ B[s].start = A[s].start /\ B[s].pages = A[s].pages
  BY <1>6, <1>7 DEF Allocation
<1>. HIDE DEF B
<1>11. Sound(B, f, P)
  BY <1>9, <1>10, SameBlocks
<1>. QED BY <1>4, <1>5, <1>11

LEMMA FreeSound ==
  ASSUME NEW f, NEW P, Sound(allocations, f, P), NEW address \in Nat,
         free_pages(address)
  PROVE  Sound(allocations', f, P) /\ ret' \in [status : Statuses, address : Nat]
<1>1. ret' \in [status : Statuses, address : Nat]
  <2>1. Returns("NOT_FOUND", 0) \/ Returns("SUCCESS", 0)
    BY Zenon DEF free_pages
  <2>. QED BY <2>1 DEF Returns, Statuses
<1>2. CASE allocations' = allocations
  BY <1>1, <1>2
<1>3. CASE allocations' # allocations
  <2>1. PICK s \in InUse(allocations) :
          allocations' = merge_free_memory(
            [allocations EXCEPT ![s] = [@ EXCEPT !.type = Conventional]])
    BY <1>3, Zenon DEF free_pages
  <2>2. Conventional \in Types
    BY TypesAssumption
  <2>3. Sound([allocations EXCEPT ![s] = [@ EXCEPT !.type = Conventional]], f, P)
    BY <2>2, TypeOnlySound
  <2>4. Sound(allocations', f, P)
    BY <2>1, <2>3, MergeSound
  <2>. QED BY <1>1, <2>4
<1>. QED BY <1>2, <1>3

-----------------------------------------------------------------------------
(* The theorems *)

LEMMA InitInv == Init => AllocatorInv
<1>. SUFFICES ASSUME Init PROVE AllocatorInv
  OBVIOUS
<1>1. \A s \in Slots : /\ allocations[s] = Released([virt |-> 0])
                       /\ Released([virt |-> 0]).in_use = FALSE
  BY DEF Init, Released
<1>2. InUse(allocations) = {}
  BY <1>1 DEF InUse
<1>3. Released([virt |-> 0]) \in Allocation
  <2>1. {} \in SUBSET Attributes /\ None \in Slots \cup {None} /\ Reserved \in Types
    BY TypesAssumption
  <2>. QED BY <2>1 DEF Released, Allocation
<1>4. TypeOK
  BY <1>3, RegionsAssumption DEF Init, TypeOK, Statuses
<1>5. ListedIsInUse /\ BlocksDisjoint
  BY <1>2 DEF Init, ListedIsInUse, Listed, BlocksDisjoint, Disjoint
<1>6. PagesConserved
  BY <1>2 DEF Init, PagesConserved, PagesOf, RegionPages
<1>7. Booting
  <2>1. {s \in Slots : s < 0} = {}
    BY SlotsAssumption DEF Slots
  <2>. QED BY <1>2, <2>1 DEF Init, Booting
<1>. QED BY <1>4, <1>5, <1>6, <1>7 DEF AllocatorInv

\* The invariant from what an operation leaves, once the regions are handed over.
LEMMA InvAfter ==
  ASSUME NEW f, f = first_allocation, Sound(allocations', f, RegionPages(region)),
         ret' \in [status : Statuses, address : Nat], key' \in Nat,
         region = Len(Regions), UNCHANGED <<first_allocation, region>>
  PROVE  AllocatorInv'
<1>1. region' = Len(Regions) /\ Len(Regions) \in Nat
  BY RegionsAssumption
<1>2. Booting'
  BY <1>1 DEF Booting
<1>3. first_allocation \in Slots \cup {None}
  BY NoneIsNoSlot DEF Sound, Listed, InUse
<1>. QED BY <1>1, <1>2, <1>3 DEF Sound, AllocatorInv, TypeOK, ListedIsInUse, BlocksDisjoint, PagesConserved

LEMMA InvSound ==
  ASSUME AllocatorInv
  PROVE  Sound(allocations, first_allocation, RegionPages(region)) /\ key \in Nat
BY DEF Sound, AllocatorInv, TypeOK, ListedIsInUse, BlocksDisjoint, PagesConserved

\* allocate_pages and free_pages keep the invariant, whatever is asked for.
LEMMA AllocateInv ==
  ASSUME AllocatorInv, NEW r \in Request, allocate_pages(r)
  PROVE  AllocatorInv'
<1>1. Sound(allocations, first_allocation, RegionPages(region)) /\ key \in Nat
  BY InvSound
<1>2. region = Len(Regions) /\ UNCHANGED <<first_allocation, region>>
  BY DEF allocate_pages
<1>3. CASE OutOfResources /\ UNCHANGED <<allocations, key>>
  <2>1. ret' \in [status : Statuses, address : Nat]
    BY <1>3 DEF OutOfResources, Returns, Statuses
  <2>. QED BY <1>1, <1>2, <1>3, <2>1, InvAfter
<1>4. CASE ~ (OutOfResources /\ UNCHANGED <<allocations, key>>)
  <2>1. PICK dest \in Candidates(allocations, r) :
          AllocateWhole(r, dest) \/ AllocateFront(r, dest) \/ AllocateInside(r, dest)
    BY <1>4 DEF allocate_pages
  <2>2. /\ Sound(allocations', first_allocation, RegionPages(region))
        /\ ret' \in [status : Statuses, address : Nat]
    BY <1>1, <2>1, AllocateSound
  <2>3. key' \in Nat
    BY <1>1, <1>4 DEF allocate_pages
  <2>. QED BY <1>2, <2>2, <2>3, InvAfter
<1>. QED BY <1>3, <1>4

LEMMA FreeInv ==
  ASSUME AllocatorInv, NEW address \in Nat, free_pages(address)
  PROVE  AllocatorInv'
<1>1. Sound(allocations, first_allocation, RegionPages(region)) /\ key \in Nat
  BY InvSound
<1>2. /\ Sound(allocations', first_allocation, RegionPages(region))
      /\ ret' \in [status : Statuses, address : Nat]
  BY <1>1, FreeSound
<1>3. region = Len(Regions) /\ UNCHANGED <<first_allocation, region, key>>
  BY DEF free_pages
<1>. QED BY <1>1, <1>2, <1>3, InvAfter

LEMMA NextInv == AllocatorInv /\ [Next]_vars => AllocatorInv'
<1>. SUFFICES ASSUME AllocatorInv, [Next]_vars PROVE AllocatorInv'
  OBVIOUS
<1>1. Sound(allocations, first_allocation, RegionPages(region)) /\ key \in Nat
  BY InvSound
<1>2. CASE add_initial_allocation
  BY <1>2, AddInitial
<1>3. ASSUME NEW r \in Requests, allocate_pages(r)
      PROVE  AllocatorInv'
  BY <1>3, AllocateInv, RequestsAssumption
<1>4. ASSUME NEW address \in FreeAddresses, free_pages(address)
      PROVE  AllocatorInv'
  BY <1>4, FreeInv, RequestsAssumption
<1>5. ASSUME NEW map \in VirtualMaps, update_virtual_addresses(map)
      PROVE  AllocatorInv'
  <2>1. /\ Sound(allocations', first_allocation, RegionPages(region))
        /\ ret' \in [status : Statuses, address : Nat]
    BY <1>1, <1>5, UpdateSound
  <2>2. region = Len(Regions) /\ UNCHANGED <<first_allocation, region, key>>
    BY <1>5 DEF update_virtual_addresses
  <2>. QED BY <1>1, <2>1, <2>2, InvAfter
<1>6. CASE UNCHANGED vars
  BY <1>6 DEF vars, AllocatorInv, TypeOK, ListedIsInUse, BlocksDisjoint, PagesConserved, Booting
<1>. QED BY <1>2, <1>3, <1>4, <1>5, <1>6 DEF Next

\* AllocatorInv is an inductive invariant of the allocator.
THEOREM Invariance == Spec => []AllocatorInv
BY InitInv, NextInv, PTL DEF Spec

\* Every operation of alloc.rs keeps the slot array, the head, the key and the
\* returned status and address of their types.
THEOREM TypeCorrect == Spec => []TypeOK
<1>1. AllocatorInv => TypeOK
  BY DEF AllocatorInv
<1>. QED BY <1>1, Invariance, PTL

\* The chain of next_allocation links always visits exactly the slots in use
\* and ends, whatever sequence of splits and merges built it.
THEOREM ListStructure == Spec => []ListedIsInUse
<1>1. AllocatorInv => ListedIsInUse
  BY DEF AllocatorInv
<1>. QED BY <1>1, Invariance, PTL

\* No page is ever in two blocks of the memory map.
THEOREM Disjointness == Spec => []BlocksDisjoint
<1>1. AllocatorInv => BlocksDisjoint
  BY DEF AllocatorInv
<1>. QED BY <1>1, Invariance, PTL

\* The memory map always covers exactly the pages initialize_memory handed
\* over: none is lost and none invented by a split, a merge or a failure.
THEOREM Conservation == Spec => []PagesConserved
<1>1. AllocatorInv => PagesConserved
  BY DEF AllocatorInv
<1>. QED BY <1>1, Invariance, PTL

-----------------------------------------------------------------------------
(* Allocator implements PagePool.  Splitting and merging leave the type of *)
(* every page alone (KindOf), and giving a block another type changes      *)
(* exactly its pages; an operation of the allocator is some splits, at     *)
(* most one new type, and a merge.                                         *)

\* Blocks end within the address space: a block of zero pages has no page of memory and
\* could otherwise be anywhere.
Bounded(A) == \A s \in InUse(A) : End(A, s) <= MaxPage

-----------------------------------------------------------------------------
(* The types of pages *)

\* A slot in use has a block with a beginning and an end.
LEMMA BlockRange ==
  ASSUME NEW A \in [Slots -> Allocation], NEW s \in InUse(A)
  PROVE  /\ s \in Slots /\ A[s].type \in Types
         /\ A[s].start \in Nat /\ A[s].pages \in Nat /\ End(A, s) \in Nat
         /\ \A p \in Nat : p \in Block(A, s) <=> A[s].start <= p /\ p < End(A, s)
<1>1. s \in Slots /\ A[s] \in Allocation
  BY DEF InUse
<1>2. A[s].start \in Nat /\ A[s].pages \in Nat /\ A[s].type \in Types
  BY <1>1 DEF Allocation
<1>. QED BY <1>1, <1>2 DEF End, Block

\* The type of a page is that of the only block it is in.
LEMMA KindInside ==
  ASSUME NEW A \in [Slots -> Allocation], Disjoint(A), NEW s \in InUse(A),
         NEW p \in Pages, p \in Block(A, s)
  PROVE  KindOf(A)[p] = A[s].type
<1>. DEFINE Cover == {t \in InUse(A) : A[t].start <= p /\ p < End(A, t)}
<1>0. p \in Nat
  BY PagesAssumption DEF Pages
<1>1. \A t \in InUse(A) : t \in Cover <=> p \in Block(A, t)
  BY <1>0, BlockRange
<1>2. Cover = {s}
  BY <1>1 DEF Disjoint
<1>3. KindOf(A)[p] = IF Cover = {} THEN "absent" ELSE A[CHOOSE t \in Cover : TRUE].type
  BY DEF KindOf
<1>. HIDE DEF Cover
<1>. QED BY <1>2, <1>3

LEMMA KindOutside ==
  ASSUME NEW A \in [Slots -> Allocation], NEW p \in Pages, p \notin PagesOf(A)
  PROVE  KindOf(A)[p] = "absent"
<1>. DEFINE Cover == {t \in InUse(A) : A[t].start <= p /\ p < End(A, t)}
<1>0. p \in Nat
  BY PagesAssumption DEF Pages
<1>1. \A t \in InUse(A) : t \in Cover <=> p \in Block(A, t)
  BY <1>0, BlockRange
<1>2. Cover = {}
  BY <1>1 DEF PagesOf
<1>3. KindOf(A)[p] = IF Cover = {} THEN "absent" ELSE A[CHOOSE t \in Cover : TRUE].type
  BY DEF KindOf
<1>. HIDE DEF Cover
<1>. QED BY <1>2, <1>3

LEMMA KindsEqual ==
  ASSUME NEW A, NEW B, \A p \in Pages : KindOf(B)[p] = KindOf(A)[p]
  PROVE  KindOf(B) = KindOf(A)
<1>1. DOMAIN KindOf(A) = Pages /\ DOMAIN KindOf(B) = Pages
  BY DEF KindOf
<1>2. KindOf(A) = [p \in Pages |-> KindOf(A)[p]] /\ KindOf(B) = [p \in Pages |-> KindOf(B)[p]]
  BY DEF KindOf
<1>. QED BY <1>2

\* Blocks may be cut and joined: what counts is that each page stays in a block of its type.
LEMMA SameKinds ==
  ASSUME NEW A, NEW B, NEW f, NEW P, Sound(A, f, P), Sound(B, f, P),
         \A s \in InUse(A) : \A p \in Block(A, s) :
           \E t \in InUse(B) : p \in Block(B, t) /\ B[t].type = A[s].type
  PROVE  KindOf(B) = KindOf(A)
<1>1. /\ A \in [Slots -> Allocation] /\ Disjoint(A) /\ PagesOf(A) = P
      /\ B \in [Slots -> Allocation] /\ Disjoint(B) /\ PagesOf(B) = P
  BY DEF Sound
<1>2. ASSUME NEW p \in Pages PROVE KindOf(B)[p] = KindOf(A)[p]
  <2>1. CASE p \notin P
    BY <1>1, <2>1, KindOutside
  <2>2. CASE p \in P
    <3>1. PICK s \in InUse(A) : p \in Block(A, s)
      BY <1>1, <2>2 DEF PagesOf
    <3>2. PICK t \in InUse(B) : p \in Block(B, t) /\ B[t].type = A[s].type
      BY <3>1
    <3>3. KindOf(A)[p] = A[s].type
      BY <1>1, <3>1, KindInside
    <3>4. KindOf(B)[p] = B[t].type
      BY <1>1, <3>2, KindInside
    <3>. QED BY <3>2, <3>3, <3>4
  <2>. QED BY <2>1, <2>2
<1>. QED BY <1>2, KindsEqual

\* split_allocation cuts a block into two of its type.
LEMMA SplitKinds ==
  ASSUME NEW A, NEW f, NEW P, Sound(A, f, P), NEW o \in InUse(A), NEW n \in Nat,
         n <= A[o].pages, find_free_allocation(A) # None, Bounded(A)
  PROVE  /\ KindOf(split_allocation(A, o, n)) = KindOf(A)
         /\ Bounded(split_allocation(A, o, n))
<1>. DEFINE B == split_allocation(A, o, n)
            new == find_free_allocation(A)
<1>1. Sound(B, f, P)
  BY SplitSound
<1>2. A \in [Slots -> Allocation]
  BY DEF Sound
<1>3. /\ new \in Slots \ InUse(A)
      /\ InUse(B) = InUse(A) \cup {new}
      /\ B[o].type = A[o].type /\ B[o].start = A[o].start /\ B[o].pages = n
      /\ B[new].type = A[o].type
      /\ B[new].start = A[o].start + n /\ B[new].pages = A[o].pages - n
      /\ \A s \in Slots \ {o, new} : B[s] = A[s]
  BY <1>2, SplitSlots
<1>. HIDE DEF B, new
<1>4. A[o].start \in Nat /\ A[o].pages \in Nat
  BY <1>2, BlockRange
<1>5. \A s \in InUse(A) \ {o} : B[s] = A[s] /\ s \in InUse(B)
  BY <1>3 DEF InUse
<1>6. ASSUME NEW s \in InUse(A), NEW p \in Block(A, s)
      PROVE  \E t \in InUse(B) : p \in Block(B, t) /\ B[t].type = A[s].type
  <2>1. CASE s # o
    BY <1>5, <2>1 DEF Block, End
  <2>2. CASE s = o
    <3>1. p \in Block(B, o) \/ p \in Block(B, new)
      BY <1>3, <1>4, <2>2 DEF Block, End
    <3>. QED BY <1>3, <2>2, <3>1
  <2>. QED BY <2>1, <2>2
<1>7. KindOf(B) = KindOf(A)
  BY <1>1, <1>6, SameKinds
<1>8. Bounded(B)
  <2>1. End(B, o) <= MaxPage /\ End(B, new) <= MaxPage
    BY <1>3, <1>4, PagesAssumption DEF Bounded, End
  <2>2. \A s \in InUse(A) \ {o} : End(B, s) <= MaxPage
    BY <1>5 DEF Bounded, End
  <2>. QED BY <1>3, <2>1, <2>2 DEF Bounded
<1>. QED BY <1>7, <1>8 DEF B

\* The slots a merge joins are all free memory.
LEMMA RunType ==
  ASSUME NEW A, NEW f, Listed(A, f), NEW h \in InUse(A), NEW u \in Run(A, h)
  PROVE  A[u].type = A[h].type
<1>1. CASE u = h
  BY <1>1
<1>2. CASE u # h
  <2>1. A[u].type = Conventional
    BY <1>2, RunStep DEF Mergeable
  <2>2. Mergeable(A, h)
    <3>. SUFFICES ASSUME ~ Mergeable(A, h) PROVE FALSE
      OBVIOUS
    <3>. DEFINE C == {h}
    <3>1. C \in SUBSET InUse(A) /\ h \in C /\ \A w \in C : Mergeable(A, w) => A[w].next \in C
      OBVIOUS
    <3>2. Run(A, h) \subseteq C
      <4>. HIDE DEF C
      <4>. QED BY <3>1, RunLeast
    <3>. QED BY <1>2, <3>2
  <2>. QED BY <2>1, <2>2 DEF Mergeable
<1>. QED BY <1>1, <1>2

\* merge_free_memory joins free blocks only.
LEMMA MergeKinds ==
  ASSUME NEW A, NEW f, NEW P, Sound(A, f, P), Bounded(A)
  PROVE  KindOf(merge_free_memory(A)) = KindOf(A) /\ Bounded(merge_free_memory(A))
<1>. DEFINE M == merge_free_memory(A)
<1>1. A \in [Slots -> Allocation] /\ Listed(A, f) /\ Sound(M, f, P)
  BY MergeSound DEF Sound
<1>2. /\ InUse(M) = Heads(A)
      /\ \A h \in Heads(A) : /\ M[h].start = A[h].start
                             /\ End(M, h) = End(A, RunLast(A, h))
                             /\ M[h].type = A[h].type
  BY <1>1, MergeSlots
<1>. HIDE DEF M
<1>3. \A h \in Heads(A) : h \in InUse(A)
  BY DEF Heads
<1>4. ASSUME NEW s \in InUse(A), NEW p \in Block(A, s)
      PROVE  \E t \in InUse(M) : p \in Block(M, t) /\ M[t].type = A[s].type
  <2>1. PICK h \in Heads(A) : s \in Run(A, h)
    BY <1>1, RunsCover
  <2>2. Block(M, h) = UNION {Block(A, u) : u \in Run(A, h)}
    <3>1. Block(M, h) = A[h].start .. End(A, RunLast(A, h)) - 1
      BY <1>2 DEF Block
    <3>. QED BY <1>1, <1>3, <3>1, RunPages
  <2>3. p \in Block(M, h)
    BY <2>1, <2>2
  <2>4. A[s].type = A[h].type
    BY <1>1, <1>3, <2>1, RunType
  <2>. QED BY <1>2, <2>3, <2>4
<1>5. KindOf(M) = KindOf(A)
  BY <1>1, <1>4, SameKinds
<1>6. Bounded(M)
  <2>1. \A h \in Heads(A) : RunLast(A, h) \in InUse(A)
    BY <1>1, <1>3, RunEnd, RunClosed
  <2>. QED BY <1>2, <2>1 DEF Bounded
<1>. QED BY <1>5, <1>6 DEF M

\* A block with another type, and attributes, changes the type of its pages.
LEMMA RetypeKinds ==
  ASSUME NEW A, NEW f, NEW P, Sound(A, f, P), NEW B, Sound(B, f, P), NEW s \in InUse(A), NEW type,
         \A u \in Slots : /\ B[u].in_use = A[u].in_use /\ B[u].start = A[u].start
                          /\ B[u].pages = A[u].pages
                          /\ u # s => B[u].type = A[u].type,
         B[s].type = type
  PROVE  /\ KindOf(B) = [p \in Pages |-> IF p \in Block(A, s) THEN type ELSE KindOf(A)[p]]
         /\ Bounded(A) => Bounded(B)
<1>1. /\ A \in [Slots -> Allocation] /\ Disjoint(A) /\ PagesOf(A) = P
      /\ B \in [Slots -> Allocation] /\ Disjoint(B) /\ PagesOf(B) = P
  BY DEF Sound
<1>2. InUse(B) = InUse(A) /\ \A u \in InUse(A) : Block(B, u) = Block(A, u) /\ End(B, u) = End(A, u)
  BY DEF InUse, Block, End
<1>3. ASSUME NEW p \in Pages
      PROVE  KindOf(B)[p] = IF p \in Block(A, s) THEN type ELSE KindOf(A)[p]
  <2>1. CASE p \in Block(A, s)
    BY <1>1, <1>2, <2>1, KindInside
  <2>2. CASE p \notin P
    <3>1. p \notin Block(A, s)
      BY <1>1, <2>2 DEF PagesOf
    <3>. QED BY <1>1, <2>2, <3>1, KindOutside
  <2>3. CASE p \in P /\ p \notin Block(A, s)
    <3>1. PICK u \in InUse(A) : p \in Block(A, u)
      BY <1>1, <2>3 DEF PagesOf
    <3>2. u # s /\ u \in Slots
      BY <2>3, <3>1 DEF InUse
    <3>3. KindOf(B)[p] = B[u].type
      BY <1>1, <1>2, <3>1, KindInside
    <3>4. KindOf(A)[p] = A[u].type
      BY <1>1, <3>1, KindInside
    <3>. QED BY <2>3, <3>2, <3>3, <3>4
  <2>. QED BY <2>1, <2>2, <2>3
<1>4. KindOf(B) = [p \in Pages |-> KindOf(B)[p]]
  BY DEF KindOf
<1>. QED BY <1>2, <1>3, <1>4 DEF Bounded

-----------------------------------------------------------------------------
(* Every operation is one of the pool *)

PoolInv == AllocatorInv /\ Bounded(allocations)

\* The pages of a range of the pool are those of a block.
LEMMA RangeIsBlock ==
  ASSUME NEW A \in [Slots -> Allocation], NEW s \in InUse(A)
  PROVE  /\ \A p \in Pages : p \in Block(A, s) <=> p \in Pool!Range(A[s].start, A[s].pages)
         /\ \A p \in Pages : p \in Block(A, s) <=> A[s].start <= p /\ p < End(A, s)
<1>1. Pages \subseteq Nat
  BY PagesAssumption DEF Pages
<1>. QED BY <1>1, BlockRange DEF Pool!Range, End

LEMMA StartIsPage ==
  ASSUME NEW A \in [Slots -> Allocation], NEW s \in InUse(A), Bounded(A)
  PROVE  A[s].start \in Pages /\ End(A, s) \in Pages
<1>1. A[s].start \in Nat /\ A[s].pages \in Nat /\ End(A, s) \in Nat /\ End(A, s) <= MaxPage
  BY BlockRange DEF Bounded
<1>. QED BY <1>1, PagesAssumption DEF Pages, End

\* OUT_OF_RESOURCES and NOT_FOUND with the pages as they were.
LEMMA FailIsFail ==
  ASSUME KindOf(allocations') = KindOf(allocations),
         Returns("OUT_OF_RESOURCES", 0) \/ Returns("NOT_FOUND", 0)
  PROVE  Pool!Fail
BY DEF Pool!Fail, Returns, kind

\* A free block of the size asked for, at a place the request allows, gets the type asked
\* for, after splits that changed no page.
LEMMA Grant ==
  ASSUME NEW f, NEW P, NEW B, Sound(B, f, P), Bounded(B), KindOf(B) = KindOf(allocations),
         NEW s \in InUse(B), B[s].type = Conventional,
         NEW r \in Request, B[s].pages = r.count, Pool!Placed(r, B[s].start),
         Sound(allocations', f, P),
         \A u \in Slots : /\ allocations'[u].in_use = B[u].in_use
                          /\ allocations'[u].start = B[u].start
                          /\ allocations'[u].pages = B[u].pages
                          /\ u # s => allocations'[u].type = B[u].type,
         allocations'[s].type = r.type, Returns("SUCCESS", B[s].start)
  PROVE  Bounded(allocations') /\ \E start \in Pages : Pool!Allocate(r, start)
<1>1. B \in [Slots -> Allocation] /\ Disjoint(B)
  BY DEF Sound
<1>2. /\ KindOf(allocations') = [p \in Pages |-> IF p \in Block(B, s) THEN r.type ELSE KindOf(B)[p]]
      /\ Bounded(allocations')
  BY RetypeKinds
<1>3. B[s].start \in Pages
  BY <1>1, StartIsPage
<1>4. \A p \in Pages : p \in Block(B, s) <=> p \in Pool!Range(B[s].start, r.count)
  BY <1>1, RangeIsBlock
<1>5. \A p \in Pool!Range(B[s].start, r.count) : KindOf(B)[p] = Conventional
  BY <1>1, <1>4, KindInside DEF Pool!Range
<1>6. Pool!Retype(Pool!Range(B[s].start, r.count), {Conventional}, r.type)
  <2>1. \A p \in Pool!Range(B[s].start, r.count) : kind[p] \in {Conventional}
    BY <1>5 DEF kind
  <2>2. kind' = [p \in Pages |-> IF p \in Pool!Range(B[s].start, r.count) THEN r.type ELSE kind[p]]
    BY <1>2, <1>4 DEF kind
  <2>. QED BY <2>1, <2>2 DEF Pool!Retype
<1>7. Pool!Allocate(r, B[s].start)
  BY <1>6 DEF Pool!Allocate, Pool!Returns, Returns
<1>. QED BY <1>2, <1>3, <1>7

\* What Succeed does to the array.
LEMMA SucceedSlots ==
  ASSUME NEW B \in [Slots -> Allocation], NEW s \in InUse(B), NEW type, Succeed(B, s, type)
  PROVE  /\ \A u \in Slots : /\ allocations'[u].in_use = B[u].in_use
                             /\ allocations'[u].start = B[u].start
                             /\ allocations'[u].pages = B[u].pages
                             /\ u # s => allocations'[u].type = B[u].type
         /\ allocations'[s].type = type
<1>1. s \in Slots /\ B[s] \in Allocation
  BY DEF InUse
<1>2. /\ \A u \in Slots \ {s} : allocations'[u] = B[u]
      /\ allocations'[s] = [B[s] EXCEPT !.type = type,
            !.attribute = @ \cup IF type \in RuntimeTypes THEN {"RUNTIME"} ELSE {}]
  BY <1>1 DEF Succeed, Assign
<1>3. /\ allocations'[s].in_use = B[s].in_use /\ allocations'[s].start = B[s].start
      /\ allocations'[s].pages = B[s].pages /\ allocations'[s].type = type
  BY <1>1, <1>2 DEF Allocation
<1>. QED BY <1>2, <1>3

\* Where the block found lies, the request may be placed.
LEMMA FitsPlaced ==
  ASSUME NEW A \in [Slots -> Allocation], NEW r \in Request, NEW dest \in Candidates(A, r)
  PROVE  /\ A[dest].type = Conventional
         /\ r.how = "Address" => /\ A[dest].start <= r.page /\ r.page + r.count <= End(A, dest)
                                 /\ Pool!Placed(r, r.page)
         /\ r.how # "Address" => Pool!Placed(r, A[dest].start)
         /\ r.page \in Nat /\ r.count \in Nat
<1>1. Fits(A, r, dest) /\ dest \in InUse(A)
  BY DEF Candidates
<1>2. r \in [how : {"Address", "Any", "Max"}, type : Types,
             count : Nat, page : Nat, aligned : BOOLEAN]
  BY DEF Request
<1>3. r.how \in {"Address", "Any", "Max"} /\ r.count \in Nat /\ r.page \in Nat
  BY <1>2
<1>4. End(A, dest) \in Nat /\ A[dest].start \in Nat
  BY <1>1, BlockRange
<1>. QED BY <1>1, <1>3, <1>4 DEF Fits, Pool!Placed

\* allocate_pages, once a block is found.
LEMMA AllocateSimulates ==
  ASSUME NEW f, NEW P, Sound(allocations, f, P), Bounded(allocations), NEW r \in Request,
         NEW dest \in Candidates(allocations, r),
         AllocateWhole(r, dest) \/ AllocateFront(r, dest) \/ AllocateInside(r, dest)
  PROVE  /\ Bounded(allocations')
         /\ Pool!Fail \/ \E start \in Pages : Pool!Allocate(r, start)
<1>. DEFINE A == allocations
            new == find_free_allocation(A)
<1>1. A \in [Slots -> Allocation] /\ Sound(allocations', f, P)
  BY AllocateSound DEF Sound
<1>2. /\ dest \in InUse(A) /\ dest \in Slots
      /\ A[dest].start \in Nat /\ A[dest].pages \in Nat
      /\ r.count <= A[dest].pages
  BY <1>1, FitsBounds
<1>3. /\ A[dest].type = Conventional
      /\ r.how = "Address" => /\ A[dest].start <= r.page /\ r.page + r.count <= End(A, dest)
                              /\ Pool!Placed(r, r.page)
      /\ r.how # "Address" => Pool!Placed(r, A[dest].start)
      /\ r.page \in Nat /\ r.count \in Nat
  BY <1>1, FitsPlaced
<1>4. ASSUME NEW B, Sound(B, f, P), Bounded(B), KindOf(B) = KindOf(A),
             NEW s \in InUse(B), B[s].type = Conventional, B[s].pages = r.count,
             Pool!Placed(r, B[s].start), Succeed(B, s, r.type)
      PROVE  Bounded(allocations') /\ \E start \in Pages : Pool!Allocate(r, start)
  <2>1. B \in [Slots -> Allocation] /\ Returns("SUCCESS", B[s].start)
    BY <1>4 DEF Sound, Succeed
  <2>2. /\ \A u \in Slots : /\ allocations'[u].in_use = B[u].in_use
                            /\ allocations'[u].start = B[u].start
                            /\ allocations'[u].pages = B[u].pages
                            /\ u # s => allocations'[u].type = B[u].type
        /\ allocations'[s].type = r.type
    BY <1>4, <2>1, SucceedSlots
  <2>. QED BY <1>1, <1>4, <2>1, <2>2, Grant
<1>5. ASSUME OutOfResources, Bounded(allocations'), KindOf(allocations') = KindOf(A)
      PROVE  Bounded(allocations') /\ Pool!Fail
  BY <1>5, FailIsFail DEF OutOfResources
<1>6. CASE AllocateWhole(r, dest)
  <2>1. A[dest] \in Allocation
    BY <1>1, <1>2
  <2>2. /\ A[dest].pages = r.count /\ Returns("SUCCESS", A[dest].start)
        /\ allocations' = [A EXCEPT ![dest] = [A[dest] EXCEPT !.type = r.type]]
    BY <1>6 DEF AllocateWhole
  <2>3. allocations'[dest] = [A[dest] EXCEPT !.type = r.type] /\ \A u \in Slots \ {dest} : allocations'[u] = A[u]
    BY <1>1, <1>2, <2>2
  <2>4. /\ allocations'[dest].in_use = A[dest].in_use /\ allocations'[dest].start = A[dest].start
        /\ allocations'[dest].pages = A[dest].pages /\ allocations'[dest].type = r.type
    BY <2>1, <2>3 DEF Allocation
  <2>5. Pool!Placed(r, A[dest].start)
    <3>1. r.how = "Address" => r.page = A[dest].start
      BY <1>2, <1>3, <2>2 DEF End
    <3>. QED BY <1>3, <3>1
  <2>6. \A u \in Slots : /\ allocations'[u].in_use = A[u].in_use
                         /\ allocations'[u].start = A[u].start
                         /\ allocations'[u].pages = A[u].pages
                         /\ u # dest => allocations'[u].type = A[u].type
    BY <2>3, <2>4
  <2>. QED BY <1>1, <1>2, <1>3, <2>2, <2>4, <2>5, <2>6, Grant
<1>7. CASE AllocateFront(r, dest)
  <2>1. CASE new = None
    BY <1>5, <1>7, <2>1 DEF AllocateFront
  <2>2. CASE new # None
    <3>. DEFINE B == split_allocation(A, dest, r.count)
    <3>1. Sound(B, f, P) /\ KindOf(B) = KindOf(A) /\ Bounded(B)
      BY <1>2, <1>3, <2>2, SplitSound, SplitKinds
    <3>2. /\ dest \in InUse(B) /\ B[dest].type = Conventional
          /\ B[dest].pages = r.count /\ B[dest].start = A[dest].start
      BY <1>1, <1>2, <1>3, <2>2, SplitSlots
    <3>3. Succeed(B, dest, r.type) /\ (r.how = "Address" => r.page = A[dest].start)
      BY <1>7, <2>2 DEF AllocateFront
    <3>. HIDE DEF B
    <3>4. Pool!Placed(r, B[dest].start)
      BY <1>3, <3>2, <3>3
    <3>. QED BY <1>4, <3>1, <3>2, <3>3, <3>4
  <2>. QED BY <2>1, <2>2
<1>8. CASE AllocateInside(r, dest)
  <2>. DEFINE n == r.page - A[dest].start
              A1 == split_allocation(A, dest, n)
  <2>1. CASE new = None
    BY <1>5, <1>8, <2>1 DEF AllocateInside
  <2>2. CASE new # None
    <3>0. r.how = "Address"
      BY <1>8 DEF AllocateInside
    <3>1. n \in Nat /\ n <= A[dest].pages
      BY <1>2, <1>3, <3>0 DEF End
    <3>2. Sound(A1, f, P) /\ KindOf(A1) = KindOf(A) /\ Bounded(A1)
      BY <1>2, <2>2, <3>1, SplitSound, SplitKinds
    <3>3. /\ new \in InUse(A1) /\ A1 \in [Slots -> Allocation] /\ A1[new].type = Conventional
          /\ A1[new].pages = A[dest].pages - n
          /\ A1[new].start = A[dest].start + n
      BY <1>1, <1>2, <1>3, <2>2, <3>1, SplitSlots
    <3>4. A1[new].start = r.page /\ r.count <= A1[new].pages /\ A1[new].pages \in Nat /\ Pool!Placed(r, r.page)
      BY <1>2, <1>3, <3>0, <3>1, <3>3 DEF End
    <3>4a. \/ A1[new].pages <= r.count /\ Succeed(A1, new, r.type)
           \/ OutOfResources /\ allocations' = A1
           \/ /\ A1[new].pages > r.count /\ find_free_allocation(A1) # None
              /\ Succeed(split_allocation(A1, new, r.count), new, r.type)
      BY <1>8, <2>2 DEF AllocateInside
    <3>. HIDE DEF A1, new, n
    <3>5. CASE A1[new].pages <= r.count /\ Succeed(A1, new, r.type)
      <4>1. A1[new].pages = r.count
        BY <1>3, <3>4, <3>5
      <4>. QED BY <1>4, <3>2, <3>3, <3>4, <3>5, <4>1
    <3>6. CASE OutOfResources /\ allocations' = A1
      BY <1>5, <3>2, <3>6
    <3>7. CASE /\ A1[new].pages > r.count /\ find_free_allocation(A1) # None
               /\ Succeed(split_allocation(A1, new, r.count), new, r.type)
      <4>. DEFINE B == split_allocation(A1, new, r.count)
      <4>1. Sound(B, f, P) /\ KindOf(B) = KindOf(A1) /\ Bounded(B)
        BY <1>3, <3>2, <3>3, <3>4, <3>7, SplitSound, SplitKinds
      <4>2. /\ new \in InUse(B) /\ B[new].type = Conventional
            /\ B[new].pages = r.count /\ B[new].start = r.page
        BY <1>3, <3>3, <3>4, <3>7, SplitSlots
      <4>3. Succeed(B, new, r.type)
        BY <3>7
      <4>. HIDE DEF B
      <4>. QED BY <1>4, <3>2, <3>4, <4>1, <4>2, <4>3
    <3>. QED BY <3>4a, <3>5, <3>6, <3>7
  <2>. QED BY <2>1, <2>2
<1>. QED BY <1>6, <1>7, <1>8

\* add_initial_allocation: the pages of the next region appear, or there is no slot.
LEMMA AddSimulates ==
  ASSUME PoolInv, add_initial_allocation
  PROVE  /\ Bounded(allocations')
         /\ Pool!Fail \/ \E i \in 1 .. Len(Regions) : Pool!AddRegion(i)
<1>. DEFINE A == allocations
            B == allocations'
            n == region
            R == Regions[n + 1]
            new == find_free_allocation(A)
            block(s) == [in_use |-> TRUE, next |-> None, type |-> Conventional,
                         start |-> R.start, virt |-> A[s].virt,
                         pages |-> R.pages, attribute |-> {"WB"}]
<1>1. /\ A \in [Slots -> Allocation] /\ Disjoint(A) /\ Listed(A, first_allocation)
      /\ PagesOf(A) = RegionPages(n) /\ n \in Nat /\ n < Len(Regions)
      /\ InUse(A) = {s \in Slots : s < n} /\ Bounded(A)
  BY RegionsAssumption DEF PoolInv, AllocatorInv, TypeOK, ListedIsInUse, BlocksDisjoint, PagesConserved,
         Booting, add_initial_allocation
<1>2. /\ R.start \in Nat /\ R.pages \in Nat /\ n + 1 \in 1 .. Len(Regions)
      /\ R.start + R.pages <= MaxPage
      /\ n < MaxAllocations => RegionPages(n) \cap (R.start .. R.start + R.pages - 1) = {}
  <2>1. n + 1 \in 1 .. Len(Regions)
    BY <1>1, RegionsAssumption
  <2>. QED BY <1>1, <2>1, NextRegion, PagesAssumption
<1>3. B \in [Slots -> Allocation] /\ Disjoint(B)
  BY AddInitial DEF PoolInv, AllocatorInv, TypeOK, BlocksDisjoint
<1>. HIDE DEF R
\* A new block with the region, the others as before.
<1>4. ASSUME NEW s \in Slots \ InUse(A), InUse(B) = InUse(A) \cup {s}, n < MaxAllocations,
             B[s].start = R.start, B[s].pages = R.pages, B[s].type = Conventional,
             \A u \in InUse(A) : B[u].start = A[u].start /\ B[u].pages = A[u].pages /\ B[u].type = A[u].type,
             Returns("SUCCESS", 0)
      PROVE  Bounded(B) /\ \E i \in 1 .. Len(Regions) : Pool!AddRegion(i)
  <2>1. Bounded(B)
    BY <1>1, <1>2, <1>4 DEF Bounded, End
  <2>2. /\ \A u \in InUse(A) : Block(B, u) = Block(A, u)
        /\ Block(B, s) = R.start .. R.start + R.pages - 1
    <3>1. \A u \in InUse(A) : Block(B, u) = Block(A, u)
      BY <1>4 DEF Block, End
    <3>2. Block(B, s) = R.start .. R.start + R.pages - 1
      BY <1>2, <1>4 DEF Block, End
    <3>. QED BY <3>1, <3>2
  <2>3. PagesOf(B) = PagesOf(A) \cup Block(B, s)
    BY <1>4, <2>2 DEF PagesOf
  <2>4. \A p \in Pages : p \in Block(B, s) <=> p \in Pool!Range(R.start, R.pages)
    BY <1>3, <1>4, RangeIsBlock
  <2>5. \A p \in Pool!Range(R.start, R.pages) : kind[p] \in {"absent"}
    <3>1. ASSUME NEW p \in Pool!Range(R.start, R.pages)
          PROVE  p \in Pages /\ p \notin PagesOf(A)
      <4>1. p \in Pages
        BY DEF Pool!Range
      <4>. QED BY <1>1, <1>2, <1>4, <2>2, <2>4, <4>1
    <3>. QED BY <1>1, <3>1, KindOutside DEF kind
  <2>6. \A p \in Pages : KindOf(B)[p] = IF p \in Pool!Range(R.start, R.pages) THEN Conventional ELSE KindOf(A)[p]
    <3>1. ASSUME NEW p \in Pages, p \in Block(B, s)
          PROVE  KindOf(B)[p] = Conventional
      BY <1>3, <1>4, <3>1, KindInside
    <3>2. ASSUME NEW p \in Pages, p \notin Block(B, s)
          PROVE  KindOf(B)[p] = KindOf(A)[p]
      <4>1. CASE p \notin PagesOf(A)
        BY <1>1, <1>3, <2>3, <3>2, <4>1, KindOutside
      <4>2. CASE p \in PagesOf(A)
        <5>1. PICK u \in InUse(A) : p \in Block(A, u)
          BY <4>2 DEF PagesOf
        <5>2. KindOf(A)[p] = A[u].type
          BY <1>1, <5>1, KindInside
        <5>3. KindOf(B)[p] = B[u].type
          BY <1>3, <1>4, <2>2, <5>1, KindInside
        <5>. QED BY <1>4, <5>2, <5>3
      <4>. QED BY <4>1, <4>2
    <3>. QED BY <2>4, <3>1, <3>2
  <2>7. kind' = [p \in Pages |-> IF p \in Pool!Range(R.start, R.pages) THEN Conventional ELSE kind[p]]
    <3>1. KindOf(B) = [p \in Pages |-> KindOf(B)[p]]
      BY DEF KindOf
    <3>. QED BY <2>6, <3>1 DEF kind
  <2>8. Pool!Retype(Pool!Range(R.start, R.pages), {Pool!Absent}, Conventional)
    BY <2>5, <2>7 DEF Pool!Retype, Pool!Absent
  <2>9. Pool!AddRegion(n + 1)
    BY <1>4, <2>8 DEF Pool!AddRegion, Pool!Returns, Returns, R
  <2>. QED BY <1>2, <2>1, <2>9
<1>5. CASE first_allocation = None
  <2>1. 0 \in Slots /\ InUse(A) = {} /\ n < MaxAllocations
    BY <1>1, <1>5, SlotsAssumption DEF Listed, Slots
  <2>2. B = [A EXCEPT ![0] = block(0)] /\ Returns("SUCCESS", 0)
    BY <1>5 DEF add_initial_allocation, R
  <2>3. B[0] = block(0) /\ \A s \in Slots \ {0} : B[s] = A[s]
    BY <1>1, <2>1, <2>2
  <2>4. B[0].in_use /\ B[0].start = R.start /\ B[0].pages = R.pages /\ B[0].type = Conventional
    BY <2>3
  <2>5. InUse(B) = InUse(A) \cup {0}
    BY <2>1, <2>3, <2>4 DEF InUse
  <2>. QED BY <1>4, <2>1, <2>2, <2>4, <2>5
<1>6. CASE first_allocation # None /\ new = None
  <2>1. OutOfResources /\ B = A
    BY <1>6 DEF add_initial_allocation
  <2>2. KindOf(B) = KindOf(A) /\ Bounded(B)
    BY <1>1, <2>1
  <2>. QED BY <2>1, <2>2, FailIsFail DEF OutOfResources
<1>7. CASE first_allocation # None /\ new # None
  <2>1. new \in Slots \ InUse(A)
    BY <1>1, <1>7, FreeSlot
  <2>2. n < MaxAllocations
    BY <1>1, <2>1, SlotsAssumption DEF Slots
  <2>3. PICK last \in InUse(A) :
          B = [A EXCEPT ![last] = [@ EXCEPT !.next = new], ![new] = block(new)]
    BY <1>7 DEF add_initial_allocation, R
  <2>4. Returns("SUCCESS", 0)
    BY <1>7 DEF add_initial_allocation
  <2>. HIDE DEF new
  <2>5. last \in Slots /\ last # new /\ A[last] \in Allocation
    BY <1>1, <2>1 DEF InUse
  <2>6. /\ B[last] = [A[last] EXCEPT !.next = new] /\ B[new] = block(new)
        /\ \A s \in Slots \ {last, new} : B[s] = A[s]
    BY <1>1, <2>1, <2>3, <2>5
  <2>7. /\ B[last].in_use = A[last].in_use /\ B[last].start = A[last].start
        /\ B[last].pages = A[last].pages /\ B[last].type = A[last].type
    BY <2>5, <2>6 DEF Allocation
  <2>8. B[new].in_use /\ B[new].start = R.start /\ B[new].pages = R.pages /\ B[new].type = Conventional
    BY <2>6
  <2>9. \A s \in Slots \ {last, new} : B[s] = A[s]
    BY <2>6
  <2>. HIDE DEF block
  <2>10. InUse(B) = InUse(A) \cup {new}
    BY <2>1, <2>7, <2>8, <2>9 DEF InUse
  <2>11. \A u \in InUse(A) : B[u].start = A[u].start /\ B[u].pages = A[u].pages /\ B[u].type = A[u].type
    BY <2>1, <2>7, <2>9 DEF InUse
  <2>. QED BY <1>4, <2>1, <2>2, <2>4, <2>8, <2>10, <2>11
<1>. QED BY <1>5, <1>6, <1>7

\* The array free_pages leaves for merge_free_memory.
Freed(A, s) == [A EXCEPT ![s] = [@ EXCEPT !.type = Conventional]]

LEMMA FreedKinds ==
  ASSUME NEW A, NEW f, NEW P, Sound(A, f, P), Bounded(A), NEW s \in InUse(A)
  PROVE  /\ Sound(Freed(A, s), f, P) /\ Bounded(Freed(A, s))
         /\ KindOf(Freed(A, s)) = [p \in Pages |-> IF p \in Block(A, s) THEN Conventional ELSE KindOf(A)[p]]
<1>. DEFINE B == Freed(A, s)
<1>1. A \in [Slots -> Allocation] /\ s \in Slots /\ A[s] \in Allocation
  BY DEF Sound, InUse
<1>2. Sound(B, f, P)
  BY TypesAssumption, TypeOnlySound, Zenon DEF Freed
<1>3. B[s] = [A[s] EXCEPT !.type = Conventional] /\ \A u \in Slots \ {s} : B[u] = A[u]
  BY <1>1 DEF Freed
<1>4. /\ B[s].in_use = A[s].in_use /\ B[s].start = A[s].start
      /\ B[s].pages = A[s].pages /\ B[s].type = Conventional
  BY <1>1, <1>3 DEF Allocation
<1>. HIDE DEF B
<1>5. \A u \in Slots : /\ B[u].in_use = A[u].in_use /\ B[u].start = A[u].start
                       /\ B[u].pages = A[u].pages
                       /\ u # s => B[u].type = A[u].type
  BY <1>3, <1>4
<1>6. /\ KindOf(B) = [p \in Pages |-> IF p \in Block(A, s) THEN Conventional ELSE KindOf(A)[p]]
      /\ Bounded(B)
  BY <1>2, <1>4, <1>5, RetypeKinds
<1>. QED BY <1>2, <1>6 DEF B

\* free_pages: the block found becomes free memory, and merging changes no page.
LEMMA FreeSimulates ==
  ASSUME NEW f, NEW P, Sound(allocations, f, P), Bounded(allocations),
         NEW address \in Nat, free_pages(address)
  PROVE  /\ Bounded(allocations')
         /\ Pool!Fail \/ \E start, end \in Pages, type \in Types : Pool!Free(start, end, type)
<1>. DEFINE A == allocations
<1>1. A \in [Slots -> Allocation] /\ Disjoint(A)
  BY DEF Sound
<1>2. CASE Returns("NOT_FOUND", 0) /\ UNCHANGED allocations
  BY <1>2, FailIsFail
<1>3. ASSUME NEW s \in InUse(A), allocations' = merge_free_memory(Freed(A, s)), Returns("SUCCESS", 0)
      PROVE  /\ Bounded(allocations')
             /\ \E start, end \in Pages, type \in Types : Pool!Free(start, end, type)
  <2>. DEFINE start == A[s].start
              end == End(A, s)
              Q == {p \in Pages : start <= p /\ p < end}
  <2>1. /\ Sound(Freed(A, s), f, P) /\ Bounded(Freed(A, s))
        /\ KindOf(Freed(A, s)) = [p \in Pages |-> IF p \in Block(A, s) THEN Conventional ELSE KindOf(A)[p]]
    BY FreedKinds
  <2>2. KindOf(allocations') = KindOf(Freed(A, s)) /\ Bounded(allocations')
    BY <1>3, <2>1, MergeKinds
  <2>3. \A p \in Pages : p \in Block(A, s) <=> p \in Q
    BY <1>1, RangeIsBlock
  <2>4. \A p \in Q : kind[p] \in {A[s].type}
    BY <1>1, <2>3, KindInside DEF kind
  <2>5. kind' = [p \in Pages |-> IF p \in Q THEN Conventional ELSE kind[p]]
    <3>. HIDE DEF Q
    <3>. QED BY <2>1, <2>2, <2>3 DEF kind
  <2>6. Pool!Free(start, end, A[s].type)
    BY <1>3, <2>4, <2>5 DEF Pool!Free, Pool!Retype, Pool!Returns, Returns
  <2>7. start \in Pages /\ end \in Pages /\ A[s].type \in Types
    BY <1>1, StartIsPage, BlockRange
  <2>. QED BY <2>2, <2>6, <2>7
<1>4. \/ Returns("NOT_FOUND", 0) /\ UNCHANGED allocations
      \/ \E s \in InUse(A) : allocations' = merge_free_memory(Freed(A, s)) /\ Returns("SUCCESS", 0)
  BY DEF free_pages, Freed
<1>. QED BY <1>2, <1>3, <1>4

\* update_virtual_addresses changes no page.
LEMMA UpdateKinds ==
  ASSUME NEW f, NEW P, Sound(allocations, f, P), Bounded(allocations),
         NEW map \in VirtualMaps, update_virtual_addresses(map)
  PROVE  KindOf(allocations') = KindOf(allocations) /\ Bounded(allocations')
<1>. DEFINE A == allocations
            B == allocations'
<1>1. A \in [Slots -> Allocation] /\ Sound(B, f, P)
  BY UpdateSound DEF Sound
<1>2. \A s \in Slots : /\ B[s].in_use = A[s].in_use /\ B[s].start = A[s].start
                       /\ B[s].pages = A[s].pages /\ B[s].type = A[s].type
  <2>1. \A s \in Slots : \E v : B[s] = [A[s] EXCEPT !.virt = v]
    BY DEF update_virtual_addresses
  <2>2. ASSUME NEW s \in Slots, NEW v, B[s] = [A[s] EXCEPT !.virt = v]
        PROVE  /\ B[s].in_use = A[s].in_use /\ B[s].start = A[s].start
               /\ B[s].pages = A[s].pages /\ B[s].type = A[s].type
    <3>1. A[s] \in Allocation
      BY <1>1
    <3>. QED BY <2>2, <3>1 DEF Allocation
  <2>. QED BY <2>1, <2>2
<1>3. InUse(B) = InUse(A) /\ \A s \in InUse(A) : End(B, s) = End(A, s) /\ Block(B, s) = Block(A, s)
  BY <1>2 DEF InUse, End, Block
<1>4. \A s \in InUse(A) : s \in Slots
  BY DEF InUse
<1>5. \A s \in InUse(A) : \A p \in Block(A, s) :
        \E t \in InUse(B) : p \in Block(B, t) /\ B[t].type = A[s].type
  BY <1>2, <1>3, <1>4
<1>. QED BY <1>1, <1>3, <1>5, SameKinds DEF Bounded

\* Where it succeeds, the pool gives back nothing.
LEMMA UpdateSimulates ==
  ASSUME NEW f, NEW P, Sound(allocations, f, P), Bounded(allocations),
         NEW map \in VirtualMaps, update_virtual_addresses(map)
  PROVE  /\ Bounded(allocations')
         /\ Pool!Fail \/ \E start, end \in Pages, type \in Types : Pool!Free(start, end, type)
<1>1. KindOf(allocations') = KindOf(allocations) /\ Bounded(allocations')
  BY UpdateKinds
<1>2. CASE Returns("SUCCESS", 0)
  <2>1. 0 \in Pages /\ Conventional \in Types
    BY PagesAssumption, TypesAssumption DEF Pages
  <2>2. {p \in Pages : 0 <= p /\ p < 0} = {}
    BY PagesAssumption DEF Pages
  <2>3. kind' = [p \in Pages |-> IF p \in {} THEN Conventional ELSE kind[p]]
    <3>1. KindOf(allocations) = [p \in Pages |-> KindOf(allocations)[p]]
      BY DEF KindOf
    <3>. QED BY <1>1, <3>1 DEF kind
  <2>4. Pool!Retype({}, {Conventional}, Conventional)
    BY <2>3 DEF Pool!Retype
  <2>5. Pool!Free(0, 0, Conventional)
    BY <1>2, <2>2, <2>4 DEF Pool!Free, Pool!Returns, Returns
  <2>. QED BY <1>1, <2>1, <2>5
<1>3. CASE Returns("NOT_FOUND", 0)
  BY <1>1, <1>3, FailIsFail
<1>. QED BY <1>2, <1>3 DEF update_virtual_addresses

LEMMA PoolStep == PoolInv /\ [Next]_vars => PoolInv' /\ [Pool!Next]_(Pool!vars)
<1>. SUFFICES ASSUME PoolInv, [Next]_vars PROVE Bounded(allocations') /\ [Pool!Next]_(Pool!vars)
  BY NextInv DEF PoolInv
<1>1. Sound(allocations, first_allocation, RegionPages(region)) /\ Bounded(allocations)
  BY DEF Sound, PoolInv, AllocatorInv, TypeOK, ListedIsInUse, BlocksDisjoint, PagesConserved
<1>2. CASE add_initial_allocation
  BY <1>2, AddSimulates DEF Pool!Next
<1>3. ASSUME NEW r \in Requests, allocate_pages(r)
      PROVE  Bounded(allocations') /\ Pool!Next
  <2>1. CASE OutOfResources /\ UNCHANGED allocations
    <3>1. KindOf(allocations') = KindOf(allocations) /\ Bounded(allocations')
      BY <1>1, <2>1
    <3>. QED BY <2>1, <3>1, FailIsFail DEF OutOfResources, Pool!Next
  <2>2. ASSUME NEW dest \in Candidates(allocations, r),
               AllocateWhole(r, dest) \/ AllocateFront(r, dest) \/ AllocateInside(r, dest)
        PROVE  Bounded(allocations') /\ Pool!Next
    <3>1. r \in Request
      BY RequestsAssumption
    <3>2. Bounded(allocations') /\ (Pool!Fail \/ \E start \in Pages : Pool!Allocate(r, start))
      BY <1>1, <2>2, <3>1, AllocateSimulates
    <3>. QED BY <3>2 DEF Pool!Next
  <2>. QED BY <1>3, <2>1, <2>2 DEF allocate_pages
<1>4. ASSUME NEW address \in FreeAddresses, free_pages(address)
      PROVE  Bounded(allocations') /\ Pool!Next
  <2>1. address \in Nat
    BY RequestsAssumption
  <2>2. /\ Bounded(allocations')
        /\ Pool!Fail \/ \E start, end \in Pages, type \in Types : Pool!Free(start, end, type)
    BY <1>1, <1>4, <2>1, FreeSimulates
  <2>. QED BY <2>2 DEF Pool!Next
<1>5. ASSUME NEW map \in VirtualMaps, update_virtual_addresses(map)
      PROVE  Bounded(allocations') /\ Pool!Next
  BY <1>1, <1>5, UpdateSimulates DEF Pool!Next
<1>6. CASE UNCHANGED vars
  <2>1. allocations' = allocations /\ ret' = ret
    BY <1>6 DEF vars
  <2>2. kind' = kind
    BY <2>1 DEF kind
  <2>. QED BY <1>1, <2>1, <2>2 DEF Pool!vars
<1>. QED BY <1>2, <1>3, <1>4, <1>5, <1>6 DEF Next

LEMMA PoolStart == Init => PoolInv /\ Pool!Init
<1>. SUFFICES ASSUME Init PROVE PoolInv /\ Pool!Init
  OBVIOUS
<1>1. AllocatorInv
  BY InitInv
<1>2. \A s \in Slots : allocations[s].in_use = FALSE
  BY DEF Init, Released
<1>3. InUse(allocations) = {}
  BY <1>2 DEF InUse
<1>4. kind = [p \in Pages |-> "absent"]
  BY <1>3 DEF kind, KindOf
<1>. QED BY <1>1, <1>3, <1>4 DEF PoolInv, Bounded, Pool!Init, Pool!Absent, Init

\* Page by page, allocate_pages, free_pages and the rest of alloc.rs do what PagePool says:
\* only free memory is handed out, where the request wants it, and what fails changes nothing,
\* for any number of slots and in every order of calls.
THEOREM PagePoolImplemented == Spec => ImplementsPagePool
BY PoolStart, PoolStep, PTL DEF Spec, ImplementsPagePool, Pool!Spec

-----------------------------------------------------------------------------
(* What frees and the map key promise *)

\* Behind the last block of a run comes the head of another one, and the two cannot be merged.
LEMMA MergeDone ==
  ASSUME NEW A, NEW f, NEW P, Sound(A, f, P), NEW M, M = merge_free_memory(A), NEW h \in InUse(M)
  PROVE  ~ Mergeable(M, h)
<1>1. A \in [Slots -> Allocation] /\ Listed(A, f)
  BY DEF Sound
<1>2. /\ InUse(M) = Heads(A)
      /\ \A g \in Heads(A) : /\ M[g].next = A[RunLast(A, g)].next
                             /\ M[g].start = A[g].start
                             /\ End(M, g) = End(A, RunLast(A, g))
                             /\ M[g].type = A[g].type
  BY <1>1, MergeSlots
<1>3. h \in InUse(A) /\ h \in Heads(A)
  BY <1>2 DEF Heads
<1>4. RunLast(A, h) \in Run(A, h) /\ RunLast(A, h) \in InUse(A) /\ ~ Mergeable(A, RunLast(A, h))
  BY <1>1, <1>3, RunEnd, RunClosed
<1>5. A[RunLast(A, h)].type = A[h].type /\ A[RunLast(A, h)].next \in Heads(A) \cup {None} /\ A[RunLast(A, h)].in_use
  BY <1>1, <1>3, <1>4, RunType, RunsCover DEF InUse
<1>. SUFFICES ASSUME Mergeable(M, h) PROVE FALSE
  OBVIOUS
<1>6. M[h].next \in Heads(A) /\ M[h].next = A[RunLast(A, h)].next /\ M[h].next # None
  BY <1>2, <1>3, <1>5 DEF Mergeable
<1>7. /\ A[M[h].next].type = Conventional /\ A[M[h].next].start = End(A, RunLast(A, h))
      /\ A[h].type = Conventional
  BY <1>2, <1>3, <1>6 DEF Mergeable
<1>. QED BY <1>4, <1>5, <1>6, <1>7 DEF Mergeable

\* A successful free_pages merges all there is to merge, whatever fragments earlier calls,
\* failed ones included, have left.
THEOREM Coalescing == Spec => FreeCoalesces
<1>1. AllocatorInv /\ [Next]_vars =>
        [(\E a \in FreeAddresses : free_pages(a)) /\ ret'.status = "SUCCESS"
           => \A s \in InUse(allocations') : ~ Mergeable(allocations', s)]_vars
  <2>. SUFFICES ASSUME AllocatorInv, NEW a \in FreeAddresses, free_pages(a), ret'.status = "SUCCESS",
                       NEW h \in InUse(allocations')
                PROVE  ~ Mergeable(allocations', h)
    OBVIOUS
  <2>1. Sound(allocations, first_allocation, RegionPages(region))
    BY DEF Sound, AllocatorInv, TypeOK, ListedIsInUse, BlocksDisjoint, PagesConserved
  <2>2. PICK s \in InUse(allocations) : allocations' = merge_free_memory(Freed(allocations, s))
    <3>1. ~ Returns("NOT_FOUND", 0)
      BY DEF Returns
    <3>. QED BY <3>1 DEF free_pages, Freed
  <2>3. Sound(Freed(allocations, s), first_allocation, RegionPages(region))
    BY <2>1, TypesAssumption, TypeOnlySound, Zenon DEF Freed
  <2>. QED BY <2>2, <2>3, MergeDone
<1>. QED BY <1>1, Invariance, PTL DEF Spec, FreeCoalesces

LEMMA KeyStep ==
  ASSUME PoolInv, [Next]_vars, key' = key, NEW p \in Pages, kind[p] = Conventional
  PROVE  kind'[p] = Conventional
<1>1. Sound(allocations, first_allocation, RegionPages(region)) /\ Bounded(allocations) /\ key \in Nat
  BY DEF Sound, PoolInv, AllocatorInv, TypeOK, ListedIsInUse, BlocksDisjoint, PagesConserved
<1>2. CASE UNCHANGED allocations
  BY <1>2 DEF kind
<1>3. ASSUME NEW address \in FreeAddresses, free_pages(address)
      PROVE  kind'[p] = Conventional
  <2>1. ASSUME NEW s \in InUse(allocations), allocations' = merge_free_memory(Freed(allocations, s))
        PROVE  kind'[p] = Conventional
    <3>1. /\ Sound(Freed(allocations, s), first_allocation, RegionPages(region))
          /\ Bounded(Freed(allocations, s))
          /\ KindOf(Freed(allocations, s)) =
               [q \in Pages |-> IF q \in Block(allocations, s) THEN Conventional ELSE KindOf(allocations)[q]]
      BY <1>1, FreedKinds
    <3>2. KindOf(allocations') = KindOf(Freed(allocations, s))
      BY <2>1, <3>1, MergeKinds
    <3>. QED BY <3>1, <3>2 DEF kind
  <2>. QED BY <1>2, <1>3, <2>1 DEF free_pages, Freed
<1>4. ASSUME NEW map \in VirtualMaps, update_virtual_addresses(map)
      PROVE  kind'[p] = Conventional
  BY <1>1, <1>4, UpdateKinds DEF kind
<1>5. key' # key + 1
  BY <1>1
<1>6. ASSUME NEW r \in Requests, allocate_pages(r)
      PROVE  UNCHANGED allocations
  BY <1>5, <1>6 DEF allocate_pages
<1>7. ~ add_initial_allocation
  BY <1>5 DEF add_initial_allocation
<1>. QED BY <1>2, <1>3, <1>4, <1>6, <1>7 DEF Next, vars

\* While the map key stays the same, a page that is free stays free: whoever holds a memory map
\* with the current key may rely on its free memory, although free_pages keeps the key.
THEOREM KeyGuards == Spec => KeyGuardsFreeMemory
<1>1. PoolInv /\ PoolInv' /\ [Next]_vars =>
        [key' = key => \A s \in InUse(allocations) : allocations[s].type = Conventional =>
           \A t \in InUse(allocations') :
             \/ allocations'[t].type = Conventional
             \/ Block(allocations, s) \cap Block(allocations', t) = {}]_vars
  <2>. SUFFICES ASSUME PoolInv, PoolInv', [Next]_vars, key' = key,
                       NEW s \in InUse(allocations), allocations[s].type = Conventional,
                       NEW t \in InUse(allocations'), allocations'[t].type # Conventional,
                       NEW p \in Block(allocations, s) \cap Block(allocations', t)
                PROVE  FALSE
    OBVIOUS
  <2>1. /\ allocations \in [Slots -> Allocation] /\ Disjoint(allocations) /\ Bounded(allocations)
        /\ allocations' \in [Slots -> Allocation] /\ Disjoint(allocations')
    BY DEF PoolInv, AllocatorInv, TypeOK, BlocksDisjoint
  <2>2. p \in Pages
    <3>1. allocations[s].start \in Nat /\ allocations[s].pages \in Nat /\ End(allocations, s) \in Nat
      BY <2>1, BlockRange
    <3>2. End(allocations, s) <= MaxPage
      BY <2>1 DEF Bounded
    <3>. QED BY <3>1, <3>2, PagesAssumption DEF Block, Pages
  <2>3. kind[p] = Conventional
    BY <2>1, <2>2, KindInside DEF kind
  <2>4. kind'[p] = allocations'[t].type
    BY <2>1, <2>2, KindInside DEF kind
  <2>5. kind'[p] = Conventional
    BY <2>2, <2>3, KeyStep
  <2>. QED BY <2>4, <2>5
<1>. QED BY <1>1, PoolStart, PoolStep, PTL DEF Spec, KeyGuardsFreeMemory

-----------------------------------------------------------------------------
(* Who has which block *)

\* Slot o of A is cut after n pages, which gives S: the rest is in slot new, the first free one.
Cut(A, S, o, n, new) ==
  /\ new = find_free_allocation(A) /\ new \in Slots \ InUse(A)
  /\ S \in [Slots -> Allocation] /\ InUse(S) = InUse(A) \cup {new}
  /\ S[o].type = A[o].type /\ S[o].start = A[o].start /\ S[o].pages = n
  /\ S[new].type = A[o].type /\ S[new].start = A[o].start + n /\ S[new].pages = A[o].pages - n
  /\ \A s \in Slots \ {o, new} : S[s] = A[s]

LEMMA SplitCuts ==
  ASSUME NEW A \in [Slots -> Allocation], NEW o \in InUse(A), NEW n \in Nat, n <= A[o].pages,
         find_free_allocation(A) # None
  PROVE  Cut(A, split_allocation(A, o, n), o, n, find_free_allocation(A))
<1>. DEFINE S == split_allocation(A, o, n)
            new == find_free_allocation(A)
<1>1. /\ new \in Slots \ InUse(A)
      /\ S \in [Slots -> Allocation] /\ InUse(S) = InUse(A) \cup {new}
      /\ S[o].type = A[o].type /\ S[o].start = A[o].start /\ S[o].pages = n
      /\ S[new].type = A[o].type /\ S[new].start = A[o].start + n /\ S[new].pages = A[o].pages - n
      /\ \A s \in Slots \ {o, new} : S[s] = A[s]
  BY SplitSlots
<1>. HIDE DEF S
<1>2. Cut(A, S, o, n, new)
  BY <1>1, Zenon DEF Cut
<1>. QED BY <1>2 DEF S

\* Slot x of S gets a type, which gives B.
Typed(S, B, x, type) ==
  /\ \A u \in Slots : /\ B[u].in_use = S[u].in_use
                      /\ B[u].start = S[u].start
                      /\ B[u].pages = S[u].pages
                      /\ u # x => B[u].type = S[u].type
  /\ B[x].type = type

LEMMA TypedUses == ASSUME NEW S, NEW B, NEW x, NEW type, Typed(S, B, x, type) PROVE InUse(B) = InUse(S)
<1>1. \A u \in Slots : B[u].in_use = S[u].in_use
  BY DEF Typed
<1>. QED BY <1>1 DEF InUse

\* A call that takes pages from block dest of A leaves B: nothing changes, or one cut without
\* the second, or the block, its front, its end or pages inside it get their type.
Outcome(A, B, r, dest) ==
  \/ ret'.status = "OUT_OF_RESOURCES" /\ find_free_allocation(A) = None /\ B = A
  \/ \E S, new : /\ ret'.status = "OUT_OF_RESOURCES" /\ r.how = "Address"
                 /\ Cut(A, S, dest, r.page - A[dest].start, new)
                 /\ find_free_allocation(S) = None /\ B = S
  \/ /\ ret' = [status |-> "SUCCESS", address |-> A[dest].start]
     /\ A[dest].pages = r.count /\ Typed(A, B, dest, r.type)
  \/ \E S, new : /\ ret' = [status |-> "SUCCESS", address |-> A[dest].start]
                 /\ r.how = "Address" => r.page = A[dest].start
                 /\ Cut(A, S, dest, r.count, new) /\ Typed(S, B, dest, r.type)
  \/ \E S, new : /\ ret' = [status |-> "SUCCESS", address |-> r.page] /\ r.how = "Address"
                 /\ Cut(A, S, dest, r.page - A[dest].start, new)
                 /\ S[new].pages = r.count /\ Typed(S, B, new, r.type)
  \/ \E S, T, new, more :
       /\ ret' = [status |-> "SUCCESS", address |-> r.page] /\ r.how = "Address"
       /\ Cut(A, S, dest, r.page - A[dest].start, new)
       /\ S[new].pages >= r.count /\ Cut(S, T, new, r.count, more) /\ Typed(T, B, new, r.type)

LEMMA Outcomes ==
  ASSUME allocations \in [Slots -> Allocation], NEW r \in Request, NEW dest \in Candidates(allocations, r),
         AllocateWhole(r, dest) \/ AllocateFront(r, dest) \/ AllocateInside(r, dest)
  PROVE  Outcome(allocations, allocations', r, dest)
<1>. DEFINE A == allocations
            B == allocations'
            d == r.page - A[dest].start
            new == find_free_allocation(A)
<1>1. /\ dest \in InUse(A) /\ dest \in Slots
      /\ A[dest].start \in Nat /\ A[dest].pages \in Nat
      /\ r.count \in Nat /\ r.count <= A[dest].pages
      /\ r.how = "Address" => d \in Nat /\ d <= A[dest].pages
  BY FitsBounds
<1>2. r.how = "Address" => r.page \in Nat /\ A[dest].start <= r.page /\ r.page + r.count <= End(A, dest)
  BY FitsPlaced
<1>3. ASSUME NEW S \in [Slots -> Allocation], NEW x \in InUse(S), Succeed(S, x, r.type)
      PROVE  Typed(S, B, x, r.type) /\ ret' = [status |-> "SUCCESS", address |-> S[x].start]
  <2>1. Typed(S, B, x, r.type)
    BY <1>3, SucceedSlots DEF Typed
  <2>. QED BY <1>3, <2>1 DEF Succeed, Returns
<1>4. CASE AllocateWhole(r, dest)
  <2>1. /\ A[dest].pages = r.count
        /\ B = [A EXCEPT ![dest] = [@ EXCEPT !.type = r.type]]
        /\ ret' = [status |-> "SUCCESS", address |-> A[dest].start]
    BY <1>4 DEF AllocateWhole, Returns
  <2>. HIDE DEF A, B
  <2>2. A \in [Slots -> Allocation]
    BY DEF A
  <2>3. Typed(A, B, dest, r.type)
    BY <1>1, <2>1, <2>2 DEF Typed, Allocation
  <2>4. Outcome(A, B, r, dest)
    BY <2>1, <2>3 DEF Outcome
  <2>. QED BY <2>4 DEF A, B
<1>5. CASE AllocateFront(r, dest)
  <2>1. CASE new = None
    <3>1. ret'.status = "OUT_OF_RESOURCES" /\ B = A
      BY <1>5, <2>1 DEF AllocateFront, OutOfResources, Returns
    <3>. QED BY <2>1, <3>1, Zenon DEF Outcome
  <2>2. CASE new # None
    <3>. DEFINE S == split_allocation(A, dest, r.count)
    <3>1. Succeed(S, dest, r.type) /\ (r.how = "Address" => r.page = A[dest].start)
      BY <1>5, <2>2, Zenon DEF AllocateFront
    <3>2. Cut(A, S, dest, r.count, new)
      BY <1>1, <2>2, SplitCuts
    <3>. HIDE DEF S, new, d
    <3>3. S \in [Slots -> Allocation] /\ dest \in InUse(S) /\ S[dest].start = A[dest].start
      BY <1>1, <3>2 DEF Cut
    <3>4. Typed(S, B, dest, r.type) /\ ret' = [status |-> "SUCCESS", address |-> A[dest].start]
      BY <1>3, <3>1, <3>3
    <3>. QED BY <3>1, <3>2, <3>4, Zenon DEF Outcome
  <2>. QED BY <2>1, <2>2
<1>6. CASE AllocateInside(r, dest)
  <2>. DEFINE S == split_allocation(A, dest, d)
  <2>1. /\ r.how = "Address"
        /\ \/ new = None /\ OutOfResources /\ B = A
           \/ new # None /\ S[new].pages <= r.count /\ Succeed(S, new, r.type)
           \/ /\ new # None /\ S[new].pages > r.count
              /\ IF find_free_allocation(S) = None THEN OutOfResources /\ B = S
                 ELSE Succeed(split_allocation(S, new, r.count), new, r.type)
    BY <1>6, Zenon DEF AllocateInside
  <2>2. new # None => Cut(A, S, dest, d, new)
    BY <1>1, <2>1, SplitCuts
  <2>. HIDE DEF S, new
  <2>3. new # None => /\ S \in [Slots -> Allocation] /\ new \in InUse(S)
                      /\ S[new].start = r.page /\ S[new].pages \in Nat /\ S[new].pages >= r.count
    <3>. SUFFICES ASSUME new # None
                  PROVE  /\ S \in [Slots -> Allocation] /\ new \in InUse(S)
                         /\ S[new].start = r.page /\ S[new].pages \in Nat /\ S[new].pages >= r.count
      OBVIOUS
    <3>1. /\ S \in [Slots -> Allocation] /\ new \in InUse(S)
          /\ S[new].start = A[dest].start + d /\ S[new].pages = A[dest].pages - d
      BY <2>2 DEF Cut
    <3>. QED BY <1>1, <1>2, <2>1, <3>1 DEF End
  <2>4. CASE new = None /\ OutOfResources /\ B = A
    BY <2>4 DEF Outcome, OutOfResources, Returns, new
  <2>5. CASE new # None /\ S[new].pages <= r.count /\ Succeed(S, new, r.type)
    <3>1. S[new].pages = r.count
      BY <1>1, <2>3, <2>5
    <3>2. Typed(S, B, new, r.type) /\ ret' = [status |-> "SUCCESS", address |-> r.page]
      BY <1>3, <2>3, <2>5
    <3>. QED BY <2>1, <2>2, <2>5, <3>1, <3>2, Zenon DEF Outcome
  <2>6. CASE new # None /\ find_free_allocation(S) = None /\ OutOfResources /\ B = S
    <3>1. ret'.status = "OUT_OF_RESOURCES"
      BY <2>6 DEF OutOfResources, Returns
    <3>. QED BY <2>1, <2>2, <2>6, <3>1, Zenon DEF Outcome
  <2>7. CASE new # None /\ find_free_allocation(S) # None /\ Succeed(split_allocation(S, new, r.count), new, r.type)
    <3>. DEFINE T == split_allocation(S, new, r.count)
                more == find_free_allocation(S)
    <3>1. Cut(S, T, new, r.count, more)
      BY <1>1, <2>3, <2>7, SplitCuts
    <3>. HIDE DEF T, more
    <3>2. T \in [Slots -> Allocation] /\ new \in InUse(T) /\ T[new].start = r.page
      BY <2>3, <2>7, <3>1 DEF Cut
    <3>3. Succeed(T, new, r.type)
      BY <2>7 DEF T
    <3>4. Typed(T, B, new, r.type) /\ ret' = [status |-> "SUCCESS", address |-> r.page]
      BY <1>3, <3>2, <3>3
    <3>. QED BY <2>1, <2>2, <2>3, <2>7, <3>1, <3>4, Zenon DEF Outcome
  <2>. QED BY <2>1, <2>4, <2>5, <2>6, <2>7, Zenon
<1>. QED BY <1>4, <1>5, <1>6

\* There is a block with this start, size and type.
HasBlock(A, page, count, type) ==
  \E s \in InUse(A) : A[s].start = page /\ A[s].pages = count /\ A[s].type = type

\* What is not free in A is the same in B.
StayPut(A, B) ==
  \A s \in InUse(A) : A[s].type # Conventional =>
    s \in InUse(B) /\ B[s].start = A[s].start /\ B[s].pages = A[s].pages /\ B[s].type = A[s].type

LEMMA CutStays ==
  ASSUME NEW A, NEW S, NEW o, NEW n, NEW new, Cut(A, S, o, n, new), A[o].type = Conventional
  PROVE  StayPut(A, S)
<1>1. /\ new \notin InUse(A) /\ InUse(S) = InUse(A) \cup {new}
      /\ \A s \in Slots \ {o, new} : S[s] = A[s]
  BY DEF Cut
<1>2. \A s \in InUse(A) : s \in Slots
  BY DEF InUse
<1>. QED BY <1>1, <1>2 DEF StayPut

LEMMA TypedStays ==
  ASSUME NEW A, NEW S, NEW B, NEW x \in InUse(S), NEW type, Typed(S, B, x, type), StayPut(A, S),
         x \in InUse(A) => A[x].type = Conventional
  PROVE  StayPut(A, B) /\ HasBlock(B, S[x].start, S[x].pages, type)
<1>1. InUse(B) = InUse(S)
  BY TypedUses
<1>2. \A u \in InUse(S) : u \in Slots
  BY DEF InUse
<1>3. \A u \in InUse(S) : /\ B[u].start = S[u].start /\ B[u].pages = S[u].pages
                          /\ u # x => B[u].type = S[u].type
  BY <1>2 DEF Typed
<1>4. StayPut(A, B)
  BY <1>1, <1>3 DEF StayPut
<1>5. HasBlock(B, S[x].start, S[x].pages, type)
  BY <1>1, <1>3 DEF HasBlock, Typed
<1>. QED BY <1>4, <1>5

\* What allocate_pages hands out is a block of its own, taken from free memory, and nothing
\* that was not free moves.
LEMMA AllocateBlocks ==
  ASSUME NEW A \in [Slots -> Allocation], NEW B, NEW r \in Request, NEW dest \in Candidates(A, r),
         Outcome(A, B, r, dest)
  PROVE  /\ StayPut(A, B)
         /\ ret'.status = "SUCCESS" =>
              /\ HasBlock(B, ret'.address, r.count, r.type)
              /\ A[dest].start <= ret'.address /\ ret'.address + r.count <= End(A, dest)
              /\ r.how = "Address" => ret'.address = r.page
<1>1. /\ dest \in InUse(A) /\ A[dest].start \in Nat /\ A[dest].pages \in Nat
      /\ r.count \in Nat /\ r.count <= A[dest].pages
  BY FitsBounds
<1>2. /\ A[dest].type = Conventional
      /\ r.how = "Address" => A[dest].start <= r.page /\ r.page + r.count <= End(A, dest)
      /\ r.page \in Nat
  BY FitsPlaced
<1>3. End(A, dest) = A[dest].start + A[dest].pages
  BY DEF End
<1>4. A[dest].start <= A[dest].start /\ A[dest].start + r.count <= End(A, dest)
  BY <1>1, <1>3
<1>5. StayPut(A, A)
  BY DEF StayPut
<1>6. ASSUME NEW S, NEW n, NEW new, Cut(A, S, dest, n, new)
      PROVE  /\ StayPut(A, S) /\ dest \in InUse(S) /\ new \in InUse(S) /\ new \notin InUse(A)
             /\ S[dest].start = A[dest].start /\ S[dest].pages = n /\ S[new].start = A[dest].start + n
  <2>1. StayPut(A, S)
    BY <1>2, <1>6, CutStays
  <2>. QED BY <1>1, <1>6, <2>1 DEF Cut
<1>7. A[dest].start + (r.page - A[dest].start) = r.page
  BY <1>1, <1>2
<1>8. CASE ret'.status = "OUT_OF_RESOURCES" /\ B = A
  BY <1>5, <1>8
<1>9. CASE \E S, new : /\ ret'.status = "OUT_OF_RESOURCES"
                       /\ Cut(A, S, dest, r.page - A[dest].start, new) /\ B = S
  BY <1>6, <1>9
<1>10. CASE /\ ret' = [status |-> "SUCCESS", address |-> A[dest].start]
            /\ A[dest].pages = r.count /\ Typed(A, B, dest, r.type)
  <2>1. StayPut(A, B) /\ HasBlock(B, A[dest].start, r.count, r.type)
    BY <1>1, <1>2, <1>5, <1>10, TypedStays
  <2>2. r.how = "Address" => A[dest].start = r.page
    BY <1>1, <1>2, <1>3, <1>10
  <2>. QED BY <1>4, <1>10, <2>1, <2>2
<1>11. CASE \E S, new : /\ ret' = [status |-> "SUCCESS", address |-> A[dest].start]
                        /\ r.how = "Address" => r.page = A[dest].start
                        /\ Cut(A, S, dest, r.count, new) /\ Typed(S, B, dest, r.type)
  <2>1. PICK S, new : Cut(A, S, dest, r.count, new) /\ Typed(S, B, dest, r.type)
    BY <1>11
  <2>2. StayPut(A, B) /\ HasBlock(B, A[dest].start, r.count, r.type)
    BY <1>2, <1>6, <2>1, TypedStays
  <2>. QED BY <1>4, <1>11, <2>2
<1>12. CASE \E S, new : /\ ret' = [status |-> "SUCCESS", address |-> r.page] /\ r.how = "Address"
                        /\ Cut(A, S, dest, r.page - A[dest].start, new)
                        /\ S[new].pages = r.count /\ Typed(S, B, new, r.type)
  <2>1. PICK S, new : /\ Cut(A, S, dest, r.page - A[dest].start, new)
                      /\ S[new].pages = r.count /\ Typed(S, B, new, r.type)
    BY <1>12
  <2>2. StayPut(A, B) /\ HasBlock(B, r.page, r.count, r.type)
    BY <1>6, <1>7, <2>1, TypedStays
  <2>. QED BY <1>2, <1>12, <2>2
<1>13. CASE \E S, T, new, more :
              /\ ret' = [status |-> "SUCCESS", address |-> r.page] /\ r.how = "Address"
              /\ Cut(A, S, dest, r.page - A[dest].start, new)
              /\ Cut(S, T, new, r.count, more) /\ Typed(T, B, new, r.type)
  <2>1. PICK S, T, new, more :
          /\ Cut(A, S, dest, r.page - A[dest].start, new)
          /\ Cut(S, T, new, r.count, more) /\ Typed(T, B, new, r.type)
    BY <1>13
  <2>2. /\ StayPut(A, S) /\ new \in InUse(S) /\ new \notin InUse(A)
        /\ S[new].start = r.page /\ S[new].type = Conventional
    BY <1>2, <1>6, <1>7, <2>1 DEF Cut
  <2>3. StayPut(S, T) /\ new \in InUse(T) /\ T[new].start = r.page /\ T[new].pages = r.count
    BY <2>1, <2>2, CutStays DEF Cut
  <2>4. StayPut(A, T)
    BY <2>2, <2>3 DEF StayPut
  <2>5. StayPut(A, B) /\ HasBlock(B, r.page, r.count, r.type)
    BY <2>1, <2>2, <2>3, <2>4, TypedStays
  <2>. QED BY <1>2, <1>13, <2>5
<1>. QED BY <1>8, <1>9, <1>10, <1>11, <1>12, <1>13 DEF Outcome

\* A request for pages anywhere takes at most one slot.
LEMMA AnySlots ==
  ASSUME NEW A, NEW B, NEW r, r.how = "Any", NEW dest, Outcome(A, B, r, dest)
  PROVE  \E new : InUse(B) \subseteq InUse(A) \cup {new}
<1>1. CASE B = A \/ Typed(A, B, dest, r.type)
  BY <1>1, TypedUses
<1>2. CASE \E S, new : Cut(A, S, dest, r.count, new) /\ Typed(S, B, dest, r.type)
  BY <1>2, TypedUses DEF Cut
<1>. QED BY <1>1, <1>2 DEF Outcome

\* A call of allocate_pages leaves every block that is not free as it is; a success is such a
\* block that nobody had before.
LEMMA AllocateKeeps ==
  ASSUME AllocatorInv, NEW r \in Request, allocate_pages(r)
  PROVE  /\ StayPut(allocations, allocations')
         /\ ret'.status = "SUCCESS" =>
              /\ ret'.address \in Nat
              /\ HasBlock(allocations', ret'.address, r.count, r.type)
              /\ r.how = "Address" => ret'.address = r.page
              /\ r.count > 0 =>
                   \A s \in InUse(allocations) :
                     allocations[s].type # Conventional /\ allocations[s].pages > 0 =>
                       allocations[s].start # ret'.address
<1>. DEFINE A == allocations
            B == allocations'
<1>1. Sound(A, first_allocation, PagesOf(A))
  BY DEF AllocatorInv, TypeOK, Sound, ListedIsInUse, BlocksDisjoint
<1>2. CASE Candidates(A, r) = {}
  <2>1. ret'.status = "OUT_OF_RESOURCES" /\ B = A
    BY <1>2 DEF allocate_pages, OutOfResources, Returns
  <2>2. StayPut(A, B)
    BY <2>1 DEF StayPut
  <2>. QED BY <2>1, <2>2
<1>3. ASSUME NEW dest \in Candidates(A, r),
             AllocateWhole(r, dest) \/ AllocateFront(r, dest) \/ AllocateInside(r, dest)
      PROVE  /\ StayPut(A, B)
             /\ ret'.status = "SUCCESS" =>
                  /\ ret'.address \in Nat
                  /\ HasBlock(B, ret'.address, r.count, r.type)
                  /\ r.how = "Address" => ret'.address = r.page
                  /\ r.count > 0 => \A s \in InUse(A) : A[s].type # Conventional /\ A[s].pages > 0 =>
                                      A[s].start # ret'.address
  <2>0. A \in [Slots -> Allocation] /\ Outcome(A, B, r, dest)
    BY <1>1, <1>3, Outcomes DEF Sound
  <2>1. /\ StayPut(A, B)
        /\ ret'.status = "SUCCESS" =>
             /\ HasBlock(B, ret'.address, r.count, r.type)
             /\ A[dest].start <= ret'.address
             /\ ret'.address + r.count <= End(A, dest)
             /\ r.how = "Address" => ret'.address = r.page
    BY <2>0, AllocateBlocks
  <2>2. ret' \in [status : Statuses, address : Nat]
    BY <1>1, <1>3, AllocateSound
  <2>3. r.count \in Nat /\ ret'.address \in Nat
    BY <2>2 DEF Request
  <2>4. A \in [Slots -> Allocation] /\ Disjoint(A)
    BY <1>1 DEF Sound
  <2>5. dest \in InUse(A) /\ A[dest].type = Conventional
    BY DEF Candidates, Fits
  <2>6. ASSUME ret'.status = "SUCCESS", r.count > 0, NEW s \in InUse(A),
               A[s].type # Conventional, A[s].pages > 0, A[s].start = ret'.address
        PROVE  FALSE
    <3>. DEFINE p == ret'.address
    <3>0. p \in Nat
      BY <2>3
    <3>1. /\ A[s].start \in Nat /\ A[s].pages \in Nat /\ End(A, s) \in Nat
          /\ \A q \in Nat : q \in Block(A, s) <=> A[s].start <= q /\ q < End(A, s)
      BY <2>4, BlockRange
    <3>2. p \in Block(A, s)
      BY <3>0, <3>1, <2>6 DEF End
    <3>3. /\ End(A, dest) \in Nat
          /\ \A q \in Nat : q \in Block(A, dest) <=> A[dest].start <= q /\ q < End(A, dest)
      BY <2>4, <2>5, BlockRange
    <3>4. p < End(A, dest) /\ A[dest].start <= p
      BY <2>1, <2>3, <2>6, <3>3
    <3>5. p \in Block(A, dest)
      BY <3>0, <3>3, <3>4
    <3>6. s # dest
      BY <2>5, <2>6
    <3>. QED BY <2>4, <2>5, <3>2, <3>5, <3>6 DEF Disjoint
  <2>. QED BY <2>1, <2>3, <2>6
<1>. QED BY <1>2, <1>3 DEF allocate_pages

\* A block that stays put is still there.
LEMMA StillThere ==
  ASSUME NEW A, NEW B, StayPut(A, B), NEW page, NEW count, NEW type, type # Conventional,
         HasBlock(A, page, count, type)
  PROVE  HasBlock(B, page, count, type)
BY DEF StayPut, HasBlock

\* A free changes no block that is not free, other than the one that starts at the address.
LEMMA FreeKeeps ==
  ASSUME AllocatorInv, NEW address, free_pages(address),
         NEW page, page # address, NEW count, NEW type, type # Conventional,
         HasBlock(allocations, page, count, type)
  PROVE  HasBlock(allocations', page, count, type)
<1>. DEFINE A == allocations
            At == {s \in InUse(A) : A[s].start = address}
<1>1. A \in [Slots -> Allocation]
  BY DEF AllocatorInv, TypeOK
<1>2. CASE allocations' = A
  BY <1>2
<1>3. ASSUME NEW s \in At, allocations' = merge_free_memory([A EXCEPT ![s] = [@ EXCEPT !.type = Conventional]])
      PROVE  HasBlock(allocations', page, count, type)
  <2>. DEFINE F == [A EXCEPT ![s] = [@ EXCEPT !.type = Conventional]]
  <2>1. PICK u \in InUse(A) : A[u].start = page /\ A[u].pages = count /\ A[u].type = type
    BY DEF HasBlock
  <2>2. u # s /\ u \in Slots
    BY <2>1 DEF InUse
  <2>3. F[u] = A[u]
    BY <1>1, <2>2
  <2>4. u \in InUse(F) /\ F[u].type # Conventional
    BY <2>1, <2>2, <2>3 DEF InUse
  <2>. HIDE DEF F
  <2>5. ~ Mergeable(F, u) /\ u \notin Absorbed(F)
    BY <2>4 DEF Mergeable, Absorbed
  <2>6. merge_free_memory(F)[u] = F[u]
    BY <2>2, <2>5 DEF merge_free_memory
  <2>7. allocations'[u] = A[u] /\ u \in InUse(allocations')
    BY <1>3, <2>2, <2>3, <2>4, <2>6 DEF F, InUse
  <2>. QED BY <2>1, <2>7 DEF HasBlock
<1>. QED BY <1>2, <1>3 DEF free_pages

\* A page lies in free memory.
FreePage(A, p) == \E s \in InUse(A) : p \in Block(A, s) /\ A[s].type = Conventional

\* A free leaves free memory free.
LEMMA FreeStaysFree ==
  ASSUME AllocatorInv, NEW address, free_pages(address), NEW p, FreePage(allocations, p)
  PROVE  FreePage(allocations', p)
<1>. DEFINE A == allocations
            At == {s \in InUse(A) : A[s].start = address}
<1>1. Sound(A, first_allocation, PagesOf(A)) /\ A \in [Slots -> Allocation]
  BY DEF AllocatorInv, TypeOK, Sound, ListedIsInUse, BlocksDisjoint
<1>2. CASE allocations' = A
  BY <1>2
<1>3. ASSUME NEW s \in At, allocations' = merge_free_memory([A EXCEPT ![s] = [@ EXCEPT !.type = Conventional]])
      PROVE  FreePage(allocations', p)
  <2>. DEFINE F == [A EXCEPT ![s] = [@ EXCEPT !.type = Conventional]]
              M == merge_free_memory(F)
  <2>0. s \in InUse(A) /\ s \in Slots
    BY DEF InUse
  <2>1. Sound(F, first_allocation, PagesOf(A))
    BY <1>1, <2>0, TypesAssumption, TypeOnlySound
  <2>2. PICK u \in InUse(A) : p \in Block(A, u) /\ A[u].type = Conventional
    BY DEF FreePage
  <2>3. /\ u \in Slots /\ F[u].in_use = A[u].in_use /\ F[u].type = Conventional
        /\ F[u].start = A[u].start /\ F[u].pages = A[u].pages
    BY <1>1, <2>0, <2>2 DEF InUse, Allocation
  <2>. HIDE DEF F
  <2>4. u \in InUse(F) /\ p \in Block(F, u)
    BY <2>2, <2>3 DEF InUse, Block, End
  <2>5. F \in [Slots -> Allocation] /\ Listed(F, first_allocation)
    BY <2>1 DEF Sound
  <2>6. PICK h \in Heads(F) : u \in Run(F, h)
    BY <2>4, <2>5, RunsCover
  <2>7. h \in InUse(F)
    BY <2>6 DEF Heads
  <2>8. F[h].type = Conventional
    BY <2>3, <2>5, <2>6, <2>7, RunType
  <2>9. p \in F[h].start .. End(F, RunLast(F, h)) - 1
    BY <2>4, <2>5, <2>6, <2>7, RunPages
  <2>10. /\ h \in InUse(M) /\ M[h].start = F[h].start /\ M[h].type = F[h].type
         /\ End(M, h) = End(F, RunLast(F, h))
    BY <2>5, <2>6, MergeSlots
  <2>11. p \in Block(M, h)
    BY <2>9, <2>10 DEF Block
  <2>. HIDE DEF M
  <2>12. FreePage(M, p)
    BY <2>8, <2>10, <2>11 DEF FreePage
  <2>. QED BY <1>3, <2>12 DEF M, F
<1>. QED BY <1>2, <1>3 DEF free_pages

-----------------------------------------------------------------------------
(* The walk of the list *)

\* The turns of a walk, as equations.
LEMMA TurnsAre ==
  ASSUME NEW A \in [Slots -> Allocation], NEW f \in Slots \cup {None}
  PROVE  /\ Turns(A, f)[0] = f
         /\ \A i \in 0 .. MaxAllocations : Turns(A, f)[i] \in Slots \cup {None}
         /\ \A i \in 0 .. MaxAllocations - 1 :
              Turns(A, f)[i + 1] = IF Turns(A, f)[i] = None THEN None ELSE A[Turns(A, f)[i]].next
<1>. DEFINE T == Slots \cup {None}
            next(x) == IF x = None THEN None ELSE A[x].next
            s == [n \in Nat |-> [x \in T |-> next(x)]]
            Body(cur) == [i \in 0 .. MaxAllocations |->
                            IF i = 0 THEN f ELSE IF cur[i - 1] = None THEN None ELSE A[cur[i - 1]].next]
<1>0. MaxAllocations \in Nat
  BY SlotsAssumption
<1>1. \A x \in T : next(x) \in T
  BY DEF Allocation
<1>2. s \in [Nat -> [T -> T]]
  <2>. HIDE DEF T, next
  <2>. QED BY <1>1
<1>3. PICK g : Iterates(g, T, f, s)
  <2>. HIDE DEF s
  <2>. QED BY <1>2, Recursion
<1>4. g \in [Nat -> T] /\ g[0] = f /\ \A n \in Nat : g[n + 1] = next(g[n])
  <2>1. g \in [Nat -> T] /\ g[0] = f /\ \A n \in Nat : g[n + 1] = s[n][g[n]]
    BY <1>3 DEF Iterates
  <2>. HIDE DEF T, next
  <2>. QED BY <2>1
<1>. DEFINE h == [i \in 0 .. MaxAllocations |-> g[i]]
<1>5. h = Body(h)
  <2>1. \A i \in 0 .. MaxAllocations : h[i] = Body(h)[i]
    <3>. SUFFICES ASSUME NEW i \in 0 .. MaxAllocations PROVE h[i] = Body(h)[i]
      OBVIOUS
    <3>1. CASE i = 0
      BY <1>0, <1>4, <3>1
    <3>2. CASE i # 0
      <4>1. i - 1 \in Nat /\ i - 1 \in 0 .. MaxAllocations /\ (i - 1) + 1 = i
        BY <1>0, <3>2
      <4>2. h[i] = next(h[i - 1])
        BY <1>4, <4>1
      <4>. HIDE DEF h
      <4>. QED BY <3>2, <4>2
    <3>. QED BY <3>1, <3>2
  <2>. HIDE DEF Body
  <2>2. h = [i \in 0 .. MaxAllocations |-> h[i]]
    OBVIOUS
  <2>3. Body(h) = [i \in 0 .. MaxAllocations |-> Body(h)[i]]
    BY DEF Body
  <2>. HIDE DEF h
  <2>. QED BY <2>1, <2>2, <2>3
<1>6. Turns(A, f) = CHOOSE cur : cur = Body(cur)
  BY DEF Turns
<1>. DEFINE c == Turns(A, f)
<1>7. c = Body(c)
  <2>. HIDE DEF Body, h
  <2>. QED BY <1>5, <1>6, Zenon
<1>. HIDE DEF c
<1>8. c[0] = f
  BY <1>0, <1>7
<1>9. \A i \in 0 .. MaxAllocations - 1 : c[i + 1] = next(c[i])
  <2>. SUFFICES ASSUME NEW i \in 0 .. MaxAllocations - 1 PROVE c[i + 1] = next(c[i])
    OBVIOUS
  <2>1. i + 1 \in 0 .. MaxAllocations /\ i + 1 # 0 /\ (i + 1) - 1 = i
    BY <1>0
  <2>. QED BY <1>7, <2>1
<1>10. \A i \in Nat : i \in {j \in Nat : j <= MaxAllocations => c[j] = g[j]}
  <2>. DEFINE I == {j \in Nat : j <= MaxAllocations => c[j] = g[j]}
  <2>1. 0 \in I
    BY <1>4, <1>8
  <2>2. ASSUME NEW j \in Nat, j \in I PROVE j + 1 \in I
    <3>. SUFFICES ASSUME j + 1 <= MaxAllocations PROVE c[j + 1] = g[j + 1]
      OBVIOUS
    <3>1. j \in 0 .. MaxAllocations - 1 /\ c[j] = g[j]
      BY <1>0, <2>2
    <3>. QED BY <1>4, <1>9, <3>1
  <2>. HIDE DEF I
  <2>3. \A i \in Nat : i \in I
    BY <2>1, <2>2, NatInduct
  <2>. QED BY <2>3 DEF I
<1>11. \A i \in 0 .. MaxAllocations : c[i] \in T
  <2>. HIDE DEF T
  <2>. QED BY <1>0, <1>4, <1>10
<1>. QED BY <1>8, <1>9, <1>11 DEF c

\* More places than values: one value is in two places.
LEMMA Pigeonhole ==
  \A n \in Nat : \A f \in [0 .. n -> 0 .. n - 1] : \E i, j \in 0 .. n : i < j /\ f[i] = f[j]
<1>. DEFINE Twice(f, n) == \E i, j \in 0 .. n : i < j /\ f[i] = f[j]
            S == {n \in Nat : \A f \in [0 .. n -> 0 .. n - 1] : Twice(f, n)}
<1>1. 0 \in S
  <2>. SUFFICES ASSUME NEW f \in [0 .. 0 -> 0 .. 0 - 1] PROVE FALSE
    OBVIOUS
  <2>1. f[0] \in 0 .. 0 - 1
    OBVIOUS
  <2>. QED BY <2>1
<1>2. ASSUME NEW n \in Nat, n \in S PROVE n + 1 \in S
  <2>. SUFFICES ASSUME NEW f \in [0 .. n + 1 -> 0 .. n] PROVE Twice(f, n + 1)
    OBVIOUS
  <2>0. \A i \in 0 .. n + 1 : f[i] \in 0 .. n
    OBVIOUS
  <2>1. CASE \E i \in 0 .. n : f[i] = f[n + 1]
    <3>1. PICK i \in 0 .. n : f[i] = f[n + 1]
      BY <2>1
    <3>2. i \in 0 .. n + 1 /\ n + 1 \in 0 .. n + 1 /\ i < n + 1
      OBVIOUS
    <3>. QED BY <3>1, <3>2
  <2>2. CASE \A i \in 0 .. n : f[i] # f[n + 1]
    <3>. DEFINE g == [i \in 0 .. n |-> IF f[i] = n THEN f[n + 1] ELSE f[i]]
    <3>1. \A i \in 0 .. n : g[i] \in 0 .. n - 1
      <4>. SUFFICES ASSUME NEW i \in 0 .. n PROVE g[i] \in 0 .. n - 1
        OBVIOUS
      <4>1. f[i] \in 0 .. n /\ f[n + 1] \in 0 .. n /\ f[i] # f[n + 1]
        BY <2>0, <2>2
      <4>. QED BY <4>1
    <3>2. g \in [0 .. n -> 0 .. n - 1]
      BY <3>1
    <3>3. PICK i \in 0 .. n, j \in 0 .. n : i < j /\ g[i] = g[j]
      <4>. HIDE DEF g
      <4>. QED BY <1>2, <3>2
    <3>4. f[i] # f[n + 1] /\ f[j] # f[n + 1]
      BY <2>2
    <3>5. f[i] = f[j]
      BY <3>3, <3>4
    <3>6. i \in 0 .. n + 1 /\ j \in 0 .. n + 1
      OBVIOUS
    <3>. QED BY <3>3, <3>5, <3>6
  <2>. QED BY <2>1, <2>2
<1>3. \A n \in Nat : n \in S
  <2>. HIDE DEF S
  <2>. QED BY <1>1, <1>2, NatInduct
<1>. QED BY <1>3

\* The walk of a list takes each slot in use once.
LEMMA WalkDone ==
  ASSUME NEW A \in [Slots -> Allocation], NEW f, Listed(A, f), NEW n, n = get_descriptor_count(A, f)
  PROVE  /\ n \in 0 .. MaxAllocations
         /\ \A i \in 0 .. n - 1 : Turns(A, f)[i] \in InUse(A)
         /\ \A i, j \in 0 .. n - 1 : i < j => Turns(A, f)[i] # Turns(A, f)[j]
         /\ \A s \in InUse(A) : \E i \in 0 .. n - 1 : Turns(A, f)[i] = s
<1>. DEFINE c == Turns(A, f)
<1>0. MaxAllocations \in Nat
  BY SlotsAssumption
<1>1. f \in InUse(A) \cup {None} /\ f \in Slots \cup {None}
  BY DEF Listed, InUse
<1>2. /\ c[0] = f
      /\ \A i \in 0 .. MaxAllocations : c[i] \in Slots \cup {None}
      /\ \A i \in 0 .. MaxAllocations - 1 : c[i + 1] = IF c[i] = None THEN None ELSE A[c[i]].next
  BY <1>1, TurnsAre
<1>3. \A s \in InUse(A) : A[s].next \in InUse(A) \cup {None} /\ A[s].next # f
  BY DEF Listed
<1>4. \A s, t \in InUse(A) : A[s].next = A[t].next /\ A[s].next # None => s = t
  BY DEF Listed
<1>. HIDE DEF c
<1>5. \A i \in Nat : i \in {j \in Nat : j <= MaxAllocations => c[j] \in InUse(A) \cup {None}}
  <2>. DEFINE I == {j \in Nat : j <= MaxAllocations => c[j] \in InUse(A) \cup {None}}
  <2>1. 0 \in I
    BY <1>1, <1>2
  <2>2. ASSUME NEW j \in Nat, j \in I PROVE j + 1 \in I
    <3>. SUFFICES ASSUME j + 1 <= MaxAllocations PROVE c[j + 1] \in InUse(A) \cup {None}
      OBVIOUS
    <3>1. j \in 0 .. MaxAllocations - 1 /\ c[j] \in InUse(A) \cup {None}
      BY <1>0, <2>2
    <3>. QED BY <1>2, <1>3, <3>1
  <2>. HIDE DEF I
  <2>3. \A i \in Nat : i \in I
    BY <2>1, <2>2, NatInduct
  <2>. QED BY <2>3 DEF I
<1>6. \A i \in 0 .. MaxAllocations : c[i] \in InUse(A) \cup {None}
  BY <1>0, <1>5
<1>7. ASSUME NEW j \in 1 .. MaxAllocations, c[j] # None
      PROVE  c[j - 1] \in InUse(A) /\ c[j] = A[c[j - 1]].next
  <2>1. j - 1 \in 0 .. MaxAllocations - 1 /\ (j - 1) + 1 = j /\ j - 1 \in 0 .. MaxAllocations
    BY <1>0
  <2>2. c[j] = IF c[j - 1] = None THEN None ELSE A[c[j - 1]].next
    BY <1>2, <2>1
  <2>. QED BY <1>6, <1>7, <2>1, <2>2
<1>. DEFINE Once(i) == \A j \in 0 .. MaxAllocations : i < j /\ c[j] # None => c[i] # c[j]
<1>8. \A i \in Nat : i \in {k \in Nat : k <= MaxAllocations => Once(k)}
  <2>. DEFINE I == {k \in Nat : k <= MaxAllocations => Once(k)}
  <2>1. 0 \in I
    <3>. SUFFICES ASSUME NEW j \in 0 .. MaxAllocations, 0 < j, c[j] # None PROVE c[0] # c[j]
      BY <1>0
    <3>1. j \in 1 .. MaxAllocations
      BY <1>0
    <3>2. c[j - 1] \in InUse(A) /\ c[j] = A[c[j - 1]].next
      BY <1>7, <3>1
    <3>. QED BY <1>2, <1>3, <3>2
  <2>2. ASSUME NEW i \in Nat, i \in I PROVE i + 1 \in I
    <3>. SUFFICES ASSUME i + 1 <= MaxAllocations, NEW j \in 0 .. MaxAllocations, i + 1 < j, c[j] # None,
                         c[i + 1] = c[j]
                  PROVE  FALSE
      OBVIOUS
    <3>1. j \in 1 .. MaxAllocations /\ i + 1 \in 1 .. MaxAllocations /\ (i + 1) - 1 = i
      BY <1>0
    <3>2. c[j - 1] \in InUse(A) /\ c[j] = A[c[j - 1]].next
      BY <1>7, <3>1
    <3>3. c[i] \in InUse(A) /\ c[i + 1] = A[c[i]].next
      BY <1>7, <3>1
    <3>4. c[i] = c[j - 1]
      BY <1>4, <3>2, <3>3
    <3>5. i <= MaxAllocations /\ j - 1 \in 0 .. MaxAllocations /\ i < j - 1
      BY <1>0
    <3>6. c[j - 1] # None
      BY <3>2, NoneIsNoSlot DEF InUse
    <3>7. Once(i)
      BY <2>2, <3>5
    <3>. QED BY <3>4, <3>5, <3>6, <3>7
  <2>. HIDE DEF I
  <2>3. \A i \in Nat : i \in I
    BY <2>1, <2>2, NatInduct
  <2>. QED BY <2>3 DEF I
<1>9. \A i, j \in 0 .. MaxAllocations : i < j /\ c[j] # None => c[i] # c[j]
  BY <1>0, <1>8
<1>. HIDE DEF Once
<1>10. \E i \in 0 .. MaxAllocations : c[i] = None
  <2>. SUFFICES ASSUME \A i \in 0 .. MaxAllocations : c[i] # None PROVE FALSE
    OBVIOUS
  <2>. DEFINE g == [i \in 0 .. MaxAllocations |-> c[i]]
  <2>1. \A i \in 0 .. MaxAllocations : c[i] \in 0 .. MaxAllocations - 1
    BY <1>2 DEF Slots
  <2>2. g \in [0 .. MaxAllocations -> 0 .. MaxAllocations - 1]
    BY <2>1
  <2>3. PICK i \in 0 .. MaxAllocations, j \in 0 .. MaxAllocations : i < j /\ g[i] = g[j]
    <3>. HIDE DEF g
    <3>. QED BY <1>0, <2>2, Pigeonhole
  <2>. QED BY <1>9, <2>3
<1>11. PICK m \in 0 .. MaxAllocations : c[m] = None /\ \A i \in 0 .. m - 1 : c[i] # None
  <2>. DEFINE N == {i \in 0 .. MaxAllocations : c[i] = None}
  <2>1. N \in SUBSET Nat /\ N # {}
    BY <1>10
  <2>2. PICK m \in N : \A i \in N : m <= i
    BY <2>1, LeastNat
  <2>3. \A i \in 0 .. m - 1 : i \in 0 .. MaxAllocations /\ ~ (m <= i)
    BY <1>0
  <2>. QED BY <2>2, <2>3
<1>12. n \in 0 .. MaxAllocations /\ c[n] = None /\ \A i \in 0 .. n - 1 : c[i] # None
  BY <1>11 DEF get_descriptor_count, c
<1>13. \A i \in 0 .. n - 1 : i \in 0 .. MaxAllocations /\ c[i] \in InUse(A)
  BY <1>0, <1>6, <1>12
<1>14. \A i, j \in 0 .. n - 1 : i < j => c[i] # c[j]
  BY <1>9, <1>12, <1>13
<1>15. ASSUME NEW s \in InUse(A) PROVE \E i \in 0 .. n - 1 : c[i] = s
  <2>. DEFINE C == {c[i] : i \in 0 .. n - 1}
  <2>1. f # None
    BY <1>15 DEF Listed
  <2>2. n # 0
    BY <1>2, <1>12, <2>1
  <2>3. 0 \in 0 .. n - 1
    BY <1>12, <2>2
  <2>4. f \in C /\ C \in SUBSET InUse(A)
    BY <1>2, <1>13, <2>3
  <2>5. ASSUME NEW i \in 0 .. n - 1 PROVE A[c[i]].next \in C \cup {None}
    <3>1. i \in 0 .. MaxAllocations - 1 /\ c[i] # None
      BY <1>0, <1>12
    <3>2. A[c[i]].next = c[i + 1]
      BY <1>2, <3>1
    <3>3. CASE i + 1 = n
      BY <1>12, <3>2, <3>3
    <3>4. CASE i + 1 # n
      <4>1. i + 1 \in 0 .. n - 1
        BY <1>12, <3>4
      <4>. QED BY <3>2, <4>1
    <3>. QED BY <3>3, <3>4
  <2>6. \A u \in C : A[u].next \in C \cup {None}
    BY <2>5
  <2>7. Before(A, f, s)
    BY DEF Listed
  <2>8. s \in C
    <3>. HIDE DEF C
    <3>. QED BY <2>4, <2>6, <2>7 DEF Before
  <2>. QED BY <2>8
<1>. QED BY <1>12, <1>13, <1>14, <1>15 DEF c

\* One slot more is at most one turn more.
LEMMA CountGrows ==
  ASSUME NEW A \in [Slots -> Allocation], NEW B \in [Slots -> Allocation], NEW f, NEW g,
         Listed(A, f), Listed(B, g), NEW new, InUse(B) \subseteq InUse(A) \cup {new}
  PROVE  get_descriptor_count(B, g) <= get_descriptor_count(A, f) + 1
<1>. DEFINE n == get_descriptor_count(A, f)
            m == get_descriptor_count(B, g)
            c == Turns(A, f)
            d == Turns(B, g)
<1>0. MaxAllocations \in Nat
  BY SlotsAssumption
<1>1. n \in 0 .. MaxAllocations /\ \A s \in InUse(A) : \E i \in 0 .. n - 1 : c[i] = s
  BY WalkDone
<1>2. /\ m \in 0 .. MaxAllocations
      /\ \A i \in 0 .. m - 1 : d[i] \in InUse(B)
      /\ \A i, j \in 0 .. m - 1 : i < j => d[i] # d[j]
  BY WalkDone
<1>. HIDE DEF n, m, c, d
<1>3. n \in Nat /\ m \in Nat
  BY <1>0, <1>1, <1>2
<1>. SUFFICES ASSUME ~ (m <= n + 1) PROVE FALSE
  BY DEF n, m
<1>. DEFINE Pos(s) == CHOOSE i \in 0 .. n - 1 : c[i] = s
            h == [i \in 0 .. n + 1 |-> IF d[i] \in InUse(A) THEN Pos(d[i]) ELSE n]
<1>4. \A s \in InUse(A) : Pos(s) \in 0 .. n - 1 /\ c[Pos(s)] = s
  BY <1>1
<1>. HIDE DEF Pos
<1>5. \A i \in 0 .. n + 1 : i \in 0 .. m - 1
  BY <1>3
<1>6. \A i \in 0 .. n + 1 : h[i] \in 0 .. n
  <2>. SUFFICES ASSUME NEW i \in 0 .. n + 1 PROVE h[i] \in 0 .. n
    OBVIOUS
  <2>1. CASE d[i] \in InUse(A)
    <3>1. Pos(d[i]) \in 0 .. n - 1
      BY <1>4, <2>1
    <3>2. h[i] = Pos(d[i])
      BY <2>1
    <3>. HIDE DEF h
    <3>. QED BY <1>3, <3>1, <3>2
  <2>2. CASE d[i] \notin InUse(A)
    BY <1>3, <2>2
  <2>. QED BY <2>1, <2>2
<1>7. h \in [0 .. n + 1 -> 0 .. (n + 1) - 1]
  <2>1. (n + 1) - 1 = n
    BY <1>3
  <2>. QED BY <1>6, <2>1
<1>8. PICK i \in 0 .. n + 1, j \in 0 .. n + 1 : i < j /\ h[i] = h[j]
  <2>. HIDE DEF h
  <2>1. n + 1 \in Nat
    BY <1>3
  <2>. QED BY <1>7, <2>1, Pigeonhole
<1>9. d[i] # d[j] /\ d[i] \in InUse(A) \cup {new} /\ d[j] \in InUse(A) \cup {new}
  BY <1>2, <1>5, <1>8
<1>10. /\ h[i] = IF d[i] \in InUse(A) THEN Pos(d[i]) ELSE n
       /\ h[j] = IF d[j] \in InUse(A) THEN Pos(d[j]) ELSE n
  OBVIOUS
<1>. HIDE DEF h
<1>11. \A s \in InUse(A) : Pos(s) # n
  BY <1>3, <1>4
<1>12. CASE d[i] \in InUse(A) /\ d[j] \in InUse(A)
  <2>1. Pos(d[i]) = Pos(d[j])
    BY <1>8, <1>10, <1>12
  <2>. QED BY <1>4, <1>9, <1>12, <2>1
<1>13. CASE d[i] \notin InUse(A) \/ d[j] \notin InUse(A)
  BY <1>8, <1>9, <1>10, <1>11, <1>13
<1>. QED BY <1>12, <1>13

\* The map has a descriptor for each block, and no other.
LEMMA Enumerated ==
  ASSUME NEW A \in [Slots -> Allocation], NEW f, Listed(A, f)
  PROVE  Range(get_descriptors(A, f)) = {Descriptor(A[s]) : s \in InUse(A)}
<1>. DEFINE n == get_descriptor_count(A, f)
            c == Turns(A, f)
            D == get_descriptors(A, f)
<1>1. /\ n \in 0 .. MaxAllocations
      /\ \A i \in 0 .. n - 1 : c[i] \in InUse(A)
      /\ \A s \in InUse(A) : \E i \in 0 .. n - 1 : c[i] = s
  BY WalkDone
<1>2. D = [i \in 1 .. n |-> Descriptor(A[c[i - 1]])]
  BY DEF get_descriptors
<1>. HIDE DEF n, c, D
<1>3. Range(D) = {Descriptor(A[c[i - 1]]) : i \in 1 .. n}
  BY <1>2 DEF Range
<1>4. ASSUME NEW i \in 1 .. n PROVE c[i - 1] \in InUse(A)
  <2>1. i - 1 \in 0 .. n - 1
    BY <1>1, SlotsAssumption
  <2>. QED BY <1>1, <2>1
<1>5. ASSUME NEW s \in InUse(A) PROVE \E i \in 1 .. n : c[i - 1] = s
  <2>1. PICK i \in 0 .. n - 1 : c[i] = s
    BY <1>1
  <2>2. i + 1 \in 1 .. n /\ (i + 1) - 1 = i
    BY <1>1, SlotsAssumption
  <2>. QED BY <2>1, <2>2
<1>6. Range(D) = {Descriptor(A[s]) : s \in InUse(A)}
  BY <1>3, <1>4, <1>5
<1>. QED BY <1>6 DEF D

-----------------------------------------------------------------------------
(* Reservations of an orderly list *)

\* A range lies in one block that is free.
Covered(A, q) ==
  \E s \in InUse(A) :
    A[s].type = Conventional /\ A[s].start <= q.page /\ q.page + q.count <= End(A, s)

Apart(q, r) == q.page + q.count <= r.page \/ r.page + r.count <= q.page

\* The slots in use are the first m.
FirstSlots(A, m) == m \in Nat /\ m <= MaxAllocations /\ InUse(A) = {s \in Slots : s < m}

LEMMA NextSlot ==
  ASSUME NEW A \in [Slots -> Allocation], NEW m, FirstSlots(A, m), m < MaxAllocations
  PROVE  /\ find_free_allocation(A) = m /\ m # None /\ m \in Slots /\ m \notin InUse(A)
         /\ \A B : InUse(B) = InUse(A) \cup {m} => FirstSlots(B, m + 1)
<1>0. MaxAllocations \in Nat /\ m \in Nat
  BY SlotsAssumption DEF FirstSlots
<1>1. m \in Slots /\ m \notin InUse(A) /\ m # None
  BY <1>0 DEF FirstSlots, Slots, None
<1>2. /\ find_free_allocation(A) \in Slots
      /\ find_free_allocation(A) \notin InUse(A)
      /\ \A j \in Slots \ InUse(A) : find_free_allocation(A) <= j
  BY <1>1, FreeSlot
<1>3. find_free_allocation(A) <= m
  BY <1>1, <1>2
<1>4. ~ (find_free_allocation(A) < m)
  BY <1>2 DEF FirstSlots
<1>5. find_free_allocation(A) = m
  BY <1>0, <1>2, <1>3, <1>4 DEF Slots
<1>6. ASSUME NEW B, InUse(B) = InUse(A) \cup {m} PROVE FirstSlots(B, m + 1)
  <2>1. {s \in Slots : s < m} \cup {m} = {s \in Slots : s < m + 1}
    BY <1>0, <1>1 DEF Slots
  <2>2. m + 1 \in Nat /\ m + 1 <= MaxAllocations
    BY <1>0
  <2>. QED BY <1>6, <2>1, <2>2 DEF FirstSlots
<1>. QED BY <1>1, <1>5, <1>6


\* A range that does not reach across a cut is still covered.
LEMMA CutCovers ==
  ASSUME NEW A \in [Slots -> Allocation], NEW S, NEW o \in InUse(A), NEW n \in Nat, n <= A[o].pages,
         NEW new, Cut(A, S, o, n, new), NEW q \in Request, Covered(A, q),
         q.page + q.count <= A[o].start + n \/ A[o].start + n <= q.page
  PROVE  Covered(S, q)
<1>1. PICK s \in InUse(A) : A[s].type = Conventional /\ A[s].start <= q.page /\ q.page + q.count <= End(A, s)
  BY DEF Covered
<1>2. /\ s \in InUse(S) /\ new \in InUse(S) /\ s \in Slots \ {new}
      /\ A[o].start \in Nat /\ A[o].pages \in Nat /\ q.page \in Nat /\ q.count \in Nat
  BY DEF Cut, InUse, Allocation, Request
<1>3. CASE s # o
  <2>1. S[s] = A[s]
    BY <1>2, <1>3 DEF Cut
  <2>. QED BY <1>1, <1>2, <2>1 DEF Covered, End
<1>4. CASE s = o /\ q.page + q.count <= A[o].start + n
  <2>1. S[o].type = Conventional /\ S[o].start = A[o].start /\ S[o].pages = n
    BY <1>1, <1>4 DEF Cut
  <2>. QED BY <1>1, <1>2, <1>4, <2>1 DEF Covered, End
<1>5. CASE s = o /\ A[o].start + n <= q.page
  <2>1. S[new].type = Conventional /\ S[new].start = A[o].start + n /\ S[new].pages = A[o].pages - n
    BY <1>1, <1>5 DEF Cut
  <2>2. (A[o].start + n) + (A[o].pages - n) = A[o].start + A[o].pages
    BY <1>2
  <2>. QED BY <1>1, <1>2, <1>5, <2>1, <2>2 DEF Covered, End
<1>. QED BY <1>3, <1>4, <1>5

\* A range apart from the block that gets a type is still covered.
LEMMA TypedCovers ==
  ASSUME NEW S, NEW B, NEW x, NEW r \in Request, Typed(S, B, x, r.type), r.count > 0,
         S[x].start = r.page, S[x].pages = r.count,
         NEW q \in Request, q.count > 0, Apart(q, r), Covered(S, q)
  PROVE  Covered(B, q)
<1>1. PICK s \in InUse(S) : S[s].type = Conventional /\ S[s].start <= q.page /\ q.page + q.count <= End(S, s)
  BY DEF Covered
<1>2. q.page \in Nat /\ q.count \in Nat /\ r.page \in Nat /\ r.count \in Nat
  BY DEF Request
<1>3. s # x
  <2>. SUFFICES ASSUME s = x PROVE FALSE
    OBVIOUS
  <2>1. r.page <= q.page /\ q.page + q.count <= r.page + r.count
    BY <1>1 DEF End
  <2>. QED BY <1>2, <2>1 DEF Apart
<1>4. s \in InUse(B) /\ s \in Slots
  BY TypedUses DEF InUse
<1>5. B[s].type = S[s].type /\ B[s].start = S[s].start /\ B[s].pages = S[s].pages
  BY <1>3, <1>4 DEF Typed
<1>. QED BY <1>1, <1>4, <1>5 DEF Covered, End

\* With two slots left, a reservation in free memory succeeds, takes at most two slots, and
\* leaves the ranges apart from it covered.
LEMMA ReserveBlocks ==
  ASSUME NEW A \in [Slots -> Allocation], NEW B, NEW r \in Request, r.how = "Address", r.count > 0,
         NEW dest \in Candidates(A, r), Outcome(A, B, r, dest),
         NEW m, FirstSlots(A, m), m + 2 <= MaxAllocations
  PROVE  /\ ret'.status = "SUCCESS"
         /\ \E k \in Nat : k <= m + 2 /\ FirstSlots(B, k)
         /\ \A q \in Request : q.count > 0 /\ Apart(q, r) /\ Covered(A, q) => Covered(B, q)
<1>. DEFINE d == r.page - A[dest].start
            Kept == \A q \in Request : q.count > 0 /\ Apart(q, r) /\ Covered(A, q) => Covered(B, q)
<1>1. /\ MaxAllocations \in Nat /\ m \in Nat /\ m < MaxAllocations /\ m + 1 < MaxAllocations
      /\ m <= m + 2 /\ m + 1 \in Nat /\ m + 1 <= m + 2 /\ m + 2 \in Nat /\ m + 2 <= m + 2
      /\ (m + 1) + 1 = m + 2
  BY SlotsAssumption DEF FirstSlots
<1>2. /\ dest \in InUse(A) /\ A[dest].start \in Nat /\ A[dest].pages \in Nat
      /\ r.count \in Nat /\ r.count <= A[dest].pages /\ d \in Nat /\ d <= A[dest].pages
  BY FitsBounds
<1>3. A[dest].start <= r.page /\ r.page + r.count <= A[dest].start + A[dest].pages /\ r.page \in Nat
  BY FitsPlaced DEF End
<1>4. A[dest].start + d = r.page
  BY <1>2, <1>3
<1>5. \A q \in Request : q.page \in Nat /\ q.count \in Nat
  BY DEF Request
<1>. HIDE DEF d
<1>6. ASSUME NEW q \in Request, Apart(q, r)
      PROVE  /\ q.page + q.count <= r.page \/ r.page <= q.page
             /\ q.page + q.count <= r.page + r.count \/ r.page + r.count <= q.page
  BY <1>2, <1>3, <1>5, <1>6 DEF Apart
<1>8. find_free_allocation(A) # None
  BY <1>1, NextSlot
<1>9. ASSUME NEW S, NEW n, NEW new, Cut(A, S, dest, n, new)
      PROVE  S \in [Slots -> Allocation] /\ FirstSlots(S, m + 1)
  BY <1>1, <1>9, NextSlot DEF Cut
<1>10. ASSUME NEW S, NEW n, NEW new, Cut(A, S, dest, n, new) PROVE find_free_allocation(S) # None
  BY <1>1, <1>9, <1>10, NextSlot
<1>11. ASSUME NEW S, NEW x, NEW k, Typed(S, B, x, r.type), FirstSlots(S, k) PROVE FirstSlots(B, k)
  BY <1>11, TypedUses DEF FirstSlots
<1>12. CASE /\ ret' = [status |-> "SUCCESS", address |-> A[dest].start]
            /\ A[dest].pages = r.count /\ Typed(A, B, dest, r.type)
  <2>1. A[dest].start = r.page
    BY <1>2, <1>3, <1>12
  <2>2. Kept
    BY <1>12, <2>1, TypedCovers
  <2>. HIDE DEF Kept
  <2>3. FirstSlots(B, m)
    BY <1>11, <1>12
  <2>. QED BY <1>1, <1>12, <2>2, <2>3 DEF Kept
<1>13. CASE \E S, new : /\ ret' = [status |-> "SUCCESS", address |-> A[dest].start]
                        /\ r.how = "Address" => r.page = A[dest].start
                        /\ Cut(A, S, dest, r.count, new) /\ Typed(S, B, dest, r.type)
  <2>1. PICK S, new : Cut(A, S, dest, r.count, new) /\ Typed(S, B, dest, r.type)
    BY <1>13
  <2>2. r.page = A[dest].start /\ S[dest].start = r.page /\ S[dest].pages = r.count
    BY <1>13, <2>1 DEF Cut
  <2>3. Kept
    <3>. SUFFICES ASSUME NEW q \in Request, q.count > 0, Apart(q, r), Covered(A, q) PROVE Covered(B, q)
      OBVIOUS
    <3>1. Covered(S, q)
      BY <1>2, <1>6, <2>1, <2>2, CutCovers
    <3>. QED BY <2>1, <2>2, <3>1, TypedCovers
  <2>. HIDE DEF Kept
  <2>4. FirstSlots(B, m + 1)
    BY <1>9, <1>11, <2>1
  <2>. QED BY <1>1, <1>13, <2>3, <2>4 DEF Kept
<1>14. CASE \E S, new : /\ ret' = [status |-> "SUCCESS", address |-> r.page] /\ r.how = "Address"
                        /\ Cut(A, S, dest, d, new)
                        /\ S[new].pages = r.count /\ Typed(S, B, new, r.type)
  <2>1. PICK S, new : /\ Cut(A, S, dest, d, new)
                      /\ S[new].pages = r.count /\ Typed(S, B, new, r.type)
    BY <1>14
  <2>2. S[new].start = r.page
    BY <1>4, <2>1 DEF Cut
  <2>3. Kept
    <3>. SUFFICES ASSUME NEW q \in Request, q.count > 0, Apart(q, r), Covered(A, q) PROVE Covered(B, q)
      OBVIOUS
    <3>1. Covered(S, q)
      BY <1>2, <1>4, <1>6, <2>1, CutCovers
    <3>. QED BY <2>1, <2>2, <3>1, TypedCovers
  <2>. HIDE DEF Kept
  <2>4. FirstSlots(B, m + 1)
    BY <1>9, <1>11, <2>1
  <2>. QED BY <1>1, <1>14, <2>3, <2>4 DEF Kept
<1>15. CASE \E S, T, new, more :
              /\ ret' = [status |-> "SUCCESS", address |-> r.page] /\ r.how = "Address"
              /\ Cut(A, S, dest, d, new)
              /\ S[new].pages >= r.count /\ Cut(S, T, new, r.count, more) /\ Typed(T, B, new, r.type)
  <2>1. PICK S, T, new, more :
          /\ Cut(A, S, dest, d, new)
          /\ S[new].pages >= r.count /\ Cut(S, T, new, r.count, more) /\ Typed(T, B, new, r.type)
    BY <1>15
  <2>2. /\ S[new].start = r.page /\ new \in InUse(S) /\ S \in [Slots -> Allocation]
        /\ T[new].start = r.page /\ T[new].pages = r.count
    BY <1>4, <2>1 DEF Cut
  <2>3. S[new].pages \in Nat
    BY <2>2 DEF InUse, Allocation
  <2>4. Kept
    <3>. SUFFICES ASSUME NEW q \in Request, q.count > 0, Apart(q, r), Covered(A, q) PROVE Covered(B, q)
      OBVIOUS
    <3>1. Covered(S, q)
      BY <1>2, <1>4, <1>6, <2>1, CutCovers
    <3>2. r.count <= S[new].pages
      BY <1>2, <2>1, <2>3
    <3>3. Covered(T, q)
      BY <1>2, <1>6, <2>1, <2>2, <3>1, <3>2, CutCovers
    <3>. QED BY <2>1, <2>2, <3>3, TypedCovers
  <2>. HIDE DEF Kept
  <2>5. FirstSlots(S, m + 1)
    BY <1>9, <2>1
  <2>6. FirstSlots(T, (m + 1) + 1)
    BY <1>1, <2>1, <2>2, <2>5, NextSlot DEF Cut
  <2>7. FirstSlots(B, m + 2)
    BY <1>1, <1>11, <2>1, <2>6
  <2>. QED BY <1>1, <1>15, <2>4, <2>7 DEF Kept
<1>. QED BY <1>8, <1>10, <1>12, <1>13, <1>14, <1>15, Zenon DEF Outcome, d

=============================================================================
