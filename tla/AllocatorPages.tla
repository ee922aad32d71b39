--------------------------- MODULE AllocatorPages ---------------------------
(***************************************************************************)
(* The blocks of Allocator seen page by page, and the refinement of        *)
(* PagePool.                                                               *)
(***************************************************************************)
EXTENDS Allocator

CONSTANT MaxPage    \* the pages of the address space are 0 .. MaxPage

ASSUME PagesAssumption ==
  MaxPage \in Nat /\ \A i \in 1 .. Len(Regions) : Regions[i].start + Regions[i].pages <= MaxPage

Pages == 0 .. MaxPage

\* The type of each page, from the block that covers it.
KindOf(A) ==
  [p \in Pages |->
     LET Cover == {s \in InUse(A) : A[s].start <= p /\ p < End(A, s)}
     IN  IF Cover = {} THEN "absent" ELSE A[CHOOSE s \in Cover : TRUE].type]

kind == KindOf(allocations)

Pool == INSTANCE PagePool

\* Seen page by page, the allocator does what PagePool promises: free memory
\* only is handed out, at the place asked for, with the right address returned,
\* and a call that fails (half way through its splits included) changes no page.
ImplementsPagePool == Pool!Spec
=============================================================================
