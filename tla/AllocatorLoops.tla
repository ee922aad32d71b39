--------------------------- MODULE AllocatorLoops ---------------------------
(***************************************************************************)
(* The loops of src/efi/alloc.rs as the code runs them, following          *)
(* next_allocation from slot to slot, to compare with the closed forms of  *)
(* Allocator.                                                              *)
(***************************************************************************)
EXTENDS Allocator, FiniteSets

\* find_free_memory from slot cur on; None where the code returns None.
RECURSIVE FindLoop(_, _, _)
FindLoop(A, r, cur) ==
  IF cur = None THEN None
  ELSE IF Fits(A, r, cur) THEN cur
  ELSE FindLoop(A, r, A[cur].next)

\* merge_free_memory from slot cur on, one iteration at a time.
RECURSIVE MergeLoop(_, _)
MergeLoop(A, cur) ==
  IF cur = None \/ A[cur].next = None THEN A
  ELSE LET next == A[cur].next
       IN  IF A[cur].type = Conventional /\ A[next].type = Conventional
              /\ A[next].start = A[cur].start + A[cur].pages
           THEN MergeLoop([A EXCEPT ![cur].pages = @ + A[next].pages,
                                    ![cur].next = A[next].next,
                                    ![next].in_use = FALSE], cur)
           ELSE MergeLoop(A, next)

\* get_descriptor_count from slot cur on.
RECURSIVE CountLoop(_, _)
CountLoop(A, cur) == IF cur = None THEN 0 ELSE 1 + CountLoop(A, A[cur].next)

-----------------------------------------------------------------------------
\* In every reachable state the loops compute the closed forms: the search stops at
\* the first block of the list that can hold the request, for every request; the merge
\* loop, applied to the blocks as free_pages leaves them for it, releases the same
\* slots; and get_descriptor_count counts the slots in use, which is what the assert
\* of get_descriptors (alloc.rs:371) on the caller's buffer relies on.
LoopsAgree ==
  /\ \A r \in Requests :
       LET found == FindLoop(allocations, r, first_allocation)
       IN  IF found = None THEN Candidates(allocations, r) = {}
           ELSE {d \in Slots : find_free_memory(allocations, r, d)} = {found}
  /\ \A s \in InUse(allocations) :
       LET A == [allocations EXCEPT ![s].type = Conventional]
           B == MergeLoop(A, first_allocation)
       IN  merge_free_memory(A) =
             [u \in Slots |-> IF B[u].in_use THEN B[u] ELSE Released(B[u])]
  /\ CountLoop(allocations, first_allocation) = Cardinality(InUse(allocations))

=============================================================================
