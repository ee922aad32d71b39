------------------------------ MODULE PagePool ------------------------------
(***************************************************************************)
(* What the page allocator promises its callers, page by page, with no     *)
(* blocks, slots or lists: a page that is handed out was free, it is where *)
(* the request said it should be, nothing else changes, and a call that    *)
(* fails changes nothing.                                                  *)
(***************************************************************************)
EXTENDS Integers, Sequences

CONSTANTS
  Pages,          \* the page numbers of the address space, from 0 to one past the last page of memory
  LowMemoryTop, Types, Conventional, Regions, Requests

Absent == "absent"

VARIABLES
  kind,     \* the memory type of each page, Absent where there is no memory
  ret       \* what the last call returned

vars == <<kind, ret>>

Range(start, count) == {p \in Pages : start <= p /\ p < start + count}

\* Where a request may be placed.
Placed(r, start) ==
  \/ r.how = "Address" /\ start = r.page
  \/ r.how = "Any" /\ start > LowMemoryTop
  \/ r.how = "Max" /\ start + r.count <= r.page

\* Every page of P has one of the types from and gets the type to.
Retype(P, from, to) ==
  LET old == kind
  IN  /\ \A p \in P : old[p] \in from
      /\ kind' = [p \in Pages |-> IF p \in P THEN to ELSE old[p]]

Returns(address) == ret' = [status |-> "SUCCESS", address |-> address]

Init ==
  /\ kind = [p \in Pages |-> Absent]
  /\ ret = [status |-> "SUCCESS", address |-> 0]

AddRegion(i) ==
  /\ Returns(0)
  /\ Retype(Range(Regions[i].start, Regions[i].pages), {Absent}, Conventional)

Allocate(r, start) ==
  /\ Returns(start)
  /\ Placed(r, start)
  /\ Retype(Range(start, r.count), {Conventional}, r.type)

\* A block of one type is given back.
Free(start, end, type) ==
  /\ Returns(0)
  /\ Retype({p \in Pages : start <= p /\ p < end}, {type}, Conventional)

Fail ==
  /\ ret' \in [status : {"OUT_OF_RESOURCES", "NOT_FOUND"}, address : {0}]
  /\ UNCHANGED kind

Next ==
  \/ \E i \in 1 .. Len(Regions) : AddRegion(i)
  \/ \E r \in Requests, start \in Pages : Allocate(r, start)
  \/ \E start, end \in Pages, type \in Types : Free(start, end, type)
  \/ Fail

Spec == Init /\ [][Next]_vars
=============================================================================
