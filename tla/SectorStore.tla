---------------------------- MODULE SectorStore ----------------------------
(***************************************************************************)
(* What SectorRead and SectorWrite of src/block.rs promise: one request at *)
(* a time is called, performed once and answered.  A read that succeeds    *)
(* delivers the sector, a write that succeeds has stored it, and one that  *)
(* fails may have.                                                         *)
(***************************************************************************)
CONSTANTS Sectors, Values, NoReply

Ops == {"Read", "Write", "Flush"}
Results == {"Ok", "BlockIOError", "BlockNotSupported"}

VARIABLES
  disk,     \* the value of each sector
  phase,    \* "idle", "called" or "performed"
  call,     \* the current or last request: [op, sector, data], no data for a read
  reply     \* what it was answered: [result, data]

vars == <<disk, phase, call, reply>>

Init ==
  /\ disk \in [Sectors -> Values]
  /\ phase = "idle"
  /\ call \in [op : {"Flush"}, sector : Sectors, data : Values]
  /\ reply = NoReply

Call(op, sector, data) ==
  /\ phase = "idle"
  /\ phase' = "called"
  /\ call' = [op |-> op, sector |-> sector, data |-> IF op = "Read" THEN NoReply ELSE data]
  /\ reply' = NoReply
  /\ UNCHANGED disk

Perform ==
  /\ phase = "called"
  /\ phase' = "performed"
  /\ \/ UNCHANGED disk
     \/ call.op = "Write" /\ disk' = [disk EXCEPT ![call.sector] = call.data]
  /\ UNCHANGED <<call, reply>>

Return(result, data) ==
  /\ phase = "performed"
  /\ phase' = "idle"
  /\ reply' = [result |-> result, data |-> data]
  /\ result = "Ok" /\ call.op # "Flush" => data = disk[call.sector]
  /\ call.op # "Read" => data = call.data
  /\ UNCHANGED <<disk, call>>

Next ==
  \/ \E op \in Ops, sector \in Sectors, data \in Values : Call(op, sector, data)
  \/ Perform
  \/ \E result \in Results, data \in Values : Return(result, data)

Spec == Init /\ [][Next]_vars
=============================================================================
