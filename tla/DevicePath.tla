----------------------------- MODULE DevicePath -----------------------------
(***************************************************************************)
(* Device paths (src/efi/device_path.rs) as they lie in memory: a sequence *)
(* of words, each node a header word with its type and its length in       *)
(* words, followed by its data.  The header of the code is 4 bytes, one    *)
(* word here.  "END" and "INSTANCE" stand for the two sub-types of         *)
(* TYPE_END, "FILE" for a media file path and "HW" for every other node.   *)
(***************************************************************************)
EXTENDS Integers, Sequences, FiniteSets

HeaderSize == 1

Node(type, data) == <<[type |-> type, len |-> HeaderSize + Len(data)]>> \o data

EndNode == Node("END", << >>)

get_next_device_path_node(p, i) == i + p[i].len

\* The first node of p with a type in stop: the loops of the code that walk a path.
Find(p, stop) ==
  LET walk[i \in DOMAIN p] ==
        IF p[i].type \in stop THEN i ELSE walk[get_next_device_path_node(p, i)]
  IN  walk[1]

\* get_device_path_size counts the end node.
get_device_path_size(p) ==
  LET end == Find(p, {"END"}) IN end - 1 + p[end].len

compare_device_path(p, q, size) == \A i \in 1 .. size : p[i] = q[i]

\* drop_file_path_media_device_path makes the first file path node an end node that
\* keeps its length.
drop_file_path_media_device_path(p) ==
  LET i == Find(p, {"END", "FILE"})
  IN  [p EXCEPT ![i] = [type |-> "END", len |-> p[i].len]]

\* The words of p before its end or the end of its first instance: source_size of
\* locate_device_path.
InstanceSize(p) == Find(p, {"END", "INSTANCE"}) - 1

-----------------------------------------------------------------------------
(* The reference the properties compare with: a path as its list of nodes. *)

\* Where the nodes of the first instance of p start, its end included.
Starts(p) ==
  LET end == Find(p, {"END", "INSTANCE"})
      from[i \in DOMAIN p] == IF i = end THEN {i} ELSE {i} \cup from[get_next_device_path_node(p, i)]
  IN  from[1]

\* p, up to its end, is the first nodes of q.
IsNodePrefix(p, q) ==
  LET end == Find(p, {"END"})
  IN  end \in Starts(q) /\ SubSeq(p, 1, end - 1) = SubSeq(q, 1, end - 1)
=============================================================================
