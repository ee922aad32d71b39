--------------------------- MODULE HandleDatabase ---------------------------
(***************************************************************************)
(* The handle database (src/efi/handle_database.rs) behind the protocol    *)
(* services of src/efi/mod.rs.                                             *)
(*                                                                         *)
(* The database is an array of handles, each with an array of protocols;   *)
(* entries from the counts on are never read, so the model keeps the used  *)
(* prefixes as sequences.  A handle is its position, NullHandle a null     *)
(* pointer and Foreign a pointer to memory without the handle signature.   *)
(* The interface of a DevicePathGuid is a device path, any other interface *)
(* an opaque value.                                                        *)
(***************************************************************************)
EXTENDS DevicePath, FiniteSetsExt, Functions

CONSTANTS
  MaxHandles,       \* MAX_HANDLE_STRUCT
  MaxProtocols,     \* MAX_PROTOCOL_STRUCT
  MaxPairs,         \* the 8 pairs of install_multiple_protocol_interfaces_real
  Guids,            \* protocols other than device paths
  DevicePathGuid,
  Interfaces,       \* what is installed for them
  Paths,            \* the device paths installed
  Asked,            \* and those locate_device_path is asked for
  BufferSizes,      \* of locate_handle, in handles
  Stacks,           \* what may lie on the stack from a caller's second pair on
  Stray,            \* a GUID or interface read through a pointer nobody passed
  Null

ASSUME HandleAssumption ==
  /\ MaxHandles \in Nat \ {0} /\ MaxPairs \in Nat \ {0} /\ MaxProtocols \in Nat
  /\ MaxPairs <= MaxProtocols
  /\ DevicePathGuid \notin Guids
  /\ Stacks \subseteq [2 .. MaxPairs + 1 -> {Null, Stray}]

VARIABLES
  db,     \* protocol_handle[0 .. protocol_handle_count - 1]
  last    \* the last call and what it returned

hvars == <<db, last>>

NullHandle == 0
Foreign == -1

Pairs == [guid : Guids, interface : Interfaces] \cup [guid : {DevicePathGuid}, interface : Paths]

Handles == DOMAIN db

-----------------------------------------------------------------------------
\* get_protocol: the position of the first protocol with this GUID, 0 for NOT_FOUND.
get_protocol(d, handle, guid) ==
  LET found == {i \in DOMAIN d[handle] : d[handle][i].guid = guid}
  IN  IF found = {} THEN 0 ELSE Min(found)

\* Mutant of Duplicate: only the last pair is compared.
DuplicateOfLast(d, handle, pairs) == get_protocol(d, handle, pairs[Len(pairs)].guid) # 0

Duplicate(d, handle, pairs) == \E i \in DOMAIN pairs : get_protocol(d, handle, pairs[i].guid) # 0

Result(status, handle, d) == [status |-> status, handle |-> handle, db |-> d]

Failed(status, d) == Result(status, NullHandle, d)

\* get_handle, and get_new_handle for a null handle.
Acquire(d, handle) ==
  IF handle = Foreign THEN Failed("INVALID_PARAMETER", d)
  ELSE IF handle \in DOMAIN d THEN Result("SUCCESS", handle, d)
  ELSE IF Len(d) >= MaxHandles THEN Failed("OUT_OF_RESOURCES", d)
  ELSE Result("SUCCESS", Len(d) + 1, Append(d, << >>))

\* get_new_protocol for each of the pairs, and the pairs written to them.
Add(d, handle, pairs) == [d EXCEPT ![handle] = @ \o pairs]

\* Mutant of InstallProtocol: the limit compared is that of the handles.
InstallChecksHandles(d, handle, pair) ==
  LET new == Acquire(d, handle)
  IN  IF new.status # "SUCCESS" THEN new
      ELSE IF Duplicate(new.db, new.handle, <<pair>>) THEN Failed("INVALID_PARAMETER", new.db)
      ELSE IF Len(new.db) >= MaxHandles THEN Failed("OUT_OF_RESOURCES", new.db)
      ELSE [new EXCEPT !.db = Add(new.db, new.handle, <<pair>>)]

InstallProtocol(d, handle, pair) ==
  LET new == Acquire(d, handle)
  IN  IF new.status # "SUCCESS" THEN new
      ELSE IF Duplicate(new.db, new.handle, <<pair>>) THEN Failed("INVALID_PARAMETER", new.db)
      ELSE IF Len(new.db[new.handle]) >= MaxProtocols THEN Failed("OUT_OF_RESOURCES", new.db)
      ELSE [new EXCEPT !.db = Add(new.db, new.handle, <<pair>>)]

\* PANIC: the assert that get_new_protocol succeeds.
InstallMultipleProtocol(handle, pairs) ==
  LET new == Acquire(db, handle)
  IN  IF new.status # "SUCCESS" THEN new
      ELSE IF handle \in Handles /\ Len(db[handle]) > MaxProtocols - Len(pairs)
           THEN Failed("OUT_OF_RESOURCES", db)
      ELSE IF handle \in Handles /\ Duplicate(db, handle, pairs) THEN Failed("INVALID_PARAMETER", db)
      ELSE IF Len(new.db[new.handle]) + Len(pairs) > MaxProtocols THEN Failed("PANIC", new.db)
      ELSE [new EXCEPT !.db = Add(new.db, new.handle, pairs)]

\* The services write the handle back on success only.
Install(op, given, result) ==
  /\ db' = result.db
  /\ last' = [op |-> op, given |-> given, status |-> result.status, handle |-> result.handle]

install_protocol_interface(handle, pair) ==
  Install("install", <<pair>>, InstallProtocol(db, handle, pair))

\* A caller of the variadic service passes the pairs given and a null GUID; the
\* GUID arguments after that are whatever lies on its stack.  The last one that is
\* not null ends the list, and a null one before it is read as a GUID at address 0.
install_multiple_protocol_interfaces(handle, given, stack) ==
  LET n == Len(given)
      guid(i) == IF i = n + 1 THEN Null ELSE stack[i]
      count == Max({n} \cup {i \in n + 1 .. MaxPairs : guid(i) # Null})
      pairs == given \o [i \in 1 .. count - n |-> [guid |-> Stray, interface |-> guid(n + i)]]
  IN  Install("multiple", given,
              IF n = 0 THEN Failed("INVALID_PARAMETER", db)
              ELSE IF guid(MaxPairs + 1) # Null THEN Failed("UNSUPPORTED", db)
              ELSE InstallMultipleProtocol(handle, pairs))

\* The other services only read the database.
Answer(op, result) ==
  last' = [op |-> op, status |-> result.status, result |-> result] /\ UNCHANGED db

uninstall_protocol_interface == Answer("uninstall", [status |-> "SUCCESS"])

InterfaceOf(handle, guid) ==
  LET i == get_protocol(db, handle, guid)
  IN  IF handle = Foreign THEN [status |-> "INVALID_PARAMETER"]
      ELSE IF i = 0 THEN [status |-> "NOT_FOUND"]
      ELSE [status |-> "SUCCESS", interface |-> db[handle][i].interface]

\* handle_protocol and open_protocol.
handle_protocol(handle, guid) == Answer("handle", InterfaceOf(handle, guid))

\* locate_handle_copy: the handles with the protocol, in their order in the array.
HandlesWith(guid) ==
  SelectSeq([h \in Handles |-> h], LAMBDA h : get_protocol(db, h, guid) # 0)

\* That of the first handle with the protocol.
FirstInterface(guid) ==
  LET found == HandlesWith(guid)
  IN  IF found = << >> THEN [status |-> "NOT_FOUND"] ELSE InterfaceOf(found[1], guid)

locate_protocol(guid) == Answer("protocol", FirstInterface(guid))

LocateStatus(found, size) ==
  IF found = << >> THEN "NOT_FOUND"
  ELSE IF size < Len(found) THEN "BUFFER_TOO_SMALL" ELSE "SUCCESS"

HandlesInto(guid, size) ==
  LET found == HandlesWith(guid)
      status == LocateStatus(found, size)
  IN  [status |-> status, size |-> Len(found), handles |-> IF status = "SUCCESS" THEN found ELSE << >>]

\* size is the caller's buffer; the caller's size becomes that of the answer.
locate_handle(guid, size) == Answer("locate", HandlesInto(guid, size))

\* The pool allocation of the buffer may fail.
HandlesIntoPool(guid, pool) ==
  LET found == HandlesWith(guid)
  IN  IF found = << >> THEN [status |-> "NOT_FOUND"]
      ELSE IF ~ pool THEN [status |-> "OUT_OF_RESOURCES"]
      ELSE [status |-> "SUCCESS", handles |-> found]

locate_handle_buffer(guid, pool) == Answer("buffer", HandlesIntoPool(guid, pool))

DevicePathOf(h) == db[h][get_protocol(db, h, DevicePathGuid)].interface

\* Mutant of PathMatches: only the size of the paths is compared.
PathsNoLonger(guid, path) ==
  {h \in Range(HandlesWith(guid)) :
     /\ get_protocol(db, h, DevicePathGuid) # 0
     /\ get_device_path_size(DevicePathOf(h)) - HeaderSize <= InstanceSize(path)}

\* The handles with the protocol whose device path, its end node left out, is the
\* beginning of path.
PathMatches(guid, path) ==
  {h \in Range(HandlesWith(guid)) :
     /\ get_protocol(db, h, DevicePathGuid) # 0
     /\ LET size == get_device_path_size(DevicePathOf(h)) - HeaderSize
        IN  size <= InstanceSize(path) /\ compare_device_path(DevicePathOf(h), path, size)}

\* The first of the longest.
BestMatch(guid, path) ==
  LET size(h) == get_device_path_size(DevicePathOf(h)) - HeaderSize
  IN  CHOOSE h \in PathMatches(guid, path) :
        \A k \in PathMatches(guid, path) : size(k) < size(h) \/ (size(k) = size(h) /\ h <= k)

\* A failed allocation of the handle buffer is reported as NOT_FOUND as well.  On
\* success the caller's path pointer moves past the part that matched.
locate_device_path(guid, path, pool) ==
  Answer("path",
         IF ~ pool \/ PathMatches(guid, path) = {} THEN [status |-> "NOT_FOUND"]
         ELSE LET h == BestMatch(guid, path)
              IN  [status |-> "SUCCESS", handle |-> h,
                   rest |-> SubSeq(path, get_device_path_size(DevicePathOf(h)), Len(path))])

-----------------------------------------------------------------------------
Init == db = << >> /\ last = [op |-> "none"]

Next ==
  \/ \E handle \in Handles \cup {NullHandle, Foreign} :
       \/ \E pair \in Pairs : install_protocol_interface(handle, pair)
       \/ \E given \in UNION {[1 .. n -> Pairs] : n \in 0 .. MaxPairs}, stack \in Stacks :
            install_multiple_protocol_interfaces(handle, given, stack)
  \/ uninstall_protocol_interface
  \/ \E guid \in Guids \cup {DevicePathGuid} :
       \/ \E handle \in Handles \cup {Foreign} : handle_protocol(handle, guid)
       \/ locate_protocol(guid)
       \/ \E size \in BufferSizes : locate_handle(guid, size)
       \/ \E pool \in BOOLEAN :
            \/ locate_handle_buffer(guid, pool)
            \/ \E path \in Asked : locate_device_path(guid, path, pool)

Spec == Init /\ [][Next]_hvars

-----------------------------------------------------------------------------
(* Properties *)

\* A failed installation leaves nothing half done: no handle without a protocol, which a
\* failure after get_new_handle would leave, and no list of pairs of which some are
\* installed, for the assert of install_multiple_protocol that there was room never fires.
NoHalfInstall ==
  /\ \A h \in Handles : db[h] # << >>
  /\ last.op # "none" => last.status # "PANIC"

\* After a successful installation handle_protocol gives the caller back, on the
\* handle it was told, every interface it installed.
InstallVisible ==
  (last.op \in {"install", "multiple"} /\ last.status = "SUCCESS") =>
    \A i \in DOMAIN last.given :
      (\A j \in 1 .. i - 1 : last.given[j].guid # last.given[i].guid) =>
        LET k == get_protocol(db, last.handle, last.given[i].guid)
        IN  k # 0 /\ db[last.handle][k] = last.given[i]

\* locate_device_path compares bytes, and is right about nodes: it finds the handles
\* whose path is the first nodes of the path asked for, takes the one with most
\* nodes, and leaves the caller at a node.
LocateLongest ==
  \A guid \in Guids \cup {DevicePathGuid}, path \in Asked :
    LET matches == {h \in Handles : /\ get_protocol(db, h, guid) # 0
                                    /\ get_protocol(db, h, DevicePathGuid) # 0
                                    /\ IsNodePrefix(DevicePathOf(h), path)}
        end(h) == Find(DevicePathOf(h), {"END"})
        best == BestMatch(guid, path)
    IN  /\ PathMatches(guid, path) = matches
        /\ matches # {} => /\ best \in matches
                           /\ \A h \in matches : end(h) <= end(best)
                           /\ get_device_path_size(DevicePathOf(best)) \in Starts(path)
=============================================================================
