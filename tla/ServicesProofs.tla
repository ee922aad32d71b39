--------------------------- MODULE ServicesProofs ---------------------------
(***************************************************************************)
(* Proofs about the services that keep a table of their own, and about the *)
(* block device below them.                                                *)
(*                                                                         *)
(* The variable store, for any number of items, any limits and any names:  *)
(* it is well typed, keys are unique, and setting one variable leaves the  *)
(* others alone.  The inductive invariant is the type invariant with       *)
(* unique keys.                                                            *)
(*                                                                         *)
(* EventsKept, for a table of any size.  The count of events separates the *)
(* elements that are handed out, each to one caller, from those that are   *)
(* not: an event created is new because it lies above the count.           *)
(*                                                                         *)
(* The cursor of the console, for screens of any size and any text: while  *)
(* the caller asks for positions on the screen, it stays there.            *)
(*                                                                         *)
(* The driver and the device of VirtioBlock, for every size of the queue   *)
(* and every modulus of the ring indices.  The handshake                   *)
(* (LiveIsConfigured) follows the program counter of init.  For the queue, *)
(* Flight says that at most one request is between the two rings, and      *)
(* Ready that the descriptors the device may follow are the three of that  *)
(* request.  BlockInv adds what an answered request has done to its        *)
(* sector, for the refinement of SectorStore.                              *)
(***************************************************************************)
EXTENDS Variable, Events, Console, VirtioBlock, NatLemmas

\* Every leaf is tried with Zenon, with the SMT solver, and with Zenon for longer.
USE ZenonT(2), SMTT(30), ZenonT(30)

-----------------------------------------------------------------------------
(* The variable store *)

\* The first elements of a sequence.
LEMMA Shortened ==
  ASSUME NEW S, NEW s \in Seq(S), NEW m \in Nat, m <= Len(s)
  PROVE  /\ SubSeq(s, 1, m) \in Seq(S) /\ Len(SubSeq(s, 1, m)) = m
         /\ \A i \in 1 .. m : SubSeq(s, 1, m)[i] = s[i]
OBVIOUS

Items == [key : Keys, attributes : Attributes \ {0}, size : 1 .. MaxData, data : Bytes]

StoreInv == TypeOK /\ UniqueKeys

\* What the invariant says of the sequence of items.
Sound(s) ==
  /\ s \in Seq(Items) /\ Len(s) <= MaxItems
  /\ \A i, j \in 1 .. Len(s) : s[i].key = s[j].key => i = j

\* char16_to_char8 yields a sequence of bytes.
LEMMA ConvertedName ==
  ASSUME NEW name \in Seq(Nat)
  PROVE  char16_to_char8(name) \in Seq(0 .. Char8Modulus - 1)
<1>. DEFINE zeros == {i \in 1 .. Len(name) : Low(name[i]) = 0}
            end == IF zeros = {} THEN Len(name) ELSE Min(zeros) - 1
<1>1. end \in 0 .. Len(name)
  <2>1. CASE zeros = {}
    BY <2>1
  <2>2. CASE zeros # {}
    <3>1. zeros \in SUBSET Nat
      OBVIOUS
    <3>2. Min(zeros) \in zeros
      BY <2>2, <3>1, MinIsLeast
    <3>. QED BY <2>2, <3>2
  <2>. QED BY <2>1, <2>2
<1>2. \A i \in 1 .. end : Low(name[i]) \in 0 .. Char8Modulus - 1
  <2>1. \A i \in 1 .. end : name[i] \in Nat
    BY <1>1
  <2>2. \A c \in Nat : c % Char8Modulus \in 0 .. Char8Modulus - 1
    BY VariableAssumption
  <2>. QED BY <2>1, <2>2 DEF Low
<1>3. char16_to_char8(name) = [i \in 1 .. end |-> Low(name[i])]
  BY DEF char16_to_char8
<1>. HIDE DEF end
<1>. QED BY <1>1, <1>2, <1>3

\* find_variable returns the position of an item with the key, or 0 when no
\* item has it.
LEMMA FindVariable ==
  ASSUME NEW v \in Seq(Items), NEW key
  PROVE  \/ /\ find_variable(v, key) = 0
            /\ \A i \in 1 .. Len(v) : v[i].key # key
         \/ /\ find_variable(v, key) \in 1 .. Len(v)
            /\ v[find_variable(v, key)].key = key
<1>. DEFINE found == {i \in DOMAIN v : v[i].key = key}
<1>1. DOMAIN v = 1 .. Len(v)
  OBVIOUS
<1>2. CASE found = {}
  BY <1>1, <1>2 DEF find_variable
<1>3. CASE found # {}
  <2>1. found \in SUBSET Nat
    BY <1>1
  <2>2. Min(found) \in found
    BY <1>3, <2>1, MinIsLeast
  <2>. QED BY <1>1, <1>3, <2>2 DEF find_variable
<1>. QED BY <1>2, <1>3

-----------------------------------------------------------------------------
(* The invariant *)

\* Variable::set_variable keeps the store typed and its keys unique.
LEMMA SetSound ==
  ASSUME items \in Seq(Items), Len(items) <= MaxItems, UniqueKeys,
         NEW key \in Keys, NEW attributes \in Attributes, NEW size \in Nat, size <= MaxData,
         NEW data \in Bytes \cup {Null}
  PROVE  Sound(Set(key, attributes, size, data))
<1>. DEFINE new == Set(key, attributes, size, data)
            n == find_variable(items, key)
            item == Item(key, attributes, size, data)
<1>1. Len(items) \in Nat /\ MaxItems \in Nat
  BY VariableAssumption
<1>2. \A i, j \in 1 .. Len(items) : items[i].key = items[j].key => i = j
  BY DEF UniqueKeys
<1>. SUFFICES Sound(new)
  OBVIOUS
<1>3. CASE IsDelete(attributes, size, data)
  <2>1. CASE n = 0
    BY <1>2, <1>3, <2>1 DEF Set, Sound
  <2>2. CASE n # 0
    <3>1. new = SubSeq(items, 1, Len(items) - 1)
      BY <1>3, <2>2 DEF Set, Deleted
    <3>2. Len(items) >= 1
      BY <2>2, FindVariable
    <3>3. new \in Seq(Items) /\ Len(new) = Len(items) - 1
          /\ \A i \in 1 .. Len(new) : new[i] = items[i]
      <4>1. Len(items) - 1 \in Nat /\ Len(items) - 1 <= Len(items) /\ items \in Seq(Items)
        BY <1>1, <3>2
      <4>2. LET t == SubSeq(items, 1, Len(items) - 1)
            IN  t \in Seq(Items) /\ Len(t) = Len(items) - 1 /\ \A i \in 1 .. Len(items) - 1 : t[i] = items[i]
        BY <4>1, Shortened, Zenon
      <4>. HIDE DEF new
      <4>. QED BY <3>1, <4>2, Zenon
    <3>. HIDE DEF new
    <3>. QED BY <1>1, <1>2, <3>2, <3>3 DEF Sound
  <2>. QED BY <2>1, <2>2
<1>4. CASE ~ IsDelete(attributes, size, data)
  <2>1. item \in Items /\ item.key = key
    BY <1>4, VariableAssumption DEF IsDelete, Item, Items
  <2>2. CASE n = 0
    <3>1. \A i \in 1 .. Len(items) : items[i].key # key
      BY <2>2, FindVariable
    <3>2. CASE Len(items) < MaxItems
      <4>1. new = Append(items, item)
        BY <1>4, <2>2, <3>2 DEF Set, Added
      <4>. HIDE DEF item, new
      <4>2. new \in Seq(Items) /\ Len(new) = Len(items) + 1 /\ new[Len(items) + 1] = item
            /\ \A i \in 1 .. Len(items) : new[i] = items[i]
        BY <2>1, <4>1
      <4>3. \A i \in 1 .. Len(new) : i \in 1 .. Len(items) \/ i = Len(items) + 1
        BY <1>1, <4>2
      <4>. QED BY <1>1, <1>2, <2>1, <3>1, <3>2, <4>2, <4>3 DEF Sound
    <3>3. CASE ~ (Len(items) < MaxItems)
      BY <1>2, <1>4, <2>2, <3>3 DEF Set, Added, Sound
    <3>. QED BY <3>2, <3>3
  <2>3. CASE n # 0
    <3>1. n \in 1 .. Len(items) /\ items[n].key = key
      BY <2>3, FindVariable
    <3>2. new = [items EXCEPT ![n] = item]
      <4>1. Item(items[n].key, attributes, size, data) = item
        BY <3>1
      <4>2. new = [items EXCEPT ![n] = Item(items[n].key, attributes, size, data)]
        BY <1>4, <2>3 DEF Set, Updated
      <4>. QED BY <4>1, <4>2
    <3>. HIDE DEF item, new, n
    <3>3. new \in Seq(Items) /\ Len(new) = Len(items)
          /\ \A i \in 1 .. Len(items) : new[i] = IF i = n THEN item ELSE items[i]
      BY <2>1, <3>1, <3>2
    <3>4. \A i \in 1 .. Len(items) : new[i].key = items[i].key
      BY <2>1, <3>1, <3>3
    <3>. QED BY <1>2, <3>3, <3>4 DEF Sound
  <2>. QED BY <2>2, <2>3
<1>. QED BY <1>3, <1>4

LEMMA KeyType ==
  ASSUME NEW name \in Names, NEW guid \in Guids
  PROVE  Key(name, guid) \in Keys
BY VariableAssumption, ConvertedName DEF Key, Keys

\* Every call keeps the invariant.
LEMMA NextInv == StoreInv /\ [Next]_vars => StoreInv'
<1>. SUFFICES ASSUME StoreInv, [Next]_vars
              PROVE  StoreInv'
  OBVIOUS
<1>0. items \in Seq(Items) /\ Len(items) <= MaxItems /\ UniqueKeys
  BY DEF StoreInv, TypeOK, Items
<1>1. ASSUME NEW name \in Names, NEW guid \in Guids, NEW attributes \in Attributes,
             NEW size \in Sizes, NEW data \in Bytes \cup {Null},
             set_variable(name, guid, attributes, size, data)
      PROVE  StoreInv'
  <2>1. last'.op = "set"
    BY <1>1 DEF set_variable
  <2>2. CASE NameTooLong(name) \/ size > MaxData
    <3>1. items' = items
      BY <1>1, <2>2 DEF set_variable
    <3>. QED BY <1>0, <2>1, <3>1 DEF StoreInv, TypeOK, UniqueKeys, Items
  <2>3. CASE ~ (NameTooLong(name) \/ size > MaxData)
    <3>1. items' = Set(Key(name, guid), attributes, size, data)
      BY <1>1, <2>3 DEF set_variable
    <3>2. size \in Nat /\ size <= MaxData
      BY <2>3, VariableAssumption
    <3>3. Sound(items')
      BY <1>0, <3>1, <3>2, KeyType, SetSound
    <3>4. DOMAIN items' = 1 .. Len(items')
      BY <3>3 DEF Sound
    <3>. QED BY <2>1, <3>3, <3>4 DEF Sound, StoreInv, TypeOK, UniqueKeys, Items
  <2>. QED BY <2>2, <2>3
<1>2. ASSUME NEW name \in Names, NEW guid \in Guids, NEW size \in Sizes,
             get_variable(name, guid, size)
      PROVE  StoreInv'
  <2>1. last'.op = "get" /\ items' = items
    BY <1>2 DEF get_variable
  <2>. QED BY <2>1 DEF StoreInv, TypeOK, UniqueKeys
<1>3. CASE UNCHANGED vars
  BY <1>3 DEF StoreInv, TypeOK, UniqueKeys, vars
<1>. QED BY <1>1, <1>2, <1>3 DEF Next

LEMMA InitInv == Init => StoreInv
BY VariableAssumption DEF Init, StoreInv, TypeOK, UniqueKeys

THEOREM Invariance == Spec => []StoreInv
<1>. QED BY InitInv, NextInv, PTL DEF Spec

\* The store holds at most MaxItems well formed items, whatever the calls.
THEOREM TypeCorrect == Spec => []TypeOK
<1>1. StoreInv => TypeOK
  BY DEF StoreInv
<1>. QED BY Invariance, <1>1, PTL

\* No key is ever stored twice: find_variable's answer does not depend on the
\* order of the items.
THEOREM Uniqueness == Spec => []UniqueKeys
<1>1. StoreInv => UniqueKeys
  BY DEF StoreInv
<1>. QED BY Invariance, <1>1, PTL

-----------------------------------------------------------------------------
(* Isolation *)

\* In a store with unique keys the item at a position is what is stored for its
\* key.
LEMMA StoredAt ==
  ASSUME NEW v, Sound(v), NEW i \in 1 .. Len(v)
  PROVE  Stored(v, v[i].key) = v[i]
<1>1. v \in Seq(Items) /\ \A m, n \in 1 .. Len(v) : v[m].key = v[n].key => m = n
  BY DEF Sound
<1>2. find_variable(v, v[i].key) = i /\ i # 0
  BY <1>1, FindVariable
<1>. QED BY <1>2 DEF Stored

\* Nothing is stored for a key no item has.
LEMMA StoredNowhere ==
  ASSUME NEW v, Sound(v), NEW key, \A i \in 1 .. Len(v) : v[i].key # key
  PROVE  Stored(v, key) = Null
BY FindVariable DEF Stored, Sound

\* Variable::set_variable with a value changes what is stored for its key only.
LEMMA SetElsewhere ==
  ASSUME Sound(items), NEW key \in Keys, NEW attributes, NEW size, NEW data,
         ~ IsDelete(attributes, size, data), Sound(Set(key, attributes, size, data)),
         NEW other, other # key
  PROVE  Stored(Set(key, attributes, size, data), other) = Stored(items, other)
<1>. DEFINE new == Set(key, attributes, size, data)
            n == find_variable(items, key)
            item == Item(key, attributes, size, data)
<1>. SUFFICES Stored(new, other) = Stored(items, other)
  OBVIOUS
<1>1. items \in Seq(Items) /\ new \in Seq(Items) /\ Len(items) \in Nat
  BY DEF Sound
<1>2. item.key = key
  BY DEF Item
<1>3. /\ Len(items) <= Len(new)
      /\ \A i \in 1 .. Len(items) : items[i].key # key => new[i] = items[i]
      /\ \A i \in 1 .. Len(new) : new[i].key # key => i \in 1 .. Len(items) /\ items[i] = new[i]
  <2>1. CASE n = 0 /\ Len(items) < MaxItems
    <3>1. new = Append(items, item)
      BY <2>1 DEF Set, Added
    <3>. HIDE DEF new, item, n
    <3>2. Len(new) = Len(items) + 1 /\ new[Len(items) + 1] = item
          /\ \A i \in 1 .. Len(items) : new[i] = items[i]
      BY <1>1, <3>1
    <3>3. \A i \in 1 .. Len(new) : i \in 1 .. Len(items) \/ i = Len(items) + 1
      BY <1>1, <3>2
    <3>. QED BY <1>1, <1>2, <3>2, <3>3
  <2>2. CASE n = 0 /\ ~ (Len(items) < MaxItems)
    <3>1. new = items
      BY <2>2 DEF Set, Added
    <3>. QED BY <1>1, <3>1
  <2>3. CASE n # 0
    <3>1. n \in 1 .. Len(items) /\ items[n].key = key
      BY <1>1, <2>3, FindVariable
    <3>2. new = [items EXCEPT ![n] = item]
      <4>1. Item(items[n].key, attributes, size, data) = item
        BY <3>1
      <4>2. new = [items EXCEPT ![n] = Item(items[n].key, attributes, size, data)]
        BY <2>3 DEF Set, Updated
      <4>. QED BY <4>1, <4>2
    <3>. HIDE DEF new, item, n
    <3>3. Len(new) = Len(items)
          /\ \A i \in 1 .. Len(items) : new[i] = IF i = n THEN item ELSE items[i]
      BY <1>1, <3>1, <3>2
    <3>. QED BY <1>1, <1>2, <3>1, <3>3
  <2>. QED BY <2>1, <2>2, <2>3
<1>. HIDE DEF new
<1>4. CASE \E i \in 1 .. Len(items) : items[i].key = other
  <2>1. PICK i \in 1 .. Len(items) : items[i].key = other
    BY <1>4
  <2>2. i \in 1 .. Len(new) /\ new[i] = items[i]
    BY <1>1, <1>3, <2>1
  <2>3. Stored(items, other) = items[i] /\ Stored(new, other) = new[i]
    BY <2>1, <2>2, StoredAt DEF new
  <2>. QED BY <2>2, <2>3
<1>5. CASE \A i \in 1 .. Len(items) : items[i].key # other
  <2>1. \A i \in 1 .. Len(new) : new[i].key # other
    BY <1>3, <1>5
  <2>2. Sound(new)
    BY DEF new
  <2>. QED BY <1>5, <2>1, <2>2, StoredNowhere
<1>. QED BY <1>4, <1>5

\* Setting a variable to a value never changes another variable.
THEOREM Isolation == Spec => SetIsolated
<1>. DEFINE Step ==
       (last'.op = "set" /\ ~ IsDelete(last'.attributes, last'.size, last'.data)) =>
         \A key \in {items[i].key : i \in DOMAIN items} \cup {items'[i].key : i \in DOMAIN items'} :
           key # Key(last'.name, last'.guid) => Stored(items', key) = Stored(items, key)
<1>1. StoreInv /\ [Next]_vars => [Step]_vars
  <2>. SUFFICES ASSUME StoreInv, Next
                PROVE  Step
    BY DEF vars
  <2>0. Sound(items)
    <3>1. items \in Seq(Items)
      BY DEF StoreInv, TypeOK, Items
    <3>. QED BY <3>1 DEF Sound, StoreInv, TypeOK, UniqueKeys
  <2>1. ASSUME NEW name \in Names, NEW guid \in Guids, NEW attributes \in Attributes,
               NEW size \in Sizes, NEW data \in Bytes \cup {Null},
               set_variable(name, guid, attributes, size, data)
        PROVE  Step
    <3>1. /\ last'.name = name /\ last'.guid = guid /\ last'.attributes = attributes
          /\ last'.size = size /\ last'.data = data
      BY <2>1 DEF set_variable
    <3>2. CASE NameTooLong(name) \/ size > MaxData
      BY <2>1, <3>2 DEF set_variable
    <3>3. CASE ~ (NameTooLong(name) \/ size > MaxData)
      <4>1. items' = Set(Key(name, guid), attributes, size, data)
        BY <2>1, <3>3 DEF set_variable
      <4>2. Sound(items')
        <5>1. size \in Nat /\ size <= MaxData
          BY <3>3, VariableAssumption
        <5>2. items \in Seq(Items) /\ Len(items) <= MaxItems /\ UniqueKeys
          BY <2>0 DEF Sound, StoreInv
        <5>. QED BY <4>1, <5>1, <5>2, KeyType, SetSound
      <4>3. SUFFICES ASSUME ~ IsDelete(attributes, size, data), NEW key, key # Key(name, guid)
                     PROVE  Stored(items', key) = Stored(items, key)
        BY <3>1
      <4>4. Key(name, guid) \in Keys
        BY KeyType
      <4>. QED BY <2>0, <4>1, <4>2, <4>3, <4>4, SetElsewhere
    <3>. QED BY <3>2, <3>3
  <2>2. ASSUME NEW name \in Names, NEW guid \in Guids, NEW size \in Sizes,
               get_variable(name, guid, size)
        PROVE  Step
    BY <2>2 DEF get_variable
  <2>. QED BY <2>1, <2>2 DEF Next
<1>. QED BY Invariance, <1>1, PTL DEF Spec, SetIsolated

-----------------------------------------------------------------------------
(* Events *)

EventsType ==
  events \in [event_count : 0 .. MaxEvents,
              event_struct : [1 .. MaxEvents -> Notifies \cup {NoEvent}],
              held : Seq([event : (1 .. MaxEvents) \cup {NoEvent}, notify : Notifies]),
              status : {"SUCCESS", "OUT_OF_RESOURCES", "UNSUPPORTED"}]

\* The events up to the count are the ones callers hold.
UpToCount ==
  /\ \A i \in Created : events.held[i].event \in 1 .. events.event_count
  /\ \A e \in 1 .. events.event_count : \E i \in Created : events.held[i].event = e
  /\ events.status = "OUT_OF_RESOURCES" => events.event_count = MaxEvents

EventsInv == EventsType /\ UpToCount /\ EventsKept

\* Start-up: EventInfo::new hands out nothing.
LEMMA EventsStartOK == events = EventsStart => EventsInv
<1> SUFFICES ASSUME events = EventsStart PROVE EventsInv
  OBVIOUS
<1>1. EventsType
  BY EventsAssumption DEF EventsStart, EventsType
<1>2. Created = {}
  BY DEF Created, EventsStart
<1>3. UpToCount
  BY <1>2 DEF UpToCount, EventsStart
<1>4. EventsKept
  BY <1>2 DEF EventsKept, EventsStart
<1> QED
  BY <1>1, <1>3, <1>4 DEF EventsInv

\* create_event fills the element above the count and gives it to the caller, or leaves
\* a table that is all handed out as it is.
LEMMA CreateOK == ASSUME NEW notify \in Notifies, EventsInv, create_event(notify) PROVE EventsInv'
<1> USE EventsAssumption DEF EventsInv
<1>1. CASE events.event_count >= MaxEvents
  <2>1. events' = [events EXCEPT !.status = "OUT_OF_RESOURCES"]
    BY <1>1 DEF create_event
  <2>2. EventsType' /\ events.event_count = MaxEvents
    BY <1>1, <2>1 DEF EventsType
  <2>3. /\ events'.held = events.held /\ events'.event_struct = events.event_struct
        /\ events'.event_count = events.event_count
    BY <2>1 DEF EventsType
  <2>4. Created' = Created
    BY <2>3 DEF Created
  <2>5. UpToCount'
    BY <2>2, <2>3, <2>4 DEF UpToCount
  <2>6. EventsKept'
    BY <2>2, <2>3, <2>4 DEF EventsKept, UpToCount
  <2> QED
    BY <2>2, <2>5, <2>6
<1>2. CASE ~ (events.event_count >= MaxEvents)
  <2> DEFINE e == events.event_count + 1
             n == Len(events.held) + 1
  <2>1. events' = [event_count |-> e, event_struct |-> [events.event_struct EXCEPT ![e] = notify],
                   held |-> Append(events.held, [event |-> e, notify |-> notify]), status |-> "SUCCESS"]
    BY <1>2 DEF create_event
  <2>2. e \in 1 .. MaxEvents /\ e # NoEvent
    BY <1>2 DEF EventsType
  <2>3. EventsType'
    BY <2>1, <2>2 DEF EventsType
  <2>4. /\ DOMAIN events.held = 1 .. n - 1 /\ n \in Nat \ {0}
        /\ DOMAIN events'.held = 1 .. n
        /\ \A i \in 1 .. n - 1 : events'.held[i] = events.held[i]
        /\ events'.held[n] = [event |-> e, notify |-> notify]
    BY <2>1 DEF EventsType
  <2>5. Created' = Created \cup {n} /\ n \notin Created /\ Created \subseteq 1 .. n - 1
    BY <2>2, <2>4 DEF Created
  <2>6. \A i \in Created : events.held[i].event \in 1 .. events.event_count /\ events.held[i].event # e
    BY DEF UpToCount, EventsType
  <2>7. UpToCount'
    <3>1. \A i \in Created' : events'.held[i].event \in 1 .. events'.event_count
      BY <2>1, <2>2, <2>4, <2>5, <2>6 DEF EventsType
    <3>2. ASSUME NEW f \in 1 .. events'.event_count PROVE \E i \in Created' : events'.held[i].event = f
      <4>1. CASE f = e
        BY <4>1, <2>4, <2>5
      <4>2. CASE f # e
        <5>1. f \in 1 .. events.event_count
          BY <4>2, <2>1 DEF EventsType
        <5>2. PICK i \in Created : events.held[i].event = f
          BY <5>1 DEF UpToCount
        <5> QED
          BY <5>2, <2>4, <2>5
      <4> QED
        BY <4>1, <4>2
    <3> QED
      BY <3>1, <3>2, <2>1 DEF UpToCount
  <2>8. EventsKept'
    <3>1. \A i \in Created' : events'.event_struct[events'.held[i].event] = events'.held[i].notify
      <4> SUFFICES ASSUME NEW i \in Created' PROVE events'.event_struct[events'.held[i].event] = events'.held[i].notify
        OBVIOUS
      <4>1. CASE i = n
        BY <4>1, <2>1, <2>2, <2>4 DEF EventsType
      <4>2. CASE i \in Created
        <5>1. events'.held[i] = events.held[i] /\ events.held[i].event # e
          BY <4>2, <2>4, <2>5, <2>6
        <5>2. events'.event_struct[events.held[i].event] = events.event_struct[events.held[i].event]
          BY <5>1, <2>1, <2>2, <4>2, <2>6 DEF EventsType
        <5> QED
          BY <4>2, <5>1, <5>2 DEF EventsKept
      <4> QED
        BY <4>1, <4>2, <2>5
    <3>2. \A i, j \in Created' : events'.held[i].event = events'.held[j].event => i = j
      <4>1. \A i \in Created : events'.held[i].event = events.held[i].event
        BY <2>4, <2>5
      <4>2. \A i, j \in Created : events'.held[i].event = events'.held[j].event => i = j
        BY <4>1 DEF EventsKept
      <4>3. events'.held[n].event = e
        BY <2>4
      <4>4. \A i \in Created : events'.held[i].event # events'.held[n].event
        BY <4>1, <4>3, <2>6
      <4> HIDE DEF e, n
      <4> QED
        BY <4>2, <4>4, <2>5
    <3> QED
      BY <3>1, <3>2, <2>1 DEF EventsKept
  <2> QED
    BY <2>3, <2>7, <2>8
<1> QED
  BY <1>1, <1>2

\* create_event_ex gives out the null event, which is no element of the table.
LEMMA CreateExOK == ASSUME NEW notify \in Notifies, EventsInv, create_event_ex(notify) PROVE EventsInv'
<1> USE EventsAssumption DEF EventsInv
<1> DEFINE n == Len(events.held) + 1
<1>1. events' = [events EXCEPT !.held = Append(@, [event |-> NoEvent, notify |-> notify]), !.status = "SUCCESS"]
  BY DEF create_event_ex
<1>2. EventsType'
  <2>1. Append(events.held, [event |-> NoEvent, notify |-> notify])
          \in Seq([event : (1 .. MaxEvents) \cup {NoEvent}, notify : Notifies])
    BY DEF EventsType
  <2> QED
    BY <1>1, <2>1 DEF EventsType
<1>3. /\ events'.event_struct = events.event_struct /\ events'.event_count = events.event_count
      /\ events'.status = "SUCCESS"
      /\ events'.held = Append(events.held, [event |-> NoEvent, notify |-> notify])
  BY <1>1 DEF EventsType
<1>4. /\ DOMAIN events.held = 1 .. n - 1 /\ n \in Nat \ {0}
      /\ DOMAIN events'.held = 1 .. n
      /\ \A i \in 1 .. n - 1 : events'.held[i] = events.held[i]
      /\ events'.held[n] = [event |-> NoEvent, notify |-> notify]
  BY <1>3 DEF EventsType
<1>5. Created' = Created /\ Created \subseteq 1 .. n - 1
  BY <1>4 DEF Created
<1>6. UpToCount'
  BY <1>3, <1>4, <1>5 DEF UpToCount
<1>7. EventsKept'
  BY <1>3, <1>4, <1>5 DEF EventsKept
<1> QED
  BY <1>2, <1>6, <1>7

\* No other service touches the table.
LEMMA CloseOK == ASSUME EventsInv, close_event PROVE EventsInv'
<1>1. events' = [events EXCEPT !.status = "UNSUPPORTED"]
  BY DEF close_event
<1>2. EventsType'
  BY <1>1 DEF EventsInv, EventsType
<1>3. /\ events'.held = events.held /\ events'.event_struct = events.event_struct
      /\ events'.event_count = events.event_count /\ events'.status = "UNSUPPORTED"
  BY <1>1 DEF EventsInv, EventsType
<1>4. Created' = Created
  BY <1>3 DEF Created
<1> QED
  BY <1>2, <1>3, <1>4 DEF EventsInv, UpToCount, EventsKept

\* For a table of any size and any calls: no event of create_event is ever handed out
\* twice or loses what its caller registered, and the table is refused to callers only when
\* all of it is handed out.
THEOREM EventOwnership == EventsSpec => []EventsKept
<1>1. events = EventsStart => EventsInv
  BY EventsStartOK
<1>2. EventsInv /\ [EventsNext]_events => EventsInv'
  <2> SUFFICES ASSUME EventsInv, [EventsNext]_events PROVE EventsInv'
    OBVIOUS
  <2>1. ASSUME NEW notify \in Notifies, create_event(notify) PROVE EventsInv'
    BY <2>1, CreateOK
  <2>2. ASSUME NEW notify \in Notifies, create_event_ex(notify) PROVE EventsInv'
    BY <2>2, CreateExOK
  <2>3. CASE close_event
    BY <2>3, CloseOK
  <2>4. CASE UNCHANGED events
    BY <2>4 DEF EventsInv, EventsType, UpToCount, EventsKept, Created
  <2> QED
    BY <2>1, <2>2, <2>3, <2>4 DEF EventsNext
<1>3. EventsInv => EventsKept
  BY DEF EventsInv
<1> QED
  BY <1>1, <1>2, <1>3, PTL DEF EventsSpec

-----------------------------------------------------------------------------
(* The console *)

Cursors ==
  [mode : Int, attribute : {"black", "blue"}, cursor_column : Int, cursor_row : Int, asked : Nat \X Nat]

\* What CursorOnScreen says of a cursor.
OnScreen(c) ==
  LET screen == query_mode(c.mode)
  IN  c.mode \in 0 .. MaxMode /\ c.asked[1] < screen.columns /\ c.asked[2] < screen.rows =>
        /\ c.cursor_column \in 0 .. screen.columns - 1
        /\ c.cursor_row \in 0 .. screen.rows - 1

ConsoleInv == console \in Cursors /\ OnScreen(console)

LEMMA Screens ==
  ASSUME NEW mode \in 0 .. MaxMode
  PROVE  /\ mode \in {0, 1} /\ query_mode(mode).columns = Columns /\ Columns \in Nat \ {0}
         /\ query_mode(mode).rows = IF mode = 1 THEN RowsOf[2] ELSE RowsOf[1]
         /\ query_mode(mode).rows \in Nat \ {0}
<1>1. /\ RowsOf \in [1 .. 2 -> Nat \ {0}] /\ Columns \in Nat \ {0}
  BY ConsoleAssumption
<1>2. MaxMode = 1 /\ RowsOf[1] \in Nat \ {0} /\ RowsOf[2] \in Nat \ {0}
  BY <1>1 DEF MaxMode
<1>3. mode = 0 \/ mode = 1
  BY <1>2
<1>4. query_mode(mode) = [columns |-> Columns, rows |-> RowsOf[mode + 1]]
  BY DEF query_mode
<1>. QED BY <1>1, <1>2, <1>3, <1>4

LEMMA AsIntSmall ==
  ASSUME NEW n \in Nat, NEW m \in {Columns, RowsOf[1], RowsOf[2]}, n < m
  PROVE  AsInt(n) = n
<1>1. IntModulus \in Nat /\ 2 * m <= IntModulus /\ m \in Nat
  BY ConsoleAssumption
<1>2. n < IntModulus \div 2 /\ n < IntModulus /\ IntModulus # 0
  BY <1>1
<1>3. n % IntModulus = n
  BY <1>1, <1>2
<1>. QED BY <1>2, <1>3 DEF AsInt

LEMMA AsIntType == ASSUME NEW n \in Nat PROVE AsInt(n) \in Int
<1>1. IntModulus \in Nat /\ IntModulus # 0
  BY ConsoleAssumption
<1>. QED BY <1>1 DEF AsInt

\* A cursor stays on the screen when it moves within its columns and rows.
LEMMA StaysOnScreen ==
  ASSUME NEW c \in Cursors, OnScreen(c), NEW d \in Cursors, d.mode = c.mode, d.asked = c.asked,
         NEW rows, rows = (IF c.mode = 1 THEN RowsOf[2] ELSE RowsOf[1]),
         c.cursor_column \in 0 .. Columns - 1 => d.cursor_column \in 0 .. Columns - 1,
         c.cursor_row \in 0 .. rows - 1 => d.cursor_row \in 0 .. rows - 1
  PROVE  OnScreen(d)
<1>1. ASSUME c.mode \in 0 .. MaxMode
      PROVE  query_mode(c.mode).columns = Columns /\ query_mode(c.mode).rows = rows
  BY <1>1, Screens
<1>. QED BY <1>1, Zenon DEF OnScreen

Cursor(c, column, row) == [c EXCEPT !.cursor_column = column, !.cursor_row = row]

LEMMA CursorFields ==
  ASSUME NEW c \in Cursors, NEW column \in Int, NEW row \in Int
  PROVE  /\ Cursor(c, column, row) \in Cursors
         /\ Cursor(c, column, row).mode = c.mode /\ Cursor(c, column, row).asked = c.asked
         /\ Cursor(c, column, row).cursor_column = column /\ Cursor(c, column, row).cursor_row = row
BY DEF Cursors, Cursor

LEMMA MovedCursor ==
  ASSUME NEW c \in Cursors, c.mode = console.mode, NEW char
  PROVE  \E column \in Int, row \in Int :
           /\ Moved(c, char) = Cursor(c, column, row)
           /\ c.cursor_column \in 0 .. Columns - 1 => column \in 0 .. Columns - 1
           /\ c.cursor_row \in 0 .. MaxRow - 1 => row \in 0 .. MaxRow - 1
<1>1. Columns \in Nat \ {0} /\ MaxRow \in Nat \ {0}
  BY ConsoleAssumption DEF MaxRow
<1>2. c.cursor_column \in Int /\ c.cursor_row \in Int /\ c = Cursor(c, c.cursor_column, c.cursor_row)
  BY DEF Cursors, Cursor
<1>3. \A x, y \in Int : [Cursor(c, x, y) EXCEPT !.cursor_column = 0] = Cursor(c, 0, y)
  BY DEF Cursors, Cursor
<1>4. ASSUME NEW x \in Int
      PROVE  \E row \in Int : /\ NextRow(Cursor(c, x, c.cursor_row)) = Cursor(c, x, row)
                              /\ c.cursor_row \in 0 .. MaxRow - 1 => row \in 0 .. MaxRow - 1
  <2>. DEFINE e == Cursor(c, x, c.cursor_row)
  <2>1. e.cursor_row = c.cursor_row
    BY <1>2, CursorFields
  <2>2. [e EXCEPT !.cursor_row = e.cursor_row + 1] = Cursor(c, x, c.cursor_row + 1)
    BY <1>2, <2>1 DEF Cursors, Cursor
  <2>3. CASE c.cursor_row < MaxRow - 1
    <3>1. NextRow(e) = Cursor(c, x, c.cursor_row + 1)
      BY <2>1, <2>2, <2>3 DEF NextRow
    <3>. QED BY <1>1, <1>2, <2>3, <3>1
  <2>4. CASE ~ c.cursor_row < MaxRow - 1
    <3>1. NextRow(e) = e
      BY <2>1, <2>4 DEF NextRow
    <3>. QED BY <1>2, <3>1
  <2>. QED BY <2>3, <2>4
<1>5. CASE char = "BACKSPACE"
  <2>1. CASE c.cursor_column > 0
    <3>1. Moved(c, char) = [c EXCEPT !.cursor_column = c.cursor_column - 1]
      BY <1>5, <2>1 DEF Moved
    <3>2. Moved(c, char) = Cursor(c, c.cursor_column - 1, c.cursor_row)
      BY <1>2, <3>1 DEF Cursors, Cursor
    <3>. QED BY <1>1, <1>2, <2>1, <3>2
  <2>2. CASE ~ c.cursor_column > 0
    <3>1. Moved(c, char) = c
      BY <1>5, <2>2 DEF Moved
    <3>. QED BY <1>2, <3>1
  <2>. QED BY <2>1, <2>2
<1>6. CASE char = "LINEFEED"
  <2>1. Moved(c, char) = NextRow(c)
    BY <1>6 DEF Moved
  <2>2. NextRow(c) = NextRow(Cursor(c, c.cursor_column, c.cursor_row))
    BY <1>2, Zenon
  <2>. QED BY <1>2, <1>4, <2>1, <2>2, Zenon
<1>7. CASE char = "CARRIAGE_RETURN"
  <2>1. Moved(c, char) = [c EXCEPT !.cursor_column = 0]
    BY <1>7 DEF Moved
  <2>2. Moved(c, char) = Cursor(c, 0, c.cursor_row)
    BY <1>2, <2>1 DEF Cursors, Cursor
  <2>. QED BY <1>1, <1>2, <2>2
<1>8. CASE char \notin {"BACKSPACE", "LINEFEED", "CARRIAGE_RETURN"}
  <2>1. CASE c.cursor_column < Columns - 1
    <3>1. Moved(c, char) = [c EXCEPT !.cursor_column = c.cursor_column + 1]
      BY <1>8, <2>1 DEF Moved
    <3>2. Moved(c, char) = Cursor(c, c.cursor_column + 1, c.cursor_row)
      BY <1>2, <3>1 DEF Cursors, Cursor
    <3>. QED BY <1>1, <1>2, <2>1, <3>2
  <2>2. CASE ~ c.cursor_column < Columns - 1
    <3>1. Moved(c, char) = NextRow([c EXCEPT !.cursor_column = 0])
      BY <1>8, <2>2 DEF Moved
    <3>2. [c EXCEPT !.cursor_column = 0] = Cursor(c, 0, c.cursor_row)
      BY <1>2 DEF Cursors, Cursor
    <3>3. 0 \in Int /\ 0 \in 0 .. Columns - 1
      BY <1>1
    <3>4. PICK row \in Int : /\ NextRow(Cursor(c, 0, c.cursor_row)) = Cursor(c, 0, row)
                             /\ c.cursor_row \in 0 .. MaxRow - 1 => row \in 0 .. MaxRow - 1
      BY <1>4, <3>3
    <3>5. Moved(c, char) = Cursor(c, 0, row)
      BY <3>1, <3>2, <3>4, Zenon
    <3>. QED BY <3>3, <3>4, <3>5, Zenon
  <2>. QED BY <2>1, <2>2
<1>. QED BY <1>5, <1>6, <1>7, <1>8

LEMMA MovedOK ==
  ASSUME NEW c \in Cursors, c.mode = console.mode, OnScreen(c), NEW char
  PROVE  Moved(c, char) \in Cursors /\ Moved(c, char).mode = console.mode /\ OnScreen(Moved(c, char))
<1>1. PICK column \in Int, row \in Int :
           /\ Moved(c, char) = Cursor(c, column, row)
           /\ c.cursor_column \in 0 .. Columns - 1 => column \in 0 .. Columns - 1
           /\ c.cursor_row \in 0 .. MaxRow - 1 => row \in 0 .. MaxRow - 1
  BY MovedCursor
<1>. DEFINE d == Moved(c, char)
<1>2. /\ d \in Cursors /\ d.mode = c.mode /\ d.asked = c.asked
      /\ d.cursor_column = column /\ d.cursor_row = row
  BY <1>1, CursorFields
<1>. HIDE DEF d
<1>3. MaxRow = IF c.mode = 1 THEN RowsOf[2] ELSE RowsOf[1]
  BY DEF MaxRow
<1>4. OnScreen(d)
  BY <1>1, <1>2, <1>3, StaysOnScreen
<1>. QED BY <1>2, <1>4 DEF d

\* The cursors that writing may lead to: those of the current mode that are on the screen.
Reachable == {c \in Cursors : c.mode = console.mode /\ OnScreen(c)}

LEMMA UpToZeroLen ==
  ASSUME NEW message \in Messages
  PROVE  Len(UpToZero(message)) \in Nat
<1>. DEFINE zeroes == {i \in DOMAIN message : message[i] = "ZERO_LOW_BYTE"}
<1>1. message \in Seq(STRING)
  BY ConsoleAssumption
<1>2. CASE zeroes = {}
  <2>1. UpToZero(message) = message
    BY <1>2 DEF UpToZero
  <2>. QED BY <1>1, <2>1
<1>3. CASE zeroes # {}
  <2>1. zeroes \in SUBSET Nat /\ zeroes \in SUBSET (1 .. Len(message))
    BY <1>1
  <2>2. Min(zeroes) \in 1 .. Len(message)
    BY <1>3, <2>1, MinIsLeast
  <2>3. UpToZero(message) = SubSeq(message, 1, Min(zeroes) - 1)
    BY <1>3 DEF UpToZero
  <2>. HIDE DEF zeroes
  <2>4. ASSUME NEW n \in 1 .. Len(message) PROVE SubSeq(message, 1, n - 1) \in Seq(STRING)
    BY <1>1
  <2>. QED BY <2>2, <2>3, <2>4
<1>. QED BY <1>2, <1>3

\* Writing moves the cursor character by character and keeps it on the screen.
LEMMA WrittenOK ==
  ASSUME ConsoleInv, NEW message \in Messages, output_string(message)
  PROVE  console' \in Reachable
<1>. DEFINE written == UpToZero(message)
            len == Len(written)
            Steps(f) == f = [i \in 0 .. len |-> IF i = 0 THEN console ELSE Moved(f[i - 1], written[i])]
            after == CHOOSE f : Steps(f)
            s == [n \in Nat |-> [c \in Reachable |-> Moved(c, written[n + 1])]]
<1>1. console' = after[len]
  BY Zenon DEF output_string
<1>2. len \in Nat
  BY UpToZeroLen
<1>3. console \in Reachable
  BY DEF ConsoleInv, Reachable
<1>4. ASSUME NEW c \in Reachable, NEW char PROVE Moved(c, char) \in Reachable
  BY MovedOK DEF Reachable
<1>. HIDE DEF written, len
<1>5. s \in [Nat -> [Reachable -> Reachable]]
  BY <1>4
<1>. HIDE DEF s
<1>6. PICK g : Iterates(g, Reachable, console, s)
  BY <1>3, <1>5, Recursion, Zenon
<1>7. \A n \in Nat : g[n + 1] = Moved(g[n], written[n + 1])
  BY <1>6 DEF s, Iterates
<1>. DEFINE h == [i \in 0 .. len |-> g[i]]
<1>8. Steps(h)
  <2>1. ASSUME NEW i \in 0 .. len
        PROVE  h[i] = IF i = 0 THEN console ELSE Moved(h[i - 1], written[i])
    <3>1. CASE i = 0
      BY <1>2, <1>6, <3>1 DEF Iterates
    <3>2. CASE i # 0
      <4>1. i - 1 \in Nat /\ i - 1 \in 0 .. len /\ (i - 1) + 1 = i
        BY <1>2, <3>2
      <4>2. g[i] = Moved(g[i - 1], written[i])
        BY <1>7, <4>1
      <4>. QED BY <3>2, <4>1, <4>2
    <3>. QED BY <3>1, <3>2
  <2>. QED BY <2>1, Zenon
<1>9. Steps(after)
  BY <1>8, Zenon
<1>. HIDE DEF after, h
<1>10. /\ after[0] = console
       /\ \A n \in Nat : n + 1 \in 0 .. len => after[n + 1] = Moved(after[n], written[n + 1])
  BY <1>2, <1>9
<1>. DEFINE S == {n \in Nat : n \in 0 .. len => after[n] \in Reachable}
<1>11. 0 \in S
  BY <1>3, <1>10
<1>12. ASSUME NEW n \in Nat, n \in S PROVE n + 1 \in S
  <2>. SUFFICES ASSUME n + 1 \in 0 .. len PROVE after[n + 1] \in Reachable
    OBVIOUS
  <2>1. n \in 0 .. len
    BY <1>2
  <2>2. after[n] \in Reachable
    BY <1>12, <2>1
  <2>. QED BY <1>4, <1>10, <2>2
<1>13. \A n \in Nat : n \in S
  BY <1>11, <1>12, NatInduct
<1>. QED BY <1>1, <1>2, <1>13

\* A position that is on the screen is kept as it is.
LEMMA PlacedOK ==
  ASSUME ConsoleInv, NEW column \in Nat, NEW row \in Nat, set_cursor_position(column, row)
  PROVE  ConsoleInv'
<1>1. console \in Cursors /\ AsInt(column) \in Int /\ AsInt(row) \in Int
  BY AsIntType DEF ConsoleInv
<1>2. /\ console' \in Cursors /\ console'.mode = console.mode /\ console'.asked = <<column, row>>
      /\ console'.cursor_column = AsInt(column) /\ console'.cursor_row = AsInt(row)
  BY <1>1 DEF set_cursor_position, Cursors
<1>. DEFINE screen == query_mode(console'.mode)
<1>3. ASSUME console'.mode \in 0 .. MaxMode, column < screen.columns, row < screen.rows
      PROVE  AsInt(column) \in 0 .. screen.columns - 1 /\ AsInt(row) \in 0 .. screen.rows - 1
  <2>1. /\ screen.columns = Columns /\ Columns \in Nat
        /\ screen.rows \in {RowsOf[1], RowsOf[2]} /\ screen.rows \in Nat
    BY <1>3, Screens
  <2>2. AsInt(column) = column /\ AsInt(row) = row
    BY <1>3, <2>1, AsIntSmall
  <2>. HIDE DEF screen
  <2>. QED BY <1>3, <2>1, <2>2
<1>4. console'.asked[1] = column /\ console'.asked[2] = row
  BY <1>2
<1>5. OnScreen(console')
  BY <1>2, <1>3, <1>4, Zenon DEF OnScreen
<1>. QED BY <1>2, <1>5 DEF ConsoleInv

InMode(c, mode, at) == [c EXCEPT !.mode = mode, !.asked = at]

LEMMA InModeType ==
  ASSUME NEW c \in Cursors, NEW mode \in Int, NEW at \in Nat \X Nat
  PROVE  InMode(c, mode, at) \in Cursors
BY DEF Cursors, InMode

LEMMA ModeSetOK ==
  ASSUME ConsoleInv, NEW number \in Nat, set_mode(number)
  PROVE  ConsoleInv'
<1>1. console \in Cursors /\ AsInt(number) \in Int
  BY AsIntType DEF ConsoleInv
<1>2. CASE AsInt(number) > MaxMode
  BY <1>2 DEF set_mode, ConsoleInv
<1>3. CASE ~ AsInt(number) > MaxMode
  <2>1. /\ console' \in Cursors /\ console'.cursor_column = 0 /\ console'.cursor_row = 0
    <3>1. console' = [console EXCEPT !.mode = AsInt(number), !.cursor_column = 0, !.cursor_row = 0,
                                     !.asked = <<0, 0>>]
      BY <1>3, Zenon DEF set_mode
    <3>. DEFINE e == InMode(console, AsInt(number), <<0, 0>>)
    <3>2. e \in Cursors
      BY <1>1, InModeType
    <3>3. console' = Cursor(e, 0, 0)
      BY <1>1, <3>1, Zenon DEF Cursor, Cursors, InMode
    <3>. HIDE DEF e
    <3>. QED BY <3>2, <3>3, CursorFields
  <2>2. ASSUME console'.mode \in 0 .. MaxMode
        PROVE  /\ 0 \in 0 .. query_mode(console'.mode).columns - 1
               /\ 0 \in 0 .. query_mode(console'.mode).rows - 1
    BY <2>2, Screens
  <2>3. OnScreen(console')
    BY <2>1, <2>2, Zenon DEF OnScreen
  <2>. QED BY <2>1, <2>3 DEF ConsoleInv
<1>. QED BY <1>2, <1>3

LEMMA AttributeSetOK ==
  ASSUME ConsoleInv, NEW attribute \in {"black", "blue", "invalid"}, set_attribute(attribute)
  PROVE  ConsoleInv'
<1>1. CASE attribute = "invalid"
  BY <1>1 DEF set_attribute, ConsoleInv
<1>2. CASE attribute # "invalid"
  <2>1. /\ console' \in Cursors /\ console'.mode = console.mode /\ console'.asked = console.asked
        /\ console'.cursor_column = console.cursor_column /\ console'.cursor_row = console.cursor_row
    BY <1>2 DEF set_attribute, ConsoleInv, Cursors
  <2>2. OnScreen(console')
    BY <2>1, Zenon DEF ConsoleInv, OnScreen
  <2>. QED BY <2>1, <2>2 DEF ConsoleInv
<1>. QED BY <1>1, <1>2

LEMMA ConsoleStarts == ASSUME console = ConsoleStart PROVE ConsoleInv
<1>1. console \in Cursors /\ console.cursor_column = 0 /\ console.cursor_row = 0
  BY DEF ConsoleStart, Cursors
<1>2. ASSUME console.mode \in 0 .. MaxMode
      PROVE  0 \in 0 .. query_mode(console.mode).columns - 1 /\ 0 \in 0 .. query_mode(console.mode).rows - 1
  BY <1>2, Screens
<1>. QED BY <1>1, <1>2, Zenon DEF ConsoleInv, OnScreen

\* The cursor that callers read from the mode record of the stdout protocol stays on the
\* screen of the current mode through every sequence of writes, moves and mode changes, for
\* screens and messages of every size.
THEOREM CursorSafe == ConsoleSpec => []CursorOnScreen
<1>1. console = ConsoleStart => ConsoleInv
  BY ConsoleStarts
<1>2. ConsoleInv /\ [ConsoleNext]_console => ConsoleInv'
  <2>. SUFFICES ASSUME ConsoleInv, [ConsoleNext]_console PROVE ConsoleInv'
    OBVIOUS
  <2>1. ASSUME NEW message \in Messages, output_string(message) PROVE ConsoleInv'
    BY <2>1, WrittenOK DEF ConsoleInv, Reachable
  <2>2. ASSUME NEW p \in Positions, set_cursor_position(p[1], p[2]) PROVE ConsoleInv'
    <3>1. p[1] \in Nat /\ p[2] \in Nat
      BY ConsoleAssumption
    <3>. QED BY <2>2, <3>1, PlacedOK
  <2>3. CASE clear_screen
    BY <2>3, PlacedOK DEF clear_screen
  <2>4. ASSUME NEW number \in ModeNumbers, set_mode(number) PROVE ConsoleInv'
    BY <2>4, ModeSetOK, ConsoleAssumption
  <2>5. ASSUME NEW attribute \in {"black", "blue", "invalid"}, set_attribute(attribute)
        PROVE  ConsoleInv'
    BY <2>5, AttributeSetOK
  <2>6. CASE UNCHANGED console
    BY <2>6 DEF ConsoleInv
  <2>. QED BY <2>1, <2>2, <2>3, <2>4, <2>5, <2>6 DEF ConsoleNext
<1>3. ConsoleInv => CursorOnScreen
  BY DEF ConsoleInv, OnScreen, CursorOnScreen
<1>. QED BY <1>1, <1>2, <1>3, PTL DEF ConsoleSpec

-----------------------------------------------------------------------------
(* The block device *)

Initialising ==
  {"init", "reset", "acknowledge", "driver", "features", "set_features", "features_ok", "queue",
   "desc", "avail", "used", "enable", "driver_ok"}

Published == {"notify", "poll", "panic"}

-----------------------------------------------------------------------------
(* The handshake *)

Halves == {"descriptors", "avail", "used"} \X {"low", "high"}

HandshakeType ==
  /\ pc \in Initialising \cup {"capacity", "idle", "ring", "idx"} \cup Published
  /\ status \subseteq {"ACKNOWLEDGE", "DRIVER", "FEATURES_OK", "DRIVER_OK", "FAILED"}
  /\ queue \in [size : {0, QueueSize}, set : SUBSET Halves, enable : BOOLEAN, features : SUBSET {"VERSION_1"}]

\* What init has done when it is at a step.
Reached ==
  /\ pc \in {"init", "reset", "acknowledge"} => status = {}
  /\ pc = "driver" => status = {"ACKNOWLEDGE"}
  /\ pc \in {"features", "set_features", "features_ok"} => status = {"ACKNOWLEDGE", "DRIVER"}
  /\ pc = "set_features" => "VERSION_1" \in host.features
  /\ pc \in {"features_ok", "queue", "desc", "avail", "used", "enable", "driver_ok"} => queue.features = {"VERSION_1"}
  /\ pc \in {"queue", "desc", "avail", "used", "enable", "driver_ok"} =>
       status = {"ACKNOWLEDGE", "DRIVER", "FEATURES_OK"}
  /\ pc \in {"desc", "avail", "used", "enable", "driver_ok"} => queue.size = QueueSize
  /\ pc \in {"avail", "used", "enable", "driver_ok"} => {"descriptors"} \X {"low", "high"} \subseteq queue.set
  /\ pc \in {"used", "enable", "driver_ok"} => {"avail"} \X {"low", "high"} \subseteq queue.set
  /\ pc \in {"enable", "driver_ok"} => {"used"} \X {"low", "high"} \subseteq queue.set
  /\ pc = "driver_ok" => queue.enable

HandshakeInv == HandshakeType /\ Reached /\ LiveIsConfigured

\* Nothing but init touches the registers: a request leaves the handshake as it is.
LEMMA RegistersKept ==
  ASSUME HandshakeInv, UNCHANGED registers, pc' \in {"idle", "ring", "idx"} \cup Published
  PROVE  HandshakeInv'
  BY DEF HandshakeInv, HandshakeType, Reached, LiveIsConfigured, registers, Published, Initialising

LEMMA InitSteps == ASSUME HandshakeInv, DriverInit PROVE HandshakeInv'
<1> USE DEF HandshakeInv, HandshakeType, Reached, LiveIsConfigured, Initialising, Published, Register, Goto
<1>1. CASE PciTransportInit \/ MmioTransportInit
  BY <1>1 DEF PciTransportInit, MmioTransportInit, registers
<1>2. CASE SetStatusReset
  BY <1>2 DEF SetStatusReset, NoQueue
<1>3. CASE AddStatus("acknowledge", "ACKNOWLEDGE", "driver")
  BY <1>3 DEF AddStatus
<1>4. CASE AddStatus("driver", "DRIVER", "features")
  BY <1>4 DEF AddStatus
<1>5. CASE GetFeatures
  BY <1>5 DEF GetFeatures, AddStatus
<1>6. CASE SetFeatures
  BY <1>6 DEF SetFeatures
<1>7. CASE FeaturesOk
  BY <1>7 DEF FeaturesOk, AddStatus
<1>8. CASE SetQueueSize
  BY <1>8 DEF SetQueueSize, AddStatus
<1>9. CASE SetAddress("desc", "descriptors", "avail")
  BY <1>9 DEF SetAddress, PciSetAddress, MmioSetAddress, Halves
<1>10. CASE SetAddress("avail", "avail", "used")
  BY <1>10 DEF SetAddress, PciSetAddress, MmioSetAddress, Halves
<1>11. CASE SetAddress("used", "used", "enable")
  BY <1>11 DEF SetAddress, PciSetAddress, MmioSetAddress, Halves
<1>12. CASE SetQueueEnable
  BY <1>12 DEF SetQueueEnable
<1>13. CASE AddStatus("driver_ok", "DRIVER_OK", "capacity")
  <2>1. queue.set = Halves
    BY <1>13 DEF AddStatus, Halves
  <2> QED
    BY <1>13, <2>1 DEF AddStatus, Halves
<1>14. CASE GetCapacity
  BY <1>14 DEF GetCapacity
<1> QED
  BY <1>1, <1>2, <1>3, <1>4, <1>5, <1>6, <1>7, <1>8, <1>9, <1>10, <1>11, <1>12, <1>13, <1>14 DEF DriverInit

\* A step of the device leaves the driver and the registers alone.
LEMMA DeviceLeaves == ASSUME DeviceStep PROVE UNCHANGED <<driver, registers>>
  BY DEF DeviceStep, DeviceTake, DeviceServe, DeviceComplete

LEMMA HandshakeStep == HandshakeInv /\ [BlockNext]_bvars => HandshakeInv'
<1> SUFFICES ASSUME HandshakeInv, [BlockNext]_bvars PROVE HandshakeInv'
  OBVIOUS
<1>1. CASE DriverInit
  BY <1>1, InitSteps
<1>2. CASE RegisterPanic
  BY <1>2, RegistersKept DEF RegisterPanic, Published
<1>3. CASE PublishRing \/ PublishIdx \/ NotifyQueue \/ Return
  BY <1>3, RegistersKept DEF PublishRing, PublishIdx, NotifyQueue, Return, Goto, Published
<1>4. CASE Calls
  BY <1>4, RegistersKept DEF Calls, Request, Goto
<1>5. CASE UNCHANGED <<driver, registers>>
  BY <1>5 DEF driver, registers, HandshakeInv, HandshakeType, Reached, LiveIsConfigured
<1> QED
  BY <1>1, <1>2, <1>3, <1>4, <1>5, DeviceLeaves DEF BlockNext, DriverStep, Poll, Panic, bvars

\* Whatever the device offers and refuses, over either transport and for any queue size:
\* VirtioBlockDevice::init sets DRIVER_OK only when the features are agreed and the
\* queue is set up whole.
THEOREM Handshake == BlockSpec => []LiveIsConfigured
<1>1. BlockInit => HandshakeInv
  <2> SUFFICES ASSUME pc = "init", status = {}, queue = NoQueue PROVE HandshakeInv
    BY DEF BlockInit
  <2> QED
    BY DEF NoQueue, HandshakeInv, HandshakeType, Reached, LiveIsConfigured, Initialising, Published
<1>2. HandshakeInv => LiveIsConfigured
  BY DEF HandshakeInv
<1> QED
  BY <1>1, <1>2, HandshakeStep, PTL DEF BlockSpec

-----------------------------------------------------------------------------
(* The queue *)

QueueType ==
  /\ pc \in Initialising \cup {"capacity", "idle", "ring", "idx"} \cup Published
  /\ descriptors \in [Descriptors -> [addr : Objects \cup {"null", "stale"},
                                      flags : SUBSET {"NEXT", "WRITE"}, next : Descriptors]]
  /\ avail \in [idx : Indices, ring : [Descriptors -> Descriptors]]
  /\ next_head \in Descriptors /\ used_idx \in Indices
  /\ dev \in [at : {"idle", "taken", "served"}, last_avail : Indices]

Completed == dev.at = "idle" /\ dev.last_avail = avail.idx /\ used_idx = avail.idx

\* All that was published is completed, or all but the request the driver waits for.
Flight ==
  Completed \/ (pc \in Published /\ avail.idx = (dev.last_avail + 1) % IdxModulus /\ used_idx = dev.last_avail)

\* The chain from a descriptor is the request of the current call.
IsRequest(h) ==
  LET d1 == descriptors[h]
      d2 == descriptors[d1.next]
      d3 == descriptors[d2.next]
  IN  /\ d1.addr = "header" /\ d1.flags = {"NEXT"}
      /\ memory.header.op # "Flush" => d2.addr = "data"
      /\ d2.flags = IF memory.header.op = "Read" THEN {"NEXT", "WRITE"} ELSE {"NEXT"}
      /\ d3.addr = "footer" /\ d3.flags = {"WRITE"}

Ready ==
  /\ pc \in {"ring", "idx"} => IsRequest(next_head)
  /\ pc = "idx" => avail.ring[Wrap(avail.idx)] = next_head
  /\ ~ Completed /\ dev.at # "served" => IsRequest(ChainHead)

QueueInv == QueueType /\ Flight /\ Ready

\* Ring indices and descriptors wrap.
LEMMA WrapRange == ASSUME NEW i \in Nat PROVE Wrap(i) \in Descriptors
  BY QueueAssumption DEF Wrap, Descriptors

\* The three descriptors of a request are different ones.
LEMMA WrapNear ==
  ASSUME NEW h \in Descriptors, NEW k \in {1, 2}
  PROVE  Wrap(h + k) = IF h + k < QueueSize THEN h + k ELSE h + k - QueueSize
  BY QueueAssumption DEF Wrap, Descriptors

\* The index after an index is another one.
LEMMA NextIndex == ASSUME NEW i \in Indices PROVE (i + 1) % IdxModulus \in Indices /\ (i + 1) % IdxModulus # i
  BY QueueAssumption DEF Indices

\* request fills in the three descriptors before any of it is published.
LEMMA RequestOK ==
  ASSUME QueueInv, NEW op \in Ops, NEW sector, NEW data, Request(op, sector, data)
  PROVE  QueueInv'
<1> DEFINE second == Wrap(next_head + 1)
           third == Wrap(next_head + 2)
           middle == Descriptor(IF op = "Flush" THEN descriptors[second].addr ELSE "data",
                                IF op = "Read" THEN {"NEXT", "WRITE"} ELSE {"NEXT"}, third)
<1>1. /\ second \in Descriptors /\ third \in Descriptors /\ next_head \in Descriptors /\ 0 \in Descriptors
      /\ second # next_head /\ third # next_head /\ second # third
  <2>1. next_head \in Descriptors
    BY DEF QueueInv, QueueType
  <2>2. /\ second = IF next_head + 1 < QueueSize THEN next_head + 1 ELSE next_head + 1 - QueueSize
        /\ third = IF next_head + 2 < QueueSize THEN next_head + 2 ELSE next_head + 2 - QueueSize
    BY <2>1, WrapNear
  <2> HIDE DEF second, third
  <2> QED
    BY <2>1, <2>2, QueueAssumption DEF Descriptors
<1>2. /\ pc = "idle" /\ pc' = "ring" /\ memory'.header.op = op
      /\ UNCHANGED <<avail, next_head, used_idx, dev>>
  BY DEF Request, Goto, registers
<1> HIDE DEF second, third
<1>3. descriptors' = [descriptors EXCEPT ![next_head] = Descriptor("header", {"NEXT"}, second),
                                         ![second] = middle,
                                         ![third] = Descriptor("footer", {"WRITE"}, 0)]
  BY <1>1 DEF Request, Chain, second, third, QueueInv, QueueType
<1>4. /\ descriptors'[next_head] = Descriptor("header", {"NEXT"}, second)
      /\ descriptors'[second] = middle
      /\ descriptors'[third] = Descriptor("footer", {"WRITE"}, 0)
  BY <1>1, <1>3 DEF QueueInv, QueueType
<1>5. QueueType'
  BY <1>1, <1>2, <1>3 DEF QueueInv, QueueType, Descriptor, Objects, Ops
<1>6. Completed /\ Completed'
  BY <1>2 DEF QueueInv, Flight, Completed, Published
<1>7. IsRequest(next_head)'
  BY <1>2, <1>4 DEF IsRequest, Descriptor, Ops
<1> QED
  BY <1>2, <1>5, <1>6, <1>7 DEF QueueInv, Flight, Ready

\* The ring entry goes where the device will look for the next request.
LEMMA PublishRingOK == ASSUME QueueInv, PublishRing PROVE QueueInv'
<1>1. /\ pc = "ring" /\ pc' = "idx"
      /\ UNCHANGED <<descriptors, next_head, used_idx, memory, dev>>
      /\ avail' = [avail EXCEPT !.ring[Wrap(avail.idx)] = next_head]
  BY DEF PublishRing, Goto
<1>2. Wrap(avail.idx) \in Descriptors
  BY WrapRange, QueueAssumption DEF QueueInv, QueueType, Indices
<1>3. avail'.idx = avail.idx /\ avail'.ring = [avail.ring EXCEPT ![Wrap(avail.idx)] = next_head]
  BY <1>1 DEF QueueInv, QueueType
<1>4. QueueType'
  BY <1>1, <1>2 DEF QueueInv, QueueType
<1>5. Completed /\ Completed'
  BY <1>1, <1>3 DEF QueueInv, Flight, Completed, Published
<1>6. avail'.ring[Wrap(avail'.idx)] = next_head'
  BY <1>1, <1>2, <1>3 DEF QueueInv, QueueType
<1>7. IsRequest(next_head)'
  BY <1>1 DEF QueueInv, Ready, IsRequest
<1> QED
  BY <1>1, <1>4, <1>5, <1>6, <1>7 DEF QueueInv, Flight, Ready, Published

\* With the index the request is in flight, and its head is where the device is.
LEMMA PublishIdxOK == ASSUME QueueInv, PublishIdx PROVE QueueInv'
<1>1. /\ pc = "idx" /\ pc' = "notify"
      /\ UNCHANGED <<descriptors, used_idx, memory, dev>>
      /\ avail' = [avail EXCEPT !.idx = (@ + 1) % IdxModulus]
      /\ next_head' = Wrap(next_head + 3)
  BY DEF PublishIdx, Goto
<1>2. avail'.idx = (avail.idx + 1) % IdxModulus /\ avail'.ring = avail.ring
  BY <1>1 DEF QueueInv, QueueType
<1>3. /\ avail.idx \in Indices /\ avail'.idx \in Indices /\ avail'.idx # avail.idx
  BY <1>2, NextIndex DEF QueueInv, QueueType
<1>4. next_head' \in Descriptors
  BY <1>1, WrapRange, QueueAssumption DEF QueueInv, QueueType, Descriptors
<1>5. QueueType'
  BY <1>1, <1>3, <1>4 DEF QueueInv, QueueType, Published
<1>6. Completed
  BY <1>1 DEF QueueInv, Flight, Published
<1>7. Flight'
  BY <1>1, <1>2, <1>6 DEF Flight, Completed, Published
<1>8. ChainHead' = next_head
  BY <1>1, <1>2, <1>6 DEF QueueInv, Ready, ChainHead, Completed
<1>9. IsRequest(next_head) /\ ChainHead' = next_head => IsRequest(ChainHead)'
  BY <1>1 DEF IsRequest
<1> QED
  BY <1>1, <1>5, <1>7, <1>8, <1>9 DEF QueueInv, Ready

\* The driver moves on without touching what the device sees.
LEMMA OtherStepsOK ==
  ASSUME QueueInv, UNCHANGED <<descriptors, avail, next_head, used_idx, memory, dev>>,
         \/ pc = "notify" /\ pc' \in {"poll", "panic"}
         \/ pc \in Initialising \cup {"capacity"} /\ pc' \in Initialising \cup {"capacity", "idle", "panic"}
         \/ pc' = pc
  PROVE  QueueInv'
<1>1. Completed' = Completed /\ QueueType'
  BY DEF Completed, QueueInv, QueueType, Published
<1>2. pc \in Published => pc' \in Published
  BY DEF Published, Initialising
<1>3. Flight'
  BY <1>1, <1>2 DEF QueueInv, Flight
<1>4. pc' \in {"ring", "idx"} => pc' = pc
  BY DEF Initialising
<1>5. /\ IsRequest(ChainHead)' = IsRequest(ChainHead)
      /\ IsRequest(next_head)' = IsRequest(next_head)
  BY DEF IsRequest, ChainHead
<1> QED
  BY <1>1, <1>3, <1>4, <1>5 DEF QueueInv, Ready

\* The polling loop ends only when the device is done with the descriptors.
LEMMA ReturnOK == ASSUME QueueInv, Return PROVE QueueInv'
<1>1. /\ pc = "poll" /\ pc' = "idle" /\ used_idx = avail.idx
      /\ UNCHANGED <<avail, next_head, used_idx, memory, dev>>
      /\ descriptors' = [d \in Descriptors |->
           [descriptors[d] EXCEPT !.addr = IF @ \in Objects THEN "stale" ELSE @]]
  BY DEF Return, Goto
<1>2. QueueType'
  BY <1>1, ZenonT(30) DEF QueueInv, QueueType
<1>3. Completed
  BY <1>1, NextIndex DEF QueueInv, QueueType, Flight
<1>4. Completed'
  BY <1>1, <1>3 DEF Completed
<1> QED
  BY <1>1, <1>2, <1>4 DEF QueueInv, Flight, Ready

LEMMA DeviceOK == ASSUME QueueInv, DeviceStep PROVE QueueInv'
<1>1. UNCHANGED <<pc, descriptors, avail, next_head>>
  BY DeviceLeaves DEF driver
<1>2. CASE DeviceTake
  <2>1. UNCHANGED <<used_idx, memory>> /\ dev.at = "idle"
    BY <1>2 DEF DeviceTake
  <2>2. CASE dev' = dev
    BY <1>1, <2>1, <2>2, OtherStepsOK
  <2>3. CASE dev.last_avail # avail.idx /\ dev' = [dev EXCEPT !.at = "taken"]
    <3>1. dev'.at = "taken" /\ dev'.last_avail = dev.last_avail
      BY <2>3 DEF QueueInv, QueueType
    <3>2. QueueType'
      BY <1>1, <2>1, <2>3 DEF QueueInv, QueueType
    <3>3. ~ Completed /\ Flight'
      BY <1>1, <2>1, <2>3, <3>1 DEF QueueInv, Flight, Completed
    <3>4. pc \notin {"ring", "idx"}
      BY <3>3 DEF QueueInv, Flight, Published
    <3>5. IsRequest(ChainHead)
      BY <3>3, <2>1 DEF QueueInv, Ready
    <3>6. IsRequest(ChainHead)'
      BY <3>5, <3>1, <1>1, <2>1 DEF IsRequest, ChainHead
    <3> QED
      BY <1>1, <3>2, <3>3, <3>4, <3>6 DEF QueueInv, Ready
  <2> QED
    BY <1>2, <2>2, <2>3 DEF DeviceTake
<1>3. ASSUME NEW s \in DeviceStatuses, DeviceServe(s) PROVE QueueInv'
  <2>1. used_idx' = used_idx /\ dev.at = "taken" /\ dev' = [dev EXCEPT !.at = "served"]
    BY <1>3 DEF DeviceServe
  <2>2. dev'.at = "served" /\ dev'.last_avail = dev.last_avail
    BY <2>1 DEF QueueInv, QueueType
  <2>3. QueueType'
    BY <1>1, <2>1 DEF QueueInv, QueueType
  <2>4. ~ Completed /\ Flight'
    BY <1>1, <2>1, <2>2 DEF QueueInv, Flight, Completed
  <2>5. pc \notin {"ring", "idx"}
    BY <2>4 DEF QueueInv, Flight, Published
  <2> QED
    BY <1>1, <2>2, <2>3, <2>4, <2>5 DEF QueueInv, Ready
<1>4. CASE DeviceComplete
  <2>1. /\ dev.at = "served" /\ used_idx' = (used_idx + 1) % IdxModulus
        /\ dev' = [at |-> "idle", last_avail |-> (dev.last_avail + 1) % IdxModulus]
    BY <1>4 DEF DeviceComplete
  <2>2. /\ avail.idx = (dev.last_avail + 1) % IdxModulus /\ used_idx = dev.last_avail
        /\ pc \in Published
    BY <2>1 DEF QueueInv, Flight, Completed
  <2>3. Completed'
    BY <1>1, <2>1, <2>2 DEF Completed
  <2>4. QueueType'
    BY <1>1, <2>1, NextIndex DEF QueueInv, QueueType
  <2> QED
    BY <1>1, <2>2, <2>3, <2>4 DEF QueueInv, Flight, Ready, Published
<1> QED
  BY <1>2, <1>3, <1>4 DEF DeviceStep

\* init only writes registers.
LEMMA InitLeaves ==
  ASSUME DriverInit
  PROVE  /\ UNCHANGED <<descriptors, avail, next_head, reply, host, used_idx, memory, dev, disk>>
         /\ pc \in Initialising \cup {"capacity"} /\ pc' \in Initialising \cup {"capacity", "idle"}
<1> USE DEF Register, Goto, Initialising
<1>1. CASE PciTransportInit \/ MmioTransportInit
  BY <1>1 DEF PciTransportInit, MmioTransportInit, registers
<1>2. CASE SetStatusReset \/ SetQueueEnable \/ SetFeatures \/ GetCapacity
  BY <1>2 DEF SetStatusReset, SetQueueEnable, SetFeatures, GetCapacity
<1>3. CASE \/ AddStatus("acknowledge", "ACKNOWLEDGE", "driver")
           \/ AddStatus("driver", "DRIVER", "features")
           \/ AddStatus("driver_ok", "DRIVER_OK", "capacity")
  BY <1>3 DEF AddStatus
<1>4. CASE GetFeatures \/ FeaturesOk \/ SetQueueSize
  BY <1>4 DEF GetFeatures, FeaturesOk, SetQueueSize, AddStatus
<1>5. CASE \/ SetAddress("desc", "descriptors", "avail")
           \/ SetAddress("avail", "avail", "used")
           \/ SetAddress("used", "used", "enable")
  BY <1>5 DEF SetAddress, PciSetAddress, MmioSetAddress
<1> QED
  BY <1>1, <1>2, <1>3, <1>4, <1>5 DEF DriverInit

LEMMA QueueStep == QueueInv /\ [BlockNext]_bvars => QueueInv'
<1> SUFFICES ASSUME QueueInv, [BlockNext]_bvars PROVE QueueInv'
  OBVIOUS
<1>1. CASE DriverInit
  BY <1>1, InitLeaves, OtherStepsOK
<1>2. CASE RegisterPanic
  BY <1>2, OtherStepsOK DEF RegisterPanic, Initialising
<1>3. CASE PublishRing \/ PublishIdx \/ Return
  BY <1>3, PublishRingOK, PublishIdxOK, ReturnOK
<1>4. CASE NotifyQueue
  BY <1>4, OtherStepsOK DEF NotifyQueue, Goto
<1>5. CASE Calls
  BY <1>5, RequestOK DEF Calls
<1>6. CASE DeviceStep
  BY <1>6, DeviceOK
<1>7. CASE UNCHANGED bvars
  BY <1>7, OtherStepsOK DEF bvars, driver
<1> QED
  BY <1>1, <1>2, <1>3, <1>4, <1>5, <1>6, <1>7 DEF BlockNext, DriverStep, Poll, Panic

LEMMA QueueStart == BlockInit => QueueInv
<1> SUFFICES ASSUME pc = "init", descriptors = [d \in Descriptors |-> Descriptor("null", {}, 0)],
                    avail = [idx |-> 0, ring |-> [i \in Descriptors |-> 0]], next_head = 0,
                    used_idx = 0, dev = [at |-> "idle", last_avail |-> 0]
             PROVE  QueueInv
  BY DEF BlockInit
<1>1. 0 \in Descriptors /\ 0 \in Indices
  BY QueueAssumption DEF Descriptors, Indices
<1>2. QueueType
  BY <1>1 DEF QueueType, Descriptor, Initialising
<1>3. Completed
  BY DEF Completed
<1> QED
  BY <1>2, <1>3 DEF QueueInv, Flight, Ready

\* For every queue size and every width of the indices: outside a published request the
\* device has completed exactly what request has published.
THEOREM Quiescence == BlockSpec => []NothingInFlight
<1>1. QueueInv => NothingInFlight
  BY DEF QueueInv, Flight, Completed, NothingInFlight, Published
<1> QED
  BY <1>1, QueueStart, QueueStep, PTL DEF BlockSpec

\* For every queue size and every width of the indices: what the device takes is the
\* whole request of the call that waits for it.
THEOREM CurrentRequest == BlockSpec => []TakenIsCurrent
<1>1. QueueInv => TakenIsCurrent
  BY DEF QueueInv, Flight, Completed, Ready, IsRequest, TakenIsCurrent, Published
<1> QED
  BY <1>1, QueueStart, QueueStep, PTL DEF BlockSpec

-----------------------------------------------------------------------------
(* The sectors *)

DataType ==
  /\ memory \in [header : [op : Ops, sector : Sectors], data : Values, footer : DeviceStatuses]
  /\ disk \in [Sectors -> Values]

\* A request the device has answered OK has done to the data what it was to do.
Answered ==
  (dev.at = "served" \/ (pc \in {"notify", "poll"} /\ Completed)) /\ memory.footer = "OK"
    /\ memory.header.op # "Flush" => memory.data = disk[memory.header.sector]

\* A driver without the notification region panics in its first request, with index 1.
Panicked ==
  /\ pc \in Initialising \cup {"capacity"} => avail.idx = 0
  /\ pc = "panic" /\ avail.idx = 0 => Completed
  /\ ~ HasNotify => /\ pc \in {"idle", "ring", "idx"} => avail.idx = 0
                    /\ pc = "notify" => avail.idx = 1
                    /\ pc # "poll"

BlockInv == QueueInv /\ DataType /\ Answered /\ Panicked

phaseBar == IF ~ Called THEN "idle" ELSE IF Performed THEN "performed" ELSE "called"

\* In a published request the index tells whether it is performed.
LEMMA PublishedPhase ==
  ASSUME QueueInv, pc \in Published
  PROVE  used_idx = avail.idx <=> Completed
  BY NextIndex DEF QueueInv, QueueType, Flight, Completed

\* The device writes the objects of the call through the chain of the call.
LEMMA ServeData ==
  ASSUME BlockInv, NEW s \in DeviceStatuses, DeviceServe(s)
  PROVE  /\ DataType'
         /\ memory'.header = memory.header /\ memory'.footer = s
         /\ memory.header.op # "Read" => memory'.data = memory.data
         /\ s = "OK" /\ memory.header.op # "Flush" => memory'.data = disk'[memory.header.sector]
         /\ \/ UNCHANGED disk
            \/ memory.header.op = "Write" /\ disk' = [disk EXCEPT ![memory.header.sector] = memory.data]
<1> DEFINE d1 == descriptors[ChainHead]
           d2 == descriptors[d1.next]
           d3 == descriptors[d2.next]
<1>1. IsRequest(ChainHead)
  BY DEF BlockInv, QueueInv, Ready, Completed, DeviceServe
<1>2. /\ d1.addr = "header" /\ d3.addr = "footer"
      /\ memory.header.op # "Flush" => d2.addr = "data"
      /\ d2.flags = IF memory.header.op = "Read" THEN {"NEXT", "WRITE"} ELSE {"NEXT"}
  BY <1>1 DEF IsRequest
<1>3. memory' = [o \in Objects |->
           IF o = d3.addr THEN s
           ELSE IF o = d2.addr /\ "WRITE" \in d2.flags /\ s = "OK" THEN disk[memory[d1.addr].sector]
           ELSE memory[o]]
  BY DEF DeviceServe
<1>4. \/ memory[d1.addr].op = "Write" /\ disk' = [disk EXCEPT ![memory[d1.addr].sector] = memory[d2.addr]]
      \/ ~ (memory[d1.addr].op = "Write" /\ s = "OK") /\ UNCHANGED disk
  BY DEF DeviceServe
<1> HIDE DEF d1, d2, d3
<1>5. memory[d1.addr] = memory.header
  BY <1>2
<1>6. memory' = [header |-> memory.header,
                 data |-> IF memory.header.op = "Read" /\ s = "OK" THEN disk[memory.header.sector] ELSE memory.data,
                 footer |-> s]
  BY <1>2, <1>3, <1>5 DEF Objects, BlockInv, DataType, Ops
<1>7. \/ memory.header.op = "Write" /\ disk' = [disk EXCEPT ![memory.header.sector] = memory.data]
      \/ ~ (memory.header.op = "Write" /\ s = "OK") /\ UNCHANGED disk
  BY <1>2, <1>4, <1>5
<1>8. /\ memory.header \in [op : Ops, sector : Sectors] /\ memory.data \in Values
      /\ disk[memory.header.sector] \in Values
  BY DEF BlockInv, DataType
<1> QED
  BY <1>6, <1>7, <1>8 DEF BlockInv, DataType, Ops

LEMMA StoreStart == BlockInit => BlockInv
<1> SUFFICES ASSUME BlockInit PROVE BlockInv
  OBVIOUS
<1>1. /\ pc = "init" /\ avail.idx = 0 /\ dev.at = "idle"
      /\ memory \in [header : [op : {"Flush"}, sector : Sectors], data : Values, footer : {"OK"}]
      /\ disk \in [Sectors -> Values]
  BY DEF BlockInit
<1>2. DataType
  BY <1>1 DEF DataType, Ops, DeviceStatuses
<1>3. Answered /\ Panicked
  BY <1>1 DEF Answered, Panicked
<1> QED
  BY <1>2, <1>3, QueueStart DEF BlockInv

LEMMA StoreStep == BlockInv /\ [BlockNext]_bvars => BlockInv'
<1> SUFFICES ASSUME BlockInv, [BlockNext]_bvars PROVE (DataType /\ Answered /\ Panicked)'
  BY QueueStep DEF BlockInv
<1>0. pc \notin Published => Completed
  BY DEF BlockInv, QueueInv, Flight
<1>1. CASE DriverInit
  <2>1. /\ UNCHANGED <<host, avail, memory, used_idx, dev, disk>>
        /\ pc \in Initialising \cup {"capacity"} /\ pc' \in Initialising \cup {"capacity", "idle"}
    BY <1>1, InitLeaves
  <2>2. Completed /\ avail.idx = 0
    BY <2>1, <1>0 DEF Published, Initialising, BlockInv, Panicked
  <2> QED
    BY <2>1, <2>2 DEF BlockInv, DataType, Answered, Panicked, Completed, Initialising
<1>2. CASE RegisterPanic
  <2>1. /\ UNCHANGED <<host, avail, memory, used_idx, dev, disk>> /\ pc' = "panic"
        /\ pc \in {"reset", "capacity"} \/ (pc = "notify" /\ ~ HasNotify)
    BY <1>2 DEF RegisterPanic, registers
  <2>2. avail.idx = 0 => Completed
    BY <2>1, <1>0 DEF Published, BlockInv, Panicked
  <2> QED
    BY <2>1, <2>2 DEF BlockInv, DataType, Answered, Panicked, Completed, Initialising
<1>3. CASE PublishRing
  <2>1. /\ UNCHANGED <<host, memory, used_idx, dev, disk>> /\ pc = "ring" /\ pc' = "idx"
        /\ avail'.idx = avail.idx
    BY <1>3 DEF PublishRing, Goto, registers, BlockInv, QueueInv, QueueType
  <2> QED
    BY <2>1, <1>0 DEF BlockInv, DataType, Answered, Panicked, Completed, Initialising, Published, HasNotify
<1>4. CASE PublishIdx
  <2>1. /\ UNCHANGED <<host, memory, used_idx, dev, disk>> /\ pc = "idx" /\ pc' = "notify"
        /\ avail'.idx = (avail.idx + 1) % IdxModulus
    BY <1>4 DEF PublishIdx, Goto, registers, BlockInv, QueueInv, QueueType
  <2>2. Completed /\ ~ Completed'
    BY <2>1, <1>0, NextIndex DEF BlockInv, QueueInv, QueueType, Completed, Published
  <2>3. (0 + 1) % IdxModulus = 1
    BY QueueAssumption
  <2> QED
    BY <2>1, <2>2, <2>3 DEF BlockInv, DataType, Answered, Panicked, Completed, Initialising, HasNotify
<1>5. CASE NotifyQueue
  BY <1>5 DEF NotifyQueue, Goto, registers, BlockInv, DataType, Answered, Panicked, Completed, Initialising, HasNotify
<1>6. CASE Return
  <2>1. /\ UNCHANGED <<host, avail, memory, used_idx, dev, disk>> /\ pc = "poll" /\ pc' = "idle"
        /\ used_idx = avail.idx
    BY <1>6 DEF Return, Goto, registers
  <2>2. Completed
    BY <2>1, PublishedPhase DEF BlockInv, Published
  <2> QED
    BY <2>1, <2>2 DEF BlockInv, DataType, Answered, Panicked, Completed, Initialising, HasNotify
<1>7. CASE Calls
  <2>1. PICK op \in Ops, sector \in Sectors, data \in Values : Request(op, sector, data)
    BY <1>7 DEF Calls
  <2>2. /\ UNCHANGED <<host, avail, used_idx, dev, disk>> /\ pc = "idle" /\ pc' = "ring"
        /\ memory' = [header |-> [op |-> op, sector |-> sector], data |-> data, footer |-> "OK"]
    BY <2>1 DEF Request, Goto, registers
  <2>3. DataType'
    BY <2>2 DEF BlockInv, DataType, DeviceStatuses
  <2>4. Completed
    BY <2>2, <1>0 DEF Published
  <2> QED
    BY <2>2, <2>3, <2>4 DEF BlockInv, Answered, Panicked, Completed, Initialising, HasNotify
<1>8. CASE DeviceTake
  <2>1. /\ UNCHANGED <<pc, host, avail, used_idx, memory, disk>>
        /\ Completed => dev' = dev
        /\ dev' = dev \/ (dev'.at = "taken" /\ dev'.last_avail = dev.last_avail)
    BY <1>8 DEF DeviceTake, Completed, driver, registers, BlockInv, QueueInv, QueueType
  <2>2. Completed' = Completed
    BY <2>1 DEF Completed
  <2> QED
    BY <2>1, <2>2 DEF BlockInv, DataType, Answered, Panicked, HasNotify
<1>9. ASSUME NEW t \in DeviceStatuses, DeviceServe(t) PROVE (DataType /\ Answered /\ Panicked)'
  <2>1. /\ UNCHANGED <<pc, host, avail, used_idx>> /\ ~ Completed
    BY <1>9 DEF DeviceServe, Completed, driver, registers
  <2> QED
    BY <1>9, <2>1, ServeData DEF BlockInv, Answered, Panicked, HasNotify
<1>10. CASE DeviceComplete
  <2>1. /\ UNCHANGED <<pc, host, avail, memory, disk>> /\ dev.at = "served" /\ ~ Completed
    BY <1>10 DEF DeviceComplete, Completed, driver, registers
  <2> QED
    BY <2>1 DEF BlockInv, DataType, Answered, Panicked, HasNotify
<1>11. CASE UNCHANGED bvars
  BY <1>11 DEF bvars, driver, registers, BlockInv, DataType, Answered, Panicked, Completed, HasNotify
<1> QED
  BY <1>1, <1>2, <1>3, <1>4, <1>5, <1>6, <1>7, <1>8, <1>9, <1>10, <1>11
  DEF BlockNext, DriverStep, DeviceStep, Poll, Panic

\* A step that leaves the phase, the objects of the call, the disk and the reply alone is
\* none of the store's.
LEMMA Stutters == ASSUME phaseBar' = phaseBar, UNCHANGED <<memory, disk, reply>> PROVE UNCHANGED Store!vars
  BY DEF phaseBar, Store!vars

\* A step of the driver or of the device is a call, the performance or the return of a
\* request of the store, or none of them.
LEMMA StoreSimulates == ASSUME BlockInv, [BlockNext]_bvars PROVE [Store!Next]_(Store!vars)
<1>0. pc \notin Published => Completed
  BY DEF BlockInv, QueueInv, Flight
<1>1. CASE DriverInit
  <2>1. /\ UNCHANGED <<memory, dev, disk, reply, avail>>
        /\ pc \in Initialising \cup {"capacity"} /\ pc' \in Initialising \cup {"capacity", "idle"}
    BY <1>1, InitLeaves
  <2>2. ~ Called /\ ~ Called'
    BY <2>1 DEF Called, Initialising
  <2> QED
    BY <2>1, <2>2, Stutters DEF phaseBar
<1>2. CASE RegisterPanic
  <2>1. /\ UNCHANGED <<avail, memory, used_idx, dev, disk, reply>> /\ pc' = "panic"
        /\ pc \in {"reset", "capacity"} \/ (pc = "notify" /\ ~ HasNotify)
    BY <1>2 DEF RegisterPanic
  <2>2. CASE pc \in {"reset", "capacity"}
    <3>1. ~ Called /\ ~ Called'
      BY <2>1, <2>2 DEF Called, BlockInv, Panicked, Initialising
    <3> QED
      BY <2>1, <3>1, Stutters DEF phaseBar
  <2>3. CASE pc = "notify" /\ ~ HasNotify
    <3>1. Called /\ Called' /\ Performed' = Performed
      BY <2>1, <2>3 DEF Called, Performed, BlockInv, Panicked
    <3> QED
      BY <2>1, <3>1, Stutters DEF phaseBar
  <2> QED
    BY <2>1, <2>2, <2>3
<1>3. CASE PublishRing
  <2>1. /\ UNCHANGED <<memory, used_idx, dev, disk, reply>> /\ pc = "ring" /\ pc' = "idx"
    BY <1>3 DEF PublishRing, Goto
  <2>2. Called /\ Called' /\ Performed' = Performed
    BY <2>1 DEF Called, Performed
  <2> QED
    BY <2>1, <2>2, Stutters DEF phaseBar
<1>4. CASE PublishIdx
  <2>1. /\ UNCHANGED <<memory, used_idx, dev, disk, reply>> /\ pc = "idx" /\ pc' = "notify"
        /\ avail'.idx = (avail.idx + 1) % IdxModulus
    BY <1>4 DEF PublishIdx, Goto, BlockInv, QueueInv, QueueType
  <2>2. Completed /\ avail'.idx # used_idx
    BY <2>1, <1>0, NextIndex DEF BlockInv, QueueInv, QueueType, Completed, Published
  <2>3. Called /\ Called' /\ ~ Performed /\ ~ Performed'
    BY <2>1, <2>2 DEF Called, Performed, Completed
  <2> QED
    BY <2>1, <2>3, Stutters DEF phaseBar
<1>5. CASE NotifyQueue
  <2>1. /\ UNCHANGED <<avail, memory, used_idx, dev, disk, reply>> /\ pc = "notify" /\ pc' = "poll"
    BY <1>5 DEF NotifyQueue, Goto
  <2>2. Called /\ Called' /\ Performed' = Performed
    BY <2>1 DEF Called, Performed
  <2> QED
    BY <2>1, <2>2, Stutters DEF phaseBar
<1>6. CASE Return
  <2>1. /\ UNCHANGED <<memory, disk>> /\ pc = "poll" /\ pc' = "idle" /\ used_idx = avail.idx
        /\ reply' = [result |-> ResultOf(memory.footer), data |-> memory.data]
    BY <1>6 DEF Return, Goto
  <2>2. Called /\ Performed /\ ~ Called' /\ Completed
    BY <2>1, PublishedPhase DEF Called, Performed, BlockInv, Published
  <2>3. ResultOf(memory.footer) \in Store!Results /\ memory.data \in Values
    BY DEF ResultOf, Store!Results, BlockInv, DataType
  <2>4. ResultOf(memory.footer) = "Ok" => memory.footer = "OK"
    BY DEF ResultOf, BlockInv, DataType, DeviceStatuses
  <2>5. ResultOf(memory.footer) = "Ok" /\ memory.header.op # "Flush" => memory.data = disk[memory.header.sector]
    BY <2>1, <2>2, <2>4 DEF BlockInv, Answered
  <2>6. Store!Return(ResultOf(memory.footer), memory.data)
    BY <2>1, <2>2, <2>5 DEF Store!Return
  <2> QED
    BY <2>3, <2>6 DEF Store!Next
<1>7. CASE Calls
  <2>1. PICK op \in Ops, sector \in Sectors, data \in Values : Request(op, sector, data)
    BY <1>7 DEF Calls
  <2>2. /\ UNCHANGED <<avail, used_idx, dev, disk>> /\ pc = "idle" /\ pc' = "ring" /\ reply' = NoReply
        /\ memory' = [header |-> [op |-> op, sector |-> sector], data |-> data, footer |-> "OK"]
    BY <2>1 DEF Request, Goto
  <2>3. ~ Called /\ Called' /\ ~ Performed'
    BY <2>2, <1>0 DEF Called, Performed, Completed, Published
  <2>4. Store!Call(op, sector, data)
    BY <2>2, <2>3 DEF Store!Call
  <2> QED
    BY <2>4 DEF Store!Next, Store!Ops, Ops
<1>8. CASE DeviceTake
  <2>1. /\ UNCHANGED <<pc, avail, used_idx, memory, disk, reply>> /\ dev.at = "idle"
        /\ dev' = dev \/ dev'.at = "taken"
    BY <1>8 DEF DeviceTake, driver, BlockInv, QueueInv, QueueType
  <2>2. Called' = Called /\ Performed' = Performed
    BY <2>1 DEF Called, Performed
  <2> QED
    BY <2>1, <2>2, Stutters DEF phaseBar
<1>9. ASSUME NEW t \in DeviceStatuses, DeviceServe(t) PROVE [Store!Next]_(Store!vars)
  <2>1. /\ UNCHANGED <<pc, avail, used_idx, reply>> /\ dev.at = "taken" /\ dev'.at = "served"
    BY <1>9 DEF DeviceServe, driver, BlockInv, QueueInv, QueueType
  <2>2. pc \in Published /\ used_idx # avail.idx /\ ~ Completed
    BY <2>1, <1>0, PublishedPhase DEF BlockInv, Completed
  <2>3. Called /\ Called' /\ ~ Performed /\ Performed'
    BY <2>1, <2>2 DEF Called, Performed, BlockInv, Panicked, Published
  <2>4. /\ memory'.header = memory.header
        /\ memory.header.op # "Read" => memory'.data = memory.data
        /\ \/ UNCHANGED disk
           \/ memory.header.op = "Write" /\ disk' = [disk EXCEPT ![memory.header.sector] = memory.data]
    BY <1>9, ServeData
  <2>5. Store!Perform
    BY <2>1, <2>3, <2>4 DEF Store!Perform
  <2> QED
    BY <2>5 DEF Store!Next
<1>10. CASE DeviceComplete
  <2>1. /\ UNCHANGED <<pc, avail, memory, disk, reply>> /\ dev.at = "served"
        /\ used_idx' = (used_idx + 1) % IdxModulus
    BY <1>10 DEF DeviceComplete, driver
  <2>2. pc \in Published /\ used_idx' = avail.idx
    BY <2>1 DEF BlockInv, QueueInv, Flight, Completed
  <2>3. Called' = Called /\ Performed /\ Performed'
    BY <2>1, <2>2 DEF Called, Performed, Published
  <2> QED
    BY <2>1, <2>3, Stutters DEF phaseBar
<1>11. CASE UNCHANGED bvars
  <2>1. phaseBar' = phaseBar /\ UNCHANGED <<memory, disk, reply>>
    BY <1>11 DEF bvars, driver, phaseBar, Called, Performed
  <2> QED
    BY <2>1, Stutters
<1> QED
  BY <1>1, <1>2, <1>3, <1>4, <1>5, <1>6, <1>7, <1>8, <1>9, <1>10, <1>11
  DEF BlockNext, DriverStep, DeviceStep, Poll, Panic

\* The driver and the device, with their rings, descriptors and shared objects, for every queue
\* size and every width of the indices, are an atomic store of sectors to SectorRead and
\* SectorWrite: each request is performed once, between its call and its return.
THEOREM SectorStoreImplemented == BlockSpec => ImplementsSectorStore
<1>1. BlockInit => Store!Init
  <2> SUFFICES ASSUME BlockInit PROVE Store!Init
    OBVIOUS
  <2>1. /\ pc = "init" /\ disk \in [Sectors -> Values] /\ reply = NoReply
        /\ memory \in [header : [op : {"Flush"}, sector : Sectors], data : Values, footer : {"OK"}]
    BY DEF BlockInit
  <2>2. ~ Called
    BY <2>1 DEF Called
  <2> QED
    BY <2>1, <2>2 DEF Store!Init
<1>2. BlockInv /\ [BlockNext]_bvars => [Store!Next]_(Store!vars)
  BY StoreSimulates
<1> QED
  BY <1>1, <1>2, StoreStart, StoreStep, PTL DEF BlockSpec, ImplementsSectorStore, Store!Spec

=============================================================================
