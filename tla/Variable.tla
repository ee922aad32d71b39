------------------------------ MODULE Variable ------------------------------
(***************************************************************************)
(* The UEFI variable store: Variable of src/efi/variable.rs behind the     *)
(* runtime services get_variable and set_variable of src/efi/mod.rs.       *)
(*                                                                         *)
(* The store is an array with a count; the items from the count on are     *)
(* never read and are overwritten whole before they become visible, so the *)
(* model keeps the visible prefix as a sequence.  A caller's name is a     *)
(* sequence of Char16 without its terminator; the services keep the low    *)
(* byte of each and stop at the first that is zero.  The 2048 bytes copied *)
(* into an item are observable up to its size only, so data stands for     *)
(* those bytes.                                                            *)
(***************************************************************************)
EXTENDS Integers, Sequences, FiniteSetsExt

CONSTANTS
  MaxItems,       \* MAX_VARIABLE_ITEM
  MaxName,        \* MAX_VARIABLE_NAME, the terminator included
  MaxData,        \* MAX_VARIABLE_DATA
  Char8Modulus,   \* 2^8, the low byte of a Char16
  Names, Guids, Attributes,
  Sizes, Bytes,   \* the size and the buffer of a call; the buffer may be Null
  Null

ASSUME VariableAssumption ==
  /\ MaxItems \in Nat \ {0} /\ MaxName \in Nat \ {0} /\ MaxData \in Nat
  /\ Char8Modulus \in Nat \ {0}
  /\ Names \subseteq Seq(Nat)
  /\ Attributes \subseteq Nat /\ Sizes \subseteq Nat

VARIABLES
  items,    \* varialbe_item[0 .. variable_count - 1]
  last      \* the last call and what it returned

vars == <<items, last>>

-----------------------------------------------------------------------------
Low(c) == c % Char8Modulus

\* char16_to_char8: the bytes before the first zero byte.
char16_to_char8(name) ==
  LET zeros == {i \in 1 .. Len(name) : Low(name[i]) = 0}
      end == IF zeros = {} THEN Len(name) ELSE Min(zeros) - 1
  IN  [i \in 1 .. end |-> Low(name[i])]

\* get_char16_size counts the terminator.
get_char16_size(name) == Len(char16_to_char8(name)) + 1

NameTooLong(name) == get_char16_size(name) > MaxName

Key(name, guid) == <<char16_to_char8(name), guid>>

\* Mutant of find_variable: the GUID is not compared.
FindByName(v, key) ==
  LET found == {i \in DOMAIN v : v[i].key[1] = key[1]}
  IN  IF found = {} THEN 0 ELSE Min(found)

\* Mutant of find_variable: the last item is not looked at.
FindAllButLast(v, key) ==
  LET found == {i \in 1 .. Len(v) - 1 : v[i].key = key}
  IN  IF found = {} THEN 0 ELSE Min(found)

\* find_variable: the position of the first item of the store v with this key, 0 for
\* None.
find_variable(v, key) ==
  LET found == {i \in DOMAIN v : v[i].key = key}
  IN  IF found = {} THEN 0 ELSE Min(found)

Item(key, attributes, size, data) ==
  [key |-> key, attributes |-> attributes, size |-> size, data |-> data]

\* What set_variable treats as a deletion.
IsDelete(attributes, size, data) == attributes = 0 \/ size = 0 \/ data = Null

\* The deletion: find_last_variable finds nothing in a store that is not empty,
\* so only the count changes.
Deleted == SubSeq(items, 1, Len(items) - 1)

Updated(i, attributes, size, data) ==
  [items EXCEPT ![i] = Item(@.key, attributes, size, data)]

\* find_new_variable finds nothing in a full store, which stays as it is.
Added(item) == IF Len(items) < MaxItems THEN Append(items, item) ELSE items

\* Variable::set_variable.
Set(key, attributes, size, data) ==
  LET i == find_variable(items, key)
  IN  IF IsDelete(attributes, size, data)
      THEN IF i = 0 THEN items ELSE Deleted
      ELSE IF i = 0 THEN Added(Item(key, attributes, size, data))
                    ELSE Updated(i, attributes, size, data)

set_variable(name, guid, attributes, size, data) ==
  LET refused == NameTooLong(name) \/ size > MaxData
  IN  /\ items' = IF refused THEN items ELSE Set(Key(name, guid), attributes, size, data)
      /\ last' = [op |-> "set", name |-> name, guid |-> guid, attributes |-> attributes,
                  size |-> size, data |-> data,
                  status |-> IF refused THEN "UNSUPPORTED" ELSE "SUCCESS"]

GetStatus(name, i, size) ==
  CASE NameTooLong(name) -> "UNSUPPORTED"
    [] ~ NameTooLong(name) /\ i = 0 -> "NOT_FOUND"
    [] ~ NameTooLong(name) /\ i # 0 ->
         IF size < items[i].size THEN "BUFFER_TOO_SMALL" ELSE "SUCCESS"

\* size is the caller's buffer; the caller's size, attributes and data are written
\* as the status says.
get_variable(name, guid, size) ==
  LET i == find_variable(items, Key(name, guid))
      status == GetStatus(name, i, size)
  IN  /\ last' = [op |-> "get", name |-> name, guid |-> guid, buffer |-> size,
                  status |-> status,
                  size |-> IF status \in {"BUFFER_TOO_SMALL", "SUCCESS"}
                           THEN items[i].size ELSE size,
                  attributes |-> IF status = "SUCCESS" THEN items[i].attributes ELSE 0,
                  data |-> IF status = "SUCCESS" THEN items[i].data ELSE Null]
      /\ UNCHANGED items

-----------------------------------------------------------------------------
Init ==
  /\ items = << >>
  /\ last = [op |-> "none"]

\* The first set_variable is that of initialize_variable (src/efi/init.rs), the
\* others are the boot loader's.
Next ==
  \E name \in Names, guid \in Guids :
    \/ \E attributes \in Attributes, size \in Sizes, data \in Bytes \cup {Null} :
         set_variable(name, guid, attributes, size, data)
    \/ \E size \in Sizes : get_variable(name, guid, size)

Spec == Init /\ [][Next]_vars

-----------------------------------------------------------------------------
(* Properties *)

Keys == Seq(0 .. Char8Modulus - 1) \X Guids

TypeOK ==
  /\ items \in Seq([key : Keys, attributes : Attributes \ {0},
                    size : 1 .. MaxData, data : Bytes])
  /\ Len(items) <= MaxItems
  /\ last.op \in {"none", "set", "get"}

\* No variable is in the store twice, although callers' names that differ may be
\* the same name once converted, and whatever a deletion dropped.
UniqueKeys == \A i, j \in DOMAIN items : items[i].key = items[j].key => i = j

\* The item the store v has for a key, Null if there is none.
Stored(v, key) == IF find_variable(v, key) = 0 THEN Null ELSE v[find_variable(v, key)]

\* Setting a variable to a value, also in a full store, leaves every variable
\* with another GUID or another converted name alone.
SetIsolated ==
  [][ (last'.op = "set" /\ ~ IsDelete(last'.attributes, last'.size, last'.data)) =>
        \A key \in {items[i].key : i \in DOMAIN items} \cup {items'[i].key : i \in DOMAIN items'} :
          key # Key(last'.name, last'.guid) => Stored(items', key) = Stored(items, key) ]_vars

\* The branch of set_variable commented "delete the variable" deletes it.
DeleteRemoves ==
  (last.op = "set" /\ last.status = "SUCCESS" /\ IsDelete(last.attributes, last.size, last.data)) =>
    find_variable(items, Key(last.name, last.guid)) = 0
=============================================================================
