----------------------------- MODULE Partitions -----------------------------
(***************************************************************************)
(* From the partition table to handles: the part of enter_uefi             *)
(* (src/efi/mod.rs) between the block device and the first image, with     *)
(* find_efi_partition and get_partitions (src/part.rs) and the block       *)
(* wrappers (src/efi/block.rs).                                            *)
(*                                                                         *)
(* The table is scanned twice, by find_efi_partition for the place of the  *)
(* file system and by get_partitions for the handles.  An entry has a type *)
(* (efi or not), a GUID, NoGuid for an unused entry, and its blocks.  Any  *)
(* sector may fail to be read.  The wrappers array is kept as a sequence:  *)
(* wrappers[i] is wrappers.wrappers[i]; the wrapper of the whole disk,     *)
(* number 0, is a variable of its own.                                     *)
(***************************************************************************)
EXTENDS HandleDatabase

CONSTANTS
  PerSector,        \* 4 entries to a sector
  MinUsable,        \* 34
  MaxParts,         \* 16: the length of parts and of wrappers
  NoGuid,
  Tables,           \* records [signature, first_usable_lba, first_part_lba, part_count, entries]
  TextInput, TextInputEx, TextOutput, BlockIo, FileSystem,
  Pci               \* the data of the PCI node

ASSUME PartitionAssumption ==
  /\ PerSector \in Nat \ {0} /\ MaxParts \in Nat \ {0} /\ MinUsable \in Nat
  /\ TextInput # TextInputEx /\ BlockIo # FileSystem /\ DevicePathGuid \notin {BlockIo, FileSystem}
  /\ {TextInput, TextInputEx, TextOutput} \cap {BlockIo, FileSystem, DevicePathGuid} = {}
  /\ MaxParts + 4 <= MaxHandles /\ MaxProtocols >= 2
  /\ NoGuid \in Nat
  /\ \A t \in Tables :
       /\ {t.first_usable_lba, t.first_part_lba, t.part_count} \subseteq Nat
       /\ \A l \in t.first_part_lba .. t.first_usable_lba - 1 :
            t.entries[l] \in [1 .. PerSector -> [efi : BOOLEAN, guid : Nat, first_lba : Nat, last_lba : Nat]]

VARIABLES
  gpt,            \* the table on the disk
  phase,          \* where enter_uefi is
  lba,            \* the next sector of the scan
  checked,        \* checked_part_count
  found,          \* the start of the partition find_efi_partition returned
  parts,          \* parts_out, as far as it is filled
  wrappers, whole,
  efi_part_id

pvars == <<gpt, phase, lba, checked, found, parts, wrappers, whole, efi_part_id, db, last>>

\* Phases the start ends in: booted; failed (logged, and the firmware stops);
\* unwrap, bounds (a panic); fault (a write through a null pointer).

\* The step leads to phase p and only changes what vs leaves out.
Goto(p, vs) == phase' = p /\ UNCHANGED <<gpt, last>> /\ UNCHANGED vs

-----------------------------------------------------------------------------
\* Both inputs on one handle, output and error output on one each.
initialize_console ==
  LET install(d, handle, guid) == InstallProtocol(d, handle, [guid |-> guid, interface |-> Null])
  IN  /\ phase = "console"
      /\ \E input \in {install(db, NullHandle, TextInput)} :
         \E both \in {install(input.db, input.handle, TextInputEx)} :
         \E out \in {install(both.db, NullHandle, TextOutput)} :
           db' = install(out.db, NullHandle, TextOutput).db
      /\ Goto("search", <<lba, checked, found, parts, wrappers, whole, efi_part_id>>)

HeaderOk == gpt.signature /\ gpt.first_usable_lba >= MinUsable

\* Both scans begin with the header; the first gives up where the second panics.
ReadHeader(now, next, stop) ==
  /\ phase = now
  /\ \/ Goto(stop, <<lba, checked>>)
     \/ HeaderOk /\ lba' = gpt.first_part_lba /\ checked' = 0 /\ Goto(next, << >>)
  /\ UNCHANGED <<found, parts, wrappers, whole, efi_part_id, db>>

\* The entry of the sector that ends find_efi_partition with success: the first EFI
\* one, unless the entries run out before it.
FoundIn(sector) ==
  {k \in DOMAIN sector : sector[k].efi /\ \A j \in 1 .. k - 1 : ~ sector[j].efi /\ checked + j # gpt.part_count}

find_efi_partition ==
  LET sector == gpt.entries[lba]
      exceeded == gpt.part_count \in checked + 1 .. checked + PerSector
  IN  /\ phase = "find"
      /\ \/ Goto("failed", <<lba, checked, found>>)
         \/ /\ lba < gpt.first_usable_lba /\ FoundIn(sector) # {}
            /\ \E k \in FoundIn(sector) : found' = sector[k].first_lba
            /\ Goto("header", <<lba, checked>>)
         \/ /\ lba < gpt.first_usable_lba /\ FoundIn(sector) = {} /\ ~ exceeded
            /\ lba' = lba + 1 /\ checked' = checked + PerSector
            /\ Goto("find", <<found>>)
      /\ UNCHANGED <<parts, wrappers, whole, efi_part_id, db>>

\* The entries of a sector that are in use, in order.
Used(sector) ==
  LET taken[k \in 0 .. Len(sector)] ==
        IF k = 0 THEN << >>
        ELSE IF sector[k].guid # NoGuid THEN Append(taken[k - 1], sector[k]) ELSE taken[k - 1]
  IN  taken[Len(sector)]

\* Mutant of get_partitions: the scan ends one sector before the count is reached.
GetPartitionsShort ==
  LET used == Used(gpt.entries[lba])
  IN  /\ phase = "scan" /\ Len(parts) + Len(used) <= MaxParts
      /\ parts' = parts \o used /\ lba' = lba + 1 /\ checked' = checked + PerSector
      /\ Goto(IF checked' + PerSector >= gpt.part_count THEN "wrap" ELSE "scan", << >>)
      /\ UNCHANGED <<found, wrappers, whole, efi_part_id, db>>

\* get_partitions takes whole sectors; populate_block_wrappers unwraps its result.
get_partitions ==
  LET used == Used(gpt.entries[lba])
      more == lba < gpt.first_usable_lba
  IN  /\ phase = "scan"
      /\ \/ ~ more /\ Goto("wrap", <<lba, checked, parts>>)
         \/ more /\ Goto("unwrap", <<lba, checked, parts>>)
         \/ more /\ Len(parts) + Len(used) > MaxParts /\ Goto("bounds", <<lba, checked, parts>>)
         \/ /\ more /\ Len(parts) + Len(used) <= MaxParts
            /\ parts' = parts \o used /\ lba' = lba + 1 /\ checked' = checked + PerSector
            /\ Goto(IF checked' >= gpt.part_count THEN "wrap" ELSE "scan", << >>)
      /\ UNCHANGED <<found, wrappers, whole, efi_part_id, db>>

-----------------------------------------------------------------------------
\* BlockWrapper::new.
BlockWrapper(number, start, last_lba, guid) ==
  [start_lba |-> start,
   disk_paths |-> Node("HW", <<Pci>>) \o
                  Node("HW", <<[number |-> number, start |-> start, size |-> last_lba - start + 1, guid |-> guid]>>) \o
                  EndNode]

PciPath == Node("HW", <<Pci>>) \o EndNode

\* A new handle with an interface and a device path; both statuses are ignored.
Publish(d, guid, interface, path) ==
  LET new == InstallProtocol(d, NullHandle, [guid |-> guid, interface |-> interface])
  IN  InstallProtocol(new.db, new.handle, [guid |-> DevicePathGuid, interface |-> path]).db

\* Mutant of WrapPartition: the EFI partition is remembered by its place in parts.
WrapPartitionPlace ==
  LET i == Len(wrappers)
      p == parts[i + 1]
      w == BlockWrapper(i + 1, p.first_lba, p.last_lba, p.guid)
  IN  /\ phase = "wrap" /\ i < Len(parts) /\ i + 1 < MaxParts
      /\ wrappers' = Append(wrappers, w)
      /\ efi_part_id' = IF p.efi THEN i ELSE efi_part_id
      /\ db' = Publish(db, BlockIo, i + 1, w.disk_paths)
      /\ Goto("wrap", <<lba, checked, found, parts, whole>>)

\* One turn of the loop of populate_block_wrappers: entry i + 1 of the array is that of
\* partition i, so the array is full one partition before parts is.
WrapPartition ==
  LET i == Len(wrappers)
      p == parts[i + 1]
      w == BlockWrapper(i + 1, p.first_lba, p.last_lba, p.guid)
  IN  /\ phase = "wrap" /\ i < Len(parts)
      /\ \/ i + 1 >= MaxParts /\ Goto("bounds", <<wrappers, efi_part_id, db>>)
         \/ i + 1 < MaxParts /\ Goto("fault", <<wrappers, efi_part_id, db>>)
         \/ /\ i + 1 < MaxParts
            /\ wrappers' = Append(wrappers, w)
            /\ efi_part_id' = IF p.efi THEN i + 1 ELSE efi_part_id
            /\ db' = Publish(db, BlockIo, i + 1, w.disk_paths)
            /\ Goto("wrap", << >>)
      /\ UNCHANGED <<lba, checked, found, parts, whole>>

\* The wrapper of the whole disk, published with the path of the PCI device.
WrapDisk ==
  LET last_lba == Max({0} \cup {parts[i].last_lba : i \in DOMAIN parts})
  IN  /\ phase = "wrap" /\ Len(wrappers) = Len(parts)
      /\ \/ Goto("fault", <<whole, db>>)
         \/ /\ whole' = BlockWrapper(0, 0, last_lba, NoGuid)
            /\ db' = Publish(db, BlockIo, 0, PciPath)
            /\ Goto("fs", << >>)
      /\ UNCHANGED <<lba, checked, found, parts, wrappers, efi_part_id>>

Wrapper(k) == IF k = 0 THEN whole ELSE wrappers[k]

\* The file system of the partition found first gets a handle with the path of the
\* wrapper populate_block_wrappers chose.
PublishFileSystem ==
  /\ phase = "fs"
  /\ \/ Goto("unwrap", <<db>>)
     \/ db' = Publish(db, FileSystem, found, Wrapper(efi_part_id).disk_paths) /\ Goto("booted", << >>)
  /\ UNCHANGED <<lba, checked, found, parts, wrappers, whole, efi_part_id>>

\* Mutant of read_blocks: the start of the partition is not added.
ReadBlocksOfDisk(handle, start, n) ==
  /\ phase = "booted" /\ get_protocol(db, handle, BlockIo) # 0
  /\ last' = [op |-> "blocks", handle |-> handle, start |-> start,
              delivered |-> [i \in 1 .. n |-> start + i - 1], status |-> "SUCCESS"]
  /\ UNCHANGED <<gpt, phase, lba, checked, found, parts, wrappers, whole, efi_part_id, db>>

\* An image reads n blocks from block start on; delivered are the sectors of the disk
\* it got before one failed.
read_blocks(handle, start, n) ==
  LET k == db[handle][get_protocol(db, handle, BlockIo)].interface
      sector(i) == Wrapper(k).start_lba + start + i - 1
  IN  /\ phase = "booted" /\ get_protocol(db, handle, BlockIo) # 0
      /\ \E done \in 0 .. n :
           last' = [op |-> "blocks", handle |-> handle, start |-> start,
                    delivered |-> [i \in 1 .. done |-> sector(i)],
                    status |-> IF done = n THEN "SUCCESS" ELSE "DEVICE_ERROR"]
      /\ UNCHANGED <<gpt, phase, lba, checked, found, parts, wrappers, whole, efi_part_id, db>>

-----------------------------------------------------------------------------
PartInit ==
  /\ Init /\ gpt \in Tables /\ phase = "console"
  /\ lba = 0 /\ checked = 0 /\ found = 0 /\ parts = << >> /\ wrappers = << >>
  /\ whole = Null /\ efi_part_id = 0

Startup ==
  \/ initialize_console
  \/ ReadHeader("search", "find", "failed")
  \/ find_efi_partition
  \/ ReadHeader("header", "scan", "unwrap")
  \/ get_partitions
  \/ WrapPartition
  \/ WrapDisk
  \/ PublishFileSystem

PartNext == Startup \/ \E handle \in Handles, start \in {0, 1}, n \in 0 .. 2 : read_blocks(handle, start, n)

PartSpec == PartInit /\ [][PartNext]_pvars

-----------------------------------------------------------------------------
(* Properties *)

\* The entries of the table, and those the header counts.
Entries == [i \in 1 .. (gpt.first_usable_lba - gpt.first_part_lba) * PerSector |->
              gpt.entries[gpt.first_part_lba + (i - 1) \div PerSector][((i - 1) % PerSector) + 1]]
Counted == {i \in DOMAIN Entries : i <= gpt.part_count /\ Entries[i].guid # NoGuid}

Publishing(guid) == {h \in Handles : get_protocol(db, h, guid) # 0}

\* The hard disk node of a handle's path.
HardDisk(h) == DevicePathOf(h)[4]

\* Once the first image runs, each partition the header counts, and the whole disk, has
\* one handle for its blocks, with its own GUID and place in the device path, and
\* locate_device_path leads from that path to that handle, not to the whole disk's.  Start-up
\* gets there with every disk of fewer partitions than the arrays have elements: only
\* with more does an index run past an array.
PartitionsPublished ==
  /\ phase = "bounds" => Cardinality({i \in DOMAIN Entries : Entries[i].guid # NoGuid}) >= MaxParts
  /\ phase = "booted" =>
       /\ \A i \in Counted :
            \E h \in Publishing(BlockIo) :
              /\ DevicePathOf(h) # PciPath
              /\ HardDisk(h).guid = Entries[i].guid /\ HardDisk(h).start = Entries[i].first_lba
              /\ BestMatch(BlockIo, DevicePathOf(h)) = h
       /\ \A h, k \in Publishing(BlockIo) : h # k => DevicePathOf(h) # DevicePathOf(k)
       /\ \E h \in Publishing(BlockIo) : DevicePathOf(h) = PciPath

\* read_blocks through a handle delivers the blocks of the partition that the device
\* path of the same handle describes, in order, all of them on success.
ReadsPartition ==
  last.op = "blocks" =>
    LET start == IF DevicePathOf(last.handle) = PciPath THEN 0 ELSE HardDisk(last.handle).start
    IN  \A i \in DOMAIN last.delivered : last.delivered[i] = start + last.start + i - 1

\* One of the entries is an EFI partition.
OneEfi(table) == \E e \in DOMAIN table : {i \in DOMAIN table : table[i].efi} = {e}

\* The device path next to the file system is that of the partition it reads, although
\* two scans with different rules look for it, on a disk with one EFI partition among
\* the entries the header counts and none behind them.
FileSystemPath ==
  OneEfi(Entries) =>
    \A h \in Publishing(FileSystem) :
      /\ HardDisk(h).start = db[h][get_protocol(db, h, FileSystem)].interface
      /\ \E k \in Publishing(BlockIo) : DevicePathOf(k) = DevicePathOf(h)

=============================================================================
