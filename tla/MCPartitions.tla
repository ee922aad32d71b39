---------------------------- MODULE MCPartitions ----------------------------
EXTENDS Partitions, PciBus, TLC

\* Entry i of a table; the partitions of a table lie in descending order on the disk.
Entry(kind, i) ==
  [efi |-> kind = "efi", guid |-> IF kind = "unused" THEN NoGuid ELSE i,
   first_lba |-> 100 - 10 * i, last_lba |-> 104 - 10 * i]

Table(kinds, usable, count, signature) ==
  [signature |-> signature, first_usable_lba |-> usable, first_part_lba |-> 2, part_count |-> count,
   entries |-> [l \in 2 .. 4 |-> [k \in 1 .. 2 |-> Entry(kinds[2 * (l - 2) + k], 2 * (l - 2) + k)]]]

\* Every use of the first four entries, with the last two in use or not; a table
\* that is too short and one that is none.
MCTables ==
  {Table(kinds \o rest, 5, count, TRUE) :
     kinds \in [1 .. 4 -> {"unused", "data", "efi"}], count \in {3, 4, 6},
     rest \in {<<"unused", "unused">>, <<"data", "efi">>}}
    \cup {Table([i \in 1 .. 6 |-> "data"], usable, 6, signature) : usable \in {3, 4}, signature \in BOOLEAN}

-----------------------------------------------------------------------------
Virtio(type, bar, offset, next) ==
  [id |-> 9, cfg_type |-> type, bar |-> bar, offset |-> offset, length |-> 8, next |-> next]

Msix(next) == [id |-> 17, next |-> next]

\* The six registers: nothing used but the first two, 64-bit; I/O and 32-bit; a 64-bit one
\* last; two 64-bit ones; one of a type that is reserved.
Registers ==
  {<<36, 3, 0, 0, 0, 0>>, <<33, 48, 64, 80, 0, 0>>, <<49, 32, 0, 0, 84, 1>>, <<36, 1, 52, 2, 0, 96>>,
   <<50, 0, 0, 0, 0, 0>>}

\* Lists of capabilities over a BAR: all three kinds after another capability; two of one
\* kind; an interrupt status region and the mark 0xff; no virtio region; empty; one that
\* comes back to itself; an offset that is not aligned.
Lists(bar) ==
  {[first |-> 64, caps |-> (64 :> Msix(80)) @@ (80 :> Virtio(1, bar, 0, 96)) @@ (96 :> Virtio(4, bar, 16, 112))
                            @@ (112 :> Virtio(2, bar, 32, 0))],
   [first |-> 80, caps |-> (80 :> Virtio(1, bar, 0, 64)) @@ (64 :> Virtio(1, 0, 8, 96)) @@ (96 :> Virtio(2, bar, 4, 0))],
   [first |-> 64, caps |-> (64 :> Virtio(3, bar, 0, 80)) @@ (80 :> Virtio(2, bar, 4, 255))],
   [first |-> 64, caps |-> (64 :> Msix(0))],
   [first |-> 0, caps |-> << >>],
   [first |-> 64, caps |-> (64 :> Virtio(1, bar, 0, 80)) @@ (80 :> Msix(64))],
   [first |-> 66, caps |-> (66 :> Virtio(1, bar, 0, 0))]}

Device(id, registers, list, capabilities) ==
  [id |-> id, bars |-> [b \in Bars |-> registers[b + 1]], list |-> list, first |-> capabilities.first,
   caps |-> capabilities.caps]

Devices == {Device(id, <<36, 3, 0, 0, 0, 0>>, TRUE, [first |-> 64, caps |-> (64 :> Virtio(1, 0, 0, 0))]) : id \in {Block, "other"}}

\* The disk the tables are on.
Disk == Device(Block, <<36, 3, 0, 0, 0, 0>>, TRUE, CHOOSE l \in Lists(0) : Cardinality(DOMAIN l.caps) = 4)

MCBuses ==
  {1 :> Device(Block, registers, list, capabilities) :
     registers \in Registers, list \in BOOLEAN, capabilities \in UNION {Lists(bar) : bar \in 0 .. 6}}
    \cup [{0, 2} -> Devices] \cup [{2} -> Devices] \cup {<< >>} \cup {1 :> Disk}

ATable == Table(<<"efi", "data", "unused", "unused", "unused", "unused">>, 5, 4, TRUE)

MCInit == PartInit /\ PciInit /\ (pci.bus = (1 :> Disk) \/ gpt = ATable)

\* The console is ready before the bus is searched.
FindDisk == phase = "search" /\ PciNext /\ UNCHANGED pvars

\* The disk is read once its registers are known; one bus is enough for the tables.
MCNext ==
  \/ FindDisk
  \/ (phase = "search" => pci.phase = "Ok" /\ pci.bus = (1 :> Disk)) /\ PartNext /\ UNCHANGED pci

MCvars == <<pvars, pci>>

MCSpec == MCInit /\ [][MCNext]_MCvars /\ WF_MCvars(FindDisk)
=============================================================================
