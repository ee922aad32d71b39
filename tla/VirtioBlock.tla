---------------------------- MODULE VirtioBlock ----------------------------
(***************************************************************************)
(* The virtio block driver of src/block.rs over the PCI transport of       *)
(* src/pci.rs or the MMIO transport of src/mmio.rs, running concurrently   *)
(* with the device.  enter_uefi (src/efi/mod.rs) initialises the device    *)
(* once, only logs an error, and then sends requests one at a time.        *)
(*                                                                         *)
(* Driver and device share the descriptor table, the rings and the stack   *)
(* objects of the current call (header, data, footer).  A descriptor holds *)
(* the name of the object it points to; when the call returns every        *)
(* address left in the table is "stale".  Each of the driver's stores that *)
(* the device can observe in between is a step of its own.                 *)
(*                                                                         *)
(* The used ring's index is read with read_volatile and the status byte    *)
(* behind an acquire fence on an address that has escaped, so the build    *)
(* reads it after the loop; on x86 stores become visible in program order. *)
(***************************************************************************)
EXTENDS Integers, FiniteSets

CONSTANTS
  QueueSize,      \* QUEUE_SIZE
  IdxModulus,     \* the ring indices are u16: they wrap at 2^16
  Sectors, Values,
  NoReply

ASSUME QueueAssumption ==
  /\ QueueSize \in Nat /\ QueueSize >= 3
  /\ IdxModulus \in Nat /\ IdxModulus > 1 /\ IdxModulus % QueueSize = 0

Descriptors == 0 .. QueueSize - 1
Indices == 0 .. IdxModulus - 1
Ops == {"Read", "Write", "Flush"}
Objects == {"header", "data", "footer"}
DeviceStatuses == {"OK", "IOERR", "UNSUPP", "other"}

VARIABLES
  pc,           \* where the driver is
  host,         \* what the device offers: [transport, caps, features, features_ok, max_queue]
  status,       \* the device status register, a set of flags
  queue,        \* the queue registers: size, enable and the halves of addresses that are
                \* set; and the features the driver accepted
  descriptors, avail, next_head,    \* DriverState
  used_idx,     \* used.idx, written by the device
  memory,       \* the objects of the call: header, data, footer
  kicked,       \* a notification the device has not seen
  dev,          \* the device: [at, last_avail]
  disk,
  reply         \* the last result: [result, data]

driver == <<pc, descriptors, avail, next_head, reply>>
registers == <<host, status, queue>>
bvars == <<driver, registers, used_idx, memory, kicked, dev, disk>>

Goto(from, to) == pc = from /\ pc' = to

-----------------------------------------------------------------------------
(* Initialisation *)

\* The registers of the PCI transport are in the common configuration region, the
\* notification and the capacity in regions of their own; without the capability a region
\* is empty and its bounds assertion panics.  The region of the MMIO transport is always
\* there.
HasRegion == host.transport = "mmio" \/ host.caps \notin {"none", "some"}

HasNotify == host.transport = "mmio" \/ host.caps \in {"no config", "all"}

HasConfig == host.transport = "mmio" \/ host.caps \in {"no notify", "all"}

\* VirtioPciTransport::init: no capability list is an error, a list without the
\* virtio regions is not (PciBus has the walk).
PciTransportInit ==
  /\ pc = "init" /\ host.transport = "pci"
  /\ pc' = IF host.caps = "none" THEN "idle" ELSE "reset"
  /\ UNCHANGED <<descriptors, avail, next_head, reply, registers, used_idx, memory,
                 kicked, dev, disk>>

\* VirtioMMIOTransport::init: the magic value, the version and the device type are read,
\* and each can be wrong.
MmioTransportInit ==
  /\ pc = "init" /\ host.transport = "mmio"
  /\ pc' = IF host.caps \in {"magic", "version", "type"} THEN "idle" ELSE "reset"
  /\ UNCHANGED <<descriptors, avail, next_head, reply, registers, used_idx, memory,
                 kicked, dev, disk>>

\* A register access without the region is a panic.
RegisterPanic ==
  /\ \/ pc = "reset" /\ ~ HasRegion
     \/ pc = "capacity" /\ ~ HasConfig
     \/ pc = "notify" /\ ~ HasNotify
  /\ pc' = "panic"
  /\ UNCHANGED <<descriptors, avail, next_head, reply, registers, used_idx, memory,
                 kicked, dev, disk>>

Register(from, to, newstatus, newqueue) ==
  /\ Goto(from, to)
  /\ status' = newstatus
  /\ queue' = newqueue
  /\ UNCHANGED <<host, descriptors, avail, next_head, reply, used_idx, memory, kicked,
                 dev, disk>>

NoQueue == [size |-> 0, set |-> {}, enable |-> FALSE, features |-> {}]

SetStatusReset == HasRegion /\ Register("reset", "acknowledge", {}, NoQueue)

AddStatus(from, flag, to) == Register(from, to, status \cup {flag}, queue)

\* get_features reads both halves through the select register; without
\* VIRTIO_F_VERSION_1, in the upper one, init fails.
GetFeatures ==
  \/ "VERSION_1" \in host.features /\ Register("features", "set_features", status, queue)
  \/ "VERSION_1" \notin host.features /\ AddStatus("features", "FAILED", "idle")

\* set_features writes both halves of what the device offers and the driver supports.
SetFeatures ==
  Register("set_features", "features_ok", status,
           [queue EXCEPT !.features = host.features \cap {"VERSION_1"}])

\* Mutant of FeaturesOk: the early return after FAILED is missing.
FeaturesOkNoReturn ==
  \/ host.features_ok /\ AddStatus("features_ok", "FEATURES_OK", "queue")
  \/ ~ host.features_ok /\ AddStatus("features_ok", "FAILED", "queue")

\* FEATURES_OK is written and read back: the device clears it when it does not
\* accept the feature set.
FeaturesOk ==
  \/ host.features_ok /\ AddStatus("features_ok", "FEATURES_OK", "queue")
  \/ ~ host.features_ok /\ AddStatus("features_ok", "FAILED", "idle")

SetQueueSize ==
  \/ host.max_queue < QueueSize /\ AddStatus("queue", "FAILED", "idle")
  \/ host.max_queue >= QueueSize
     /\ Register("queue", "desc", status, [queue EXCEPT !.size = QueueSize])

\* A ring's address is one 64-bit write over PCI.
PciSetAddress(from, ring, to) ==
  /\ host.transport = "pci"
  /\ Register(from, to, status, [queue EXCEPT !.set = @ \cup {<<ring, "low">>, <<ring, "high">>}])

\* Over MMIO it is two 32-bit writes, the low half first.
MmioSetAddress(from, ring, to) ==
  /\ host.transport = "mmio"
  /\ \/ /\ <<ring, "low">> \notin queue.set
        /\ Register(from, from, status, [queue EXCEPT !.set = @ \cup {<<ring, "low">>}])
     \/ /\ <<ring, "low">> \in queue.set
        /\ Register(from, to, status, [queue EXCEPT !.set = @ \cup {<<ring, "high">>}])

SetAddress(from, ring, to) == PciSetAddress(from, ring, to) \/ MmioSetAddress(from, ring, to)

SetQueueEnable == Register("enable", "driver_ok", status, [queue EXCEPT !.enable = TRUE])

\* get_capacity, when init has succeeded.
GetCapacity == HasConfig /\ Register("capacity", "idle", status, queue)

DriverInit ==
  \/ PciTransportInit \/ MmioTransportInit
  \/ SetStatusReset
  \/ AddStatus("acknowledge", "ACKNOWLEDGE", "driver")
  \/ AddStatus("driver", "DRIVER", "features")
  \/ GetFeatures \/ SetFeatures
  \/ FeaturesOk
  \/ SetQueueSize
  \/ SetAddress("desc", "descriptors", "avail")
  \/ SetAddress("avail", "avail", "used")
  \/ SetAddress("used", "used", "enable")
  \/ SetQueueEnable
  \/ AddStatus("driver_ok", "DRIVER_OK", "capacity")
  \/ GetCapacity

-----------------------------------------------------------------------------
(* Requests *)

Wrap(i) == i % QueueSize

Descriptor(addr, flags, next) == [addr |-> addr, flags |-> flags, next |-> next]

\* The three descriptors of a request.  A flush leaves the address of the middle
\* one as an earlier request left it.
Chain(op) ==
  LET second == Wrap(next_head + 1)
      third == Wrap(next_head + 2)
  IN  [descriptors EXCEPT
         ![next_head] = Descriptor("header", {"NEXT"}, second),
         ![second] = Descriptor(IF op = "Flush" THEN @.addr ELSE "data",
                                IF op = "Read" THEN {"NEXT", "WRITE"} ELSE {"NEXT"}, third),
         ![third] = Descriptor("footer", {"WRITE"}, 0)]

\* The call, up to the filled in chain: none of it is published yet.
Request(op, sector, data) ==
  /\ Goto("idle", "ring")
  /\ memory' = [header |-> [op |-> op, sector |-> sector], data |-> data, footer |-> "OK"]
  /\ descriptors' = Chain(op)
  /\ reply' = NoReply
  /\ UNCHANGED <<avail, next_head, registers, used_idx, kicked, dev, disk>>

\* Mutant of PublishRing: the ring is indexed by the descriptor.
PublishRingAtHead ==
  /\ Goto("ring", "idx")
  /\ avail' = [avail EXCEPT !.ring[next_head] = next_head]
  /\ UNCHANGED <<descriptors, next_head, reply, registers, used_idx, memory, kicked, dev, disk>>

PublishRing ==
  /\ Goto("ring", "idx")
  /\ avail' = [avail EXCEPT !.ring[Wrap(avail.idx)] = next_head]
  /\ UNCHANGED <<descriptors, next_head, reply, registers, used_idx, memory, kicked, dev, disk>>

PublishIdx ==
  /\ Goto("idx", "notify")
  /\ avail' = [avail EXCEPT !.idx = (@ + 1) % IdxModulus]
  /\ next_head' = Wrap(next_head + 3)
  /\ UNCHANGED <<descriptors, reply, registers, used_idx, memory, kicked, dev, disk>>

\* Mutant of NotifyQueue: the notification is not written.
NotifyNobody ==
  /\ HasNotify
  /\ Goto("notify", "poll")
  /\ UNCHANGED <<descriptors, avail, next_head, reply, registers, used_idx, memory, kicked, dev,
                 disk>>

NotifyQueue ==
  /\ HasNotify
  /\ Goto("notify", "poll")
  /\ kicked' = TRUE
  /\ UNCHANGED <<descriptors, avail, next_head, reply, registers, used_idx, memory, dev, disk>>

\* The polling loop reads an index that is not the one it waits for.
Poll == pc = "poll" /\ used_idx # avail.idx /\ UNCHANGED bvars

\* Mutant of ResultOf: a status the driver does not know counts as success.
ResultOfUnknownOk(footer) ==
  CASE footer = "IOERR" -> "BlockIOError"
    [] footer = "UNSUPP" -> "BlockNotSupported"
    [] OTHER -> "Ok"

ResultOf(footer) ==
  CASE footer = "OK" -> "Ok"
    [] footer = "IOERR" -> "BlockIOError"
    [] OTHER -> "BlockNotSupported"

\* Mutant of Return: the polling loop waits for any completion.
ReturnEarly ==
  /\ used_idx # 0
  /\ Goto("poll", "idle")
  /\ reply' = [result |-> ResultOf(memory.footer), data |-> memory.data]
  /\ descriptors' = [d \in Descriptors |->
       [descriptors[d] EXCEPT !.addr = IF @ \in Objects THEN "stale" ELSE @]]
  /\ UNCHANGED <<avail, next_head, registers, used_idx, memory, kicked, dev, disk>>

Return ==
  /\ used_idx = avail.idx
  /\ Goto("poll", "idle")
  /\ reply' = [result |-> ResultOf(memory.footer), data |-> memory.data]
  /\ descriptors' = [d \in Descriptors |->
       [descriptors[d] EXCEPT !.addr = IF @ \in Objects THEN "stale" ELSE @]]
  /\ UNCHANGED <<avail, next_head, registers, used_idx, memory, kicked, dev, disk>>

Panic == pc = "panic" /\ UNCHANGED bvars

-----------------------------------------------------------------------------
(* The device *)

Live == "DRIVER_OK" \in status /\ queue.enable

\* The device takes the next entry of the available ring, because it was
\* notified or because it polls the ring.
DeviceTake ==
  /\ Live /\ dev.at = "idle"
  /\ kicked' = FALSE
  /\ \/ dev.last_avail # avail.idx /\ dev' = [dev EXCEPT !.at = "taken"]
     \/ dev.last_avail = avail.idx /\ kicked /\ UNCHANGED dev
  /\ UNCHANGED <<driver, registers, used_idx, memory, disk>>

ChainHead == avail.ring[Wrap(dev.last_avail)]

\* It executes the request that the chain from ChainHead describes: it reads the
\* header through the first descriptor, writes the data of a read through the
\* second if that is device writable, and the status through the third.  A write
\* that fails may have reached the disk.
DeviceServe(s) ==
  LET d1 == descriptors[ChainHead]
      d2 == descriptors[d1.next]
      d3 == descriptors[d2.next]
      header == memory[d1.addr]
  IN  /\ dev.at = "taken"
      /\ dev' = [dev EXCEPT !.at = "served"]
      /\ memory' = [o \in Objects |->
           IF o = d3.addr THEN s
           ELSE IF o = d2.addr /\ "WRITE" \in d2.flags /\ s = "OK" THEN disk[header.sector]
           ELSE memory[o]]
      /\ \/ header.op = "Write" /\ disk' = [disk EXCEPT ![header.sector] = memory[d2.addr]]
         \/ ~ (header.op = "Write" /\ s = "OK") /\ UNCHANGED disk
      /\ UNCHANGED <<driver, registers, used_idx, kicked>>

\* It puts the head on the used ring, which the driver does not read, and
\* advances the used index.
DeviceComplete ==
  /\ dev.at = "served"
  /\ dev' = [at |-> "idle", last_avail |-> (dev.last_avail + 1) % IdxModulus]
  /\ used_idx' = (used_idx + 1) % IdxModulus
  /\ UNCHANGED <<driver, registers, memory, kicked, disk>>

-----------------------------------------------------------------------------
BlockInit ==
  /\ pc = "init"
  /\ host \in [transport : {"pci", "mmio"}, caps : {"none", "some", "no notify", "no config", "magic", "version", "type", "all"},
               features : SUBSET {"VERSION_1", "EVENT_IDX"}, features_ok : BOOLEAN,
               max_queue : {QueueSize - 1, QueueSize}]
  /\ host.caps \in IF host.transport = "pci" THEN {"none", "some", "no notify", "no config", "all"}
                   ELSE {"magic", "version", "type", "all"}
  /\ status = {}
  /\ queue = NoQueue
  /\ descriptors = [d \in Descriptors |-> Descriptor("null", {}, 0)]
  /\ avail = [idx |-> 0, ring |-> [i \in Descriptors |-> 0]]
  /\ next_head = 0
  /\ used_idx = 0
  /\ memory \in [header : [op : {"Flush"}, sector : Sectors], data : Values, footer : {"OK"}]
  /\ kicked = FALSE
  /\ dev = [at |-> "idle", last_avail |-> 0]
  /\ disk \in [Sectors -> Values]
  /\ reply = NoReply

DriverStep ==
  \/ DriverInit \/ RegisterPanic
  \/ PublishRing \/ PublishIdx \/ NotifyQueue \/ Return
  \/ Poll \/ Panic

Calls == \E op \in Ops, sector \in Sectors, data \in Values : Request(op, sector, data)

DeviceStep ==
  \/ DeviceTake
  \/ \E s \in DeviceStatuses : DeviceServe(s)
  \/ DeviceComplete

BlockNext == DriverStep \/ Calls \/ DeviceStep

\* The driver runs on; the device acts on a notification and finishes what it
\* has taken.  Nothing makes it poll the ring, and nobody has to call.
Fairness ==
  /\ WF_bvars(DriverStep)
  /\ WF_bvars(kicked /\ DeviceTake)
  /\ WF_bvars(\E s \in DeviceStatuses : DeviceServe(s))
  /\ WF_bvars(DeviceComplete)

BlockSpec == BlockInit /\ [][BlockNext]_bvars /\ Fairness

-----------------------------------------------------------------------------
(* Properties *)

\* The device is live only after a completed init, over either transport: the features
\* are agreed, and none that would change the rings is among them, the queue has its size
\* and both halves of all three addresses, and init has not reported failure.
LiveIsConfigured ==
  "DRIVER_OK" \in status =>
    /\ {"ACKNOWLEDGE", "DRIVER", "FEATURES_OK"} \subseteq status
    /\ "FAILED" \notin status
    /\ queue = [size |-> QueueSize, set |-> {"descriptors", "avail", "used"} \X {"low", "high"},
                enable |-> TRUE, features |-> {"VERSION_1"}]

\* What the device takes from the ring is the whole request the driver is
\* waiting for: header, data and footer of the current call, in that order and
\* with the right direction.  It never follows a descriptor left by an earlier
\* call, whose objects are gone; the middle descriptor of a flush may be one, but
\* is not device writable.  A driver that panics in the notification has its objects
\* still.
TakenIsCurrent ==
  dev.at = "taken" =>
    LET d1 == descriptors[ChainHead]
        d2 == descriptors[d1.next]
        d3 == descriptors[d2.next]
    IN  /\ pc \in {"notify", "poll", "panic"}
        /\ d1.addr = "header" /\ d1.flags = {"NEXT"}
        /\ memory.header.op # "Flush" => d2.addr = "data"
        /\ d2.flags = IF memory.header.op = "Read" THEN {"NEXT", "WRITE"} ELSE {"NEXT"}
        /\ d3.addr = "footer" /\ d3.flags = {"WRITE"}

\* Outside a published request nothing is in flight: the device has taken and
\* completed exactly what was published, across the wrap of the u16 indices, so
\* a completion can never be mistaken for that of a later request.
NothingInFlight ==
  pc \notin {"notify", "poll", "panic"} =>
    dev.at = "idle" /\ dev.last_avail = avail.idx /\ used_idx = avail.idx

\* A request to a device whose init succeeded is answered.
RequestReturns == (pc = "poll" /\ "DRIVER_OK" \in status) ~> (pc = "idle")

Called == pc \in {"ring", "idx", "notify", "poll"} \/ (pc = "panic" /\ avail.idx # 0)
Performed == dev.at = "served" \/ (pc \in {"notify", "poll", "panic"} /\ used_idx = avail.idx)

Store == INSTANCE SectorStore WITH
  phase <- IF ~ Called THEN "idle" ELSE IF Performed THEN "performed" ELSE "called",
  call <- [op |-> memory.header.op, sector |-> memory.header.sector,
           data |-> IF memory.header.op = "Read" THEN NoReply ELSE memory.data]

\* Requests through the queue behave like atomic sector reads and writes: each
\* is performed once, between its call and its return, and a read that returns Ok
\* delivers the sector.
ImplementsSectorStore == Store!Spec
=============================================================================
