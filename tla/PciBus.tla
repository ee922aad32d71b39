------------------------------- MODULE PciBus -------------------------------
(***************************************************************************)
(* How enter_uefi (src/efi/mod.rs) comes to a disk: search_bus looks for   *)
(* the virtio block device on bus 0, PciDevice::init decodes its base      *)
(* address registers (BARs) and VirtioPciTransport::init walks its list of *)
(* capabilities for the register regions (src/pci.rs).  Each read of the   *)
(* configuration space that decides something is a step.                   *)
(*                                                                         *)
(* The configuration space of a device is what these read of it: the BAR   *)
(* registers as numbers, whether there is a list of capabilities, and the  *)
(* capabilities by offset; every other offset reads as zero.               *)
(***************************************************************************)
EXTENDS Integers, Sequences, FiniteSets

CONSTANTS
  MaxDevices,         \* MAX_DEVICES, 32
  RegisterModulus,    \* registers are u32: 2^32
  Buses,              \* the devices on bus 0 by slot: functions to configurations
  Block,              \* vendor and device id of the virtio block device
  NoRegion            \* MemoryRegion::default()

VARIABLE pci    \* [bus, phase, slot, register, bar, bars, cap, regions]

Bars == 0 .. 5

\* The cfg_type of the capabilities that name a region.
Kinds == {1, 2, 4}

Unused == [type |-> "Unused", address |-> 0]

Config == pci.bus[pci.slot]

\* What a capability list holds at an offset.
CapabilityAt(config, offset) ==
  IF offset \in DOMAIN config.caps THEN config.caps[offset] ELSE [id |-> 0, next |-> 0]

-----------------------------------------------------------------------------
\* A turn of search_bus.  An empty slot reads as all ones.
search_bus ==
  /\ pci.phase = "search"
  /\ pci' = IF pci.slot = MaxDevices THEN [pci EXCEPT !.phase = "none"]
            ELSE IF pci.slot \in DOMAIN pci.bus /\ Config.id = Block THEN [pci EXCEPT !.phase = "bars"]
            ELSE [pci EXCEPT !.slot = @ + 1]

\* A register without its low bits.
Masked(value, n) == n * (value \div n)

\* Mutant of Decode: the upper half is left out.
DecodeLow(config, register) ==
  LET value == config.bars[register]
  IN  IF value % 2 = 1 THEN [type |-> "IoSpace", address |-> Masked(value, 4)]
      ELSE CASE (value \div 2) % 4 = 0 -> [type |-> "MemorySpace32", address |-> Masked(value, 16)]
             [] (value \div 2) % 4 = 2 -> [type |-> "MemorySpace64", address |-> Masked(value, 16)]
             [] OTHER -> [type |-> "Unsupported", address |-> 0]

\* The BAR at a register, as the loop of PciDevice::init reads it.
Decode(config, register) ==
  LET value == config.bars[register]
  IN  IF value % 2 = 1 THEN [type |-> "IoSpace", address |-> Masked(value, 4)]
      ELSE CASE (value \div 2) % 4 = 0 -> [type |-> "MemorySpace32", address |-> Masked(value, 16)]
             [] (value \div 2) % 4 = 2 ->
                  [type |-> "MemorySpace64",
                   address |-> Masked(value, 16) + RegisterModulus * config.bars[register + 1]]
             [] OTHER -> [type |-> "Unsupported", address |-> 0]

\* A turn of the loop of PciDevice::init, which ends before the register at 0x24.  A
\* 64-bit BAR takes two registers and one element of bars.
DecodeBar ==
  LET decoded == Decode(Config, pci.register)
  IN  /\ pci.phase = "bars"
      /\ pci' = IF pci.register >= 5 THEN [pci EXCEPT !.phase = "status"]
                ELSE IF decoded.type = "Unsupported" THEN [pci EXCEPT !.phase = "panic"]
                ELSE [pci EXCEPT !.bars[pci.bar] = decoded, !.bar = @ + 1,
                                 !.register = @ + IF decoded.type = "MemorySpace64" THEN 2 ELSE 1]

\* Bit 4 of the status register.
CheckStatus ==
  /\ pci.phase = "status"
  /\ pci' = IF Config.list THEN [pci EXCEPT !.phase = "walk", !.cap = Config.first]
            ELSE [pci EXCEPT !.phase = "Err"]

\* Mutant of WalkCapability: only a vendor specific capability leads to the next one.
WalkVendorOnly ==
  LET c == CapabilityAt(Config, pci.cap)
      region == [address |-> pci.bars[c.bar].address + c.offset, length |-> c.length]
  IN  /\ pci.phase = "walk"
      /\ pci' = IF pci.cap \in {0, 255} THEN [pci EXCEPT !.phase = "Ok"]
                ELSE IF c.id # 9 THEN pci
                ELSE IF pci.cap % 4 # 0 \/ (c.cfg_type \in Kinds /\ c.bar \notin Bars)
                THEN [pci EXCEPT !.phase = "panic"]
                ELSE IF c.cfg_type \in Kinds
                THEN [pci EXCEPT !.cap = c.next, !.regions[c.cfg_type] = region]
                ELSE [pci EXCEPT !.cap = c.next]

\* A turn of the loop over the capabilities.  Only vendor specific ones are looked at,
\* whose 32-bit reads must be aligned, and the last of a kind counts.
WalkCapability ==
  LET c == CapabilityAt(Config, pci.cap)
      region == [address |-> pci.bars[c.bar].address + c.offset, length |-> c.length]
  IN  /\ pci.phase = "walk"
      /\ pci' = IF pci.cap \in {0, 255} THEN [pci EXCEPT !.phase = "Ok"]
                ELSE IF c.id # 9 THEN [pci EXCEPT !.cap = c.next]
                ELSE IF pci.cap % 4 # 0 \/ (c.cfg_type \in Kinds /\ c.bar \notin Bars)
                THEN [pci EXCEPT !.phase = "panic"]
                ELSE IF c.cfg_type \in Kinds
                THEN [pci EXCEPT !.cap = c.next, !.regions[c.cfg_type] = region]
                ELSE [pci EXCEPT !.cap = c.next]

-----------------------------------------------------------------------------
PciInit ==
  \E bus \in Buses :
    pci = [bus |-> bus, phase |-> "search", slot |-> 0, register |-> 0, bar |-> 0,
           bars |-> [b \in Bars |-> Unused], cap |-> 0, regions |-> [k \in Kinds |-> NoRegion]]

PciNext == search_bus \/ DecodeBar \/ CheckStatus \/ WalkCapability

-----------------------------------------------------------------------------
(* Properties *)

\* The registers that are the upper half of a 64-bit BAR.
UpperHalves(config) ==
  LET Wide(r) == config.bars[r] % 2 = 0 /\ (config.bars[r] \div 2) % 4 = 2
      upper[r \in Bars] == IF r = 0 THEN FALSE ELSE ~ upper[r - 1] /\ Wide(r - 1)
  IN  {r \in Bars : upper[r]}

\* The address the BAR of a register stands for.
BarAddress(config, r) ==
  Masked(config.bars[r], IF config.bars[r] % 2 = 1 THEN 4 ELSE 16)
    + IF r + 1 \in UpperHalves(config) THEN RegisterModulus * config.bars[r + 1] ELSE 0

\* The capabilities of the list, in order, if it ends; at most n of them.
ListOf(config, n) ==
  LET offset[i \in 1 .. n] == IF i = 1 THEN config.first ELSE CapabilityAt(config, offset[i - 1]).next
      Stops == {i \in 1 .. n : offset[i] \in {0, 255}}
      len == (CHOOSE i \in Stops : \A j \in Stops : i <= j) - 1
  IN  IF Stops = {} THEN << >> ELSE [i \in 1 .. len |-> CapabilityAt(config, offset[i])]

Ends(config) ==
  config.first \in {0, 255} \/ ListOf(config, Cardinality(DOMAIN config.caps) + 2) # << >>

\* The region a list gives for a kind: where its last capability of the kind points.
Advertised(config, kind) ==
  LET list == ListOf(config, Cardinality(DOMAIN config.caps) + 2)
      Of == {i \in DOMAIN list : list[i].id = 9 /\ list[i].cfg_type = kind}
      c == list[CHOOSE i \in Of : \A j \in Of : j <= i]
  IN  IF Of = {} THEN NoRegion
      ELSE [address |-> BarAddress(config, c.bar) + c.offset, length |-> c.length]

\* The BARs that capabilities refer to are not the one at 0x24 and no 64-bit BAR comes
\* before them, as on the devices of the hypervisors this firmware is for.
Plain(config) ==
  \A c \in {config.caps[o] : o \in DOMAIN config.caps} :
    c.id = 9 /\ c.cfg_type \in Kinds => c.bar < 5 /\ \A r \in UpperHalves(config) : r > c.bar

\* The driver talks to the first block device on the bus, through the regions that this
\* device advertises: the decoded BARs, the offsets and the last capability of each kind
\* add up.  Without a device nothing is started.
RegionsAdvertised ==
  /\ pci.phase = "none" => \A s \in DOMAIN pci.bus : pci.bus[s].id # Block
  /\ pci.phase = "Ok" =>
       /\ \A s \in DOMAIN pci.bus : pci.bus[s].id = Block => pci.slot <= s
       /\ Plain(Config) => \A k \in Kinds : pci.regions[k] = Advertised(Config, k)
  /\ pci.phase = "Err" => \A k \in Kinds : pci.regions[k] = NoRegion

\* The walk over a list that has an end comes to it.
WalkEnds == (pci.phase = "walk" /\ Ends(Config)) ~> (pci.phase \in {"Ok", "panic"})
=============================================================================
