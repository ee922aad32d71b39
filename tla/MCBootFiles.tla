---------------------------- MODULE MCBootFiles ----------------------------
(***************************************************************************)
(* Two independent uses of the file system in one model: a caller of the   *)
(* file protocol reads and seeks in a file (phase "protocol"), or the      *)
(* loader runs.                                                            *)
(***************************************************************************)
EXTENDS BootFiles

Header(sectors, legacy_sectors, legacy_sectors_per_fat, sectors_per_fat) ==
  [bytes_per_sector |-> 4, sectors_per_cluster |-> 2, reserved_sectors |-> 1, fat_count |-> 2,
   root_dir_count |-> 1, sectors |-> sectors, legacy_sectors |-> legacy_sectors,
   legacy_sectors_per_fat |-> legacy_sectors_per_fat, sectors_per_fat |-> sectors_per_fat]

\* A volume of each type, with entries of its width; the FAT lies in sector 1.
Volume(type, header, mark, data_start, chain) ==
  LET entry == [c \in 0 .. 9 |-> IF c \in Clusters /\ chain[c] # EndOfChain THEN chain[c] ELSE mark]
  IN  [header |-> header, bytes |-> Encoded(type, entry, 10, 4), chain |-> chain, data_start |-> data_start]

Fat16(chain) == Volume("FAT16", Header(10000, 0, 5, 0), 65528, 19, chain)

\* Two and three clusters from 3 on, in and out of order.  No entry of the FAT12 volume
\* straddles two sectors.
Chains == {[c \in Clusters |-> CASE c = 3 -> 6 [] c = 6 -> 7 [] OTHER -> EndOfChain],
           [c \in Clusters |-> IF c = 3 THEN 4 ELSE EndOfChain]}

\* The chains 2; 3; 4, 7, 5, 6; 8, 9 of the loader's files - whole, or with the
\* kernel's cut short.
Boot == [c \in Clusters |-> CASE c = 4 -> 7 [] c = 7 -> 5 [] c = 5 -> 6 [] c = 8 -> 9 [] OTHER -> EndOfChain]

BootChains == {Boot, [Boot EXCEPT ![5] = EndOfChain], [Boot EXCEPT ![7] = EndOfChain]}

MCFats ==
  {Fat16(chain) : chain \in Chains \cup BootChains}
    \cup UNION {{Volume("FAT12", Header(0, 100, 4, 0), 4095, 17, chain),
                 Volume("FAT32", Header(140000, 0, 0, 9), 536870911, 19, chain)} : chain \in Chains}

MCFiles == [start : {3}, size : {0, 1, 8, 13, 22, 31}]

File(start, sizes) == [start : {start}, size : sizes]

Good == [conf : File(2, {4}), entry : File(3, {1}), kernel : File(4, {2, 8, 20, 26, 32}),
         initrd : File(8, {0, 6, 8, 14}) \cup {Absent},
         header : {"Good"}, setup_sects : {0, 1, 2}, cmdline : {0, 2, 3}]

Odd == [conf : File(2, {4, 6, 10}) \cup {Absent, Subdirectory}, entry : File(3, {1, 8}) \cup {Absent},
        kernel : File(4, {26}) \cup {Absent, Subdirectory}, initrd : {Absent, Subdirectory},
        header : {"Good", "MagicMissing", "KernelOld", "NotRelocatable"},
        setup_sects : {1}, cmdline : {0}]

MCDisks == Good \cup Odd

MCE820 == {[addr |-> 0, size |-> 17, ram |-> TRUE], [addr |-> 32, size |-> 16, ram |-> TRUE],
           [addr |-> 48, size |-> 16, ram |-> FALSE], [addr |-> 64, size |-> 64, ram |-> TRUE]}

MCInit ==
  \/ BootInit /\ fat.chain \in BootChains
  \/ /\ Init /\ fat.chain \in Chains
     /\ phase = "protocol" /\ disk = CHOOSE d \in Good : TRUE
     /\ mem = NothingRead /\ zero_page = BootParams

Caller == phase = "protocol" /\ Next /\ UNCHANGED <<disk, phase, mem, zero_page>>

MCSpec == MCInit /\ [][Caller \/ BootNext]_bvars /\ Fairness /\ WF_bvars(BootNext)
=============================================================================
