----------------------------- MODULE FatVolume -----------------------------
(***************************************************************************)
(* The layout of a FAT volume: Filesystem::init and next_cluster of        *)
(* src/fat.rs.  h is the header in the boot sector, fs what init keeps of  *)
(* it, disk the bytes of the first FAT by their address in the volume.     *)
(***************************************************************************)
EXTENDS Integers

CONSTANTS
  EndOfChain,    \* EndOfFile, as a cluster number
  Beyond         \* the byte that lies behind the buffer of a sector

fat_type(h) ==
  LET sectors == IF h.legacy_sectors = 0 THEN h.sectors ELSE h.legacy_sectors
      clusters == sectors \div h.sectors_per_cluster
  IN  IF clusters < 4085 THEN "FAT12" ELSE IF clusters < 65525 THEN "FAT16" ELSE "FAT32"

\* root_dir_count * 32 is computed in 16 bits.
first_data_sector(h) ==
  LET sectors_per_fat == IF fat_type(h) = "FAT32" THEN h.sectors_per_fat ELSE h.legacy_sectors_per_fat
      root_dir_sectors ==
        IF fat_type(h) = "FAT32" THEN 0
        ELSE (((h.root_dir_count * 32) % 65536) + h.bytes_per_sector - 1) \div h.bytes_per_sector
  IN  h.reserved_sectors + h.fat_count * sectors_per_fat + root_dir_sectors

\* Filesystem::init: what it keeps of the header.
Mounted(h) ==
  [fat_type |-> fat_type(h), bytes_per_sector |-> h.bytes_per_sector,
   sectors_per_cluster |-> h.sectors_per_cluster, first_fat_sector |-> h.reserved_sectors,
   first_data_sector |-> first_data_sector(h)]

first_sector_of_cluster(fs, cluster) == (cluster - 2) * fs.sectors_per_cluster + fs.first_data_sector

\* The i-th byte from a place in the FAT on, in the buffer of the sector of that place.
ByteFrom(fs, disk, fat_offset, i) ==
  IF (fat_offset % fs.bytes_per_sector) + i < fs.bytes_per_sector
  THEN disk[fs.first_fat_sector * fs.bytes_per_sector + fat_offset + i] ELSE Beyond

U16(fs, disk, fat_offset) == ByteFrom(fs, disk, fat_offset, 0) + 256 * ByteFrom(fs, disk, fat_offset, 1)

\* The entry of a cluster, read from one sector of the FAT; of an entry of FAT12 that
\* straddles two sectors the second half is whatever lies behind the buffer.
FatEntry(fs, disk, cluster) ==
  CASE fs.fat_type = "FAT12" ->
         LET raw == U16(fs, disk, cluster + (cluster \div 2))
         IN  IF cluster % 2 = 0 THEN raw % 4096 ELSE raw \div 16
    [] fs.fat_type = "FAT16" -> U16(fs, disk, cluster * 2)
    [] fs.fat_type = "FAT32" -> (U16(fs, disk, cluster * 4) + 65536 * U16(fs, disk, cluster * 4 + 2)) % 268435456

EndMark(fs) == CASE fs.fat_type = "FAT12" -> 4088 [] fs.fat_type = "FAT16" -> 65528 [] fs.fat_type = "FAT32" -> 268435448

next_cluster(fs, disk, cluster) ==
  LET next == FatEntry(fs, disk, cluster) IN IF next >= EndMark(fs) THEN EndOfChain ELSE next

-----------------------------------------------------------------------------
(* The reference: how a FAT with the given entries lies on the disk, from  *)
(* address at on.                                                          *)
ByteOf(e, i) == (e \div (CASE i = 0 -> 1 [] i = 1 -> 256 [] i = 2 -> 65536 [] i = 3 -> 16777216)) % 256

\* Two entries of FAT12 share three bytes.
Byte12(entry, o) ==
  LET k == o \div 3
  IN  CASE o % 3 = 0 -> entry[2 * k] % 256
        [] o % 3 = 1 -> entry[2 * k] \div 256 + 16 * (entry[2 * k + 1] % 16)
        [] o % 3 = 2 -> entry[2 * k + 1] \div 16

Encoded(type, entry, n, at) ==
  LET width == CASE type = "FAT16" -> 2 [] OTHER -> 4
      byte(o) == IF type = "FAT12" THEN Byte12(entry, o) ELSE ByteOf(entry[o \div width], o % width)
  IN  [a \in at .. at + (IF type = "FAT12" THEN 3 * (n \div 2) ELSE n * width) - 1 |-> byte(a - at)]
=============================================================================
