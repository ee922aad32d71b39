SPECIFICATION MCSpec
CONSTANTS
  SectorSize = 4
  SectorsPerCluster = 2
  PositionModulus = 64
  Clusters = {2, 3, 4, 5, 6, 7, 8, 9}
  EndOfChain = 0
  Beyond = 0
  Fats <- MCFats
  Files <- MCFiles
  ReadSizes = {0, 1, 4, 9, 24}
  SeekTargets = {0, 2, 8, 16, 20}
  Absent = Absent
  Subdirectory = Subdirectory
  Disks <- MCDisks
  ConfigBuffer = 8
  CmdlineMax = 5
  E820 <- MCE820
  MaxLoadAddress = 80
INVARIANTS
  PlaceIsPosition
  ReadDelivers
  
  
PROPERTIES
  
  BootEnds
CHECK_DEADLOCK FALSE
