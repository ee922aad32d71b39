SPECIFICATION Spec
CONSTANTS
  SlotsPerSector = 2
  SectorsPerCluster = 2
  EndOfChain = 1
  NoCluster = NoCluster
  MaxPieces = 2
  FixedSize = 2
  InfoSizes = {4, 5}
  Disks <- MCDisks16
  Paths <- MCPaths
  Handles = {h1, h2}
  Null = Null
INVARIANT
  ListsDirectory
CHECK_DEADLOCK FALSE
