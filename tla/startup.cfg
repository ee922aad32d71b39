SPECIFICATION MCSpec
CONSTANTS
  MaxHandles = 8
  MaxProtocols = 2
  MaxPairs = 1
  Guids = {}
  DevicePathGuid = dp
  Interfaces = {}
  Paths = {}
  Asked = {}
  BufferSizes = {}
  Stacks = {}
  Stray = Stray
  Null = Null
  PerSector = 2
  MinUsable = 4
  MaxParts = 4
  NoGuid = 0
  Tables <- MCTables
  TextInput = ti
  TextInputEx = tix
  TextOutput = to
  BlockIo = bio
  FileSystem = fs
  Pci = PciNode
  MaxDevices = 3
  RegisterModulus = 256
  Buses <- MCBuses
  Block = "block"
  NoRegion = NoRegion
INVARIANTS
  PartitionsPublished
  
  FileSystemPath
  RegionsAdvertised
PROPERTIES
  WalkEnds
CHECK_DEADLOCK FALSE
