SPECIFICATION ImageSpec
CONSTANTS
  MaxHandles = 4
  MaxProtocols = 3
  MaxPairs = 1
  Guids = {fs}
  DevicePathGuid = dp
  Interfaces = {i1}
  Paths = {}
  Asked = {}
  BufferSizes = {}
  Stacks = {}
  Stray = Stray
  Null = Null
  ImageInfoGuid = info
  LoadedImageGuid = image
  FileSystemGuid = fs
  Sources <- MCSources
  Bases = {3, 20}
  Old = 1
  Cell = 2
  DosHeader = 1
  NtHeader = 2
  OptionalOffset = 1
  SectionHeader = 1
  BlockHeader = 2
  ImagePaths <- MCImagePaths
  MaxImages = 2
  disk = disk
  file = file
INVARIANTS
  StartRunsLoaded
  NoHalfImages
  DeviceHandles
  
CHECK_DEADLOCK FALSE
