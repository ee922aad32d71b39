SPECIFICATION Spec
CONSTANTS
  MaxHandles = 2
  MaxProtocols = 3
  MaxPairs = 2
  Guids = {g1}
  DevicePathGuid = dp
  Interfaces = {i1}
  Paths <- MCPaths
  Asked <- MCAsked
  BufferSizes = {0, 1, 2}
  Stacks <- AnyStack
  Stray = Stray
  Null = Null
  d1 = d1
  d2 = d2
INVARIANTS
  NoHalfInstall
  InstallVisible
  
