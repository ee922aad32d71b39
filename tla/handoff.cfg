SPECIFICATION MCSpec
CONSTANTS
  PageSize = 2
  HobSize = 1
  MaxAllocations = 6
  LowMemoryTop = 1
  Types = {"Reserved", "Conventional", "Data", "RuntimeData", "BootData", "LoaderData"}
  Conventional = "Conventional"
  Reserved = "Reserved"
  RuntimeTypes = {"RuntimeData"}
  Regions <- MCRegions
  Requests = {}
  FreeAddresses = {}
  VirtualMaps = {}
  MaxKey = 9
  AddressModulus = 256
  FfsAlign = 4
  FfsHeader = 6
  SectionAlign = 2
  SectionHeader = 2
  HobLists <- MCHobLists
  Other <- MCOther
  BootServicesData = "BootData"
  LoaderData = "LoaderData"
  MaxWrappers = 1
  Null = Null
  DescriptorSize = 1
  Slack = 1
  PoolSizes = {1, 3}
  MaxOwned = 2
INVARIANTS
  LoaderFound
  MemoryKept
  MapUsable
PROPERTIES
  SearchEnds
CHECK_DEADLOCK FALSE
