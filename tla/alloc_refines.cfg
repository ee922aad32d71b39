SPECIFICATION Spec
CONSTANTS
  PageSize = 2
  HobSize = 1
  MaxAllocations = 4
  LowMemoryTop = 1
  Types <- MCTypes
  Conventional = "Conventional"
  Reserved = "Reserved"
  RuntimeTypes = {"RuntimeData"}
  Regions <- OneRegion
  Requests <- MCRequests
  FreeAddresses <- MCFreeAddresses
  VirtualMaps <- NoMaps
  MaxKey = 4
  MaxPage = 5
PROPERTIES
  ImplementsPagePool
  FreeCoalesces
  KeyGuardsFreeMemory
