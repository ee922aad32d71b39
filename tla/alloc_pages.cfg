SPECIFICATION Spec
CONSTANTS
  PageSize = 2
  HobSize = 1
  MaxAllocations = 4
  LowMemoryTop = 1
  Types <- MCTypes
  Conventional = "Conventional"
  Reserved = "Reserved"
  RuntimeTypes = {"RuntimeData"}
  Regions <- MCRegions
  Requests <- MCRequests
  FreeAddresses <- MCFreeAddresses
  VirtualMaps <- MCMaps
  MaxKey = 9
  MaxPage = 9
INVARIANTS
  ListedIsInUse
  BlocksDisjoint
  PagesConserved
  LoopsAgree
