SPECIFICATION Spec
CONSTANTS
  PAGE_SIZE = 2
  INT_MOD = 1000000
  HHDM = 1000
  MemMaps <- MCMaps
  Requests <- AllocRequests
  Frees <- AllocFrees
INVARIANTS
  TypeOK
  Conservation
  BitmapIntact
  BootFailsOnlyWithoutRoom
PROPERTIES
  FreedPagesPoisoned
  ImplementsAllocator
