SPECIFICATION BootSpec
CONSTANTS
  PAGE_SIZE = 2
  INT_MOD = 1000000
  HHDM = 256
  MemMaps <- MCMemMaps
  Requests = {1, 2}
  Frees = {}
  ENTRIES = 4
  KHEAP_INIT_PAGES = 2
  Loaders <- MCLoaders
INVARIANTS
  BootTypeOK
  PagesApart
  FaultsOnlyUnanswered
  ListedApart
PROPERTY
  BootEnds
