SPECIFICATION FairSpec
CONSTANTS
  PAGE_SIZE = 128
  KHEAP_INIT_PAGES = 1
  HDR = 32
  WORD = 1024
  INT_MOD = 1024
  Pages <- HeapPool
  Sizes <- SmallSizes
  OtherRequests = {1}
INVARIANTS
  TypeOK
  ListLinked
  BlocksTileHeap
  UsedMeansHeld
  Coalesced
  RecursesOnce
PROPERTIES
  WritesStayHome
  ImplementsHeap
  KmallocEnds
