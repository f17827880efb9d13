SPECIFICATION Spec
CONSTANTS
  PAGE_SIZE = 2
  ENTRIES = 4
  Frames <- MCFrames
  MemMap <- Memory
  HHDM = 256
  Kernel <- KernelRange
  VirtAddrs <- Low
  RangeSizes = {1}
  FlagSets <- MCFlags
  MaxRoots = 2
  MaxHeld = 1
INVARIANTS
  TypeOK
  TreeShaped
  TLBNeverDangles
  KernelMapped
PROPERTIES
  ImplementsAddressSpace
  FreesOnlyOwned
