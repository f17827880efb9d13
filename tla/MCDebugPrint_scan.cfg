SPECIFICATION FairSpec
CONSTANTS
  Formats <- ScanFormats
  ArgValues <- SmallValues
  WORD = 256
  INT_MOD = 16
  MAX_WIDTH = 4
INVARIANTS
  TypeOK
  StaysInFormat
PROPERTIES
  NumbersReadBack
  VprintfEnds
