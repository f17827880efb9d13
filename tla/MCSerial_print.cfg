SPECIFICATION FairSpec
CONSTANTS
  Chars <- MCChars
  MaxChars = 4
  FIFO = 2
INVARIANTS
  TypeOK
  NothingLost
PROPERTY
  AllSent
