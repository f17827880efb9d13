SPECIFICATION Spec
CONSTANTS
  BYTE = 5
  TOP = 4
  Ints <- MCInts
INVARIANTS
  TypeOK
  StaysInside
  DoesItsJob
