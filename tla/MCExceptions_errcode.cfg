SPECIFICATION Spec
CONSTANTS
  Vectors <- Vector
  MaxDepth = 1
  HALF = 4
  StubAddr <- MCStubAddr
INVARIANT
  ErrorCodeReported
