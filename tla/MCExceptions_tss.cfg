SPECIFICATION Spec
CONSTANTS
  Vectors <- Agreeing
  MaxDepth = 1
  HALF = 4
  StubAddr <- MCStubAddr
INVARIANT
  TSSLoaded
