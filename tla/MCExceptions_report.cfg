SPECIFICATION FairSpec
CONSTANTS
  Vectors <- Agreeing
  MaxDepth = 2
  HALF = 4
  StubAddr <- MCStubAddr
INVARIANTS
  TypeOK
  RegistersReported
  ErrorCodeReported
PROPERTY
  ExceptionHalts
