SPECIFICATION Spec
CONSTANTS
  Formats <- WideFormats
  ArgValues = {199}
  WORD = 256
  INT_MOD = 16
  MAX_WIDTH = 4
PROPERTY
  NumbersReadBack
