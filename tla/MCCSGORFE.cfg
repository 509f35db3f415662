SPECIFICATION Spec
CONSTANTS
  Objects <- MCObjects
  IndexRange = 9
  Reserved = 8
INVARIANTS
  HeadersFitBuffer
  RelocationsKept
  SymbolsKept
  FunctionsWhole
  TiledTextKept
