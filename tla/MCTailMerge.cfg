SPECIFICATION Spec
CONSTANTS
  Functions <- MCFunctions
  Size <- MCSize
  Return = {"ret"}
  Call = {"call"}
  Symbolic = {}
  BranchSize = 4
  MaxSuffix = 3
INVARIANTS
  TraceKept
  MergingPays
  NothingLeft
