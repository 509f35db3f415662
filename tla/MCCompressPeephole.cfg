SPECIFICATION Spec
CONSTANTS
  Reach = 8
  Length = 5
  Functions <- MCFunctions
INVARIANTS
  CompressedInReach
  FormsExecuteSame
  NoFurtherFits
PROPERTY
  Terminates
