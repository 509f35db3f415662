SPECIFICATION Spec
CONSTANTS
  Reach = 8
  Length = 5
  Functions <- MCFunctions
INVARIANT
  FormsComplete
