SPECIFICATION Spec
CONSTANTS
  Reg <- MCReg
  Sp = 9
  Page = 4
  Word = 16
  ArgReg = {3}
  CallerSaved = {2, 3}
  ShortImm <- MCShort
  Len0 = 4
  Blocks <- TameBlocks
INVARIANTS
  KnownValuesTrue
  SameBehaviour
