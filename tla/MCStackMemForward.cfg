SPECIFICATION Spec
CONSTANTS
  Reg <- MCReg
  Sp = 2
  Page = 4096
  Word = 65536
  ArgReg = {1}
  CallerSaved = {1}
  Len0 = 4
  Inputs <- SoundInputs
INVARIANTS
  WalkInBlock
  MapsTrue
  SameBehaviour
