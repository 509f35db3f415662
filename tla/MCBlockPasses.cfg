SPECIFICATION Spec
CONSTANTS
  Reg <- MCReg
  Sp = 5
  Gp = 4
  GP = 18
  Page = 8
  Word = 64
  ArgReg = {}
  CallerSaved = {1, 2}
  Addr <- MCAddr
  Units = 4
  Functions <- SoundFunctions
INVARIANTS
  SameBehaviour
  ImmediatesFit
  RememberedTrue
PROPERTY
  PassEnds
