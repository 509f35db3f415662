SPECIFICATION LoopSpec
CONSTANTS
  Half = 2
  Layouts <- NoLayouts
  RefLists <- NoRefs
  Programs <- MCPrograms
  TextBase = 4
  CallReach = 6
  MaxPass = 30
INVARIANT RelaxationConverges
