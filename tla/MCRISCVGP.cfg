SPECIFICATION Spec
CONSTANTS
  Half = 2
  Layouts <- MCLayouts
  RefLists <- MCRefLists
INVARIANTS
  IndicesInRange
  WindowsSeen
  NoWorseThanDefault
  MovedIsBest
