SPECIFICATION Spec
CONSTANTS
  N = 3
  Section <- MCSection
  Binaries <- MCBinaries
INVARIANTS
  TypeOK
  CanonicalIsOuter
  NoDanglingReference
  
  OutsideReferencesKept
  LiveIsLeast
PROPERTY
  Terminates
