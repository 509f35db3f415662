SPECIFICATION Spec
CONSTANTS
  MaxSize = 3
  PackThreshold = 1
  MaxTry = 2
  Leftovers <- MCLeftovers
INVARIANTS
  OutputIsOriginalOrSmaller
  BackupKept
  CandidatesCurrent
  NoPartialCandidate
  TempsRemoved
PROPERTY
  KeepsPromise
