\* Failing effects and crashes together, under fair restarts.
SPECIFICATION FairSpec
CONSTANTS
  N = 3
  Kind <- MCKind
  MaxFaults = 3
  MaxCrashes = 2
  PrepareSyncFails = FALSE
INVARIANTS
  TypeOK
  OriginalKept
  RestoredKept
  NeverMixed
PROPERTIES
  RollbackIsFinal
  Implements
  ComesUp
  PromiseKept
