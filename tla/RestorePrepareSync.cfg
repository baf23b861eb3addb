\* A marker written by a PrepareRestore that failed.
SPECIFICATION Spec
CONSTANTS
  N = 2
  Kind <- MCJournalKind
  MaxFaults = 2
  MaxCrashes = 0
  PrepareSyncFails = TRUE
INVARIANT
  DatabaseKept
