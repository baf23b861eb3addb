CONSTANTS
  plain = plain
  free = free
  taken = taken
  JobCount = 2
  Names <- AllNames
  Taken <- TakenNames
  Title <- SameTitle
  Attempts = 2
  MaxFaults = 1
  MaxCrashes = 1
  MaxStops = 1
SPECIFICATION FairSpec
INVARIANTS TypeOK CompletedOnce CancelHolds NoOrphan
PROPERTIES FirstCleanupSafe QueueDrains
CHECK_DEADLOCK FALSE
