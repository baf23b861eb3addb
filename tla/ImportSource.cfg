CONSTANTS
  plain = plain
  free = free
  taken = taken
  JobCount = 2
  Names <- AllNames
  Taken <- TakenNames
  Title <- SameTitle
  Attempts = 2
  MaxFaults = 0
  MaxCrashes = 1
  MaxStops = 0
SPECIFICATION Spec
INVARIANTS SourceDurable
CHECK_DEADLOCK FALSE
