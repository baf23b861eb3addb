SPECIFICATION Spec
CONSTANTS
    Calls = {c1, c2}
    NoCall = NoCall
    MaxAttempts = 2
    MaxUploads = 2
    MaxFailures = 2
INVARIANTS
    TypeOK
    PublishedOnce
CHECK_DEADLOCK FALSE
PROPERTIES
    KeepsOutcome
    TransferSettles
    StagingReturned
