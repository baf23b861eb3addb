SPECIFICATION Spec
CONSTANTS
    root = root
    d1 = d1
    d2 = d2
    f1 = f1
    f2 = f2
    Dirs = {root, d1, d2}
    Root = root
    Files = {f1, f2}
    Nowhere = Nowhere
    Twins = {{f1, f2}}
    Starts = {root, d1}
    SkipLists = {{}, {d2}}
    Refused = {{}, {d1}}
    Uploads = FALSE
    MaxMoves = 1
    MaxFaults = 1
    MaxConfigs = 1
INVARIANTS TypeOK ScanMirrors
PROPERTIES StillKept ConfirmedTwice
CHECK_DEADLOCK FALSE
