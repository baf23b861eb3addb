SPECIFICATION Spec
CONSTANTS
    root = root
    d1 = d1
    d2 = d2
    f1 = f1
    f2 = f2
    Dirs = {root, d1, d2}
    Root = root
    Files = {f1, f2}
    Nowhere = Nowhere
    Twins = {{f1, f2}}
    Starts = {root, d1}
    SkipLists = {{}, {d2}}
    Refused = {{}}
    Uploads = TRUE
    MaxMoves = 1
    MaxFaults = 0
    MaxConfigs = 0
PROPERTIES StillKept
CHECK_DEADLOCK FALSE
