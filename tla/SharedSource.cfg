\* The instance of VideoLibrary.cfg without faults.
SPECIFICATION Spec
CONSTANTS
    v1 = v1
    x = x
    c1 = c1
    c2 = c2
    Crawled = {v1}
    Foreign = {x}
    Copies = {c1, c2}
    Nothing = Nothing
    MaxFaults = 0
    MaxDeletes = 0
PROPERTIES SharedSourceKept
CHECK_DEADLOCK FALSE
