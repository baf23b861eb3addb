\* A crawled video, a file of the owner with the same content on the target, and
\* file IDs for two uploads.
SPECIFICATION Spec
CONSTANTS
    v1 = v1
    x = x
    c1 = c1
    c2 = c2
    Crawled = {v1}
    Foreign = {x}
    Copies = {c1, c2}
    Nothing = Nothing
    MaxFaults = 1
    MaxDeletes = 1
INVARIANTS TypeOK CopyKept OneCopyPerName AliasResolves
PROPERTIES LeftoverSwept
CHECK_DEADLOCK FALSE
