\* Four tasks compete for one to three slots: more tasks than slots at every limit.
SPECIFICATION LimiterSpec
CONSTANTS
    Tasks = {t1, t2, t3, t4}
    MaxLimit = 3
INVARIANTS
    LimiterTypeOK
    SlotsAccounted
    QueueAccounted
    NoIdleSlot
PROPERTIES
    GrantsWithinLimit
    ArrivalOrder
    EveryCallReturns
