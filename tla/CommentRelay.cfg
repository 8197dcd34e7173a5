SPECIFICATION FairSpec
CONSTANTS
    MaxRequests = 2
    MaxMessages = 2
    MaxOutages = 2
    Env = {"crash", "redis", "lost"}
    MaxFaults = 1
INVARIANTS
    TypeOK
    PostedOnce
    OrderKept
PROPERTY
    EarlyArrives
CHECK_DEADLOCK FALSE
