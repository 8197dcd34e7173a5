SPECIFICATION Spec
CONSTANTS
    MaxRequests = 1
    MaxMessages = 2
    MaxOutages = 1
    Env = {}
    MaxFaults = 0
INVARIANTS
    NotDropped
CHECK_DEADLOCK FALSE
