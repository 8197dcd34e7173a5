SPECIFICATION Spec
CONSTANTS
    Limit = 2
    MaxComments = 3
    MaxMessages = 4
    Env = {"crash", "zoho", "redis", "overflow", "expiry"}
CHECK_DEADLOCK FALSE
INVARIANTS
    TypeOK
    MarkerSkipsNothing
