SPECIFICATION FairSpec
CONSTANTS
    w = w
    p = p
    Callers = {w, p}
    MaxRetries = 1
    MaxRevocations = 1
    MaxFaults = 1
    Env = {"redis", "deadline", "crash"}
    Nobody = Nobody
INVARIANTS
    TypeOK
    FewRequests
PROPERTIES
    CallReturns
    DeadTokenReplaced
