SPECIFICATION FairSpec
CONSTANTS
    c1 = c1
    c2 = c2
    k1 = k1
    k2 = k2
    t1 = t1
    t2 = t2
    Chats = {c1, c2}
    Keys = {k1, k2}
    Tickets = {t1}
    Poison = {k1}
    MaxModified = 2
    Env = {"overflow", "skew", "markerttl"}
    NoChat = NoChat
    NoKey = NoKey
    NoTicket = NoTicket
INVARIANT
    NobodyStranded
PROPERTIES
    QueuedUntilCreated
    PoisonDoesNotBlock
    ClosureReachesChat
