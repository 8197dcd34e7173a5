SPECIFICATION Spec
CONSTANTS
    c1 = c1
    c2 = c2
    k1 = k1
    k2 = k2
    t1 = t1
    t2 = t2
    Chats = {c1, c2}
    Keys = {k1, k2}
    Tickets = {t1, t2}
    Poison = {}
    MaxModified = 0
    Env = {"crash", "lost", "deadline", "overflow"}
    NoChat = NoChat
    NoKey = NoKey
    NoTicket = NoTicket
SYMMETRY Symmetry
INVARIANTS
    TypeOK
    OneRequestPerChat
    WatchedIsMapped
PROPERTY
    TrackedUntilClosed
