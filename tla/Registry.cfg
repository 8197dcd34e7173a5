SPECIFICATION Spec
CONSTANTS
    c1 = c1
    c2 = c2
    a1 = a1
    a2 = a2
    Chats = {c1, c2}
    Accounts = {a1, a2}
    Talking = {c1}
    MaxChatsPerAccount = 1
    Env = {"zoho", "lost", "redis", "expiry", "dissolve", "crash"}
    MaxFaults = 1
    NoAccount = NoAccount
    AuthUnknown = AuthUnknown
SYMMETRY Symmetry
INVARIANTS
    TypeOK
    OnlyOwnAccount
    LastWordHolds
PROPERTY
    Exclusive
