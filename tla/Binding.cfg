SPECIFICATION Spec
CONSTANTS
    c1 = c1
    c2 = c2
    a1 = a1
    a2 = a2
    t1 = t1
    t2 = t2
    Chats = {c1, c2}
    Accounts = {a1, a2}
    Tokens = {t1, t2}
    MaxChatsPerAccount = 1
    MaxBindAttempts = 1
    MaxCount = 2
    Env = {"zoho", "lost", "redis", "deadline", "crash"}
    MaxFaults = 1
    Forged = Forged
    NoAccount = NoAccount
SYMMETRY Symmetry
INVARIANTS
    TypeOK
    OneRedemption
    KeysNotWasted
    BudgetIntact
    LockoutEnds
CHECK_DEADLOCK FALSE
