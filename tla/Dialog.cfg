SPECIFICATION FairSpec
CONSTANTS
    h1 = h1
    h2 = h2
    vps = vps
    billing = billing
    Handlers = {h1, h2}
    Services = {vps, billing}
    Script <- Scripts
    MaxStrays = 1
    MaxFaults = 1
    Env = {"redelivery", "crash", "redis", "telegram", "expiry", "hurry"}
    Yes = Yes
    Restart = Restart
    NoService = NoService
    NoConversation = NoConversation
    Nobody = Nobody
INVARIANTS
    TypeOK
    AnswersFit
    RecordedOnce
    RequestComplete
PROPERTY
    CanFinish
