SPECIFICATION FairSpec
CONSTANTS
    Limit = 2
    MaxComments = 3
    MaxMessages = 3
    Env = {}
CHECK_DEADLOCK FALSE
PROPERTIES
    ReplyArrives
    LastWordFirst
