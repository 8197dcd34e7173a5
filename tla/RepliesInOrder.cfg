SPECIFICATION Spec
CONSTANTS
    Limit = 2
    MaxComments = 3
    MaxMessages = 3
    Env = {"telegram", "zoho", "burst", "skew", "overflow"}
CHECK_DEADLOCK FALSE
PROPERTY
    InOrder
