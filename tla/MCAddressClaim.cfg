CONSTANTS
    Node = {1, 2}
    Addr = {10, 11}
    Fallback = {11}
    Capable = {2}
    Preferred <- AllPreferTen
    Null = 254
    RateLimit = 1
    NoFrame = NoFrame
    MaxEvents = 2  MaxLosses = 1
SPECIFICATION Spec
INVARIANTS DuplicateIsPending
PROPERTIES ClaimedAfterWindow ClaimSettles
CHECK_DEADLOCK FALSE
