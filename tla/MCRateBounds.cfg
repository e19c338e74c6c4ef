CONSTANTS
    t1 = t1  t2 = t2  NoStamp = NoStamp
    Threads <- TwoThreads
    Window = 2  MaxRate = 1  MaxTotal = 2  EstopAfter = 2  MissAfter = 2
    Capacity = 1  Refill = 1
    MaxTime = 4  MaxAttempts = 4  MaxStops = 1  MaxRebinds = 1
SPECIFICATION RateSpec
SYMMETRY ThreadSymmetry
INVARIANTS EnvelopeBound StreakInOneWindow BucketBound MissesLatch
CHECK_DEADLOCK FALSE
