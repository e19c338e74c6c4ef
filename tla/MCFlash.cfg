CONSTANTS
    MaxFlashes = 2  Blocks = 2  SeqMod = 2  Recheck = 1
    Skipped <- AsTheApp
    MaxPolls = 1  MaxCancels = 1  MaxMishaps = 1
SPECIFICATION FairSpec
INVARIANTS CancelHonoured NoBlindReset NoOpenTransfer
PROPERTIES FlashEnds
CHECK_DEADLOCK FALSE
