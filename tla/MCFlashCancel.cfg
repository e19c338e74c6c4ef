CONSTANTS
    MaxFlashes = 1  Blocks = 2  SeqMod = 2  Recheck = 1
    Skipped <- AsTheApp
    MaxPolls = 1  MaxCancels = 1  MaxMishaps = 1
SPECIFICATION FairSpec
PROPERTIES CancelledFlashEnds
CHECK_DEADLOCK FALSE
