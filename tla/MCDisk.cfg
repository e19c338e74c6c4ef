CONSTANTS
    t1 = t1  t2 = t2  Worker = Worker  NoChunk = NoChunk  Sentinel = Sentinel
    Appenders <- TwoThreads  Owners <- OneThread
    Threshold = 2  MaxReadFrames = 2  QueueSize = 1  MaxDisk = 1  Faults = TRUE
    MaxFrames = 3  MaxClears = 1  MaxRestarts = 1
SPECIFICATION FairSpec
INVARIANTS FrameLedger StoredInOrder DrainIsDurable NothingStranded
PROPERTIES WrittenWhileOpen
CHECK_DEADLOCK FALSE
