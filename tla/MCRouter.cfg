CONSTANTS
    t1 = t1  t2 = t2  r1 = r1  i1 = i1  Nobody = Nobody  NoSub = NoSub
    Routers <- TwoRouters
    Readers <- OneReader
    Ids <- OneId
    Filters <- AllOrNone
    Threshold = 2  TripAfter = 2  QueueSize = 1
    MaxSubs = 1  MaxFrames = 2  MaxReads = 1  MaxRestores = 1
SPECIFICATION Spec
SYMMETRY RouterSymmetry
INVARIANTS FramesConserved StallsBounded
CHECK_DEADLOCK FALSE
