CONSTANTS
    c1 = c1
    Callers <- OneCaller
    Timeout = 2  Crashes = TRUE  Suspends = TRUE
    MaxMonitors = 2  MaxArms = 1  MaxPushes = 2
SPECIFICATION FairSpec
INVARIANTS SingleMonitor LeaseNeedsMonitor LeaseFromPulse
PROPERTIES Supervised
CHECK_DEADLOCK FALSE
