CONSTANTS
    s1 = s1  s2 = s2  k1 = k1  wd = wd  o1 = o1  o2 = o2  b1 = b1  b2 = b2  i1 = i1  i2 = i2
    Nobody = Nobody
    Senders <- OneSender
    Stoppers <- OneStopper
    Monitor = wd
    Operators <- OneOperator
    Buses <- OneBus
    Ids <- OneId
    Whitelists <- OneWhitelist
    BroadRebinds = TRUE
    MaxCalls = 1
SPECIFICATION FairSpec
PROPERTIES StopReachesSupervisor LeaseEnforced
