CONSTANTS
    p1 = p1  p2 = p2
    Source = {1}
    Pgn = {p1, p2}
    Packets <- MCPackets
    MaxPerCts = 255
    Window = 2  Cap = 2
    T1 = 0  T2 = 0  T3 = 0  T4 = 0
    MaxPerSa = 1  MaxSessions = 1
    Burst = 1  StormWindow = 0
    MaxTx = 2  MaxHold = 1  HoldWindow = 0  MaxRewind = 1
    Parallel = FALSE
    NoTx = NoTx
    Stray <- MCStray
    MaxTransfers = 3  MaxFaults = 1  MaxFlight = 2
SYMMETRY Pgns
SPECIFICATION Spec
INVARIANTS WholeTransfers AckedIsDelivered NoSilentStall SlotsExact
CHECK_DEADLOCK FALSE
