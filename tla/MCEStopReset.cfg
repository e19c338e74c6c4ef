CONSTANTS
    c1 = c1  c2 = c2
    Callers <- TwoCallers
    MaxAge = 1  BackoffCap = 2  MaxConsumed = 1
    MaxTime = 2  MaxNonces = 2  MaxFence = 3  MaxAttempts = 1  MaxRevision = 1
    NoChallenge = NoChallenge  NoSig = NoSig  Garbled = Garbled
SPECIFICATION Spec
SYMMETRY CallerSymmetry
INVARIANTS FenceCountsTransitions CredentialNeverLockedOut RotationNoticed
PROPERTIES ReleasedByAuthority
CHECK_DEADLOCK FALSE
