SPECIFICATION FairSpec
CONSTANTS
    plain = plain  small = small  large = large
    Request <- ThreeRequests
    Size <- Sizes
    MaxPending = 1
    MaxBytes = 1
    MaxTombstones = 1
    BodyTimeout = 0
    TombstoneTTL = 1
    Window = 1
    MaxQueued = 2
INVARIANTS CancelHonoured BytesExact NoSilentLoss
PROPERTIES UploadsReclaimed
CHECK_DEADLOCK FALSE
