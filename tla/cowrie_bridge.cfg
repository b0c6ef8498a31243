SPECIFICATION FairSpec
CONSTANTS
    Sids = {s1, s2}
    Empty = Empty
    Halving = TRUE
    MaxInputs = 1
    MaxLines = 4
    MaxCrashes = 1
    MaxRotations = 1
INVARIANTS TypeOK FedOncePerLife NoGaps
PROPERTIES CompletedFed
CHECK_DEADLOCK FALSE
