SPECIFICATION FairSpec
CONSTANTS
    Sids = {s1}
    Empty = Empty
    Halving = FALSE
    MaxInputs = 1
    MaxLines = 3
    MaxCrashes = 1
    MaxRotations = 0
PROPERTIES FedAfterCrash
CHECK_DEADLOCK FALSE
