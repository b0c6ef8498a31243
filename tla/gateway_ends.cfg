SPECIFICATION FairSpec
CONSTANTS
    Requests = {r1, r2}
    Messages = {m1, m2}
    Unknown = Unknown
    Permits = 1
    RPM = 2
    TPM = 100
    Window = 1
    MaxRetries = 1
    FailureThreshold = 1
    SuccessThreshold = 2
    OpenFor = 0
    Caching = TRUE
    Size = 1
PROPERTIES EveryRequestEnds Recovers
