SPECIFICATION Spec
CONSTANTS
    Requests = {r1, r2}
    Messages = {m1}
    Unknown = Unknown
    Permits = 1
    RPM = 4
    TPM = 4
    Window = 1
    MaxRetries = 0
    FailureThreshold = 1
    SuccessThreshold = 1
    OpenFor = 0
    Caching = FALSE
    Size = 2
INVARIANTS TokensLimited
