SPECIFICATION Spec
CONSTANTS
    Requests = {r1, r2, r3}
    Messages = {m1}
    Unknown = Unknown
    Permits = 2
    RPM = 2
    TPM = 100
    Window = 2
    MaxRetries = 1
    FailureThreshold = 2
    SuccessThreshold = 2
    OpenFor = 1
    Caching = FALSE
    Size = 1
INVARIANTS TypeOK PermitsConserved OvershootBounded ClosedIsFresh
PROPERTIES KeepsBreaker
SYMMETRY Symmetry
