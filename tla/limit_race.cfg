SPECIFICATION Spec
CONSTANTS
    Sids = {s1}
    Threads = {t1, t2}
    None = None
    MaxCommands = 1
    MaxRetries = 0
    Components <- DeceiverOnly
    Verifying = FALSE
    Concurrent = TRUE
    Tearing = FALSE
    MaxCalls = 2
    MaxFaults = 0
    MaxCrashes = 0
    MaxReads = 0
INVARIANT LimitHolds
CHECK_DEADLOCK FALSE
