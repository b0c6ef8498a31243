SPECIFICATION Spec
CONSTANTS
    Sids = {s1}
    Threads = {t1, t2}
    None = None
    MaxCommands = 1
    MaxRetries = 0
    Components <- DeceiverOnly
    Verifying = FALSE
    Concurrent = FALSE
    Tearing = TRUE
    MaxCalls = 1
    MaxFaults = 0
    MaxCrashes = 1
    MaxReads = 0
INVARIANT AlwaysReadable
CHECK_DEADLOCK FALSE
