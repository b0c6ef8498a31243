SPECIFICATION FairSpec
CONSTANTS
    Sids = {s1}
    Threads = {t1, t2}
    None = None
    MaxCommands = 2
    MaxRetries = 1
    Components <- DeceiverOnly
    Verifying = TRUE
    Concurrent = FALSE
    Tearing = FALSE
    MaxCalls = 3
    MaxFaults = 1
    MaxCrashes = 1
    MaxReads = 1
INVARIANTS TypeOK LimitHolds
  
CHECK_DEADLOCK FALSE
