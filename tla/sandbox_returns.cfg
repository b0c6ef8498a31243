SPECIFICATION FairSpec
CONSTANTS
    Sids = {s1}
    Threads = {t1, t2}
    None = None
    MaxCommands = 1
    MaxRetries = 1
    Components <- TwoStages
    Verifying = TRUE
    Concurrent = FALSE
    Tearing = TRUE
    MaxCalls = 2
    MaxFaults = 2
    MaxCrashes = 1
    MaxReads = 1
PROPERTIES CallsReturn
CHECK_DEADLOCK FALSE
