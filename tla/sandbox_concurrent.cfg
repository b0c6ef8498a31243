SPECIFICATION Spec
CONSTANTS
    Sids = {s1}
    Threads = {t1, t2}
    None = None
    MaxCommands = 1
    MaxRetries = 1
    Components <- DeceiverOnly
    Verifying = FALSE
    Concurrent = TRUE
    Tearing = FALSE
    MaxCalls = 3
    MaxFaults = 1
    MaxCrashes = 1
    MaxReads = 1
INVARIANTS  AnswersOnLog EventsNeverAhead
SYMMETRY Symmetry
CHECK_DEADLOCK FALSE
