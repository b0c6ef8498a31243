SPECIFICATION Spec
CONSTANTS
    Sids = {s1}
    Calls = {c1}
    MayExpire = FALSE
    MaxCalls = 2
    MaxMemories = 1
INVARIANTS EveryAnswerInfected
CHECK_DEADLOCK FALSE
