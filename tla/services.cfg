CONSTANTS
    Threads = {t1, t2}
    Reader  = {t1}
    Sids    = {s1}
    Threshold = 2   Timeout = 1   DailyBudget = 2   MonthlyBudget = 4   MaxCost = 2
    DayLength = 2   MaxTicks = 4  MaxGuarded = 4
    MaxTokens = 2   Refill = 1    MaxClock = 4
    StageDuration = 1   MaxHistory = 4   MaxUpdates = 3   MaxLosses = 1
    MaxTrainings = 2   MaxClassified = 2   MaxFalls = 1
    Situations <- ModeSituations   Experts = {"apt"}   MaxRetries = 2   MaxRuns = 2
    Connectors <- FeedConnectors   Since = {0, 2}   MaxFetches = 3
    RateMax = 1   RateWindow = 2   FoundTtps = {{}, {"T1003"}}   MaxTime = 2   MaxSteps = 3   MaxEvidence = 3
    Interval = 2   MaxAttempts = 2   MaxHours = 6   MaxEscalations = 3
    MayExpire = TRUE   MaxCalls = 2   MaxMemories = 2
    BatchSize = 2   MaxPosted = 2   MaxEvents = 3
    ReplyLines = 2   Permits = 1   GlobalRpm = 1   MaxStreams = 2
    Requests <- ServedRequests   MaxSize = 1   Ttl = 0   MaxWall = 1   MaxRequests = 2
    CacheResponses = TRUE   MonthLength = 1   MaxDays = 1   MaxAsked = 1   MaxPosts = 4
SPECIFICATION Spec
INVARIANTS
    UsesFire CountsEveryUpdate  ForgottenIfTold BudgetKept BlocksAfterFailures
      ScaledAsTrained StagesContained 
    VerifierRestored EvolutionsAgree  FedOnce AnswersAreOwn
PROPERTIES
    NoAdvanceOnRegression DetectionNeverFades NeverLessCautious EvidenceKept 
CHECK_DEADLOCK FALSE
