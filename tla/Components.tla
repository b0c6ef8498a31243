----------------------------- MODULE Components -----------------------------
(***************************************************************************)
(* Components that answer one request at a time or a few: guards, limiters,*)
(* rollout, classifier, feeds, deception, intelligence, escalation. One    *)
(* instance of each, in the state it has in MCServices. They share no      *)
(* state; Edges and Completions have others likewise, so that what is      *)
(* proved of a component is proved where most of the others are out of     *)
(* sight. The theorems are about these instances, for whatever values the  *)
(* constants have.                                                         *)
(***************************************************************************)
EXTENDS Callers, Integers, Sequences, FiniteSets

CONSTANTS
    Reader,         \* those of the callers that classify
    Sids,           \* session ids
    Threshold, Timeout, DailyBudget, MonthlyBudget, MaxCost, DayLength, MaxTicks, MaxGuarded,   \* Guards
    MaxTokens, Refill, MaxClock,                                \* TokenBucket
    StageDuration, MaxHistory, MaxUpdates, MaxLosses,           \* Rollout
    MaxTrainings, MaxClassified, MaxFalls,                      \* Classifier
    Connectors, Since, MaxFetches,                              \* Feeds
    MayExpire, MaxCalls, MaxMemories,                           \* Hisoka
    RateMax, RateWindow, FoundTtps, MaxTime, MaxSteps, MaxEvidence,   \* Intelligence
    Interval, MaxAttempts, MaxHours, MaxEscalations             \* Escalation

VARIABLES
    sessions, expired, histories, engagement, engines, memory, call, forget,
    answers, overlapped, spent,
    clock, breaker, costs, thread, today, raced, guarded,
    now, bucket, asking, allowed, began,
    state, disk, age, saving, verdict, updates, losses,
    mem, files, trainer, reader, result, halved, count,
    seenIds, fetching, handed, fetches,
    moment, stamps, granted, evidence, reply, profile, observed, advice, steps,
    time, lastRequest, poster, released, escalations

-----------------------------------------------------------------------------
Deceive == INSTANCE Hisoka WITH Calls <- Threads
Guard   == INSTANCE Guards
Rate    == INSTANCE TokenBucket WITH Askers <- Threads
Roll    == INSTANCE Rollout WITH Duration <- StageDuration
Model   == INSTANCE Classifier WITH Readers <- Reader
Feed    == INSTANCE Feeds WITH Fetchers <- Threads
Intel   == INSTANCE Intelligence WITH Found <- FoundTtps
Post    == INSTANCE Escalation WITH Posters <- Threads

ASSUME ComponentAssumptions ==
    /\ Guard!GuardsAssumption /\ Rate!BucketAssumption /\ Roll!RolloutAssumption
    /\ Feed!FeedsAssumption /\ Intel!IntelligenceAssumption /\ Post!EscalationAssumption

deceiveVars == <<sessions, expired, histories, engagement, engines, memory, call, forget,
                 answers, overlapped, spent>>
guardVars   == <<clock, breaker, costs, thread, today, raced, guarded>>
rateVars    == <<now, bucket, asking, allowed, began>>
rollVars    == <<state, disk, age, saving, verdict, updates, losses>>
modelVars   == <<mem, files, trainer, reader, result, halved, count>>
feedVars    == <<seenIds, fetching, handed, fetches>>
intelVars   == <<moment, stamps, granted, evidence, reply, profile, observed, advice, steps>>
postVars    == <<time, lastRequest, poster, released, escalations>>
=============================================================================
