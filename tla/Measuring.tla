------------------------------ MODULE Measuring ------------------------------
(***************************************************************************)
(* ragin/cycle/metrics.py: the StageTimer of a call of                     *)
(* process_with_threat_modeling (harness.py:434-459, 533-575), and the     *)
(* MTTATracker that the calls report to.  The times are ticks of the clock.*)
(* One call is timed at a time; a tracker keeps those of all sessions.     *)
(***************************************************************************)
EXTENDS Naturals, Sequences, FiniteSets, SequencesExt, FiniteSetsExt

CONSTANTS
    Sessions,
    Stages,         \* what is timed
    MaxTicks,       \* bound: the clock
    MaxTimed,       \* bound: stages of a call
    MaxInteractions \* bound: calls recorded

VARIABLES
    ticks,          \* the clock
    call,           \* the call under way, [session, from], <<>> for none
    current,        \* _current of the timer: [stage, from], <<>> for None
    timings,        \* _timings: [stage, ms]
    interactions,   \* _interactions: [total, stages, finding] by session
    all             \* _all_interactions, [session, at]: the at-th of the session

vars == <<ticks, call, current, timings, interactions, all>>

Init ==
    /\ ticks = 0 /\ call = <<>> /\ current = <<>> /\ timings = <<>>
    /\ interactions = [s \in Sessions |-> <<>>] /\ all = <<>>

Elapse ==
    /\ ticks < MaxTicks
    /\ ticks' = ticks + 1
    /\ UNCHANGED <<call, current, timings, interactions, all>>

(* _init_timer: the call has a timer of its own.                            *)
Begin(s) ==
    /\ call = <<>> /\ Len(all) < MaxInteractions
    /\ call' = [session |-> s, from |-> ticks]
    /\ timings' = <<>> /\ current' = <<>>
    /\ UNCHANGED <<ticks, interactions, all>>

(* track: a stage that begins within another takes its place.               *)
Track(stage) ==
    /\ call # <<>> /\ Len(timings) < MaxTimed
    /\ current' = [stage |-> stage, from |-> ticks]
    /\ UNCHANGED <<ticks, call, timings, interactions, all>>

(* MUTANT: the stage stays current when it is left. *)
Exit_stays ==
    /\ current # <<>> /\ Len(timings) < MaxTimed
    /\ timings' = Append(timings, [stage |-> current.stage, ms |-> ticks - current.from])
    /\ UNCHANGED <<ticks, call, current, interactions, all>>

(* __exit__, which does nothing for an outer stage whose place was taken.   *)
Exit ==
    /\ current # <<>>
    /\ timings' = Append(timings, [stage |-> current.stage, ms |-> ticks - current.from])
    /\ current' = <<>>
    /\ UNCHANGED <<ticks, call, interactions, all>>

(* record_interaction, by _run_mtta at the end of a call, with the time the *)
(* call took.                                                               *)
RecordInteraction ==
    LET s == call.session IN
    /\ call # <<>>
    /\ interactions' = [interactions EXCEPT ![s] =
          Append(@, [total |-> ticks - call.from, stages |-> timings, finding |-> FALSE])]
    /\ all' = Append(all, [session |-> s, at |-> Len(interactions[s]) + 1])
    /\ call' = <<>> /\ timings' = <<>> /\ current' = <<>>
    /\ UNCHANGED ticks

(* record_finding: the last interaction of the session, if it has one.      *)
RecordFinding(s) ==
    /\ interactions[s] # <<>>
    /\ interactions' = [interactions EXCEPT ![s][Len(interactions[s])].finding = TRUE]
    /\ UNCHANGED <<ticks, call, current, timings, all>>

(* MTTATracker.reset.                                                       *)
Reset ==
    /\ all # <<>>
    /\ interactions' = [s \in Sessions |-> <<>>] /\ all' = <<>>
    /\ UNCHANGED <<ticks, call, current, timings>>

Next ==
    \/ Elapse \/ Exit \/ RecordInteraction \/ Reset
    \/ \E stage \in Stages : Track(stage)
    \/ \E s \in Sessions : Begin(s) \/ RecordFinding(s)
Spec == Init /\ [][Next]_vars

-----------------------------------------------------------------------------
Summed(values) == FoldSeq(LAMBDA x, sum : x + sum, 0, values)
Totals(given)  == [i \in DOMAIN given |-> given[i].total]
Staged(given, stage) ==
    LET of == SelectSeq(FlattenSeq([i \in DOMAIN given |-> given[i].stages]), LAMBDA t : t.stage = stage)
    IN [i \in DOMAIN of |-> of[i].ms]

(* get_session_metrics and get_global_metrics of the interactions given: the*)
(* mean is the MTTA.                                                        *)
Mean(values) == IF values = <<>> THEN 0 ELSE Summed(values) \div Len(values)
Metrics(given) ==
    [count |-> Len(given), total |-> Summed(Totals(given)), mtta |-> Mean(Totals(given)),
     averages |-> [stage \in {t.stage : t \in UNION {ToSet(i.stages) : i \in ToSet(given)}} |-> Mean(Staged(given, stage))]]
SessionMetrics(s) == Metrics(interactions[s])
GlobalMetrics     == Metrics([i \in DOMAIN all |-> interactions[all[i].session][all[i].at]])

(* No moment is counted twice: the stages of a call, nested ones too, take  *)
(* no longer than the call, and so no stage's average is above the longest  *)
(* call's time (metrics.py:135-151, harness.py:434-455).                    *)
TimesAreDisjoint ==
    /\ call # <<>> =>
          Summed([i \in DOMAIN timings |-> timings[i].ms])
              <= (IF current = <<>> THEN ticks ELSE current.from) - call.from
    /\ \A s \in Sessions : \A i \in ToSet(interactions[s]) :
          Summed([j \in DOMAIN i.stages |-> i.stages[j].ms]) <= i.total
    /\ \A s \in Sessions, stage \in Stages : stage \in DOMAIN SessionMetrics(s).averages =>
          \E i \in ToSet(interactions[s]) : SessionMetrics(s).averages[stage] <= i.total

(* What the sessions' metrics say and what the global ones say are of the   *)
(* same interactions: the counts and times add up, and the global MTTA lies *)
(* between those of two sessions (metrics.py:192-232, 234-294).             *)
MetricsAgree ==
    LET sessions == {s \in Sessions : interactions[s] # <<>>}
    IN
    /\ Len(all) = GlobalMetrics.count
    /\ \A s \in Sessions : SessionMetrics(s).count = Len(SelectSeq(all, LAMBDA a : a.session = s))
    /\ GlobalMetrics.total = MapThenSumSet(LAMBDA s : SessionMetrics(s).total, sessions)
    /\ all # <<>> => \E low, high \in sessions :
          SessionMetrics(low).mtta <= GlobalMetrics.mtta /\ GlobalMetrics.mtta <= SessionMetrics(high).mtta
=============================================================================
