------------------------------ MODULE Rollout ------------------------------
(***************************************************************************)
(* rollout/: RolloutManager takes a new version through the stages of a    *)
(* rollout.  Its state is a dict that every operation rewrites whole in a  *)
(* file, which a crash in between leaves cut short.                        *)
(*                                                                         *)
(* Durations and sample sizes are in steps: a stage i needs Duration of    *)
(* time and i sample steps.  Of a comparison the model keeps which of its  *)
(* deltas pass the limits of the stage.                                    *)
(***************************************************************************)
EXTENDS Naturals, Sequences, SequencesExt, FiniteSetsExt

CONSTANTS
    Duration,       \* duration_hours
    MaxHistory,     \* bound: moves between stages
    MaxUpdates,     \* bound: comparisons
    MaxLosses       \* bound: crashes

RolloutAssumption == {Duration, MaxHistory, MaxUpdates, MaxLosses} \subseteq Nat

VARIABLES
    state,          \* _state of the manager, or Gone when none runs
    disk,           \* the state file: a state, Absent or Torn
    age,            \* time since stage_started_at, up to Duration
    saving,         \* _save_state has truncated the file and not written it
    verdict,        \* history: what the last comparison found, if it was kept
    updates, losses \* bounds used up

vars == <<state, disk, age, saving, verdict, updates, losses>>

Stages == <<"shadow", "canal", "half", "full", "cleanup">>
Number(stage) == CHOOSE i \in DOMAIN Stages : Stages[i] = stage

Absent == [stage |-> "absent"]
Torn   == [stage |-> "torn"]
Gone   == [stage |-> "gone"]

New(stage, history) == [stage |-> stage, history |-> history, samples |-> 0, recommended |-> FALSE]

(* min_sample_size grows with the stage (_load_thresholds, thresholds.yml). *)
MinSamples(stage) == Number(stage)
AllSamples == 0 .. Len(Stages)

(* compare_groups gives the error rate, the p99 latency and the cost; only  *)
(* the first two are held against a limit.                                  *)
Metrics == {"error_rate", "latency_p99_ms", "cost_usd"}

(* MUTANT: a regression counts when all of the limits are passed. *)
RollbackRecommended_all(exceeded) == {"error_rate", "latency_p99_ms"} \subseteq exceeded

RollbackRecommended(exceeded) == exceeded \cap {"error_rate", "latency_p99_ms"} # {}

Init ==
    /\ state = New("shadow", <<>>) /\ disk = Absent
    /\ age = 0 /\ saving = FALSE /\ verdict = "none"
    /\ updates = 0 /\ losses = 0

Running == state # Gone /\ ~saving

Wait ==
    /\ Running /\ age < Duration
    /\ age' = age + 1
    /\ UNCHANGED <<state, disk, saving, verdict, updates, losses>>

(* Every operation that changes the state begins to save it: write_text     *)
(* truncates the file.                                                      *)
Change(s) == state' = s /\ disk' = Torn /\ saving' = TRUE

Saved ==
    /\ saving
    /\ disk' = state /\ saving' = FALSE
    /\ UNCHANGED <<state, age, verdict, updates, losses>>

UpdateMetrics ==
    /\ Running /\ updates < MaxUpdates
    /\ updates' = updates + 1
    /\ \E exceeded \in SUBSET Metrics, samples \in AllSamples :
          /\ Change([state EXCEPT !.samples = samples, !.recommended = RollbackRecommended(exceeded)])
          /\ verdict' = IF exceeded \subseteq {"cost_usd"} THEN "good" ELSE "bad"
    /\ UNCHANGED <<age, losses>>

(* is_ready_to_advance                                                      *)
Ready ==
    /\ state.stage # "cleanup"
    /\ age >= Duration
    /\ ~state.recommended
    /\ state.samples >= MinSamples(state.stage)

(* MUTANT: a stage is left without a note of it in the history. *)
Move_unrecorded(to) ==
    /\ Len(state.history) < MaxHistory
    /\ Change([state EXCEPT !.stage = to])
    /\ age' = 0
    /\ UNCHANGED <<verdict, updates, losses>>

(* The samples and the recommendation of the stage that is left stay in the *)
(* state.                                                                   *)
Move(to) ==
    /\ Len(state.history) < MaxHistory
    /\ Change([state EXCEPT !.stage = to, !.history = Append(@, <<state.stage, to>>)])
    /\ age' = 0
    /\ UNCHANGED <<verdict, updates, losses>>

Advance  == Running /\ Ready /\ Move(Stages[Number(state.stage) + 1])
Rollback == Running /\ Number(state.stage) > 1 /\ Move(Stages[Number(state.stage) - 1])

Crash ==
    /\ state # Gone /\ losses < MaxLosses
    /\ losses' = losses + 1
    /\ state' = Gone /\ saving' = FALSE
    /\ UNCHANGED <<disk, age, verdict, updates>>

(* MUTANT: of a file that is there only the stage is taken. *)
Restart_stage_only ==
    /\ state = Gone
    /\ IF disk \in {Absent, Torn}
       THEN state' = New("shadow", <<>>) /\ age' = 0 /\ verdict' = "none"
       ELSE state' = New(disk.stage, <<>>) /\ UNCHANGED <<age, verdict>>
    /\ UNCHANGED <<disk, saving, updates, losses>>

(* _load_state: a file that does not parse is as good as none.              *)
Restart ==
    /\ state = Gone
    /\ IF disk \in {Absent, Torn}
       THEN state' = New("shadow", <<>>) /\ age' = 0 /\ verdict' = "none"
       ELSE state' = disk /\ UNCHANGED <<age, verdict>>
    /\ UNCHANGED <<disk, saving, updates, losses>>

Next == Wait \/ Saved \/ UpdateMetrics \/ Advance \/ Rollback \/ Crash \/ Restart
Spec == Init /\ [][Next]_vars

-----------------------------------------------------------------------------
(* The stage is where the history leads, one neighbouring stage at a time   *)
(* from shadow, and a crash at any point of a save keeps the two together   *)
(* or starts both over (manager.py:40-82, 175-190).                         *)
HistoryLeadsToStage ==
    state # Gone =>
        LET h == state.history IN
        /\ state.stage = IF h = <<>> THEN "shadow" ELSE Last(h)[2]
        /\ \A i \in DOMAIN h :
              /\ h[i][1] = IF i = 1 THEN "shadow" ELSE h[i - 1][2]
              /\ Number(h[i][2]) \in {Number(h[i][1]) - 1, Number(h[i][1]) + 1}

(* No stage is left for the next one while the last comparison that was     *)
(* made asks for a rollback, whatever rollbacks and restarts came between,  *)
(* nor before the stage has lasted (manager.py:134-158).                    *)
NoAdvanceOnRegression ==
    [][state # Gone /\ state' # Gone /\ Number(state'.stage) > Number(state.stage)
         => verdict # "bad" /\ age = Duration]_<<state, age, verdict>>
=============================================================================
