------------------------------- MODULE Guards -------------------------------
(***************************************************************************)
(* ragin/utils.py: CostTracker and CircuitBreaker, as worker threads use   *)
(* them around a call of a model (hisoka/deceiver.py:81, rag_engine.py:254)*)
(* check_budget, allow, the call, then record and the outcome.  Each       *)
(* method is one critical section, but for _maybe_reset_daily, which reads *)
(* the boundary before it takes the lock.                                  *)
(*                                                                         *)
(* Time is in ticks; a day is DayLength of them.                           *)
(***************************************************************************)
EXTENDS Naturals, FiniteSets

CONSTANTS
    Threads,
    Threshold,      \* failures that open the breaker
    Timeout,        \* ticks it stays open
    DailyBudget,    \* refused from here on, until the next day
    MonthlyBudget,  \* refused from here on
    MaxCost,        \* the largest cost of a call
    DayLength,
    MaxTicks,       \* bound: the clock
    MaxGuarded      \* bound: calls

GuardsAssumption ==
    /\ {Threshold, Timeout, DailyBudget, MonthlyBudget, DayLength} \subseteq Nat \ {0}
    /\ IsFiniteSet(Threads) /\ MaxCost \in Nat /\ MaxTicks \in Nat /\ MaxGuarded \in Nat

VARIABLES
    clock,
    breaker,        \* _state, _fail_count and _last_failure
    costs,          \* _total_cost, _daily_cost, and the day of _daily_reset
    thread,         \* thread[t]: where it is, and the cost it will record
    today,          \* history: cost recorded on this day
    raced,          \* history: this day was reset twice, or began during a record
    guarded         \* bound: calls begun

vars == <<clock, breaker, costs, thread, today, raced, guarded>>

Day(now) == now \div DayLength
NotIn    == [pc |-> "out", cost |-> 0]

Init ==
    /\ clock = 0 /\ breaker = [state |-> "closed", fails |-> 0, last |-> 0]
    /\ costs = [total |-> 0, daily |-> 0, boundary |-> 1]
    /\ thread = [t \in Threads |-> NotIn]
    /\ today = 0 /\ raced = FALSE /\ guarded = 0

At(t, pc) == thread[t].pc = pc
Go(t, pc) == thread' = [thread EXCEPT ![t].pc = pc]
Leave(t)  == thread' = [thread EXCEPT ![t] = NotIn]

Tick ==
    /\ clock < MaxTicks
    /\ clock' = clock + 1
    /\ today' = IF Day(clock') = Day(clock) THEN today ELSE 0
    /\ raced' = IF Day(clock') = Day(clock) THEN raced ELSE \E t \in Threads : thread[t].pc = "record"
    /\ UNCHANGED <<breaker, costs, thread, guarded>>

(* The start of check_budget, and of record: whether the day is over is     *)
(* read here, and the counter reset in a critical section of its own.       *)
Begin(t) ==
    /\ At(t, "out") /\ guarded < MaxGuarded
    /\ guarded' = guarded + 1
    /\ Go(t, IF Day(clock) >= costs.boundary THEN "reset_check" ELSE "check")
    /\ UNCHANGED <<clock, breaker, costs, today, raced>>

Reset(t, after) ==
    /\ costs' = [costs EXCEPT !.daily = 0, !.boundary = Day(clock) + 1]
    /\ raced' = (raced \/ costs.boundary > Day(clock))
    /\ Go(t, after)
    /\ UNCHANGED <<clock, breaker, today, guarded>>

(* A second reset on a day loses what was added before it.                  *)
Resets(t) == \/ At(t, "reset_check")  /\ Reset(t, "check")
             \/ At(t, "reset_record") /\ Reset(t, "record")

(* MUTANT: a budget that is used up exactly is not exhausted. *)
WithinBudget_at_most == costs.daily <= DailyBudget /\ costs.total < MonthlyBudget

WithinBudget == costs.daily < DailyBudget /\ costs.total < MonthlyBudget

Check(t) ==
    /\ At(t, "check")
    /\ IF WithinBudget THEN Go(t, "allow") ELSE Leave(t)
    /\ UNCHANGED <<clock, breaker, costs, today, raced, guarded>>

Cooled == clock - breaker.last >= Timeout

(* MUTANT: an open breaker lets a call through without a pause. *)
Allow_forgets_timeout(t) ==
    /\ At(t, "allow")
    /\ breaker' = IF breaker.state = "open" THEN [breaker EXCEPT !.state = "half_open"] ELSE breaker
    /\ Go(t, "call")
    /\ UNCHANGED <<clock, costs, today, raced, guarded>>

(* allow: half open lets every call through.                                *)
Allow(t) ==
    /\ At(t, "allow")
    /\ breaker' = IF breaker.state = "open" /\ Cooled
                  THEN [breaker EXCEPT !.state = "half_open"] ELSE breaker
    /\ IF breaker'.state = "open" THEN Leave(t) ELSE Go(t, "call")
    /\ UNCHANGED <<clock, costs, today, raced, guarded>>

(* record_failure                                                           *)
Fails(t) ==
    /\ At(t, "call")
    /\ breaker' = [state |-> IF breaker.fails + 1 >= Threshold THEN "open" ELSE breaker.state,
                   fails |-> breaker.fails + 1, last |-> clock]
    /\ Leave(t)
    /\ UNCHANGED <<clock, costs, today, raced, guarded>>

(* MUTANT: the cost is added without a look at the boundary. *)
Succeeds_skips_reset(t) ==
    /\ At(t, "call")
    /\ \E c \in 0 .. MaxCost : thread' = [thread EXCEPT ![t] = [pc |-> "record", cost |-> c]]
    /\ UNCHANGED <<clock, breaker, costs, today, raced, guarded>>

(* The call succeeded: record begins.                                       *)
Succeeds(t) ==
    /\ At(t, "call")
    /\ \E c \in 0 .. MaxCost :
          thread' = [thread EXCEPT ![t] =
              [pc |-> IF Day(clock) >= costs.boundary THEN "reset_record" ELSE "record", cost |-> c]]
    /\ UNCHANGED <<clock, breaker, costs, today, raced, guarded>>

Record(t) ==
    /\ At(t, "record")
    /\ costs' = [costs EXCEPT !.total = @ + thread[t].cost, !.daily = @ + thread[t].cost]
    /\ today' = today + thread[t].cost
    /\ thread' = [thread EXCEPT ![t] = [pc |-> "success", cost |-> 0]]
    /\ UNCHANGED <<clock, breaker, raced, guarded>>

(* record_success closes the breaker whatever its state is by now.          *)
Success(t) ==
    /\ At(t, "success")
    /\ breaker' = [breaker EXCEPT !.state = "closed", !.fails = 0]
    /\ Leave(t)
    /\ UNCHANGED <<clock, costs, today, raced, guarded>>

Next == \/ Tick
        \/ \E t \in Threads :
              \/ Begin(t) \/ Resets(t) \/ Check(t) \/ Allow(t)
              \/ Fails(t) \/ Succeeds(t) \/ Record(t) \/ Success(t)
Spec == Init /\ [][Next]_vars

-----------------------------------------------------------------------------
InFlight == Cardinality({t \in Threads : thread[t].pc \in {"allow", "call", "reset_record", "record"}})

(* A day's cost passes the budget by less than what the calls cost that were*)
(* between check_budget and record, and the lifetime cost the monthly one,  *)
(* which is never reset, likewise (utils.py:148-180).  The counters are     *)
(* meant: a second reset on the same day takes costs off the daily one.     *)
OvershootBounded ==
    /\ costs.daily + InFlight * MaxCost <= DailyBudget - 1 + Cardinality(Threads) * MaxCost
    /\ costs.total + InFlight * MaxCost <= MonthlyBudget - 1 + Cardinality(Threads) * MaxCost

(* Once the day was noticed, its counter is what was recorded on that day,  *)
(* unless it was reset again by a thread that had found the old boundary,   *)
(* or the day began when a record had looked at the boundary and not yet    *)
(* added its cost (utils.py:160-214).                                       *)
DailyIsToday ==
    costs.boundary > Day(clock) /\ ~raced => costs.daily = today

(* utils.py:57-60: after Threshold failures without a success, calls are    *)
(* blocked for the timeout after the last of them, those of a half-open     *)
(* breaker included.  Only a success, however late, ends that.              *)
BlocksAfterFailures ==
    breaker.fails >= Threshold /\ ~Cooled => breaker.state = "open"
=============================================================================
