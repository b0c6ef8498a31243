----------------------------- MODULE Escalation -----------------------------
(***************************************************************************)
(* ragin/chrollo/pipeline.py: escalations to Don and Hisoka, by worker     *)
(* threads that share the pipeline.  _rate_limit_wait reads the time of    *)
(* the last request, sleeps and writes it without a lock; what follows is  *)
(* up to MaxAttempts posts of the same payload, one after the other.       *)
(***************************************************************************)
EXTENDS Naturals, Sequences, FiniteSets, SequencesExt

CONSTANTS
    Posters,        \* threads
    Interval,       \* _rate_limit_interval, in ticks
    MaxAttempts,    \* _MAX_RETRIES
    MaxHours,       \* bound: the clock
    MaxEscalations  \* bound: escalations begun

EscalationAssumption ==
    {Interval, MaxAttempts} \subseteq Nat \ {0} /\ IsFiniteSet(Posters) /\ MaxEscalations \in Nat

VARIABLES
    time,           \* time.monotonic()
    lastRequest,    \* _last_request_ts
    poster,         \* poster[p]: [pc, wake, attempt, taken, status]
    released,       \* history: released[p], when p's waits ended
    escalations     \* bound: escalations begun

vars == <<time, lastRequest, poster, released, escalations>>

Rest == [pc |-> "rest", wake |-> 0, attempt |-> 0, taken |-> 0, status |-> "none"]

Init ==
    /\ time = Interval /\ lastRequest = 0
    /\ poster = [p \in Posters |-> Rest] /\ released = [p \in Posters |-> <<>>]
    /\ escalations = 0

Runs(p, pc) == poster[p].pc = pc

TimePasses ==
    /\ time < MaxHours
    /\ time' = time + 1
    /\ UNCHANGED <<lastRequest, poster, released, escalations>>

(* escalate_to_don, escalate_to_hisoka: the wait begins.                    *)
Escalate(p) ==
    /\ Runs(p, "rest") /\ escalations < MaxEscalations
    /\ escalations' = escalations + 1
    /\ poster' = [poster EXCEPT ![p] = [Rest EXCEPT !.pc = "wait", !.wake = lastRequest + Interval]]
    /\ UNCHANGED <<time, lastRequest, released>>

(* MUTANT: the time noted is that at which the thread began to wait for. *)
Wake_notes_last(p) ==
    /\ Runs(p, "wait") /\ time >= poster[p].wake
    /\ lastRequest' = poster[p].wake - Interval
    /\ released' = [released EXCEPT ![p] = Append(@, time)]
    /\ poster' = [poster EXCEPT ![p].pc = "post"]
    /\ UNCHANGED <<time, escalations>>

(* The end of _rate_limit_wait, at once if enough time had passed.          *)
Wake(p) ==
    /\ Runs(p, "wait") /\ time >= poster[p].wake
    /\ lastRequest' = time
    /\ released' = [released EXCEPT ![p] = Append(@, time)]
    /\ poster' = [poster EXCEPT ![p].pc = "post"]
    /\ UNCHANGED <<time, escalations>>

(* What a thread holds after an answer, with or without an attempt left.    *)
Answered(old, took, answer) ==
    LET again == old.attempt + 1 < MaxAttempts IN
    [old EXCEPT !.attempt = @ + 1, !.taken = @ + took,
                !.pc = IF answer = "failure" /\ again THEN "post" ELSE "rest",
                !.status = IF answer = "ok" THEN "ok"
                           ELSE IF answer = "unreadable" THEN "raised"
                           ELSE IF again THEN "none" ELSE "error"]

(* A post that the receiver took or not, and whose answer was fit to use, a *)
(* failure to try again after, or one that makes the call raise.            *)
Post(p) ==
    /\ Runs(p, "post")
    /\ \E took \in {0, 1}, answer \in {"ok", "failure", "unreadable"} :
          /\ answer # "failure" => took = 1
          /\ poster' = [poster EXCEPT ![p] = Answered(@, took, answer)]
    /\ UNCHANGED <<time, lastRequest, released, escalations>>

Next == TimePasses \/ \E p \in Posters : Escalate(p) \/ Wake(p) \/ Post(p)
Spec == Init /\ [][Next]_vars

-----------------------------------------------------------------------------
(* However the waits of the threads overlap, a thread's own escalations are *)
(* an interval apart, and so no interval has more than one of each thread;  *)
(* a wait no other overlapped is an interval after whatever came before     *)
(* (pipeline.py:148-153).  Once an escalation is over, the receiver took it *)
(* at most as often as it was posted, and took it if the caller was told so.*)
EscalationsPaced ==
    \A p \in Posters :
        /\ \A i \in 2 .. Len(released[p]) : released[p][i] - released[p][i - 1] >= Interval
        /\ poster[p].taken <= poster[p].attempt /\ poster[p].attempt <= MaxAttempts
        /\ poster[p].status = "ok" => poster[p].taken >= 1
        /\ poster[p].status = "error" => poster[p].attempt = MaxAttempts
        /\ \A q \in Posters : released[q] # <<>> => lastRequest >= Last(released[q])
=============================================================================
