----------------------------- MODULE Engagement -----------------------------
(***************************************************************************)
(* What the sandbox promises about the commands of a session, without      *)
(* logs, threads or restarts: a session accepts at most MaxCommands        *)
(* commands in its life, and every command it accepts is settled once: it  *)
(* is answered, its failure is recorded or raised to the caller, or the    *)
(* process died while it was being processed.                              *)
(***************************************************************************)
EXTENDS Naturals

CONSTANTS Sids, MaxCommands

VARIABLES accepted, settled

Init ==
    /\ accepted = [s \in Sids |-> 0]
    /\ settled  = [s \in Sids |-> 0]

Accept(s) ==
    /\ accepted[s] < MaxCommands
    /\ accepted' = [accepted EXCEPT ![s] = @ + 1]
    /\ UNCHANGED settled

Settle(s) ==
    /\ settled[s] < accepted[s]
    /\ settled' = [settled EXCEPT ![s] = @ + 1]
    /\ UNCHANGED accepted

(* A crash settles whatever was in progress, in any number of sessions. *)
Abandon ==
    /\ settled # accepted
    /\ settled' = accepted
    /\ UNCHANGED accepted

Next == Abandon \/ \E s \in Sids : Accept(s) \/ Settle(s)

vars == <<accepted, settled>>

Spec ==
    /\ Init /\ [][Next]_vars
    /\ \A s \in Sids : WF_vars(Settle(s) \/ Abandon)
=============================================================================
