---------------------------- MODULE HarnessModes ----------------------------
(***************************************************************************)
(* cycle/harness.py: process_with_supervisor and                           *)
(* process_with_threat_modeling, stage by stage.  The callers share one    *)
(* Harness, whose verifier the second replaces for the time of its own     *)
(* verification; each has a session of its own.  Sandbox models process.   *)
(*                                                                         *)
(* A response is a number, later ones greater, with the flag that the vote *)
(* leaves; 0 stands for the empty dictionary.  Of the session's events only*)
(* the answers are kept.  Nothing another caller does can be seen but      *)
(* between the stages Shared: one caller at a time is in any other.        *)
(***************************************************************************)
EXTENDS Coordination

CONSTANTS
    Callers,
    Situations,     \* what the supervisor may have to route
    Experts,        \* the domains the pool has an expert of
    MaxRetries,     \* regenerations after a rejected response
    MaxRuns         \* bound: calls begun

ModesAssumption == IsFiniteSet(Callers) /\ MaxRetries \in Nat /\ MaxRuns \in Nat

VARIABLES
    verifier,       \* the harness's _verifier: "own", "none" or a caller's
    caller,         \* caller[c]: the stages left, and the call's locals
    answers,        \* answers[c]: SYSTEM_RESPONSE events of c's last call
    swapped,        \* history: two callers' replacements overlapped
    runs            \* bound: calls begun

vars == <<verifier, caller, answers, swapped, runs>>

(* MUTANT: the vote is taken after the verification. *)
Supervised_vote_last ==
    <<"classification", "routing", "cti", "expert", "generation", "verification", "voting", "review", "answer">>

Supervised == <<"classification", "routing", "cti", "expert", "generation",
                "voting", "review", "verification", "answer">>

Modelled   == <<"classification", "threat", "cti", "generation", "swap",
                "verification", "restore", "answer", "chain", "finding">>

Done == [todo |-> <<>>, mode |-> "", decision |-> <<>>, expert |-> <<>>, response |-> 0, vetoed |-> FALSE,
         made |-> 0, passed |-> "unset", checked |-> 0, by |-> "", tries |-> 0, brought |-> "none",
         original |-> "none", error |-> FALSE]

Init ==
    /\ verifier \in {"own", "none"}
    /\ caller = [c \in Callers |-> Done] /\ answers = [c \in Callers |-> 0]
    /\ swapped = FALSE /\ runs = 0

Stage(c)        == IF caller[c].todo = <<>> THEN "out" ELSE Head(caller[c].todo)
Shared          == {"out", "swap", "verification", "retry", "restore"}
Turn(c)         == \A d \in Callers \ {c} : Stage(d) \in Shared
On(c, stage)    == Stage(c) = stage /\ Turn(c)
Advance(c, r)   == caller' = [caller EXCEPT ![c] = [r EXCEPT !.todo = Tail(@)]]
Replacing(c)    == Stage(c) \in {"verification", "restore", "retry"} /\ caller[c].mode = "modelled"

Begin(c, mode) ==
    /\ On(c, "out") /\ runs < MaxRuns
    /\ runs' = runs + 1
    /\ \E v \in {"none", c} :
          /\ mode = "supervised" => v = "none"
          /\ caller' = [caller EXCEPT ![c] =
                [Done EXCEPT !.mode = mode, !.brought = v,
                             !.todo = IF mode = "supervised" THEN Supervised ELSE Modelled]]
    /\ answers' = [answers EXCEPT ![c] = 0]
    /\ UNCHANGED <<verifier, swapped>>

(* _run_classification, _run_cti_lookup and _run_threat_modeling: left out  *)
(* without the component, contained when it raises.                         *)
Lookup(c) ==
    /\ \E stage \in {"classification", "cti", "threat"} : On(c, stage)
    /\ Advance(c, caller[c])
    /\ UNCHANGED <<verifier, answers, swapped, runs>>

(* _run_supervisor_routing: no decision is made when it raises.  The log    *)
(* has no persona, so none is current.                                      *)
Routing(c) ==
    /\ On(c, "routing")
    /\ \/ Advance(c, caller[c])
       \/ \E x \in Situations : Advance(c, [caller[c] EXCEPT !.decision = Route(x, "")])
    /\ UNCHANGED <<verifier, answers, swapped, runs>>

(* The except of the two methods: what is left of the call is given up.     *)
GiveUp(c) == caller' = [caller EXCEPT ![c].todo = <<>>, ![c].error = TRUE]

(* _run_expert_analysis reads the decision before its try; the dispatch is  *)
(* contained, without a pool, too, and what it returns goes in the context. *)
Expert(c) ==
    LET r == caller[c] IN
    /\ On(c, "expert")
    /\ IF r.decision = <<>> THEN GiveUp(c)
       ELSE \/ Advance(c, r)
            \/ /\ r.decision.expert # ""
               /\ \E raises \in BOOLEAN :
                     Advance(c, [r EXCEPT !.expert = Dispatch(Experts, r.decision.expert, raises)])
    /\ UNCHANGED <<verifier, answers, swapped, runs>>

(* _run_response_generation: there is a response, one of the harness's own  *)
(* when the deceiver raises, unless there is no deceiver.                   *)
Generation(c) ==
    /\ On(c, "generation")
    /\ \/ Advance(c, caller[c])
       \/ Advance(c, [caller[c] EXCEPT !.response = 1, !.made = 1])
    /\ UNCHANGED <<verifier, answers, swapped, runs>>

(* MUTANT: a vote that raises is not contained. *)
Voting_uncaught(c) ==
    /\ On(c, "voting")
    /\ \/ Advance(c, caller[c])
       \/ caller[c].decision.voting /\ GiveUp(c)
    /\ UNCHANGED <<verifier, answers, swapped, runs>>

(* _run_voting: accepted as it is (so too when the vote raises), with       *)
(* another text, or vetoed, which is a flag; the response goes on anyway.   *)
Voting(c) ==
    LET r == caller[c] IN
    /\ On(c, "voting")
    /\ \/ Advance(c, r)
       \/ /\ r.decision.voting
          /\ \/ Advance(c, [r EXCEPT !.response = r.made + 1, !.made = @ + 1])
             \/ Advance(c, [r EXCEPT !.response = IF @ = 0 THEN 1 ELSE @, !.vetoed = TRUE])
    /\ UNCHANGED <<verifier, answers, swapped, runs>>

(* _run_enhanced_review: its verdict is noted and has no effect.            *)
EnhancedReview(c) ==
    /\ On(c, "review")
    /\ Advance(c, caller[c])
    /\ UNCHANGED <<verifier, answers, swapped, runs>>

(* response_verifier or self._verifier takes the harness's place; without   *)
(* one, or a response, the verification is left out.                        *)
Swap(c) ==
    LET mine == IF caller[c].brought = "none" THEN verifier ELSE c IN
    /\ On(c, "swap")
    /\ IF mine = "none" \/ caller[c].response = 0
       THEN /\ caller' = [caller EXCEPT ![c].todo = Tail(Tail(Tail(@)))]
            /\ UNCHANGED <<verifier, swapped>>
       ELSE /\ Advance(c, [caller[c] EXCEPT !.original = verifier])
            /\ verifier' = mine
            /\ swapped'  = (swapped \/ \E d \in Callers \ {c} : Replacing(d))
    /\ UNCHANGED <<answers, runs>>

(* _run_verification: whatever verifier the harness has now.  One that      *)
(* raises counts as passed.                                                 *)
Verification(c) ==
    LET r == caller[c] IN
    /\ On(c, "verification")
    /\ IF verifier = "none" \/ r.response = 0 THEN Advance(c, r)
       ELSE \/ Advance(c, [r EXCEPT !.passed = "yes", !.by = verifier, !.checked = r.response])
            \/ Advance(c, [r EXCEPT !.passed = "raised", !.by = verifier])
            \/ caller' = [caller EXCEPT ![c] = [r EXCEPT !.passed = "no", !.by = verifier,
                    !.todo = IF MaxRetries = 0 THEN Tail(@) ELSE <<"retry">> \o Tail(@)]]
    /\ UNCHANGED <<verifier, answers, swapped, runs>>

(* An attempt of _retry_with_feedback.  The verdict stays that on the first *)
(* response even when a later one is taken.                                 *)
Retry(c) ==
    LET r == caller[c]
        last == r.tries + 1 >= MaxRetries
    IN
    /\ On(c, "retry")
    /\ \/ Advance(c, [r EXCEPT !.response = r.made + 1, !.made = @ + 1, !.vetoed = FALSE])
       \/ IF last THEN Advance(c, r) ELSE caller' = [caller EXCEPT ![c].tries = @ + 1]
    /\ UNCHANGED <<verifier, answers, swapped, runs>>

(* MUTANT: the verifier is put back only after a verdict. *)
Restore_if_judged(c) ==
    /\ On(c, "restore")
    /\ verifier' = IF caller[c].passed = "raised" THEN verifier ELSE caller[c].original
    /\ Advance(c, caller[c])
    /\ UNCHANGED <<answers, swapped, runs>>

Restore(c) ==
    /\ On(c, "restore")
    /\ verifier' = caller[c].original
    /\ Advance(c, caller[c])
    /\ UNCHANGED <<answers, swapped, runs>>

(* _emit_system_response, _run_attack_chain and _run_finding.               *)
Conclude(c) ==
    /\ \E stage \in {"answer", "chain", "finding"} : On(c, stage)
    /\ Advance(c, caller[c])
    /\ answers' = [answers EXCEPT ![c] = IF Stage(c) = "answer" THEN @ + 1 ELSE @]
    /\ UNCHANGED <<verifier, swapped, runs>>

Next == \E c \in Callers :
    \/ Begin(c, "supervised") \/ Begin(c, "modelled")
    \/ Lookup(c) \/ Routing(c) \/ Expert(c) \/ Generation(c)
    \/ Voting(c) \/ EnhancedReview(c) \/ Swap(c) \/ Verification(c) \/ Retry(c)
    \/ Restore(c) \/ Conclude(c)
Spec == Init /\ [][Next]_vars

-----------------------------------------------------------------------------
(* Whatever stage raises, the call goes on and the attacker is answered     *)
(* once; the routing is the exception, whose missing decision the expert    *)
(* stage trips over (harness.py:366, 508-528).                              *)
StagesContained ==
    \A c \in Callers : Stage(c) = "out" /\ caller[c].mode # "" =>
        /\ caller[c].error <=> (caller[c].mode = "supervised" /\ caller[c].decision = <<>>)
        /\ answers[c] = (IF caller[c].error THEN 0 ELSE 1)

(* A result that says its response passed carries the response the verifier *)
(* passed: nothing after it, no vote and no retry, changes it               *)
(* (harness.py:253-271, 518-527).                                           *)
PassedIsAnswered ==
    \A c \in Callers : Stage(c) = "out" /\ caller[c].passed = "yes" =>
        caller[c].checked = caller[c].response

(* Unless the replacements of two calls overlapped, each call is judged by  *)
(* the verifier it brought, and when none is under way the harness has its  *)
(* own again (harness.py:556-562).                                          *)
VerifierRestored ==
    \/ swapped
    \/ /\ ~(\E c \in Callers : Replacing(c)) => verifier \in {"own", "none"}
       /\ \A c \in Callers : caller[c].mode = "modelled" /\ caller[c].brought # "none" =>
              caller[c].by \in {"", c}
=============================================================================
