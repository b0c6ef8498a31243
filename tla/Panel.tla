-------------------------------- MODULE Panel --------------------------------
(***************************************************************************)
(* ragin/cycle/coordination.py: a panel of reviewers that votes on a       *)
(* response (VotingSystem.vote) or reviews it and has it made again        *)
(* (EnhancedProducerReviewer.review_and_retry), and a delegation chain     *)
(* (DelegationChain.execute).  Reviewers are asked one by one: each is a   *)
(* built-in one, or one of the caller's that says anything or raises.      *)
(***************************************************************************)
EXTENDS Coordination

CONSTANTS
    Proposals,      \* the responses the deceiver may make, [text, persona]
    Others,         \* the verdicts of reviewers that are not built in
    Reviewers,      \* how many the panel has
    VoteThreshold, ReviewThreshold,     \* in tenths: threshold, escalation_threshold
    MaxRetries,
    ChainLength     \* the steps of a delegation chain

PanelAssumption ==
    /\ Reviewers \in Nat /\ MaxRetries \in Nat /\ ChainLength \in Nat
    /\ VoteThreshold \in 0 .. 10 /\ ReviewThreshold \in 0 .. VoteThreshold

VARIABLES
    doing,          \* "idle", "vote", "review" or "chain"; "done" at the end
    strict,         \* require_unanimity of the vote, fail_fast of the chain
    response,       \* current_response
    votes,          \* the verdicts on it so far
    made,           \* history: the responses made, with the verdicts on each
    emitted,        \* RESPONSE_VERIFY events
    result,         \* what was returned
    steps,          \* the status of each step of the chain that has one
    outputs         \* whose outputs a step of the chain was given: outputs[i]

vars == <<doing, strict, response, votes, made, emitted, result, steps, outputs>>

Unreturned == [response |-> <<>>, outcome |-> "", confidence |-> 0, retries |-> 0, exhausted |-> FALSE]

Init ==
    /\ doing = "idle" /\ strict = FALSE
    /\ response \in {[text |-> p.text, persona |-> p.persona, vetoed |-> ""] : p \in Proposals}
    /\ votes = <<>> /\ made = <<>> /\ emitted = 0 /\ result = Unreturned
    /\ steps = <<>> /\ outputs = <<>>

Begin(what) ==
    /\ doing = "idle"
    /\ doing' = what
    /\ strict' \in IF what = "review" THEN {FALSE} ELSE BOOLEAN
    /\ UNCHANGED <<response, votes, made, emitted, result, steps, outputs>>

(* One reviewer of the loops of vote and review.                            *)
Ask ==
    /\ doing \in {"vote", "review"} /\ Len(votes) < Reviewers
    /\ \E v \in {BuiltIn(response)[i] : i \in 1 .. 3} \cup Others : votes' = Append(votes, v)
    /\ UNCHANGED <<doing, strict, response, made, emitted, result, steps, outputs>>

Decided == Len(votes) = Reviewers

(* The rest of vote.                                                        *)
Count ==
    /\ doing = "vote" /\ Decided
    /\ doing' = "done"
    /\ made' = <<[response |-> response, votes |-> votes]>>
    /\ result' = [Unreturned EXCEPT !.outcome = Outcome(votes, VoteThreshold, strict),
                                    !.confidence = Review(votes, VoteThreshold).confidence,
                                    !.response = Final(response, votes, VoteThreshold, strict)]
    /\ UNCHANGED <<strict, response, votes, emitted, steps, outputs>>

Returned(exhausted, retries) ==
    /\ doing' = "done"
    /\ result' = [Unreturned EXCEPT !.response = response, !.retries = retries, !.exhausted = exhausted]
    /\ UNCHANGED <<response, votes>>

(* MUTANT: the last attempt is returned as one that passed. *)
Conclude_unflagged ==
    LET attempt == Len(made) IN
    /\ doing = "review" /\ Decided
    /\ made' = Append(made, [response |-> response, votes |-> votes])
    /\ IF Review(votes, ReviewThreshold).passed \/ attempt = MaxRetries
       THEN Returned(FALSE, attempt) /\ UNCHANGED emitted
       ELSE /\ emitted' = emitted + 1
            /\ \/ Returned(TRUE, MaxRetries)
               \/ /\ \E p \in Proposals : response' = [text |-> p.text, persona |-> p.persona, vetoed |-> ""]
                  /\ votes' = <<>>
                  /\ UNCHANGED <<doing, result>>
    /\ UNCHANGED <<strict, steps, outputs>>

(* The rest of an attempt of review_and_retry.  The deceiver may raise when *)
(* it is asked for another response; the last is returned then, and when    *)
(* the attempts are used up, flagged.                                       *)
Conclude ==
    LET attempt == Len(made) IN
    /\ doing = "review" /\ Decided
    /\ made' = Append(made, [response |-> response, votes |-> votes])
    /\ IF Review(votes, ReviewThreshold).passed
       THEN Returned(FALSE, attempt) /\ UNCHANGED emitted
       ELSE /\ emitted' = emitted + 1
            /\ \/ Returned(TRUE, MaxRetries)
               \/ /\ attempt < MaxRetries
                  /\ \E p \in Proposals : response' = [text |-> p.text, persona |-> p.persona, vetoed |-> ""]
                  /\ votes' = <<>>
                  /\ UNCHANGED <<doing, result>>
    /\ UNCHANGED <<strict, steps, outputs>>

Completed == {i \in DOMAIN steps : steps[i] = "completed"}

(* A step of the chain: it is given what the completed ones put out.  With  *)
(* fail_fast the ones after a step that raises are skipped.                 *)
Step ==
    /\ doing = "chain" /\ Len(steps) < ChainLength
    /\ outputs' = Append(outputs, Completed)
    /\ \/ steps' = Append(steps, "completed")
       \/ steps' = Append(steps, "failed")
                   \o (IF strict THEN [i \in 1 .. ChainLength - Len(steps) - 1 |-> "skipped"] ELSE <<>>)
    /\ doing' = IF Len(steps') = ChainLength THEN "done" ELSE doing
    /\ UNCHANGED <<strict, response, votes, made, emitted, result>>

Next ==
    \/ \E what \in {"vote", "review", "chain"} : Begin(what)
    \/ Ask \/ Count \/ Conclude \/ Step
Spec == Init /\ [][Next]_vars

-----------------------------------------------------------------------------
Outcomes == <<"failed", "split", "majority", "unanimous">>
Accepted(given) == Outcome(given, VoteThreshold, strict) \in {"unanimous", "majority"}

(* As the verdicts come in, one more approval never speaks against a        *)
(* response and one more rejection, or a reviewer that raises, never for it *)
(* (coordination.py:581-603).                                               *)
VotesSpeakForThemselves == [][
    LET rank(given) == Rank(Outcomes, Outcome(given, VoteThreshold, strict)) IN
    doing = "vote" /\ votes' # votes =>
        IF Last(votes').outcome = "pass" THEN votes = <<>> \/ rank(votes') >= rank(votes)
        ELSE rank(votes') <= rank(votes)]_vars

(* The text a vote ends with is the one proposed, or one that a reviewer who*)
(* approved of it suggested, none of those who did being surer; a response  *)
(* is flagged unless it was accepted, and one that was accepted would have  *)
(* passed the review as well; the confidence is between the least and the   *)
(* most sure of those who did not raise (coordination.py:605-621, 917-923). *)
VoteIsTheReviewers ==
    LET end == made[1]  given == end.votes IN
    result.outcome # "" =>
        /\ result.response.text # end.response.text =>
              \E i \in DOMAIN given :
                  /\ given[i].outcome = "pass" /\ given[i].says = result.response.text
                  /\ \A j \in DOMAIN given : given[j].outcome = "pass" => given[j].confidence <= given[i].confidence
        /\ (result.response.vetoed = "") <=> (given = <<>> \/ Accepted(given))
        /\ Accepted(given) => Review(given, ReviewThreshold).passed
        /\ \A i \in DOMAIN given : given[i].outcome # "error" =>
              \E j, k \in DOMAIN given :
                  /\ given[j].outcome # "error" /\ given[k].outcome # "error"
                  /\ given[j].confidence <= result.confidence /\ result.confidence <= given[k].confidence

(* What review_and_retry returns was made last and, unless it is flagged,   *)
(* passed; all before it were rejected, and each rejection was reported     *)
(* once; no more were made than it may retry (coordination.py:952-1004).    *)
ReturnedIsReviewed ==
    doing = "done" /\ made # <<>> /\ result.outcome = "" =>
        LET passed(i) == Review(made[i].votes, ReviewThreshold).passed IN
        /\ result.response = Last(made).response /\ Len(made) <= MaxRetries + 1
        /\ \A i \in DOMAIN made : passed(i) <=> (i = Len(made) /\ ~result.exhausted)
        /\ emitted = Cardinality({i \in DOMAIN made : ~passed(i)})
        /\ result.retries = (IF result.exhausted THEN MaxRetries ELSE emitted)

(* Each step of a chain ends with one status, a step is given what all the  *)
(* completed ones before it put out, and with fail_fast nothing runs after  *)
(* a failure (coordination.py:795-829).                                     *)
ChainIsOrdered ==
    /\ doing = "done" /\ made = <<>> => Len(steps) = ChainLength
    /\ \A i \in DOMAIN outputs : outputs[i] = {j \in 1 .. i - 1 : steps[j] = "completed"}
    /\ \A i \in DOMAIN steps : steps[i] = "skipped" <=> (strict /\ \E j \in 1 .. i - 1 : steps[j] = "failed")
=============================================================================
