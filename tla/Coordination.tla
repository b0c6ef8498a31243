---------------------------- MODULE Coordination ----------------------------
(***************************************************************************)
(* ragin/cycle/coordination.py: the supervisor's routing, the vote, the    *)
(* expert pool, the delegation chain and the enhanced reviewer, as         *)
(* functions of what they are given.  A situation is what the routing      *)
(* looks at: [skill, sure, depth, evasion, ttps], where sure says that the *)
(* confidence is above 0.8.  Confidences are in tenths.                    *)
(***************************************************************************)
EXTENDS Naturals, Sequences, FiniteSets, SequencesExt

DepthVoteThreshold == 15
Skills == <<"novice", "intermediate", "advanced", "expert">>
Risks  == <<"low", "medium", "high", "critical">>

Dangerous  == {"T1486", "T1003", "T1055", "T1562"}
CveTtps    == {"T1190", "T1068", "T1133"}
AptTtps    == {"T1562", "T1027", "T1070", "T1570"}
CredTtps   == {"T1003", "T1110"}

Rank(s, x)  == CHOOSE i \in DOMAIN s : s[i] = x
Points(b, n) == IF b THEN n ELSE 0

(* _compute_risk                                                            *)
Score(x) ==
    Rank(Skills, x.skill) - 1 + Points(x.sure, 1)
    + (IF x.depth >= 20 THEN 2 ELSE Points(x.depth >= 10, 1))
    + Points(x.evasion, 2)
    + Points(Cardinality(x.ttps) >= 5, 1)
    + Points(x.ttps \cap Dangerous # {}, 2)

Risk(x) == CASE Score(x) >= 6 -> "critical"
             [] Score(x) \in 4 .. 5 -> "high"
             [] Score(x) \in 2 .. 3 -> "medium"
             [] OTHER -> "low"

(* MUTANT: only a high risk, not a critical one, calls for a vote. *)
NeedsVoting_high_only(x) ==
    \/ Risk(x) = "high" /\ x.depth >= DepthVoteThreshold
    \/ x.skill \in {"advanced", "expert"} /\ x.evasion

NeedsVoting(x) ==
    \/ Risk(x) = "critical"
    \/ Risk(x) = "high" /\ x.depth >= DepthVoteThreshold
    \/ x.skill \in {"advanced", "expert"} /\ x.evasion

(* _needs_expert: the domain asked, "" if none is.                          *)
ExpertDomain(x) ==
    LET serious == Risk(x) \in {"high", "critical"} IN
    CASE serious /\ x.ttps \cap CveTtps # {} -> "cve"
      [] serious /\ x.ttps \cap CveTtps = {} /\ x.ttps \cap AptTtps # {} -> "apt"
      [] serious /\ x.ttps \cap (CveTtps \cup AptTtps) = {} /\ x.ttps \cap CredTtps # {} -> "credential"
      [] OTHER -> IF x.skill = "expert" THEN "advanced_tactics" ELSE ""

(* _select_persona, without a routing function of the caller's.             *)
Persona(risk) == [low |-> "sysadmin", medium |-> "security_analyst",
                  high |-> "incident_responder", critical |-> "soc_lead"][risk]

Enrichments(x) ==
    {e \in {"risk", "deep", "evasion", "ttps"} :
        CASE e = "risk"    -> Risk(x) \in {"high", "critical"}
          [] e = "deep"    -> x.depth >= 10
          [] e = "evasion" -> x.evasion
          [] e = "ttps"    -> x.ttps # {}}

(* route                                                                    *)
Route(x, current) ==
    LET persona == Persona(Risk(x)) IN
    [persona |-> persona, risk |-> Risk(x), voting |-> NeedsVoting(x),
     expert |-> ExpertDomain(x), enrichments |-> Enrichments(x),
     route |-> IF NeedsVoting(x) \/ ExpertDomain(x) # "" \/ (current # "" /\ current # persona)
               THEN "escalate" ELSE "auto"]

-----------------------------------------------------------------------------
(* A verdict of a reviewer: [outcome, confidence, says]; says is the text it*)
(* suggests, or Silence, and a reviewer that raised has outcome "error".    *)
(* A text is [marks, size]: the patterns found in it, and its length as     *)
(* "short" (< 10), "brief" (< 50), "fit" or "long" (> 2000).                *)
Silence == [marks |-> {}, size |-> ""]
Advice  == [marks |-> {}, size |-> "fit"]

Passes(votes)   == Cardinality({i \in DOMAIN votes : votes[i].outcome = "pass"})
Mean(votes) ==
    LET given == SelectSeq(votes, LAMBDA v : v.outcome # "error") IN
    IF given = <<>> THEN 0 ELSE FoldSeq(LAMBDA v, sum : v.confidence + sum, 0, given) \div Len(given)

(* The outcome of vote; threshold is in tenths, and a reviewer that raised  *)
(* counts as one that dissents.                                             *)
Outcome(votes, threshold, unanimity) ==
    LET yes == Passes(votes) IN
    CASE yes = Len(votes) -> "unanimous"
      [] yes < Len(votes) /\ yes = 0 -> "failed"
      [] yes \in 1 .. Len(votes) - 1 ->
            IF ~unanimity /\ 10 * yes >= threshold * Len(votes) THEN "majority" ELSE "split"

(* MUTANT: the most confident vote is the best one, whatever it says. *)
Best_of_all(votes) ==
    CHOOSE i \in DOMAIN votes :
        \A j \in DOMAIN votes :
            votes[j].confidence < votes[i].confidence \/ (votes[j].confidence = votes[i].confidence /\ i <= j)

(* The first of the passing votes with the highest confidence.              *)
Best(votes) ==
    CHOOSE i \in DOMAIN votes :
        /\ votes[i].outcome = "pass"
        /\ \A j \in DOMAIN votes : votes[j].outcome = "pass" =>
              votes[j].confidence < votes[i].confidence \/ (votes[j].confidence = votes[i].confidence /\ i <= j)

(* final_response of vote: a suggestion takes the text's place unreviewed.  *)
Final(response, votes, threshold, unanimity) ==
    LET outcome == Outcome(votes, threshold, unanimity) IN
    CASE votes = <<>> -> response
      [] votes # <<>> /\ outcome \in {"unanimous", "majority"} ->
            IF votes[Best(votes)].says = Silence THEN response
            ELSE [response EXCEPT !.text = votes[Best(votes)].says]
      [] OTHER -> [response EXCEPT !.vetoed = outcome]

(* dispatch: an unknown domain and an expert that raises fall back.         *)
Dispatch(agents, domain, raises) ==
    LET known == domain \in agents IN
    [domain |-> domain, expert |-> IF known THEN domain ELSE "fallback",
     fallback |-> ~known \/ raises,
     confidence |-> CASE ~known -> 3 [] known /\ raises -> 0 [] OTHER -> 8]

(* EnhancedProducerReviewer.review.                                         *)
Review(votes, threshold) ==
    [passed     |-> votes = <<>> \/ 10 * Passes(votes) >= threshold * Len(votes),
     confidence |-> IF votes = <<>> THEN 10 ELSE Mean(votes)]

-----------------------------------------------------------------------------
(* The built-in reviewers, who suggest something only when they reject.     *)
Verdict(issues, sure, unsure) ==
    [outcome |-> IF issues = {} THEN "pass" ELSE "fail",
     confidence |-> IF issues = {} THEN sure ELSE unsure,
     says |-> IF issues = {} THEN Silence ELSE Advice]

SecurityReview(response) == Verdict(response.text.marks \cap {"leak", "helpful"}, 10, 5)

QualityReview(response) ==
    Verdict((IF response.text.size \in {"short", "long"} THEN {"length"} ELSE {})
            \cup (IF "error" \in response.text.marks /\ response.text.size \in {"short", "brief"}
                  THEN {"error"} ELSE {}), 9, 4)

DeceptionReview(response) ==
    Verdict((response.text.marks \cap {"giveaway"}) \cup (IF response.persona = "" THEN {"persona"} ELSE {}), 10, 3)

BuiltIn(response) == <<SecurityReview(response), QualityReview(response), DeceptionReview(response)>>
=============================================================================
