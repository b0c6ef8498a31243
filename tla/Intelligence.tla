---------------------------- MODULE Intelligence ----------------------------
(***************************************************************************)
(* ragin/intelligence/ and the IntelligenceCycle of cycle/__init__.py: the *)
(* evasion detector, the adaptive response with its rate limit, the        *)
(* strategy of a session, and the techniques and strategies of the cycle,  *)
(* for one session and one gateway.  Confidences are in ten-thousandths.   *)
(***************************************************************************)
EXTENDS Naturals, Sequences, FiniteSets, SequencesExt

CONSTANTS
    RateMax, RateWindow,    \* of the adaptive response
    Found,                  \* sets of techniques an interaction may show
    MaxTime,                \* bound: the clock
    MaxSteps,               \* bound: indicators, requests, updates and interactions
    MaxEvidence             \* bound: indicators kept

IntelligenceAssumption ==
    RateMax \in Nat \ {0} /\ RateWindow \in Nat /\ MaxTime \in Nat /\ MaxSteps \in Nat

VARIABLES
    moment,         \* time.monotonic()
    stamps,         \* _rate_limit_state of the gateway
    granted,        \* history: when requests were let through
    evidence,       \* _session_history of the detector: the indicators' kinds
    reply,          \* the last adapted response
    profile,        \* _profiles: the strategy of the session, <<>> before it has one
    observed,       \* _interaction_ttps
    advice,         \* _strategies: risk and persona of each
    steps           \* bound

vars == <<moment, stamps, granted, evidence, reply, profile, observed, advice, steps>>

Init ==
    /\ moment = 0 /\ stamps = <<>> /\ granted = <<>>
    /\ evidence = <<>> /\ reply = <<>> /\ profile = <<>>
    /\ observed = <<>> /\ advice = <<>> /\ steps = 0

Take == steps < MaxSteps /\ steps' = steps + 1

Elapse ==
    /\ moment < MaxTime
    /\ moment' = moment + 1
    /\ UNCHANGED <<stamps, granted, evidence, reply, profile, observed, advice, steps>>

-----------------------------------------------------------------------------
(* What is left of doubt after an indicator of a kind, out of 100.          *)
Doubt == [tool |-> 20, fingerprint |-> 30, sandbox |-> 35, aware |-> 25, timing |-> 38]

(* _calculate_detection_confidence, rounded down at each factor.            *)
Confidence(kinds) == 10000 - FoldLeft(LAMBDA left, k : (left * Doubt[k]) \div 100, 10000, kinds)

(* _build_recommendation                                                    *)
Recommendation(kinds) ==
    LET c == Confidence(kinds) IN
    IF c < 6000 THEN {}
    ELSE {r \in {"deceive", "reduce", "slow", "flags", "rotate", "any"} :
            \/ r = "deceive" /\ "aware" \in ToSet(kinds)
            \/ r = "reduce"  /\ c > 7000
            \/ r = "slow"    /\ "timing" \in ToSet(kinds)
            \/ r = "flags"   /\ ("aware" \in ToSet(kinds) \/ c > 8000)
            \/ r = "rotate"  /\ c > 7500
            \/ r = "any"}

(* MUTANT: the indicators of this log take the place of those before. *)
Remembered_latest(kinds) == kinds

(* The history detect extends.  A log is given anew each time, with the     *)
(* commands of the last time in it, which count again.                      *)
Remembered(kinds) == evidence \o kinds

(* detect: the indicators of the log, in the order of the checks; one per   *)
(* command and kind.                                                        *)
Detect(kinds) ==
    /\ Take /\ Len(evidence) + Len(kinds) <= MaxEvidence
    /\ evidence' = Remembered(kinds)
    /\ UNCHANGED <<moment, stamps, granted, reply, profile, observed, advice>>

-----------------------------------------------------------------------------
Skills    == {"novice", "intermediate", "expert", "apt"}
Complexity == [novice |-> 2, intermediate |-> 4, expert |-> 7, apt |-> 9]
Layers     == [novice |-> 1, intermediate |-> 2, expert |-> 4, apt |-> 5]

(* The stamps are in order: those inside the window are the last ones.      *)
Latest(all, inside) == SubSeq(all, Min(inside \cup {Len(all) + 1}), Len(all))

(* MUTANT: a stamp is forgotten a tick early. *)
Recent_early(all) == Latest(all, {i \in DOMAIN all : all[i] + RateWindow > moment + 1})

Recent(all) == Latest(all, {i \in DOMAIN all : all[i] + RateWindow > moment})

(* generate_adapted_response with _check_rate_limit.                        *)
Adapt(skill) ==
    /\ Take
    /\ IF Len(Recent(stamps)) >= RateMax
       THEN /\ stamps' = Recent(stamps)
            /\ reply'  = [strategy |-> "novice", complexity |-> 1, layers |-> 0, artifacts |-> 0]
            /\ UNCHANGED granted
       ELSE /\ stamps'  = Append(Recent(stamps), moment)
            /\ granted' = Append(granted, moment)
            /\ reply'   = [strategy |-> skill, complexity |-> Complexity[skill],
                           layers |-> Layers[skill], artifacts |-> Complexity[skill]]
    /\ UNCHANGED <<moment, evidence, profile, observed, advice>>

(* adjust_for_evasion; a response without artifacts keeps none.             *)
Adjust ==
    LET advised == Recommendation(evidence) IN
    /\ reply # <<>> /\ advised # {} /\ Take
    /\ reply' = [reply EXCEPT
          !.artifacts  = IF "reduce" \notin advised THEN @ ELSE IF @ \in {0, 1} THEN @ ELSE @ \div 2,
          !.complexity = IF "deceive" \in advised /\ @ < 10 THEN @ + 1 ELSE @]
    /\ UNCHANGED <<moment, stamps, granted, evidence, profile, observed, advice>>

-----------------------------------------------------------------------------
NewProfile(skill) == [skill |-> skill, depth |-> Layers[skill], count |-> 0]

(* determine_strategy: novice without a classifier or if it raises.         *)
Determine(skill) ==
    /\ Take
    /\ profile' = NewProfile(skill)
    /\ UNCHANGED <<moment, stamps, granted, evidence, reply, observed, advice>>

(* update_strategy; evidence of no skill level, or of one that is not       *)
(* known, leaves the skill.                                                 *)
Update(skill) ==
    LET old == IF profile = <<>> THEN NewProfile("novice") ELSE profile
        new == IF skill \in Skills THEN skill ELSE old.skill
    IN /\ Take
       /\ profile' = [skill |-> new, depth |-> Layers[new], count |-> old.count + 1]
       /\ UNCHANGED <<moment, stamps, granted, evidence, reply, observed, advice>>

-----------------------------------------------------------------------------
(* _determine_risk_level and _suggest_persona look at one interaction.      *)
CycleRisk(ttps, count) ==
    CASE ttps \cap {"T1486", "T1003"} # {} -> "critical"
      [] ttps \cap {"T1486", "T1003"} = {} /\ (Cardinality(ttps) >= 5 \/ count >= 20) -> "high"
      [] OTHER -> IF Cardinality(ttps) >= 3 \/ count >= 10 THEN "medium" ELSE "low"

CyclePersona(ttps) ==
    CASE ttps \cap {"T1562", "T1027", "T1070", "T1068", "T1570"} # {} -> "apt"
      [] ttps \cap {"T1562", "T1027", "T1070", "T1068", "T1570"} = {}
         /\ ttps \cap {"T1003", "T1055", "T1021", "T1047"} # {} -> "expert"
      [] OTHER -> IF ttps \cap {"T1059", "T1053", "T1087", "T1018"} # {} THEN "intermediate" ELSE "novice"

(* _suggest_artifacts                                                       *)
CycleArtifacts(ttps) ==
    {a \in {"dump", "network", "autorun", "ransom", "exfiltration"} :
        ttps \cap (CASE a = "dump"    -> {"T1003"}
                     [] a = "network" -> {"T1087", "T1018"}
                     [] a = "autorun" -> {"T1547", "T1053"}
                     [] a = "ransom"  -> {"T1486"}
                     [] a = "exfiltration" -> {"T1041", "T1567"}) # {}}

(* extract_ttps_from_interaction and compute_strategy.                      *)
Interact(ttps, count) ==
    /\ Take
    /\ observed' = Append(observed, ttps)
    /\ advice'   = Append(advice, [risk |-> CycleRisk(ttps, count), persona |-> CyclePersona(ttps),
                                   artifacts |-> CycleArtifacts(ttps),
                                   profile |-> UNION ToSet(observed')])
    /\ UNCHANGED <<moment, stamps, granted, evidence, reply, profile>>

(* clear_session                                                            *)
Clear ==
    /\ observed # <<>>
    /\ observed' = <<>> /\ advice' = <<>>
    /\ UNCHANGED <<moment, stamps, granted, evidence, reply, profile, steps>>

Next ==
    \/ Elapse \/ Adjust \/ Clear
    \/ \E k \in DOMAIN Doubt : Detect(<<>>) \/ Detect(<<k>>)
    \/ \E skill \in Skills : Adapt(skill) \/ Determine(skill)
    \/ \E skill \in {"apt", "none"} : Update(skill)
    \/ \E ttps \in Found, count \in {1, 20} : Interact(ttps, count)
Spec == Init /\ [][Next]_vars

-----------------------------------------------------------------------------
(* No stretch of the window's length has more than RateMax requests let     *)
(* through (adaptive_response.py:56-65).                                    *)
WindowBounded ==
    \A i \in DOMAIN granted :
        i + RateMax \in DOMAIN granted => granted[i + RateMax] - granted[i] >= RateWindow

(* What the detector holds against a session does not fade: the confidence  *)
(* never falls and no advice is taken back, however little the later logs   *)
(* show (evasion_detector.py:224-251).                                      *)
DetectionNeverFades ==
    [][/\ Confidence(evidence') >= Confidence(evidence)
       /\ Recommendation(evidence) \subseteq Recommendation(evidence')]_evidence
=============================================================================
