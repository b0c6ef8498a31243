----------------------------- MODULE ThreatModel -----------------------------
(***************************************************************************)
(* ragin/cycle/threat_modeling.py as functions: the STRIDE analysis of an  *)
(* input, the verification of a response and the attack chain.             *)
(* Confidences are in hundredths.  An input is what its patterns matched:  *)
(* [matched, skill, ttps], matched[category] being the set of the base     *)
(* confidences of the patterns of the category that were found.            *)
(***************************************************************************)
EXTENDS Naturals, Sequences, FiniteSets, SequencesExt

(* _STRIDE_PATTERNS: the base confidences of each category's patterns.      *)
Patterns == [spoofing |-> {50, 60}, tampering |-> {50, 70}, repudiation |-> {50, 60},
             disclosure |-> {50, 60, 70, 80, 90}, denial |-> {60, 70, 80, 95},
             elevation |-> {50, 60, 70}]
Categories == <<"spoofing", "tampering", "repudiation", "disclosure", "denial", "elevation">>

(* _map_ttp_to_stride: the category of the techniques that have one.        *)
Stride(ttp) ==
    CASE ttp \in {"T1033", "T1082", "T1083", "T1087", "T1049", "T1057", "T1040", "T1046",
                  "T1048", "T1595", "T1595.003"} -> "disclosure"
      [] ttp \in {"T1003", "T1003.008", "T1059", "T1059.004", "T1053", "T1098", "T1037",
                  "T1136", "T1548", "T1548.001", "T1190"} -> "elevation"
      [] ttp \in {"T1110", "T1021.004", "T1071", "T1571"} -> "spoofing"
      [] ttp = "T1569" -> "tampering"
      [] OTHER -> "none"

Boost(skill) == CASE skill = "intermediate" -> 5 [] skill = "expert" -> 10
                  [] skill = "apt" -> 15 [] OTHER -> 0
AtMost(n, m) == IF n < m THEN n ELSE m
Largest(S)   == CHOOSE x \in S : \A y \in S : y <= x

(* _assess_category, for a category with a match.                           *)
Assess(category, found, skill) ==
    LET confidence == AtMost(100, Largest(found) + Boost(skill)) IN
    [category |-> category, confidence |-> confidence,
     risk |-> CASE confidence >= 80 -> 4 [] confidence \in 60 .. 79 -> 3
                [] confidence \in 40 .. 59 -> 2 [] OTHER -> 1]

(* A technique strengthens the threat of its category, whose risk stays, or *)
(* makes a medium one.                                                      *)
Observe(threats, ttp) ==
    LET same == {i \in DOMAIN threats : threats[i].category = Stride(ttp)} IN
    IF Stride(ttp) = "none" THEN threats
    ELSE IF same = {} THEN Append(threats, [category |-> Stride(ttp), confidence |-> 60, risk |-> 2])
    ELSE [threats EXCEPT ![CHOOSE i \in same : TRUE].confidence = AtMost(100, @ + 10)]

(* The threats analyze finds, those of the input first.                     *)
Threats(input) ==
    LET hit == SelectSeq(Categories, LAMBDA k : input.matched[k] # {}) IN
    FoldLeft(Observe, [i \in DOMAIN hit |-> Assess(hit[i], input.matched[hit[i]], input.skill)], input.ttps)

Weighted(threats) == FoldLeft(LAMBDA sum, t : sum + t.risk * t.confidence, 0, threats)

(* MUTANT: only the average counts. *)
OverallRisk_average(threats) ==
    LET mean(tenths) == 10 * Weighted(threats) >= 100 * tenths * Len(threats) IN
    CASE threats = <<>> -> "low"
      [] threats # <<>> /\ mean(35) -> "critical"
      [] threats # <<>> /\ ~mean(35) /\ mean(25) -> "high"
      [] OTHER -> IF mean(15) THEN "medium" ELSE "low"

(* _compute_overall_risk: the worst threat, or a high enough average.       *)
OverallRisk(threats) ==
    LET worst == IF threats = <<>> THEN 0 ELSE Largest({threats[i].risk : i \in DOMAIN threats})
        mean(tenths) == 10 * Weighted(threats) >= 100 * tenths * Len(threats)
    IN CASE threats = <<>> -> "low"
         [] threats # <<>> /\ (worst = 4 \/ mean(35)) -> "critical"
         [] threats # <<>> /\ worst # 4 /\ ~mean(35) /\ (worst = 3 \/ mean(25)) -> "high"
         [] OTHER -> IF mean(15) THEN "medium" ELSE "low"

(* high_risk_threats, and whether the harness emits a FINDING.              *)
HighRisk(threats) == SelectSeq(threats, LAMBDA t : t.risk >= 3)
Finding(input)    == OverallRisk(Threats(input)) \in {"high", "critical"}

-----------------------------------------------------------------------------
(* ThreatModelResponseVerifier.verify.  A response is [indicators, size]:   *)
(* the honeypot indicators in its text, and "empty", "curt" (< 20), "fit"   *)
(* or "long" (> 2000).  Confidence is what is left of 100, or 0.            *)
Issues(response) ==
    {<<"indicator", i>> : i \in response.indicators}
    \cup {<<"size", s>> : s \in {response.size} \cap {"long", "empty"}}

Left(response, skill) ==
    LET lost == 30 * Cardinality(response.indicators)
                + (CASE response.size = "long" -> 15 [] response.size = "empty" -> 20 [] OTHER -> 0)
                + (IF skill = "expert" /\ response.size \in {"empty", "curt"} THEN 5 ELSE 0)
    IN IF lost > 100 THEN 0 ELSE 100 - lost

Verify(response, skill) ==
    [passed |-> Left(response, skill) >= 50 /\ Issues(response) = {}, confidence |-> Left(response, skill)]

-----------------------------------------------------------------------------
KillChain == <<"reconnaissance", "resource_development", "initial_access", "execution",
               "persistence", "privilege_escalation", "defense_evasion", "credential_access",
               "discovery", "lateral_movement", "collection", "command_and_control",
               "exfiltration", "impact">>

(* build: the steps, [technique, tactic], in kill chain order and otherwise *)
(* as observed; a tactic that is not of the chain comes last.               *)
Chain(steps) ==
    LET of(i) == SelectSeq(steps, LAMBDA s : s.tactic = KillChain[i])
    IN FlattenSeq([i \in DOMAIN KillChain |-> of(i)])
       \o SelectSeq(steps, LAMBDA s : \A i \in DOMAIN KillChain : s.tactic # KillChain[i])

Phases(steps) == {s.tactic : s \in ToSet(steps)} \cap ToSet(KillChain)

(* _estimate_sophistication, as a rank: unknown, novice, intermediate,      *)
(* expert, apt.                                                             *)
Sophistication(steps) ==
    LET apt == {s.tactic : s \in ToSet(steps)}
               \cap {"defense_evasion", "credential_access", "lateral_movement", "exfiltration"}
    IN CASE Cardinality(apt) >= 3 /\ Len(steps) >= 10 -> 4
         [] (Cardinality(apt) < 3 \/ Len(steps) < 10) /\ (Cardinality(apt) >= 2 \/ Len(steps) >= 7) -> 3
         [] OTHER -> IF Len(steps) >= 3 THEN 2 ELSE Len(SubSeq(steps, 1, AtMost(1, Len(steps))))

Duration(steps) == CASE Len(steps) <= 3 -> "quick_probe" [] Len(steps) \in 4 .. 8 -> "focused_attack"
                     [] Len(steps) \in 9 .. 15 -> "extended_campaign" [] OTHER -> "persistent_presence"
=============================================================================
