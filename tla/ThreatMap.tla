------------------------------ MODULE ThreatMap ------------------------------
(***************************************************************************)
(* don/threat_mapper.py, the scoring of don/rag_engine.py and              *)
(* don/attack_heatmap.py as functions of what was seen of an attacker.     *)
(* What was seen is [observed, hints, named, ...]: the technique tags, the *)
(* tactics whose command or process keywords were found, the techniques    *)
(* whose names or phrases the texts hold.  Scores are in hundredths.       *)
(***************************************************************************)
EXTENDS Naturals, Sequences, FiniteSets, SequencesExt, FiniteSetsExt

(* _TECHNIQUE_TO_TACTIC; "none" for a technique that is not in the table.   *)
Listed ==
    [TA0001 |-> {"T1566", "T1190", "T1133", "T1078"},
     TA0002 |-> {"T1059", "T1059.001", "T1053", "T1055"},
     TA0003 |-> {"T1547", "T1543", "T1136"},
     TA0004 |-> {"T1548", "T1068"},
     TA0005 |-> {"T1027", "T1070", "T1036", "T1134"},
     TA0006 |-> {"T1003", "T1003.008", "T1552", "T1552.005", "T1110"},
     TA0007 |-> {"T1033", "T1046", "T1087", "T1018"},
     TA0008 |-> {"T1571", "T1021", "T1550"},
     TA0009 |-> {"T1005", "T1039"},
     TA0010 |-> {"T1041", "T1567"},
     TA0011 |-> {"T1071", "T1573", "T1102"},
     TA0040 |-> {"T1486", "T1489"}]
Tactic(technique) ==
    LET of == {tactic \in DOMAIN Listed : technique \in Listed[tactic]}
    IN IF of = {} THEN "none" ELSE CHOOSE tactic \in of : TRUE

(* _ACTOR_TECHNIQUES.                                                       *)
Actors ==
    [apt28      |-> {"T1566", "T1078", "T1059", "T1027", "T1003", "T1071", "T1573"},
     apt29      |-> {"T1566", "T1190", "T1078", "T1059", "T1547", "T1055", "T1027", "T1070"},
     apt41      |-> {"T1190", "T1059", "T1055", "T1027", "T1003", "T1041", "T1567"},
     lazarus    |-> {"T1566", "T1059", "T1053", "T1027", "T1071"},
     cozy_bear  |-> {"T1566", "T1078", "T1059", "T1547", "T1550"},
     fancy_bear |-> {"T1566", "T1078", "T1059", "T1027", "T1071"},
     hafnium    |-> {"T1190", "T1059", "T1078", "T1003", "T1021"},
     sandworm   |-> {"T1486", "T1489", "T1059", "T1027", "T1071"},
     fin7       |-> {"T1566", "T1059", "T1053", "T1055", "T1003"},
     darkside   |-> {"T1486", "T1059", "T1027", "T1070", "T1041"},
     revil      |-> {"T1486", "T1489", "T1059", "T1055", "T1041"}]

(* _TECHNIQUE_NAME_TO_ID and _PHRASE_PATTERNS: the ids a text can name whose*)
(* tactic is known; the others (T1203, T1082 and so on) are skipped.  The   *)
(* subtechniques stand with the technique their tactic comes from.          *)
Named ==
    {"T1566", "T1003", "T1110", "T1027", "T1021", "T1547", "T1053", "T1059", "T1068", "T1548",
     "T1046", "T1087", "T1005", "T1071", "T1041", "T1486", "T1489", "T1078", "T1036", "T1070",
     "T1033", "T1552", "T1134", "T1190", "T1571",
     "T1566.001", "T1547.001", "T1059.001", "T1548.003", "T1552.005", "T1003.008"}
Parent(technique) ==
    CASE technique = "T1566.001" -> "T1566" [] technique = "T1547.001" -> "T1547"
      [] technique = "T1059.001" -> "T1059" [] technique = "T1548.003" -> "T1548"
      [] technique = "T1552.005" -> "T1552" [] technique = "T1003.008" -> "T1003"
      [] OTHER -> technique

(* The tactics that _detect_from_commands and _detect_from_processes set.   *)
Hinted == {"TA0003", "TA0005", "TA0006", "TA0007", "TA0008", "TA0011"}

(* map_to_mitre: the tactics found, each with the same confidence, and the  *)
(* techniques found of each.                                                *)
Techniques(seen) == {t \in seen.observed : Tactic(t) # "none"} \cup (seen.named \cap Named)
Tactics(seen)    == {Tactic(Parent(t)) : t \in Techniques(seen)} \cup seen.hints
Under(seen, tactic) == {t \in Techniques(seen) : Tactic(Parent(t)) = tactic}
TacticConfidence(seen) ==
    Min({90, 50 + 10 * Cardinality({t \in seen.observed : Tactic(t) # "none"})})

(* The score of an actor in identify_actor: a tactic that was found counts  *)
(* as every technique listed under it.                                      *)
Match(seen, actor) ==
    LET proxies == UNION {Listed[tactic] : tactic \in Tactics(seen)} IN
    (100 * Cardinality((Techniques(seen) \cup proxies) \cap Actors[actor])) \div Cardinality(Actors[actor])

(* identify_actor: at most the five best, the earlier of equals first;      *)
(* those below 20 are left out.                                             *)
ActorOrder == <<"apt28", "apt29", "apt41", "lazarus", "cozy_bear", "fancy_bear", "hafnium",
                "sandworm", "fin7", "darkside", "revil">>
Identified(seen) ==
    {ActorOrder[i] : i \in {i \in DOMAIN ActorOrder :
        /\ Match(seen, ActorOrder[i]) >= 20
        /\ Cardinality({j \in DOMAIN ActorOrder :
                \/ Match(seen, ActorOrder[j]) > Match(seen, ActorOrder[i])
                \/ Match(seen, ActorOrder[j]) = Match(seen, ActorOrder[i]) /\ j < i}) < 5}}

(* calculate_sophistication_score: evasions and tools are the numbers seen, *)
(* duration the session's in minutes, signs the flags that were set.        *)
SignWeight == [credential_access |-> 10, lateral_movement |-> 15, encrypted_comms |-> 10, anti_analysis |-> 10]
SophisticationScore(seen) ==
    Min({100, Min({30, 5 * seen.evasions}) + Min({20, 3 * seen.tools})
              + (IF seen.minutes > 60 THEN 15 ELSE IF seen.minutes > 10 THEN 10 ELSE 0)
              + MapThenSumSet(LAMBDA s : SignWeight[s], seen.signs)})

(* generate_ioc_list: each key once, in the order of the entries.  A hash   *)
(* is lower-cased after its key was made, so two spellings give it twice.   *)
Spelled(ioc) == IF ioc.type \in {"sha256", "md5"} THEN [ioc EXCEPT !.upper = FALSE] ELSE ioc
Iocs(found) ==
    LET once == FoldLeft(LAMBDA known, ioc : IF Contains(known, ioc) THEN known ELSE Append(known, ioc), <<>>, found)
    IN [i \in DOMAIN once |-> Spelled(once[i])]

-----------------------------------------------------------------------------
(* _derive_severity, as a rank: info, low, medium, high, critical.          *)
Severity(class, confidence, sophistication) ==
    CASE class = "malicious" ->
            IF confidence > 80 /\ sophistication > 60 THEN 4 ELSE IF confidence > 60 THEN 3 ELSE 2
      [] class = "suspicious" -> IF confidence > 70 /\ sophistication > 50 THEN 3 ELSE 2
      [] OTHER -> 0

-----------------------------------------------------------------------------
(* The heatmap.  A matrix is the sequence of its tactics, [tactic,          *)
(* techniques]; ttps is a sequence of [technique, confidence], the          *)
(* technique as its id is once upper-cased and stripped.                    *)

(* MUTANT: the last confidence of a technique counts. *)
Confidence_last(ttps, technique) ==
    LET of == {i \in DOMAIN ttps : ttps[i].technique = technique}
    IN IF of = {} THEN 0 ELSE ttps[Max(of)].confidence

(* The score generate_layer gives a technique: the greatest of its own.     *)
Confidence(ttps, technique) ==
    Max({0} \cup {ttps[i].confidence : i \in {j \in DOMAIN ttps : ttps[j].technique = technique}})

Color(score) == CASE score >= 80 -> "red" [] score \in 60 .. 79 -> "orange"
                  [] score \in 40 .. 59 -> "yellow" [] score \in 1 .. 39 -> "green" [] OTHER -> ""

(* _build_technique_list: one entry for each listing of a technique, and    *)
(* none for a technique that the matrix does not list.                      *)
Layer(matrix, ttps) ==
    UNION {{[tactic |-> m.tactic, technique |-> t, score |-> Confidence(ttps, t), color |-> Color(Confidence(ttps, t))] :
                t \in m.techniques} : m \in ToSet(matrix)}

(* generate_tactic_summary: a technique counts for the last tactic that     *)
(* lists it, one that is not listed for its parent's.                       *)
LastListing(matrix, technique) ==
    LET of == {i \in DOMAIN matrix : technique \in matrix[i].techniques}
    IN IF of = {} THEN "none" ELSE matrix[Max(of)].tactic
SummaryTactic(matrix, technique) ==
    IF LastListing(matrix, technique) # "none" THEN LastListing(matrix, technique)
    ELSE LastListing(matrix, Parent(technique))
Summary(matrix, ttps) ==
    LET of(tactic) == SelectSeq(ttps, LAMBDA x : SummaryTactic(matrix, x.technique) = tactic)
    IN [tactic \in {SummaryTactic(matrix, ttps[i].technique) : i \in DOMAIN ttps} \ {"none"} |->
            [count |-> Len(of(tactic)), max |-> Max({x.confidence : x \in ToSet(of(tactic))})]]

(* generate_comparison_layer: the last confidence of a technique counts, as *)
(* the difference of the two profiles (above zero: more in a).              *)
Comparison(a, b) ==
    LET last(ttps, t) == LET of == {i \in DOMAIN ttps : ttps[i].technique = t}
                         IN IF of = {} THEN 0 ELSE ttps[Max(of)].confidence
    IN [t \in {x.technique : x \in ToSet(a \o b)} |->
            IF last(a, t) >= last(b, t) THEN [more |-> "a", by |-> last(a, t) - last(b, t)]
            ELSE [more |-> "b", by |-> last(b, t) - last(a, t)]]
=============================================================================
