------------------------------ MODULE CaseFile ------------------------------
(***************************************************************************)
(* What the program's analyses say of one session, as its log grows: the   *)
(* supervisor's routing (Coordination), the STRIDE and attack chain        *)
(* analysis (ThreatModel), the mapping, scoring and heatmap of Don         *)
(* (ThreatMap), and the parser that Chrollo reads the log with (Parsing).  *)
(* They are functions of the log, of session.build_context in the end;     *)
(* what a step does is append to it.  An entry is a batch of BatchOf       *)
(* interactions, with what was seen in them.                               *)
(***************************************************************************)
EXTENDS Coordination

CONSTANTS
    Batches,        \* what may be seen in a batch
    BatchOf,        \* interactions a batch stands for
    Matrix,         \* the tactics of _TACTIC_DEFS, of which it is a part
    Confidences,    \* of Chrollo's classification, in hundredths
    MaxBatches      \* bound: the length of the log

VARIABLE batches

Map    == INSTANCE ThreatMap
Stride == INSTANCE ThreatModel
Parser == INSTANCE Parsing

All(f(_), of) == UNION {f(of[i]) : i \in DOMAIN of}
Joined(f(_), of) == FlattenSeq([i \in DOMAIN of |-> f(of[i])])
Observed(log) == All(LAMBDA b : ToSet(b.ttps), log)

(* route's arguments: build_context's count and techniques, and the last    *)
(* classification.  build_context has no "evasion_detected".                *)
Situation(log) ==
    [skill   |-> IF log = <<>> THEN "novice" ELSE Last(log).skill,
     sure    |-> log # <<>> /\ Last(log).sure,
     depth   |-> BatchOf * Len(log), evasion |-> FALSE, ttps |-> Observed(log)]

(* The features of an AnalysisRequest.                                      *)
Seen(log) ==
    [observed |-> Observed(log), hints |-> All(LAMBDA b : b.hints, log) \cap Map!Hinted,
     named    |-> All(LAMBDA b : b.named, log), signs |-> All(LAMBDA b : b.signs, log),
     evasions |-> 3 * Len(log), tools |-> 2 * Len(log), minutes |-> 20 * Len(log)]

Steps(log)  == Joined(LAMBDA b : [i \in DOMAIN b.ttps |-> [technique |-> b.ttps[i], tactic |-> b.tactic]], log)
Ttps(log)   == Joined(LAMBDA b : [i \in DOMAIN b.ttps |-> [technique |-> b.ttps[i], confidence |-> b.sureness]], log)
Found(log)  == Joined(LAMBDA b : b.iocs, log)
Lines(log)  == Joined(LAMBDA b : b.lines, log)
Commands(log) == SelectSeq(Lines(log), LAMBDA l : l.kind = "command")

(* What the threat modeler gets: an input, with the session's techniques.   *)
InputOn(log, matched) ==
    [matched |-> matched, skill |-> "novice",
     ttps |-> FoldLeft(LAMBDA known, t : IF Contains(known, t) THEN known ELSE Append(known, t),
                       <<>>, Joined(LAMBDA b : b.ttps, log))]
Matches ==
    {[k \in DOMAIN Stride!Patterns |-> IF k \in hit THEN Stride!Patterns[k] ELSE {}] :
        hit \in SUBSET DOMAIN Stride!Patterns}

Init == batches = <<>>

(* Session.emit, as often as the batch has events.                          *)
Emit == Len(batches) < MaxBatches /\ \E b \in Batches : batches' = Append(batches, b)

Next == Emit
vars == batches
Spec == Init /\ [][Next]_vars

Appended == batches' # batches

(* A tactic's place in the kill chain, last for one that is not of it.      *)
Stage(tactic) ==
    IF Contains(Stride!KillChain, tactic) THEN Rank(Stride!KillChain, tactic) ELSE Len(Stride!KillChain) + 1
Durations == <<"quick_probe", "focused_attack", "extended_campaign", "persistent_presence">>

(* The parsed session as data, under the n-th of the names of each field.   *)
Data(session, n) ==
    LET items(s) == [i \in DOMAIN s |-> [form |-> "dict", at |-> s[i].at, what |-> s[i].what]]
        value    == [session_id |-> session.session_id, source_ip |-> session.source_ip,
                     start_time |-> session.start, end_time |-> session.end, commands |-> items(session.commands),
                     file_operations |-> items(session.files), network_activity |-> items(session.network)]
        name(f)  == Parser!Aliases[f][IF n > Len(Parser!Aliases[f]) THEN Len(Parser!Aliases[f]) ELSE n]
    IN [x \in {name(f) : f \in DOMAIN value} |-> value[CHOOSE f \in DOMAIN value : name(f) = x]]

-----------------------------------------------------------------------------
(* A supervisor never becomes less cautious as the log grows, unless the    *)
(* classification does: the risk does not fall, a session whose responses   *)
(* need a vote goes on needing one, one that an expert was asked about is   *)
(* still one to ask about, and what was escalated still is                  *)
(* (coordination.py:268-417).                                               *)
NeverLessCautious == [][
    (/\ Appended
     /\ Rank(Skills, Situation(batches').skill) >= Rank(Skills, Situation(batches).skill)
     /\ Situation(batches).sure => Situation(batches').sure) =>
        /\ Rank(Risks, Risk(Situation(batches'))) >= Rank(Risks, Risk(Situation(batches)))
        /\ NeedsVoting(Situation(batches)) => NeedsVoting(Situation(batches'))
        /\ ExpertDomain(Situation(batches)) # "" => ExpertDomain(Situation(batches')) # ""
        /\ Enrichments(Situation(batches)) \subseteq Enrichments(Situation(batches'))
        /\ Route(Situation(batches), "").route = "escalate" => Route(Situation(batches'), "").route = "escalate"]_batches

(* What Don found of a session it does not lose as the log grows: tactics   *)
(* and techniques, each actor's score, the sophistication and with it the   *)
(* severity, the indicators and their order, the heat of each technique and *)
(* the counts of the summary.  An actor leaves the list of the identified   *)
(* only to better ones, the comparison of two profiles says the same from   *)
(* both sides, and what Chrollo counts of the commands does not go down     *)
(* (threat_mapper.py:147-328, rag_engine.py:313, attack_heatmap.py:932-1155,*)
(* features.py:60-148).                                                     *)
EvidenceKept == [][Appended =>
    LET old == Seen(batches)  new == Seen(batches') IN
    /\ Map!Tactics(old) \subseteq Map!Tactics(new)
    /\ Map!TacticConfidence(old) <= Map!TacticConfidence(new)
    /\ \A tactic \in Map!Tactics(old) : Map!Under(old, tactic) \subseteq Map!Under(new, tactic)
    /\ \A a \in DOMAIN Map!Actors : Map!Match(old, a) <= Map!Match(new, a)
    /\ \A a \in Map!Identified(old) \ Map!Identified(new) :
          \A b \in Map!Identified(new) : Map!Match(new, b) >= Map!Match(new, a)
    /\ \A class \in {"benign", "suspicious", "malicious"}, c \in Confidences :
          Map!Severity(class, c, Map!SophisticationScore(old)) <= Map!Severity(class, c, Map!SophisticationScore(new))
    /\ IsPrefix(Map!Iocs(Found(batches)), Map!Iocs(Found(batches')))
    /\ \A x \in Map!Layer(Matrix, Ttps(batches)) : \E y \in Map!Layer(Matrix, Ttps(batches')) :
          <<x.tactic, x.technique>> = <<y.tactic, y.technique>> /\ x.score <= y.score
    /\ \A tactic \in DOMAIN Map!Summary(Matrix, Ttps(batches)) :
          Map!Summary(Matrix, Ttps(batches))[tactic].count <= Map!Summary(Matrix, Ttps(batches'))[tactic].count
    /\ LET ab == Map!Comparison(Ttps(batches), Ttps(batches'))
           ba == Map!Comparison(Ttps(batches'), Ttps(batches))
       IN \A t \in Observed(batches') : ab[t].by = ba[t].by /\ (ab[t].more = ba[t].more <=> ab[t].by = 0)
    /\ LET f == Parser!Features(Commands(batches))  g == Parser!Features(Commands(batches'))
       IN f.scan <= g.scan /\ \A m \in DOMAIN f.marks : f.marks[m] <= g.marks[m]
    ]_batches

(* More techniques never turn a finding off, nor a threat of a high risk,   *)
(* although the average that the risk is partly made of may fall, and never *)
(* make the attacker of the chain look less able or his attack shorter.  The*)
(* chain has each step once, sorted by the kill chain, those of a tactic as *)
(* they were observed.  An answer that shows more indicators of a honeypot, *)
(* or is for an expert, is not trusted more (threat_modeling.py:340-466,    *)
(* 561-631, 674-836).                                                       *)
FindingStays == [][Appended =>
    LET old == Stride!Chain(Steps(batches))  new == Stride!Chain(Steps(batches'))
        of(steps, tactic) == SelectSeq(steps, LAMBDA s : s.tactic = tactic)
        high(log, m) == {t.category : t \in ToSet(Stride!HighRisk(Stride!Threats(InputOn(log, m))))}
    IN
    /\ \A m \in Matches :
          /\ Stride!Finding(InputOn(batches, m)) => Stride!Finding(InputOn(batches', m))
          /\ high(batches, m) \subseteq high(batches', m)
    /\ Stride!Sophistication(old) <= Stride!Sophistication(new)
    /\ Rank(Durations, Stride!Duration(old)) <= Rank(Durations, Stride!Duration(new))
    /\ Stride!Phases(old) \subseteq Stride!Phases(new)
    /\ Len(new) = Len(Steps(batches'))
    /\ \A s \in ToSet(Steps(batches')) : of(new, s.tactic) = of(Steps(batches'), s.tactic)
    /\ \A i, j \in DOMAIN new : i < j => Stage(new[i].tactic) <= Stage(new[j].tactic)
    /\ \A shown \in SUBSET (1 .. 4), size \in {"empty", "curt", "fit", "long"}, skill \in ToSet(Skills) :
          LET seen(n, level) == Stride!Verify([indicators |-> {i \in shown : i <= n}, size |-> size], level)
          IN /\ seen(4, skill).confidence <= seen(2, skill).confidence /\ (seen(4, skill).passed => seen(2, skill).passed)
             /\ seen(4, "expert").passed => seen(4, skill).passed]_batches

(* The parser reads each command of the log once and in order, and its      *)
(* session spans exactly their times, in whatever order they were logged;   *)
(* given as data, under any of their names, the same session comes out; and *)
(* no feature of it leaves its range (session_parser.py:88-115, 144-183,    *)
(* features.py:60-148).                                                     *)
SpanIsOfCommands ==
    LET session  == Parser!Parse(Lines(batches), 0, FALSE)
        commands == Commands(batches)
        times    == {c.at : c \in ToSet(commands)}
        features == Parser!Features(commands)
    IN /\ ~session.raised =>
            /\ session.commands = [i \in DOMAIN commands |-> Parser!Entry(commands[i])]
            /\ commands # <<>> => session.start = Parser!Min(times) /\ session.end = Parser!Max(times)
            /\ \A n \in 1 .. 4 :
                  LET read == Parser!Normalize(Data(session, n), 99) IN
                  /\ read.commands = session.commands /\ read.network_activity = session.network
                  /\ read.file_operations = session.files /\ read.session_id = session.session_id
                  /\ read.start_time = session.start /\ read.end_time = session.end
       /\ {features.complexity, features.diversity, features.unique} \subseteq 0 .. 100
       /\ Len(commands) <= 2 => ~features.irregular
=============================================================================
