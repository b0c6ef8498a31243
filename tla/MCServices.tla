----------------------------- MODULE MCServices -----------------------------
(***************************************************************************)
(* The components around the sandbox and the gateways, for TLC.  They      *)
(* share no state, so that one behaviour is of one of them (which): their  *)
(* state spaces add up instead of multiplying, and one run checks all.     *)
(* Each is an instance of its module with bounds small enough to be        *)
(* searched and large enough for what its properties are about.            *)
(***************************************************************************)
EXTENDS Components, Edges, Completions

VARIABLES
    which,
    engine, read, planted, last,
    turns, evolution,
    ticks, metered, timings, current, interactions, all,
    batches,
    stored, index, storeDisk, storeSaving, torn,
    documents, byTactic, byActor, embeddings, moved, kept, bundle, catalog,
    doing, strict, response, votes, made, emitted, returned, chain, outputs

-----------------------------------------------------------------------------
(* A supervisor finds one situation calm, and one that calls for an expert  *)
(* and a vote.                                                              *)
ModeSituations ==
    {[skill |-> "novice", sure |-> FALSE, depth |-> 1, evasion |-> FALSE, ttps |-> {}],
     [skill |-> "expert", sure |-> TRUE, depth |-> 20, evasion |-> FALSE, ttps |-> {"T1003"}]}

(* Five batches, of a scan to an exfiltration; the times of the commands    *)
(* are not in order, and one has a line the parser raises on.               *)
Plain == [skill |-> "novice", sure |-> FALSE, ttps |-> <<>>, hints |-> {}, named |-> {}, signs |-> {},
          tactic |-> "discovery", sureness |-> 50, iocs |-> <<>>, lines |-> <<>>]
Cmd(t) == [kind |-> "command", at |-> t, what |-> "ls", binary |-> "ls", tokens |-> 30,
           marks |-> [scan |-> 1, persistence |-> t, lateral |-> 1, escalation |-> 0, credential |-> 6, custom |-> 0]]
Hash(upper) == [type |-> "md5", value |-> "h", upper |-> upper]
CaseBatches == {
    [Plain EXCEPT !.ttps = <<"T1595">>, !.lines = <<Cmd(5), [kind |-> "file", at |-> 1, what |-> "f"]>>],
    [Plain EXCEPT !.skill = "intermediate", !.ttps = <<"T1003", "T1059.001">>, !.named = {"T1003.008"},
        !.tactic = "credential_access", !.hints = {"TA0006"}, !.sureness = 90,
        !.lines = <<[kind |-> "session_id", at |-> 0, what |-> "s1"], Cmd(3)>>, !.iocs = <<Hash(TRUE)>>],
    [Plain EXCEPT !.skill = "advanced", !.sure = TRUE, !.ttps = <<"T1562", "T1003", "T1571">>,
        !.tactic = "lateral_movement", !.signs = {"lateral_movement", "anti_analysis"}, !.sureness = 30,
        !.lines = <<Cmd(7), Cmd(2), [kind |-> "unreadable", at |-> 0, what |-> ""]>>,
        !.iocs = <<Hash(FALSE), [type |-> "ip", value |-> "a", upper |-> FALSE]>>],
    [Plain EXCEPT !.skill = "expert", !.sure = TRUE, !.ttps = <<"T1190", "T1569">>,
        !.tactic = "exfiltration", !.lines = <<[kind |-> "network", at |-> 9, what |-> "n"]>>],
    [Plain EXCEPT !.lines = <<[kind |-> "bad_port", at |-> 9, what |-> "n"]>>]}
CaseMatrix == <<[tactic |-> "TA0001", techniques |-> {"T1190", "T1566"}],
                [tactic |-> "TA0006", techniques |-> {"T1003", "T1110", "T1003.008"}],
                [tactic |-> "TA0009", techniques |-> {"T1110"}]>>

(* Three papers: one like the query without its terms, one unlike it that   *)
(* has them, and one between.                                               *)
StorePapers     == {"a", "b", "c"}
StoreSimilarity == [a |-> 50, b |-> -20, c |-> 0]
StoreTerms      == [a |-> 0, b |-> 2, c |-> 1]

(* A bundle of a technique, a group and a revoked technique.                *)
Stix(id, external, type, revoked, tactics, says) ==
    [id |-> id, external |-> external, type |-> type, revoked |-> revoked, tactics |-> tactics, says |-> says]
CorpusObjects ==
    <<Stix("o1", "T1059", "attack-pattern", FALSE, {"execution"},
           [name |-> {"scripting"}, description |-> {"shell"}, tactics |-> {"execution"}, aliases |-> {"no"}]),
      Stix("o2", "G0007", "intrusion-set", FALSE, {},
           [name |-> {"apt28"}, aliases |-> {"bear"}, description |-> {"shell"}]),
      Stix("o3", "T9", "attack-pattern", TRUE, {"impact"}, [name |-> {"old"}])>>
Doc(id, words, tactics, actors) == [doc_id |-> id, words |-> words, tactics |-> tactics, actors |-> actors]
CorpusCampaigns == <<Doc("c1", {"salt", "shell"}, {}, {})>>
CorpusExtras    == {<<Doc("x1", {"shell", "scripting"}, {"execution", "impact"}, {"bear"})>>}

(* A server with an event it cannot be parsed of, and a blog whose posts    *)
(* have neither address nor title.                                          *)
Item(title, url, date, bad) == [title |-> title, url |-> url, date |-> date, bad |-> bad]
FeedConnectors ==
    <<[name |-> "misp", kind |-> "misp", published |-> <<Item("e", "/1", 1, FALSE), Item("f", "/2", 2, TRUE)>>],
      [name |-> "blog", kind |-> "rss",
       published |-> <<Item("Untitled", "", 1, FALSE), Item("Untitled", "", 2, FALSE)>>]>>

(* Two that ask the same, a scanner, a visit of a lure; two analyses, one   *)
(* of them without the key.                                                 *)
Request(route, session, input, scans, key) ==
    [route |-> route, session |-> session, input |-> input, persona |-> "novice", scans |-> scans, key |-> key]
ServedRequests ==
    {Request("deceive", "a", "ls", FALSE, FALSE), Request("deceive", "b", "ls", FALSE, FALSE),
     Request("openai", "c", "nmap", TRUE, FALSE), Request("lure", "d", "HTTP", FALSE, FALSE),
     Request("analyze", "a", "", FALSE, TRUE), Request("analyze", "b", "", FALSE, FALSE)}

(* A response that leaks, and one that looks like an error and has no       *)
(* persona; a reviewer who approves of anything and puts in a worse text,   *)
(* and one who raises.                                                      *)
Text(marks, size) == [marks |-> marks, size |-> size]
PanelProposals ==
    {[text |-> Text({"leak"}, "fit"), persona |-> "sysadmin"], [text |-> Text({"error"}, "brief"), persona |-> ""]}
PanelOthers ==
    {[outcome |-> "pass",  confidence |-> 4, says |-> Text({"giveaway"}, "fit")],
     [outcome |-> "error", confidence |-> 0, says |-> Text({}, "")]}

-----------------------------------------------------------------------------
Tokens  == INSTANCE HoneytokenEngine WITH MaxPlants <- 2, MaxAlerts <- 3
Track   == INSTANCE TurnTracking WITH Ttps <- {"T1003", "T1059"}, Severities <- {0, 2}, MaxTurns <- 4
Meter   == INSTANCE Measuring WITH Sessions <- Threads, Stages <- {"response"}, MaxTicks <- 3, MaxTimed <- 2,
                                   MaxInteractions <- 2, call <- metered
Board   == INSTANCE Panel WITH Proposals <- PanelProposals, Others <- PanelOthers, Reviewers <- 3,
                               VoteThreshold <- 6, ReviewThreshold <- 3, MaxRetries <- 1, ChainLength <- 3,
                               result <- returned, steps <- chain
Case    == INSTANCE CaseFile WITH Batches <- CaseBatches, BatchOf <- 8, Matrix <- CaseMatrix,
                                  Confidences <- {50, 65, 75, 90}, MaxBatches <- 3
Store   == INSTANCE VectorStore WITH Papers <- StorePapers, Similarity <- StoreSimilarity, Terms <- StoreTerms,
                                     MaxStored <- 2, disk <- storeDisk, saving <- storeSaving
Cti     == INSTANCE Corpus WITH Objects <- CorpusObjects, Campaigns <- CorpusCampaigns, Extras <- CorpusExtras,
                                Queries <- {{"shell", "scripting"}}, MaxDocuments <- 4

ASSUME Assumptions ==
    /\ Track!TurnsAssumption /\ Board!PanelAssumption

tokenVars   == <<engine, read, planted, last>>
trackVars   == <<turns, evolution>>
meterVars   == <<ticks, metered, timings, current, interactions, all>>
boardVars   == <<doing, strict, response, votes, made, emitted, returned, chain, outputs>>
caseVars    == <<batches>>
storeVars   == <<stored, index, storeDisk, storeSaving, torn>>
ctiVars     == <<documents, byTactic, byActor, embeddings, moved, kept, bundle, catalog>>

Still(name) ==
    CASE name = "tokens"  -> UNCHANGED tokenVars
      [] name = "deceive" -> UNCHANGED deceiveVars
      [] name = "guard"   -> UNCHANGED guardVars
      [] name = "rate"    -> UNCHANGED rateVars
      [] name = "roll"    -> UNCHANGED rollVars
      [] name = "siem"    -> UNCHANGED siemVars
      [] name = "model"   -> UNCHANGED modelVars
      [] name = "modes"   -> UNCHANGED modesVars
      [] name = "track"   -> UNCHANGED trackVars
      [] name = "intel"   -> UNCHANGED intelVars
      [] name = "post"    -> UNCHANGED postVars
      [] name = "case"    -> UNCHANGED caseVars
      [] name = "store"   -> UNCHANGED storeVars
      [] name = "cti"     -> UNCHANGED ctiVars
      [] name = "feed"    -> UNCHANGED feedVars
      [] name = "serve"   -> UNCHANGED serveVars
      [] name = "meter"   -> UNCHANGED meterVars
      [] name = "board"   -> UNCHANGED boardVars
      [] name = "chunks"  -> UNCHANGED chunkVars
      [] name = "bill"    -> UNCHANGED billVars

Names == {"tokens", "deceive", "guard", "rate", "roll", "siem", "model", "modes",
          "track", "intel", "post", "case", "store", "cti", "feed", "serve", "meter", "board", "chunks", "bill"}
On(name)   == which = name
Rest(name) == UNCHANGED which /\ \A other \in Names \ {name} : Still(other)

Init ==
    /\ which \in Names
    /\ Tokens!Init /\ Deceive!Init /\ Guard!Init /\ Rate!Init /\ Roll!Init /\ Siem!Init
    /\ Model!Init /\ Modes!Init /\ Track!Init /\ Intel!Init /\ Post!Init /\ Case!Init
    /\ Store!Init /\ Cti!Init /\ Feed!Init /\ Serve!Init
    /\ Meter!Init /\ Board!Init /\ Chunks!Init /\ Bill!Init
    /\ which # "board" => response.persona = ""
    /\ which # "serve" => component = "hisoka"
    /\ which # "modes" => verifier = "own"

Next ==
    \/ On("tokens")  /\ Tokens!Next  /\ Rest("tokens")
    \/ On("deceive") /\ Deceive!Next /\ Rest("deceive")
    \/ On("guard")   /\ Guard!Next   /\ Rest("guard")
    \/ On("rate")    /\ Rate!Next    /\ Rest("rate")
    \/ On("roll")    /\ Roll!Next    /\ Rest("roll")
    \/ On("siem")    /\ Siem!Next    /\ Rest("siem")
    \/ On("model")   /\ Model!Next   /\ Rest("model")
    \/ On("modes")   /\ Modes!Next   /\ Rest("modes")
    \/ On("track")   /\ Track!Next   /\ Rest("track")
    \/ On("intel")   /\ Intel!Next   /\ Rest("intel")
    \/ On("post")    /\ Post!Next    /\ Rest("post")
    \/ On("case")    /\ Case!Next    /\ Rest("case")
    \/ On("store")   /\ Store!Next   /\ Rest("store")
    \/ On("cti")     /\ Cti!Next     /\ Rest("cti")
    \/ On("feed")    /\ Feed!Next    /\ Rest("feed")
    \/ On("serve")   /\ Serve!Next   /\ Rest("serve")
    \/ On("meter")   /\ Meter!Next   /\ Rest("meter")
    \/ On("board")   /\ Board!Next   /\ Rest("board")
    \/ On("chunks")  /\ Chunks!Next  /\ Rest("chunks")
    \/ On("bill")    /\ Bill!Next    /\ Rest("bill")

vars == <<which, tokenVars, deceiveVars, guardVars, rateVars, rollVars, siemVars, modelVars, modesVars,
          trackVars, intelVars, postVars, caseVars, storeVars, ctiVars, feedVars, serveVars,
          meterVars, boardVars, chunkVars, billVars>>

Spec == Init /\ [][Next]_vars

-----------------------------------------------------------------------------
(* hisoka/honeytokens.py: every use of a live token that the engine can see *)
(* raises an alert, whatever was planted, cleared and planted again between.*)
UsesFire == On("tokens") => Tokens!UsesFire

(* hisoka/session_manager.py:67: no update of a session is missing in its   *)
(* count unless two calls were in the session at once.                      *)
CountsEveryUpdate == On("deceive") => Deceive!CountsEveryUpdate

(* hisoka/deception.py:588-660: no danger signal of the model reaches the   *)
(* attacker, in the first answer, in the retry, or in the template.         *)
SafeAnswers == On("deceive") => Deceive!SafeAnswers

(* hisoka/memory.py:389-412: of an attacker that was reported as forgotten  *)
(* none of the memories that were listed is left.                           *)
ForgottenIfTold == On("deceive") => Deceive!ForgottenIfTold

(* utils.py:148-214: the budgets are overshot by no more than the calls     *)
(* under way can cost, and the daily counter is of the day.                 *)
(* llm-gateway/src/gateway.rs:484-499, gateway/client.py:52-145: the ledgers*)
(* of the gateway agree with what was answered, and what its callers are    *)
(* told of differs from it by answers that nobody heard, or asked for twice.*)
BudgetKept ==
    /\ On("guard") => Guard!OvershootBounded /\ Guard!DailyIsToday
    /\ On("bill")  => Bill!LedgersReconcile /\ Bill!ToldIsBounded

(* utils.py:52-104: after enough failures calls are blocked until the       *)
(* timeout, though other threads' late answers come in.                     *)
BlocksAfterFailures == On("guard") => Guard!BlocksAfterFailures

(* The three limiters of rates: the token bucket of utils.py:235-247, the   *)
(* window of adaptive_response.py:55-64 and the pause between escalations   *)
(* of chrollo/pipeline.py:145-150.  None lets more through than it is set   *)
(* to, the last one per thread.                                             *)
RatesBounded ==
    /\ On("rate")  => Rate!RateBounded
    /\ On("intel") => Intel!WindowBounded
    /\ On("post")  => Post!EscalationsPaced

(* rollout/manager.py:34-159: no version that its last comparison found to  *)
(* be worse goes on to the next stage, across rollbacks and restarts, and   *)
(* the stage is where the history leads, whatever the crash and the restart *)
(* made of the file.                                                        *)
NoAdvanceOnRegression ==
    /\ Roll!NoAdvanceOnRegression
    /\ [](On("roll") => Roll!HistoryLeadsToStage)

(* siem/elasticsearch.py:73-123, splunk.py:62-105: only an event that was   *)
(* appended during a flush can vanish, duplicates are bounded, and the      *)
(* counters account for every event that no flush overlapped.               *)
(* llm-gateway/src/gateway.rs:186-262, clients.rs:252-313: a streamed answer*)
(* arrives but for the lines that shared a frame, and counts by its chunks. *)
Delivered ==
    /\ On("siem")   => Siem!OnlyLateVanish /\ Siem!DuplicatesBounded /\ Siem!Accounted
    /\ On("chunks") => Chunks!LostLinesShared /\ Chunks!OvershootByChunks

(* chrollo/classifier.py:69-193: a session is scaled as the model that      *)
(* judges it was trained, but for a call that a training or a crash between *)
(* the two files got in the way of.                                         *)
ScaledAsTrained == On("model") => Model!ScaledAsTrained

(* cycle/harness.py:196-455: a stage that raises costs its result, not the  *)
(* answer, but for the routing.  gateway/client.py:92-108: the same of the  *)
(* second try of a completion, which the gateway's cache makes a vain one.  *)
StagesContained ==
    /\ On("modes") => Modes!StagesContained
    /\ On("bill")  => Bill!AnsweredNeverRaises

(* cycle/harness.py:253-271: what is sent as passed is what was verified.   *)
PassedIsAnswered == On("modes") => Modes!PassedIsAnswered

(* cycle/harness.py:556-565: after every call the harness has its own       *)
(* verifier again, and each call was judged by the verifier it brought.     *)
VerifierRestored == On("modes") => Modes!VerifierRestored

(* cycle/multi_turn.py:39-244: what is kept turn by turn of a technique     *)
(* agrees with the turns themselves, and the summary with both.             *)
(* cycle/metrics.py: no moment of a call is counted in two of its stages,   *)
(* and a session's metrics and the global ones are of the same calls.       *)
EvolutionsAgree ==
    /\ On("track") => Track!EvolutionsAgree
    /\ On("meter") => Meter!TimesAreDisjoint /\ Meter!MetricsAgree

(* cycle/coordination.py:518-630, 770-1004: the vote says what the reviewers*)
(* said, and one more of them never speaks against himself; what a review   *)
(* returns passed or is flagged; a delegation chain runs in order.          *)
PanelDecides ==
    /\ Board!VotesSpeakForThemselves
    /\ [](On("board") => Board!VoteIsTheReviewers /\ Board!ReturnedIsReviewed /\ Board!ChainIsOrdered)

(* intelligence/evasion_detector.py:222-259: what the detector holds        *)
(* against a session does not fade.                                         *)
DetectionNeverFades == Intel!DetectionNeverFades

(* cycle/coordination.py and threat_modeling.py: as the log grows, neither  *)
(* the supervisor nor the threat model becomes less cautious.               *)
NeverLessCautious == Case!NeverLessCautious /\ Case!FindingStays

(* don/threat_mapper.py, attack_heatmap.py: what Don found of an attacker   *)
(* it does not lose as the log grows.  chrollo/session_parser.py:63-129: of *)
(* each log, the parsed session has every command and spans exactly their   *)
(* times, in whatever order they come.                                      *)
EvidenceKept ==
    /\ Case!EvidenceKept
    /\ [](On("case") => Case!SpanIsOfCommands)

(* don/vector_store.py, rag_engine.py, lightrag_adapter.py: whatever was    *)
(* added, saved, lost and loaded, a search finds what is there, and returns *)
(* the document that it found.                                              *)
KnowledgeIsFound ==
    /\ On("store") => Store!FoundIsOwn
    /\ On("cti")   => Cti!CorpusIsFound

(* don/cti_feeds.py:543-583: an item of the feeds is returned to one caller *)
(* and once, until the cache is cleared.                                    *)
FedOnce == On("feed") => Feed!FedOnce

(* server.py:81-171, 323-603: an answer is of the session that asked, and   *)
(* not one another session was given; it is in the audit log once, under    *)
(* the session it names; and the cache keeps to its size.                   *)
AnswersAreOwn ==
    On("serve") => Serve!AnswersAreOwn /\ Serve!AnswersAreAudited /\ Serve!CacheBounded
=============================================================================
