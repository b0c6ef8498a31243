------------------------------- MODULE Hisoka -------------------------------
(***************************************************************************)
(* hisoka/: the deception pipeline (pipeline.py) over its session manager  *)
(* (session_manager.py and the SessionManager of deception.py), the        *)
(* deceiver with its response generator and honeytoken engines, and the    *)
(* attacker memory (memory.py).  All of it is called from worker threads   *)
(* without a lock; a step is what a thread does between two points where   *)
(* another one's changes can be seen.                                      *)
(*                                                                         *)
(* The deceiver's budget and breaker cannot refuse: the model it is priced *)
(* with is free and it reports no failure; the static answers are left out.*)
(* All sessions are of one attacker.  A text is the set of the marks that  *)
(* tell texts apart: "output", "danger" (a pattern of                      *)
(* _DANGER_SIGNAL_PATTERNS), "lead" (the opening of a line of reasoning,   *)
(* which the filter matches) and "thought" (the rest of that line).        *)
(***************************************************************************)
EXTENDS Honeytokens, FiniteSets, Functions

CONSTANTS
    Sids,           \* session ids
    Calls,          \* worker threads
    MayExpire,      \* the session manager was given a ttl_s
    MaxCalls,       \* bound: calls begun
    MaxMemories     \* bound: memories made

VARIABLES
    sessions,       \* SessionManager._sessions, a function on the ids it holds
    expired,        \* ids of it whose ttl has passed
    histories,      \* _histories[s]: the number of interactions
    engagement,     \* _command_counts[s] of the EngagementTracker
    engines,        \* _honeytoken_engines, a function on the ids it holds
    memory,         \* ids of the memories of the attacker
    call,           \* call[c]: where thread c is, and its locals
    forget,         \* a call of delete_attacker
    answers,        \* history: the last answer to s, and the input it answers
    overlapped,     \* history: sessions that two calls were in at once
    spent           \* what is used up of the bounds

store == <<sessions, expired, histories>>
vars  == <<store, engagement, engines, memory, call, forget, answers, overlapped, spent>>

(* The keys of _PERSONA_CONFIGS; select refuses any other level.            *)
Levels   == {"novice", "intermediate", "expert", "advanced", "apt"}
Selects(level) == level \in Levels

Idle     == [pc |-> "idle", op |-> "", sid |-> "", level |-> "", count |-> 0, bumps |-> 0]
NoForget == [pc |-> "idle", todo |-> {}, seen |-> {}, count |-> 0]
Fresh    == [level |-> "novice", count |-> 0, closed |-> FALSE]

Init ==
    /\ sessions = <<>> /\ expired = {} /\ histories = [s \in Sids |-> 0]
    /\ engagement = [s \in Sids |-> 0] /\ engines = <<>>
    /\ memory = {} /\ call = [c \in Calls |-> Idle] /\ forget = NoForget
    /\ answers = <<>> /\ overlapped = {} /\ spent = [calls |-> 0, memories |-> 0]

At(c, pc)  == call[c].pc = pc
Go(c, pc)  == call' = [call EXCEPT ![c].pc = pc]
Return(c)  == call' = [call EXCEPT ![c] = Idle]
Live(s)    == s \in DOMAIN sessions /\ s \notin expired

(* get: an expired session is deleted by whoever finds it.                  *)
Get(s) ==
    /\ sessions' = IF Live(s) THEN sessions ELSE Restrict(sessions, DOMAIN sessions \ {s})
    /\ expired'  = expired \ {s}

Expire(s) ==
    /\ MayExpire /\ Live(s)
    /\ expired' = expired \cup {s}
    /\ UNCHANGED <<sessions, histories, engagement, engines, memory, call,
                   forget, answers, overlapped, spent>>

-----------------------------------------------------------------------------
(* handle_attacker_input, process_don_analysis and end_session.             *)
Begin(c, op, s, level) ==
    /\ At(c, "idle") /\ spent.calls < MaxCalls
    /\ spent' = [spent EXCEPT !.calls = @ + 1]
    /\ call'  = [call EXCEPT ![c] = [Idle EXCEPT !.pc = "get", !.op = op, !.sid = s, !.level = level]]
    /\ overlapped' = IF \E d \in Calls : call[d].sid = s
                     THEN overlapped \cup {s} ELSE overlapped
    /\ UNCHANGED <<store, engagement, engines, memory, forget, answers>>

InputGets(c) ==
    LET s == call[c].sid IN
    /\ At(c, "get") /\ call[c].op = "input"
    /\ Get(s)
    /\ IF Live(s)
       THEN call' = [call EXCEPT ![c].pc = "count", ![c].level = sessions[s].level, ![c].bumps = 1]
       ELSE call' = [call EXCEPT ![c].pc = "create"]
    /\ UNCHANGED <<histories, engagement, engines, memory, forget, answers, overlapped, spent>>

(* MUTANT: the history of an earlier session of that id is kept. *)
Creates_keeps_history(c) ==
    LET s == call[c].sid IN
    /\ At(c, "create")
    /\ sessions'  = [d \in DOMAIN sessions \cup {s} |-> IF d = s THEN Fresh ELSE sessions[d]]
    /\ expired'   = expired \ {s}
    /\ call' = [call EXCEPT ![c].pc = "count", ![c].level = "novice", ![c].bumps = 1]
    /\ UNCHANGED <<histories, engagement, engines, memory, forget, answers, overlapped, spent>>

(* create_session replaces a session that another call created meanwhile.   *)
Creates(c) ==
    LET s == call[c].sid IN
    /\ At(c, "create")
    /\ sessions'  = [d \in DOMAIN sessions \cup {s} |-> IF d = s THEN Fresh ELSE sessions[d]]
    /\ expired'   = expired \ {s}
    /\ histories' = [histories EXCEPT ![s] = 0]
    /\ call' = [call EXCEPT ![c].pc = "count", ![c].level = "novice", ![c].bumps = 1]
    /\ UNCHANGED <<engagement, engines, memory, forget, answers, overlapped, spent>>

(* An analysis of an unknown session is dropped; one that differs from the  *)
(* session's level asks the persona manager, which raises on a level it     *)
(* does not know, and then updates the session twice.                       *)
AnalysisGets(c) ==
    LET s == call[c].sid  level == call[c].level IN
    /\ At(c, "get") /\ call[c].op = "analysis"
    /\ Get(s)
    /\ IF Live(s) /\ (level = sessions[s].level \/ Selects(level))
       THEN call' = [call EXCEPT ![c].pc = "count",
                        ![c].bumps = IF level = sessions[s].level THEN 1 ELSE 2]
       ELSE Return(c)
    /\ UNCHANGED <<histories, engagement, engines, memory, forget, answers, overlapped, spent>>

(* update_session reads the count through get ...                           *)
Counts(c) ==
    LET s == call[c].sid IN
    /\ At(c, "count")
    /\ Get(s)
    /\ call' = [call EXCEPT ![c].pc = "store", ![c].count = IF Live(s) THEN sessions[s].count ELSE 0]
    /\ UNCHANGED <<histories, engagement, engines, memory, forget, answers, overlapped, spent>>

(* ... and writes it through update, which raises when the session is gone  *)
(* and does not ask whether it expired.  Of what an analysis brings, only   *)
(* the history gets anything: its persona is not set.                       *)
Stores(c) ==
    LET s == call[c].sid IN
    /\ At(c, "store")
    /\ IF s \notin DOMAIN sessions
       THEN Return(c) /\ UNCHANGED <<sessions, histories>>
       ELSE /\ sessions'  = [sessions EXCEPT ![s].count = call[c].count + 1]
            /\ histories' = [histories EXCEPT ![s] = @ + 1]
            /\ IF call[c].op = "input" THEN Go(c, "answer")
               ELSE IF call[c].bumps = 1 THEN Return(c)
               ELSE call' = [call EXCEPT ![c].pc = "count", ![c].bumps = @ - 1]
    /\ UNCHANGED <<expired, engagement, engines, memory, forget, answers, overlapped, spent>>

-----------------------------------------------------------------------------
(* The gateway's replies; {} is an empty one or a failed call.              *)
Replies == {{}, {"lead"}, {"lead", "thought"}, {"output"}, {"danger"},
            {"output", "danger"}, {"lead", "thought", "output", "danger"}}
Inputs  == {{}, {"danger"}}

Strip(text)  == text \ {"lead"}
Scrub(text)  == text \ {"danger"}
Dangerous(t) == "danger" \in t

(* _generate_template answers an unknown command with the command itself.   *)
Template(input) == {"output"} \cup input

(* MUTANT: what the second attempt brings is taken as it is. *)
Generated_unchecked_retry(input, first, second) ==
    IF Strip(first) = {} THEN Template(input)
    ELSE IF ~Dangerous(Strip(first)) THEN Strip(Scrub(Strip(first)))
    ELSE IF Strip(second) = {} THEN Template(input)
    ELSE Strip(second)

(* _generate_via_gateway: one retry when the first answer is dangerous.     *)
Generated(input, first, second) ==
    IF Strip(first) = {} THEN Template(input)
    ELSE IF ~Dangerous(Strip(first)) THEN Strip(Scrub(Strip(first)))
    ELSE IF Strip(second) = {} \/ Dangerous(Strip(second)) THEN Template(input)
    ELSE Strip(Scrub(Strip(second)))

EngineOf(s) == IF s \in DOMAIN engines THEN engines[s] ELSE NewEngine

(* generate_response.  The context it hands to inject is the skill level.   *)
(* The injected text is not used; fake_config is named, not sent.           *)
Answers(c) ==
    LET s == call[c].sid IN
    /\ At(c, "answer")
    /\ engagement' = [engagement EXCEPT ![s] = @ + 1]
    /\ \E input \in Inputs, first \in Replies, second \in Replies :
          answers' = [d \in DOMAIN answers \cup {s} |->
                        IF d = s THEN [input |-> input, text |-> Generated(input, first, second)]
                                 ELSE answers[d]]
    /\ LET e == CheckTriggers(EngineOf(s), <<"input">>)
           t == Triggered(EngineOf(s), <<"input">>)
       IN  engines' = [d \in DOMAIN engines \cup {s} |->
                         IF d # s THEN engines[d]
                         ELSE IF t = <<>> THEN Inject(e, call[c].level) ELSE e]
    /\ Go(c, "remember")
    /\ UNCHANGED <<store, memory, forget, overlapped, spent>>

(* add_interaction and add_attacker_profile give up quietly when Mem0 fails.*)
Remembers(c) ==
    /\ At(c, "remember")
    /\ \/ UNCHANGED <<memory, spent>>
       \/ /\ spent.memories < MaxMemories
          /\ spent'  = [spent EXCEPT !.memories = @ + 1]
          /\ memory' = memory \cup {spent'.memories}
    /\ Return(c)
    /\ UNCHANGED <<store, engagement, engines, forget, answers, overlapped>>

(* end_session: get, then close_session, which looks the session up again.  *)
EndGets(c) ==
    LET s == call[c].sid IN
    /\ At(c, "get") /\ call[c].op = "end"
    /\ Get(s)
    /\ IF Live(s) THEN Go(c, "close") ELSE Return(c)
    /\ UNCHANGED <<histories, engagement, engines, memory, forget, answers, overlapped, spent>>

Closes(c) ==
    LET s == call[c].sid IN
    /\ At(c, "close")
    /\ expired'  = expired \ {s}
    /\ sessions' = IF Live(s) THEN [sessions EXCEPT ![s].closed = TRUE]
                              ELSE Restrict(sessions, DOMAIN sessions \ {s})
    /\ Go(c, "remember")
    /\ UNCHANGED <<histories, engagement, engines, memory, forget, answers, overlapped, spent>>

-----------------------------------------------------------------------------
(* delete_attacker lists the memories and deletes them one at a time.       *)
ForgetLists ==
    /\ forget.pc = "idle" /\ memory # {}
    /\ forget' = [pc |-> "delete", todo |-> memory, seen |-> memory, count |-> 0]
    /\ UNCHANGED <<store, engagement, engines, memory, call, answers, overlapped, spent>>

(* MUTANT: a deletion that fails is passed over. *)
ForgetDeletes_goes_on ==
    /\ forget.pc = "delete" /\ forget.todo # {}
    /\ \E m \in forget.todo :
          /\ memory' \in {memory \ {m}, memory}
          /\ forget' = [forget EXCEPT !.todo = @ \ {m}, !.count = @ + 1]
    /\ UNCHANGED <<store, engagement, engines, call, answers, overlapped, spent>>

ForgetDeletes ==
    /\ forget.pc = "delete" /\ forget.todo # {}
    /\ \E m \in forget.todo :
          /\ memory' = memory \ {m}
          /\ forget' = [forget EXCEPT !.todo = @ \ {m}, !.count = @ + 1]
    /\ UNCHANGED <<store, engagement, engines, call, answers, overlapped, spent>>

(* The number is returned when all went well, and 0 when a call raised,     *)
(* however many were deleted before it.                                     *)
ForgetReturns ==
    /\ forget.pc = "delete"
    /\ \/ forget.todo = {} /\ forget' = [forget EXCEPT !.pc = "done"]
       \/ forget.todo # {} /\ forget' = [forget EXCEPT !.pc = "done", !.count = 0]
    /\ UNCHANGED <<store, engagement, engines, memory, call, answers, overlapped, spent>>

Next ==
    \/ \E c \in Calls, s \in Sids :
          \/ \E op \in {"input", "end"} : Begin(c, op, s, "")
          \/ \E level \in {"novice", "apt", "unknown"} : Begin(c, "analysis", s, level)
    \/ \E c \in Calls :
          \/ InputGets(c) \/ Creates(c) \/ AnalysisGets(c) \/ Counts(c) \/ Stores(c)
          \/ Answers(c) \/ Remembers(c) \/ EndGets(c) \/ Closes(c)
    \/ \E s \in Sids : Expire(s)
    \/ ForgetLists \/ ForgetDeletes \/ ForgetReturns
Spec == Init /\ [][Next]_vars

-----------------------------------------------------------------------------
(* The command count of a session that no two calls were in at once is the  *)
(* number of interactions recorded of it, through expiry, re-creation under *)
(* the same id, and analyses (session_manager.py:69): calls that overlap    *)
(* may lose a count, and only those.                                        *)
CountsEveryUpdate ==
    \A s \in DOMAIN sessions \ overlapped : sessions[s].count = histories[s]

(* What an attacker is sent has a danger signal only where his own command, *)
(* which a template repeats, has one: neither of the two replies of the     *)
(* model gets through with one (deception.py:588-660).                      *)
SafeAnswers ==
    \A s \in DOMAIN answers : Dangerous(answers[s].text) => Dangerous(answers[s].input)

(* When delete_attacker reports a number, all the memories it had listed    *)
(* are gone, whatever was added meanwhile (memory.py:389-412).              *)
ForgottenIfTold ==
    forget.pc = "done" /\ forget.count > 0 => memory \cap forget.seen = {}

(* honeytokens.py:4, "Infects every deceptive response with canary tokens": *)
(* of a session that was answered, the engine has tokens to look for.       *)
EveryAnswerInfected ==
    \A s \in DOMAIN answers : EngineOf(s).tokens # <<>>
=============================================================================
