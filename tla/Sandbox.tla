------------------------------ MODULE Sandbox ------------------------------
(***************************************************************************)
(* ragin/cycle: Sandbox.handle_command (sandbox.py) and the pipeline it    *)
(* runs, Harness.process (harness.py), over the session logs of SessionLog,*)
(* as server_v2.py serves them: every command runs in a worker thread of   *)
(* asyncio.to_thread, so two commands of one session may run at once; the  *)
(* process may die at any point and start again with empty memory.         *)
(*                                                                         *)
(* A step is a piece of Python between two accesses to what threads share: *)
(* the registry Sandbox._sessions, a Session object, a log file.           *)
(* `session._command_count += 1' and the comparison after it are one step: *)
(* CPython switches threads at calls and backward jumps, and there is none *)
(* between them.                                                           *)
(***************************************************************************)
EXTENDS SessionLog

CONSTANTS
    Threads,        \* worker threads
    None,           \* no session, no thread
    MaxCommands,    \* SandboxConfig.max_commands
    MaxRetries,     \* Harness(max_retries=)
    Components,     \* events of the configured components, in pipeline order
    Verifying,      \* the harness has a ResponseVerifier
    Concurrent,     \* clients send a command before the last one was answered
    Tearing,        \* a failing or interrupted write can leave half a line
    MaxCalls,       \* bound: commands received
    MaxFaults,      \* bound: writes that fail
    MaxCrashes,     \* bound: crashes
    MaxReads        \* bound: context and replay requests, close_session calls

ASSUME SandboxAssumption ==
    /\ IsFiniteSet(Threads) /\ None \notin Threads /\ None \notin Sids
    /\ MaxCommands \in Nat /\ MaxRetries \in Nat
    /\ Components \in Seq({"classification", "cti", "generate"}) /\ Components # <<>>
    /\ Verifying \in BOOLEAN /\ Concurrent \in BOOLEAN /\ Tearing \in BOOLEAN

VARIABLES
    obj,            \* obj[s][t]: the Session object thread t built for s
    reg,            \* Sandbox._sessions: whose object of s is registered
    call,           \* call[t]: where thread t is in handle_command
    unissued,       \* ids of sessions created but not yet returned to a client
    raised,         \* raised[s]: logged commands whose call raised, unsettled
    cut,            \* cut[s]: logged commands a crash interrupted, unsettled
    answers,        \* answers[s]: calls that returned a pipeline response
    spent           \* what is used up of the bounds

memVars == <<obj, reg, call>>
tallies == <<raised, cut, answers>>
vars    == <<log, torn, obj, reg, call, unissued, raised, cut, answers, spent>>

(* Where a thread is in handle_command.  "stage" stands for the classifier, *)
(* the CTI engine and the deceiver in turn; "stumble" is the except branch  *)
(* of such a stage.                                                         *)
Pcs == {"idle", "wake", "resume", "register", "restore", "assign", "count",
        "zero", "end", "flag", "input", "context", "stage", "stumble",
        "verify", "retry", "respond", "fail", "metric"}

(* Steps whose next action is a Session.emit. *)
Emitting == {"resume", "end", "input", "stage", "stumble", "verify", "retry",
             "respond", "fail", "metric"}

Stages == 1..Len(Components)

(* A Session object: _event_count, _closed, and _command_count, the         *)
(* attribute that Sandbox adds to it ("counted": hasattr).                  *)
Object == [events : Nat, closed : BOOLEAN, counted : BOOLEAN, cmds : Nat]
Fresh(n) == [events |-> n, closed |-> FALSE, counted |-> FALSE, cmds |-> 0]

Call == [pc : Pcs, sid : Sids \cup {None}, own : Threads \cup {None},
         val : Nat, tries : Nat, stage : Stages, logged : BOOLEAN]
NoCall == [pc |-> "idle", sid |-> None, own |-> None, val |-> 0, tries |-> 0,
           stage |-> 1, logged |-> FALSE]

-----------------------------------------------------------------------------
Init ==
    /\ log      = [s \in Sids |-> <<>>]
    /\ torn     = [s \in Sids |-> FALSE]
    /\ obj      = [s \in Sids |-> [t \in Threads |-> Fresh(0)]]
    /\ reg      = [s \in Sids |-> None]
    /\ call     = [t \in Threads |-> NoCall]
    /\ unissued = {}
    /\ raised   = [s \in Sids |-> 0]
    /\ cut      = [s \in Sids |-> 0]
    /\ answers  = [s \in Sids |-> 0]
    /\ spent    = [calls |-> 0, faults |-> 0, crashes |-> 0, reads |-> 0]

At(t, p)  == call[t].pc = p
Busy(s)   == \E t \in Threads : call[t].sid = s
Go(t, p)  == call' = [call EXCEPT ![t].pc = p]

(* The commands of s that are on its log and not settled, still in progress. *)
Pending(s) == {t \in Threads : call[t].sid = s /\ call[t].logged}

Session(t) == obj[call[t].sid][call[t].own]

-----------------------------------------------------------------------------
(* MUTANT: a closed object still writes. *)
EmitOK_ignores_closed(t, e) ==
    LET s == call[t].sid  o == call[t].own IN
    /\ AppendLine(s, e)
    /\ obj' = [obj EXCEPT ![s][o].events = @ + 1]
    /\ UNCHANGED spent

(* Session.emit: refused by a closed object, else a line of the log, after  *)
(* which the object counts it.  A write can fail whole or leave half a line. *)
EmitOK(t, e) ==
    LET s == call[t].sid  o == call[t].own IN
    /\ ~obj[s][o].closed
    /\ AppendLine(s, e)
    /\ obj' = [obj EXCEPT ![s][o].events = @ + 1]
    /\ UNCHANGED spent

Fault(s) ==
    /\ spent.faults < MaxFaults
    /\ spent' = [spent EXCEPT !.faults = @ + 1]
    /\ \/ UNCHANGED logVars
       \/ Tearing /\ TearLine(s)

(* MUTANT: the event is counted before it is written. *)
EmitFails_counts_first(t) ==
    /\ obj' = [obj EXCEPT ![call[t].sid][call[t].own].events = @ + 1]
    /\ \/ Session(t).closed /\ UNCHANGED <<logVars, spent>>
       \/ ~Session(t).closed /\ Fault(call[t].sid)

EmitFails(t) ==
    /\ UNCHANGED obj
    /\ \/ Session(t).closed /\ UNCHANGED <<logVars, spent>>
       \/ ~Session(t).closed /\ Fault(call[t].sid)

(* An exception leaves handle_command: the caller gets an HTTP 500. *)
Raise(t) ==
    /\ call'   = [call EXCEPT ![t] = NoCall]
    /\ raised' = [raised EXCEPT ![call[t].sid] =
                     IF call[t].logged THEN @ + 1 ELSE @]

-----------------------------------------------------------------------------
(* Creating a session: the START event is the first line of a file whose    *)
(* name nobody else knows, then the object enters the registry.             *)
Create(t, s) ==
    /\ s \in Unused \ unissued
    /\ AppendLine(s, "start")
    /\ obj' = [obj EXCEPT ![s][t] = Fresh(1)]
    /\ reg' = [reg EXCEPT ![s] = t]

CreateFails(s) ==
    /\ s \in Unused \ unissued
    /\ Fault(s)
    /\ unissued' = unissued \cup {s}
    /\ UNCHANGED <<memVars, tallies>>

(* POST /api/session/create: Sandbox.create_session. *)
create_session(t, s) ==
    /\ At(t, "idle")
    /\ Create(t, s)
    /\ UNCHANGED <<call, unissued, tallies, spent>>

(* handle_command without a session id, or with one that has no log: wake   *)
(* raises FileNotFoundError before it touches anything.                     *)
handle_new(t, s) ==
    /\ At(t, "idle")
    /\ spent.calls < MaxCalls
    /\ spent' = [spent EXCEPT !.calls = @ + 1]
    /\ Create(t, s)
    /\ call' = [call EXCEPT ![t] = [NoCall EXCEPT !.pc = "count", !.sid = s, !.own = t]]
    /\ unissued' = unissued \cup {s}
    /\ UNCHANGED tallies

(* handle_command with the id of a session: the registered object, or wake. *)
handle_command(t, s) ==
    /\ At(t, "idle")
    /\ log[s] # <<>> /\ s \notin unissued
    /\ Concurrent \/ ~Busy(s)
    /\ spent.calls < MaxCalls
    /\ spent' = [spent EXCEPT !.calls = @ + 1]
    /\ call' = [call EXCEPT ![t] =
                  IF reg[s] # None
                  THEN [NoCall EXCEPT !.pc = "count", !.sid = s, !.own = reg[s]]
                  ELSE [NoCall EXCEPT !.pc = "wake", !.sid = s, !.own = t]]
    /\ UNCHANGED <<logVars, obj, reg, unissued, tallies>>

(* Session.__init__: counts the lines of the file. *)
Open(t) ==
    /\ At(t, "wake")
    /\ LET s == call[t].sid IN obj' = [obj EXCEPT ![s][t] = Fresh(Len(log[s]))]
    /\ Go(t, "resume")
    /\ UNCHANGED <<logVars, reg, unissued, tallies, spent>>

(* Session.wake: SESSION_RESUME. *)
Resume(t) ==
    /\ At(t, "resume")
    /\ \/ EmitOK(t, "resume") /\ Go(t, "register") /\ UNCHANGED raised
       \/ EmitFails(t) /\ Raise(t)
    /\ UNCHANGED <<reg, unissued, cut, answers>>

Register(t) ==
    /\ At(t, "register")
    /\ reg' = [reg EXCEPT ![call[t].sid] = t]
    /\ Go(t, "restore")
    /\ UNCHANGED <<logVars, obj, unissued, tallies, spent>>

(* MUTANT: the answers are counted, not the commands. *)
Restore_counts_answers(t) ==
    /\ At(t, "restore")
    /\ call' = [call EXCEPT ![t].pc = "assign",
                            ![t].val = Count(call[t].sid, {"response"})]
    /\ UNCHANGED <<logVars, obj, reg, unissued, tallies, spent>>

(* The count of ATTACKER_INPUT events is read from the log; a line that     *)
(* does not parse raises, and the object stays registered.                  *)
Restore(t) ==
    LET s == call[t].sid IN
    /\ At(t, "restore")
    /\ \/ /\ Session(t).counted /\ Session(t).cmds # 0
          /\ Go(t, "count") /\ UNCHANGED raised
       \/ /\ ~(Session(t).counted /\ Session(t).cmds # 0)
          /\ Readable(s)
          /\ call' = [call EXCEPT ![t].pc = "assign", ![t].val = Count(s, {"input"})]
          /\ UNCHANGED raised
       \/ /\ ~(Session(t).counted /\ Session(t).cmds # 0)
          /\ ~Readable(s)
          /\ Raise(t)
    /\ UNCHANGED <<logVars, obj, reg, unissued, cut, answers, spent>>

Assign(t) ==
    LET s == call[t].sid  o == call[t].own IN
    /\ At(t, "assign")
    /\ obj' = [obj EXCEPT ![s][o].counted = TRUE, ![s][o].cmds = call[t].val]
    /\ Go(t, "count")
    /\ UNCHANGED <<logVars, reg, unissued, tallies, spent>>

(* MUTANT: one too many. *)
Gate_off_by_one(n) == IF n > MaxCommands + 1 THEN "end" ELSE "input"

(* The command is counted and checked against the limit. *)
Gate(n) == IF n > MaxCommands THEN "end" ELSE "input"

CountCommand(t) ==
    LET s == call[t].sid  o == call[t].own IN
    /\ At(t, "count")
    /\ \/ /\ Session(t).counted
          /\ obj' = [obj EXCEPT ![s][o].cmds = @ + 1]
          /\ Go(t, Gate(Session(t).cmds + 1))
       \/ /\ ~Session(t).counted
          /\ Go(t, "zero") /\ UNCHANGED obj
    /\ UNCHANGED <<logVars, reg, unissued, tallies, spent>>

(* The attribute was missing when hasattr looked: set to 0, then counted. *)
CountFromZero(t) ==
    LET s == call[t].sid  o == call[t].own IN
    /\ At(t, "zero")
    /\ obj' = [obj EXCEPT ![s][o].counted = TRUE, ![s][o].cmds = 1]
    /\ Go(t, Gate(1))
    /\ UNCHANGED <<logVars, reg, unissued, tallies, spent>>

-----------------------------------------------------------------------------
(* Session.close: SESSION_END, then the flag (and the .meta.json summary,   *)
(* which nothing reads back).  close_session starts it from outside.        *)
close_session(t, s) ==
    /\ At(t, "idle")
    /\ reg[s] # None
    /\ s \notin unissued
    /\ Concurrent \/ ~Busy(s)
    /\ spent.reads < MaxReads
    /\ spent' = [spent EXCEPT !.reads = @ + 1]
    /\ call' = [call EXCEPT ![t] = [NoCall EXCEPT !.pc = "end", !.sid = s, !.own = reg[s]]]
    /\ UNCHANGED <<logVars, obj, reg, unissued, tallies>>

End(t) ==
    /\ At(t, "end")
    /\ \/ EmitOK(t, "end") /\ Go(t, "flag") /\ UNCHANGED raised
       \/ EmitFails(t) /\ Raise(t)
    /\ UNCHANGED <<reg, unissued, cut, answers>>

Flag(t) ==
    LET s == call[t].sid  o == call[t].own IN
    /\ At(t, "flag")
    /\ obj' = [obj EXCEPT ![s][o].closed = TRUE]
    /\ call' = [call EXCEPT ![t] = NoCall]
    /\ unissued' = unissued \ {s}
    /\ UNCHANGED <<logVars, reg, tallies, spent>>

-----------------------------------------------------------------------------
(* Harness.process. *)
Input(t) ==
    /\ At(t, "input")
    /\ \/ /\ EmitOK(t, "input")
          /\ call' = [call EXCEPT ![t].pc = "context", ![t].logged = TRUE]
       \/ EmitFails(t) /\ Go(t, "fail")
    /\ UNCHANGED <<reg, unissued, tallies>>

(* MUTANT: a line that does not parse is waited for, to be completed. *)
BuildContext_waits(t) ==
    /\ At(t, "context")
    /\ Readable(call[t].sid)
    /\ Go(t, "stage")
    /\ UNCHANGED <<logVars, obj, reg, unissued, tallies, spent>>

(* Session.build_context replays the log. *)
BuildContext(t) ==
    /\ At(t, "context")
    /\ Go(t, IF Readable(call[t].sid) THEN "stage" ELSE "fail")
    /\ UNCHANGED <<logVars, obj, reg, unissued, tallies, spent>>

(* MUTANT: one stage too many. *)
NextStage_off_by_one(t) ==
    call' = IF call[t].stage > Len(Components)
            THEN [call EXCEPT ![t].pc = "verify"]
            ELSE [call EXCEPT ![t].pc = "stage", ![t].stage = @ + 1]

NextStage(t) ==
    call' = IF call[t].stage = Len(Components)
            THEN [call EXCEPT ![t].pc = "verify"]
            ELSE [call EXCEPT ![t].pc = "stage", ![t].stage = @ + 1]

(* A component answers and its event is logged; if it raises, or the event  *)
(* cannot be logged, the stage logs an ERROR and the pipeline goes on with  *)
(* a default.                                                               *)
RunStage(t) ==
    /\ At(t, "stage")
    /\ \/ EmitOK(t, Components[call[t].stage]) /\ NextStage(t)
       \/ EmitFails(t) /\ Go(t, "stumble")
       \/ Go(t, "stumble") /\ UNCHANGED <<logVars, obj, spent>>
    /\ UNCHANGED <<reg, unissued, tallies>>

Stumble(t) ==
    /\ At(t, "stumble")
    /\ \/ EmitOK(t, "error") /\ NextStage(t)
       \/ EmitFails(t) /\ Go(t, "fail")
    /\ UNCHANGED <<reg, unissued, tallies>>

(* No verifier, a verifier that raises and a verdict that cannot be logged  *)
(* all let the response through.                                            *)
Verify(t) ==
    /\ At(t, "verify")
    /\ \/ Go(t, "respond") /\ UNCHANGED <<logVars, obj, spent>>
       \/ /\ Verifying
          /\ \/ EmitOK(t, "verify") /\ Go(t, "respond")
             \/ EmitOK(t, "verify") /\ MaxRetries > 0 /\ Go(t, "retry")
             \/ EmitFails(t) /\ Go(t, "respond")
    /\ UNCHANGED <<reg, unissued, tallies>>

(* _retry_with_feedback: a further response that passes is logged; an        *)
(* exception or another bad verdict uses up the attempt.                     *)
Retry(t) ==
    LET again == call' = [call EXCEPT ![t].tries = @ + 1] IN
    /\ At(t, "retry")
    /\ \/ /\ call[t].tries >= MaxRetries
          /\ Go(t, "respond") /\ UNCHANGED <<logVars, obj, spent>>
       \/ /\ call[t].tries < MaxRetries
          /\ \/ EmitOK(t, "generate") /\ Go(t, "respond")
             \/ EmitFails(t) /\ again
             \/ again /\ UNCHANGED <<logVars, obj, spent>>
    /\ UNCHANGED <<reg, unissued, tallies>>

Settle(t) == call' = [call EXCEPT ![t].pc = "metric", ![t].logged = FALSE]

(* MUTANT: a response that could not be logged is returned all the same. *)
Respond_unlogged(t) ==
    /\ At(t, "respond")
    /\ Settle(t)
    /\ EmitOK(t, "response") \/ EmitFails(t)
    /\ UNCHANGED <<reg, unissued, tallies>>

Respond(t) ==
    /\ At(t, "respond")
    /\ \/ EmitOK(t, "response") /\ Settle(t)
       \/ EmitFails(t) /\ Go(t, "fail")
    /\ UNCHANGED <<reg, unissued, tallies>>

Failure(t) == IF call[t].logged THEN "failure" ELSE "orphan"

(* MUTANT: an error that could not be logged is swallowed. *)
Fail_swallows(t) ==
    /\ At(t, "fail")
    /\ \/ EmitOK(t, Failure(t)) /\ Settle(t)
       \/ EmitFails(t) /\ call' = [call EXCEPT ![t] = NoCall]
    /\ UNCHANGED <<reg, unissued, tallies>>

(* The except clause of process: _record_pipeline_error, which may raise. *)
Fail(t) ==
    /\ At(t, "fail")
    /\ \/ EmitOK(t, Failure(t)) /\ Settle(t) /\ UNCHANGED raised
       \/ EmitFails(t) /\ Raise(t)
    /\ UNCHANGED <<reg, unissued, cut, answers>>

(* handle_command logs a METRIC event and returns the response. *)
Metric(t) ==
    /\ At(t, "metric")
    /\ \/ /\ EmitOK(t, "metric")
          /\ call' = [call EXCEPT ![t] = NoCall]
          /\ answers' = [answers EXCEPT ![call[t].sid] = @ + 1]
          /\ unissued' = unissued \ {call[t].sid}
          /\ UNCHANGED raised
       \/ EmitFails(t) /\ Raise(t) /\ UNCHANGED <<answers, unissued>>
    /\ UNCHANGED <<reg, cut>>

-----------------------------------------------------------------------------
(* GET /api/session/{id}/context of a session that is not registered, and   *)
(* POST /api/session/replay of any session, both call Session.wake: they    *)
(* append SESSION_RESUME through an object they then drop.                  *)
wake_to_read(s) ==
    /\ log[s] # <<>> /\ s \notin unissued
    /\ spent.reads < MaxReads
    /\ spent' = [spent EXCEPT !.reads = @ + 1]
    /\ AppendLine(s, "resume")
    /\ UNCHANGED <<memVars, unissued, tallies>>

(* The process dies and starts again; a write in progress may be cut. *)
Crash ==
    /\ spent.crashes < MaxCrashes
    /\ spent' = [spent EXCEPT !.crashes = @ + 1]
    /\ \/ UNCHANGED logVars
       \/ /\ Tearing
          /\ \E t \in Threads :
                call[t].pc \in Emitting /\ ~Session(t).closed /\ TearLine(call[t].sid)
    /\ obj'  = [s \in Sids |-> [t \in Threads |-> Fresh(0)]]
    /\ reg'  = [s \in Sids |-> None]
    /\ call' = [t \in Threads |-> NoCall]
    /\ cut'  = [s \in Sids |-> cut[s] + Cardinality(Pending(s))]
    /\ UNCHANGED <<unissued, raised, answers>>

Begin(t) ==
    \E s \in Sids : \/ create_session(t, s) \/ handle_new(t, s)
                    \/ handle_command(t, s) \/ close_session(t, s)

(* What a thread does once it is in a call. *)
Proceed(t) ==
    \/ Open(t) \/ Resume(t) \/ Register(t) \/ Restore(t) \/ Assign(t)
    \/ CountCommand(t) \/ CountFromZero(t) \/ End(t) \/ Flag(t)
    \/ Input(t) \/ BuildContext(t) \/ RunStage(t) \/ Stumble(t) \/ Verify(t)
    \/ Retry(t) \/ Respond(t) \/ Fail(t) \/ Metric(t)

Next ==
    \/ \E t \in Threads : Begin(t) \/ Proceed(t)
    \/ \E s \in Sids : CreateFails(s) \/ wake_to_read(s)
    \/ Crash

Spec == Init /\ [][Next]_vars

(* A call that was started runs on: the interpreter schedules its thread,   *)
(* and every component call returns or raises (the HTTP clients of the      *)
(* components have timeouts).                                               *)
FairSpec == Spec /\ \A t \in Threads : WF_vars(Proceed(t))

-----------------------------------------------------------------------------
Outcomes   == {"response", "failure"}
Inputs(s)  == Count(s, {"input"})
Settled(s) == Count(s, Outcomes) + raised[s] + cut[s]

(* The types of the variables. *)
TypeOK ==
    /\ LogTypeOK
    /\ obj \in [Sids -> [Threads -> Object]]
    /\ reg \in [Sids -> Threads \cup {None}]
    /\ call \in [Threads -> Call]
    /\ unissued \subseteq Sids
    /\ raised \in [Sids -> Nat] /\ cut \in [Sids -> Nat] /\ answers \in [Sids -> Nat]
    /\ spent \in [calls : Nat, faults : Nat, crashes : Nat, reads : Nat]

(* A session never runs more than max_commands commands through the         *)
(* pipeline (sandbox.py:138-149), over all the restarts of the process: the *)
(* count is kept in memory and read back from the log by a wake.            *)
LimitHolds == \A s \in Sids : Readable(s) => Inputs(s) <= MaxCommands

(* Every command on the log is settled once, or still being processed: it   *)
(* is followed by its response or its pipeline ERROR (harness.py:483-495),  *)
(* or its call raised, or a crash cut it.  Two threads of one session, the  *)
(* failed writes and the closing of the session under a running pipeline    *)
(* neither lose one nor settle one twice.                                   *)
NothingLost ==
    \A s \in Sids : Readable(s) => Inputs(s) = Settled(s) + Cardinality(Pending(s))

(* A caller is answered only after the response, or the error, is on the    *)
(* log (sandbox.py:153-171): what an attacker was told can be replayed.     *)
AnswersOnLog == \A s \in Sids : Readable(s) => answers[s] <= Count(s, Outcomes \cup {"orphan"})

(* event_count, which the server reports, counts no event that is not on    *)
(* the log, for every object of a session alive at once (session.py:193-198).*)
EventsNeverAhead ==
    \A s \in Sids : Readable(s) => \A t \in Threads : obj[s][t].events <= Len(log[s])

(* A closed session takes no further command while the process lives        *)
(* (session.py:183-184, 238-245).                                           *)
ClosedUntilRestart ==
    [][\A s \in Sids :
          reg[s] # None /\ obj[s][reg[s]].closed => Inputs(s)' = Inputs(s)]_vars

(* The log can always be replayed: session.py:97, "crash-safe session log". *)
AlwaysReadable == \A s \in Sids : Readable(s)

(* Every call to handle_command or close_session returns or raises.         *)
CallsReturn == \A t \in Threads : ~At(t, "idle") ~> At(t, "idle")

(* The sandbox, as long as no command of a session is sent before the last  *)
(* one was answered and no write is torn, keeps the promise of Engagement.  *)
E == INSTANCE Engagement WITH accepted <- [s \in Sids |-> Inputs(s)],
                              settled  <- [s \in Sids |-> Settled(s)]
KeepsEngagement == E!Spec
=============================================================================
