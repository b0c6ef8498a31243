--------------------------- MODULE SandboxProofs ---------------------------
(***************************************************************************)
(* Proofs about Sandbox, for any number of sessions, threads, commands,    *)
(* failed or torn writes and crashes, in four parts: what the log says,    *)
(* whatever the threads do; the command limit, when the commands of a      *)
(* session come one after the other; what is reported never runs ahead of  *)
(* the log, however commands interleave; and the close of a session and    *)
(* the steps of Engagement, when the client waits for each answer.         *)
(***************************************************************************)
EXTENDS Sandbox, FiniteSetTheorems, SequenceTheorems, TLAPS

Lines == EventType \cup {Garbled}

(* A thread inside a call holds a session and one of its objects. *)
Placed ==
    \A t \in Threads :
        call[t].pc # "idle" => call[t].sid \in Sids /\ call[t].own \in Threads

TypeInv == TypeOK /\ Placed

-----------------------------------------------------------------------------
(* Appending one line changes the number of lines of a kind by one or none. *)
LEMMA OccurrencesAppend ==
    ASSUME NEW q \in Seq(Lines), NEW e \in Lines, NEW K
    PROVE  /\ Occurrences(q, K) \in Nat
           /\ Occurrences(Append(q, e), K) = Occurrences(q, K) + (IF e \in K THEN 1 ELSE 0)
<1> DEFINE S == {i \in 1..Len(q) : q[i] \in K}
           n == Len(q) + 1
           T == {i \in 1..Len(Append(q, e)) : Append(q, e)[i] \in K}
<1>1. Len(q) \in Nat /\ Len(Append(q, e)) = n /\ Append(q, e)[n] = e
  OBVIOUS
<1>2. \A i \in 1..Len(q) : Append(q, e)[i] = q[i]
  OBVIOUS
<1>3. IsFiniteSet(S) /\ Cardinality(S) \in Nat
  <2>1. IsFiniteSet(1..Len(q))
    BY <1>1, FS_Interval
  <2>2. S \in SUBSET (1..Len(q))
    OBVIOUS
  <2> QED BY <2>1, <2>2, FS_Subset, FS_CardinalityType
<1>4. T = IF e \in K THEN S \cup {n} ELSE S
  BY <1>1, <1>2
<1>5. n \notin S
  BY <1>1
<1>6. Cardinality(S \cup {n}) = Cardinality(S) + 1
  BY <1>3, <1>5, FS_AddElement
<1>7. Occurrences(q, K) = Cardinality(S) /\ Occurrences(Append(q, e), K) = Cardinality(T)
  BY DEF Occurrences
<1> HIDE DEF S, T
<1> QED
  BY <1>3, <1>4, <1>6, <1>7

LEMMA OccurrencesEmpty ==
    ASSUME NEW K
    PROVE  Occurrences(<<>>, K) = 0
<1>1. {i \in 1..Len(<<>>) : <<>>[i] \in K} = {}
  OBVIOUS
<1> QED BY <1>1, FS_EmptySet DEF Occurrences

LEMMA AppendLineType ==
    ASSUME LogTypeOK, NEW s \in Sids, NEW e \in EventType, AppendLine(s, e)
    PROVE  LogTypeOK'
BY DEF LogTypeOK, AppendLine

LEMMA TearLineType ==
    ASSUME LogTypeOK, NEW s \in Sids, TearLine(s)
    PROVE  LogTypeOK'
BY DEF LogTypeOK, TearLine

-----------------------------------------------------------------------------
(* The steps that write to a log.                                          *)
LEMMA EmitType ==
    ASSUME TypeInv, NEW t \in Threads, NEW e \in EventType,
           call[t].pc # "idle", EmitOK(t, e) \/ EmitFails(t)
    PROVE  LogTypeOK' /\ (obj \in [Sids -> [Threads -> Object]])'
                      /\ spent' \in [calls : Nat, faults : Nat, crashes : Nat, reads : Nat]
<1> DEFINE s == call[t].sid
           o == call[t].own
<1>1. s \in Sids /\ o \in Threads
  BY DEF TypeInv, Placed
<1>2. CASE EmitOK(t, e)
  <2>1. LogTypeOK'
    BY <1>1, <1>2, AppendLineType DEF EmitOK, TypeInv, TypeOK
  <2>2. obj' = [obj EXCEPT ![s][o].events = @ + 1]
    BY <1>2 DEF EmitOK
  <2>3. obj[s][o] \in Object
    BY <1>1 DEF TypeInv, TypeOK
  <2>4. [obj[s][o] EXCEPT !.events = @ + 1] \in Object
    BY <2>3 DEF Object
  <2>5. obj' \in [Sids -> [Threads -> Object]]
    BY <1>1, <2>2, <2>4 DEF TypeInv, TypeOK
  <2> QED BY <1>2, <2>1, <2>5 DEF EmitOK, TypeInv, TypeOK
<1>3. CASE EmitFails(t)
  <2>1. LogTypeOK'
    BY <1>1, <1>3, TearLineType DEF EmitFails, Fault, TypeInv, TypeOK, LogTypeOK, logVars
  <2>2. spent' \in [calls : Nat, faults : Nat, crashes : Nat, reads : Nat]
    BY <1>3 DEF EmitFails, Fault, TypeInv, TypeOK
  <2> QED BY <1>3, <2>1, <2>2 DEF EmitFails, TypeInv, TypeOK
<1> QED BY <1>2, <1>3

(* An update of one call record that keeps its type. *)
LEMMA CallType ==
    ASSUME TypeInv, NEW t \in Threads, NEW c \in Call,
           c.pc # "idle" => c.sid \in Sids /\ c.own \in Threads,
           call' = [call EXCEPT ![t] = c]
    PROVE  (call \in [Threads -> Call])' /\ Placed'
BY DEF TypeInv, TypeOK, Placed

LEMMA NoCallType == NoCall \in Call
BY SandboxAssumption DEF NoCall, Call, Pcs, Stages

(* Moving on inside a call. *)
LEMMA GoType ==
    ASSUME TypeInv, NEW t \in Threads, NEW p \in Pcs, call[t].pc # "idle", Go(t, p)
    PROVE  (call \in [Threads -> Call])' /\ Placed'
<1> DEFINE c == [call[t] EXCEPT !.pc = p]
<1>1. call[t] \in Call
  BY DEF TypeInv, TypeOK
<1>2. c \in Call /\ c.sid = call[t].sid /\ c.own = call[t].own
  BY <1>1 DEF Call
<1>3. call' = [call EXCEPT ![t] = c]
  BY DEF Go
<1>4. call[t].sid \in Sids /\ call[t].own \in Threads
  BY DEF TypeInv, Placed
<1> HIDE DEF c
<1> QED BY <1>2, <1>3, <1>4, CallType

LEMMA RaiseType ==
    ASSUME TypeInv, NEW t \in Threads, call[t].pc # "idle", Raise(t)
    PROVE  (call \in [Threads -> Call])' /\ Placed' /\ (raised \in [Sids -> Nat])'
<1>1. (call \in [Threads -> Call])' /\ Placed'
  BY CallType, NoCallType DEF Raise, NoCall
<1>2. (raised \in [Sids -> Nat])'
  BY DEF TypeInv, TypeOK, Placed, Raise
<1> QED BY <1>1, <1>2

LEMMA InitType == Init => TypeInv
BY NoCallType, SandboxAssumption
   DEF Init, TypeInv, TypeOK, Placed, LogTypeOK, Object, Fresh, NoCall

LEMMA BeginType ==
    ASSUME TypeInv, NEW t \in Threads, Begin(t)
    PROVE  TypeInv'
<1>1. PICK s \in Sids : \/ create_session(t, s) \/ handle_new(t, s)
                        \/ handle_command(t, s) \/ close_session(t, s)
  BY DEF Begin
<1>2. ASSUME Create(t, s)
      PROVE  LogTypeOK' /\ (obj \in [Sids -> [Threads -> Object]])' /\ (reg \in [Sids -> Threads \cup {None}])'
  <2>1. LogTypeOK'
    BY <1>2, AppendLineType DEF Create, TypeInv, TypeOK, EventType
  <2>2. Fresh(1) \in Object
    BY DEF Fresh, Object
  <2> QED BY <1>2, <2>1, <2>2 DEF Create, TypeInv, TypeOK
<1>3. CASE create_session(t, s)
  BY <1>2, <1>3 DEF create_session, TypeInv, TypeOK, Placed, tallies
<1>4. CASE handle_new(t, s)
  <2> DEFINE c == [NoCall EXCEPT !.pc = "count", !.sid = s, !.own = t]
  <2>1. c \in Call /\ c.sid \in Sids /\ c.own \in Threads
    BY NoCallType DEF Call, NoCall, Pcs
  <2>2. call' = [call EXCEPT ![t] = c]
    BY <1>4 DEF handle_new
  <2> HIDE DEF c
  <2>3. (call \in [Threads -> Call])' /\ Placed'
    BY <2>1, <2>2, CallType
  <2> QED BY <1>2, <1>4, <2>3 DEF handle_new, TypeInv, TypeOK, tallies
<1>5. CASE handle_command(t, s)
  <2> DEFINE c == IF reg[s] # None
                  THEN [NoCall EXCEPT !.pc = "count", !.sid = s, !.own = reg[s]]
                  ELSE [NoCall EXCEPT !.pc = "wake", !.sid = s, !.own = t]
  <2>0. reg[s] # None => reg[s] \in Threads
    BY DEF TypeInv, TypeOK
  <2>1. c \in Call /\ c.sid \in Sids /\ c.own \in Threads
    BY <2>0, NoCallType DEF Call, NoCall, Pcs
  <2>2. call' = [call EXCEPT ![t] = c]
    BY <1>5 DEF handle_command
  <2> HIDE DEF c
  <2>3. (call \in [Threads -> Call])' /\ Placed'
    BY <2>1, <2>2, CallType
  <2>4. LogTypeOK'
    BY <1>5 DEF handle_command, TypeInv, TypeOK, LogTypeOK, logVars
  <2>5. spent' \in [calls : Nat, faults : Nat, crashes : Nat, reads : Nat]
    <3>1. spent' = [spent EXCEPT !.calls = @ + 1]
      BY <1>5 DEF handle_command
    <3> QED BY <3>1 DEF TypeInv, TypeOK
  <2> QED BY <1>5, <2>3, <2>4, <2>5 DEF handle_command, TypeInv, TypeOK, tallies
<1>6. CASE close_session(t, s)
  <2> DEFINE c == [NoCall EXCEPT !.pc = "end", !.sid = s, !.own = reg[s]]
  <2>0. reg[s] \in Threads
    BY <1>6 DEF close_session, TypeInv, TypeOK
  <2>1. c \in Call /\ c.sid \in Sids /\ c.own \in Threads
    BY <2>0, NoCallType DEF Call, NoCall, Pcs
  <2>2. call' = [call EXCEPT ![t] = c]
    BY <1>6 DEF close_session
  <2> HIDE DEF c
  <2>3. (call \in [Threads -> Call])' /\ Placed'
    BY <2>1, <2>2, CallType
  <2>4. LogTypeOK'
    BY <1>6 DEF close_session, TypeInv, TypeOK, LogTypeOK, logVars
  <2>5. spent' \in [calls : Nat, faults : Nat, crashes : Nat, reads : Nat]
    BY <1>6 DEF close_session, TypeInv, TypeOK
  <2> QED BY <1>6, <2>3, <2>4, <2>5 DEF close_session, TypeInv, TypeOK, tallies
<1> QED BY <1>1, <1>3, <1>4, <1>5, <1>6

(* A step that moves on, or raises, and writes at most one line. *)
LEMMA ProceedType ==
    ASSUME TypeInv, NEW t \in Threads, Proceed(t)
    PROVE  TypeInv'
<1> DEFINE s == call[t].sid
           o == call[t].own
           Bounds == [calls : Nat, faults : Nat, crashes : Nat, reads : Nat]
<1>1. call[t].pc # "idle"
  BY DEF Proceed, At, Open, Resume, Register, Restore, Assign, CountCommand, CountFromZero,
         End, Flag, Input, BuildContext, RunStage, Stumble, Verify, Retry, Respond, Fail, Metric
<1>2. s \in Sids /\ o \in Threads /\ call[t] \in Call
  BY <1>1 DEF TypeInv, TypeOK, Placed
<1>3. ASSUME NEW b \in Object, obj' = [obj EXCEPT ![s][o] = b]
      PROVE  (obj \in [Sids -> [Threads -> Object]])'
  BY <1>2, <1>3 DEF TypeInv, TypeOK
<1>4. ASSUME NEW e \in EventType, EmitOK(t, e) \/ EmitFails(t)
      PROVE  LogTypeOK' /\ (obj \in [Sids -> [Threads -> Object]])' /\ spent' \in Bounds
  BY <1>1, <1>4, EmitType
<1>5. ASSUME UNCHANGED logVars PROVE LogTypeOK'
  BY <1>5 DEF TypeInv, TypeOK, LogTypeOK, logVars
<1>6. obj[s][o] \in Object /\ log[s] \in Seq(Lines)
  BY <1>2 DEF TypeInv, TypeOK, LogTypeOK, Lines
<1>7. ASSUME NEW p \in Pcs, Go(t, p)
      PROVE  (call \in [Threads -> Call])' /\ Placed'
  BY <1>1, <1>7, GoType
<1>8. ASSUME Raise(t)
      PROVE  (call \in [Threads -> Call])' /\ Placed' /\ (raised \in [Sids -> Nat])'
  BY <1>1, <1>8, RaiseType
<1>9. ASSUME NextStage(t)
      PROVE  (call \in [Threads -> Call])' /\ Placed'
  <2> DEFINE c == IF call[t].stage = Len(Components)
                  THEN [call[t] EXCEPT !.pc = "verify"]
                  ELSE [call[t] EXCEPT !.pc = "stage", !.stage = @ + 1]
  <2>1. call[t].stage \in 1..Len(Components) /\ Len(Components) \in Nat
    BY <1>2, SandboxAssumption DEF Call, Stages
  <2>2. c \in Call /\ c.sid = s /\ c.own = o
    <3>1. CASE call[t].stage = Len(Components)
      BY <1>2, <3>1 DEF Call, Pcs
    <3>2. CASE call[t].stage # Len(Components)
      <4>1. call[t].stage + 1 \in Stages
        BY <2>1, <3>2 DEF Stages
      <4> QED BY <1>2, <3>2, <4>1 DEF Call, Pcs
    <3> QED BY <3>1, <3>2
  <2>3. call' = [call EXCEPT ![t] = c]
    BY <1>9 DEF NextStage
  <2> HIDE DEF c
  <2> QED BY <1>2, <2>2, <2>3, CallType
<1>10. ASSUME Settle(t)
       PROVE  (call \in [Threads -> Call])' /\ Placed'
  <2> DEFINE c == [call[t] EXCEPT !.pc = "metric", !.logged = FALSE]
  <2>2. c \in Call /\ c.sid = s /\ c.own = o
    BY <1>2 DEF Call, Pcs
  <2>3. call' = [call EXCEPT ![t] = c]
    BY <1>10 DEF Settle
  <2> HIDE DEF c
  <2> QED BY <1>2, <2>2, <2>3, CallType
<1>11. ASSUME call' = [call EXCEPT ![t] = NoCall]
       PROVE  (call \in [Threads -> Call])' /\ Placed'
  BY <1>11, CallType, NoCallType DEF NoCall
<1>12. CASE Open(t)
  <2>1. Len(log[s]) \in Nat /\ Fresh(Len(log[s])) \in Object
    BY <1>6 DEF Fresh, Object
  <2>2. obj' = [obj EXCEPT ![s][t] = Fresh(Len(log[s]))]
    BY <1>12 DEF Open
  <2> DEFINE b == Fresh(Len(log[s]))
  <2> HIDE DEF b
  <2>3. (obj \in [Sids -> [Threads -> Object]])'
    <3>1. b \in Object /\ obj' = [obj EXCEPT ![s][t] = b]
      BY <2>1, <2>2 DEF b
    <3> QED BY <1>2, <3>1 DEF TypeInv, TypeOK
  <2> QED BY <1>12, <1>5, <1>7, <2>3 DEF Open, TypeInv, TypeOK, tallies, Pcs
<1>13. CASE Resume(t)
  BY <1>13, <1>4, <1>7, <1>8 DEF Resume, TypeInv, TypeOK, Pcs, EventType
<1>14. CASE Register(t)
  BY <1>14, <1>2, <1>5, <1>7 DEF Register, TypeInv, TypeOK, Pcs, tallies
<1>15. CASE Restore(t)
  <2>1. Count(s, {"input"}) \in Nat
    BY <1>6, OccurrencesAppend DEF Count, EventType, Lines
  <2>2. ASSUME call' = [call EXCEPT ![t].pc = "assign", ![t].val = Count(s, {"input"})]
        PROVE  (call \in [Threads -> Call])' /\ Placed'
    <3> DEFINE c == [call[t] EXCEPT !.pc = "assign", !.val = Count(s, {"input"})]
    <3>1. c \in Call /\ c.sid = s /\ c.own = o
      BY <1>2, <2>1 DEF Call, Pcs
    <3>2. call' = [call EXCEPT ![t] = c]
      BY <2>2
    <3> HIDE DEF c
    <3> QED BY <1>2, <3>1, <3>2, CallType
  <2> QED BY <1>15, <1>5, <1>7, <1>8, <2>2 DEF Restore, TypeInv, TypeOK, Pcs
<1>16. CASE Assign(t)
  <2> DEFINE b == [obj[s][o] EXCEPT !.counted = TRUE, !.cmds = call[t].val]
  <2>1. b \in Object
    BY <1>2, <1>6 DEF Object, Call
  <2>2. obj' = [obj EXCEPT ![s][o] = b]
    BY <1>16 DEF Assign
  <2> HIDE DEF b
  <2> QED BY <1>16, <1>3, <1>5, <1>7, <2>1, <2>2 DEF Assign, TypeInv, TypeOK, Pcs, tallies
<1>17. CASE CountCommand(t)
  <2> DEFINE b == [obj[s][o] EXCEPT !.cmds = @ + 1]
  <2>1. b \in Object
    BY <1>6 DEF Object
  <2>2. UNCHANGED obj \/ obj' = [obj EXCEPT ![s][o] = b]
    BY <1>17 DEF CountCommand
  <2> HIDE DEF b
  <2>3. (obj \in [Sids -> [Threads -> Object]])'
    BY <1>3, <2>1, <2>2 DEF TypeInv, TypeOK
  <2> QED BY <1>17, <1>5, <1>7, <2>3 DEF CountCommand, Gate, TypeInv, TypeOK, Pcs, tallies
<1>18. CASE CountFromZero(t)
  <2> DEFINE b == [obj[s][o] EXCEPT !.counted = TRUE, !.cmds = 1]
  <2>1. b \in Object
    BY <1>6 DEF Object
  <2>2. obj' = [obj EXCEPT ![s][o] = b]
    BY <1>18 DEF CountFromZero
  <2> HIDE DEF b
  <2> QED BY <1>18, <1>3, <1>5, <1>7, <2>1, <2>2 DEF CountFromZero, Gate, TypeInv, TypeOK, Pcs, tallies
<1>19. CASE End(t)
  BY <1>19, <1>4, <1>7, <1>8 DEF End, TypeInv, TypeOK, Pcs, EventType
<1>20. CASE Flag(t)
  <2> DEFINE b == [obj[s][o] EXCEPT !.closed = TRUE]
  <2>1. b \in Object
    BY <1>6 DEF Object
  <2>2. obj' = [obj EXCEPT ![s][o] = b]
    BY <1>20 DEF Flag
  <2> HIDE DEF b
  <2> QED BY <1>20, <1>3, <1>5, <1>11, <2>1, <2>2 DEF Flag, TypeInv, TypeOK, tallies
<1>21. CASE Input(t)
  <2>1. ASSUME call' = [call EXCEPT ![t].pc = "context", ![t].logged = TRUE]
        PROVE  (call \in [Threads -> Call])' /\ Placed'
    <3> DEFINE c == [call[t] EXCEPT !.pc = "context", !.logged = TRUE]
    <3>1. c \in Call /\ c.sid = s /\ c.own = o
      BY <1>2 DEF Call, Pcs
    <3>2. call' = [call EXCEPT ![t] = c]
      BY <2>1
    <3> HIDE DEF c
    <3> QED BY <1>2, <3>1, <3>2, CallType
  <2> QED BY <1>21, <1>4, <1>7, <2>1 DEF Input, TypeInv, TypeOK, Pcs, EventType, tallies
<1>22. CASE BuildContext(t)
  BY <1>22, <1>5, <1>7 DEF BuildContext, TypeInv, TypeOK, Pcs, tallies
<1>23. CASE RunStage(t)
  <2>1. Components[call[t].stage] \in EventType
    BY <1>2, SandboxAssumption DEF Call, Stages, EventType
  <2> QED BY <1>23, <1>4, <1>5, <1>7, <1>9, <2>1 DEF RunStage, TypeInv, TypeOK, Pcs, tallies
<1>24. CASE Stumble(t)
  BY <1>24, <1>4, <1>7, <1>9 DEF Stumble, TypeInv, TypeOK, Pcs, EventType, tallies
<1>25. CASE Verify(t)
  BY <1>25, <1>4, <1>5, <1>7 DEF Verify, TypeInv, TypeOK, Pcs, EventType, tallies
<1>26. CASE Retry(t)
  <2>1. ASSUME call' = [call EXCEPT ![t].tries = @ + 1]
        PROVE  (call \in [Threads -> Call])' /\ Placed'
    <3> DEFINE c == [call[t] EXCEPT !.tries = @ + 1]
    <3>1. c \in Call /\ c.sid = s /\ c.own = o
      BY <1>2 DEF Call
    <3>2. call' = [call EXCEPT ![t] = c]
      BY <2>1
    <3> HIDE DEF c
    <3> QED BY <1>2, <3>1, <3>2, CallType
  <2> QED BY <1>26, <1>4, <1>5, <1>7, <2>1 DEF Retry, TypeInv, TypeOK, Pcs, EventType, tallies
<1>27. CASE Respond(t)
  BY <1>27, <1>4, <1>7, <1>10 DEF Respond, TypeInv, TypeOK, Pcs, EventType, tallies
<1>28. CASE Fail(t)
  BY <1>28, <1>4, <1>8, <1>10 DEF Fail, Failure, TypeInv, TypeOK, EventType
<1>29. CASE Metric(t)
  BY <1>29, <1>2, <1>4, <1>8, <1>11 DEF Metric, TypeInv, TypeOK, EventType
<1> QED
  BY <1>12, <1>13, <1>14, <1>15, <1>16, <1>17, <1>18, <1>19, <1>20, <1>21, <1>22, <1>23,
     <1>24, <1>25, <1>26, <1>27, <1>28, <1>29 DEF Proceed

LEMMA OutsideType ==
    ASSUME TypeInv
    PROVE  /\ \A s \in Sids : CreateFails(s) \/ wake_to_read(s) => TypeInv'
           /\ Crash => TypeInv'
<1>1. ASSUME NEW s \in Sids, CreateFails(s) PROVE TypeInv'
  <2>1. LogTypeOK'
    BY <1>1, TearLineType DEF CreateFails, Fault, TypeInv, TypeOK, LogTypeOK, logVars
  <2> QED BY <1>1, <2>1 DEF CreateFails, Fault, TypeInv, TypeOK, Placed, memVars, tallies
<1>2. ASSUME NEW s \in Sids, wake_to_read(s) PROVE TypeInv'
  <2>1. LogTypeOK'
    BY <1>2, AppendLineType DEF wake_to_read, TypeInv, TypeOK, EventType
  <2>2. spent' \in [calls : Nat, faults : Nat, crashes : Nat, reads : Nat]
    <3>1. spent' = [spent EXCEPT !.reads = @ + 1]
      BY <1>2 DEF wake_to_read
    <3> QED BY <3>1 DEF TypeInv, TypeOK
  <2> QED BY <1>2, <2>1, <2>2 DEF wake_to_read, TypeInv, TypeOK, Placed, memVars, tallies
<1>3. ASSUME Crash PROVE TypeInv'
  <2>1. LogTypeOK'
    <3>1. CASE UNCHANGED logVars
      BY <3>1 DEF TypeInv, TypeOK, LogTypeOK, logVars
    <3>2. ASSUME NEW t \in Threads, call[t].pc \in Emitting, TearLine(call[t].sid)
          PROVE  LogTypeOK'
      BY <3>2, TearLineType DEF TypeInv, TypeOK, Placed, Emitting
    <3> QED BY <1>3, <3>1, <3>2 DEF Crash
  <2>2. \A s \in Sids : Cardinality(Pending(s)) \in Nat
    <3> TAKE s \in Sids
    <3>1. Pending(s) \in SUBSET Threads
      BY DEF Pending
    <3> QED BY <3>1, SandboxAssumption, FS_Subset, FS_CardinalityType
  <2>3. Fresh(0) \in Object
    BY DEF Fresh, Object
  <2>4. (call \in [Threads -> Call])' /\ Placed'
    BY <1>3, NoCallType DEF Crash, Placed, NoCall
  <2>5. (obj \in [Sids -> [Threads -> Object]])'
    BY <1>3, <2>3 DEF Crash
  <2>6. (cut \in [Sids -> Nat])'
    BY <1>3, <2>2 DEF Crash, TypeInv, TypeOK
  <2>7. spent' \in [calls : Nat, faults : Nat, crashes : Nat, reads : Nat]
    <3>1. spent' = [spent EXCEPT !.crashes = @ + 1]
      BY <1>3 DEF Crash
    <3> QED BY <3>1 DEF TypeInv, TypeOK
  <2> QED BY <1>3, <2>1, <2>4, <2>5, <2>6, <2>7 DEF Crash, TypeInv, TypeOK
<1> QED BY <1>1, <1>2, <1>3

LEMMA TypeStep == TypeInv /\ [Next]_vars => TypeInv'
<1>1. TypeInv /\ UNCHANGED vars => TypeInv'
  BY DEF vars, TypeInv, TypeOK, LogTypeOK, Placed
<1>2. TypeInv /\ Next => TypeInv'
  BY BeginType, ProceedType, OutsideType DEF Next
<1> QED BY <1>1, <1>2

(* The variables keep their types. *)
THEOREM TypeCorrect == Spec => []TypeOK
<1>1. TypeInv => TypeOK
  BY DEF TypeInv
<1> QED BY <1>1, InitType, TypeStep, PTL DEF Spec

-----------------------------------------------------------------------------
(* Commands are not lost.                                                  *)
(*                                                                         *)
(* NothingLost alone is not inductive: that a command just logged was not  *)
(* pending before, and that one just settled was, is known from where the  *)
(* thread is; and that a line really reached the log is known from the     *)
(* log being readable, since a torn line makes it unreadable for good.     *)

Running == {"context", "stage", "stumble", "verify", "retry", "respond"}

Marked ==
    \A t \in Threads : /\ call[t].pc \in Running => call[t].logged
                       /\ call[t].logged => call[t].pc \in Running \cup {"fail"}

TornUnreadable == \A s \in Sids : torn[s] => ~Readable(s)

LossInv == TypeInv /\ TornUnreadable /\ Marked /\ NothingLost

(* A step that leaves no log readable which was not, and adds neither a    *)
(* command nor an outcome to a readable one.                               *)
Silent ==
    /\ TornUnreadable'
    /\ \A x \in Sids : Readable(x)' =>
          /\ Readable(x)
          /\ Inputs(x)' = Inputs(x)
          /\ Count(x, Outcomes)' = Count(x, Outcomes)

LEMMA LineEffect ==
    ASSUME TypeInv, TornUnreadable, NEW s \in Sids, NEW e \in EventType,
           AppendLine(s, e), NEW x \in Sids, Readable(x)', NEW K
    PROVE  /\ Readable(x)
           /\ Count(x, K) \in Nat
           /\ Count(x, K)' = Count(x, K) + (IF x = s /\ e \in K THEN 1 ELSE 0)
<1>1. log[x] \in Seq(Lines) /\ e \in Lines /\ s \in Sids
  BY DEF TypeInv, TypeOK, LogTypeOK, Lines
<1>2. Count(x, K) \in Nat
  BY <1>1, OccurrencesAppend DEF Count
<1>3. CASE x # s
  <2>1. log'[x] = log[x]
    BY <1>3 DEF AppendLine, TypeInv, TypeOK, LogTypeOK
  <2> QED BY <1>2, <1>3, <2>1 DEF Count, Readable
<1>4. CASE x = s /\ torn[s]
  <2>1. log'[x] = log[x]
    BY <1>4 DEF AppendLine, TypeInv, TypeOK, LogTypeOK
  <2> QED BY <1>4, <2>1 DEF Readable, TornUnreadable
<1>5. CASE x = s /\ ~torn[s]
  <2>1. log'[x] = Append(log[x], e)
    BY <1>5 DEF AppendLine, TypeInv, TypeOK, LogTypeOK
  <2>2. Count(x, K)' = Count(x, K) + (IF e \in K THEN 1 ELSE 0)
    BY <1>1, <2>1, OccurrencesAppend DEF Count
  <2>3. \A i \in DOMAIN log[x] : i \in DOMAIN log'[x] /\ log'[x][i] = log[x][i]
    BY <1>1, <2>1
  <2>4. Readable(x)
    BY <2>3 DEF Readable
  <2> QED BY <1>2, <1>5, <2>2, <2>4
<1> QED BY <1>3, <1>4, <1>5

LEMMA AppendTorn ==
    ASSUME TypeInv, TornUnreadable, NEW s \in Sids, NEW e \in EventType, AppendLine(s, e)
    PROVE  TornUnreadable'
<1> SUFFICES ASSUME NEW x \in Sids, torn'[x] PROVE ~Readable(x)'
  BY DEF TornUnreadable
<1>1. x # s /\ torn[x] /\ log'[x] = log[x]
  BY DEF AppendLine, TypeInv, TypeOK, LogTypeOK
<1> QED BY <1>1 DEF TornUnreadable, Readable

LEMMA TearEffect ==
    ASSUME TypeInv, TornUnreadable, NEW s \in Sids, TearLine(s)
    PROVE  /\ TornUnreadable'
           /\ \A x \in Sids : Readable(x)' => log'[x] = log[x]
<1>1. \A x \in Sids : x # s => log'[x] = log[x] /\ torn'[x] = torn[x]
  BY DEF TearLine, TypeInv, TypeOK, LogTypeOK
<1>2. ~Readable(s)'
  <2>1. CASE torn[s]
    BY <2>1 DEF TearLine, TypeInv, TypeOK, LogTypeOK, TornUnreadable, Readable
  <2>2. CASE ~torn[s]
    <3>1. log[s] \in Seq(Lines) /\ Garbled \in Lines
      BY DEF TypeInv, TypeOK, LogTypeOK, Lines
    <3>2. log'[s] = Append(log[s], Garbled)
      BY <2>2 DEF TearLine, TypeInv, TypeOK, LogTypeOK
    <3>3. Len(log[s]) + 1 \in DOMAIN log'[s] /\ log'[s][Len(log[s]) + 1] = Garbled
      BY <3>1, <3>2
    <3> QED BY <3>3 DEF Readable
  <2> QED BY <2>1, <2>2
<1> QED BY <1>1, <1>2 DEF TornUnreadable, Readable

LEMMA UnchangedLog ==
    ASSUME TypeInv, TornUnreadable, UNCHANGED logVars
    PROVE  Silent
BY DEF Silent, TornUnreadable, Readable, Inputs, Count, logVars

LEMMA SilentFault ==
    ASSUME TypeInv, TornUnreadable, NEW s \in Sids, UNCHANGED logVars \/ TearLine(s)
    PROVE  Silent
<1>1. CASE TearLine(s)
  BY <1>1, TearEffect DEF Silent, Readable, Inputs, Count
<1> QED BY <1>1, UnchangedLog

LEMMA SilentLine ==
    ASSUME TypeInv, TornUnreadable, NEW s \in Sids, NEW e \in EventType,
           e \notin {"input"} \cup Outcomes, AppendLine(s, e)
    PROVE  Silent
<1>1. TornUnreadable'
  BY AppendTorn
<1>2. ASSUME NEW x \in Sids, Readable(x)'
      PROVE  Readable(x) /\ Inputs(x)' = Inputs(x) /\ Count(x, Outcomes)' = Count(x, Outcomes)
  <2>1. Readable(x) /\ Count(x, {"input"}) \in Nat /\ Count(x, {"input"})' = Count(x, {"input"}) + 0
    BY <1>2, LineEffect
  <2>2. Count(x, Outcomes) \in Nat /\ Count(x, Outcomes)' = Count(x, Outcomes) + 0
    BY <1>2, LineEffect
  <2> QED BY <2>1, <2>2 DEF Inputs
<1> QED BY <1>1, <1>2 DEF Silent

(* What an emit of anything but a command or an outcome does to the logs.  *)
LEMMA SilentEmit ==
    ASSUME TypeInv, TornUnreadable, NEW t \in Threads, call[t].pc # "idle",
           NEW e \in EventType, e \notin {"input"} \cup Outcomes,
           EmitOK(t, e) \/ EmitFails(t)
    PROVE  Silent
<1>1. call[t].sid \in Sids
  BY DEF TypeInv, Placed
<1>2. CASE EmitOK(t, e)
  BY <1>1, <1>2, SilentLine DEF EmitOK
<1>3. CASE EmitFails(t)
  BY <1>1, <1>3, SilentFault DEF EmitFails, Fault
<1> QED BY <1>2, <1>3

(* How the pending commands follow a thread's record. *)
LEMMA PendingFinite ==
    ASSUME NEW s
    PROVE  IsFiniteSet(Pending(s)) /\ Cardinality(Pending(s)) \in Nat
<1>1. Pending(s) \in SUBSET Threads
  BY DEF Pending
<1> QED BY <1>1, SandboxAssumption, FS_Subset, FS_CardinalityType

LEMMA PendingSame ==
    ASSUME TypeInv, NEW t \in Threads, NEW c \in Call, call' = [call EXCEPT ![t] = c],
           c.logged = call[t].logged, c.logged => c.sid = call[t].sid, NEW x
    PROVE  Pending(x)' = Pending(x)
BY DEF Pending, TypeInv, TypeOK

LEMMA PendingMore ==
    ASSUME TypeInv, NEW t \in Threads, NEW c \in Call, call' = [call EXCEPT ![t] = c],
           ~call[t].logged, c.logged, NEW x
    PROVE  Cardinality(Pending(x))' = Cardinality(Pending(x)) + (IF x = c.sid THEN 1 ELSE 0)
<1>1. Pending(x)' = IF x = c.sid THEN Pending(x) \cup {t} ELSE Pending(x)
  BY DEF Pending, TypeInv, TypeOK
<1>2. t \notin Pending(x)
  BY DEF Pending
<1>3. Cardinality(Pending(x) \cup {t}) = Cardinality(Pending(x)) + 1
  BY <1>2, PendingFinite, FS_AddElement
<1> QED BY <1>1, <1>3, PendingFinite

LEMMA PendingLess ==
    ASSUME TypeInv, NEW t \in Threads, NEW c \in Call, call' = [call EXCEPT ![t] = c],
           call[t].logged, ~c.logged, NEW x
    PROVE  Cardinality(Pending(x))' = Cardinality(Pending(x)) - (IF x = call[t].sid THEN 1 ELSE 0)
<1>1. Pending(x)' = IF x = call[t].sid THEN Pending(x) \ {t} ELSE Pending(x)
  BY DEF Pending, TypeInv, TypeOK
<1>2. x = call[t].sid => t \in Pending(x)
  BY DEF Pending
<1>3. x = call[t].sid => Cardinality(Pending(x) \ {t}) = Cardinality(Pending(x)) - 1
  BY <1>2, PendingFinite, FS_RemoveElement
<1> QED BY <1>1, <1>3, PendingFinite

LEMMA Terms ==
    ASSUME TypeInv, NEW x \in Sids
    PROVE  /\ Inputs(x) \in Nat /\ Count(x, Outcomes) \in Nat
           /\ raised[x] \in Nat /\ cut[x] \in Nat /\ Cardinality(Pending(x)) \in Nat
<1>1. log[x] \in Seq(Lines) /\ Garbled \in Lines
  BY DEF TypeInv, TypeOK, LogTypeOK, Lines
<1> QED BY <1>1, OccurrencesAppend, PendingFinite DEF Count, Inputs, TypeInv, TypeOK

(* The four ways a step moves the terms of NothingLost. *)
LEMMA Quiet ==
    ASSUME LossInv, Silent, \A x \in Sids : Cardinality(Pending(x))' = Cardinality(Pending(x)),
           UNCHANGED <<raised, cut>>
    PROVE  NothingLost'
BY DEF LossInv, Silent, NothingLost, Settled

LEMMA Raised ==
    ASSUME LossInv, Silent, NEW t \in Threads, call[t].pc # "idle", Raise(t), UNCHANGED cut
    PROVE  NothingLost' /\ Marked'
<1>1. NoCall \in Call /\ ~NoCall.logged /\ call' = [call EXCEPT ![t] = NoCall]
  BY NoCallType DEF Raise, NoCall
<1>2. Marked'
  BY DEF LossInv, Marked, Raise, NoCall, TypeInv, TypeOK, Running
<1>3. TypeInv /\ call[t].sid \in Sids
  BY DEF LossInv, TypeInv, Placed
<1>4. CASE call[t].logged
  <2>1. ASSUME NEW x \in Sids, Readable(x)'
        PROVE  Inputs(x)' = Settled(x)' + Cardinality(Pending(x))'
    <3>1. Cardinality(Pending(x))' = Cardinality(Pending(x)) - (IF x = call[t].sid THEN 1 ELSE 0)
      BY <1>1, <1>3, <1>4, PendingLess
    <3>2. raised'[x] = raised[x] + (IF x = call[t].sid THEN 1 ELSE 0)
      BY <1>3, <1>4 DEF Raise, TypeInv, TypeOK
    <3>3. Inputs(x) = Count(x, Outcomes) + raised[x] + cut[x] + Cardinality(Pending(x))
      BY <2>1 DEF LossInv, Silent, NothingLost, Settled
    <3>4. Inputs(x)' = Inputs(x) /\ Count(x, Outcomes)' = Count(x, Outcomes) /\ cut'[x] = cut[x]
      BY <2>1 DEF Silent
    <3>5. /\ Count(x, Outcomes) \in Nat /\ raised[x] \in Nat /\ cut[x] \in Nat
          /\ Cardinality(Pending(x)) \in Nat
      BY <1>3, Terms
    <3> QED BY <3>1, <3>2, <3>3, <3>4, <3>5 DEF Settled
  <2> QED BY <1>2, <2>1 DEF NothingLost
<1>5. CASE ~call[t].logged
  <2>0. NoCall.logged = FALSE /\ call[t].logged = FALSE
    BY <1>3, <1>5 DEF NoCall, Call, TypeInv, TypeOK
  <2>1. \A x : Pending(x)' = Pending(x)
    BY <1>1, <1>3, <2>0, PendingSame
  <2>2. raised' = raised
    BY <1>3, <1>5 DEF Raise, TypeInv, TypeOK
  <2> QED BY <1>2, <2>1, <2>2, Quiet
<1> QED BY <1>4, <1>5

LEMMA Commanded ==
    ASSUME LossInv, NEW t \in Threads, call[t].pc # "idle", ~call[t].logged,
           EmitOK(t, "input"),
           call' = [call EXCEPT ![t].pc = "context", ![t].logged = TRUE],
           UNCHANGED <<raised, cut>>
    PROVE  TornUnreadable' /\ NothingLost'
<1> DEFINE s == call[t].sid
           c == [call[t] EXCEPT !.pc = "context", !.logged = TRUE]
<1>1. TypeInv /\ TornUnreadable /\ NothingLost /\ s \in Sids /\ call[t] \in Call
  BY DEF LossInv, TypeInv, TypeOK, Placed
<1>2. c \in Call /\ c.logged /\ c.sid = s /\ call' = [call EXCEPT ![t] = c]
  BY <1>1 DEF Call, Pcs
<1> HIDE DEF c
<1>3. AppendLine(s, "input") /\ "input" \in EventType
  BY DEF EmitOK, EventType
<1>4. ASSUME NEW x \in Sids, Readable(x)'
      PROVE  Inputs(x)' = Settled(x)' + Cardinality(Pending(x))'
  <2>1. Readable(x) /\ Count(x, {"input"})' = Count(x, {"input"}) + (IF x = s THEN 1 ELSE 0)
    BY <1>1, <1>3, <1>4, LineEffect
  <2>2. Count(x, Outcomes)' = Count(x, Outcomes) + 0
    BY <1>1, <1>3, <1>4, LineEffect DEF Outcomes
  <2>3. Cardinality(Pending(x))' = Cardinality(Pending(x)) + (IF x = s THEN 1 ELSE 0)
    BY <1>1, <1>2, PendingMore
  <2>4. Inputs(x) = Settled(x) + Cardinality(Pending(x))
    BY <1>1, <2>1 DEF NothingLost
  <2>5. /\ Inputs(x) \in Nat /\ Count(x, Outcomes) \in Nat
        /\ raised[x] \in Nat /\ cut[x] \in Nat /\ Cardinality(Pending(x)) \in Nat
    BY <1>1, Terms
  <2> QED BY <2>1, <2>2, <2>3, <2>4, <2>5 DEF Inputs, Settled
<1> QED BY <1>1, <1>3, <1>4, AppendTorn DEF NothingLost

LEMMA Concluded ==
    ASSUME LossInv, NEW t \in Threads, call[t].pc # "idle", call[t].logged,
           NEW e \in Outcomes, EmitOK(t, e), Settle(t), UNCHANGED <<raised, cut>>
    PROVE  TornUnreadable' /\ NothingLost'
<1> DEFINE s == call[t].sid
           c == [call[t] EXCEPT !.pc = "metric", !.logged = FALSE]
<1>1. TypeInv /\ TornUnreadable /\ NothingLost /\ s \in Sids /\ call[t] \in Call
  BY DEF LossInv, TypeInv, TypeOK, Placed
<1>2. c \in Call /\ ~c.logged /\ c.sid = s /\ call' = [call EXCEPT ![t] = c]
  BY <1>1 DEF Call, Pcs, Settle
<1>3. AppendLine(s, e) /\ e \in EventType /\ e # "input"
  BY DEF EmitOK, EventType, Outcomes
<1>4. ASSUME NEW x \in Sids, Readable(x)'
      PROVE  Inputs(x)' = Settled(x)' + Cardinality(Pending(x))'
  <2>1. Readable(x) /\ Count(x, {"input"})' = Count(x, {"input"}) + 0
    BY <1>1, <1>3, <1>4, LineEffect
  <2>2. Count(x, Outcomes)' = Count(x, Outcomes) + (IF x = s THEN 1 ELSE 0)
    BY <1>1, <1>3, <1>4, LineEffect
  <2>3. Cardinality(Pending(x))' = Cardinality(Pending(x)) - (IF x = s THEN 1 ELSE 0)
    BY <1>1, <1>2, PendingLess
  <2>4. Inputs(x) = Settled(x) + Cardinality(Pending(x))
    BY <1>1, <2>1 DEF NothingLost
  <2>5. /\ Inputs(x) \in Nat /\ Count(x, Outcomes) \in Nat
        /\ raised[x] \in Nat /\ cut[x] \in Nat /\ Cardinality(Pending(x)) \in Nat
    BY <1>1, Terms
  <2> QED BY <2>1, <2>2, <2>3, <2>4, <2>5 DEF Inputs, Settled
<1> QED BY <1>1, <1>3, <1>4, AppendTorn DEF NothingLost

(* A step of a call that neither logs a command nor settles one: what it   *)
(* emits is silent, and the mark on the thread stays.                      *)
LEMMA Moves ==
    ASSUME LossInv, NEW t \in Threads, NEW c \in Call, call' = [call EXCEPT ![t] = c],
           c.logged = call[t].logged, c.logged => c.sid = call[t].sid,
           c.pc \in Running => c.logged, c.logged => c.pc \in Running \cup {"fail"},
           Silent, UNCHANGED <<raised, cut>>
    PROVE  TornUnreadable' /\ NothingLost' /\ Marked'
<1>1. \A x : Pending(x)' = Pending(x)
  BY PendingSame DEF LossInv
<1>2. NothingLost'
  BY <1>1, Quiet
<1>3. Marked'
  BY DEF LossInv, Marked, TypeInv, TypeOK
<1> QED BY <1>2, <1>3 DEF Silent

LEMMA GoMoves ==
    ASSUME LossInv, NEW t \in Threads, NEW p \in Pcs, Go(t, p),
           p \in Running => call[t].logged, call[t].logged => p \in Running \cup {"fail"},
           Silent, UNCHANGED <<raised, cut>>
    PROVE  TornUnreadable' /\ NothingLost' /\ Marked'
<1> DEFINE c == [call[t] EXCEPT !.pc = p]
<1>1. call[t] \in Call
  BY DEF LossInv, TypeInv, TypeOK
<1>2. c \in Call /\ c.logged = call[t].logged /\ c.sid = call[t].sid /\ c.pc = p
  BY <1>1 DEF Call
<1>3. call' = [call EXCEPT ![t] = c]
  BY DEF Go
<1> HIDE DEF c
<1> QED BY <1>2, <1>3, Moves

LEMMA ProceedLoss ==
    ASSUME LossInv, NEW t \in Threads, Proceed(t)
    PROVE  TornUnreadable' /\ NothingLost' /\ Marked'
<1> DEFINE Goal == TornUnreadable' /\ NothingLost' /\ Marked'
           Same == UNCHANGED <<raised, cut>>
<1>1. call[t].pc # "idle"
  BY DEF Proceed, At, Open, Resume, Register, Restore, Assign, CountCommand, CountFromZero,
         End, Flag, Input, BuildContext, RunStage, Stumble, Verify, Retry, Respond, Fail, Metric
<1>2. TypeInv /\ TornUnreadable /\ call[t] \in Call
  BY DEF LossInv, TypeInv, TypeOK
<1>3. /\ call[t].pc \in Running => call[t].logged = TRUE
      /\ call[t].pc \notin Running \cup {"fail"} => call[t].logged = FALSE
  BY <1>2 DEF LossInv, Marked, Call
<1>4. ASSUME NEW p \in Pcs, Go(t, p), Silent, Same,
             p \in Running => call[t].logged, call[t].logged => p \in Running \cup {"fail"}
      PROVE  Goal
  BY <1>4, GoMoves
<1>5. ASSUME NEW e \in EventType, e \notin {"input"} \cup Outcomes, EmitOK(t, e) \/ EmitFails(t)
      PROVE  Silent
  BY <1>1, <1>2, <1>5, SilentEmit
<1>6. ASSUME UNCHANGED logVars PROVE Silent
  BY <1>2, <1>6, UnchangedLog
<1>7. ASSUME Silent, Raise(t), UNCHANGED cut PROVE Goal
  BY <1>1, <1>7, Raised DEF Silent
<1>8. ASSUME NEW c \in Call, call' = [call EXCEPT ![t] = c], Silent, Same,
             c.logged = call[t].logged, c.logged => c.sid = call[t].sid,
             c.pc \in Running => c.logged, c.logged => c.pc \in Running \cup {"fail"}
      PROVE  Goal
  BY <1>8, Moves
<1>9. ASSUME NextStage(t), Silent, Same, call[t].logged = TRUE PROVE Goal
  <2> DEFINE c == IF call[t].stage = Len(Components)
                  THEN [call[t] EXCEPT !.pc = "verify"]
                  ELSE [call[t] EXCEPT !.pc = "stage", !.stage = @ + 1]
  <2>1. c.logged = TRUE /\ c.sid = call[t].sid /\ c.pc \in Running
    BY <1>2, <1>9 DEF Call, Running
  <2>2. c \in Call
    <3>1. call[t].stage \in 1..Len(Components) /\ Len(Components) \in Nat
      BY <1>2, SandboxAssumption DEF Call, Stages
    <3>2. CASE call[t].stage = Len(Components)
      BY <1>2, <3>2 DEF Call, Pcs
    <3>3. CASE call[t].stage # Len(Components)
      <4>1. call[t].stage + 1 \in Stages
        BY <3>1, <3>3 DEF Stages
      <4> QED BY <1>2, <3>3, <4>1 DEF Call, Pcs
    <3> QED BY <3>2, <3>3
  <2>3. call' = [call EXCEPT ![t] = c]
    BY <1>9 DEF NextStage
  <2> HIDE DEF c
  <2> QED BY <1>8, <1>9, <2>1, <2>2, <2>3
<1>10. ASSUME Silent, Same, Settle(t), call[t].logged = FALSE PROVE Goal
  <2> DEFINE c == [call[t] EXCEPT !.pc = "metric", !.logged = FALSE]
  <2>1. c \in Call /\ c.logged = FALSE /\ c.pc \notin Running
    BY <1>2 DEF Call, Pcs, Running
  <2>2. call' = [call EXCEPT ![t] = c]
    BY <1>10 DEF Settle
  <2> HIDE DEF c
  <2> QED BY <1>8, <1>10, <2>1, <2>2
<1>11. ASSUME Silent, Same, call' = [call EXCEPT ![t] = NoCall], call[t].logged = FALSE PROVE Goal
  BY <1>8, <1>11, NoCallType DEF NoCall, Running
<1>12. CASE Open(t)
  BY <1>12, <1>3, <1>4, <1>6 DEF Open, At, Running, Pcs, tallies
<1>13. CASE Resume(t)
  BY <1>13, <1>3, <1>4, <1>5, <1>7 DEF Resume, At, Running, Pcs, EventType, Outcomes
<1>14. CASE Register(t)
  BY <1>14, <1>3, <1>4, <1>6 DEF Register, At, Running, Pcs, tallies
<1>15. CASE Restore(t)
  <2>1. ASSUME call' = [call EXCEPT ![t].pc = "assign", ![t].val = Count(call[t].sid, {"input"})],
               Silent, Same, call[t].logged = FALSE
        PROVE  Goal
    <3> DEFINE c == [call[t] EXCEPT !.pc = "assign", !.val = Count(call[t].sid, {"input"})]
    <3>0. Count(call[t].sid, {"input"}) \in Nat
      BY <1>1, <1>2, Terms DEF TypeInv, Placed, Inputs
    <3>1. c \in Call /\ c.logged = FALSE /\ c.pc \notin Running
      BY <1>2, <2>1, <3>0 DEF Call, Pcs, Running
    <3>2. call' = [call EXCEPT ![t] = c]
      BY <2>1
    <3> HIDE DEF c
    <3> QED BY <1>8, <2>1, <3>1, <3>2
  <2> QED BY <1>15, <1>3, <1>4, <1>6, <1>7, <2>1 DEF Restore, At, Running, Pcs
<1>16. CASE Assign(t)
  BY <1>16, <1>3, <1>4, <1>6 DEF Assign, At, Running, Pcs, tallies
<1>17. CASE CountCommand(t)
  BY <1>17, <1>3, <1>4, <1>6 DEF CountCommand, Gate, At, Running, Pcs, tallies
<1>18. CASE CountFromZero(t)
  BY <1>18, <1>3, <1>4, <1>6 DEF CountFromZero, Gate, At, Running, Pcs, tallies
<1>19. CASE End(t)
  BY <1>19, <1>3, <1>4, <1>5, <1>7 DEF End, At, Running, Pcs, EventType, Outcomes
<1>20. CASE Flag(t)
  BY <1>20, <1>3, <1>6, <1>11 DEF Flag, At, Running, tallies
<1>21. CASE Input(t)
  <2>1. call[t].logged = FALSE
    BY <1>21, <1>3 DEF Input, At, Running
  <2>2. CASE EmitOK(t, "input") /\ call' = [call EXCEPT ![t].pc = "context", ![t].logged = TRUE]
    <3>1. TornUnreadable' /\ NothingLost'
      BY <1>1, <1>21, <2>1, <2>2, Commanded DEF Input, tallies
    <3>2. Marked'
      BY <2>2 DEF LossInv, Marked, Running, TypeInv, TypeOK
    <3> QED BY <3>1, <3>2
  <2>3. CASE EmitFails(t) /\ Go(t, "fail")
    BY <1>21, <1>4, <1>5, <2>1, <2>3 DEF Input, Running, Pcs, EventType, Outcomes, tallies
  <2> QED BY <1>21, <2>2, <2>3 DEF Input
<1>22. CASE BuildContext(t)
  BY <1>22, <1>3, <1>4, <1>6 DEF BuildContext, At, Running, Pcs, tallies
<1>23. CASE RunStage(t)
  <2>1. Components[call[t].stage] \in {"classification", "cti", "generate"}
    BY <1>2, SandboxAssumption DEF Call, Stages
  <2>2. Components[call[t].stage] \in EventType \ ({"input"} \cup Outcomes)
    BY <2>1 DEF EventType, Outcomes
  <2> QED BY <1>23, <1>3, <1>4, <1>5, <1>6, <1>9, <2>2
          DEF RunStage, At, Running, Pcs, EventType, Outcomes, tallies
<1>24. CASE Stumble(t)
  BY <1>24, <1>3, <1>4, <1>5, <1>9 DEF Stumble, At, Running, Pcs, EventType, Outcomes, tallies
<1>25. CASE Verify(t)
  BY <1>25, <1>3, <1>4, <1>5, <1>6 DEF Verify, At, Running, Pcs, EventType, Outcomes, tallies
<1>26. CASE Retry(t)
  <2>1. call[t].logged = TRUE /\ call[t].pc = "retry"
    BY <1>26, <1>3 DEF Retry, At, Running
  <2>2. ASSUME call' = [call EXCEPT ![t].tries = @ + 1], Silent, Same PROVE Goal
    <3> DEFINE c == [call[t] EXCEPT !.tries = @ + 1]
    <3>1. c \in Call /\ c.logged = TRUE /\ c.sid = call[t].sid /\ c.pc \in Running
      BY <1>2, <2>1 DEF Call, Running
    <3>2. call' = [call EXCEPT ![t] = c]
      BY <2>2
    <3> HIDE DEF c
    <3> QED BY <1>8, <2>1, <2>2, <3>1, <3>2
  <2> QED BY <1>26, <1>4, <1>5, <1>6, <2>1, <2>2
          DEF Retry, At, Running, Pcs, EventType, Outcomes, tallies
<1>27. CASE Respond(t)
  <2>1. call[t].logged = TRUE
    BY <1>27, <1>3 DEF Respond, At, Running
  <2>2. CASE EmitOK(t, "response") /\ Settle(t)
    <3>1. TornUnreadable' /\ NothingLost'
      BY <1>1, <1>27, <2>1, <2>2, Concluded DEF Respond, Outcomes, tallies
    <3>2. Marked'
      BY <2>2 DEF LossInv, Marked, Settle, Running, TypeInv, TypeOK
    <3> QED BY <3>1, <3>2
  <2>3. CASE EmitFails(t) /\ Go(t, "fail")
    BY <1>27, <1>4, <1>5, <2>1, <2>3 DEF Respond, Running, Pcs, EventType, Outcomes, tallies
  <2> QED BY <1>27, <2>2, <2>3 DEF Respond
<1>28. CASE Fail(t)
  <2>1. CASE EmitOK(t, Failure(t)) /\ Settle(t) /\ UNCHANGED raised /\ call[t].logged
    <3>1. TornUnreadable' /\ NothingLost'
      BY <1>1, <1>28, <2>1, Concluded DEF Fail, Failure, Outcomes
    <3>2. Marked'
      BY <2>1 DEF LossInv, Marked, Settle, Running, TypeInv, TypeOK
    <3> QED BY <3>1, <3>2
  <2>2. CASE EmitOK(t, Failure(t)) /\ Settle(t) /\ UNCHANGED raised /\ ~call[t].logged
    <3>1. EmitOK(t, "orphan") /\ call[t].logged = FALSE
      BY <1>2, <2>2 DEF Failure, Call
    <3> QED BY <1>28, <1>5, <1>10, <2>2, <3>1 DEF Fail, EventType, Outcomes
  <2>3. CASE EmitFails(t) /\ Raise(t)
    BY <1>28, <1>5, <1>7, <2>3 DEF Fail, EventType, Outcomes
  <2> QED BY <1>28, <2>1, <2>2, <2>3 DEF Fail
<1>29. CASE Metric(t)
  BY <1>29, <1>3, <1>5, <1>7, <1>11 DEF Metric, At, Running, EventType, Outcomes
<1> QED
  BY <1>12, <1>13, <1>14, <1>15, <1>16, <1>17, <1>18, <1>19, <1>20, <1>21, <1>22, <1>23,
     <1>24, <1>25, <1>26, <1>27, <1>28, <1>29 DEF Proceed

LEMMA BeginLoss ==
    ASSUME LossInv, NEW t \in Threads, Begin(t)
    PROVE  TornUnreadable' /\ NothingLost' /\ Marked'
<1>1. PICK s \in Sids : \/ create_session(t, s) \/ handle_new(t, s)
                        \/ handle_command(t, s) \/ close_session(t, s)
  BY DEF Begin
<1>2. TypeInv /\ TornUnreadable /\ call[t].pc = "idle" /\ call[t] \in Call
  BY <1>1 DEF create_session, handle_new, handle_command, close_session, At, LossInv, TypeInv, TypeOK
<1>3. call[t].logged = FALSE
  BY <1>2 DEF LossInv, Marked, Running, Call
<1>4. ASSUME Create(t, s) PROVE Silent
  BY <1>2, <1>4, SilentLine DEF Create, EventType, Outcomes
<1>5. ASSUME UNCHANGED logVars PROVE Silent
  BY <1>2, <1>5, UnchangedLog
<1>6. UNCHANGED <<raised, cut>>
  BY <1>1 DEF create_session, handle_new, handle_command, close_session, tallies
<1>7. CASE create_session(t, s)
  <2>1. Silent /\ call' = call
    BY <1>4, <1>7 DEF create_session
  <2>2. (\A x : Pending(x)' = Pending(x)) /\ Marked'
    BY <2>1 DEF Pending, LossInv, Marked
  <2> QED BY <1>6, <2>1, <2>2, Quiet DEF Silent
<1>8. ASSUME NEW p \in {"count", "wake", "end"}, NEW o \in Threads, Silent,
             call' = [call EXCEPT ![t] = [NoCall EXCEPT !.pc = p, !.sid = s, !.own = o]]
      PROVE  TornUnreadable' /\ NothingLost' /\ Marked'
  <2> DEFINE c == [NoCall EXCEPT !.pc = p, !.sid = s, !.own = o]
  <2>1. c \in Call /\ c.logged = FALSE /\ c.pc \notin Running
    BY NoCallType DEF Call, NoCall, Pcs, Running
  <2>2. call' = [call EXCEPT ![t] = c]
    BY <1>8
  <2> HIDE DEF c
  <2> QED BY <1>3, <1>6, <1>8, <2>1, <2>2, Moves
<1>9. CASE handle_new(t, s)
  BY <1>4, <1>8, <1>9 DEF handle_new
<1>10. CASE handle_command(t, s)
  <2>1. reg[s] # None => reg[s] \in Threads
    BY <1>2 DEF TypeInv, TypeOK
  <2>2. CASE reg[s] # None
    BY <1>5, <1>8, <1>10, <2>1, <2>2 DEF handle_command
  <2>3. CASE reg[s] = None
    BY <1>5, <1>8, <1>10, <2>3 DEF handle_command
  <2> QED BY <2>2, <2>3
<1>11. CASE close_session(t, s)
  <2>1. reg[s] \in Threads
    BY <1>2, <1>11 DEF close_session, TypeInv, TypeOK
  <2> QED BY <1>5, <1>8, <1>11, <2>1 DEF close_session
<1> QED BY <1>1, <1>7, <1>9, <1>10, <1>11

LEMMA OutsideLoss ==
    ASSUME LossInv, NEW s \in Sids, CreateFails(s) \/ wake_to_read(s)
    PROVE  TornUnreadable' /\ NothingLost' /\ Marked'
<1>1. TypeInv /\ TornUnreadable
  BY DEF LossInv
<1>2. Silent
  <2>1. CASE CreateFails(s)
    BY <1>1, <2>1, SilentFault DEF CreateFails, Fault
  <2>2. CASE wake_to_read(s)
    BY <1>1, <2>2, SilentLine DEF wake_to_read, EventType, Outcomes
  <2> QED BY <2>1, <2>2
<1>3. call' = call /\ UNCHANGED <<raised, cut>>
  BY DEF CreateFails, wake_to_read, memVars, tallies
<1>4. (\A x : Pending(x)' = Pending(x)) /\ Marked'
  BY <1>3 DEF Pending, LossInv, Marked
<1> QED BY <1>2, <1>3, <1>4, Quiet DEF Silent

(* A crash makes every pending command a cut one. *)
LEMMA CrashLoss ==
    ASSUME LossInv, Crash
    PROVE  TornUnreadable' /\ NothingLost' /\ Marked'
<1>1. TypeInv /\ TornUnreadable /\ NothingLost
  BY DEF LossInv
<1>2. Silent
  <2>1. CASE UNCHANGED logVars
    BY <1>1, <2>1, UnchangedLog
  <2>2. ASSUME NEW t \in Threads, call[t].pc \in Emitting, TearLine(call[t].sid)
        PROVE  Silent
    <3>1. call[t].sid \in Sids
      BY <1>1, <2>2 DEF TypeInv, Placed, Emitting
    <3> QED BY <1>1, <2>2, <3>1, SilentFault
  <2> QED BY <2>1, <2>2 DEF Crash
<1>3. \A t \in Threads : call'[t] = NoCall
  BY DEF Crash
<1>4. Marked'
  BY <1>3 DEF Marked, NoCall, Running
<1>5. ASSUME NEW x \in Sids, Readable(x)'
      PROVE  Inputs(x)' = Settled(x)' + Cardinality(Pending(x))'
  <2>1. Pending(x)' = {}
    BY <1>3 DEF Pending, NoCall
  <2>2. Cardinality(Pending(x))' = 0
    BY <2>1, FS_EmptySet
  <2>3. cut'[x] = cut[x] + Cardinality(Pending(x)) /\ raised'[x] = raised[x]
    BY DEF Crash
  <2>4. /\ Inputs(x)' = Inputs(x) /\ Count(x, Outcomes)' = Count(x, Outcomes)
        /\ Inputs(x) = Settled(x) + Cardinality(Pending(x))
    BY <1>1, <1>2, <1>5 DEF Silent, NothingLost
  <2>5. /\ Inputs(x) \in Nat /\ Count(x, Outcomes) \in Nat
        /\ raised[x] \in Nat /\ cut[x] \in Nat /\ Cardinality(Pending(x)) \in Nat
    BY <1>1, Terms
  <2> QED BY <2>2, <2>3, <2>4, <2>5 DEF Settled
<1> QED BY <1>2, <1>4, <1>5 DEF Silent, NothingLost

LEMMA InitLoss == Init => LossInv
<1> SUFFICES ASSUME Init PROVE LossInv
  OBVIOUS
<1>1. TypeInv /\ TornUnreadable /\ Marked
  BY InitType DEF Init, TornUnreadable, Marked, NoCall, Running
<1>2. ASSUME NEW x \in Sids
      PROVE  Inputs(x) = Settled(x) + Cardinality(Pending(x))
  <2>1. Inputs(x) = 0 /\ Count(x, Outcomes) = 0
    BY OccurrencesEmpty DEF Init, Inputs, Count
  <2>2. Pending(x) = {}
    BY DEF Init, Pending, NoCall
  <2> QED BY <2>1, <2>2, FS_EmptySet DEF Init, Settled
<1> QED BY <1>1, <1>2 DEF LossInv, NothingLost

LEMMA LossStep == LossInv /\ [Next]_vars => LossInv'
<1>1. LossInv /\ [Next]_vars => TypeInv'
  BY TypeStep DEF LossInv
<1>2. LossInv /\ Next => TornUnreadable' /\ NothingLost' /\ Marked'
  BY BeginLoss, ProceedLoss, OutsideLoss, CrashLoss DEF Next
<1>3. LossInv /\ UNCHANGED vars => TornUnreadable' /\ NothingLost' /\ Marked'
  BY DEF LossInv, TornUnreadable, NothingLost, Marked, Readable, Inputs, Settled, Count, Pending, vars
<1> QED BY <1>1, <1>2, <1>3 DEF LossInv

(* Whatever two threads of one session, failed writes, torn writes and     *)
(* crashes do, a session whose log can be read accounts for every command  *)
(* on it: settled exactly once, or in progress.                            *)
THEOREM CommandsAccountedFor == Spec => []NothingLost
<1>1. LossInv => NothingLost
  BY DEF LossInv
<1> QED BY <1>1, InitLoss, LossStep, PTL DEF Spec

-----------------------------------------------------------------------------
(***************************************************************************)
(* The command limit.  The count is in memory and the commands are on the  *)
(* log, so LimitHolds needs to know how the two are related at every point *)
(* of a call: the registered object counts at least the commands on the log *)
(* (Covers), except while a wake is filling it in, and a thread about to   *)
(* log one has already counted it (Position).                              *)
(***************************************************************************)

Early  == {"wake", "resume", "register"}
Filling == {"restore", "assign"}
Calm   == {"end", "flag", "context", "stage", "stumble", "verify", "retry",
           "respond", "fail", "metric"}

(* The count in the object o of x is at least the commands on the log. *)
Covers(x, o) ==
    IF obj[x][o].counted THEN Inputs(x) <= obj[x][o].cmds ELSE Inputs(x) = 0

Waking(x) == \E t \in Threads : call[t].sid = x /\ call[t].pc \in Filling

Ledger(x) ==
    Readable(x) => /\ Inputs(x) <= MaxCommands
                   /\ (reg[x] # None /\ ~Waking(x)) => Covers(x, reg[x])

Position(t) ==
    LET s == call[t].sid  o == call[t].own  b == obj[s][o] IN
    /\ call[t].pc # "idle" => log[s] # <<>>
    /\ call[t].pc \in Early => reg[s] = None /\ o = t
    /\ call[t].pc \notin Early \cup {"idle"} => reg[s] = o
    /\ call[t].pc \in {"resume", "register", "restore"} => ~b.counted
    /\ call[t].pc = "assign" => (Readable(s) => Inputs(s) <= call[t].val)
    /\ call[t].pc = "zero" => (Readable(s) => Inputs(s) = 0)
    /\ call[t].pc = "input" =>
          /\ b.counted /\ b.cmds <= MaxCommands
          /\ Readable(s) => Inputs(s) < b.cmds

(* One call per session at a time. *)
Alone ==
    \A t, u \in Threads :
        t # u /\ call[t].pc # "idle" /\ call[u].pc # "idle" => call[t].sid # call[u].sid

SerialInv ==
    /\ LossInv
    /\ Alone
    /\ \A x \in Sids : Ledger(x) /\ (reg[x] # None => log[x] # <<>>)
    /\ \A t \in Threads : Position(t)

(* No log becomes readable, and a readable one gets no command. *)
Muted == \A x \in Sids : Readable(x)' => Readable(x) /\ Inputs(x)' = Inputs(x)

(* Logs do not become empty. *)
Kept == \A x \in Sids : log[x] # <<>> => log'[x] # <<>>

(* The counts in the objects do not change. *)
CountsKept ==
    \A x \in Sids, o \in Threads : /\ obj'[x][o].counted = obj[x][o].counted
                                   /\ obj'[x][o].cmds = obj[x][o].cmds

-----------------------------------------------------------------------------
LEMMA KeptLine ==
    ASSUME TypeInv, NEW s \in Sids, NEW e \in EventType,
           AppendLine(s, e) \/ TearLine(s) \/ UNCHANGED logVars
    PROVE  Kept
<1> SUFFICES ASSUME NEW x \in Sids, log[x] # <<>> PROVE log'[x] # <<>>
  BY DEF Kept
<1>1. log[x] \in Seq(Lines) /\ e \in Lines /\ Garbled \in Lines
  BY DEF TypeInv, TypeOK, LogTypeOK, Lines
<1>2. \/ log'[x] = log[x] \/ log'[x] = Append(log[x], e) \/ log'[x] = Append(log[x], Garbled)
  BY DEF AppendLine, TearLine, logVars, TypeInv, TypeOK, LogTypeOK
<1> QED BY <1>1, <1>2

LEMMA KeptEmit ==
    ASSUME TypeInv, NEW t \in Threads, NEW e \in EventType, call[t].pc # "idle",
           EmitOK(t, e) \/ EmitFails(t)
    PROVE  Kept /\ CountsKept
<1>1. call[t].sid \in Sids /\ call[t].own \in Threads
  BY DEF TypeInv, Placed
<1>2. Kept
  BY <1>1, KeptLine DEF EmitOK, EmitFails, Fault
<1>3. CASE EmitOK(t, e)
  <2>1. obj' = [obj EXCEPT ![call[t].sid][call[t].own].events = @ + 1]
    BY <1>3 DEF EmitOK
  <2>2. \A x \in Sids, o \in Threads : obj[x][o] \in Object
    BY DEF TypeInv, TypeOK
  <2>3. CountsKept
    BY <1>1, <2>1, <2>2 DEF CountsKept, Object, TypeInv, TypeOK
  <2> QED BY <1>2, <2>3
<1>4. CASE EmitFails(t)
  BY <1>2, <1>4 DEF EmitFails, CountsKept
<1> QED BY <1>3, <1>4

(* A step after which the thread is done or past the limit check. *)
LEMMA CalmStep ==
    ASSUME SerialInv, LossInv', NEW t \in Threads, Muted, Kept, CountsKept, UNCHANGED reg,
           \A u \in Threads \ {t} : call'[u] = call[u],
           call'[t].pc \in Calm \cup {"idle"},
           call'[t].pc # "idle" =>
               /\ call[t].pc \notin Early \cup {"idle"}
               /\ call'[t].sid = call[t].sid /\ call'[t].own = call[t].own,
           \A x \in Sids : call[t].pc \in Filling /\ call[t].sid = x => ~Readable(x)'
    PROVE  SerialInv'
<1>1. TypeInv /\ TypeInv' /\ Placed
  BY DEF SerialInv, LossInv, TypeInv
<1>2. Alone'
  BY DEF Alone, SerialInv
<1>3. ASSUME NEW x \in Sids, Readable(x)'
      PROVE  Readable(x) /\ Inputs(x)' = Inputs(x)
  BY <1>3 DEF Muted
<1>4. ASSUME NEW x \in Sids PROVE Ledger(x)' /\ (reg'[x] # None => log'[x] # <<>>)
  <2>1. reg'[x] # None => log'[x] # <<>>
    BY DEF SerialInv, Kept
  <2>2. ASSUME Readable(x)' PROVE Inputs(x)' <= MaxCommands
    BY <1>3, <2>2 DEF SerialInv, Ledger
  <2>3. ASSUME Readable(x)', reg'[x] # None, ~Waking(x)' PROVE Covers(x, reg[x])'
    <3>1. ~Waking(x)
      BY <2>3 DEF Waking
    <3>2. Covers(x, reg[x])
      BY <1>3, <2>3, <3>1 DEF SerialInv, Ledger
    <3>3. reg[x] \in Threads
      BY <1>1, <2>3 DEF TypeInv, TypeOK
    <3> QED BY <1>3, <2>3, <3>2, <3>3 DEF Covers, CountsKept
  <2> QED BY <2>1, <2>2, <2>3 DEF Ledger
<1>5. ASSUME NEW u \in Threads PROVE Position(u)'
  <2>1. Position(u)
    BY DEF SerialInv
  <2>2. CASE u = t
    <3>1. CASE call'[t].pc = "idle"
      BY <2>2, <3>1 DEF Position, Early
    <3>2. CASE call'[t].pc # "idle"
      <4>1. call[t].sid \in Sids
        BY <1>1, <3>2 DEF Placed
      <4> QED BY <2>1, <2>2, <3>2, <4>1 DEF Position, Early, Calm, Kept
    <3> QED BY <3>1, <3>2
  <2>3. CASE u # t /\ call[u].pc # "idle"
    <3>1. call[u].sid \in Sids /\ call[u].own \in Threads /\ call'[u] = call[u]
      BY <1>1, <2>3 DEF Placed
    <3> QED BY <1>3, <2>1, <2>3, <3>1 DEF Position, Kept, CountsKept
  <2>4. CASE u # t /\ call[u].pc = "idle"
    BY <2>4 DEF Position, Early
  <2> QED BY <2>2, <2>3, <2>4
<1> QED BY <1>2, <1>4, <1>5 DEF SerialInv

LEMMA MutedLine ==
    ASSUME TypeInv, TornUnreadable, NEW s \in Sids, NEW e \in EventType, e # "input",
           AppendLine(s, e)
    PROVE  Muted
<1> SUFFICES ASSUME NEW x \in Sids, Readable(x)'
             PROVE  Readable(x) /\ Inputs(x)' = Inputs(x)
  BY DEF Muted
<1>1. /\ Readable(x) /\ Count(x, {"input"}) \in Nat
      /\ Count(x, {"input"})' = Count(x, {"input"}) + 0
  BY LineEffect
<1> QED BY <1>1 DEF Inputs

(* What the writes of a call, other than that of a command, do. *)
LEMMA Writes ==
    ASSUME SerialInv, NEW t \in Threads, NEW e \in EventType, call[t].pc # "idle",
           \/ e # "input" /\ EmitOK(t, e)
           \/ EmitFails(t)
           \/ UNCHANGED <<log, torn, obj>>
    PROVE  Muted /\ Kept /\ CountsKept
<1>1. TypeInv /\ TornUnreadable /\ call[t].sid \in Sids
  BY DEF SerialInv, LossInv, TypeInv, Placed
<1>2. CASE UNCHANGED <<log, torn, obj>>
  BY <1>2 DEF Muted, Readable, Inputs, Count, Kept, CountsKept
<1>3. CASE e # "input" /\ EmitOK(t, e)
  BY <1>1, <1>3, MutedLine, KeptEmit DEF EmitOK
<1>4. CASE EmitFails(t)
  <2>1. Silent
    BY <1>1, <1>4, SilentFault DEF EmitFails, Fault
  <2> QED BY <1>1, <1>4, <2>1, KeptEmit DEF Silent, Muted
<1> QED BY <1>2, <1>3, <1>4

(* The steps of a call that end it, or that come after the limit check. *)
LEMMA LateStep ==
    ASSUME SerialInv, LossInv', NEW t \in Threads,
           End(t) \/ Flag(t) \/ BuildContext(t) \/ RunStage(t) \/ Stumble(t) \/ Verify(t)
           \/ Retry(t) \/ Respond(t) \/ Fail(t) \/ Metric(t)
    PROVE  SerialInv'
<1> DEFINE Late == {"end", "flag", "context", "stage", "stumble", "verify", "retry",
                    "respond", "fail", "metric"}
           Next1 == call'[t].pc \in Calm \cup {"idle"}
           Same1 == call'[t].pc # "idle" => call'[t].sid = call[t].sid /\ call'[t].own = call[t].own
           Others == \A u \in Threads \ {t} : call'[u] = call[u]
<1>1. TypeInv /\ call[t] \in Call /\ call \in [Threads -> Call]
  BY DEF SerialInv, LossInv, TypeInv, TypeOK
<1>2. call[t].pc \in Late
  BY DEF End, Flag, BuildContext, RunStage, Stumble, Verify, Retry, Respond, Fail, Metric, At
<1>3. call[t].pc \notin Early \cup Filling \cup {"idle"}
  BY <1>2 DEF Early, Filling
<1>4. Next1 /\ Same1 /\ Others
  <2>1. CASE End(t)
    BY <1>1, <2>1 DEF End, Go, Raise, NoCall, Call, Calm
  <2>2. CASE Flag(t)
    BY <1>1, <2>2 DEF Flag, NoCall, Call, Calm
  <2>3. CASE BuildContext(t)
    BY <1>1, <2>3 DEF BuildContext, Go, Call, Calm
  <2>4. CASE RunStage(t)
    BY <1>1, <2>4 DEF RunStage, NextStage, Go, Call, Calm
  <2>5. CASE Stumble(t)
    BY <1>1, <2>5 DEF Stumble, NextStage, Go, Call, Calm
  <2>6. CASE Verify(t)
    BY <1>1, <2>6 DEF Verify, Go, Call, Calm
  <2>7. CASE Retry(t)
    BY <1>1, <2>7 DEF Retry, At, Go, Call, Calm
  <2>8. CASE Respond(t)
    BY <1>1, <2>8 DEF Respond, Settle, Go, Call, Calm
  <2>9. CASE Fail(t)
    BY <1>1, <2>9 DEF Fail, Settle, Raise, NoCall, Call, Calm
  <2>10. CASE Metric(t)
    BY <1>1, <2>10 DEF Metric, Raise, NoCall, Call, Calm
  <2> QED BY <2>1, <2>2, <2>3, <2>4, <2>5, <2>6, <2>7, <2>8, <2>9, <2>10
<1>5. UNCHANGED reg
  BY DEF End, Flag, BuildContext, RunStage, Stumble, Verify, Retry, Respond, Fail, Metric, tallies
<1>6. ASSUME NEW e \in EventType, \/ e # "input" /\ EmitOK(t, e)
                                  \/ EmitFails(t)
                                  \/ UNCHANGED <<log, torn, obj>>
      PROVE  Muted /\ Kept /\ CountsKept
  BY <1>3, <1>6, Writes
<1>7. Muted /\ Kept /\ CountsKept
  <2>1. CASE End(t)
    BY <1>6, <2>1 DEF End, EventType
  <2>2. CASE Flag(t)
    <3>1. call[t].sid \in Sids /\ call[t].own \in Threads
      BY <1>1, <1>3 DEF TypeInv, Placed
    <3>2. obj' = [obj EXCEPT ![call[t].sid][call[t].own].closed = TRUE]
      BY <2>2 DEF Flag
    <3>3. CountsKept
      BY <1>1, <3>1, <3>2 DEF CountsKept, TypeInv, TypeOK, Object
    <3>4. UNCHANGED <<log, torn>>
      BY <2>2 DEF Flag, logVars
    <3> QED BY <3>3, <3>4 DEF Muted, Kept, Readable, Inputs, Count
  <2>3. CASE BuildContext(t)
    BY <1>6, <2>3 DEF BuildContext, EventType, logVars
  <2>4. CASE RunStage(t)
    <3>1. Components[call[t].stage] \in {"classification", "cti", "generate"}
      BY <1>1, SandboxAssumption DEF Call, Stages
    <3>2. Components[call[t].stage] \in EventType /\ Components[call[t].stage] # "input"
      BY <3>1 DEF EventType
    <3> QED BY <1>6, <2>4, <3>2 DEF RunStage, EventType, logVars
  <2>5. CASE Stumble(t)
    BY <1>6, <2>5 DEF Stumble, EventType
  <2>6. CASE Verify(t)
    BY <1>6, <2>6 DEF Verify, EventType, logVars
  <2>7. CASE Retry(t)
    BY <1>6, <2>7 DEF Retry, EventType, logVars
  <2>8. CASE Respond(t)
    BY <1>6, <2>8 DEF Respond, EventType
  <2>9. CASE Fail(t)
    <3>1. Failure(t) \in EventType /\ Failure(t) # "input"
      BY DEF Failure, EventType
    <3> QED BY <1>6, <2>9, <3>1 DEF Fail, EventType
  <2>10. CASE Metric(t)
    BY <1>6, <2>10 DEF Metric, EventType
  <2> QED BY <2>1, <2>2, <2>3, <2>4, <2>5, <2>6, <2>7, <2>8, <2>9, <2>10
<1> QED BY <1>3, <1>4, <1>5, <1>7, CalmStep

(* A step inside a call touches its own session only: the rest of the      *)
(* invariant carries over.                                                 *)
LEMMA LocalStep ==
    ASSUME SerialInv, LossInv', NEW t \in Threads, NEW s \in Sids,
           call[t].pc # "idle", call[t].sid = s, call'[t].sid = s,
           \A u \in Threads \ {t} : call'[u] = call[u],
           \A x \in Sids \ {s} : log'[x] = log[x] /\ reg'[x] = reg[x] /\ obj'[x] = obj[x],
           Position(t)', Ledger(s)', reg'[s] # None => log'[s] # <<>>
    PROVE  SerialInv'
<1>1. Placed /\ Alone /\ Placed'
  BY DEF SerialInv, LossInv, TypeInv
<1>2. Alone'
  BY <1>1 DEF Alone
<1>3. ASSUME NEW x \in Sids \ {s} PROVE Ledger(x)'
  <2>1. Ledger(x)
    BY DEF SerialInv
  <2>2. Readable(x)' = Readable(x) /\ Inputs(x)' = Inputs(x) /\ reg'[x] = reg[x] /\ obj'[x] = obj[x]
    BY DEF Readable, Inputs, Count
  <2>3. Waking(x)' <=> Waking(x)
    BY DEF Waking
  <2> QED BY <2>1, <2>2, <2>3 DEF Ledger, Covers
<1>4. ASSUME NEW u \in Threads \ {t} PROVE Position(u)'
  <2>1. Position(u) /\ call'[u] = call[u]
    BY DEF SerialInv
  <2>2. CASE call[u].pc = "idle"
    BY <2>1, <2>2 DEF Position, Early
  <2>3. CASE call[u].pc # "idle"
    <3>1. call[u].sid \in Sids \ {s}
      BY <1>1, <2>3 DEF Alone, Placed
    <3> QED BY <2>1, <3>1 DEF Position, Readable, Inputs, Count
  <2> QED BY <2>2, <2>3
<1>5. \A x \in Sids : reg'[x] # None => log'[x] # <<>>
  BY DEF SerialInv
<1> QED BY <1>2, <1>3, <1>4, <1>5 DEF SerialInv

(* In a call on s no other thread is waking s. *)
LEMMA OnlyWaker ==
    ASSUME SerialInv, NEW t \in Threads, call[t].pc # "idle"
    PROVE  Waking(call[t].sid) <=> call[t].pc \in Filling
BY DEF SerialInv, Alone, Waking, Filling

LEMMA InCall ==
    ASSUME SerialInv, NEW t \in Threads, call[t].pc # "idle"
    PROVE  /\ TypeInv /\ TornUnreadable /\ Position(t) /\ call[t] \in Call
           /\ call[t].sid \in Sids /\ call[t].own \in Threads
           /\ Ledger(call[t].sid) /\ Inputs(call[t].sid) \in Nat
           /\ obj[call[t].sid][call[t].own] \in Object
<1>1. TypeInv /\ TornUnreadable /\ Position(t)
  BY DEF SerialInv, LossInv
<1>2. call[t] \in Call /\ call[t].sid \in Sids /\ call[t].own \in Threads
  BY <1>1 DEF TypeInv, TypeOK, Placed
<1>3. obj[call[t].sid][call[t].own] \in Object
  BY <1>1, <1>2 DEF TypeInv, TypeOK
<1> QED BY <1>1, <1>2, <1>3, Terms DEF SerialInv

LEMMA OpenStep ==
    ASSUME SerialInv, LossInv', NEW t \in Threads, Open(t)
    PROVE  SerialInv'
<1> DEFINE s == call[t].sid
<1>1. TypeInv /\ s \in Sids /\ call[t] \in Call /\ call[t].pc = "wake" /\ Position(t) /\ Ledger(s)
  BY InCall DEF Open, At
<1>2. /\ UNCHANGED <<log, torn, reg>>
      /\ call' = [call EXCEPT ![t].pc = "resume"]
      /\ obj' = [obj EXCEPT ![s][t] = Fresh(Len(log[s]))]
  BY DEF Open, Go, logVars
<1>3. call'[t].sid = s /\ call'[t].own = call[t].own /\ call'[t].pc = "resume"
  BY <1>1, <1>2 DEF TypeInv, TypeOK, Call
<1>4. \A u \in Threads \ {t} : call'[u] = call[u]
  BY <1>2
<1>5. \A x \in Sids \ {s} : obj'[x] = obj[x]
  BY <1>2
<1>6. reg[s] = None
  BY <1>1 DEF Position, Early
<1>7. Ledger(s)'
  BY <1>1, <1>2, <1>3, <1>6 DEF Ledger, Readable, Inputs, Count
<1>8. Position(t)'
  <2>1. call[t].own = t /\ log[s] # <<>>
    BY <1>1 DEF Position, Early
  <2>2. obj'[s][t].counted = FALSE
    BY <1>1, <1>2 DEF TypeInv, TypeOK, Fresh
  <2> QED BY <1>2, <1>3, <1>6, <2>1, <2>2 DEF Position, Early
<1> QED BY <1>1, <1>2, <1>3, <1>4, <1>5, <1>6, <1>7, <1>8, LocalStep

LEMMA ResumeStep ==
    ASSUME SerialInv, LossInv', NEW t \in Threads, Resume(t)
    PROVE  SerialInv'
<1> DEFINE s == call[t].sid
           o == call[t].own
<1>1. /\ TypeInv /\ s \in Sids /\ o \in Threads /\ call[t] \in Call /\ call[t].pc = "resume"
      /\ Position(t) /\ Ledger(s)
  BY InCall DEF Resume, At
<1>2. "resume" \in EventType /\ "resume" # "input" /\ UNCHANGED reg
  BY DEF EventType, Resume
<1>3. Muted /\ Kept /\ CountsKept
  BY <1>1, <1>2, Writes DEF Resume
<1>4. CASE EmitFails(t) /\ Raise(t)
  <2>1. /\ call'[t].pc = "idle"
        /\ \A u \in Threads \ {t} : call'[u] = call[u]
    BY <1>1, <1>4 DEF Raise, NoCall, TypeInv, TypeOK
  <2> QED BY <1>1, <1>2, <1>3, <2>1, CalmStep DEF Filling
<1>5. CASE EmitOK(t, "resume") /\ Go(t, "register")
  <2>1. /\ call'[t].sid = s /\ call'[t].own = o /\ call'[t].pc = "register"
        /\ \A u \in Threads \ {t} : call'[u] = call[u]
    BY <1>1, <1>5 DEF Go, TypeInv, TypeOK, Call
  <2>2. \A x \in Sids \ {s} : log'[x] = log[x] /\ obj'[x] = obj[x]
    BY <1>1, <1>5 DEF EmitOK, AppendLine, TypeInv, TypeOK, LogTypeOK
  <2>3. reg[s] = None
    BY <1>1 DEF Position, Early
  <2>4. Ledger(s)'
    BY <1>1, <1>2, <1>3, <2>1, <2>3 DEF Ledger, Muted
  <2>5. Position(t)'
    <3>1. obj'[s][o].counted = obj[s][o].counted /\ log'[s] # <<>> /\ reg'[s] = None /\ o = t
      BY <1>1, <1>2, <1>3, <2>3 DEF CountsKept, Kept, Position, Early
    <3>2. ~obj'[s][o].counted
      BY <1>1, <3>1 DEF Position
    <3> QED BY <2>1, <3>1, <3>2 DEF Position, Early
  <2> QED BY <1>1, <1>2, <2>1, <2>2, <2>3, <2>4, <2>5, LocalStep
<1> QED BY <1>4, <1>5 DEF Resume

LEMMA RegisterStep ==
    ASSUME SerialInv, LossInv', NEW t \in Threads, Register(t)
    PROVE  SerialInv'
<1> DEFINE s == call[t].sid
           o == call[t].own
<1>1. /\ TypeInv /\ s \in Sids /\ o \in Threads /\ call[t] \in Call /\ call[t].pc = "register"
      /\ Position(t) /\ Ledger(s)
  BY InCall DEF Register, At
<1>2. /\ UNCHANGED <<log, torn, obj>>
      /\ call' = [call EXCEPT ![t].pc = "restore"] /\ reg' = [reg EXCEPT ![s] = t]
  BY DEF Register, Go, logVars
<1>3. /\ call'[t].sid = s /\ call'[t].own = o /\ call'[t].pc = "restore"
      /\ \A u \in Threads \ {t} : call'[u] = call[u]
  BY <1>1, <1>2 DEF TypeInv, TypeOK, Call
<1>4. o = t /\ ~obj[s][o].counted /\ log[s] # <<>> /\ reg'[s] = t
  BY <1>1, <1>2 DEF Position, Early, TypeInv, TypeOK
<1>5. Waking(s)'
  BY <1>3 DEF Waking, Filling
<1>6. Ledger(s)'
  BY <1>1, <1>2, <1>5 DEF Ledger, Readable, Inputs, Count
<1>7. Position(t)'
  BY <1>2, <1>3, <1>4 DEF Position, Early
<1>8. \A x \in Sids \ {s} : reg'[x] = reg[x]
  BY <1>2
<1> QED BY <1>1, <1>2, <1>3, <1>4, <1>6, <1>7, <1>8, LocalStep

LEMMA RestoreStep ==
    ASSUME SerialInv, LossInv', NEW t \in Threads, Restore(t)
    PROVE  SerialInv'
<1> DEFINE s == call[t].sid
           o == call[t].own
<1>1. /\ TypeInv /\ s \in Sids /\ o \in Threads /\ call[t] \in Call /\ call[t].pc = "restore"
      /\ Position(t) /\ Ledger(s)
  BY InCall DEF Restore, At
<1>2. /\ ~obj[s][o].counted /\ reg[s] = o /\ log[s] # <<>>
      /\ UNCHANGED <<log, torn, obj, reg>>
  BY <1>1 DEF Position, Early, Restore, logVars
<1>3. CASE ~Readable(s) /\ Raise(t)
  <2>1. /\ call'[t].pc = "idle"
        /\ \A u \in Threads \ {t} : call'[u] = call[u]
    BY <1>1, <1>3 DEF Raise, NoCall, TypeInv, TypeOK
  <2>2. \A x \in Sids : call[t].pc \in Filling /\ call[t].sid = x => ~Readable(x)'
    BY <1>2, <1>3 DEF Readable
  <2>3. Muted /\ Kept /\ CountsKept
    BY <1>2 DEF Muted, Kept, CountsKept, Readable, Inputs, Count
  <2> QED BY <1>1, <1>2, <2>1, <2>2, <2>3, CalmStep
<1>4. CASE call' = [call EXCEPT ![t].pc = "assign", ![t].val = Count(s, {"input"})]
  <2>1. /\ call'[t].sid = s /\ call'[t].own = o /\ call'[t].pc = "assign"
        /\ call'[t].val = Inputs(s)
        /\ \A u \in Threads \ {t} : call'[u] = call[u]
    BY <1>1, <1>4 DEF TypeInv, TypeOK, Call, Inputs
  <2>2. Waking(s)'
    BY <2>1 DEF Waking, Filling
  <2>3. Ledger(s)'
    BY <1>1, <1>2, <2>1, <2>2 DEF Ledger, Readable, Inputs, Count
  <2>4. Inputs(s) \in Nat
    BY <1>1, Terms
  <2>5. Inputs(s)' = Inputs(s)
    <3>1. log'[s] = log[s] /\ call'[t].sid = s
      BY <1>2, <2>1
    <3> QED BY <3>1 DEF Inputs, Count
  <2>6. Position(t)'
    BY <1>2, <2>1, <2>4, <2>5 DEF Position, Early
  <2> QED BY <1>1, <1>2, <2>1, <2>3, <2>6, LocalStep
<1> QED BY <1>2, <1>3, <1>4 DEF Restore, Session

LEMMA AssignStep ==
    ASSUME SerialInv, LossInv', NEW t \in Threads, Assign(t)
    PROVE  SerialInv'
<1> DEFINE s == call[t].sid
           o == call[t].own
           b == [obj[s][o] EXCEPT !.counted = TRUE, !.cmds = call[t].val]
<1>1. /\ TypeInv /\ s \in Sids /\ o \in Threads /\ call[t] \in Call /\ call[t].pc = "assign"
      /\ Position(t) /\ Ledger(s) /\ obj[s][o] \in Object
  BY InCall DEF Assign, At
<1>2. /\ UNCHANGED <<log, torn, reg>> /\ call' = [call EXCEPT ![t].pc = "count"]
      /\ obj' = [obj EXCEPT ![s][o] = b]
  BY DEF Assign, Go, logVars
<1>3. /\ call'[t].sid = s /\ call'[t].own = o /\ call'[t].pc = "count"
      /\ \A u \in Threads \ {t} : call'[u] = call[u]
  BY <1>1, <1>2 DEF TypeInv, TypeOK, Call
<1>4. obj'[s][o].counted = TRUE /\ obj'[s][o].cmds = call[t].val
  BY <1>1, <1>2 DEF TypeInv, TypeOK, Object
<1>5. reg[s] = o /\ log[s] # <<>> /\ (Readable(s) => Inputs(s) <= call[t].val)
  BY <1>1 DEF Position, Early
<1>6. Ledger(s)'
  BY <1>1, <1>2, <1>3, <1>4, <1>5 DEF Ledger, Covers, Readable, Inputs, Count
<1>7. Position(t)'
  BY <1>2, <1>3, <1>5 DEF Position, Early
<1>8. \A x \in Sids \ {s} : obj'[x] = obj[x]
  BY <1>2
<1> QED BY <1>1, <1>2, <1>3, <1>5, <1>6, <1>7, <1>8, LocalStep

LEMMA CountStep ==
    ASSUME SerialInv, LossInv', NEW t \in Threads, CountCommand(t)
    PROVE  SerialInv'
<1> DEFINE s == call[t].sid
           o == call[t].own
<1>1. /\ TypeInv /\ s \in Sids /\ o \in Threads /\ call[t] \in Call /\ call[t].pc = "count"
      /\ Position(t) /\ Ledger(s) /\ obj[s][o] \in Object /\ Inputs(s) \in Nat
  BY InCall DEF CountCommand, At
<1>2. reg[s] = o /\ log[s] # <<>> /\ UNCHANGED <<log, torn, reg>>
  BY <1>1 DEF Position, Early, CountCommand, logVars
<1>3. ~Waking(s)
  BY <1>1, OnlyWaker DEF Filling
<1>4. Readable(s) => Inputs(s) <= MaxCommands /\ Covers(s, o)
  BY <1>1, <1>2, <1>3, SandboxAssumption DEF Ledger
<1>5. CASE ~obj[s][o].counted /\ Go(t, "zero") /\ UNCHANGED obj
  <2>1. /\ call'[t].sid = s /\ call'[t].own = o /\ call'[t].pc = "zero"
        /\ \A u \in Threads \ {t} : call'[u] = call[u]
    BY <1>1, <1>5 DEF Go, TypeInv, TypeOK, Call
  <2>2. Readable(s) => Inputs(s) = 0
    BY <1>4, <1>5 DEF Covers
  <2>3. Ledger(s)'
    BY <1>1, <1>2, <1>4, <1>5, <2>1 DEF Ledger, Covers, Readable, Inputs, Count
  <2>4. Position(t)'
    BY <1>2, <2>1, <2>2 DEF Position, Early, Readable, Inputs, Count
  <2> QED BY <1>1, <1>2, <1>5, <2>1, <2>3, <2>4, LocalStep
<1>6. CASE /\ obj[s][o].counted
           /\ obj' = [obj EXCEPT ![s][o].cmds = @ + 1]
           /\ Go(t, Gate(obj[s][o].cmds + 1))
  <2> DEFINE n == obj[s][o].cmds + 1
             g == Gate(n)
  <2>1. /\ call'[t].sid = s /\ call'[t].own = o /\ call'[t].pc = g
        /\ \A u \in Threads \ {t} : call'[u] = call[u]
    BY <1>1, <1>6 DEF Go, TypeInv, TypeOK, Call
  <2>2. obj'[s][o].counted = TRUE /\ obj'[s][o].cmds = n /\ n \in Nat
    BY <1>1, <1>6 DEF TypeInv, TypeOK, Object
  <2>3. Readable(s) => Inputs(s) < n
    BY <1>1, <1>4, <1>6 DEF Covers, Object
  <2>4. g \in {"end", "input"} /\ (g = "input" => n <= MaxCommands)
    BY <2>2, SandboxAssumption DEF Gate
  <2>5. \A x \in Sids \ {s} : obj'[x] = obj[x]
    BY <1>6
  <2> HIDE DEF n, g
  <2>6. Ledger(s)'
    BY <1>1, <1>2, <1>4, <2>1, <2>2, <2>3 DEF Ledger, Covers, Readable, Inputs, Count
  <2>7. Position(t)'
    BY <1>2, <2>1, <2>2, <2>3, <2>4 DEF Position, Early, Readable, Inputs, Count
  <2> QED BY <1>1, <1>2, <2>1, <2>4, <2>5, <2>6, <2>7, LocalStep
<1> QED BY <1>5, <1>6 DEF CountCommand, Session

LEMMA CountZeroStep ==
    ASSUME SerialInv, LossInv', NEW t \in Threads, CountFromZero(t)
    PROVE  SerialInv'
<1> DEFINE s == call[t].sid
           o == call[t].own
           g == Gate(1)
<1>1. /\ TypeInv /\ s \in Sids /\ o \in Threads /\ call[t] \in Call /\ call[t].pc = "zero"
      /\ Position(t) /\ Ledger(s) /\ obj[s][o] \in Object /\ Inputs(s) \in Nat
  BY InCall DEF CountFromZero, At
<1>2. /\ reg[s] = o /\ log[s] # <<>> /\ UNCHANGED <<log, torn, reg>>
      /\ Readable(s) => Inputs(s) = 0
      /\ obj' = [obj EXCEPT ![s][o].counted = TRUE, ![s][o].cmds = 1]
      /\ call' = [call EXCEPT ![t].pc = g]
  BY <1>1 DEF Position, Early, CountFromZero, Go, logVars
<1>3. /\ call'[t].sid = s /\ call'[t].own = o /\ call'[t].pc = g
      /\ \A u \in Threads \ {t} : call'[u] = call[u]
  BY <1>1, <1>2 DEF TypeInv, TypeOK, Call
<1>4. obj'[s][o].counted = TRUE /\ obj'[s][o].cmds = 1
  BY <1>1, <1>2 DEF TypeInv, TypeOK, Object
<1>5. g \in {"end", "input"} /\ (g = "input" => 1 <= MaxCommands)
  BY SandboxAssumption DEF Gate
<1>6. \A x \in Sids \ {s} : obj'[x] = obj[x]
  BY <1>1, <1>2 DEF TypeInv, TypeOK
<1> HIDE DEF g
<1>7. log'[s] = log[s] /\ reg'[s] = o /\ MaxCommands \in Nat
  BY <1>2, SandboxAssumption
<1>8. ASSUME NEW x \in Sids, x = s PROVE Ledger(x)'
  <2>1. Readable(x)' => Readable(x) /\ Inputs(x)' = Inputs(x) /\ Inputs(x) = 0
    BY <1>2, <1>7, <1>8 DEF Readable, Inputs, Count
  <2> QED BY <1>4, <1>7, <1>8, <2>1 DEF Ledger, Covers
<1>9. Position(t)'
  <2>1. log'[s] # <<>>
    BY <1>2
  <2>2. Readable(s)' => Inputs(s)' = 0
    BY <1>2, <1>3, <1>7 DEF Readable, Inputs, Count
  <2> QED BY <1>3, <1>4, <1>5, <1>7, <2>1, <2>2 DEF Position, Early
<1> QED BY <1>1, <1>2, <1>3, <1>5, <1>6, <1>8, <1>9, LocalStep

LEMMA InputStep ==
    ASSUME SerialInv, LossInv', NEW t \in Threads, Input(t)
    PROVE  SerialInv'
<1> DEFINE s == call[t].sid
           o == call[t].own
<1>1. /\ TypeInv /\ TornUnreadable /\ s \in Sids /\ o \in Threads /\ call[t] \in Call
      /\ call[t].pc = "input" /\ Position(t) /\ Ledger(s) /\ obj[s][o] \in Object
      /\ Inputs(s) \in Nat
  BY InCall DEF Input, At
<1>2. /\ reg[s] = o /\ log[s] # <<>> /\ UNCHANGED reg
      /\ obj[s][o].counted /\ obj[s][o].cmds <= MaxCommands
      /\ Readable(s) => Inputs(s) < obj[s][o].cmds
  BY <1>1 DEF Position, Early, Input
<1>3. CASE EmitFails(t) /\ Go(t, "fail")
  <2>1. Muted /\ Kept /\ CountsKept
    <3>1. "error" \in EventType
      BY DEF EventType
    <3> QED BY <1>1, <1>3, <3>1, Writes
  <2>2. /\ call'[t].sid = s /\ call'[t].own = o /\ call'[t].pc = "fail"
        /\ \A u \in Threads \ {t} : call'[u] = call[u]
    BY <1>1, <1>3 DEF Go, TypeInv, TypeOK, Call
  <2>3. call[t].pc \notin Early \cup Filling \cup {"idle"} /\ call'[t].pc \in Calm
    BY <1>1, <2>2 DEF Early, Filling, Calm
  <2> QED BY <1>2, <2>1, <2>2, <2>3, CalmStep
<1>4. CASE /\ EmitOK(t, "input")
           /\ call' = [call EXCEPT ![t].pc = "context", ![t].logged = TRUE]
  <2>1. /\ call'[t].sid = s /\ call'[t].own = o /\ call'[t].pc = "context"
        /\ \A u \in Threads \ {t} : call'[u] = call[u]
    BY <1>1, <1>4 DEF TypeInv, TypeOK, Call
  <2>2. AppendLine(s, "input") /\ "input" \in EventType
    BY <1>4 DEF EmitOK, EventType
  <2>3. /\ \A x \in Sids \ {s} : log'[x] = log[x] /\ obj'[x] = obj[x]
        /\ Kept /\ CountsKept
    BY <1>1, <1>4, <2>2, KeptEmit DEF EmitOK, AppendLine, TypeInv, TypeOK, LogTypeOK
  <2>4. ASSUME NEW x \in Sids, x = s, Readable(x)'
        PROVE  Readable(x) /\ Inputs(x)' = Inputs(x) + 1
    BY <1>1, <2>2, <2>4, LineEffect DEF Inputs
  <2>5. obj'[s][o].counted = obj[s][o].counted /\ obj'[s][o].cmds = obj[s][o].cmds
    BY <1>1, <2>3 DEF CountsKept
  <2>6. ASSUME NEW x \in Sids, x = s PROVE Ledger(x)'
    <3>1. Readable(x)' => Inputs(x)' <= obj[x][o].cmds /\ obj[x][o].cmds <= MaxCommands
      BY <1>1, <1>2, <2>4, <2>6 DEF Object
    <3>2. obj[x][o].cmds \in Nat /\ MaxCommands \in Nat
      BY <1>1, <2>6, SandboxAssumption DEF Object
    <3>3. Readable(x)' => Inputs(x)' \in Nat
      BY <1>1, <2>4, <2>6
    <3>4. Readable(x)' => Inputs(x)' <= MaxCommands
      BY <3>1, <3>2, <3>3
    <3>5. reg'[x] = o
      BY <1>2, <2>6
    <3>6. obj'[x][reg'[x]].counted /\ obj'[x][reg'[x]].cmds = obj[x][o].cmds
      BY <1>2, <2>5, <2>6, <3>5
    <3>7. Readable(x)' => Covers(x, reg[x])'
      BY <3>1, <3>6 DEF Covers
    <3> QED BY <3>4, <3>7 DEF Ledger
  <2>7. Position(t)'
    BY <1>1, <1>2, <2>1, <2>3 DEF Position, Early, Kept
  <2> QED BY <1>1, <1>2, <2>1, <2>3, <2>6, <2>7, LocalStep DEF Kept
<1> QED BY <1>3, <1>4 DEF Input

-----------------------------------------------------------------------------
LEMMA ProceedSerial ==
    ASSUME SerialInv, LossInv', NEW t \in Threads, Proceed(t)
    PROVE  SerialInv'
BY OpenStep, ResumeStep, RegisterStep, RestoreStep, AssignStep, CountStep, CountZeroStep,
   InputStep, LateStep DEF Proceed

(* A new session: nobody else knows it, its log has no command, its object *)
(* has not counted.                                                        *)
LEMMA Created ==
    ASSUME SerialInv, NEW t \in Threads, NEW s \in Sids, Create(t, s)
    PROVE  /\ \A x \in Sids \ {s} : log'[x] = log[x] /\ reg'[x] = reg[x] /\ obj'[x] = obj[x]
           /\ \A u \in Threads : call[u].pc # "idle" => call[u].sid # s
           /\ log'[s] # <<>> /\ reg'[s] = t /\ obj'[s][t].counted = FALSE
           /\ Inputs(s)' = 0
<1>1. TypeInv /\ TornUnreadable /\ log[s] = <<>>
  BY DEF SerialInv, LossInv, Create, Unused
<1>2. /\ AppendLine(s, "start")
      /\ obj' = [obj EXCEPT ![s][t] = Fresh(1)] /\ reg' = [reg EXCEPT ![s] = t]
  BY DEF Create
<1>3. ~torn[s]
  BY <1>1 DEF TornUnreadable, Readable
<1>4. log' = [log EXCEPT ![s] = Append(log[s], "start")]
  BY <1>2, <1>3 DEF AppendLine
<1>5. log'[s] = Append(<<>>, "start") /\ <<>> \in Seq(Lines) /\ "start" \in Lines
  BY <1>1, <1>4 DEF TypeInv, TypeOK, LogTypeOK, Lines, EventType
<1>6. Occurrences(log'[s], {"input"}) = 0
  <2>1. Occurrences(<<>>, {"input"}) = 0
    BY OccurrencesEmpty
  <2>2. Occurrences(Append(<<>>, "start"), {"input"})
            = Occurrences(<<>>, {"input"}) + (IF "start" \in {"input"} THEN 1 ELSE 0)
    BY <1>5, OccurrencesAppend
  <2>3. "start" \notin {"input"}
    OBVIOUS
  <2> QED BY <1>5, <2>1, <2>2, <2>3
<1>7. \A u \in Threads : call[u].pc # "idle" => call[u].sid # s
  BY <1>1 DEF SerialInv, Position
<1>8. obj'[s][t].counted = FALSE
  BY <1>1, <1>2 DEF TypeInv, TypeOK, Fresh
<1>9. log'[s] # <<>>
  BY <1>5
<1>10. \A x \in Sids \ {s} : log'[x] = log[x] /\ reg'[x] = reg[x] /\ obj'[x] = obj[x]
  BY <1>1, <1>2, <1>4 DEF TypeInv, TypeOK, LogTypeOK
<1>11. reg'[s] = t
  BY <1>1, <1>2 DEF TypeInv, TypeOK
<1> QED BY <1>6, <1>7, <1>8, <1>9, <1>10, <1>11 DEF Inputs, Count

(* A step that starts a call, or only creates a session. *)
LEMMA StartStep ==
    ASSUME SerialInv, LossInv', NEW t \in Threads, NEW s \in Sids, call[t].pc = "idle",
           \A u \in Threads \ {t} : call'[u] = call[u],
           call'[t].pc # "idle" =>
               call'[t].sid = s /\ \A u \in Threads \ {t} : call[u].sid # s \/ call[u].pc = "idle",
           call'[t].pc \notin Filling,
           \A x \in Sids \ {s} : log'[x] = log[x] /\ reg'[x] = reg[x] /\ obj'[x] = obj[x],
           \/ UNCHANGED <<log, reg, obj>>
           \/ /\ \A u \in Threads : call[u].pc # "idle" => call[u].sid # s
              /\ Ledger(s)' /\ log'[s] # <<>>,
           Position(t)'
    PROVE  SerialInv'
<1>1. Placed /\ Alone
  BY DEF SerialInv, LossInv, TypeInv
<1>2. Alone'
  BY <1>1 DEF Alone
<1>3. ASSUME NEW x \in Sids, log'[x] = log[x] /\ reg'[x] = reg[x] /\ obj'[x] = obj[x]
      PROVE  Ledger(x)'
  <2>1. Ledger(x)
    BY DEF SerialInv
  <2>2. Readable(x)' = Readable(x) /\ Inputs(x)' = Inputs(x)
    BY <1>3 DEF Readable, Inputs, Count
  <2>3. Waking(x) => Waking(x)'
    <3>1. \A u \in Threads : call[u].pc \in Filling => u # t
      BY DEF Filling
    <3> QED BY <3>1 DEF Waking
  <2> QED BY <1>3, <2>1, <2>2, <2>3 DEF Ledger, Covers
<1>4. \A x \in Sids : Ledger(x)' /\ (reg'[x] # None => log'[x] # <<>>)
  <2>1. CASE UNCHANGED <<log, reg, obj>>
    BY <1>3, <2>1 DEF SerialInv
  <2>2. CASE Ledger(s)' /\ log'[s] # <<>>
    BY <1>3, <2>2 DEF SerialInv
  <2> QED BY <2>1, <2>2
<1>5. ASSUME NEW u \in Threads \ {t} PROVE Position(u)'
  <2>1. Position(u) /\ call'[u] = call[u]
    BY DEF SerialInv
  <2>2. CASE call[u].pc = "idle"
    BY <2>1, <2>2 DEF Position, Early
  <2>3. CASE call[u].pc # "idle"
    <3>1. call[u].sid \in Sids
      BY <1>1, <2>3 DEF Placed
    <3>2. /\ log'[call[u].sid] = log[call[u].sid] /\ reg'[call[u].sid] = reg[call[u].sid]
          /\ obj'[call[u].sid] = obj[call[u].sid]
      BY <2>3, <3>1
    <3> QED BY <2>1, <3>2 DEF Position, Readable, Inputs, Count
  <2> QED BY <2>2, <2>3
<1> QED BY <1>2, <1>4, <1>5 DEF SerialInv

LEMMA BeginSerial ==
    ASSUME ~Concurrent, SerialInv, LossInv', NEW t \in Threads, Begin(t)
    PROVE  SerialInv'
<1>1. PICK s \in Sids : \/ create_session(t, s) \/ handle_new(t, s)
                        \/ handle_command(t, s) \/ close_session(t, s)
  BY DEF Begin
<1>2. TypeInv /\ call[t].pc = "idle" /\ call[t] \in Call /\ Ledger(s)
  BY <1>1 DEF create_session, handle_new, handle_command, close_session, At, SerialInv, LossInv,
              TypeInv, TypeOK
<1>3. ASSUME Create(t, s)
      PROVE  /\ \A x \in Sids \ {s} : log'[x] = log[x] /\ reg'[x] = reg[x] /\ obj'[x] = obj[x]
             /\ \A u \in Threads : call[u].pc # "idle" => call[u].sid # s
             /\ Ledger(s)' /\ log'[s] # <<>> /\ reg'[s] = t
  <2>1. /\ reg'[s] = t /\ obj'[s][t].counted = FALSE /\ log'[s] # <<>>
        /\ Inputs(s)' = 0
        /\ \A x \in Sids \ {s} : log'[x] = log[x] /\ reg'[x] = reg[x] /\ obj'[x] = obj[x]
        /\ \A u \in Threads : call[u].pc # "idle" => call[u].sid # s
    BY <1>3, Created
  <2>2. Ledger(s)'
    <3>1. Inputs(s)' = 0 /\ 0 <= MaxCommands
      BY <2>1, SandboxAssumption
    <3>2. Covers(s, reg[s])'
      BY <2>1, <3>1 DEF Covers
    <3> QED BY <3>1, <3>2 DEF Ledger
  <2> QED BY <2>1, <2>2
<1>4. CASE create_session(t, s)
  <2>1. Create(t, s) /\ call' = call
    BY <1>4 DEF create_session
  <2>2. Position(t)'
    BY <1>2, <2>1 DEF Position, Early
  <2>3. call'[t].pc \notin Filling
    BY <1>2, <2>1 DEF Filling
  <2> QED BY <1>2, <1>3, <2>1, <2>2, <2>3, StartStep
<1>5. CASE handle_new(t, s)
  <2>1. /\ Create(t, s) /\ call'[t].pc = "count" /\ call'[t].sid = s /\ call'[t].own = t
        /\ \A u \in Threads \ {t} : call'[u] = call[u]
    BY <1>2, <1>5 DEF handle_new, NoCall, TypeInv, TypeOK
  <2>2. Position(t)'
    <3>1. log'[s] # <<>> /\ reg'[s] = t
      BY <1>3, <2>1
    <3> QED BY <2>1, <3>1 DEF Position, Early
  <2>3. call'[t].pc \notin Filling
    BY <2>1 DEF Filling
  <2> QED BY <1>2, <1>3, <2>1, <2>2, <2>3, StartStep
<1>6. ASSUME UNCHANGED <<log, reg, obj>>, log[s] # <<>>, ~Busy(s),
             \A u \in Threads \ {t} : call'[u] = call[u], call'[t].sid = s,
             \/ call'[t].pc \in {"count", "end"} /\ call'[t].own = reg[s]
             \/ call'[t].pc = "wake" /\ reg[s] = None /\ call'[t].own = t
      PROVE  SerialInv'
  <2>1. Position(t)'
    BY <1>6 DEF Position, Early
  <2>2. call'[t].pc \notin Filling
    BY <1>6 DEF Filling
  <2>3. \A u \in Threads : call[u].sid # s
    BY <1>6 DEF Busy
  <2> QED BY <1>2, <1>6, <2>1, <2>2, <2>3, StartStep
<1>7. CASE handle_command(t, s)
  <2>1. UNCHANGED <<log, reg, obj>> /\ log[s] # <<>> /\ ~Busy(s)
    BY <1>7 DEF handle_command, logVars
  <2>2. CASE reg[s] # None
    BY <1>2, <1>6, <1>7, <2>1, <2>2 DEF handle_command, NoCall, TypeInv, TypeOK
  <2>3. CASE reg[s] = None
    BY <1>2, <1>6, <1>7, <2>1, <2>3 DEF handle_command, NoCall, TypeInv, TypeOK
  <2> QED BY <2>2, <2>3
<1>8. CASE close_session(t, s)
  <2>1. UNCHANGED <<log, reg, obj>> /\ log[s] # <<>> /\ ~Busy(s)
    BY <1>8 DEF close_session, logVars, SerialInv
  <2> QED BY <1>2, <1>6, <1>8, <2>1 DEF close_session, NoCall, TypeInv, TypeOK
<1> QED BY <1>1, <1>4, <1>5, <1>7, <1>8

LEMMA OutsideSerial ==
    ASSUME SerialInv, LossInv', NEW s \in Sids, CreateFails(s) \/ wake_to_read(s)
    PROVE  SerialInv'
<1>1. TypeInv /\ TornUnreadable /\ UNCHANGED <<obj, reg, call>>
  BY DEF SerialInv, LossInv, CreateFails, wake_to_read, memVars
<1>2. "resume" \in EventType /\ "resume" # "input"
  BY DEF EventType
<1>3. Kept
  BY <1>1, <1>2, KeptLine DEF CreateFails, Fault, wake_to_read
<1>4. Muted
  <2>1. CASE CreateFails(s)
    BY <1>1, <2>1, SilentFault DEF CreateFails, Fault, Silent, Muted
  <2>2. CASE wake_to_read(s)
    BY <1>1, <1>2, <2>2, MutedLine DEF wake_to_read
  <2> QED BY <2>1, <2>2
<1>5. Alone'
  BY <1>1 DEF SerialInv, Alone
<1>6. ASSUME NEW x \in Sids PROVE Ledger(x)' /\ (reg'[x] # None => log'[x] # <<>>)
  <2>1. Waking(x)' <=> Waking(x)
    BY <1>1 DEF Waking
  <2>2. Readable(x)' => Readable(x) /\ Inputs(x)' = Inputs(x)
    BY <1>4 DEF Muted
  <2>3. Ledger(x)'
    BY <1>1, <2>1, <2>2 DEF SerialInv, Ledger, Covers
  <2> QED BY <1>1, <1>3, <2>3 DEF SerialInv, Kept
<1>7. ASSUME NEW u \in Threads PROVE Position(u)'
  <2>1. Position(u) /\ call' = call
    BY <1>1 DEF SerialInv
  <2>2. CASE call[u].pc = "idle"
    BY <2>1, <2>2 DEF Position, Early
  <2>3. CASE call[u].pc # "idle"
    <3>1. call[u].sid \in Sids
      BY <1>1, <2>3 DEF TypeInv, Placed
    <3>2. /\ Readable(call[u].sid)' => Readable(call[u].sid) /\ Inputs(call[u].sid)' = Inputs(call[u].sid)
          /\ log[call[u].sid] # <<>> => log'[call[u].sid] # <<>>
      BY <1>3, <1>4, <2>1, <3>1 DEF Muted, Kept
    <3> QED BY <1>1, <2>1, <3>2 DEF Position
  <2> QED BY <2>2, <2>3
<1> QED BY <1>5, <1>6, <1>7 DEF SerialInv

LEMMA CrashSerial ==
    ASSUME SerialInv, LossInv', Crash
    PROVE  SerialInv'
<1>1. TypeInv /\ TornUnreadable
  BY DEF SerialInv, LossInv
<1>2. Muted
  <2>1. CASE UNCHANGED logVars
    BY <2>1 DEF Muted, Readable, Inputs, Count, logVars
  <2>2. ASSUME NEW t \in Threads, call[t].pc \in Emitting, TearLine(call[t].sid)
        PROVE  Muted
    <3>1. call[t].sid \in Sids
      BY <1>1, <2>2 DEF TypeInv, Placed, Emitting
    <3> QED BY <1>1, <2>2, <3>1, SilentFault DEF Silent, Muted
  <2> QED BY <2>1, <2>2 DEF Crash
<1>3. /\ \A t \in Threads : call'[t].pc = "idle"
      /\ \A x \in Sids : reg'[x] = None
  BY DEF Crash, NoCall
<1>4. ASSUME NEW x \in Sids PROVE Ledger(x)'
  BY <1>2, <1>3 DEF SerialInv, Ledger, Muted
<1>5. ASSUME NEW t \in Threads PROVE Position(t)'
  BY <1>3 DEF Position, Early
<1>6. Alone'
  BY <1>3 DEF Alone
<1> QED BY <1>3, <1>4, <1>5, <1>6 DEF SerialInv

LEMMA InitSerial == Init => SerialInv
<1> SUFFICES ASSUME Init PROVE SerialInv
  OBVIOUS
<1>1. LossInv
  BY InitLoss
<1>2. \A t \in Threads : call[t].pc = "idle"
  BY DEF Init, NoCall
<1>3. ASSUME NEW x \in Sids PROVE Ledger(x) /\ (reg[x] # None => log[x] # <<>>)
  <2>1. Inputs(x) = 0 /\ reg[x] = None
    BY OccurrencesEmpty DEF Init, Inputs, Count
  <2> QED BY <2>1, SandboxAssumption DEF Ledger
<1> QED BY <1>1, <1>2, <1>3 DEF SerialInv, Alone, Position, Early

LEMMA SerialStep ==
    ASSUME ~Concurrent
    PROVE  SerialInv /\ [Next]_vars => SerialInv'
<1>1. SerialInv /\ [Next]_vars => LossInv'
  BY LossStep DEF SerialInv
<1>2. SerialInv /\ Next => SerialInv'
  BY <1>1, BeginSerial, ProceedSerial, OutsideSerial, CrashSerial DEF Next
<1>3. SerialInv /\ UNCHANGED vars => SerialInv'
  <2> SUFFICES ASSUME SerialInv, UNCHANGED vars PROVE SerialInv'
    OBVIOUS
  <2>1. Alone'
    BY DEF SerialInv, Alone, vars
  <2>2. \A x \in Sids : Ledger(x)' /\ (reg'[x] # None => log'[x] # <<>>)
    BY DEF SerialInv, Ledger, Covers, Waking, Readable, Inputs, Count, vars
  <2>3. \A t \in Threads : Position(t)'
    BY DEF SerialInv, Position, Readable, Inputs, Count, vars
  <2> QED BY <1>1, <2>1, <2>2, <2>3 DEF SerialInv
<1> QED BY <1>2, <1>3

(* If the commands of a session come one after the other, no session runs  *)
(* more than max_commands commands, however often the process is restarted *)
(* and whatever writes fail.                                               *)
THEOREM LimitRespected ==
    ASSUME ~Concurrent
    PROVE  Spec => []LimitHolds
<1>1. SerialInv => LimitHolds
  BY DEF SerialInv, Ledger, LimitHolds
<1> QED BY <1>1, InitSerial, SerialStep, PTL DEF Spec

-----------------------------------------------------------------------------
(***************************************************************************)
(* Neither the events a Session object has counted (session.py:193-198) nor *)
(* the answers its callers were given (sandbox.py:153-171) run ahead of the *)
(* log.  AnswersOnLog alone is not inductive: a caller is answered one step *)
(* after the line was written, so a thread in between stands for an answer *)
(* that is owed (Owed).                                                    *)
(***************************************************************************)

(* The lines that let a caller be answered. *)
Answered == Outcomes \cup {"orphan"}

(* Threads that have logged what they are about to return. *)
Owed(x) == {t \in Threads : call[t].sid = x /\ call[t].pc = "metric"}

AnswersCovered ==
    \A x \in Sids : Readable(x) => answers[x] + Cardinality(Owed(x)) <= Count(x, Answered)

ReportInv == TypeInv /\ TornUnreadable /\ EventsNeverAhead /\ AnswersCovered

(* No object counts an event. *)
EventsKept == \A x \in Sids, o \in Threads : obj'[x][o].events = obj[x][o].events

(* No log becomes readable, and a readable one loses no line. *)
LogsGrow ==
    /\ TornUnreadable'
    /\ \A x \in Sids : Readable(x)' =>
          /\ Readable(x)
          /\ Len(log'[x]) \in Nat /\ Len(log'[x]) >= Len(log[x])
          /\ Count(x, Answered)' \in Nat /\ Count(x, Answered)' >= Count(x, Answered)

-----------------------------------------------------------------------------
(* A write, whole or torn, leaves the lines of the log where they were. *)
LEMMA WriteGrows ==
    ASSUME TypeInv, TornUnreadable, NEW s \in Sids, NEW e \in EventType,
           AppendLine(s, e) \/ TearLine(s) \/ UNCHANGED logVars
    PROVE  LogsGrow
<1>1. CASE UNCHANGED logVars
  <2>1. \A x \in Sids : Count(x, Answered) \in Nat /\ log[x] \in Seq(Lines)
    <3> TAKE x \in Sids
    <3>1. log[x] \in Seq(Lines) /\ Garbled \in Lines
      BY DEF TypeInv, TypeOK, LogTypeOK, Lines
    <3> QED BY <3>1, OccurrencesAppend DEF Count
  <2> QED BY <1>1, <2>1 DEF LogsGrow, TornUnreadable, Readable, Count, logVars
<1>2. CASE TearLine(s)
  <2>1. TornUnreadable'
    BY <1>2, TearEffect
  <2>2. ASSUME NEW x \in Sids, Readable(x)'
        PROVE  /\ Readable(x)
               /\ Len(log'[x]) \in Nat /\ Len(log'[x]) >= Len(log[x])
               /\ Count(x, Answered)' \in Nat /\ Count(x, Answered)' >= Count(x, Answered)
    <3>1. log'[x] = log[x]
      BY <1>2, <2>2, TearEffect
    <3>2. log[x] \in Seq(Lines) /\ Garbled \in Lines
      BY DEF TypeInv, TypeOK, LogTypeOK, Lines
    <3>3. Count(x, Answered) \in Nat
      BY <3>2, OccurrencesAppend DEF Count
    <3> QED BY <2>2, <3>1, <3>2, <3>3 DEF Readable, Count
  <2> QED BY <2>1, <2>2 DEF LogsGrow
<1>3. CASE AppendLine(s, e)
  <2>1. TornUnreadable'
    BY <1>3, AppendTorn
  <2>2. ASSUME NEW x \in Sids, Readable(x)'
        PROVE  /\ Readable(x)
               /\ Len(log'[x]) \in Nat /\ Len(log'[x]) >= Len(log[x])
               /\ Count(x, Answered)' \in Nat /\ Count(x, Answered)' >= Count(x, Answered)
    <3>1. Readable(x) /\ Count(x, Answered)' \in Nat /\ Count(x, Answered)' >= Count(x, Answered)
      <4>1. /\ Readable(x) /\ Count(x, Answered) \in Nat
            /\ Count(x, Answered)' = Count(x, Answered) + (IF x = s /\ e \in Answered THEN 1 ELSE 0)
        BY <1>3, <2>2, LineEffect
      <4> QED BY <4>1
    <3>2. log[x] \in Seq(Lines) /\ e \in Lines
      BY DEF TypeInv, TypeOK, LogTypeOK, Lines
    <3>3. log'[x] = log[x] \/ log'[x] = Append(log[x], e)
      BY <1>3 DEF AppendLine, TypeInv, TypeOK, LogTypeOK
    <3> QED BY <3>1, <3>2, <3>3
  <2> QED BY <2>1, <2>2 DEF LogsGrow
<1> QED BY <1>1, <1>2, <1>3

LEMMA OwedFinite ==
    ASSUME NEW x
    PROVE  IsFiniteSet(Owed(x)) /\ Cardinality(Owed(x)) \in Nat
<1>1. Owed(x) \in SUBSET Threads
  BY DEF Owed
<1> QED BY <1>1, SandboxAssumption, FS_Subset, FS_CardinalityType

LEMMA ReportTerms ==
    ASSUME TypeInv, NEW x \in Sids
    PROVE  /\ answers[x] \in Nat /\ Cardinality(Owed(x)) \in Nat
           /\ Count(x, Answered) \in Nat /\ Len(log[x]) \in Nat
           /\ \A o \in Threads : obj[x][o] \in Object /\ obj[x][o].events \in Nat
<1>1. log[x] \in Seq(Lines) /\ Garbled \in Lines
  BY DEF TypeInv, TypeOK, LogTypeOK, Lines
<1>2. Count(x, Answered) \in Nat /\ Len(log[x]) \in Nat
  BY <1>1, OccurrencesAppend DEF Count
<1>3. \A o \in Threads : obj[x][o] \in Object /\ obj[x][o].events \in Nat
  BY DEF TypeInv, TypeOK, Object
<1> QED BY <1>2, <1>3, OwedFinite DEF TypeInv, TypeOK

-----------------------------------------------------------------------------
(* Events counted.                                                         *)
LEMMA EventsQuiet ==
    ASSUME ReportInv, LogsGrow, EventsKept
    PROVE  EventsNeverAhead'
<1> SUFFICES ASSUME NEW x \in Sids, Readable(x)', NEW o \in Threads
             PROVE  obj'[x][o].events <= Len(log'[x])
  BY DEF EventsNeverAhead
<1>1. /\ Readable(x) /\ obj'[x][o].events = obj[x][o].events
      /\ Len(log'[x]) \in Nat /\ Len(log'[x]) >= Len(log[x])
  BY DEF LogsGrow, EventsKept
<1>2. obj[x][o].events <= Len(log[x])
  BY <1>1 DEF ReportInv, EventsNeverAhead
<1>3. obj[x][o].events \in Nat /\ Len(log[x]) \in Nat
  BY ReportTerms DEF ReportInv
<1> QED BY <1>1, <1>2, <1>3

-----------------------------------------------------------------------------
(* What the steps of a call have in common.                                *)

(* A step of t writes an event its object counts, opens the object, or     *)
(* leaves the events as they are.                                          *)
Writing(t) ==
    \/ \E e \in EventType : EmitOK(t, e)
    \/ /\ UNCHANGED logVars
       /\ obj' = [obj EXCEPT ![call[t].sid][t] = Fresh(Len(log[call[t].sid]))]
    \/ /\ EventsKept
       /\ UNCHANGED logVars \/ (Tearing /\ TearLine(call[t].sid))

(* A step of t makes it owe an answer, gives it, or neither. *)
Answers(t) ==
    \/ /\ call[t].pc # "metric" /\ call'[t].pc = "metric" /\ call'[t].sid = call[t].sid
       /\ \E e \in Answered : EmitOK(t, e)
       /\ UNCHANGED answers
    \/ /\ call[t].pc = "metric" /\ call'[t].pc = "idle"
       /\ \/ answers' = [answers EXCEPT ![call[t].sid] = @ + 1]
          \/ UNCHANGED answers
    \/ /\ call[t].pc # "metric" /\ call'[t].pc # "metric"
       /\ UNCHANGED answers

LEMMA ProceedShape ==
    ASSUME TypeInv, NEW t \in Threads, Proceed(t)
    PROVE  /\ call[t].pc # "idle"
           /\ \A u \in Threads \ {t} : call'[u] = call[u]
           /\ Writing(t) /\ Answers(t)
<1> DEFINE s == call[t].sid
           o == call[t].own
           Shape == Writing(t) /\ Answers(t)
           Others == \A u \in Threads \ {t} : call'[u] = call[u]
           Plain == call[t].pc # "metric" /\ call'[t].pc # "metric" /\ UNCHANGED answers
<1>1. call[t].pc # "idle"
  BY DEF Proceed, At, Open, Resume, Register, Restore, Assign, CountCommand, CountFromZero,
         End, Flag, Input, BuildContext, RunStage, Stumble, Verify, Retry, Respond, Fail, Metric
<1>2. /\ s \in Sids /\ o \in Threads /\ call[t] \in Call
      /\ call \in [Threads -> Call] /\ obj \in [Sids -> [Threads -> Object]]
  BY <1>1 DEF TypeInv, TypeOK, Placed
<1>3. ASSUME NEW e \in EventType, EmitOK(t, e) \/ EmitFails(t) PROVE Writing(t)
  <2>1. CASE EmitOK(t, e)
    BY <2>1 DEF Writing
  <2>2. CASE EmitFails(t)
    BY <2>2 DEF Writing, EmitFails, Fault, EventsKept
  <2> QED BY <1>3, <2>1, <2>2
<1>4. ASSUME UNCHANGED <<log, torn, obj>> PROVE Writing(t)
  BY <1>4 DEF Writing, EventsKept, logVars
<1>5. ASSUME UNCHANGED <<log, torn>>, NEW b \in Object, b.events = obj[s][o].events,
             obj' = [obj EXCEPT ![s][o] = b]
      PROVE  Writing(t)
  BY <1>2, <1>5 DEF Writing, EventsKept, logVars
<1>6. ASSUME Plain PROVE Answers(t)
  BY <1>6 DEF Answers
<1>7. ASSUME NEW p \in Pcs, Go(t, p) PROVE Others /\ call'[t].pc = p /\ call'[t].sid = s
  BY <1>2, <1>7 DEF Go, Call
<1>8. ASSUME Raise(t) \/ call' = [call EXCEPT ![t] = NoCall]
      PROVE  Others /\ call'[t].pc = "idle"
  BY <1>2, <1>8 DEF Raise, NoCall
<1>9. ASSUME NextStage(t) PROVE Others /\ call'[t].pc \in {"verify", "stage"}
  BY <1>2, <1>9 DEF NextStage, Call
<1>10. ASSUME Settle(t) PROVE Others /\ call'[t].pc = "metric" /\ call'[t].sid = s
  BY <1>2, <1>10 DEF Settle, Call
<1>11. obj[s][o] \in Object
  BY <1>2
<1>12. CASE Open(t)
  BY <1>12, <1>6, <1>7 DEF Open, At, Pcs, Writing, tallies
<1>13. CASE Resume(t)
  BY <1>13, <1>3, <1>6, <1>7, <1>8 DEF Resume, At, Pcs, EventType
<1>14. CASE Register(t)
  BY <1>14, <1>4, <1>6, <1>7 DEF Register, At, Pcs, logVars, tallies
<1>15. CASE Restore(t)
  <2>1. ASSUME call' = [call EXCEPT ![t].pc = "assign", ![t].val = Count(s, {"input"})]
        PROVE  Others /\ call'[t].pc = "assign"
    BY <1>2, <2>1 DEF Call
  <2> QED BY <1>15, <1>4, <1>6, <1>7, <1>8, <2>1 DEF Restore, At, Pcs, logVars
<1>16. CASE Assign(t)
  <2> DEFINE b == [obj[s][o] EXCEPT !.counted = TRUE, !.cmds = call[t].val]
  <2>1. b \in Object /\ b.events = obj[s][o].events
    BY <1>2, <1>11 DEF Object, Call
  <2>2. obj' = [obj EXCEPT ![s][o] = b]
    BY <1>16 DEF Assign
  <2> HIDE DEF b
  <2>3. Writing(t)
    BY <1>16, <1>5, <2>1, <2>2 DEF Assign, logVars
  <2> QED BY <1>16, <1>6, <1>7, <2>3 DEF Assign, At, Pcs, tallies
<1>17. CASE CountCommand(t)
  <2> DEFINE b == [obj[s][o] EXCEPT !.cmds = @ + 1]
  <2>1. b \in Object /\ b.events = obj[s][o].events
    BY <1>11 DEF Object
  <2>2. UNCHANGED obj \/ obj' = [obj EXCEPT ![s][o] = b]
    BY <1>17 DEF CountCommand
  <2> HIDE DEF b
  <2>3. Writing(t)
    BY <1>17, <1>4, <1>5, <2>1, <2>2 DEF CountCommand, logVars
  <2> QED BY <1>17, <1>6, <1>7, <2>3 DEF CountCommand, Gate, At, Pcs, tallies
<1>18. CASE CountFromZero(t)
  <2> DEFINE b == [obj[s][o] EXCEPT !.counted = TRUE, !.cmds = 1]
  <2>1. b \in Object /\ b.events = obj[s][o].events
    BY <1>11 DEF Object
  <2>2. obj' = [obj EXCEPT ![s][o] = b]
    BY <1>18 DEF CountFromZero
  <2> HIDE DEF b
  <2>3. Writing(t)
    BY <1>18, <1>5, <2>1, <2>2 DEF CountFromZero, logVars
  <2> QED BY <1>18, <1>6, <1>7, <2>3 DEF CountFromZero, Gate, At, Pcs, tallies
<1>19. CASE End(t)
  BY <1>19, <1>3, <1>6, <1>7, <1>8 DEF End, At, Pcs, EventType
<1>20. CASE Flag(t)
  <2> DEFINE b == [obj[s][o] EXCEPT !.closed = TRUE]
  <2>1. b \in Object /\ b.events = obj[s][o].events
    BY <1>11 DEF Object
  <2>2. obj' = [obj EXCEPT ![s][o] = b]
    BY <1>20 DEF Flag
  <2> HIDE DEF b
  <2>3. Writing(t)
    BY <1>20, <1>5, <2>1, <2>2 DEF Flag, logVars
  <2> QED BY <1>20, <1>6, <1>8, <2>3 DEF Flag, At, tallies
<1>21. CASE Input(t)
  <2>1. ASSUME call' = [call EXCEPT ![t].pc = "context", ![t].logged = TRUE]
        PROVE  Others /\ call'[t].pc = "context"
    BY <1>2, <2>1 DEF Call
  <2> QED BY <1>21, <1>3, <1>6, <1>7, <2>1 DEF Input, At, Pcs, EventType, tallies
<1>22. CASE BuildContext(t)
  BY <1>22, <1>4, <1>6, <1>7 DEF BuildContext, At, Pcs, logVars, tallies
<1>23. CASE RunStage(t)
  <2>1. Components[call[t].stage] \in {"classification", "cti", "generate"}
    BY <1>2, SandboxAssumption DEF Call, Stages
  <2>2. Components[call[t].stage] \in EventType
    BY <2>1 DEF EventType
  <2> QED BY <1>23, <1>3, <1>4, <1>6, <1>7, <1>9, <2>2
          DEF RunStage, At, Pcs, logVars, tallies
<1>24. CASE Stumble(t)
  BY <1>24, <1>3, <1>6, <1>7, <1>9 DEF Stumble, At, Pcs, EventType, tallies
<1>25. CASE Verify(t)
  BY <1>25, <1>3, <1>4, <1>6, <1>7 DEF Verify, At, Pcs, EventType, logVars, tallies
<1>26. CASE Retry(t)
  <2>1. ASSUME call' = [call EXCEPT ![t].tries = @ + 1]
        PROVE  Others /\ call'[t].pc = call[t].pc
    BY <1>2, <2>1 DEF Call
  <2> QED BY <1>26, <1>3, <1>4, <1>6, <1>7, <2>1
          DEF Retry, At, Pcs, EventType, logVars, tallies
<1>27. CASE Respond(t)
  <2>1. CASE EmitOK(t, "response") /\ Settle(t)
    BY <1>27, <1>3, <1>10, <2>1 DEF Respond, At, EventType, Answers, Answered, Outcomes, tallies
  <2>2. CASE EmitFails(t) /\ Go(t, "fail")
    BY <1>27, <1>3, <1>6, <1>7, <2>2 DEF Respond, At, Pcs, EventType, tallies
  <2> QED BY <1>27, <2>1, <2>2 DEF Respond
<1>28. CASE Fail(t)
  <2>1. CASE EmitOK(t, Failure(t)) /\ Settle(t)
    <3>1. Failure(t) \in EventType /\ Failure(t) \in Answered
      BY DEF Failure, EventType, Answered, Outcomes
    <3> QED BY <1>28, <1>3, <1>10, <2>1, <3>1 DEF Fail, At, Answers
  <2>2. CASE EmitFails(t) /\ Raise(t)
    BY <1>28, <1>3, <1>6, <1>8, <2>2 DEF Fail, At, EventType
  <2> QED BY <1>28, <2>1, <2>2 DEF Fail
<1>29. CASE Metric(t)
  BY <1>29, <1>3, <1>8 DEF Metric, At, EventType, Answers
<1> QED
  BY <1>1, <1>12, <1>13, <1>14, <1>15, <1>16, <1>17, <1>18, <1>19, <1>20, <1>21, <1>22, <1>23,
     <1>24, <1>25, <1>26, <1>27, <1>28, <1>29 DEF Proceed

-----------------------------------------------------------------------------
(* The steps of a call.                                                    *)
LEMMA ProceedGrows ==
    ASSUME TypeInv, TornUnreadable, NEW t \in Threads, call[t].pc # "idle", Writing(t)
    PROVE  LogsGrow
<1>1. call[t].sid \in Sids /\ "resume" \in EventType
  BY DEF TypeInv, Placed, EventType
<1>2. CASE \E e \in EventType : EmitOK(t, e)
  BY <1>1, <1>2, WriteGrows DEF EmitOK
<1>3. CASE UNCHANGED logVars \/ TearLine(call[t].sid)
  BY <1>1, <1>3, WriteGrows
<1> QED BY <1>2, <1>3 DEF Writing

(* An event is counted once its line is on the log, and the line of a      *)
(* readable log is never a partial one.                                    *)
LEMMA EmitCounted ==
    ASSUME ReportInv, NEW t \in Threads, call[t].pc # "idle", NEW e \in EventType, EmitOK(t, e)
    PROVE  EventsNeverAhead'
<1> DEFINE s == call[t].sid
           o == call[t].own
<1>1. TypeInv /\ TornUnreadable /\ s \in Sids /\ o \in Threads /\ AppendLine(s, e)
  BY DEF ReportInv, TypeInv, Placed, EmitOK
<1>2. LogsGrow
  BY <1>1, WriteGrows
<1>3. obj' = [obj EXCEPT ![s][o].events = @ + 1]
  BY DEF EmitOK
<1> SUFFICES ASSUME NEW x \in Sids, Readable(x)', NEW u \in Threads
             PROVE  obj'[x][u].events <= Len(log'[x])
  BY DEF EventsNeverAhead
<1>4. /\ Readable(x) /\ obj[x][u].events <= Len(log[x])
      /\ Len(log'[x]) \in Nat /\ Len(log'[x]) >= Len(log[x])
  BY <1>2 DEF LogsGrow, ReportInv, EventsNeverAhead
<1>5. obj[x][u] \in Object /\ obj[x][u].events \in Nat /\ Len(log[x]) \in Nat
  BY <1>1, ReportTerms
<1>6. CASE x = s /\ u = o
  <2>1. obj'[x][u].events = obj[x][u].events + 1
    BY <1>1, <1>3, <1>5, <1>6 DEF TypeInv, TypeOK, Object
  <2>2. ~torn[s]
    BY <1>1, <1>4, <1>6 DEF TornUnreadable
  <2>3. log'[x] = Append(log[x], e) /\ log[x] \in Seq(Lines) /\ e \in Lines
    BY <1>1, <1>6, <2>2 DEF AppendLine, TypeInv, TypeOK, LogTypeOK, Lines
  <2>4. Len(log'[x]) = Len(log[x]) + 1
    BY <2>3
  <2> QED BY <1>4, <1>5, <2>1, <2>4
<1>7. CASE ~(x = s /\ u = o)
  <2>1. obj'[x][u] = obj[x][u]
    BY <1>1, <1>3, <1>7 DEF TypeInv, TypeOK
  <2> QED BY <1>4, <1>5, <2>1
<1> QED BY <1>6, <1>7

LEMMA ProceedEvents ==
    ASSUME ReportInv, NEW t \in Threads, call[t].pc # "idle", Writing(t)
    PROVE  EventsNeverAhead'
<1> DEFINE s == call[t].sid
<1>1. TypeInv /\ TornUnreadable /\ s \in Sids
  BY DEF ReportInv, TypeInv, Placed
<1>2. LogsGrow
  BY <1>1, ProceedGrows
<1>3. CASE \E e \in EventType : EmitOK(t, e)
  BY <1>3, EmitCounted
<1>4. CASE EventsKept
  BY <1>2, <1>4, EventsQuiet
<1>5. CASE UNCHANGED logVars /\ obj' = [obj EXCEPT ![s][t] = Fresh(Len(log[s]))]
  <2> SUFFICES ASSUME NEW x \in Sids, Readable(x)', NEW u \in Threads
               PROVE  obj'[x][u].events <= Len(log'[x])
    BY DEF EventsNeverAhead
  <2>1. log'[x] = log[x] /\ obj[x][u].events <= Len(log[x]) /\ Len(log[x]) \in Nat
    BY <1>1, <1>2, <1>5, ReportTerms DEF LogsGrow, ReportInv, EventsNeverAhead, logVars
  <2>2. obj'[x][u].events = obj[x][u].events \/ (x = s /\ obj'[x][u].events = Len(log[x]))
    BY <1>1, <1>5 DEF Fresh, TypeInv, TypeOK
  <2> QED BY <2>1, <2>2
<1> QED BY <1>3, <1>4, <1>5 DEF Writing

LEMMA ProceedAnswers ==
    ASSUME ReportInv, NEW t \in Threads, call[t].pc # "idle", LogsGrow, Answers(t),
           \A u \in Threads \ {t} : call'[u] = call[u]
    PROVE  AnswersCovered'
<1> DEFINE s == call[t].sid
<1>1. TypeInv /\ TornUnreadable /\ s \in Sids
  BY DEF ReportInv, TypeInv, Placed
<1> SUFFICES ASSUME NEW x \in Sids, Readable(x)'
             PROVE  answers'[x] + Cardinality(Owed(x)') <= Count(x, Answered)'
  BY DEF AnswersCovered
<1>2. /\ Readable(x) /\ answers[x] + Cardinality(Owed(x)) <= Count(x, Answered)
      /\ Count(x, Answered)' \in Nat /\ Count(x, Answered)' >= Count(x, Answered)
  BY DEF LogsGrow, ReportInv, AnswersCovered
<1>3. /\ answers[x] \in Nat /\ Count(x, Answered) \in Nat
      /\ IsFiniteSet(Owed(x)) /\ Cardinality(Owed(x)) \in Nat
  BY <1>1, ReportTerms, OwedFinite
<1>4. CASE /\ call[t].pc # "metric" /\ call'[t].pc = "metric" /\ call'[t].sid = s
           /\ \E e \in Answered : EmitOK(t, e)
           /\ UNCHANGED answers
  <2>1. Owed(x)' = IF x = s THEN Owed(x) \cup {t} ELSE Owed(x)
    BY <1>4 DEF Owed
  <2>2. t \notin Owed(x)
    BY <1>4 DEF Owed
  <2>3. Cardinality(Owed(x)') = Cardinality(Owed(x)) + (IF x = s THEN 1 ELSE 0)
    <3>1. Cardinality(Owed(x) \cup {t}) = Cardinality(Owed(x)) + 1
      BY <1>3, <2>2, FS_AddElement
    <3> QED BY <1>3, <2>1, <3>1
  <2>4. PICK e \in Answered : AppendLine(s, e)
    BY <1>4 DEF EmitOK
  <2>5. e \in EventType
    BY <2>4 DEF Answered, Outcomes, EventType
  <2>6. Count(x, Answered)' = Count(x, Answered) + (IF x = s THEN 1 ELSE 0)
    BY <1>1, <2>4, <2>5, LineEffect
  <2> QED BY <1>2, <1>3, <1>4, <2>3, <2>6
<1>5. CASE /\ call[t].pc = "metric" /\ call'[t].pc = "idle"
           /\ \/ answers' = [answers EXCEPT ![s] = @ + 1]
              \/ UNCHANGED answers
  <2>1. Owed(x)' = IF x = s THEN Owed(x) \ {t} ELSE Owed(x)
    BY <1>5 DEF Owed
  <2>2. x = s => t \in Owed(x)
    BY <1>5 DEF Owed
  <2>3. Cardinality(Owed(x)') = Cardinality(Owed(x)) - (IF x = s THEN 1 ELSE 0)
    <3>1. x = s => Cardinality(Owed(x) \ {t}) = Cardinality(Owed(x)) - 1
      BY <1>3, <2>2, FS_RemoveElement
    <3> QED BY <1>3, <2>1, <3>1
  <2>4. answers'[x] = answers[x] \/ (x = s /\ answers'[x] = answers[x] + 1)
    BY <1>1, <1>5 DEF TypeInv, TypeOK
  <2> QED BY <1>2, <1>3, <2>3, <2>4
<1>6. CASE call[t].pc # "metric" /\ call'[t].pc # "metric" /\ UNCHANGED answers
  <2>1. Owed(x)' = Owed(x)
    BY <1>6 DEF Owed
  <2> QED BY <1>2, <1>3, <1>6, <2>1
<1> QED BY <1>4, <1>5, <1>6 DEF Answers

LEMMA ProceedReport ==
    ASSUME ReportInv, NEW t \in Threads, Proceed(t)
    PROVE  TornUnreadable' /\ EventsNeverAhead' /\ AnswersCovered'
<1>1. TypeInv /\ TornUnreadable
  BY DEF ReportInv
<1>2. /\ call[t].pc # "idle" /\ Writing(t) /\ Answers(t)
      /\ \A u \in Threads \ {t} : call'[u] = call[u]
  BY <1>1, ProceedShape
<1>3. LogsGrow
  BY <1>1, <1>2, ProceedGrows
<1> QED BY <1>2, <1>3, ProceedEvents, ProceedAnswers DEF LogsGrow

-----------------------------------------------------------------------------
(* The other steps.                                                        *)

(* A step that gives no answer and lets nobody owe a new one. *)
LEMMA AnswersQuiet ==
    ASSUME ReportInv, LogsGrow, UNCHANGED answers, \A x \in Sids : Owed(x)' \subseteq Owed(x)
    PROVE  AnswersCovered'
<1> SUFFICES ASSUME NEW x \in Sids, Readable(x)'
             PROVE  answers'[x] + Cardinality(Owed(x)') <= Count(x, Answered)'
  BY DEF AnswersCovered
<1>1. /\ Readable(x) /\ answers[x] + Cardinality(Owed(x)) <= Count(x, Answered)
      /\ Count(x, Answered)' \in Nat /\ Count(x, Answered)' >= Count(x, Answered)
  BY DEF LogsGrow, ReportInv, AnswersCovered
<1>2. answers[x] \in Nat /\ Count(x, Answered) \in Nat /\ Cardinality(Owed(x)) \in Nat
  BY ReportTerms DEF ReportInv
<1>3. Cardinality(Owed(x)') \in Nat /\ Cardinality(Owed(x)') <= Cardinality(Owed(x))
  BY OwedFinite, FS_Subset, FS_CardinalityType
<1> QED BY <1>1, <1>2, <1>3

LEMMA BeginReport ==
    ASSUME ReportInv, NEW t \in Threads, Begin(t)
    PROVE  TornUnreadable' /\ EventsNeverAhead' /\ AnswersCovered'
<1>1. PICK s \in Sids : \/ create_session(t, s) \/ handle_new(t, s)
                        \/ handle_command(t, s) \/ close_session(t, s)
  BY DEF Begin
<1>2. /\ TypeInv /\ TornUnreadable /\ call[t].pc = "idle"
      /\ call \in [Threads -> Call] /\ "start" \in EventType
  BY <1>1 DEF create_session, handle_new, handle_command, close_session, At, ReportInv, TypeInv,
              TypeOK, EventType
<1>3. UNCHANGED answers
  BY <1>1 DEF create_session, handle_new, handle_command, close_session, tallies
<1>4. \A x \in Sids : Owed(x)' \subseteq Owed(x)
  <2>1. call'[t].pc # "metric" /\ \A u \in Threads \ {t} : call'[u] = call[u]
    BY <1>1, <1>2 DEF create_session, handle_new, handle_command, close_session, NoCall
  <2> QED BY <2>1 DEF Owed
<1>5. CASE Create(t, s)
  <2>1. LogsGrow
    BY <1>2, <1>5, WriteGrows DEF Create
  <2>2. EventsNeverAhead'
    <3> SUFFICES ASSUME NEW x \in Sids, Readable(x)', NEW u \in Threads
                 PROVE  obj'[x][u].events <= Len(log'[x])
      BY DEF EventsNeverAhead
    <3>1. /\ Readable(x) /\ obj[x][u].events <= Len(log[x])
          /\ Len(log'[x]) \in Nat /\ Len(log'[x]) >= Len(log[x])
      BY <2>1 DEF LogsGrow, ReportInv, EventsNeverAhead
    <3>2. obj[x][u].events \in Nat /\ Len(log[x]) \in Nat
      BY <1>2, ReportTerms
    <3>3. CASE x = s /\ u = t
      <4>1. obj'[x][u].events = 1
        BY <1>2, <1>5, <3>3 DEF Create, Fresh, TypeInv, TypeOK
      <4>2. ~torn[s] /\ log[s] = <<>>
        BY <1>2, <1>5, <3>1, <3>3 DEF Create, Unused, TornUnreadable
      <4>3. log'[x] = Append(<<>>, "start")
        BY <1>2, <1>5, <3>3, <4>2 DEF Create, AppendLine, TypeInv, TypeOK, LogTypeOK
      <4> QED BY <4>1, <4>3
    <3>4. CASE ~(x = s /\ u = t)
      <4>1. obj'[x][u] = obj[x][u]
        BY <1>2, <1>5, <3>4 DEF Create, TypeInv, TypeOK
      <4> QED BY <3>1, <3>2, <4>1
    <3> QED BY <3>3, <3>4
  <2> QED BY <1>3, <1>4, <2>1, <2>2, AnswersQuiet DEF LogsGrow
<1>6. CASE UNCHANGED <<log, torn, obj>>
  <2>1. LogsGrow
    BY <1>2, <1>6, WriteGrows DEF logVars
  <2>2. EventsKept
    BY <1>6 DEF EventsKept
  <2> QED BY <1>3, <1>4, <2>1, <2>2, EventsQuiet, AnswersQuiet DEF LogsGrow
<1> QED BY <1>1, <1>5, <1>6 DEF create_session, handle_new, handle_command, close_session, logVars

LEMMA OutsideReport ==
    ASSUME ReportInv, NEW s \in Sids, CreateFails(s) \/ wake_to_read(s)
    PROVE  TornUnreadable' /\ EventsNeverAhead' /\ AnswersCovered'
<1>1. TypeInv /\ TornUnreadable /\ "resume" \in EventType
  BY DEF ReportInv, EventType
<1>2. LogsGrow
  BY <1>1, WriteGrows DEF CreateFails, Fault, wake_to_read
<1>3. EventsKept /\ UNCHANGED answers /\ \A x \in Sids : Owed(x)' \subseteq Owed(x)
  BY DEF CreateFails, wake_to_read, memVars, tallies, EventsKept, Owed
<1> QED BY <1>2, <1>3, EventsQuiet, AnswersQuiet DEF LogsGrow

(* After a crash nobody owes an answer, and no object has counted anything. *)
LEMMA CrashReport ==
    ASSUME ReportInv, Crash
    PROVE  TornUnreadable' /\ EventsNeverAhead' /\ AnswersCovered'
<1>1. TypeInv /\ TornUnreadable /\ "resume" \in EventType
  BY DEF ReportInv, EventType
<1>2. LogsGrow
  <2>1. CASE UNCHANGED logVars
    <3>1. ASSUME NEW x \in Sids PROVE LogsGrow
      BY <1>1, <2>1, WriteGrows
    <3>2. Sids = {} => LogsGrow
      BY DEF LogsGrow, TornUnreadable
    <3> QED BY <3>1, <3>2
  <2>2. ASSUME NEW t \in Threads, call[t].pc \in Emitting, TearLine(call[t].sid)
        PROVE  LogsGrow
    <3>1. call[t].sid \in Sids
      BY <1>1, <2>2 DEF TypeInv, Placed, Emitting
    <3> QED BY <1>1, <2>2, <3>1, WriteGrows
  <2> QED BY <2>1, <2>2 DEF Crash
<1>3. UNCHANGED answers /\ \A x \in Sids : Owed(x)' \subseteq Owed(x)
  BY DEF Crash, NoCall, Owed
<1>4. EventsNeverAhead'
  <2> SUFFICES ASSUME NEW x \in Sids, Readable(x)', NEW u \in Threads
               PROVE  obj'[x][u].events <= Len(log'[x])
    BY DEF EventsNeverAhead
  <2>1. Len(log'[x]) \in Nat
    BY <1>2 DEF LogsGrow
  <2>2. obj'[x][u].events = 0
    BY DEF Crash, Fresh
  <2> QED BY <2>1, <2>2
<1> QED BY <1>2, <1>3, <1>4, AnswersQuiet DEF LogsGrow

LEMMA InitReport == Init => ReportInv
<1> SUFFICES ASSUME Init PROVE ReportInv
  OBVIOUS
<1>1. TypeInv /\ TornUnreadable
  BY InitType DEF Init, TornUnreadable
<1>2. EventsNeverAhead
  BY DEF Init, EventsNeverAhead, Fresh
<1>3. AnswersCovered
  <2> SUFFICES ASSUME NEW x \in Sids PROVE answers[x] + Cardinality(Owed(x)) <= Count(x, Answered)
    BY DEF AnswersCovered
  <2>1. Owed(x) = {} /\ answers[x] = 0
    BY DEF Init, Owed, NoCall
  <2>2. Count(x, Answered) = 0
    BY OccurrencesEmpty DEF Init, Count
  <2> QED BY <2>1, <2>2, FS_EmptySet
<1> QED BY <1>1, <1>2, <1>3 DEF ReportInv

LEMMA ReportStep == ReportInv /\ [Next]_vars => ReportInv'
<1>1. ReportInv /\ [Next]_vars => TypeInv'
  BY TypeStep DEF ReportInv
<1>2. ReportInv /\ Next => TornUnreadable' /\ EventsNeverAhead' /\ AnswersCovered'
  BY BeginReport, ProceedReport, OutsideReport, CrashReport DEF Next
<1>3. ReportInv /\ UNCHANGED vars => TornUnreadable' /\ EventsNeverAhead' /\ AnswersCovered'
  BY DEF ReportInv, TornUnreadable, EventsNeverAhead, AnswersCovered, Readable, Count, Owed, vars
<1> QED BY <1>1, <1>2, <1>3 DEF ReportInv

(* No Session object, of however many a session has at once, has counted   *)
(* more events than a readable log holds (session.py:193-198).             *)
THEOREM EventsCounted == Spec => []EventsNeverAhead
<1>1. ReportInv => EventsNeverAhead
  BY DEF ReportInv
<1> QED BY <1>1, InitReport, ReportStep, PTL DEF Spec

(* Whatever was returned to a caller as the response of a command is on    *)
(* the log, as a response or as an error (sandbox.py:153-171).             *)
THEOREM AnswersReplayable == Spec => []AnswersOnLog
<1>1. ReportInv => AnswersOnLog
  <2> SUFFICES ASSUME ReportInv, NEW x \in Sids, Readable(x)
               PROVE  answers[x] <= Count(x, Outcomes \cup {"orphan"})
    BY DEF AnswersOnLog
  <2>1. answers[x] + Cardinality(Owed(x)) <= Count(x, Answered)
    BY DEF ReportInv, AnswersCovered
  <2>2. answers[x] \in Nat /\ Count(x, Answered) \in Nat /\ Cardinality(Owed(x)) \in Nat
    BY ReportTerms DEF ReportInv
  <2> QED BY <2>1, <2>2 DEF Answered
<1> QED BY <1>1, InitReport, ReportStep, PTL DEF Spec

-----------------------------------------------------------------------------
(***************************************************************************)
(* Once the session is closed no further command is logged                 *)
(* (ClosedUntilRestart), and every step is a step of Engagement or changes *)
(* nothing of it.  Both rest on SerialInv, which knows that a thread past  *)
(* the registration works on the registered object.  Engagement also needs *)
(* every log readable, which a torn write would end (the property          *)
(* AlwaysReadable is refuted by a run), so it is proved for whole writes.  *)
(***************************************************************************)

(* No log gains a command. *)
InputsKept == \A x \in Sids : Inputs(x)' = Inputs(x)

(* No write was ever cut. *)
Whole == \A x \in Sids : ~torn[x] /\ Readable(x)

(* The step of t that logs a command. *)
Logs(t) ==
    /\ call[t].pc = "input" /\ EmitOK(t, "input")
    /\ ~call[t].logged /\ call'[t].logged /\ call'[t].sid = call[t].sid

(* A step of t that logs no command: it may settle the one it holds. *)
Holds(t) ==
    /\ InputsKept
    /\ call'[t].logged => call[t].logged /\ call'[t].sid = call[t].sid

-----------------------------------------------------------------------------
(* A write of anything but a command, whole or torn, readable log or not. *)
LEMMA OtherLine ==
    ASSUME TypeInv, NEW s \in Sids, NEW e \in EventType, e # "input",
           AppendLine(s, e) \/ TearLine(s) \/ UNCHANGED logVars
    PROVE  InputsKept
<1> SUFFICES ASSUME NEW x \in Sids PROVE Inputs(x)' = Inputs(x)
  BY DEF InputsKept
<1>1. log[x] \in Seq(Lines) /\ e \in Lines /\ Garbled \in Lines /\ Garbled # "input"
  BY DEF TypeInv, TypeOK, LogTypeOK, Lines, Garbled
<1>2. \/ log'[x] = log[x] \/ log'[x] = Append(log[x], e) \/ log'[x] = Append(log[x], Garbled)
  BY DEF AppendLine, TearLine, logVars, TypeInv, TypeOK, LogTypeOK
<1>3. ASSUME NEW l \in Lines, l # "input", log'[x] = Append(log[x], l)
      PROVE  Inputs(x)' = Inputs(x)
  <2>1. /\ Occurrences(log[x], {"input"}) \in Nat
        /\ Occurrences(Append(log[x], l), {"input"}) = Occurrences(log[x], {"input"}) + 0
    BY <1>1, <1>3, OccurrencesAppend
  <2> QED BY <1>3, <2>1 DEF Inputs, Count
<1> QED BY <1>1, <1>2, <1>3 DEF Inputs, Count

LEMMA EmitKept ==
    ASSUME TypeInv, NEW t \in Threads, call[t].pc # "idle", NEW e \in EventType, e # "input",
           EmitOK(t, e) \/ EmitFails(t)
    PROVE  InputsKept
<1>1. call[t].sid \in Sids
  BY DEF TypeInv, Placed
<1>2. AppendLine(call[t].sid, e) \/ TearLine(call[t].sid) \/ UNCHANGED logVars
  BY DEF EmitOK, EmitFails, Fault
<1> QED BY <1>1, <1>2, OtherLine

LEMMA ProceedHolds ==
    ASSUME LossInv, NEW t \in Threads, Proceed(t)
    PROVE  /\ call[t].pc # "idle"
           /\ \A u \in Threads \ {t} : call'[u] = call[u]
           /\ Logs(t) \/ Holds(t)
<1> DEFINE s == call[t].sid
           Others == \A u \in Threads \ {t} : call'[u] = call[u]
           Shape == Others /\ (Logs(t) \/ Holds(t))
           Mark == call'[t].logged => call[t].logged /\ call'[t].sid = call[t].sid
<1>1. call[t].pc # "idle"
  BY DEF Proceed, At, Open, Resume, Register, Restore, Assign, CountCommand, CountFromZero,
         End, Flag, Input, BuildContext, RunStage, Stumble, Verify, Retry, Respond, Fail, Metric
<1>2. /\ TypeInv /\ Marked /\ s \in Sids /\ call[t] \in Call
      /\ call \in [Threads -> Call] /\ "end" \in EventType
  BY <1>1 DEF LossInv, TypeInv, TypeOK, Placed, EventType
<1>3. ASSUME NEW e \in EventType, e # "input", EmitOK(t, e) \/ EmitFails(t) PROVE InputsKept
  BY <1>1, <1>2, <1>3, EmitKept
<1>4. ASSUME UNCHANGED logVars PROVE InputsKept
  BY <1>4 DEF InputsKept, Inputs, Count, logVars
<1>5. ASSUME EmitFails(t) PROVE InputsKept
  BY <1>2, <1>3, <1>5
<1>7. ASSUME NEW p \in Pcs, Go(t, p) PROVE Others /\ Mark
  BY <1>2, <1>7 DEF Go, Call
<1>8. ASSUME Raise(t) \/ call' = [call EXCEPT ![t] = NoCall] PROVE Others /\ Mark
  BY <1>2, <1>8 DEF Raise, NoCall
<1>9. ASSUME NextStage(t) PROVE Others /\ Mark
  BY <1>2, <1>9 DEF NextStage, Call
<1>10. ASSUME Settle(t) PROVE Others /\ Mark
  BY <1>2, <1>10 DEF Settle, Call
<1>11. ASSUME InputsKept, Others, Mark PROVE Shape
  BY <1>11 DEF Holds
<1> HIDE DEF Others, Mark, Shape
<1>12. ASSUME Open(t) \/ Register(t) \/ Assign(t) \/ CountCommand(t) \/ CountFromZero(t) PROVE Shape
  BY <1>12, <1>4, <1>7, <1>11
     DEF Open, Register, Assign, CountCommand, CountFromZero, Gate, Pcs
<1>13. ASSUME Resume(t) \/ End(t) PROVE Shape
  BY <1>13, <1>3, <1>7, <1>8, <1>11 DEF Resume, End, Pcs, EventType
<1>15. ASSUME Restore(t) PROVE Shape
  <2>1. ASSUME call' = [call EXCEPT ![t].pc = "assign", ![t].val = Count(s, {"input"})]
        PROVE  Others /\ Mark
    BY <1>2, <2>1 DEF Call, Others, Mark
  <2> QED BY <1>15, <1>4, <1>7, <1>8, <1>11, <2>1 DEF Restore, Pcs
<1>20. ASSUME Flag(t) PROVE Shape
  BY <1>20, <1>4, <1>8, <1>11 DEF Flag
<1>21. ASSUME Input(t) PROVE Shape
  <2>1. call[t].pc = "input" /\ ~call[t].logged
    BY <1>2, <1>21 DEF Input, At, Marked, Running
  <2>2. ASSUME EmitOK(t, "input"), call' = [call EXCEPT ![t].pc = "context", ![t].logged = TRUE]
        PROVE  Shape
    BY <1>2, <2>1, <2>2 DEF Call, Logs, Shape, Others
  <2>3. ASSUME EmitFails(t), Go(t, "fail") PROVE Shape
    BY <1>5, <1>7, <1>11, <2>3 DEF Pcs
  <2> QED BY <1>21, <2>2, <2>3 DEF Input
<1>22. ASSUME BuildContext(t) PROVE Shape
  BY <1>22, <1>4, <1>7, <1>11 DEF BuildContext, Pcs
<1>23. ASSUME RunStage(t) PROVE Shape
  <2>1. Components[call[t].stage] \in {"classification", "cti", "generate"}
    BY <1>2, SandboxAssumption DEF Call, Stages
  <2>2. Components[call[t].stage] \in EventType \ {"input"}
    BY <2>1 DEF EventType
  <2> QED BY <1>23, <1>3, <1>4, <1>5, <1>7, <1>9, <1>11, <2>2 DEF RunStage, Pcs, logVars
<1>24. ASSUME Stumble(t) PROVE Shape
  BY <1>24, <1>3, <1>7, <1>9, <1>11 DEF Stumble, Pcs, EventType
<1>25. ASSUME Verify(t) PROVE Shape
  BY <1>25, <1>3, <1>4, <1>7, <1>11 DEF Verify, Pcs, EventType, logVars
<1>26. ASSUME Retry(t) PROVE Shape
  <2>1. ASSUME call' = [call EXCEPT ![t].tries = @ + 1] PROVE Others /\ Mark
    BY <1>2, <2>1 DEF Call, Others, Mark
  <2> QED BY <1>26, <1>3, <1>4, <1>7, <1>11, <2>1 DEF Retry, Pcs, EventType, logVars
<1>27. ASSUME Respond(t) PROVE Shape
  BY <1>27, <1>3, <1>7, <1>10, <1>11 DEF Respond, Pcs, EventType
<1>28. ASSUME Fail(t) PROVE Shape
  <2>1. Failure(t) \in EventType \ {"input"}
    BY DEF Failure, EventType
  <2> QED BY <1>28, <1>3, <1>8, <1>10, <1>11, <2>1 DEF Fail
<1>29. ASSUME Metric(t) PROVE Shape
  BY <1>29, <1>3, <1>8, <1>11 DEF Metric, EventType
<1> QED
  BY <1>1, <1>12, <1>13, <1>15, <1>20, <1>21, <1>22, <1>23,
     <1>24, <1>25, <1>26, <1>27, <1>28, <1>29 DEF Proceed, Shape, Others

LEMMA BeginHolds ==
    ASSUME LossInv, NEW t \in Threads, Begin(t)
    PROVE  /\ \A u \in Threads \ {t} : call'[u] = call[u]
           /\ Holds(t) /\ ~call[t].logged /\ UNCHANGED <<raised, cut>>
<1>1. PICK s \in Sids : \/ create_session(t, s) \/ handle_new(t, s)
                        \/ handle_command(t, s) \/ close_session(t, s)
  BY DEF Begin
<1>2. TypeInv /\ call[t].pc = "idle" /\ call \in [Threads -> Call]
  BY <1>1 DEF create_session, handle_new, handle_command, close_session, At, LossInv, TypeInv, TypeOK
<1>3. ~call[t].logged
  BY <1>2 DEF LossInv, Marked, Running
<1>4. (\A u \in Threads \ {t} : call'[u] = call[u]) /\ ~call'[t].logged
  <2>1. ASSUME call' = call PROVE ~call'[t].logged
    BY <1>3, <2>1
  <2>2. ASSUME NEW p, NEW o, call' = [call EXCEPT ![t] = [NoCall EXCEPT !.pc = p, !.sid = s, !.own = o]]
        PROVE  (\A u \in Threads \ {t} : call'[u] = call[u]) /\ ~call'[t].logged
    BY <1>2, <2>2 DEF NoCall
  <2> QED BY <1>1, <2>1, <2>2 DEF create_session, handle_new, handle_command, close_session
<1>5. AppendLine(s, "start") \/ UNCHANGED logVars
  BY <1>1 DEF create_session, handle_new, handle_command, close_session, Create
<1>6. InputsKept
  BY <1>2, <1>5, OtherLine DEF EventType
<1>7. UNCHANGED <<raised, cut>>
  BY <1>1 DEF create_session, handle_new, handle_command, close_session, tallies
<1> QED BY <1>3, <1>4, <1>6, <1>7 DEF Holds

LEMMA OutsideHolds ==
    ASSUME LossInv, NEW s \in Sids, CreateFails(s) \/ wake_to_read(s)
    PROVE  InputsKept /\ UNCHANGED <<call, raised, cut>>
<1>1. AppendLine(s, "resume") \/ TearLine(s) \/ UNCHANGED logVars
  BY DEF CreateFails, Fault, wake_to_read
<1>2. InputsKept
  BY <1>1, OtherLine DEF EventType, LossInv
<1> QED BY <1>2 DEF CreateFails, wake_to_read, memVars, tallies

LEMMA CrashHolds ==
    ASSUME LossInv, Crash
    PROVE  InputsKept
<1>1. CASE UNCHANGED logVars
  BY <1>1 DEF InputsKept, Inputs, Count, logVars
<1>2. ASSUME NEW t \in Threads, call[t].pc \in Emitting, TearLine(call[t].sid)
      PROVE  InputsKept
  <2>1. TypeInv /\ call[t].sid \in Sids /\ "resume" \in EventType
    BY <1>2 DEF LossInv, TypeInv, Placed, Emitting, EventType
  <2> QED BY <1>2, <2>1, OtherLine
<1> QED BY <1>1, <1>2 DEF Crash

-----------------------------------------------------------------------------
LEMMA ClosedStep ==
    ASSUME SerialInv, Next,
           NEW s \in Sids, reg[s] # None, obj[s][reg[s]].closed
    PROVE  Inputs(s)' = Inputs(s)
<1>1. LossInv /\ TypeInv
  BY DEF SerialInv, LossInv
<1>2. ASSUME NEW t \in Threads, Proceed(t) PROVE Inputs(s)' = Inputs(s)
  <2>1. call[t].pc # "idle" /\ (Logs(t) \/ Holds(t))
    BY <1>1, <1>2, ProceedHolds
  <2>2. CASE Logs(t)
    <3>1. reg[call[t].sid] = call[t].own
      BY <2>2 DEF SerialInv, Position, Logs, Early
    <3>2. call[t].sid # s
      BY <2>2, <3>1 DEF Logs, EmitOK
    <3>3. log'[s] = log[s]
      BY <1>1, <2>2, <3>2 DEF Logs, EmitOK, AppendLine, TypeInv, TypeOK, LogTypeOK
    <3> QED BY <3>3 DEF Inputs, Count
  <2> QED BY <2>1, <2>2 DEF Holds, InputsKept
<1> QED BY <1>1, <1>2, BeginHolds, OutsideHolds, CrashHolds DEF Next, Holds, InputsKept

(* A registered session that is closed logs no further command while the   *)
(* process lives, if its commands come one after the other: a thread that  *)
(* is about to log one works on the registered object (session.py:183-184).*)
THEOREM ClosedStaysShut ==
    ASSUME ~Concurrent
    PROVE  Spec => ClosedUntilRestart
<1> DEFINE Shut == \A s \in Sids : reg[s] # None /\ obj[s][reg[s]].closed => Inputs(s)' = Inputs(s)
<1>1. SerialInv /\ [Next]_vars => [Shut]_vars
  BY ClosedStep
<1>2. Spec => [][Shut]_vars
  BY <1>1, InitSerial, SerialStep, PTL DEF Spec
<1> QED BY <1>2 DEF ClosedUntilRestart

-----------------------------------------------------------------------------
(* The implementation of Engagement.                                       *)
LEMMA WholeLine ==
    ASSUME TypeInv, Whole, NEW s \in Sids, NEW e \in EventType,
           AppendLine(s, e) \/ UNCHANGED logVars
    PROVE  Whole'
<1> SUFFICES ASSUME NEW x \in Sids PROVE ~torn'[x] /\ Readable(x)'
  BY DEF Whole
<1>1. log[x] \in Seq(Lines) /\ e \in Lines /\ e # Garbled /\ ~torn[x] /\ Readable(x)
  BY DEF TypeInv, TypeOK, LogTypeOK, Lines, Whole, EventType, Garbled
<1>2. ~torn'[x] /\ (log'[x] = log[x] \/ log'[x] = Append(log[x], e))
  BY <1>1 DEF AppendLine, logVars, TypeInv, TypeOK, LogTypeOK
<1>3. ASSUME log'[x] = Append(log[x], e) PROVE Readable(x)'
  <2>1. \A i \in DOMAIN log'[x] : log'[x][i] = e \/ (i \in DOMAIN log[x] /\ log'[x][i] = log[x][i])
    BY <1>1, <1>3
  <2> QED BY <1>1, <2>1 DEF Readable
<1> QED BY <1>1, <1>2, <1>3 DEF Readable

LEMMA WholeStep ==
    ASSUME ~Tearing, TypeInv, Whole, Next
    PROVE  Whole'
<1>1. "start" \in EventType /\ "resume" \in EventType /\ TornUnreadable
  BY DEF EventType, Whole, TornUnreadable
<1>2. ASSUME UNCHANGED logVars PROVE Whole'
  BY <1>2 DEF Whole, Readable, logVars
<1>3. ASSUME NEW t \in Threads, Proceed(t) PROVE Whole'
  <2>1. call[t].sid \in Sids /\ Writing(t)
    BY <1>3, ProceedShape DEF TypeInv, Placed
  <2>2. ASSUME NEW e \in EventType, EmitOK(t, e) PROVE Whole'
    BY <2>1, <2>2, WholeLine DEF EmitOK
  <2> QED BY <1>2, <2>1, <2>2 DEF Writing
<1>4. ASSUME NEW t \in Threads, Begin(t) PROVE Whole'
  <2>1. PICK s \in Sids : AppendLine(s, "start") \/ UNCHANGED logVars
    BY <1>4 DEF Begin, create_session, handle_new, handle_command, close_session, Create
  <2> QED BY <1>1, <2>1, WholeLine
<1>5. ASSUME NEW s \in Sids, CreateFails(s) \/ wake_to_read(s) PROVE Whole'
  BY <1>1, <1>2, <1>5, WholeLine DEF CreateFails, Fault, wake_to_read
<1>6. ASSUME Crash PROVE Whole'
  BY <1>2, <1>6 DEF Crash
<1> QED BY <1>3, <1>4, <1>5, <1>6 DEF Next

(* Every command on a whole log is settled or pending. *)
LEMMA Balance ==
    ASSUME LossInv, Whole, NEW x \in Sids
    PROVE  /\ Inputs(x) \in Nat /\ Settled(x) \in Nat /\ Cardinality(Pending(x)) \in Nat
           /\ Inputs(x) = Settled(x) + Cardinality(Pending(x))
<1>1. /\ Inputs(x) \in Nat /\ Count(x, Outcomes) \in Nat
      /\ raised[x] \in Nat /\ cut[x] \in Nat /\ Cardinality(Pending(x)) \in Nat
  BY Terms DEF LossInv
<1> QED BY <1>1 DEF LossInv, NothingLost, Whole, Settled

LEMMA BalanceNext ==
    ASSUME LossInv', Whole', NEW x \in Sids
    PROVE  /\ Inputs(x)' \in Nat /\ Settled(x)' \in Nat /\ Cardinality(Pending(x)') \in Nat
           /\ Inputs(x)' = Settled(x)' + Cardinality(Pending(x)')
<1>1. Count(x, Outcomes)' \in Nat /\ Inputs(x)' \in Nat
  <2>1. log'[x] \in Seq(Lines) /\ Garbled \in Lines
    BY DEF LossInv, TypeInv, TypeOK, LogTypeOK, Lines
  <2> QED BY <2>1, OccurrencesAppend DEF Count, Inputs
<1>2. Cardinality(Pending(x)') \in Nat
  <2>1. Pending(x)' \in SUBSET Threads
    BY DEF Pending
  <2> QED BY <2>1, SandboxAssumption, FS_Subset, FS_CardinalityType
<1>3. raised'[x] \in Nat /\ cut'[x] \in Nat
  BY DEF LossInv, TypeInv, TypeOK
<1> QED BY <1>1, <1>2, <1>3 DEF LossInv, NothingLost, Whole, Settled

(* A step of a thread that logs no command settles at most one. *)
LEMMA HoldsSettles ==
    ASSUME LossInv, LossInv', Whole, Whole', NEW t \in Threads, Holds(t),
           \A u \in Threads \ {t} : call'[u] = call[u]
    PROVE  [E!Next]_(E!vars)
<1>1. \A x \in Sids : Inputs(x)' = Inputs(x)
  BY DEF Holds, InputsKept
<1>2. ASSUME NEW x \in Sids
      PROVE  /\ Inputs(x) \in Nat /\ Settled(x) \in Nat /\ Settled(x)' \in Nat
             /\ Inputs(x) = Settled(x) + Cardinality(Pending(x))
             /\ Inputs(x) = Settled(x)' + Cardinality(Pending(x)')
             /\ Cardinality(Pending(x)) \in Nat /\ Cardinality(Pending(x)') \in Nat
  BY <1>1, Balance, BalanceNext
<1>3. CASE call[t].logged /\ ~call'[t].logged /\ call[t].sid \in Sids
  <2>0. PICK s \in Sids : s = call[t].sid
    BY <1>3
  <2>1. \A x \in Sids : Pending(x)' = IF x = s THEN Pending(x) \ {t} ELSE Pending(x)
    BY <1>3, <2>0 DEF Pending
  <2>2. Cardinality(Pending(s) \ {t}) = Cardinality(Pending(s)) - 1
    <3>1. t \in Pending(s)
      BY <1>3, <2>0 DEF Pending
    <3> QED BY <3>1, PendingFinite, FS_RemoveElement
  <2>3. \A x \in Sids : Settled(x)' = Settled(x) + (IF x = s THEN 1 ELSE 0)
    <3> TAKE x \in Sids
    <3>1. Cardinality(Pending(x)') = Cardinality(Pending(x)) - (IF x = s THEN 1 ELSE 0)
      <4>1. CASE x = s
        BY <1>2, <2>1, <2>2, <4>1
      <4>2. CASE x # s
        BY <1>2, <2>1, <4>2
      <4> QED BY <4>1, <4>2
    <3> QED BY <1>2, <3>1
  <2>4. Settled(s)' <= Inputs(s)
    BY <1>2
  <2>5. Settled(s) < Inputs(s)
    BY <1>2, <2>3, <2>4
  <2>6. E!Settle(s)
    <3>1. [x \in Sids |-> Inputs(x)]' = [x \in Sids |-> Inputs(x)]
      BY <1>1
    <3>2. [x \in Sids |-> Settled(x)]' = [[x \in Sids |-> Settled(x)] EXCEPT ![s] = @ + 1]
      <4>1. \A x \in Sids : Settled(x)' = IF x = s THEN Settled(x) + 1 ELSE Settled(x)
        BY <1>2, <2>3
      <4> QED BY <4>1
    <3> QED BY <2>5, <3>1, <3>2 DEF E!Settle
  <2> QED BY <2>6 DEF E!Next
<1>4. CASE ~(call[t].logged /\ ~call'[t].logged /\ call[t].sid \in Sids)
  <2>1. \A x \in Sids : Pending(x)' = Pending(x)
    BY <1>4 DEF Pending, Holds
  <2>2. \A x \in Sids : Settled(x)' = Settled(x)
    BY <1>2, <2>1
  <2> QED BY <1>1, <2>2 DEF E!vars
<1> QED BY <1>3, <1>4

(* The command a thread logs was within the limit. *)
LEMMA LogsAccepts ==
    ASSUME SerialInv, LossInv', Whole, Whole', LimitHolds', NEW t \in Threads, Logs(t),
           \A u \in Threads \ {t} : call'[u] = call[u]
    PROVE  E!Next
<1>0. PICK s \in Sids : s = call[t].sid
  BY DEF SerialInv, LossInv, TypeInv, Placed, Logs
<1>1. LossInv /\ TypeInv /\ TornUnreadable /\ s \in Sids
  BY DEF SerialInv, LossInv, TypeInv, Placed, Logs
<1>2. \A x \in Sids : Inputs(x)' = Inputs(x) + (IF x = s THEN 1 ELSE 0)
  BY <1>0, <1>1, LineEffect DEF Logs, EmitOK, EventType, Whole, Inputs
<1>3. ASSUME NEW x \in Sids
      PROVE  /\ Inputs(x) \in Nat /\ Settled(x) \in Nat /\ Settled(x)' \in Nat
             /\ Inputs(x) = Settled(x) + Cardinality(Pending(x))
             /\ Inputs(x)' = Settled(x)' + Cardinality(Pending(x)')
             /\ Cardinality(Pending(x)) \in Nat /\ Cardinality(Pending(x)') \in Nat
  BY <1>1, Balance, BalanceNext
<1>4. \A x \in Sids : Settled(x)' = Settled(x)
  <2> TAKE x \in Sids
  <2>1. Pending(x)' = (IF x = s THEN Pending(x) \cup {t} ELSE Pending(x)) /\ t \notin Pending(x)
    BY <1>0 DEF Pending, Logs
  <2>2. Cardinality(Pending(x) \cup {t}) = Cardinality(Pending(x)) + 1
    BY <2>1, PendingFinite, FS_AddElement
  <2>3. Cardinality(Pending(x)') = Cardinality(Pending(x)) + (IF x = s THEN 1 ELSE 0)
    BY <1>3, <2>1, <2>2
  <2> QED BY <1>2, <1>3, <2>3
<1>5. Inputs(s)' <= MaxCommands
  BY <1>1 DEF LimitHolds, Whole
<1>6. Inputs(s) < MaxCommands
  BY <1>1, <1>2, <1>3, <1>5, SandboxAssumption
<1>7. E!Accept(s)
  <2>1. [x \in Sids |-> Settled(x)]' = [x \in Sids |-> Settled(x)]
    BY <1>4
  <2>2. [x \in Sids |-> Inputs(x)]' = [[x \in Sids |-> Inputs(x)] EXCEPT ![s] = @ + 1]
    <3>1. \A x \in Sids : Inputs(x)' = IF x = s THEN Inputs(x) + 1 ELSE Inputs(x)
      BY <1>2, <1>3
    <3> QED BY <3>1
  <2> QED BY <1>1, <1>6, <2>1, <2>2 DEF E!Accept
<1> QED BY <1>1, <1>7 DEF E!Next

(* A crash settles whatever is pending, in every session at once. *)
LEMMA CrashAbandons ==
    ASSUME LossInv, LossInv', Whole, Whole', Crash
    PROVE  [E!Next]_(E!vars)
<1>1. \A x \in Sids : Inputs(x)' = Inputs(x)
  BY CrashHolds DEF InputsKept
<1>2. \A x \in Sids : Settled(x)' = Inputs(x)
  <2> TAKE x \in Sids
  <2>1. Pending(x)' = {}
    BY DEF Crash, Pending, NoCall
  <2>2. Inputs(x)' = Settled(x)' + Cardinality(Pending(x)') /\ Settled(x)' \in Nat
    BY BalanceNext
  <2>3. Cardinality(Pending(x)') = 0
    BY <2>1, FS_EmptySet
  <2> QED BY <1>1, <2>2, <2>3
<1>3. CASE \A x \in Sids : Settled(x) = Inputs(x)
  BY <1>1, <1>2, <1>3 DEF E!vars
<1>4. CASE \E x \in Sids : Settled(x) # Inputs(x)
  <2>1. [x \in Sids |-> Settled(x)] # [x \in Sids |-> Inputs(x)]
    BY <1>4
  <2> QED BY <1>1, <1>2, <2>1 DEF E!Next, E!Abandon
<1> QED BY <1>3, <1>4

LEMMA EngageStep ==
    ASSUME SerialInv, SerialInv', Whole, Whole', [Next]_vars
    PROVE  [E!Next]_(E!vars)
<1>1. LossInv /\ LossInv' /\ TypeInv /\ LimitHolds'
  BY DEF SerialInv, LossInv, Ledger, LimitHolds
<1>2. ASSUME NEW t \in Threads, Proceed(t) PROVE [E!Next]_(E!vars)
  <2>1. (\A u \in Threads \ {t} : call'[u] = call[u]) /\ (Logs(t) \/ Holds(t))
    BY <1>1, <1>2, ProceedHolds
  <2> QED BY <1>1, <2>1, LogsAccepts, HoldsSettles
<1>3. ASSUME NEW t \in Threads, Begin(t) PROVE [E!Next]_(E!vars)
  <2>1. (\A u \in Threads \ {t} : call'[u] = call[u]) /\ Holds(t)
    BY <1>1, <1>3, BeginHolds
  <2> QED BY <1>1, <2>1, HoldsSettles
<1>4. ASSUME InputsKept, UNCHANGED call PROVE [E!Next]_(E!vars)
  <2>1. ASSUME NEW x \in Sids PROVE Inputs(x)' = Inputs(x) /\ Settled(x)' = Settled(x)
    <3>1. Pending(x)' = Pending(x) /\ Inputs(x)' = Inputs(x)
      BY <1>4 DEF Pending, InputsKept
    <3>2. /\ Inputs(x) = Settled(x) + Cardinality(Pending(x))
          /\ Inputs(x)' = Settled(x)' + Cardinality(Pending(x)')
          /\ Settled(x) \in Nat /\ Settled(x)' \in Nat /\ Cardinality(Pending(x)) \in Nat
      BY <1>1, Balance, BalanceNext
    <3> QED BY <3>1, <3>2
  <2> QED BY <2>1 DEF E!vars
<1>5. ASSUME NEW s \in Sids, CreateFails(s) \/ wake_to_read(s) PROVE [E!Next]_(E!vars)
  BY <1>1, <1>4, <1>5, OutsideHolds
<1>6. ASSUME Crash PROVE [E!Next]_(E!vars)
  BY <1>1, <1>6, CrashAbandons
<1>7. CASE UNCHANGED vars
  BY <1>4, <1>7 DEF vars, InputsKept, Inputs, Count
<1> QED BY <1>2, <1>3, <1>5, <1>6, <1>7 DEF Next

(* The safety half of KeepsEngagement: as long as a session's commands     *)
(* come one after the other and writes are whole, the sandbox accepts at   *)
(* most max_commands commands of a session and settles each of them once.  *)
THEOREM EngagementImplemented ==
    ASSUME ~Concurrent, ~Tearing
    PROVE  Spec => E!Init /\ [][E!Next]_(E!vars)
<1>1. Init => E!Init
  <2> SUFFICES ASSUME Init, NEW x \in Sids PROVE Inputs(x) = 0 /\ Settled(x) = 0
    BY DEF E!Init
  <2>1. Inputs(x) = 0 /\ Count(x, Outcomes) = 0
    BY OccurrencesEmpty DEF Init, Inputs, Count
  <2> QED BY <2>1 DEF Init, Settled
<1>2. Init => Whole
  BY DEF Init, Whole, Readable
<1>3. SerialInv /\ Whole /\ [Next]_vars => Whole'
  <2>1. Whole /\ UNCHANGED vars => Whole'
    BY DEF Whole, Readable, vars
  <2> QED BY <2>1, WholeStep DEF SerialInv, LossInv
<1>4. Spec => [](SerialInv /\ Whole)
  BY <1>2, <1>3, InitSerial, SerialStep, PTL DEF Spec
<1>5. SerialInv /\ Whole /\ SerialInv' /\ Whole' /\ [Next]_vars => [E!Next]_(E!vars)
  BY EngageStep
<1> QED BY <1>1, <1>4, <1>5, PTL DEF Spec
=============================================================================
