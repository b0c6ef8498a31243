-------------------------- MODULE ComponentProofs ---------------------------
(***************************************************************************)
(* The inductive invariants of Components, each over the state of its own  *)
(* component: XInv holds at X!Init (XStarts) and is kept by a step or a    *)
(* stutter of X (XKept).  ServiceProofs lifts them to the specification    *)
(* that runs all the components.                                           *)
(***************************************************************************)
EXTENDS Components, FoldProofs, SequenceTheorems

-----------------------------------------------------------------------------
(* The breaker of utils.py:52-104: its last failure is never in the         *)
(* future, so that time can only cool it down.                              *)
GuardInv ==
    /\ clock \in Nat
    /\ breaker \in [state : {"closed", "open", "half_open"}, fails : Nat, last : Nat]
    /\ breaker.last <= clock
    /\ Guard!BlocksAfterFailures

(* The breaker's invariant, at the start and over a step of Guards.         *)
LEMMA GuardStarts == Guard!Init => GuardInv
BY ComponentAssumptions DEF Guard!Init, GuardInv, Guard!BlocksAfterFailures, Guard!GuardsAssumption

LEMMA GuardKept == GuardInv /\ [Guard!Next]_(Guard!vars) => GuardInv'
<1> SUFFICES ASSUME GuardInv, [Guard!Next]_(Guard!vars)
             PROVE  GuardInv'
  OBVIOUS
<1> USE DEF GuardInv, Guard!BlocksAfterFailures, Guard!Cooled
<1>0. Threshold \in Nat /\ Timeout \in Nat /\ Timeout > 0 /\ Threshold > 0
  BY ComponentAssumptions DEF Guard!GuardsAssumption
<1>1. CASE Guard!Tick
  BY <1>0, <1>1 DEF Guard!Tick
<1>2. ASSUME NEW t \in Threads, Guard!Fails(t)
      PROVE  GuardInv'
  BY <1>0, <1>2 DEF Guard!Fails
<1>3. ASSUME NEW t \in Threads, Guard!Success(t)
      PROVE  GuardInv'
  <2>1. breaker'.fails = 0 /\ breaker'.last = breaker.last /\ breaker'.state = "closed" /\ clock' = clock
    BY <1>3 DEF Guard!Success
  <2>2. breaker' \in [state : {"closed", "open", "half_open"}, fails : Nat, last : Nat]
    BY <1>3 DEF Guard!Success
  <2> QED BY <1>0, <2>1, <2>2
<1>4. ASSUME NEW t \in Threads, Guard!Allow(t)
      PROVE  GuardInv'
  BY <1>0, <1>4 DEF Guard!Allow
<1>5. ASSUME UNCHANGED <<clock, breaker>>
      PROVE  GuardInv'
  BY <1>0, <1>5
<1>6. ASSUME NEW t \in Threads,
             Guard!Begin(t) \/ Guard!Resets(t) \/ Guard!Check(t) \/ Guard!Succeeds(t) \/ Guard!Record(t)
      PROVE  GuardInv'
  BY <1>5, <1>6 DEF Guard!Begin, Guard!Resets, Guard!Reset, Guard!Check, Guard!Succeeds, Guard!Record
<1> QED BY <1>1, <1>2, <1>3, <1>4, <1>5, <1>6 DEF Guard!Next, Guard!vars

-----------------------------------------------------------------------------
(* The positions of what was answered are pairs of numbers.                 *)
Answered ==
    \A f \in Threads : fetching[f] # <<>> =>
        /\ DOMAIN fetching[f][2] \subseteq Int
        /\ \A c \in DOMAIN fetching[f][2] : DOMAIN fetching[f][2][c] \subseteq Int

(* Of the items with an id, as many were handed out as the id is in         *)
(* _seen_ids: one or none (cti_feeds.py:543-583).                           *)
FeedInv ==
    /\ DOMAIN fetching = Threads
    /\ Answered
    /\ handed \in [Feed!Ids -> Int]
    /\ Feed!FedOnce

(* The invariant of the feeds, at the start.                                *)
LEMMA FeedStarts == Feed!Init => FeedInv
BY DEF Feed!Init, FeedInv, Answered, Feed!FedOnce

(* What a connector answers is a sequence, or a part of one.                *)
LEMMA FetchedDomain ==
    ASSUME NEW c, NEW since, NEW limit
    PROVE  DOMAIN Feed!Fetched(c, since, limit) \subseteq Int
<1>1. \A s, n : DOMAIN Feed!FirstN(s, n) \subseteq Int /\ DOMAIN Feed!LastN(s, n) \subseteq Int
  BY DEF Feed!FirstN, Feed!LastN
<1>2. \A s : DOMAIN s \subseteq Int => DOMAIN Feed!Parsable(s) \subseteq Int
  BY DEF Feed!Parsable
<1> QED BY <1>1, <1>2 DEF Feed!Fetched

(* The instance's Cardinality is the one the library has its theorems for.  *)
LEMMA FeedCardinality == ASSUME NEW S PROVE Feed!Cardinality(S) = Cardinality(S)
  BY DEF Feed!Cardinality, Cardinality

(* Of the new items no two have the same id.                                *)
LEMMA NewAreDistinct ==
    ASSUME NEW given, DOMAIN given \subseteq Int,
           \A c \in DOMAIN given : DOMAIN given[c] \subseteq Int,
           NEW p \in Feed!NewItems(given), NEW q \in Feed!NewItems(given),
           Feed!IdAt(given, p) = Feed!IdAt(given, q)
    PROVE  p = q
<1>1. ~Feed!Earlier(p, q) /\ ~Feed!Earlier(q, p)
  BY DEF Feed!NewItems
<1>2. /\ p = <<p[1], p[2]>> /\ q = <<q[1], q[2]>>
      /\ {p[1], p[2], q[1], q[2]} \subseteq Int
  BY DEF Feed!NewItems, Feed!Positions
<1>3. p[1] = q[1] /\ p[2] = q[2]
  BY <1>1, <1>2 DEF Feed!Earlier
<1> QED BY <1>2, <1>3

(* A step of the feeds keeps their invariant: fetch_all adds each new id    *)
(* once.                                                                    *)
LEMMA FeedKept == FeedInv /\ [Feed!Next]_(Feed!feedVars) => FeedInv'
<1> SUFFICES ASSUME FeedInv, [Feed!Next]_(Feed!feedVars)
             PROVE  FeedInv'
  OBVIOUS
<1>1. ASSUME NEW f \in Threads, Feed!FetchAll(f)
      PROVE  FeedInv'
  BY <1>1 DEF Feed!FetchAll, FeedInv, Answered, Feed!FedOnce
<1>2. ASSUME NEW f \in Threads, NEW c \in DOMAIN Connectors, Feed!Answers(f, c)
      PROVE  FeedInv'
  <2>1. c \in Int
    BY ComponentAssumptions DEF Feed!FeedsAssumption
  <2>2. PICK items \in {Feed!Fetched(c, fetching[f][1], 50), <<>>} :
          fetching' = [fetching EXCEPT ![f] = <<fetching[f][1],
              [d \in DOMAIN fetching[f][2] \cup {c} |-> IF d = c THEN items ELSE fetching[f][2][d]]>>]
    BY <1>2 DEF Feed!Answers
  <2>3. DOMAIN items \subseteq Int
    BY <2>2, FetchedDomain
  <2> DEFINE a == [d \in DOMAIN fetching[f][2] \cup {c} |-> IF d = c THEN items ELSE fetching[f][2][d]]
  <2>4. /\ DOMAIN a = {c} \cup DOMAIN fetching[f][2]
        /\ \A d \in DOMAIN a : a[d] = IF d = c THEN items ELSE fetching[f][2][d]
    OBVIOUS
  <2>5. fetching[f] # <<>>
    BY <1>2 DEF Feed!Answers
  <2> HIDE DEF a
  <2>6. DOMAIN a \subseteq Int /\ \A d \in DOMAIN a : DOMAIN a[d] \subseteq Int
    BY <2>1, <2>3, <2>4, <2>5 DEF FeedInv, Answered
  <2>7. fetching' = [fetching EXCEPT ![f] = <<fetching[f][1], a>>]
    BY <2>2 DEF a
  <2>8. Answered' /\ DOMAIN fetching' = Threads
    BY <2>6, <2>7 DEF FeedInv, Answered
  <2> QED BY <1>2, <2>8 DEF Feed!Answers, FeedInv, Feed!FedOnce
<1>3. ASSUME NEW f \in Threads, Feed!Return(f)
      PROVE  FeedInv'
  <2> DEFINE given == fetching[f][2]
             fresh == Feed!NewItems(given)
             of(id) == {p \in fresh : Feed!IdAt(given, p) = id}
  <2>1. DOMAIN given \subseteq Int /\ \A c \in DOMAIN given : DOMAIN given[c] \subseteq Int
    BY <1>3 DEF Feed!Return, FeedInv, Answered
  <2>2. /\ seenIds' = seenIds \cup {Feed!IdAt(given, p) : p \in fresh}
        /\ handed' = [id \in Feed!Ids |-> handed[id] + Cardinality(of(id))]
        /\ fetching' = [fetching EXCEPT ![f] = <<>>]
    <3>1. /\ seenIds' = seenIds \cup {Feed!IdAt(given, p) : p \in fresh}
          /\ handed' = [id \in Feed!Ids |-> handed[id] + Feed!Cardinality(of(id))]
          /\ fetching' = [fetching EXCEPT ![f] = <<>>]
      BY <1>3 DEF Feed!Return
    <3>2. \A id : Feed!Cardinality(of(id)) = Cardinality(of(id))
      BY FeedCardinality
    <3> HIDE DEF of, fresh, given
    <3> QED BY <3>1, <3>2
  <2>3. ASSUME NEW id \in Feed!Ids
        PROVE  handed'[id] \in Int /\ handed'[id] = IF id \in seenIds' THEN 1 ELSE 0
    <3>1. handed[id] = IF id \in seenIds THEN 1 ELSE 0
      BY DEF FeedInv, Feed!FedOnce
    <3>2. CASE of(id) = {}
      <4>1. Cardinality(of(id)) = 0
        BY <3>2, FS_EmptySet
      <4>2. id \in seenIds' <=> id \in seenIds
        BY <2>2, <3>2
      <4> HIDE DEF of, fresh, given
      <4> QED BY <2>2, <3>1, <4>1, <4>2
    <3>3. CASE of(id) # {}
      <4>1. PICK p \in fresh : Feed!IdAt(given, p) = id
        BY <3>3
      <4>2. of(id) = {p}
        BY <2>1, <4>1, NewAreDistinct
      <4>3. Cardinality(of(id)) = 1
        BY <4>2, FS_Singleton
      <4>4. id \in seenIds' /\ id \notin seenIds
        BY <2>2, <4>1 DEF Feed!NewItems
      <4> HIDE DEF of, fresh, given
      <4> QED BY <2>2, <3>1, <4>3, <4>4
    <3> QED BY <3>2, <3>3
  <2>4. Answered' /\ DOMAIN fetching' = Threads
    BY <2>2 DEF FeedInv, Answered
  <2>5. handed' \in [Feed!Ids -> Int]
    BY <2>2, <2>3
  <2> QED BY <2>3, <2>4, <2>5 DEF FeedInv, Feed!FedOnce
<1>4. CASE Feed!ClearDedupCache
  BY <1>4 DEF Feed!ClearDedupCache, FeedInv, Answered, Feed!FedOnce
<1>5. CASE UNCHANGED Feed!feedVars
  BY <1>5 DEF Feed!feedVars, FeedInv, Answered, Feed!FedOnce
<1> QED BY <1>1, <1>2, <1>3, <1>4, <1>5 DEF Feed!Next

-----------------------------------------------------------------------------
(* A model and a scaler that no training is replacing are of one training,  *)
(* or one of them was not fitted; during a training each is of it from its  *)
(* fit on; and a call that no training overlapped holds the model's scaler. *)
ModelType ==
    /\ mem \in [scaler : Int, model : Int, loaded : BOOLEAN]
    /\ files \in [model : Int, scaler : Int]
    /\ trainer \in 0..9 /\ halved \in BOOLEAN
    /\ count \in [trainings : Int, calls : Int, falls : Int]
    /\ reader \in [Reader -> [pc : {"idle", "predict"}, scaler : Int, trained : BOOLEAN]]
    /\ result \in [scaler : Int, model : Int, excused : BOOLEAN]

Paired ==
    /\ trainer > 2 => mem.scaler = count.trainings
    /\ trainer > 4 => mem.model = count.trainings
    /\ trainer = 0 /\ ~halved /\ mem.scaler > 0 /\ mem.model > 0 => mem.scaler = mem.model

HeldScaler(r) ==
    reader[r].pc = "predict" /\ ~reader[r].trained /\ ~halved =>
        trainer = 0 /\ (mem.model > 0 => reader[r].scaler = mem.model)

ModelInv == ModelType /\ Paired /\ (\A r \in Reader : HeldScaler(r)) /\ Model!ScaledAsTrained

(* The invariant of the classifier, at the start.                           *)
LEMMA ModelStarts == Model!Init => ModelInv
<1> SUFFICES ASSUME Model!Init PROVE ModelInv
  OBVIOUS
<1>1. ModelType
  <2>1. /\ mem \in [scaler : Int, model : Int, loaded : BOOLEAN]
        /\ files \in [model : Int, scaler : Int]
    BY DEF Model!Init, Model!Down, Model!None
  <2>2. reader \in [Reader -> [pc : {"idle", "predict"}, scaler : Int, trained : BOOLEAN]]
    BY DEF Model!Init, Model!Idle, Model!None
  <2>3. count \in [trainings : Int, calls : Int, falls : Int]
    BY DEF Model!Init
  <2>4. result \in [scaler : Int, model : Int, excused : BOOLEAN]
    BY DEF Model!Init, Model!None
  <2>5. trainer = 0 /\ trainer \in 0..9
    BY DEF Model!Init
  <2>6. halved \in BOOLEAN
    BY Zenon DEF Model!Init
  <2> QED BY <2>1, <2>2, <2>3, <2>4, <2>5, <2>6 DEF ModelType
<1>2. Paired
  BY DEF Model!Init, Model!Down, Model!None, Paired
<1>3. (\A r \in Reader : HeldScaler(r)) /\ Model!ScaledAsTrained
  BY DEF Model!Init, Model!Idle, HeldScaler, Model!ScaledAsTrained
<1> QED BY <1>1, <1>2, <1>3 DEF ModelInv

(* What the nine steps of a training do to the model and the scaler.        *)
LEMMA TrainingSteps ==
    /\ Len(Model!Steps) = 9
    /\ Model!Steps[1] = "scaler" /\ Model!Steps[2] = "fit_scaler" /\ Model!Steps[3] = "model"
    /\ Model!Steps[4] = "fit_model" /\ Model!Steps[5] = "truncate_model" /\ Model!Steps[6] = "dump_model"
    /\ Model!Steps[7] = "truncate_scaler" /\ Model!Steps[8] = "dump_scaler" /\ Model!Steps[9] = "loaded"
BY DEF Model!Steps

(* A step of the classifier keeps its invariant: training, a load, a        *)
(* crash, and the two halves of a classification.                           *)
LEMMA ModelKept == ModelInv /\ [Model!Next]_(Model!vars) => ModelInv'
<1> SUFFICES ASSUME ModelInv, [Model!Next]_(Model!vars)
             PROVE  ModelInv'
  OBVIOUS
<1> USE DEF ModelInv, ModelType, Paired, HeldScaler, Model!ScaledAsTrained,
            Model!Training, Model!Now, Model!Usable, Model!Step
<1>1. CASE Model!TrainBegins
  <2>1. count' \in [trainings : Int, calls : Int, falls : Int]
    BY <1>1 DEF Model!TrainBegins
  <2>2. reader' \in [Reader -> [pc : {"idle", "predict"}, scaler : Int, trained : BOOLEAN]]
    BY <1>1 DEF Model!TrainBegins
  <2>3. /\ trainer = 0 /\ trainer' = 1 /\ UNCHANGED <<mem, files, result, halved>>
        /\ \A r \in Reader : reader'[r].pc = "idle" \/ reader'[r].trained
    BY <1>1 DEF Model!TrainBegins
  <2> QED BY <2>1, <2>2, <2>3
<1>2. CASE Model!TrainStep
  <2>1. /\ trainer \in 1..9
        /\ trainer' = IF trainer = 9 THEN 0 ELSE trainer + 1
        /\ UNCHANGED <<reader, result, halved, count>>
    BY <1>2, TrainingSteps DEF Model!TrainStep, Model!Goes
  <2>2. /\ mem'.scaler = IF trainer = 1 THEN 0 ELSE IF trainer = 2 THEN count.trainings ELSE mem.scaler
        /\ mem'.model = IF trainer = 3 THEN 0 ELSE IF trainer = 4 THEN count.trainings ELSE mem.model
        /\ mem' \in [scaler : Int, model : Int, loaded : BOOLEAN]
    BY <1>2, <2>1, TrainingSteps DEF Model!TrainStep, Model!Raw
  <2>3. files' \in [model : Int, scaler : Int]
    BY <1>2 DEF Model!TrainStep, Model!Saves, Model!Torn
  <2>4. ModelType'
    BY <2>1, <2>2, <2>3
  <2>5. Paired'
    BY <2>1, <2>2
  <2> QED BY <2>1, <2>4, <2>5
<1>3. CASE Model!TrainRaises
  <2>1. trainer = 5
    BY <1>3, TrainingSteps DEF Model!TrainRaises
  <2> QED BY <1>3, <2>1 DEF Model!TrainRaises
<1>4. CASE Model!Fall
  <2>1. /\ count' \in [trainings : Int, calls : Int, falls : Int]
        /\ halved' \in BOOLEAN /\ trainer' = 0 /\ UNCHANGED <<files, result>>
    BY <1>4 DEF Model!Fall
  <2>2. reader' = [r \in Reader |-> Model!Idle]
    BY <1>4 DEF Model!Fall
  <2>3. /\ reader' \in [Reader -> [pc : {"idle", "predict"}, scaler : Int, trained : BOOLEAN]]
        /\ \A r \in Reader : reader'[r].pc = "idle"
    BY <2>2 DEF Model!Idle, Model!None
  <2>4. \/ mem' = [scaler |-> -2, model |-> -2, loaded |-> FALSE]
        \/ mem' = [scaler |-> -2, model |-> files.model, loaded |-> FALSE]
        \/ mem' = [scaler |-> 0, model |-> files.model, loaded |-> TRUE]
        \/ mem' = [scaler |-> files.scaler, model |-> files.model, loaded |-> TRUE]
    <3>1. mem' = IF files.model \in {-2, -1} THEN Model!Down
                 ELSE IF files.scaler = -1 THEN [Model!Down EXCEPT !.model = files.model]
                 ELSE [model |-> files.model, loaded |-> TRUE,
                       scaler |-> IF files.scaler = -2 THEN 0 ELSE files.scaler]
      BY <1>4 DEF Model!Fall, Model!None, Model!Torn, Model!Raw
    <3> QED BY <3>1 DEF Model!Down, Model!None
  <2>5. halved' = (files.model > 0 /\ files.scaler > 0 /\ files.model # files.scaler)
    BY <1>4 DEF Model!Fall
  <2>6. files.model \in Int /\ files.scaler \in Int /\ -2 \in Int /\ 0 \in Int
    OBVIOUS
  <2>7. mem' \in [scaler : Int, model : Int, loaded : BOOLEAN]
    <3> DEFINE Mems == [scaler : Int, model : Int, loaded : BOOLEAN]
    <3>1. /\ [scaler |-> -2, model |-> -2, loaded |-> FALSE] \in Mems
          /\ [scaler |-> -2, model |-> files.model, loaded |-> FALSE] \in Mems
      BY ONLY <2>6
    <3>2. /\ [scaler |-> 0, model |-> files.model, loaded |-> TRUE] \in Mems
          /\ [scaler |-> files.scaler, model |-> files.model, loaded |-> TRUE] \in Mems
      BY ONLY <2>6
    <3> HIDE DEF Mems
    <3>3. mem' \in Mems
      BY ONLY <2>4, <3>1, <3>2
    <3> QED BY <3>3 DEF Mems
  <2>8. /\ mem'.scaler > 0 => mem'.scaler = files.scaler
        /\ mem'.model > 0 => mem'.model = files.model
    BY ONLY <2>4, <2>6
  <2>9. Paired'
    <3>1. ~halved' /\ mem'.scaler > 0 /\ mem'.model > 0 => mem'.scaler = mem'.model
      BY ONLY <2>5, <2>8
    <3> QED BY ONLY <2>1, <3>1 DEF Paired
  <2> QED BY <2>1, <2>3, <2>7, <2>9
<1>5. ASSUME NEW r \in Reader, Model!Transform(r)
      PROVE  ModelInv'
  BY <1>5 DEF Model!Transform, Model!Idle, Model!None
<1>6. ASSUME NEW r \in Reader, Model!Predict(r)
      PROVE  ModelInv'
  BY <1>6 DEF Model!Predict, Model!Idle, Model!None
<1>7. CASE UNCHANGED Model!vars
  BY <1>7 DEF Model!vars
<1> QED BY <1>1, <1>2, <1>3, <1>4, <1>5, <1>6, <1>7 DEF Model!Next
-----------------------------------------------------------------------------
(* The stages of a rollout (rollout/manager.py).                            *)
StageSet == {"shadow", "canal", "half", "full", "cleanup"}

(* The history of a state leads to its stage.                               *)
Leads(s) ==
    /\ s.stage = IF s.history = <<>> THEN "shadow" ELSE s.history[Len(s.history)][2]
    /\ \A i \in 1..Len(s.history) :
          /\ s.history[i][1] = IF i = 1 THEN "shadow" ELSE s.history[i - 1][2]
          /\ Roll!Number(s.history[i][2]) \in
                {Roll!Number(s.history[i][1]) - 1, Roll!Number(s.history[i][1]) + 1}

(* A state that can be loaded: it says of a rollback what the last          *)
(* comparison found.                                                        *)
Sound(s) ==
    /\ DOMAIN s = {"stage", "history", "samples", "recommended"}
    /\ s.stage \in StageSet /\ s.history \in Seq(StageSet \X StageSet)
    /\ verdict = "bad" => s.recommended
    /\ Leads(s)

(* The state of the rollout and its file can be loaded, but for a file      *)
(* torn by a crash during the save.                                         *)
RollInv ==
    /\ age \in Nat /\ age <= StageDuration
    /\ state # Roll!Gone => Sound(state)
    /\ disk \notin {Roll!Absent, Roll!Torn} => Sound(disk)
    /\ saving => disk = Roll!Torn /\ state # Roll!Gone

(* The number of each stage.                                                *)
LEMMA StageNumbers ==
    /\ Roll!Number("shadow") = 1 /\ Roll!Number("canal") = 2 /\ Roll!Number("half") = 3
    /\ Roll!Number("full") = 4 /\ Roll!Number("cleanup") = 5
    /\ Roll!Stages[1] = "shadow" /\ Roll!Stages[2] = "canal" /\ Roll!Stages[3] = "half"
    /\ Roll!Stages[4] = "full" /\ Roll!Stages[5] = "cleanup"
<1>1. /\ Roll!Stages[1] = "shadow" /\ Roll!Stages[2] = "canal" /\ Roll!Stages[3] = "half"
      /\ Roll!Stages[4] = "full" /\ Roll!Stages[5] = "cleanup" /\ DOMAIN Roll!Stages = 1..5
  BY DEF Roll!Stages
<1>2. ASSUME NEW s, NEW i \in 1..5, Roll!Stages[i] = s, \A j \in 1..5 : Roll!Stages[j] = s => j = i
      PROVE  Roll!Number(s) = i
  BY <1>1, <1>2 DEF Roll!Number
<1>3. \A j \in 1..5 : j = 1 \/ j = 2 \/ j = 3 \/ j = 4 \/ j = 5
  OBVIOUS
<1>4. Roll!Number("shadow") = 1 /\ Roll!Number("canal") = 2 /\ Roll!Number("half") = 3
  BY <1>1, <1>2, <1>3
<1>5. Roll!Number("full") = 4 /\ Roll!Number("cleanup") = 5
  BY <1>1, <1>2, <1>3
<1> QED BY <1>1, <1>4, <1>5

(* The stages before and after one.                                         *)
LEMMA Neighbours ==
    ASSUME NEW s \in StageSet
    PROVE  /\ Roll!Number(s) \in 1..5
           /\ s # "cleanup" => /\ Roll!Stages[Roll!Number(s) + 1] \in StageSet
                               /\ Roll!Number(Roll!Stages[Roll!Number(s) + 1]) = Roll!Number(s) + 1
           /\ Roll!Number(s) > 1 => /\ Roll!Stages[Roll!Number(s) - 1] \in StageSet
                                    /\ Roll!Number(Roll!Stages[Roll!Number(s) - 1]) = Roll!Number(s) - 1
<1>1. CASE s = "shadow"
  BY <1>1, StageNumbers DEF StageSet
<1>2. CASE s = "canal"
  BY <1>2, StageNumbers DEF StageSet
<1>3. CASE s = "half"
  BY <1>3, StageNumbers DEF StageSet
<1>4. CASE s = "full"
  BY <1>4, StageNumbers DEF StageSet
<1>5. CASE s = "cleanup"
  BY <1>5, StageNumbers DEF StageSet
<1> QED BY <1>1, <1>2, <1>3, <1>4, <1>5 DEF StageSet

(* A new rollout is in shadow, with no history.                             *)
LEMMA NewIsSound ==
    ASSUME NEW s, s = Roll!New("shadow", <<>>)
    PROVE  /\ DOMAIN s = {"stage", "history", "samples", "recommended"}
           /\ s.stage \in StageSet /\ s.history \in Seq(StageSet \X StageSet)
           /\ Leads(s) /\ s # Roll!Gone
<1>1. Len(<<>>) = 0
  BY EmptySeq
<1>2. s.stage = "shadow" /\ s.history = <<>> /\ DOMAIN s = {"stage", "history", "samples", "recommended"}
  BY DEF Roll!New
<1>3. Roll!Gone.stage = "gone"
  BY DEF Roll!Gone
<1>4. Leads(s)
  BY <1>1, <1>2 DEF Leads
<1> QED BY <1>2, <1>3, <1>4, EmptySeq DEF StageSet

(* The invariant of the rollout, at the start.                              *)
LEMMA RollStarts == Roll!Init => RollInv
<1> SUFFICES ASSUME Roll!Init PROVE RollInv
  OBVIOUS
<1>1. verdict = "none" /\ state = Roll!New("shadow", <<>>) /\ disk = Roll!Absent /\ age = 0 /\ ~saving
  BY DEF Roll!Init
<1>2. Sound(state)
  BY <1>1, NewIsSound DEF Sound
<1> QED BY <1>1, <1>2, ComponentAssumptions DEF RollInv, Roll!RolloutAssumption

(* A move to a neighbour that is appended to the history leads to the       *)
(* stage.                                                                   *)
LEMMA MoveLeads ==
    ASSUME NEW s, NEW to \in StageSet, NEW v,
           DOMAIN s = {"stage", "history", "samples", "recommended"},
           s.stage \in StageSet, s.history \in Seq(StageSet \X StageSet), Leads(s),
           Roll!Number(to) \in {Roll!Number(s.stage) - 1, Roll!Number(s.stage) + 1},
           v = [s EXCEPT !.stage = to, !.history = Append(s.history, <<s.stage, to>>)]
    PROVE  /\ DOMAIN v = {"stage", "history", "samples", "recommended"}
           /\ v.stage = to /\ v.history \in Seq(StageSet \X StageSet)
           /\ v.recommended = s.recommended /\ Leads(v)
<1> DEFINE h == s.history  e == <<s.stage, to>>  g == Append(h, e)
<1>1. /\ DOMAIN v = {"stage", "history", "samples", "recommended"}
      /\ v.stage = to /\ v.history = g /\ v.recommended = s.recommended
  OBVIOUS
<1>2. e \in StageSet \X StageSet /\ e[1] = s.stage /\ e[2] = to
  OBVIOUS
<1>3. h \in Seq(StageSet \X StageSet)
  OBVIOUS
<1> HIDE DEF e
<1>4. /\ g \in Seq(StageSet \X StageSet) /\ Len(g) = Len(h) + 1
      /\ \A i \in 1..Len(h) : g[i] = h[i]
      /\ g[Len(h) + 1] = e /\ g # <<>>
  BY <1>2, <1>3, AppendProperties
<1>5. Len(h) \in Nat
  BY <1>3, LenProperties
<1>6. v.stage = g[Len(g)][2]
  BY <1>1, <1>2, <1>4
<1>7. ASSUME NEW i \in 1..Len(g)
      PROVE  /\ g[i][1] = IF i = 1 THEN "shadow" ELSE g[i - 1][2]
             /\ Roll!Number(g[i][2]) \in {Roll!Number(g[i][1]) - 1, Roll!Number(g[i][1]) + 1}
  <2>1. CASE i = Len(h) + 1
    <3>1. g[i] = e
      BY <1>4, <2>1
    <3>2. s.stage = IF h = <<>> THEN "shadow" ELSE h[Len(h)][2]
      BY DEF Leads
    <3>3. CASE h = <<>>
      <4>1. Len(<<>>) = 0
        BY EmptySeq
      <4>2. i = 1
        BY <2>1, <3>3, <4>1
      <4> QED BY <1>2, <3>1, <3>2, <3>3, <4>2
    <3>4. CASE h # <<>>
      <4>1. Len(h) \in Nat \ {0}
        BY <1>3, <3>4, EmptySeq
      <4>2. i # 1 /\ i - 1 = Len(h) /\ Len(h) \in 1..Len(h)
        BY <2>1, <4>1
      <4>3. g[i - 1] = h[Len(h)]
        BY <1>4, <4>2
      <4> QED BY <1>2, <3>1, <3>2, <3>4, <4>2, <4>3
    <3> QED BY <3>3, <3>4
  <2>2. CASE i \in 1..Len(h)
    <3>1. /\ h[i][1] = IF i = 1 THEN "shadow" ELSE h[i - 1][2]
          /\ Roll!Number(h[i][2]) \in {Roll!Number(h[i][1]) - 1, Roll!Number(h[i][1]) + 1}
      BY <2>2 DEF Leads
    <3>2. g[i] = h[i]
      BY <1>4, <2>2
    <3>3. i # 1 => g[i - 1] = h[i - 1]
      <4>1. i # 1 => i - 1 \in 1..Len(h)
        BY <1>5, <2>2
      <4> QED BY <1>4, <4>1
    <3> HIDE DEF g, h
    <3> QED BY <3>1, <3>2, <3>3
  <2>3. i = Len(h) + 1 \/ i \in 1..Len(h)
    BY <1>4, <1>5
  <2> QED BY <2>1, <2>2, <2>3
<1> HIDE DEF g
<1> QED BY <1>1, <1>4, <1>6, <1>7 DEF Leads

SoundNext(s) ==
    /\ DOMAIN s = {"stage", "history", "samples", "recommended"}
    /\ s.stage \in StageSet /\ s.history \in Seq(StageSet \X StageSet)
    /\ verdict' = "bad" => s.recommended
    /\ Leads(s)

(* A step that begins to save a sound state.                                *)
LEMMA ChangeKept ==
    ASSUME NEW s, SoundNext(s), Roll!Change(s), age' \in Nat, age' <= StageDuration
    PROVE  RollInv'
<1>1. state' = s /\ disk' = Roll!Torn /\ saving' = TRUE
  BY DEF Roll!Change
<1>2. Sound(state)'
  BY <1>1 DEF Sound, SoundNext, Leads
<1>3. s # Roll!Gone
  BY DEF SoundNext, StageSet, Roll!Gone
<1> QED BY <1>1, <1>2, <1>3 DEF RollInv

(* A promotion or a rollback keeps the invariant.                           *)
LEMMA RollMove ==
    ASSUME RollInv, NEW to \in StageSet, Roll!Move(to), state # Roll!Gone,
           Roll!Number(to) \in {Roll!Number(state.stage) - 1, Roll!Number(state.stage) + 1}
    PROVE  RollInv' /\ state'.stage = to
<1> DEFINE v == [state EXCEPT !.stage = to, !.history = Append(state.history, <<state.stage, to>>)]
<1>1. Roll!Change(v) /\ verdict' = verdict /\ age' = 0
  BY DEF Roll!Move
<1>2. Sound(state) /\ StageDuration \in Nat
  BY ComponentAssumptions DEF RollInv, Roll!RolloutAssumption
<1>3. /\ DOMAIN v = {"stage", "history", "samples", "recommended"}
      /\ v.stage = to /\ v.history \in Seq(StageSet \X StageSet)
      /\ v.recommended = state.recommended /\ Leads(v)
  BY <1>2, MoveLeads DEF Sound
<1> HIDE DEF v
<1>4. SoundNext(v)
  BY <1>1, <1>2, <1>3 DEF Sound, SoundNext
<1>5. state' = v
  BY <1>1 DEF Roll!Change
<1> QED BY <1>1, <1>2, <1>3, <1>4, <1>5, ChangeKept

(* What NoAdvanceOnRegression says of one step.                             *)
Advances ==
    state # Roll!Gone /\ state' # Roll!Gone /\ Roll!Number(state'.stage) > Roll!Number(state.stage) =>
        verdict # "bad" /\ age = StageDuration

(* A step of the rollout keeps its invariant and is no advance of a worse   *)
(* version.                                                                 *)
LEMMA RollKept == RollInv /\ [Roll!Next]_(Roll!vars) => RollInv' /\ Advances
<1> SUFFICES ASSUME RollInv, [Roll!Next]_(Roll!vars)
             PROVE  RollInv' /\ Advances
  OBVIOUS
<1>0. StageDuration \in Nat
  BY ComponentAssumptions DEF Roll!RolloutAssumption
<1>n. ASSUME NEW s \in StageSet
      PROVE  ~(Roll!Number(s) > Roll!Number(s))
  BY Neighbours
<1>1. ASSUME UNCHANGED <<state, disk, saving, verdict>>, age' \in Nat, age' <= StageDuration
      PROVE  RollInv' /\ Advances
  <2>1. /\ state' # Roll!Gone => Sound(state)'
        /\ disk' \notin {Roll!Absent, Roll!Torn} => Sound(disk)'
    BY <1>1 DEF RollInv, Sound, Leads
  <2>2. Advances
    BY <1>1, <1>n DEF Advances, RollInv, Sound
  <2> QED BY <1>1, <2>1, <2>2 DEF RollInv
<1>2. CASE Roll!Wait
  BY <1>0, <1>1, <1>2 DEF Roll!Wait, RollInv
<1>3. CASE UNCHANGED Roll!vars
  BY <1>1, <1>3 DEF Roll!vars, RollInv
<1>4. CASE Roll!Saved
  <2>1. /\ saving /\ disk' = state /\ ~saving' /\ UNCHANGED <<state, age, verdict>>
    BY <1>4 DEF Roll!Saved
  <2>2. state' # Roll!Gone => Sound(state)'
    BY <2>1 DEF RollInv, Sound, Leads
  <2>3. disk' \notin {Roll!Absent, Roll!Torn} => Sound(disk)'
    BY <2>1 DEF RollInv, Sound, Leads
  <2>4. Advances
    BY <1>n, <2>1 DEF Advances, RollInv, Sound
  <2> QED BY <2>1, <2>2, <2>3, <2>4 DEF RollInv
<1>5. CASE Roll!UpdateMetrics
  <2>1. PICK exceeded \in SUBSET Roll!Metrics, samples \in Roll!AllSamples :
          /\ Roll!Change([state EXCEPT !.samples = samples, !.recommended = Roll!RollbackRecommended(exceeded)])
          /\ verdict' = IF exceeded \subseteq {"cost_usd"} THEN "good" ELSE "bad"
    BY <1>5 DEF Roll!UpdateMetrics
  <2>2. state # Roll!Gone /\ age' = age /\ Sound(state)
    BY <1>5 DEF Roll!UpdateMetrics, Roll!Running, RollInv
  <2> DEFINE v == [state EXCEPT !.samples = samples, !.recommended = Roll!RollbackRecommended(exceeded)]
  <2>3. /\ DOMAIN v = {"stage", "history", "samples", "recommended"}
        /\ v.stage = state.stage /\ v.history = state.history
        /\ v.recommended = Roll!RollbackRecommended(exceeded)
    BY <2>2 DEF Sound
  <2>4. verdict' = "bad" => Roll!RollbackRecommended(exceeded)
    BY <2>1 DEF Roll!RollbackRecommended, Roll!Metrics
  <2> HIDE DEF v
  <2>5. SoundNext(v)
    BY <2>2, <2>3, <2>4 DEF SoundNext, Sound, Leads
  <2>6. Roll!Change(v) /\ state' = v
    BY <2>1 DEF Roll!Change, v
  <2>7. RollInv'
    BY <2>2, <2>5, <2>6, ChangeKept DEF RollInv
  <2>8. Advances
    BY <1>n, <2>2, <2>3, <2>6 DEF Advances, Sound
  <2> QED BY <2>7, <2>8
<1>6. CASE Roll!Advance
  <2> DEFINE to == Roll!Stages[Roll!Number(state.stage) + 1]
  <2>1. /\ Roll!Move(to) /\ state # Roll!Gone /\ state.stage # "cleanup"
        /\ age >= StageDuration /\ ~state.recommended
    BY <1>6 DEF Roll!Advance, Roll!Running, Roll!Ready
  <2>2. Sound(state)
    BY <2>1 DEF RollInv
  <2>3. to \in StageSet /\ Roll!Number(to) = Roll!Number(state.stage) + 1
    BY <2>1, <2>2, Neighbours DEF Sound
  <2> HIDE DEF to
  <2>4. RollInv'
    BY <2>1, <2>3, RollMove
  <2>5. verdict # "bad" /\ age = StageDuration
    BY <1>0, <2>1, <2>2 DEF RollInv, Sound
  <2> QED BY <2>4, <2>5 DEF Advances
<1>7. CASE Roll!Rollback
  <2> DEFINE to == Roll!Stages[Roll!Number(state.stage) - 1]
  <2>1. Roll!Move(to) /\ state # Roll!Gone /\ Roll!Number(state.stage) > 1
    BY <1>7 DEF Roll!Rollback, Roll!Running
  <2>2. state.stage \in StageSet
    BY <2>1 DEF RollInv, Sound
  <2>3. to \in StageSet /\ Roll!Number(to) = Roll!Number(state.stage) - 1 /\ Roll!Number(state.stage) \in 1..5
    BY <2>1, <2>2, Neighbours
  <2> HIDE DEF to
  <2>4. RollInv' /\ state'.stage = to
    BY <2>1, <2>3, RollMove
  <2>5. ~(Roll!Number(state'.stage) > Roll!Number(state.stage))
    BY <2>3, <2>4
  <2> QED BY <2>4, <2>5 DEF Advances
<1>8. CASE Roll!Crash
  <2>1. state' = Roll!Gone /\ ~saving' /\ UNCHANGED <<disk, age, verdict>>
    BY <1>8 DEF Roll!Crash
  <2>2. disk' \notin {Roll!Absent, Roll!Torn} => Sound(disk)'
    BY <2>1 DEF RollInv, Sound, Leads
  <2> QED BY <2>1, <2>2 DEF RollInv, Advances
<1>9. CASE Roll!Restart
  <2>1. state = Roll!Gone /\ disk' = disk /\ saving' = saving
    BY <1>9 DEF Roll!Restart
  <2>2. CASE disk \in {Roll!Absent, Roll!Torn}
    <3>1. state' = Roll!New("shadow", <<>>) /\ age' = 0 /\ verdict' = "none"
      BY <1>9, <2>2 DEF Roll!Restart
    <3>2. Sound(state)'
      BY <3>1, NewIsSound DEF Sound, Leads
    <3> QED BY <1>0, <2>1, <2>2, <3>1, <3>2 DEF RollInv, Advances
  <2>3. CASE disk \notin {Roll!Absent, Roll!Torn}
    <3>1. state' = disk /\ age' = age /\ verdict' = verdict
      BY <1>9, <2>3 DEF Roll!Restart
    <3>2. Sound(disk)
      BY <2>3 DEF RollInv
    <3>3. Sound(state)' /\ Sound(disk)'
      BY <2>1, <3>1, <3>2 DEF Sound, Leads
    <3> QED BY <2>1, <3>1, <3>3 DEF RollInv, Advances
  <2> QED BY <2>2, <2>3
<1> QED BY <1>2, <1>3, <1>4, <1>5, <1>6, <1>7, <1>8, <1>9 DEF Roll!Next

(* From the invariant, that the stage is where the history leads.           *)
LEMMA RollHolds == RollInv => Roll!HistoryLeadsToStage
<1> SUFFICES ASSUME RollInv, state # Roll!Gone
             PROVE  Roll!HistoryLeadsToStage
  BY DEF Roll!HistoryLeadsToStage
<1>1. Leads(state) /\ state.history \in Seq(StageSet \X StageSet)
  BY DEF RollInv, Sound
<1>2. DOMAIN state.history = 1..Len(state.history)
  BY <1>1, LenProperties
<1> QED BY <1>1, <1>2 DEF Leads, Roll!HistoryLeadsToStage, Roll!Last

-----------------------------------------------------------------------------
(* The locals of a call of the deception pipeline (pipeline.py).            *)
CallFields == {"pc", "op", "sid", "level", "count", "bumps"}

(* A call that has read the count of a session no other call was in still   *)
(* holds the count when it writes, if the session is still there.           *)
DeceiveInv ==
    /\ DOMAIN call = Threads /\ DOMAIN histories = Sids
    /\ \A c \in Threads :
          DOMAIN call[c] = CallFields /\ (call[c].pc # "idle" => call[c].sid \in Sids)
    /\ \A s \in DOMAIN sessions : DOMAIN sessions[s] = {"level", "count", "closed"}
    /\ \A c, d \in Threads :
          /\ call[c].pc # "idle" /\ call[d].pc # "idle"
          /\ call[c].sid = call[d].sid /\ call[c].sid \notin overlapped
          => c = d
    /\ \A c \in Threads : \A s \in DOMAIN sessions \ overlapped :
          call[c].pc = "store" /\ call[c].sid = s => call[c].count = sessions[s].count
    /\ Deceive!CountsEveryUpdate

(* The invariant of the sessions, at the start.                             *)
LEMMA DeceiveStarts == Deceive!Init => DeceiveInv
<1> SUFFICES ASSUME Deceive!Init PROVE DeceiveInv
  OBVIOUS
<1>1. /\ DOMAIN call = Threads /\ DOMAIN histories = Sids /\ DOMAIN sessions = {}
      /\ \A c \in Threads : call[c] = Deceive!Idle
  BY DEF Deceive!Init
<1>2. DOMAIN Deceive!Idle = CallFields /\ Deceive!Idle.pc = "idle"
  BY DEF Deceive!Idle, CallFields
<1> QED BY <1>1, <1>2 DEF DeceiveInv, Deceive!CountsEveryUpdate

(* A step of one call that adds no session and changes no count.            *)
LEMMA NoCount ==
    ASSUME DeceiveInv, NEW c \in Threads, NEW r,
           call' = [call EXCEPT ![c] = r], UNCHANGED <<histories, overlapped>>,
           \A s \in DOMAIN sessions' :
              /\ s \in DOMAIN sessions /\ DOMAIN sessions'[s] = DOMAIN sessions[s]
              /\ sessions'[s].count = sessions[s].count,
           DOMAIN r = CallFields, r.pc = "idle" \/ (r.sid = call[c].sid /\ call[c].pc # "idle"),
           \A s \in DOMAIN sessions' : r.pc = "store" /\ r.sid = s => r.count = sessions'[s].count
    PROVE  DeceiveInv'
<1>1. DOMAIN call' = Threads /\ \A d \in Threads : call'[d] = IF d = c THEN r ELSE call[d]
  BY DEF DeceiveInv
<1>2. /\ \A d \in Threads :
            DOMAIN call'[d] = CallFields /\ (call'[d].pc # "idle" => call'[d].sid \in Sids)
      /\ \A s \in DOMAIN sessions' : DOMAIN sessions'[s] = {"level", "count", "closed"}
      /\ DOMAIN histories' = Sids
  BY <1>1 DEF DeceiveInv
<1>3. \A d \in Threads : call'[d].pc # "idle" => call[d].pc # "idle" /\ call'[d].sid = call[d].sid
  BY <1>1
<1>4. ASSUME NEW d \in Threads, NEW e \in Threads, call'[d].pc # "idle", call'[e].pc # "idle",
             call'[d].sid = call'[e].sid, call'[d].sid \notin overlapped'
      PROVE  d = e
  BY <1>3, <1>4 DEF DeceiveInv
<1>5. ASSUME NEW d \in Threads, NEW s \in DOMAIN sessions' \ overlapped',
             call'[d].pc = "store", call'[d].sid = s
      PROVE  call'[d].count = sessions'[s].count
  BY <1>1, <1>5 DEF DeceiveInv
<1>6. \A s \in DOMAIN sessions' \ overlapped' : sessions'[s].count = histories'[s]
  BY DEF DeceiveInv, Deceive!CountsEveryUpdate
<1> QED BY <1>1, <1>2, <1>4, <1>5, <1>6 DEF DeceiveInv, Deceive!CountsEveryUpdate

(* get and the deletion of a session that expired.                          *)
LEMMA GetShrinks ==
    ASSUME NEW s, Deceive!Get(s)
    PROVE  \A d \in DOMAIN sessions' :
              /\ d \in DOMAIN sessions /\ DOMAIN sessions'[d] = DOMAIN sessions[d]
              /\ sessions'[d].count = sessions[d].count
BY DEF Deceive!Get, Deceive!Restrict

(* The steps of a call that look its session up by get.                     *)
LEMMA GetsKept ==
    ASSUME DeceiveInv, NEW c \in Threads,
           Deceive!InputGets(c) \/ Deceive!AnalysisGets(c) \/ Deceive!EndGets(c) \/ Deceive!Counts(c)
    PROVE  DeceiveInv'
<1> DEFINE s == call[c].sid
<1>0. DOMAIN call[c] = CallFields
  BY DEF DeceiveInv
<1>1. /\ Deceive!Get(s) /\ UNCHANGED <<histories, overlapped>>
      /\ call[c].pc # "idle"
  BY DEF Deceive!InputGets, Deceive!AnalysisGets, Deceive!EndGets, Deceive!Counts, Deceive!At
<1>2. \A d \in DOMAIN sessions' :
         /\ d \in DOMAIN sessions /\ DOMAIN sessions'[d] = DOMAIN sessions[d]
         /\ sessions'[d].count = sessions[d].count
  BY <1>1, GetShrinks
<1>3. ASSUME NEW r, call' = [call EXCEPT ![c] = r], DOMAIN r = CallFields,
             r.pc = "idle" \/ (r.sid = s /\ r.pc # "store")
      PROVE  DeceiveInv'
  BY <1>1, <1>2, <1>3, NoCount
<1>4. CASE Deceive!InputGets(c)
  <2>1. CASE Deceive!Live(s)
    <3> DEFINE r == [call[c] EXCEPT !.pc = "count", !.level = sessions[s].level, !.bumps = 1]
    <3>1. call' = [call EXCEPT ![c] = r]
      BY <1>4, <2>1 DEF Deceive!InputGets
    <3>2. DOMAIN r = CallFields /\ r.pc = "count" /\ r.sid = s
      BY <1>0 DEF CallFields
    <3> HIDE DEF r
    <3> QED BY <1>3, <3>1, <3>2
  <2>2. CASE ~Deceive!Live(s)
    <3> DEFINE r == [call[c] EXCEPT !.pc = "create"]
    <3>1. call' = [call EXCEPT ![c] = r]
      BY <1>4, <2>2 DEF Deceive!InputGets
    <3>2. DOMAIN r = CallFields /\ r.pc = "create" /\ r.sid = s
      BY <1>0 DEF CallFields
    <3> HIDE DEF r
    <3> QED BY <1>3, <3>1, <3>2
  <2> QED BY <2>1, <2>2
<1>5. ASSUME call' = [call EXCEPT ![c] = Deceive!Idle]
      PROVE  DeceiveInv'
  <2>1. DOMAIN Deceive!Idle = CallFields /\ Deceive!Idle.pc = "idle"
    BY DEF Deceive!Idle, CallFields
  <2> QED BY <1>3, <1>5, <2>1
<1>6. CASE Deceive!AnalysisGets(c)
  <2>1. ASSUME NEW n, call' = [call EXCEPT ![c] = [call[c] EXCEPT !.pc = "count", !.bumps = n]]
        PROVE  DeceiveInv'
    <3> DEFINE r == [call[c] EXCEPT !.pc = "count", !.bumps = n]
    <3>1. DOMAIN r = CallFields /\ r.pc = "count" /\ r.sid = s
      BY <1>0 DEF CallFields
    <3>2. call' = [call EXCEPT ![c] = r]
      BY <2>1
    <3> HIDE DEF r
    <3> QED BY <1>3, <3>1, <3>2
  <2>2. \/ call' = [call EXCEPT ![c] = Deceive!Idle]
        \/ \E n : call' = [call EXCEPT ![c] = [call[c] EXCEPT !.pc = "count", !.bumps = n]]
    BY <1>6 DEF Deceive!AnalysisGets, Deceive!Return
  <2> QED BY <1>5, <2>1, <2>2
<1>7. CASE Deceive!EndGets(c)
  <2>1. ASSUME call' = [call EXCEPT ![c] = [call[c] EXCEPT !.pc = "close"]]
        PROVE  DeceiveInv'
    <3> DEFINE r == [call[c] EXCEPT !.pc = "close"]
    <3>1. DOMAIN r = CallFields /\ r.pc = "close" /\ r.sid = s
      BY <1>0 DEF CallFields
    <3>2. call' = [call EXCEPT ![c] = r]
      BY <2>1
    <3> HIDE DEF r
    <3> QED BY <1>3, <3>1, <3>2
  <2>2. \/ call' = [call EXCEPT ![c] = Deceive!Idle]
        \/ call' = [call EXCEPT ![c] = [call[c] EXCEPT !.pc = "close"]]
    BY <1>7 DEF Deceive!EndGets, Deceive!Return, Deceive!Go
  <2> QED BY <1>5, <2>1, <2>2
<1>8. CASE Deceive!Counts(c)
  <2> DEFINE n == IF Deceive!Live(s) THEN sessions[s].count ELSE 0
             r == [call[c] EXCEPT !.pc = "store", !.count = n]
  <2>1. call' = [call EXCEPT ![c] = r]
    BY <1>8 DEF Deceive!Counts
  <2>2. DOMAIN r = CallFields /\ r.pc = "store" /\ r.sid = s /\ r.count = n
    BY <1>0 DEF CallFields
  <2>3. s \in DOMAIN sessions' => Deceive!Live(s) /\ sessions' = sessions
    BY <1>1 DEF Deceive!Get, Deceive!Restrict
  <2>4. \A d \in DOMAIN sessions' : r.pc = "store" /\ r.sid = d => r.count = sessions'[d].count
    BY <2>2, <2>3
  <2> HIDE DEF r
  <2> QED BY <1>1, <1>2, <2>1, <2>2, <2>4, NoCount
<1> QED BY <1>4, <1>6, <1>7, <1>8

(* The calls that go on with one session without a get.                     *)
LEMMA GoesOn ==
    ASSUME DeceiveInv, NEW c \in Threads,
           Deceive!Closes(c) \/ Deceive!Answers(c) \/ Deceive!Remembers(c)
    PROVE  DeceiveInv'
<1>0. DOMAIN call[c] = CallFields
  BY DEF DeceiveInv
<1>1. call[c].pc # "idle" /\ UNCHANGED <<histories, overlapped>>
  BY DEF Deceive!Closes, Deceive!Answers, Deceive!Remembers, Deceive!At, Deceive!store
<1>2. \A d \in DOMAIN sessions' :
         /\ d \in DOMAIN sessions /\ DOMAIN sessions'[d] = DOMAIN sessions[d]
         /\ sessions'[d].count = sessions[d].count
  <2>1. CASE Deceive!Closes(c)
    <3> DEFINE s == call[c].sid
    <3>2. CASE sessions' = [sessions EXCEPT ![s].closed = TRUE]
      BY <3>2 DEF DeceiveInv
    <3>3. CASE sessions' = Deceive!Restrict(sessions, DOMAIN sessions \ {s})
      BY <3>3 DEF Deceive!Restrict
    <3> QED BY <2>1, <3>2, <3>3 DEF Deceive!Closes
  <2>2. CASE sessions' = sessions
    BY <2>2
  <2> QED BY <2>1, <2>2 DEF Deceive!Answers, Deceive!Remembers, Deceive!store
<1>3. ASSUME NEW r, call' = [call EXCEPT ![c] = r], DOMAIN r = CallFields,
             r.pc = "idle" \/ (r.sid = call[c].sid /\ r.pc # "store")
      PROVE  DeceiveInv'
  BY <1>1, <1>2, <1>3, NoCount
<1>4. \/ call' = [call EXCEPT ![c] = Deceive!Idle]
      \/ call' = [call EXCEPT ![c] = [call[c] EXCEPT !.pc = "remember"]]
  BY DEF Deceive!Closes, Deceive!Answers, Deceive!Remembers, Deceive!Return, Deceive!Go
<1>5. DOMAIN Deceive!Idle = CallFields /\ Deceive!Idle.pc = "idle"
  BY DEF Deceive!Idle, CallFields
<1> DEFINE r == [call[c] EXCEPT !.pc = "remember"]
<1>6. DOMAIN r = CallFields /\ r.pc = "remember" /\ r.sid = call[c].sid
  BY <1>0 DEF CallFields
<1> HIDE DEF r
<1>7. call' = [call EXCEPT ![c] = Deceive!Idle] \/ call' = [call EXCEPT ![c] = r]
  BY <1>4 DEF r
<1> QED BY <1>3, <1>5, <1>6, <1>7

(* A new call: every other call in its session makes the session overlapped.*)
LEMMA Begins ==
    ASSUME DeceiveInv, NEW c \in Threads, NEW op, NEW s \in Sids, NEW level,
           Deceive!Begin(c, op, s, level)
    PROVE  DeceiveInv'
<1> DEFINE r == [Deceive!Idle EXCEPT !.pc = "get", !.op = op, !.sid = s, !.level = level]
<1>1. DOMAIN r = CallFields /\ r.pc = "get" /\ r.sid = s
  BY DEF Deceive!Idle, CallFields
<1>2. call' = [call EXCEPT ![c] = r] /\ UNCHANGED <<sessions, histories>>
  BY DEF Deceive!Begin, Deceive!store
<1>3. /\ overlapped \subseteq overlapped'
      /\ \A d \in Threads : call[d].sid = s => s \in overlapped'
  BY DEF Deceive!Begin
<1>4. call[c].pc = "idle"
  BY DEF Deceive!Begin, Deceive!At
<1> HIDE DEF r
<1>5. DOMAIN call' = Threads /\ \A d \in Threads : call'[d] = IF d = c THEN r ELSE call[d]
  BY <1>2 DEF DeceiveInv
<1>6. /\ \A d \in Threads :
            DOMAIN call'[d] = CallFields /\ (call'[d].pc # "idle" => call'[d].sid \in Sids)
      /\ \A d \in DOMAIN sessions' : DOMAIN sessions'[d] = {"level", "count", "closed"}
      /\ DOMAIN histories' = Sids
  BY <1>1, <1>2, <1>5 DEF DeceiveInv
<1>7. ASSUME NEW d \in Threads, NEW e \in Threads, call'[d].pc # "idle", call'[e].pc # "idle",
             call'[d].sid = call'[e].sid, call'[d].sid \notin overlapped'
      PROVE  d = e
  BY <1>1, <1>3, <1>5, <1>7 DEF DeceiveInv
<1>8. ASSUME NEW d \in Threads, NEW m \in DOMAIN sessions' \ overlapped',
             call'[d].pc = "store", call'[d].sid = m
      PROVE  call'[d].count = sessions'[m].count
  BY <1>1, <1>2, <1>3, <1>5, <1>8 DEF DeceiveInv
<1>9. \A m \in DOMAIN sessions' \ overlapped' : sessions'[m].count = histories'[m]
  BY <1>2, <1>3 DEF DeceiveInv, Deceive!CountsEveryUpdate
<1> QED BY <1>5, <1>6, <1>7, <1>8, <1>9 DEF DeceiveInv, Deceive!CountsEveryUpdate

(* create_session and the write of update_session, which change the count   *)
(* and the history of the session together.                                 *)
LEMMA Writes ==
    ASSUME DeceiveInv, NEW c \in Threads, Deceive!Creates(c) \/ Deceive!Stores(c)
    PROVE  DeceiveInv'
<1> DEFINE s == call[c].sid
<1>0. DOMAIN call[c] = CallFields /\ DOMAIN histories = Sids
  BY DEF DeceiveInv
<1>1. call[c].pc # "idle" /\ UNCHANGED overlapped /\ s \in Sids
  BY DEF Deceive!Creates, Deceive!Stores, Deceive!At, DeceiveInv
<1>2. ASSUME NEW r, call' = [call EXCEPT ![c] = r], DOMAIN r = CallFields,
             r.pc = "idle" \/ (r.sid = s /\ r.pc # "store"),
             DOMAIN histories' = Sids,
             \A d \in DOMAIN sessions' : DOMAIN sessions'[d] = {"level", "count", "closed"},
             \A d \in DOMAIN sessions' \ {s} :
                 d \in DOMAIN sessions /\ sessions'[d] = sessions[d] /\ histories'[d] = histories[d],
             s \in DOMAIN sessions' \ overlapped => sessions'[s].count = histories'[s]
      PROVE  DeceiveInv'
  <2>1. DOMAIN call' = Threads /\ \A d \in Threads : call'[d] = IF d = c THEN r ELSE call[d]
    BY <1>2 DEF DeceiveInv
  <2>2. \A d \in Threads :
            DOMAIN call'[d] = CallFields /\ (call'[d].pc # "idle" => call'[d].sid \in Sids)
    BY <1>1, <1>2, <2>1 DEF DeceiveInv
  <2>3. \A d \in Threads : call'[d].pc # "idle" => call[d].pc # "idle" /\ call'[d].sid = call[d].sid
    BY <1>1, <1>2, <2>1
  <2>4. ASSUME NEW d \in Threads, NEW e \in Threads, call'[d].pc # "idle", call'[e].pc # "idle",
               call'[d].sid = call'[e].sid, call'[d].sid \notin overlapped'
        PROVE  d = e
    BY <1>1, <2>3, <2>4 DEF DeceiveInv
  <2>5. ASSUME NEW d \in Threads, NEW m \in DOMAIN sessions' \ overlapped',
               call'[d].pc = "store", call'[d].sid = m
        PROVE  call'[d].count = sessions'[m].count
    <3>1. d # c
      BY <1>2, <2>1, <2>5
    <3>2. call[d].pc = "store" /\ call[d].sid = m /\ call'[d] = call[d]
      BY <2>1, <2>5, <3>1
    <3>3. m # s
      BY <1>1, <2>5, <3>1, <3>2 DEF DeceiveInv
    <3> QED BY <1>1, <1>2, <2>5, <3>2, <3>3 DEF DeceiveInv
  <2>6. \A m \in DOMAIN sessions' \ overlapped' : sessions'[m].count = histories'[m]
    BY <1>1, <1>2 DEF DeceiveInv, Deceive!CountsEveryUpdate
  <2> QED BY <1>2, <2>1, <2>2, <2>4, <2>5, <2>6 DEF DeceiveInv, Deceive!CountsEveryUpdate
<1>3. DOMAIN Deceive!Idle = CallFields /\ Deceive!Idle.pc = "idle"
  BY DEF Deceive!Idle, CallFields
<1>4. CASE Deceive!Creates(c)
  <2> DEFINE r == [call[c] EXCEPT !.pc = "count", !.level = "novice", !.bumps = 1]
  <2>1. DOMAIN r = CallFields /\ r.pc = "count" /\ r.sid = s
    BY <1>0 DEF CallFields
  <2>2. call' = [call EXCEPT ![c] = r]
    BY <1>4 DEF Deceive!Creates
  <2>3. /\ sessions' = [d \in DOMAIN sessions \cup {s} |-> IF d = s THEN Deceive!Fresh ELSE sessions[d]]
        /\ histories' = [histories EXCEPT ![s] = 0]
    BY <1>4 DEF Deceive!Creates
  <2>4. DOMAIN Deceive!Fresh = {"level", "count", "closed"} /\ Deceive!Fresh.count = 0
    BY DEF Deceive!Fresh
  <2>5. \A d \in DOMAIN sessions' : DOMAIN sessions'[d] = {"level", "count", "closed"}
    BY <2>3, <2>4 DEF DeceiveInv
  <2>6. \A d \in DOMAIN sessions' \ {s} :
            d \in DOMAIN sessions /\ sessions'[d] = sessions[d] /\ histories'[d] = histories[d]
    BY <2>3
  <2>7. DOMAIN histories' = Sids /\ sessions'[s].count = histories'[s]
    BY <1>0, <1>1, <2>3, <2>4
  <2> HIDE DEF r, s
  <2> QED BY <1>2, <2>1, <2>2, <2>5, <2>6, <2>7
<1>5. CASE Deceive!Stores(c)
  <2>1. CASE s \notin DOMAIN sessions
    <3>1. call' = [call EXCEPT ![c] = Deceive!Idle] /\ UNCHANGED <<sessions, histories>>
      BY <1>5, <2>1 DEF Deceive!Stores, Deceive!Return
    <3>2. \A d \in DOMAIN sessions' : DOMAIN sessions'[d] = {"level", "count", "closed"}
      BY <3>1 DEF DeceiveInv
    <3> QED BY <1>0, <1>2, <1>3, <2>1, <3>1, <3>2
  <2>2. CASE s \in DOMAIN sessions
    <3>1. /\ sessions' = [sessions EXCEPT ![s].count = call[c].count + 1]
          /\ histories' = [histories EXCEPT ![s] = histories[s] + 1]
      BY <1>5, <2>2 DEF Deceive!Stores
    <3>2. DOMAIN sessions[s] = {"level", "count", "closed"}
      BY <2>2 DEF DeceiveInv
    <3>3. /\ sessions'[s].count = call[c].count + 1 /\ histories'[s] = histories[s] + 1
          /\ DOMAIN histories' = Sids
      BY <1>0, <1>1, <2>2, <3>1, <3>2
    <3>4. \A d \in DOMAIN sessions' : DOMAIN sessions'[d] = {"level", "count", "closed"}
      BY <3>1 DEF DeceiveInv
    <3>5. \A d \in DOMAIN sessions' \ {s} :
              d \in DOMAIN sessions /\ sessions'[d] = sessions[d] /\ histories'[d] = histories[d]
      BY <3>1
    <3>6. s \notin overlapped => call[c].count = histories[s]
      BY <1>5, <2>2 DEF Deceive!Stores, Deceive!At, DeceiveInv, Deceive!CountsEveryUpdate
    <3>7. \E r : /\ call' = [call EXCEPT ![c] = r] /\ DOMAIN r = CallFields
                 /\ r.pc = "idle" \/ (r.sid = s /\ r.pc # "store")
      <4>1. CASE call[c].op = "input"
        <5> DEFINE r == [call[c] EXCEPT !.pc = "answer"]
        <5>1. call' = [call EXCEPT ![c] = r]
          BY <1>5, <2>2, <4>1 DEF Deceive!Stores, Deceive!Go
        <5>2. DOMAIN r = CallFields /\ r.pc = "answer" /\ r.sid = s
          BY <1>0 DEF CallFields
        <5> HIDE DEF r
        <5> QED BY <5>1, <5>2
      <4>2. CASE call[c].op # "input" /\ call[c].bumps = 1
        BY <1>3, <1>5, <2>2, <4>2 DEF Deceive!Stores, Deceive!Return
      <4>3. CASE call[c].op # "input" /\ call[c].bumps # 1
        <5> DEFINE r == [call[c] EXCEPT !.pc = "count", !.bumps = call[c].bumps - 1]
        <5>1. call' = [call EXCEPT ![c] = r]
          BY <1>5, <2>2, <4>3 DEF Deceive!Stores
        <5>2. DOMAIN r = CallFields /\ r.pc = "count" /\ r.sid = s
          BY <1>0 DEF CallFields
        <5> HIDE DEF r
        <5> QED BY <5>1, <5>2
      <4> QED BY <4>1, <4>2, <4>3
    <3> HIDE DEF s
    <3> QED BY <1>2, <3>3, <3>4, <3>5, <3>6, <3>7
  <2> QED BY <2>1, <2>2
<1> QED BY <1>4, <1>5

(* A step of the pipeline keeps the invariant of the sessions.              *)
LEMMA DeceiveKept == DeceiveInv /\ [Deceive!Next]_(Deceive!vars) => DeceiveInv'
<1> SUFFICES ASSUME DeceiveInv, [Deceive!Next]_(Deceive!vars)
             PROVE  DeceiveInv'
  OBVIOUS
<1>1. ASSUME UNCHANGED <<sessions, histories, call, overlapped>>
      PROVE  DeceiveInv'
  BY <1>1 DEF DeceiveInv, Deceive!CountsEveryUpdate
<1>2. ASSUME NEW s \in Sids, Deceive!Expire(s)
      PROVE  DeceiveInv'
  BY <1>1, <1>2 DEF Deceive!Expire
<1>3. CASE Deceive!ForgetLists \/ Deceive!ForgetDeletes \/ Deceive!ForgetReturns
  BY <1>1, <1>3 DEF Deceive!ForgetLists, Deceive!ForgetDeletes, Deceive!ForgetReturns, Deceive!store
<1>4. CASE UNCHANGED Deceive!vars
  BY <1>1, <1>4 DEF Deceive!vars, Deceive!store
<1> QED BY <1>2, <1>3, <1>4, GetsKept, GoesOn, Begins, Writes DEF Deceive!Next

-----------------------------------------------------------------------------
(* The text that is kept of two replies has no danger signal of theirs.     *)
LEMMA NothingDangerous ==
    ASSUME NEW input, NEW first, NEW second,
           "danger" \in Deceive!Generated(input, first, second)
    PROVE  "danger" \in input
BY DEF Deceive!Generated, Deceive!Strip, Deceive!Scrub, Deceive!Template, Deceive!Dangerous

(* No session is answered at the start.                                     *)
LEMMA SafeStarts == Deceive!Init => Deceive!SafeAnswers
BY DEF Deceive!Init, Deceive!SafeAnswers

(* Only generate_response makes an answer (deception.py:588-660).           *)
LEMMA SafeKept ==
    Deceive!SafeAnswers /\ [Deceive!Next]_(Deceive!vars) => Deceive!SafeAnswers'
<1> SUFFICES ASSUME Deceive!SafeAnswers, [Deceive!Next]_(Deceive!vars)
             PROVE  Deceive!SafeAnswers'
  OBVIOUS
<1> USE DEF Deceive!SafeAnswers, Deceive!Dangerous
<1>1. ASSUME NEW c \in Threads, Deceive!Answers(c)
      PROVE  Deceive!SafeAnswers'
  <2> DEFINE s == call[c].sid
  <2>1. PICK input \in Deceive!Inputs, first \in Deceive!Replies, second \in Deceive!Replies :
          answers' = [d \in DOMAIN answers \cup {s} |->
              IF d = s THEN [input |-> input, text |-> Deceive!Generated(input, first, second)]
                       ELSE answers[d]]
    BY <1>1 DEF Deceive!Answers
  <2> QED BY <2>1, NothingDangerous
<1>2. CASE UNCHANGED answers
  BY <1>2
<1>3. ASSUME NEW c \in Threads, NEW s \in Sids, NEW op, NEW level, Deceive!Begin(c, op, s, level)
      PROVE  UNCHANGED answers
  BY <1>3 DEF Deceive!Begin
<1>4. ASSUME NEW c \in Threads,
             \/ Deceive!InputGets(c) \/ Deceive!Creates(c) \/ Deceive!AnalysisGets(c)
             \/ Deceive!Counts(c) \/ Deceive!Stores(c)
      PROVE  UNCHANGED answers
  BY <1>4 DEF Deceive!InputGets, Deceive!Creates, Deceive!AnalysisGets, Deceive!Counts, Deceive!Stores
<1>5. ASSUME NEW c \in Threads,
             Deceive!Remembers(c) \/ Deceive!EndGets(c) \/ Deceive!Closes(c)
      PROVE  UNCHANGED answers
  BY <1>5 DEF Deceive!Remembers, Deceive!EndGets, Deceive!Closes
<1>6. ASSUME \/ \E s \in Sids : Deceive!Expire(s)
             \/ Deceive!ForgetLists \/ Deceive!ForgetDeletes \/ Deceive!ForgetReturns
      PROVE  UNCHANGED answers
  BY <1>6 DEF Deceive!Expire, Deceive!ForgetLists, Deceive!ForgetDeletes, Deceive!ForgetReturns
<1>7. CASE UNCHANGED Deceive!vars
  BY <1>2, <1>7 DEF Deceive!vars
<1> QED BY <1>1, <1>2, <1>3, <1>4, <1>5, <1>6, <1>7 DEF Deceive!Next

(* A memory made during a deletion has a number of its own, above those of  *)
(* the memories that were listed, and of these only the ones still to be    *)
(* deleted are left.                                                        *)
ForgetInv ==
    /\ spent.memories \in Nat /\ DOMAIN spent = {"calls", "memories"}
    /\ DOMAIN forget = {"pc", "todo", "seen", "count"}
    /\ memory \cup forget.seen \subseteq 0..spent.memories
    /\ forget.pc = "delete" => memory \cap forget.seen \subseteq forget.todo
    /\ Deceive!ForgottenIfTold

(* The invariant of the attacker memory, at the start and over a step.      *)
LEMMA ForgetStarts == Deceive!Init => ForgetInv
BY DEF Deceive!Init, Deceive!NoForget, ForgetInv, Deceive!ForgottenIfTold

LEMMA ForgetKept == ForgetInv /\ [Deceive!Next]_(Deceive!vars) => ForgetInv'
<1> SUFFICES ASSUME ForgetInv, [Deceive!Next]_(Deceive!vars)
             PROVE  ForgetInv'
  OBVIOUS
<1> USE DEF ForgetInv, Deceive!ForgottenIfTold
<1>1. CASE UNCHANGED <<memory, forget, spent>>
  BY <1>1
<1>2. ASSUME NEW c \in Threads, NEW s \in Sids, NEW op, NEW level, Deceive!Begin(c, op, s, level)
      PROVE  ForgetInv'
  <2>1. UNCHANGED <<memory, forget>> /\ spent' = [spent EXCEPT !.calls = spent.calls + 1]
    BY <1>2 DEF Deceive!Begin
  <2> QED BY <2>1
<1>3. ASSUME NEW c \in Threads, Deceive!Remembers(c)
      PROVE  ForgetInv'
  <2>1. CASE UNCHANGED <<memory, spent>>
    BY <1>3, <2>1 DEF Deceive!Remembers
  <2>2. CASE /\ spent' = [spent EXCEPT !.memories = spent.memories + 1]
             /\ memory' = memory \cup {spent'.memories}
    <3>1. /\ spent'.memories = spent.memories + 1 /\ DOMAIN spent' = {"calls", "memories"}
          /\ forget' = forget
      BY <1>3, <2>2 DEF Deceive!Remembers
    <3>2. spent'.memories \notin forget.seen
      BY <3>1
    <3>3. memory' \cap forget'.seen = memory \cap forget.seen
      BY <2>2, <3>1, <3>2
    <3>4. memory' \cup forget'.seen \subseteq 0..spent'.memories
      BY <2>2, <3>1
    <3> QED BY <3>1, <3>3, <3>4
  <2> QED BY <1>3, <2>1, <2>2 DEF Deceive!Remembers
<1>4. ASSUME NEW c \in Threads,
             \/ Deceive!InputGets(c) \/ Deceive!Creates(c) \/ Deceive!AnalysisGets(c)
             \/ Deceive!Counts(c) \/ Deceive!Stores(c)
      PROVE  ForgetInv'
  BY <1>1, <1>4 DEF Deceive!InputGets, Deceive!Creates, Deceive!AnalysisGets, Deceive!Counts,
                    Deceive!Stores
<1>5. ASSUME NEW c \in Threads,
             Deceive!Answers(c) \/ Deceive!EndGets(c) \/ Deceive!Closes(c)
      PROVE  ForgetInv'
  BY <1>1, <1>5 DEF Deceive!Answers, Deceive!EndGets, Deceive!Closes
<1>6. ASSUME NEW s \in Sids, Deceive!Expire(s)
      PROVE  ForgetInv'
  BY <1>1, <1>6 DEF Deceive!Expire
<1>7. CASE Deceive!ForgetLists
  BY <1>7 DEF Deceive!ForgetLists
<1>8. CASE Deceive!ForgetDeletes
  <2>1. PICK m \in forget.todo :
           /\ memory' = memory \ {m}
           /\ forget' = [forget EXCEPT !.todo = forget.todo \ {m}, !.count = forget.count + 1]
    BY <1>8 DEF Deceive!ForgetDeletes
  <2>2. forget.pc = "delete" /\ UNCHANGED spent
    BY <1>8 DEF Deceive!ForgetDeletes
  <2>3. /\ DOMAIN forget' = {"pc", "todo", "seen", "count"}
        /\ forget'.pc = "delete" /\ forget'.seen = forget.seen /\ forget'.todo = forget.todo \ {m}
    BY <2>1, <2>2
  <2> QED BY <2>1, <2>2, <2>3
<1>9. CASE Deceive!ForgetReturns
  <2>1. CASE forget.todo = {} /\ forget' = [forget EXCEPT !.pc = "done"]
    BY <1>9, <2>1 DEF Deceive!ForgetReturns
  <2>2. CASE forget' = [forget EXCEPT !.pc = "done", !.count = 0]
    BY <1>9, <2>2 DEF Deceive!ForgetReturns
  <2> QED BY <1>9, <2>1, <2>2 DEF Deceive!ForgetReturns
<1>10. CASE UNCHANGED Deceive!vars
  BY <1>1, <1>10 DEF Deceive!vars
<1> QED BY <1>2, <1>3, <1>4, <1>5, <1>6, <1>7, <1>8, <1>9, <1>10 DEF Deceive!Next

-----------------------------------------------------------------------------
(* A caller holds a clock that was read before now, and a bucket that was   *)
(* used at all has a first call.                                            *)
RateInv ==
    /\ now \in Int /\ began \in Int /\ allowed \in Int
    /\ DOMAIN bucket = {"tokens", "last"} /\ bucket.tokens \in Int /\ bucket.last \in Int
    /\ DOMAIN asking = Threads
    /\ \A a \in Threads : asking[a] \in Int /\ asking[a] <= now
    /\ now >= 0
    /\ IF bucket.last = -1 THEN began = -1 /\ allowed = 0 ELSE began # -1
    /\ Rate!RateBounded

(* The invariant of the token bucket, at the start.                         *)
LEMMA RateStarts == Rate!Init => RateInv
BY ComponentAssumptions DEF Rate!Init, RateInv, Rate!RateBounded, Rate!BucketAssumption

(* What is refilled in two stretches of time, and in the longer of two.     *)
LEMMA Refilled ==
    ASSUME NEW a \in Int, NEW b \in Int, NEW c \in Int, NEW r \in Nat
    PROVE  /\ (c - a) * r \in Int
           /\ (c - a) * r = (c - b) * r + (b - a) * r
           /\ b <= c => (b - a) * r <= (c - a) * r
<1>1. (c - a) * r = (c - b) * r + (b - a) * r
  OBVIOUS
<1>2. b <= c => (c - b) * r >= 0
  OBVIOUS
<1>3. (c - a) * r \in Int /\ (c - b) * r \in Int /\ (b - a) * r \in Int
  OBVIOUS
<1> QED BY <1>1, <1>2, <1>3

(* A call that enters the critical section of allow with a clock at finds   *)
(* no more tokens than were left and refilled, and takes one of them.       *)
LEMMA Taken ==
    ASSUME NEW tokens \in Int, NEW left \in Int, NEW at \in Int, NEW last \in Int, NEW first \in Int,
           NEW t \in Int, NEW n \in Int, NEW m \in Int, at <= t,
           MaxTokens \in Nat, Refill \in Nat,
           tokens <= left + (at - last) * Refill,
           left + n <= MaxTokens + (last - first) * Refill,
           n <= MaxTokens + (t - first) * Refill,
           \/ tokens >= 1 /\ m = n + 1
           \/ m = n
    PROVE  /\ m = n + 1 => (tokens - 1) + m <= MaxTokens + (at - first) * Refill
           /\ m = n => tokens + m <= MaxTokens + (at - first) * Refill
           /\ m <= MaxTokens + (t - first) * Refill
<1> DEFINE x == (at - first) * Refill  y == (at - last) * Refill  z == (last - first) * Refill
           w == (t - first) * Refill
<1>1. x \in Int /\ y \in Int /\ z \in Int /\ w \in Int /\ x = y + z /\ x <= w
  BY Refilled
<1>2. tokens <= left + y /\ left + n <= MaxTokens + z /\ n <= MaxTokens + w
  OBVIOUS
<1> HIDE DEF x, y, z, w
<1>3. /\ m = n + 1 => (tokens - 1) + m <= MaxTokens + x
      /\ m = n => tokens + m <= MaxTokens + x
      /\ m <= MaxTokens + w
  BY <1>1, <1>2
<1> QED BY <1>3 DEF x, w

(* The critical section of allow, whatever clock it was entered with.       *)
LEMMA ConsumeKept ==
    ASSUME RateInv, NEW a \in Threads, Rate!Consume(a)
    PROVE  RateInv'
<1> DEFINE at == asking[a]  tokens == Rate!Filled(at)
<1>1. /\ at \in Int /\ at # -1 /\ at <= now
      /\ now' = now /\ began' = IF began = -1 THEN at ELSE began
      /\ asking' = [asking EXCEPT ![a] = -1]
      /\ \/ /\ tokens >= 1 /\ allowed' = allowed + 1
            /\ bucket' = [tokens |-> tokens - 1, last |-> at]
         \/ /\ allowed' = allowed
            /\ bucket' = [tokens |-> tokens, last |-> at]
  BY DEF Rate!Consume, RateInv
<1>2. MaxTokens \in Nat /\ Refill \in Nat
  BY ComponentAssumptions DEF Rate!BucketAssumption
<1>3. /\ now \in Int /\ began \in Int /\ allowed \in Int
      /\ bucket.tokens \in Int /\ bucket.last \in Int
  BY DEF RateInv
<1>4. tokens \in Int /\ began' \in Int /\ began' # -1
  BY <1>1, <1>2, <1>3 DEF Rate!Filled, Rate!Least
<1>5. \E left, last \in Int :
         /\ tokens <= left + (at - last) * Refill
         /\ left + allowed <= MaxTokens + (last - began') * Refill
         /\ allowed <= MaxTokens + (now - began') * Refill
  <2>1. CASE bucket.last = -1
    <3>1. began' = at /\ allowed = 0 /\ tokens = MaxTokens
      BY <1>1, <2>1 DEF RateInv, Rate!Filled
    <3>2. (at - at) * Refill = 0 /\ (at - at) * Refill <= (now - at) * Refill
          /\ (now - at) * Refill \in Int
      <4>1. (at - at) * Refill = 0
        BY <1>1, <1>2
      <4> HIDE DEF at
      <4> QED BY <1>1, <1>2, <1>3, <4>1, Refilled
    <3> HIDE DEF at, tokens
    <3>3. at \in Int /\ MaxTokens \in Int
      BY <1>1, <1>2 DEF at
    <3>4. /\ tokens <= MaxTokens + (at - at) * Refill
          /\ MaxTokens + allowed <= MaxTokens + (at - began') * Refill
          /\ allowed <= MaxTokens + (now - began') * Refill
      BY <1>2, <3>1, <3>2, <3>3
    <3> QED BY <3>3, <3>4
  <2>2. CASE bucket.last # -1
    <3>1. /\ bucket.tokens + allowed <= MaxTokens + (bucket.last - began) * Refill
          /\ allowed <= MaxTokens + (now - began) * Refill
          /\ began' = began
      BY <1>1, <2>2 DEF RateInv, Rate!RateBounded
    <3>2. tokens <= bucket.tokens + (at - bucket.last) * Refill
      BY <1>1, <1>2, <1>3, <2>2 DEF Rate!Filled, Rate!Least
    <3> HIDE DEF at, tokens
    <3> QED BY <1>3, <3>1, <3>2
  <2> QED BY <2>1, <2>2
<1>6. PICK left, last \in Int :
         /\ tokens <= left + (at - last) * Refill
         /\ left + allowed <= MaxTokens + (last - began') * Refill
         /\ allowed <= MaxTokens + (now - began') * Refill
  BY <1>5
<1> HIDE DEF at, tokens
<1>7. allowed' \in Int
  BY <1>1, <1>3
<1> DEFINE f == began'  m == allowed'
<1>8. /\ f \in Int /\ m \in Int /\ at \in Int /\ at <= now
      /\ ((tokens >= 1 /\ m = allowed + 1) \/ m = allowed)
      /\ left + allowed <= MaxTokens + (last - f) * Refill
      /\ allowed <= MaxTokens + (now - f) * Refill
  BY <1>1, <1>4, <1>6, <1>7 DEF at
<1> HIDE DEF f, m
<1>9. /\ m = allowed + 1 => (tokens - 1) + m <= MaxTokens + (at - f) * Refill
      /\ m = allowed => tokens + m <= MaxTokens + (at - f) * Refill
      /\ m <= MaxTokens + (now - f) * Refill
  BY <1>2, <1>3, <1>4, <1>6, <1>8, Taken
<1>10. /\ allowed' = allowed + 1 => (tokens - 1) + allowed' <= MaxTokens + (at - began') * Refill
       /\ allowed' = allowed => tokens + allowed' <= MaxTokens + (at - began') * Refill
       /\ allowed' <= MaxTokens + (now - began') * Refill
  BY <1>9 DEF f, m
<1>11. /\ bucket'.last = at /\ bucket'.tokens \in Int /\ DOMAIN bucket' = {"tokens", "last"}
       /\ bucket'.tokens + allowed' <= MaxTokens + (at - began') * Refill
  BY <1>1, <1>3, <1>4, <1>10
<1>12. Rate!RateBounded'
  BY <1>1, <1>10, <1>11 DEF Rate!RateBounded
<1>13. DOMAIN asking' = Threads /\ \A b \in Threads : asking'[b] \in Int /\ asking'[b] <= now'
  BY <1>1 DEF RateInv
<1> QED BY <1>1, <1>3, <1>4, <1>7, <1>11, <1>12, <1>13 DEF RateInv

(* A step of the token bucket keeps its invariant.                          *)
LEMMA RateKept == RateInv /\ [Rate!Next]_(Rate!vars) => RateInv'
<1> SUFFICES ASSUME RateInv, [Rate!Next]_(Rate!vars)
             PROVE  RateInv'
  OBVIOUS
<1>1. CASE Rate!Pass
  <2>1. now' = now + 1 /\ UNCHANGED <<bucket, asking, allowed, began>>
    BY <1>1 DEF Rate!Pass
  <2>2. Refill \in Nat /\ MaxTokens \in Nat /\ {now, began, allowed} \subseteq Int
    BY ComponentAssumptions DEF Rate!BucketAssumption, RateInv
  <2>3. (now - began) * Refill <= (now' - began) * Refill
    BY <2>1, <2>2, Refilled
  <2>4. (now - began) * Refill \in Int /\ (now' - began) * Refill \in Int
    BY <2>1, <2>2
  <2>5. Rate!RateBounded'
    BY <2>1, <2>2, <2>3, <2>4 DEF RateInv, Rate!RateBounded
  <2> QED BY <2>1, <2>5 DEF RateInv
<1>2. ASSUME NEW a \in Threads, Rate!ReadClock(a)
      PROVE  RateInv'
  BY <1>2 DEF Rate!ReadClock, RateInv, Rate!RateBounded
<1>3. CASE UNCHANGED Rate!vars
  BY <1>3 DEF Rate!vars, RateInv, Rate!RateBounded
<1> QED BY <1>1, <1>2, <1>3, ConsumeKept DEF Rate!Next

-----------------------------------------------------------------------------
(* A set of naturals that is not empty has a least element: the sets 0..m   *)
(* of its elements are finite, and one of them has none of the others in it.*)
LEMMA LeastNumber ==
    ASSUME NEW T \in SUBSET Nat, T # {}
    PROVE  \E m \in T : \A y \in T : m <= y
<1> DEFINE R == StrictSubsetOrdering(Nat)
           F == FiniteSubsetsOf(Nat)
           Below == {0..m : m \in T}
<1>1. IsWellFoundedOn(R, F)
  BY FS_StrictSubsetOrderingWellFounded
<1>2. Below \subseteq F
  <2>1. ASSUME NEW m \in T
        PROVE  0..m \in F
    <3>1. m \in Int /\ 0 \in Int /\ 0..m \subseteq Nat
      OBVIOUS
    <3>2. IsFiniteSet(0..m)
      BY <3>1, FS_Interval
    <3> QED BY <3>1, <3>2 DEF FiniteSubsetsOf
  <2> QED BY <2>1
<1>3. Below # {}
  OBVIOUS
<1>4. PICK x \in Below : \A y \in Below : ~ (<<y, x>> \in R)
  <2> HIDE DEF R, F, Below
  <2> QED BY <1>1, <1>2, <1>3, WFMin
<1>5. PICK m \in T : x = 0..m
  OBVIOUS
<1>6. ASSUME NEW y \in T
      PROVE  m <= y
  <2>1. <<0..y, x>> \notin R
    BY <1>4
  <2>2. m \in Nat /\ y \in Nat
    OBVIOUS
  <2>3. CASE y < m
    <3>1. 0..y \subseteq 0..m /\ 0..y # 0..m /\ 0..y \in SUBSET Nat /\ 0..m \in SUBSET Nat
      <4>1. m \in 0..m /\ m \notin 0..y
        BY <2>2, <2>3
      <4>2. \A z \in 0..y : z \in 0..m
        BY <2>2, <2>3
      <4> QED BY <2>2, <4>1, <4>2
    <3>2. <<0..y, 0..m>> \in R
      BY <3>1 DEF StrictSubsetOrdering
    <3> QED BY <1>5, <2>1, <3>2
  <2> QED BY <2>2, <2>3
<1> QED BY <1>6

-----------------------------------------------------------------------------
Ascending(s) == \A i, j \in 1..Len(s) : i <= j => s[i] <= s[j]

(* After its first so many entries, s goes on as kept.                      *)
EndsAfter(s, n, kept) ==
    /\ n \in 0..Len(s) /\ kept \in Seq(Int) /\ Len(kept) = Len(s) - n
    /\ \A i \in 1..Len(kept) : kept[i] = s[n + i]

(* Requests are noted in the order of the clock, and what the limit has     *)
(* forgotten are the first of them, all of them out of the window.          *)
IntelInv ==
    /\ moment \in Int /\ granted \in Seq(Int) /\ Ascending(granted)
    /\ \A i \in 1..Len(granted) : granted[i] <= moment
    /\ \E n \in 0..Len(granted) :
          /\ EndsAfter(granted, n, stamps)
          /\ \A i \in 1..n : granted[i] + RateWindow <= moment
    /\ Intel!WindowBounded

(* The invariant of the adaptive response, at the start.                    *)
LEMMA IntelStarts == Intel!Init => IntelInv
<1> SUFFICES ASSUME Intel!Init
             PROVE  IntelInv
  OBVIOUS
<1>1. moment = 0 /\ stamps = <<>> /\ granted = <<>>
  BY DEF Intel!Init
<1>2. <<>> \in Seq(Int) /\ Len(<<>>) = 0 /\ DOMAIN <<>> = {}
  OBVIOUS
<1>3. EndsAfter(granted, 0, stamps) /\ Ascending(granted)
  BY <1>1, <1>2 DEF EndsAfter, Ascending
<1>4. Intel!WindowBounded
  BY <1>1, <1>2 DEF Intel!WindowBounded
<1> QED BY <1>1, <1>2, <1>3, <1>4 DEF IntelInv

(* Of stamps that ascend, _check_rate_limit keeps those in the window: what *)
(* it forgets comes first and is out of it.                                 *)
LEMMA RecentKeeps ==
    ASSUME NEW s \in Seq(Int), moment \in Int, RateWindow \in Int
    PROVE  \E n \in 0..Len(s) :
              /\ EndsAfter(s, n, Intel!Recent(s))
              /\ \A i \in 1..n : s[i] + RateWindow <= moment
              /\ Ascending(s) =>
                    \A i \in 1..Len(Intel!Recent(s)) : Intel!Recent(s)[i] + RateWindow > moment
<1> DEFINE inside == {i \in DOMAIN s : s[i] + RateWindow > moment}
           T == inside \cup {Len(s) + 1}
           m == Intel!Min(T)
<1>1. /\ Len(s) \in Nat /\ DOMAIN s = 1..Len(s)
      /\ \A i \in 1..Len(s) : s[i] \in Int
  BY LenProperties, ElementOfSeq
<1>2. T \in SUBSET Nat /\ T # {} /\ \A i \in T : i \in 1..(Len(s) + 1)
  BY <1>1
<1>3. m \in T /\ \A y \in T : m <= y
  <2>1. \E x \in T : \A y \in T : x <= y
    <3> HIDE DEF T
    <3> QED BY <1>2, LeastNumber
  <2> HIDE DEF T
  <2> QED BY <2>1 DEF Intel!Min
<1>4. m \in 1..(Len(s) + 1)
  BY <1>2, <1>3
<1>5. \A i \in 1..(m - 1) : s[i] + RateWindow <= moment
  <2>1. ASSUME NEW i \in 1..(m - 1)
        PROVE  s[i] + RateWindow <= moment
    <3>1. i \in 1..Len(s) /\ i < m /\ s[i] \in Int
      <4> HIDE DEF m
      <4> QED BY <1>1, <1>4, <2>1
    <3>2. i \notin inside
      <4>1. ~ (m <= i)
        <5> HIDE DEF m
        <5> QED BY <1>4, <3>1
      <4> HIDE DEF m, inside
      <4> QED BY <1>3, <4>1
    <3> QED BY <1>1, <3>1, <3>2
  <2> QED BY <2>1
<1>6. Intel!Recent(s) = SubSeq(s, m, Len(s))
  BY DEF Intel!Recent, Intel!Latest
<1>7. m <= Len(s) => s[m] + RateWindow > moment
  BY <1>1, <1>3
<1> HIDE DEF m, T, inside
<1>8. /\ Intel!Recent(s) \in Seq(Int)
      /\ Len(Intel!Recent(s)) = Len(s) - (m - 1)
      /\ \A i \in 1..(Len(s) - m + 1) : Intel!Recent(s)[i] = s[m + i - 1]
  <2>1. m \in Int /\ Len(s) \in Int /\ \A i \in m..Len(s) : s[i] \in Int
    BY <1>1, <1>4
  <2>2. /\ SubSeq(s, m, Len(s)) \in Seq(Int)
        /\ Len(SubSeq(s, m, Len(s))) = IF m <= Len(s) THEN Len(s) - m + 1 ELSE 0
        /\ \A i \in 1..(Len(s) - m + 1) : SubSeq(s, m, Len(s))[i] = s[m + i - 1]
    BY <2>1, SubSeqProperties
  <2>3. (IF m <= Len(s) THEN Len(s) - m + 1 ELSE 0) = Len(s) - (m - 1)
    BY <1>1, <1>4
  <2> QED BY <1>6, <2>2, <2>3
<1>9. EndsAfter(s, m - 1, Intel!Recent(s))
  <2>1. m - 1 \in 0..Len(s) /\ Len(s) - (m - 1) = Len(s) - m + 1
    BY <1>1, <1>4
  <2>2. \A i \in 1..(Len(s) - m + 1) : Intel!Recent(s)[i] = s[(m - 1) + i]
    <3>1. \A i \in 1..(Len(s) - m + 1) : m + i - 1 = (m - 1) + i
      BY <1>1, <1>4
    <3> QED BY <1>8, <3>1
  <2> QED BY <1>8, <2>1, <2>2 DEF EndsAfter
<1>10. ASSUME Ascending(s), NEW i \in 1..Len(Intel!Recent(s))
       PROVE  Intel!Recent(s)[i] + RateWindow > moment
  <2>1. /\ i \in 1..(Len(s) - m + 1) /\ m \in 1..Len(s)
        /\ m + i - 1 \in 1..Len(s) /\ m <= m + i - 1
    BY <1>1, <1>4, <1>8
  <2>2. s[m] <= s[m + i - 1] /\ s[m] \in Int /\ s[m + i - 1] \in Int
    BY <1>1, <1>10, <2>1 DEF Ascending
  <2>3. s[m] + RateWindow > moment
    BY <1>7, <2>1
  <2>4. Intel!Recent(s)[i] = s[m + i - 1]
    BY <1>8, <2>1
  <2> QED BY <2>2, <2>3, <2>4
<1>11. m - 1 \in 0..Len(s)
  BY <1>1, <1>4
<1> QED BY <1>5, <1>9, <1>10, <1>11

(* An end of an end is an end, and nothing it left out is in the window.    *)
LEMMA EndOfEnd ==
    ASSUME NEW g \in Seq(Int), NEW s \in Seq(Int), NEW t \in Seq(Int), NEW n \in Int, NEW m \in Int,
           moment \in Int, RateWindow \in Int,
           EndsAfter(g, n, s), EndsAfter(s, m, t),
           \A i \in 1..n : g[i] + RateWindow <= moment,
           \A i \in 1..m : s[i] + RateWindow <= moment
    PROVE  /\ n + m \in 0..Len(g) /\ EndsAfter(g, n + m, t)
           /\ \A i \in 1..(n + m) : g[i] + RateWindow <= moment
<1>1. Len(g) \in Nat /\ Len(s) \in Nat /\ Len(t) \in Nat
  OBVIOUS
<1>2. /\ n \in 0..Len(g) /\ Len(s) = Len(g) - n /\ m \in 0..Len(s) /\ Len(t) = Len(s) - m
      /\ \A i \in 1..Len(s) : s[i] = g[n + i]
      /\ \A i \in 1..Len(t) : t[i] = s[m + i]
  BY DEF EndsAfter
<1>3. n + m \in 0..Len(g) /\ Len(t) = Len(g) - (n + m)
  BY <1>1, <1>2
<1>4. ASSUME NEW i \in 1..Len(t)
      PROVE  t[i] = g[(n + m) + i]
  <2>1. m + i \in 1..Len(s) /\ n + (m + i) = (n + m) + i
    BY <1>1, <1>2
  <2> QED BY <1>2, <2>1
<1>5. ASSUME NEW i \in 1..(n + m)
      PROVE  g[i] + RateWindow <= moment
  <2>1. CASE i <= n
    BY <1>2, <1>5, <2>1
  <2>2. CASE i > n
    <3>1. i - n \in 1..m /\ i - n \in 1..Len(s) /\ n + (i - n) = i
      BY <1>1, <1>2, <1>5, <2>2
    <3>2. s[i - n] = g[i]
      BY <1>2, <3>1
    <3> QED BY <3>1, <3>2
  <2> QED BY <1>2, <1>5, <2>1, <2>2
<1> QED BY <1>3, <1>4, <1>5 DEF EndsAfter

(* A request of an attacker, let through or not.                            *)
LEMMA AdaptKept ==
    ASSUME IntelInv, NEW skill \in Intel!Skills, Intel!Adapt(skill)
    PROVE  IntelInv'
<1> DEFINE kept == Intel!Recent(stamps)
<1>1. RateMax \in Nat \ {0} /\ RateWindow \in Nat
  BY ComponentAssumptions DEF Intel!IntelligenceAssumption
<1>2. /\ moment \in Int /\ granted \in Seq(Int) /\ Ascending(granted)
      /\ \A i \in 1..Len(granted) : granted[i] <= moment
  BY DEF IntelInv
<1>3. PICK n \in 0..Len(granted) :
         /\ EndsAfter(granted, n, stamps)
         /\ \A i \in 1..n : granted[i] + RateWindow <= moment
  BY DEF IntelInv
<1>4. stamps \in Seq(Int)
  BY <1>3 DEF EndsAfter
<1>5. PICK m \in 0..Len(stamps) :
         /\ EndsAfter(stamps, m, kept)
         /\ \A i \in 1..m : stamps[i] + RateWindow <= moment
  BY <1>1, <1>2, <1>4, RecentKeeps
<1> DEFINE k == n + m
<1>6. /\ k \in 0..Len(granted) /\ EndsAfter(granted, k, kept)
      /\ \A i \in 1..k : granted[i] + RateWindow <= moment
  <2>1. n \in Int /\ m \in Int /\ kept \in Seq(Int) /\ RateWindow \in Int
    BY <1>1, <1>3, <1>5 DEF EndsAfter
  <2> HIDE DEF kept
  <2> QED BY <1>2, <1>3, <1>4, <1>5, <2>1, EndOfEnd
<1>7. Len(granted) \in Nat /\ DOMAIN granted = 1..Len(granted)
      /\ \A i \in 1..Len(granted) : granted[i] \in Int
  BY <1>2, LenProperties, ElementOfSeq
<1>8. kept \in Seq(Int) /\ Len(kept) = Len(granted) - k
      /\ \A i \in 1..Len(kept) : kept[i] = granted[k + i]
  BY <1>6 DEF EndsAfter
<1>9. \/ Len(kept) >= RateMax /\ stamps' = kept /\ granted' = granted
      \/ Len(kept) < RateMax /\ stamps' = Append(kept, moment) /\ granted' = Append(granted, moment)
  BY <1>1, <1>8 DEF Intel!Adapt
<1>10. moment' = moment
  BY DEF Intel!Adapt
<1> HIDE DEF k, kept
<1>11. CASE Len(kept) >= RateMax /\ stamps' = kept /\ granted' = granted
  <2>1. Intel!WindowBounded'
    BY <1>11 DEF IntelInv, Intel!WindowBounded
  <2>2. EndsAfter(granted', k, stamps')
    BY <1>6, <1>11
  <2>3. \E j \in 0..Len(granted') :
           EndsAfter(granted', j, stamps') /\ \A i \in 1..j : granted'[i] + RateWindow <= moment'
    BY <1>6, <1>10, <1>11, <2>2
  <2> QED BY <1>2, <1>10, <1>11, <2>1, <2>3 DEF IntelInv, Ascending, EndsAfter
<1>12. CASE Len(kept) < RateMax /\ stamps' = Append(kept, moment) /\ granted' = Append(granted, moment)
  <2> DEFINE g == Append(granted, moment)  s == Append(kept, moment)
  <2>1. /\ g \in Seq(Int) /\ Len(g) = Len(granted) + 1 /\ DOMAIN g = 1..(Len(granted) + 1)
        /\ g[Len(granted) + 1] = moment /\ \A i \in 1..Len(granted) : g[i] = granted[i]
    BY <1>2, <1>7
  <2>2. /\ s \in Seq(Int) /\ Len(s) = Len(kept) + 1 /\ s[Len(kept) + 1] = moment
        /\ \A i \in 1..Len(kept) : s[i] = kept[i]
    BY <1>2, <1>8
  <2> HIDE DEF g, s
  <2>3. \A i \in 1..Len(g) : g[i] \in Int /\ g[i] <= moment
    <3>1. ASSUME NEW i \in 1..Len(g)
          PROVE  g[i] \in Int /\ g[i] <= moment
      <4>1. i = Len(granted) + 1 \/ i \in 1..Len(granted)
        BY <1>7, <2>1, <3>1
      <4> QED BY <1>2, <1>7, <2>1, <4>1
    <3> QED BY <3>1
  <2>4. Ascending(g)
    <3>1. ASSUME NEW i \in 1..Len(g), NEW j \in 1..Len(g), i <= j
          PROVE  g[i] <= g[j]
      <4>1. CASE j = Len(granted) + 1
        BY <2>1, <2>3, <3>1, <4>1
      <4>2. CASE j # Len(granted) + 1
        <5>1. i \in 1..Len(granted) /\ j \in 1..Len(granted)
          BY <1>7, <2>1, <3>1, <4>2
        <5> QED BY <1>2, <2>1, <3>1, <5>1 DEF Ascending
      <4> QED BY <4>1, <4>2
    <3> QED BY <3>1 DEF Ascending
  <2>5. EndsAfter(g, k, s)
    <3>1. k \in 0..Len(g) /\ Len(s) = Len(g) - k
      BY <1>6, <1>7, <1>8, <2>1, <2>2
    <3>2. ASSUME NEW i \in 1..Len(s)
          PROVE  s[i] = g[k + i]
      <4>1. CASE i = Len(kept) + 1
        <5>1. k + i = Len(granted) + 1
          BY <1>6, <1>7, <1>8, <4>1
        <5> QED BY <2>1, <2>2, <4>1, <5>1
      <4>2. CASE i # Len(kept) + 1
        <5>1. i \in 1..Len(kept) /\ k + i \in 1..Len(granted)
          BY <1>6, <1>7, <1>8, <2>2, <4>2
        <5> QED BY <1>8, <2>1, <2>2, <5>1
      <4> QED BY <4>1, <4>2
    <3> QED BY <2>2, <3>1, <3>2 DEF EndsAfter
  <2>6. \A i \in 1..k : g[i] + RateWindow <= moment
    <3>1. \A i \in 1..k : i \in 1..Len(granted)
      BY <1>6, <1>7
    <3> QED BY <1>6, <2>1, <3>1
  <2>7. ASSUME NEW i \in DOMAIN g, i + RateMax \in DOMAIN g
        PROVE  g[i + RateMax] - g[i] >= RateWindow
    <3>1. i \in 1..(Len(granted) + 1) /\ i + RateMax \in 1..(Len(granted) + 1)
      BY <2>1, <2>7
    <3>2. i \in 1..Len(granted) /\ g[i] = granted[i] /\ granted[i] \in Int
      <4>1. i \in 1..Len(granted)
        BY <1>1, <1>7, <3>1
      <4> QED BY <1>7, <2>1, <4>1
    <3>3. CASE i + RateMax = Len(granted) + 1
      <4>1. i \in 1..k
        BY <1>1, <1>6, <1>7, <1>8, <1>12, <3>2, <3>3
      <4>2. granted[i] + RateWindow <= moment /\ g[i + RateMax] = moment
        BY <1>6, <2>1, <3>3, <4>1
      <4> QED BY <1>1, <1>2, <3>2, <4>2
    <3>4. CASE i + RateMax # Len(granted) + 1
      <4>1. i + RateMax \in 1..Len(granted)
        <5> DEFINE h == i + RateMax
        <5>1. h \in 1..(Len(granted) + 1) /\ h # Len(granted) + 1 /\ Len(granted) \in Nat
          BY <1>7, <3>1, <3>4
        <5> HIDE DEF h
        <5>2. h \in 1..Len(granted)
          BY <5>1
        <5> QED BY <5>2 DEF h
      <4>2. g[i + RateMax] = granted[i + RateMax]
        BY <2>1, <4>1
      <4>3. granted[i + RateMax] - granted[i] >= RateWindow
        BY <1>7, <3>2, <4>1 DEF IntelInv, Intel!WindowBounded
      <4> QED BY <3>2, <4>2, <4>3
    <3> QED BY <3>3, <3>4
  <2>8. granted' = g /\ stamps' = s
    BY <1>12 DEF g, s
  <2>9. Intel!WindowBounded'
    BY <2>7, <2>8 DEF Intel!WindowBounded
  <2>10. \E j \in 0..Len(g) :
           EndsAfter(g, j, s) /\ \A i \in 1..j : g[i] + RateWindow <= moment
    <3>1. k \in 0..Len(g)
      BY <1>6, <1>7, <2>1
    <3> QED BY <2>5, <2>6, <3>1
  <2>11. \E j \in 0..Len(granted') :
           EndsAfter(granted', j, stamps') /\ \A i \in 1..j : granted'[i] + RateWindow <= moment'
    BY <1>10, <2>8, <2>10
  <2>12. Ascending(granted') /\ \A i \in 1..Len(granted') : granted'[i] <= moment'
    BY <1>10, <2>3, <2>4, <2>8
  <2> QED BY <1>2, <1>10, <2>1, <2>8, <2>9, <2>11, <2>12 DEF IntelInv, Ascending, EndsAfter
<1> QED BY <1>9, <1>11, <1>12

(* A step of the adaptive response keeps its invariant.                     *)
LEMMA IntelKept == IntelInv /\ [Intel!Next]_(Intel!vars) => IntelInv'
<1> SUFFICES ASSUME IntelInv, [Intel!Next]_(Intel!vars)
             PROVE  IntelInv'
  OBVIOUS
<1>1. ASSUME UNCHANGED <<stamps, granted>>, moment' \in Int, moment <= moment'
      PROVE  IntelInv'
  <2>1. /\ moment \in Int /\ granted \in Seq(Int) /\ RateWindow \in Nat
        /\ \A i \in 1..Len(granted) : granted[i] \in Int /\ granted[i] <= moment
    BY ComponentAssumptions DEF IntelInv, Intel!IntelligenceAssumption
  <2>2. PICK n \in 0..Len(granted) :
           /\ EndsAfter(granted, n, stamps)
           /\ \A i \in 1..n : granted[i] + RateWindow <= moment
    BY DEF IntelInv
  <2>3. \A i \in 1..n : granted[i] + RateWindow <= moment'
    BY <1>1, <2>1, <2>2
  <2>4. \A i \in 1..Len(granted) : granted[i] <= moment'
    BY <1>1, <2>1
  <2>5. Intel!WindowBounded' /\ Ascending(granted')
    BY <1>1 DEF IntelInv, Intel!WindowBounded, Ascending
  <2>6. EndsAfter(granted', n, stamps')
    BY <1>1, <2>2 DEF EndsAfter
  <2> QED BY <1>1, <2>1, <2>2, <2>3, <2>4, <2>5, <2>6 DEF IntelInv, Ascending, EndsAfter
<1>2. moment \in Int
  BY DEF IntelInv
<1>3. CASE Intel!Elapse
  BY <1>1, <1>2, <1>3 DEF Intel!Elapse
<1>4. CASE Intel!Adjust
  BY <1>1, <1>2, <1>4 DEF Intel!Adjust
<1>5. CASE Intel!Clear
  BY <1>1, <1>2, <1>5 DEF Intel!Clear
<1>6. ASSUME NEW k, Intel!Detect(<<>>) \/ Intel!Detect(<<k>>)
      PROVE  IntelInv'
  BY <1>1, <1>2, <1>6 DEF Intel!Detect
<1>7. ASSUME NEW skill, Intel!Determine(skill) \/ Intel!Update(skill)
      PROVE  IntelInv'
  BY <1>1, <1>2, <1>7 DEF Intel!Determine, Intel!Update
<1>8. ASSUME NEW ttps, NEW seen, Intel!Interact(ttps, seen)
      PROVE  IntelInv'
  BY <1>1, <1>2, <1>8 DEF Intel!Interact
<1>9. CASE UNCHANGED Intel!vars
  BY <1>1, <1>2, <1>9 DEF Intel!vars
<1> QED BY <1>3, <1>4, <1>5, <1>6, <1>7, <1>8, <1>9, AdaptKept DEF Intel!Next

-----------------------------------------------------------------------------
(* The kinds of indicator, and the trust a session has left, out of ten     *)
(* thousand: an indicator leaves a part of it.                              *)
Evidence == {"tool", "fingerprint", "sandbox", "aware", "timing"}
Full     == 10000
Trust    == 0 .. 10000
Lessened(v, k) == (v * Intel!Doubt[k]) \div 100
(* What each indicator of a log does to the trust that is left.             *)
Lessens(kinds) == [i \in 1 .. Len(kinds) |-> [v \in Trust |-> Lessened(v, kinds[i])]]

(* Doubt takes something from trust, or nothing.                            *)
LEMMA Doubted == \A k \in Evidence, v \in Trust : Lessened(v, k) \in Trust /\ Lessened(v, k) <= v
<1> TAKE k \in Evidence, v \in Trust
<1>1. Intel!Doubt[k] \in {20, 30, 35, 25, 38}
  BY DEF Intel!Doubt, Evidence
<1> DEFINE d == Intel!Doubt[k]
<1>2. d \in {20, 30, 35, 25, 38} /\ Lessened(v, k) = (v * d) \div 100
  BY <1>1 DEF Lessened
<1> HIDE DEF d
<1>3. v \in Int /\ 0 <= v /\ v <= 10000
  BY DEF Trust
<1>4. (v * d) \div 100 \in Int /\ 0 <= (v * d) \div 100 /\ (v * d) \div 100 <= v
  <2>1. CASE d = 20 BY <1>3, <2>1
  <2>2. CASE d = 30 BY <1>3, <2>2
  <2>3. CASE d = 35 BY <1>3, <2>3
  <2>4. CASE d = 25 BY <1>3, <2>4
  <2>5. CASE d = 38 BY <1>3, <2>5
  <2> QED BY <1>2, <2>1, <2>2, <2>3, <2>4, <2>5
<1> DEFINE e == (v * d) \div 100
<1>5. e \in Int /\ 0 <= e /\ e <= v /\ Lessened(v, k) = e
  BY <1>2, <1>4
<1> HIDE DEF e
<1> QED BY <1>3, <1>5 DEF Trust

(* The steps of a log are as many as its indicators, each of them a step    *)
(* from trust to trust.                                                     *)
LEMMA LessensType ==
    ASSUME NEW kinds \in Seq(Evidence)
    PROVE  /\ Len(kinds) \in Nat /\ DOMAIN kinds = 1 .. Len(kinds)
           /\ \A i \in 1 .. Len(kinds) : kinds[i] \in Evidence
           /\ Lessens(kinds) \in [1 .. Len(kinds) -> [Trust -> Trust]]
           /\ \A i \in 1 .. Len(kinds), v \in Trust : Lessens(kinds)[i][v] = Lessened(v, kinds[i])
<1>1. Len(kinds) \in Nat /\ DOMAIN kinds = 1 .. Len(kinds) /\ \A i \in 1 .. Len(kinds) : kinds[i] \in Evidence
  OBVIOUS
<1>2. \A i \in 1 .. Len(kinds), v \in Trust : Lessened(v, kinds[i]) \in Trust
  BY <1>1, Doubted
<1> QED BY <1>1, <1>2 DEF Lessens

(* What the fold of the confidence comes to, indicator after indicator.     *)
LEMMA ConfidenceRuns ==
    ASSUME NEW kinds \in Seq(Evidence)
    PROVE  \E r \in [0 .. Len(kinds) -> Trust] :
              Runs(r, Len(kinds), Full, Lessens(kinds)) /\ Intel!Confidence(kinds) = Full - r[Len(kinds)]
<1>0. PICK S : S = 1 .. Len(kinds)
  OBVIOUS
<1> DEFINE n == Len(kinds)  G == Lessens(kinds)  c == Downward(n)
           Last(s) == CHOOSE x \in s : \A y \in s : x >= y
           Iterates(k) == k = [s \in SUBSET S |-> IF s = {} THEN Full ELSE Lessened(k[s \ {Last(s)}], kinds[Last(s)])]
<1>1. n \in Nat /\ DOMAIN kinds = S /\ G \in [S -> [Trust -> Trust]]
      /\ \A i \in S, v \in Trust : G[i][v] = Lessened(v, kinds[i])
  BY <1>0, LessensType
<1>a. Full \in Trust
  BY DEF Trust, Full
<1>2. Intel!Confidence(kinds) = Full - (CHOOSE k : Iterates(k))[S]
  BY <1>1 DEF Intel!Confidence, Intel!FoldLeft, Intel!MapThenFoldSet, Intel!Max, Lessened, Full
<1> HIDE DEF G
<1>3. PICK h, r : RunOf(h, r, n, Trust, Full, G)
  <2>1. Stepping(G, n, Trust)
    BY <1>0, <1>1 DEF Stepping
  <2> QED BY <1>1, <1>a, <2>1, FoldRuns
<1>b. /\ h \in [SUBSET S -> Trust] /\ Folds(h, S, Full, G, c) /\ r \in [0 .. n -> Trust] /\ Runs(r, n, Full, G)
      /\ \A k : Follows(k, S, Trust, Full, G, c) => k[S] = r[n]
  BY <1>0, <1>3 DEF RunOf
<1>4. \A s \in SUBSET S : c[s] = Last(s) /\ (s # {} => Last(s) \in S)
  <2>1. \A s \in SUBSET S : c[s] = Last(s)
    BY <1>0 DEF Downward, Topmost
  <2>2. \A s \in SUBSET S : s # {} => c[s] \in s
    BY <1>0, <1>1, DownwardChooses DEF Choosing
  <2> QED BY <2>1, <2>2
<1> HIDE DEF c, Last
<1>5. Iterates(h)
  <2>1. ASSUME NEW s \in SUBSET S
        PROVE  h[s] = IF s = {} THEN Full ELSE Lessened(h[s \ {Last(s)}], kinds[Last(s)])
    <3>1. h[s] = IF s = {} THEN Full ELSE G[c[s]][h[s \ {c[s]}]]
      BY <1>b DEF Folds
    <3>2. s \ {Last(s)} \in SUBSET S
      OBVIOUS
    <3>3. s # {} => Last(s) \in S /\ h[s \ {Last(s)}] \in Trust
      BY <1>b, <1>4, <3>2
    <3>4. CASE s # {}
      <4>1. h[s] = G[Last(s)][h[s \ {Last(s)}]]
        BY <1>4, <3>1, <3>4
      <4>2. G[Last(s)][h[s \ {Last(s)}]] = Lessened(h[s \ {Last(s)}], kinds[Last(s)])
        BY <1>1, <3>3, <3>4
      <4> QED BY <3>4, <4>1, <4>2
    <3> QED BY <3>1, <3>4
  <2> QED BY <1>b, <2>1
<1> DEFINE k == CHOOSE k : Iterates(k)
<1>6. Iterates(k)
  <2> HIDE DEF Iterates
  <2> QED BY <1>5
<1>7. Follows(k, S, Trust, Full, G, c)
  <2> HIDE DEF k
  <2>1. \A s \in SUBSET S : k[s] = IF s = {} THEN Full ELSE Lessened(k[s \ {Last(s)}], kinds[Last(s)])
    BY <1>6
  <2>2. ASSUME NEW s \in SUBSET S, s # {}, k[s \ {c[s]}] \in Trust
        PROVE  k[s] = G[c[s]][k[s \ {c[s]}]]
    <3>1. c[s] = Last(s) /\ c[s] \in S
      BY <1>4, <2>2
    <3>2. k[s] = Lessened(k[s \ {c[s]}], kinds[c[s]])
      BY <2>1, <2>2, <3>1
    <3>3. G[c[s]][k[s \ {c[s]}]] = Lessened(k[s \ {c[s]}], kinds[c[s]])
      BY <1>1, <2>2, <3>1
    <3> QED BY <3>2, <3>3
  <2>3. {} \in SUBSET S /\ k[{}] = Full
    BY <2>1
  <2> QED BY <2>2, <2>3 DEF Follows
<1> HIDE DEF k, Iterates
<1>8. k[S] = r[n]
  BY <1>b, <1>7
<1>9. Intel!Confidence(kinds) = Full - r[n]
  <2>1. Intel!Confidence(kinds) = Full - k[S]
    BY <1>2 DEF k
  <2> QED BY <1>8, <2>1
<1> QED BY <1>b, <1>9 DEF G

(* Another indicator never makes the detector less sure.                    *)
LEMMA ConfidenceGrows ==
    ASSUME NEW kinds \in Seq(Evidence), NEW k \in Evidence
    PROVE  /\ Intel!Confidence(kinds) \in Int /\ Intel!Confidence(Append(kinds, k)) \in Int
           /\ Intel!Confidence(Append(kinds, k)) >= Intel!Confidence(kinds)
<1> DEFINE n == Len(kinds)  more == Append(kinds, k)
<1>1. /\ more \in Seq(Evidence) /\ Len(more) = n + 1 /\ n \in Nat
      /\ more[n + 1] = k /\ \A i \in 1 .. n : more[i] = kinds[i]
  OBVIOUS
<1> HIDE DEF more
<1>2. PICK r \in [0 .. n -> Trust] : Runs(r, n, Full, Lessens(kinds)) /\ Intel!Confidence(kinds) = Full - r[n]
  BY ConfidenceRuns
<1>3. PICK q \in [0 .. n + 1 -> Trust] :
          Runs(q, n + 1, Full, Lessens(more)) /\ Intel!Confidence(more) = Full - q[n + 1]
  BY <1>1, ConfidenceRuns
<1>4. q[n + 1] <= q[n] /\ q[n] \in Trust /\ q[n + 1] \in Trust
  <2>1. n + 1 \in 1 .. n + 1 /\ n \in 0 .. n + 1 /\ n + 1 \in 0 .. n + 1 /\ n + 1 - 1 = n
    BY <1>1
  <2>2. q[n] \in Trust /\ q[n + 1] \in Trust
    BY <1>3, <2>1
  <2>3. q[n + 1] = Lessens(more)[n + 1][q[n]]
    BY <1>3, <2>1 DEF Runs
  <2>4. Lessens(more)[n + 1][q[n]] = Lessened(q[n], k)
    BY <1>1, <2>1, <2>2, LessensType
  <2> QED BY <2>2, <2>3, <2>4, Doubted
<1>5. r[n] = q[n]
  <2>1. Runs(q, n, Full, Lessens(more))
    BY <1>1, <1>3 DEF Runs
  <2>2. ASSUME NEW i \in 1 .. n
        PROVE  Lessens(kinds)[i][r[i - 1]] = Lessens(more)[i][r[i - 1]]
    <3>1. i \in 1 .. n + 1 /\ i - 1 \in 0 .. n
      BY <1>1
    <3>2. r[i - 1] \in Trust
      BY <1>2, <3>1
    <3> QED BY <1>1, <3>1, <3>2, LessensType
  <2> HIDE DEF n
  <2>3. n \in Nat /\ Runs(r, n, Full, Lessens(kinds))
    BY <1>1, <1>2
  <2>4. \A i \in 0 .. n : r[i] = q[i]
    <3>1. SameSteps(r, n, Lessens(kinds), Lessens(more))
      BY <2>2 DEF SameSteps
    <3> QED BY <2>1, <2>3, <3>1, RunsAgree
  <2> QED BY <1>1, <2>4
<1>6. r[n] \in Trust
  BY <1>1, <1>2
<1> DEFINE a == r[n]  b == q[n + 1]
<1>7. a \in Int /\ b \in Int /\ b <= a
  <2>1. a \in Trust /\ b \in Trust /\ b <= a
    BY <1>4, <1>5, <1>6
  <2> HIDE DEF a, b
  <2> QED BY <2>1 DEF Trust
<1>8. Intel!Confidence(kinds) = Full - a /\ Intel!Confidence(Append(kinds, k)) = Full - b
  BY <1>2, <1>3 DEF more
<1> HIDE DEF a, b
<1> QED BY <1>7, <1>8 DEF Full

(* What the detector remembers of a session are indicators.                 *)
FadeInv == evidence \in Seq(Evidence)

(* It remembers none at the start.                                          *)
LEMMA FadeStarts == Intel!Init => FadeInv
BY DEF Intel!Init, FadeInv

(* What is remembered is what was, and perhaps one indicator more.          *)
LEMMA Remembering ==
    ASSUME FadeInv, [Intel!Next]_(Intel!vars)
    PROVE  evidence' = evidence \/ \E k \in Evidence : evidence' = Append(evidence, k)
<1>1. evidence \in Seq(Evidence)
  BY DEF FadeInv
<1>2. ASSUME NEW kind \in DOMAIN Intel!Doubt, Intel!Detect(<<>>) \/ Intel!Detect(<<kind>>)
      PROVE  evidence' = evidence \/ \E k \in Evidence : evidence' = Append(evidence, k)
  <2>1. kind \in Evidence
    BY <1>2 DEF Intel!Doubt, Evidence
  <2>2. evidence' = evidence \o <<>> \/ evidence' = evidence \o <<kind>>
    BY <1>2 DEF Intel!Detect, Intel!Remembered
  <2>3. evidence \o <<>> = evidence
    BY <1>1
  <2>4. evidence \o <<kind>> = Append(evidence, kind)
    BY <1>1, <2>1
  <2> QED BY <2>1, <2>2, <2>3, <2>4
<1>3. ASSUME UNCHANGED evidence PROVE evidence' = evidence
  BY <1>3
<1> QED BY <1>2, <1>3 DEF Intel!Next, Intel!vars, Intel!Elapse, Intel!Adjust, Intel!Clear, Intel!Adapt,
          Intel!Determine, Intel!Update, Intel!Interact

(* A step of the detector remembers indicators.                             *)
LEMMA FadeKept == FadeInv /\ [Intel!Next]_(Intel!vars) => FadeInv'
<1> SUFFICES ASSUME FadeInv, [Intel!Next]_(Intel!vars)
             PROVE  FadeInv'
  OBVIOUS
<1>1. evidence \in Seq(Evidence)
  BY DEF FadeInv
<1>2. evidence' \in Seq(Evidence)
  BY <1>1, Remembering
<1> QED BY <1>2 DEF FadeInv

(* A surer detector, with no fewer kinds of indicator, advises no less.     *)
LEMMA AdviceStands ==
    ASSUME NEW old, NEW new, Intel!Confidence(old) \in Int, Intel!Confidence(new) \in Int,
           Intel!Confidence(new) >= Intel!Confidence(old),
           Intel!ToSet(old) \subseteq Intel!ToSet(new)
    PROVE  Intel!Recommendation(old) \subseteq Intel!Recommendation(new)
<1> DEFINE c == Intel!Confidence(old)  d == Intel!Confidence(new)
           S == Intel!ToSet(old)  T == Intel!ToSet(new)
<1>1. c \in Int /\ d \in Int /\ d >= c /\ S \subseteq T
  OBVIOUS
<1>2. /\ c < 6000 \/ ~(d < 6000)
      /\ c > 7000 => d > 7000
      /\ c > 8000 => d > 8000
      /\ c > 7500 => d > 7500
  <2> HIDE DEF c, d, S, T
  <2> QED BY <1>1
<1> SUFFICES ASSUME NEW r \in Intel!Recommendation(old)
             PROVE  r \in Intel!Recommendation(new)
  OBVIOUS
<1> DEFINE All == {"deceive", "reduce", "slow", "flags", "rotate", "any"}
           Advised(x, e, Z) == \/ x = "deceive" /\ "aware" \in Z
                               \/ x = "reduce"  /\ e > 7000
                               \/ x = "slow"    /\ "timing" \in Z
                               \/ x = "flags"   /\ ("aware" \in Z \/ e > 8000)
                               \/ x = "rotate"  /\ e > 7500
                               \/ x = "any"
<1>3. /\ Intel!Recommendation(old) = IF c < 6000 THEN {} ELSE {x \in All : Advised(x, c, S)}
      /\ Intel!Recommendation(new) = IF d < 6000 THEN {} ELSE {x \in All : Advised(x, d, T)}
  BY DEF Intel!Recommendation
<1> HIDE DEF c, d, S, T
<1>4. ~(c < 6000) /\ ~(d < 6000) /\ r \in All /\ Advised(r, c, S)
  <2> HIDE DEF All, Advised
  <2> QED BY <1>1, <1>2, <1>3
<1>5. Advised(r, d, T)
  <2> HIDE DEF All
  <2> QED BY <1>1, <1>2, <1>4
<1> HIDE DEF All, Advised
<1> QED BY <1>3, <1>4, <1>5

(* A step of the detector does not make it less sure, and takes no advice   *)
(* back.                                                                    *)
LEMMA FadesNot == FadeInv /\ [Intel!Next]_(Intel!vars)
                  => \/ UNCHANGED evidence
                     \/ /\ Intel!Confidence(evidence') >= Intel!Confidence(evidence)
                        /\ Intel!Recommendation(evidence) \subseteq Intel!Recommendation(evidence')
<1> SUFFICES ASSUME FadeInv, [Intel!Next]_(Intel!vars), evidence' # evidence
             PROVE  /\ Intel!Confidence(evidence') >= Intel!Confidence(evidence)
                    /\ Intel!Recommendation(evidence) \subseteq Intel!Recommendation(evidence')
  OBVIOUS
<1>1. evidence \in Seq(Evidence)
  BY DEF FadeInv
<1>2. PICK k \in Evidence : evidence' = Append(evidence, k)
  BY Remembering
<1>3. /\ Intel!Confidence(evidence) \in Int /\ Intel!Confidence(evidence') \in Int
      /\ Intel!Confidence(evidence') >= Intel!Confidence(evidence)
  <2> DEFINE more == evidence'
  <2>1. more = Append(evidence, k)
    BY <1>2
  <2> QED BY <1>1, <2>1, ConfidenceGrows
<1>4. Intel!ToSet(evidence) \subseteq Intel!ToSet(evidence')
  <2>1. Intel!ToSet(evidence) = {evidence[i] : i \in DOMAIN evidence}
    BY DEF Intel!ToSet
  <2>2. Intel!ToSet(evidence') = {evidence'[i] : i \in DOMAIN evidence'}
    BY DEF Intel!ToSet
  <2>3. \A i \in DOMAIN evidence : i \in DOMAIN evidence' /\ evidence'[i] = evidence[i]
    BY <1>1, <1>2
  <2> QED BY <2>1, <2>2, <2>3
<1> QED BY <1>3, <1>4, AdviceStands

-----------------------------------------------------------------------------
(* A thread that waits will wake an interval after whatever it released     *)
(* before, and the time of the last request never goes back.                *)
PosterOK(p) ==
    /\ DOMAIN poster[p] = {"pc", "wake", "attempt", "taken", "status"}
    /\ {poster[p].wake, poster[p].attempt, poster[p].taken} \subseteq Int
    /\ 0 <= poster[p].taken /\ poster[p].taken <= poster[p].attempt
    /\ poster[p].attempt <= MaxAttempts
    /\ poster[p].pc \in {"wait", "post"} =>
          poster[p].attempt < MaxAttempts /\ poster[p].status = "none"
    /\ poster[p].status = "ok" => poster[p].taken >= 1
    /\ poster[p].status = "error" => poster[p].attempt = MaxAttempts
    /\ poster[p].pc = "wait" /\ released[p] # <<>> =>
          poster[p].wake >= released[p][Len(released[p])] + Interval

ReleasedOK(p) ==
    /\ released[p] \in Seq(Int)
    /\ \A i \in 2..Len(released[p]) : released[p][i] - released[p][i - 1] >= Interval
    /\ released[p] # <<>> => lastRequest >= released[p][Len(released[p])]

PostInv ==
    /\ time \in Int /\ lastRequest \in Int /\ lastRequest <= time
    /\ DOMAIN poster = Threads /\ DOMAIN released = Threads
    /\ \A p \in Threads : PosterOK(p) /\ ReleasedOK(p)

(* The invariant of the escalations, at the start.                          *)
LEMMA PostStarts == Post!Init => PostInv
BY ComponentAssumptions
   DEF Post!Init, Post!Rest, Post!EscalationAssumption, PostInv, PosterOK, ReleasedOK

(* From the invariant, the property.                                        *)
LEMMA PostHolds == PostInv => Post!EscalationsPaced
BY DEF PostInv, PosterOK, ReleasedOK, Post!EscalationsPaced, Post!Last

(* The end of a wait.                                                       *)
LEMMA WakeKept ==
    ASSUME PostInv, NEW p \in Threads, Post!Wake(p)
    PROVE  PostInv'
<1>1. /\ poster[p].pc = "wait" /\ time >= poster[p].wake /\ time' = time /\ lastRequest' = time
      /\ released' = [released EXCEPT ![p] = Append(released[p], time)]
      /\ poster' = [poster EXCEPT ![p] = [poster[p] EXCEPT !.pc = "post"]]
  BY DEF Post!Wake, Post!Runs
<1>2. Interval \in Int /\ time \in Int /\ lastRequest \in Int /\ lastRequest <= time
  BY ComponentAssumptions DEF Post!EscalationAssumption, PostInv
<1> DEFINE old == released[p]  new == Append(old, time)
<1>3. old \in Seq(Int) /\ PosterOK(p) /\ ReleasedOK(p)
  BY DEF PostInv, ReleasedOK
<1>4. /\ new \in Seq(Int) /\ Len(new) = Len(old) + 1 /\ Len(old) \in Nat
      /\ new[Len(old) + 1] = time /\ \A i \in 1..Len(old) : new[i] = old[i]
  BY <1>2, <1>3
<1>5. old # <<>> => time >= old[Len(old)] + Interval
  BY <1>1, <1>2, <1>3 DEF PosterOK
<1>6. old # <<>> <=> Len(old) > 0
  BY <1>3, EmptySeq, LenProperties
<1> HIDE DEF new
<1>7. \A i \in 1..Len(old) : old[i] \in Int
  BY <1>3
<1>8. \A i \in 2..Len(new) : new[i] - new[i - 1] >= Interval
  <2>1. ASSUME NEW i \in 2..Len(new)
        PROVE  new[i] - new[i - 1] >= Interval
    <3>1. CASE i = Len(old) + 1
      <4>1. i - 1 = Len(old) /\ Len(old) > 0 /\ Len(old) \in 1..Len(old)
        BY <1>4, <2>1, <3>1
      <4>2. new[i] = time /\ new[i - 1] = old[Len(old)] /\ old # <<>>
        BY <1>4, <1>6, <3>1, <4>1
      <4> QED BY <1>2, <1>5, <1>7, <4>1, <4>2
    <3>2. CASE i # Len(old) + 1
      <4>1. i \in Int /\ 2 <= i /\ i <= Len(old)
        BY <1>4, <2>1, <3>2
      <4>2. i \in 1..Len(old) /\ i - 1 \in 1..Len(old) /\ i \in 2..Len(old)
        BY <1>4, <4>1
      <4>3. new[i] = old[i] /\ new[i - 1] = old[i - 1]
        BY <1>4, <4>2
      <4> QED BY <1>3, <4>2, <4>3 DEF ReleasedOK
    <3> QED BY <3>1, <3>2
  <2> QED BY <2>1
<1>9. released'[p] = new /\ new[Len(new)] = time
  BY <1>1, <1>4 DEF new, PostInv
<1>10. ReleasedOK(p)'
  <2>1. released'[p] \in Seq(Int)
    BY <1>4, <1>9
  <2>2. \A i \in 2..Len(released'[p]) : released'[p][i] - released'[p][i - 1] >= Interval
    BY <1>8, <1>9
  <2>3. lastRequest' >= released'[p][Len(released'[p])]
    BY <1>1, <1>2, <1>9
  <2> QED BY <2>1, <2>2, <2>3 DEF ReleasedOK
<1>11. PosterOK(p)'
  <2>1. poster'[p] = [poster[p] EXCEPT !.pc = "post"]
    BY <1>1 DEF PostInv
  <2>2. /\ DOMAIN poster'[p] = {"pc", "wake", "attempt", "taken", "status"}
        /\ poster'[p].pc = "post" /\ poster'[p].wake = poster[p].wake
        /\ poster'[p].attempt = poster[p].attempt /\ poster'[p].taken = poster[p].taken
        /\ poster'[p].status = poster[p].status
    BY <1>3, <2>1 DEF PosterOK
  <2> QED BY <1>1, <1>3, <2>2 DEF PosterOK
<1>12. ASSUME NEW q \in Threads, q # p
       PROVE  PosterOK(q)' /\ ReleasedOK(q)'
  <2>1. poster'[q] = poster[q] /\ released'[q] = released[q]
    BY <1>1, <1>12 DEF PostInv
  <2>2. released[q] # <<>> => released[q][Len(released[q])] \in Int
    <3>1. released[q] \in Seq(Int)
      BY DEF PostInv, ReleasedOK
    <3> QED BY <3>1, EmptySeq, LenProperties
  <2> QED BY <1>1, <1>2, <2>1, <2>2 DEF PostInv, PosterOK, ReleasedOK
<1> QED BY <1>1, <1>2, <1>10, <1>11, <1>12 DEF PostInv

(* A post and its answer.                                                   *)
LEMMA AnswerKept ==
    ASSUME PostInv, NEW p \in Threads, Post!Post(p)
    PROVE  PostInv'
<1>1. poster[p].pc = "post" /\ UNCHANGED <<time, lastRequest, released>>
  BY DEF Post!Post, Post!Runs
<1>2. MaxAttempts \in Int
  BY ComponentAssumptions DEF Post!EscalationAssumption
<1>3. PICK took \in {0, 1}, answer \in {"ok", "failure", "unreadable"} :
         /\ answer # "failure" => took = 1
         /\ poster' = [poster EXCEPT ![p] = Post!Answered(poster[p], took, answer)]
  BY DEF Post!Post
<1>4. PosterOK(p)
  BY DEF PostInv
<1> DEFINE again == poster[p].attempt + 1 < MaxAttempts
           pc == IF answer = "failure" /\ again THEN "post" ELSE "rest"
           status == IF answer = "ok" THEN "ok" ELSE IF answer = "unreadable" THEN "raised"
                     ELSE IF again THEN "none" ELSE "error"
           r == Post!Answered(poster[p], took, answer)
<1>5. /\ DOMAIN poster'[p] = {"pc", "wake", "attempt", "taken", "status"}
      /\ poster'[p].wake = poster[p].wake /\ poster'[p].attempt = poster[p].attempt + 1
      /\ poster'[p].taken = poster[p].taken + took
      /\ poster'[p].pc = pc /\ poster'[p].status = status
  <2>1. /\ DOMAIN r = {"pc", "wake", "attempt", "taken", "status"}
        /\ r.wake = poster[p].wake /\ r.attempt = poster[p].attempt + 1
        /\ r.taken = poster[p].taken + took /\ r.pc = pc /\ r.status = status
    BY <1>4 DEF PosterOK, Post!Answered
  <2> HIDE DEF r, pc, status
  <2>2. poster'[p] = r
    BY <1>3 DEF PostInv, r
  <2> QED BY <2>1, <2>2
<1>6. PosterOK(p)'
  BY <1>1, <1>2, <1>3, <1>4, <1>5 DEF PosterOK
<1>7. ReleasedOK(p)'
  BY <1>1 DEF PostInv, ReleasedOK
<1>8. ASSUME NEW q \in Threads, q # p
      PROVE  PosterOK(q)' /\ ReleasedOK(q)'
  BY <1>1, <1>3, <1>8 DEF PostInv, PosterOK, ReleasedOK
<1> QED BY <1>1, <1>3, <1>6, <1>7, <1>8 DEF PostInv

(* A step of the escalations keeps their invariant.                         *)
LEMMA PostKept == PostInv /\ [Post!Next]_(Post!vars) => PostInv'
<1> SUFFICES ASSUME PostInv, [Post!Next]_(Post!vars)
             PROVE  PostInv'
  OBVIOUS
<1>1. CASE Post!TimePasses
  BY <1>1 DEF Post!TimePasses, PostInv, PosterOK, ReleasedOK
<1>2. ASSUME NEW p \in Threads, Post!Escalate(p)
      PROVE  PostInv'
  <2> DEFINE r == [Post!Rest EXCEPT !.pc = "wait", !.wake = lastRequest + Interval]
  <2>1. /\ poster' = [poster EXCEPT ![p] = r] /\ UNCHANGED <<time, lastRequest, released>>
    BY <1>2 DEF Post!Escalate
  <2>2. MaxAttempts \in Nat \ {0} /\ Interval \in Nat
    BY ComponentAssumptions DEF Post!EscalationAssumption
  <2>3. /\ DOMAIN r = {"pc", "wake", "attempt", "taken", "status"}
        /\ r.pc = "wait" /\ r.wake = lastRequest + Interval /\ r.attempt = 0 /\ r.taken = 0
        /\ r.status = "none"
    BY DEF Post!Rest
  <2> HIDE DEF r
  <2>4. released[p] # <<>> => released[p][Len(released[p])] \in Int
    <3>1. released[p] \in Seq(Int)
      BY DEF PostInv, ReleasedOK
    <3> QED BY <3>1, EmptySeq, LenProperties
  <2>5. PosterOK(p)'
    BY <2>1, <2>2, <2>3, <2>4 DEF PostInv, PosterOK, ReleasedOK
  <2>6. \A q \in Threads : (q # p => PosterOK(q)') /\ ReleasedOK(q)'
    BY <2>1 DEF PostInv, PosterOK, ReleasedOK
  <2> QED BY <2>1, <2>5, <2>6 DEF PostInv
<1>3. CASE UNCHANGED Post!vars
  BY <1>3 DEF Post!vars, PostInv, PosterOK, ReleasedOK
<1> QED BY <1>1, <1>2, <1>3, WakeKept, AnswerKept DEF Post!Next

-----------------------------------------------------------------------------
(* A member more or less moves a cardinality by one.                        *)
LEMMA OneApart ==
    ASSUME NEW A, NEW D, NEW x, IsFiniteSet(A), A \ {x} = D \ {x}
    PROVE  /\ IsFiniteSet(D)
           /\ Cardinality(A) \in Nat /\ Cardinality(D) \in Nat
           /\ Cardinality(D) = Cardinality(A) + (IF x \in D THEN 1 ELSE 0)
                                              - (IF x \in A THEN 1 ELSE 0)
<1> DEFINE S == A \ {x}
<1>0. S = A \ {x} /\ S = D \ {x}
  OBVIOUS
<1>1. IsFiniteSet(S) /\ x \notin S
  BY FS_RemoveElement
<1>2. IsFiniteSet(S \cup {x}) /\ Cardinality(S \cup {x}) = Cardinality(S) + 1
  BY <1>1, FS_AddElement
<1>3. Cardinality(S) \in Nat
  BY <1>1, FS_CardinalityType
<1> HIDE DEF S
<1>4. A = (IF x \in A THEN S \cup {x} ELSE S) /\ D = (IF x \in D THEN S \cup {x} ELSE S)
  BY <1>0
<1>5. Cardinality(A) = Cardinality(S) + (IF x \in A THEN 1 ELSE 0)
  <2>1. CASE x \in A
    BY <1>2, <1>4, <2>1
  <2>2. CASE x \notin A
    <3>1. A = S
      BY <1>4, <2>2
    <3> QED BY <1>3, <2>2, <3>1
  <2> QED BY <2>1, <2>2
<1>6. Cardinality(D) = Cardinality(S) + (IF x \in D THEN 1 ELSE 0)
  <2>1. CASE x \in D
    BY <1>2, <1>4, <2>1
  <2>2. CASE x \notin D
    <3>1. D = S
      BY <1>4, <2>2
    <3> QED BY <1>3, <2>2, <3>1
  <2> QED BY <2>1, <2>2
<1>7. IsFiniteSet(D)
  BY <1>1, <1>2, <1>4
<1> QED BY <1>3, <1>5, <1>6, <1>7

(* Products are monotonic, and a factor more is a summand more.             *)
LEMMA TimesUp ==
    ASSUME NEW m \in Nat, NEW n \in Nat, NEW k \in Nat
    PROVE  /\ m * k \in Nat
           /\ m <= n => m * k <= n * k
           /\ (m + 1) * k = m * k + k
<1>1. (m + 1) * k = m * k + k /\ m * k \in Nat
  OBVIOUS
<1>2. ASSUME m <= n PROVE m * k <= n * k
  <2>1. n - m \in Nat /\ n = m + (n - m)
    BY <1>2
  <2>2. (n - m) * k \in Nat
    BY <2>1
  <2>3. n * k = m * k + (n - m) * k
    BY <2>1
  <2> QED BY <1>1, <2>2, <2>3
<1> QED BY <1>1, <1>2

(* Where a thread can be, and what it will record.                          *)
GuardThread == [pc : {"out", "reset_check", "check", "allow", "call", "reset_record", "record", "success"},
                cost : 0 .. MaxCost]

(* The budgets are overshot by no more than the calls under way can cost;   *)
(* the counter is of the day once the day was noticed, and before that      *)
(* nothing was recorded on it nor is about to be, unless the day is raced.  *)
BudgetInv ==
    /\ clock \in Nat /\ costs \in [total : Nat, daily : Nat, boundary : Nat]
    /\ thread \in [Threads -> GuardThread] /\ today \in Nat
    /\ Guard!OvershootBounded
    /\ costs.boundary <= Guard!Day(clock) + 1
    /\ costs.boundary <= Guard!Day(clock) /\ ~raced =>
          today = 0 /\ \A t \in Threads : thread[t].pc # "record"
    /\ Guard!DailyIsToday

Flying == {t \in Threads : thread[t].pc \in {"allow", "call", "reset_record", "record"}}

(* A tick ends the day or does not.                                         *)
LEMMA DayByDay ==
    ASSUME NEW n \in Nat
    PROVE  /\ Guard!Day(n) \in Nat
           /\ Guard!Day(n + 1) \in {Guard!Day(n), Guard!Day(n) + 1}
<1>1. DayLength \in Nat \ {0}
  BY ComponentAssumptions DEF Guard!GuardsAssumption
<1> DEFINE d == n \div DayLength  e == (n + 1) \div DayLength
           r == n % DayLength  q == (n + 1) % DayLength
<1>2. d \in Nat /\ e \in Nat /\ r \in 0 .. DayLength - 1 /\ q \in 0 .. DayLength - 1
  BY <1>1
<1>3. n = DayLength * d + r /\ n + 1 = DayLength * e + q
  BY <1>1
<1>4. Guard!Day(n) = d /\ Guard!Day(n + 1) = e
  BY DEF Guard!Day
<1> HIDE DEF d, e, r, q
<1>5. DayLength * (e - d) = r + 1 - q
  BY <1>1, <1>2, <1>3
<1>6. e - d \in Int /\ r + 1 - q \in 2 - DayLength .. DayLength
  BY <1>1, <1>2
<1>7. ~(e - d >= 2)
  <2>1. SUFFICES ASSUME e - d >= 2 PROVE FALSE
    OBVIOUS
  <2>2. DayLength * 2 <= DayLength * (e - d)
    BY <1>1, <1>6, <2>1, TimesUp
  <2> QED BY <1>1, <1>5, <1>6, <2>2
<1>8. ~(e - d <= -1)
  <2>1. SUFFICES ASSUME e - d <= -1 PROVE FALSE
    OBVIOUS
  <2>2. d - e \in Nat /\ 1 <= d - e
    BY <1>2, <2>1
  <2>3. DayLength * 1 <= DayLength * (d - e)
    BY <1>1, <2>2, TimesUp
  <2>4. DayLength * (d - e) = -(r + 1 - q)
    BY <1>1, <1>2, <1>5
  <2> QED BY <1>1, <1>6, <2>3, <2>4
<1> QED BY <1>2, <1>4, <1>6, <1>7, <1>8

(* What is in flight, counted as the library counts.                        *)
LEMMA FlyingIs ==
    /\ Guard!InFlight = Cardinality(Flying)
    /\ Guard!InFlight' = Cardinality(Flying')
    /\ Guard!Cardinality(Threads) = Cardinality(Threads)
    /\ IsFiniteSet(Threads)
    /\ Cardinality(Threads) \in Nat
<1>1. \A S : Guard!Cardinality(S) = Cardinality(S)
  BY DEF Guard!Cardinality, Cardinality
<1>2. IsFiniteSet(Threads)
  <2>1. Guard!IsFiniteSet(Threads)
    BY ComponentAssumptions DEF Guard!GuardsAssumption
  <2> QED BY <2>1 DEF Guard!IsFiniteSet, IsFiniteSet
<1>3. Guard!InFlight = Cardinality(Flying) /\ Guard!InFlight' = Cardinality(Flying')
  BY <1>1 DEF Guard!InFlight, Flying
<1> QED BY <1>1, <1>2, <1>3, FS_CardinalityType

(* The counts of a step that moves one thread.                              *)
LEMMA FlyingMoves ==
    ASSUME BudgetInv, NEW t \in Threads, NEW r \in GuardThread, thread' = [thread EXCEPT ![t] = r]
    PROVE  /\ thread' \in [Threads -> GuardThread]
           /\ \A u \in Threads : thread'[u] = IF u = t THEN r ELSE thread[u]
           /\ Cardinality(Flying) \in Nat /\ Cardinality(Flying') \in Nat
           /\ Cardinality(Flying') <= Cardinality(Threads)
           /\ Cardinality(Flying') = Cardinality(Flying) + (IF t \in Flying' THEN 1 ELSE 0)
                                                         - (IF t \in Flying THEN 1 ELSE 0)
<1>1. \A u \in Threads : thread'[u] = IF u = t THEN r ELSE thread[u]
  BY DEF BudgetInv
<1>2. Flying \ {t} = Flying' \ {t}
  BY <1>1 DEF Flying
<1>3. Flying \subseteq Threads /\ Flying' \subseteq Threads
  BY DEF Flying
<1>4. IsFiniteSet(Flying)
  BY <1>3, FlyingIs, FS_Subset
<1> DEFINE F == Flying'
<1>5. F \subseteq Threads /\ Flying \ {t} = F \ {t}
  BY <1>2, <1>3
<1> HIDE DEF F
<1>6. Cardinality(F) <= Cardinality(Threads)
  BY <1>5, FlyingIs, FS_Subset
<1>7. /\ Cardinality(Flying) \in Nat /\ Cardinality(F) \in Nat
      /\ Cardinality(F) = Cardinality(Flying) + (IF t \in F THEN 1 ELSE 0)
                                              - (IF t \in Flying THEN 1 ELSE 0)
  BY <1>4, <1>5, OneApart
<1>8. thread' \in [Threads -> GuardThread]
  BY DEF BudgetInv
<1> QED BY <1>1, <1>6, <1>7, <1>8 DEF F

(* The invariant of the two budgets, at the start.                          *)
LEMMA BudgetStarts == Guard!Init => BudgetInv
<1> SUFFICES ASSUME Guard!Init PROVE BudgetInv
  OBVIOUS
<1> USE ComponentAssumptions DEF Guard!GuardsAssumption
<1>1. /\ clock = 0 /\ costs = [total |-> 0, daily |-> 0, boundary |-> 1] /\ today = 0
      /\ thread = [t \in Threads |-> [pc |-> "out", cost |-> 0]]
  BY DEF Guard!Init, Guard!NotIn
<1>2. Guard!Day(0) = 0
  BY DEF Guard!Day
<1>3. thread \in [Threads -> GuardThread]
  BY <1>1 DEF GuardThread
<1>4. Flying = {}
  BY <1>1 DEF Flying
<1>5. Cardinality(Flying) = 0
  BY <1>4, FS_EmptySet
<1>6. Cardinality(Threads) * MaxCost \in Nat
  BY FlyingIs
<1>7. Guard!OvershootBounded
  BY <1>1, <1>5, <1>6, FlyingIs DEF Guard!OvershootBounded
<1> QED BY <1>1, <1>2, <1>3, <1>7 DEF BudgetInv, Guard!DailyIsToday

(* Money and threads: the step of a thread that neither counts nor lets it  *)
(* into the calls under way.                                                *)
LEMMA QuietBudget ==
    ASSUME BudgetInv, NEW t \in Threads, NEW r \in GuardThread, thread' = [thread EXCEPT ![t] = r],
           r.pc \in {"allow", "call", "reset_record", "record"} => t \in Flying,
           costs'.total = costs.total, costs'.daily \in {costs.daily, 0}
    PROVE  Guard!OvershootBounded'
<1> DEFINE n == Cardinality(Flying)  m == Cardinality(Flying')
<1>1. n \in Nat /\ m \in Nat /\ m <= n
  <2>1. t \in Flying' => t \in Flying
    BY FlyingMoves DEF Flying
  <2>2. /\ n \in Nat /\ m \in Nat
        /\ m = n + (IF t \in Flying' THEN 1 ELSE 0) - (IF t \in Flying THEN 1 ELSE 0)
    BY FlyingMoves
  <2> HIDE DEF n, m
  <2> QED BY <2>1, <2>2
<1>2. MaxCost \in Nat
  BY ComponentAssumptions DEF Guard!GuardsAssumption
<1>3. Guard!InFlight = n /\ Guard!InFlight' = m
  BY FlyingIs
<1> HIDE DEF n, m
<1>4. m * MaxCost <= n * MaxCost /\ m * MaxCost \in Nat /\ n * MaxCost \in Nat
  BY <1>1, <1>2, TimesUp
<1>5. costs.daily \in Nat /\ costs.total \in Nat
  BY DEF BudgetInv
<1>6. DailyBudget \in Nat /\ MonthlyBudget \in Nat /\ Cardinality(Threads) * MaxCost \in Nat
  BY <1>2, FlyingIs, TimesUp, ComponentAssumptions DEF Guard!GuardsAssumption
<1>7. /\ costs.daily + n * MaxCost <= DailyBudget - 1 + Cardinality(Threads) * MaxCost
      /\ costs.total + n * MaxCost <= MonthlyBudget - 1 + Cardinality(Threads) * MaxCost
  BY <1>3, FlyingIs DEF BudgetInv, Guard!OvershootBounded
<1> DEFINE x == n * MaxCost  y == m * MaxCost  z == Cardinality(Threads) * MaxCost
<1>8. /\ costs'.daily + y <= DailyBudget - 1 + z
      /\ costs'.total + y <= MonthlyBudget - 1 + z
  <2>1. x \in Nat /\ y \in Nat /\ z \in Nat /\ y <= x /\ costs.daily + x <= DailyBudget - 1 + z
        /\ costs.total + x <= MonthlyBudget - 1 + z
    BY <1>4, <1>6, <1>7
  <2> HIDE DEF x, y, z
  <2> QED BY <1>5, <1>6, <2>1
<1> QED BY <1>3, <1>8, FlyingIs DEF Guard!OvershootBounded

(* A step of the threads keeps the invariant of the budgets.                *)
LEMMA BudgetStays == BudgetInv /\ [Guard!Next]_(Guard!vars) => BudgetInv'
<1> SUFFICES ASSUME BudgetInv, [Guard!Next]_(Guard!vars)
             PROVE  BudgetInv'
  OBVIOUS
<1>a. MaxCost \in Nat /\ DailyBudget \in Nat /\ MonthlyBudget \in Nat
  BY ComponentAssumptions DEF Guard!GuardsAssumption
<1>b. Guard!Day(clock) \in Nat /\ Guard!Day(clock + 1) \in {Guard!Day(clock), Guard!Day(clock) + 1}
  BY DayByDay DEF BudgetInv
<1>c. /\ clock \in Nat /\ costs \in [total : Nat, daily : Nat, boundary : Nat]
      /\ thread \in [Threads -> GuardThread] /\ today \in Nat
  BY DEF BudgetInv
<1>d. Guard!NotIn \in GuardThread
  BY <1>a DEF Guard!NotIn, GuardThread
<1>1. CASE Guard!Tick
  <2>1. /\ clock' = clock + 1 /\ costs' = costs /\ thread' = thread
        /\ today' = IF Guard!Day(clock') = Guard!Day(clock) THEN today ELSE 0
        /\ raced' = IF Guard!Day(clock') = Guard!Day(clock) THEN raced
                    ELSE \E t \in Threads : thread[t].pc = "record"
    BY <1>1 DEF Guard!Tick
  <2>2. Guard!OvershootBounded'
    BY <2>1 DEF BudgetInv, Guard!OvershootBounded, Guard!InFlight
  <2>3. CASE Guard!Day(clock') = Guard!Day(clock)
    BY <1>c, <2>1, <2>2, <2>3 DEF BudgetInv, Guard!DailyIsToday
  <2>4. CASE Guard!Day(clock') = Guard!Day(clock) + 1
    <3>0. Guard!Day(clock') # Guard!Day(clock)
      BY <1>b, <2>4
    <3>1. raced' = \E t \in Threads : thread[t].pc = "record"
      BY <2>1, <3>0, Zenon
    <3>2. today' = 0 /\ costs'.boundary <= Guard!Day(clock')
      BY <1>b, <1>c, <2>1, <2>4 DEF BudgetInv
    <3>3. ~Guard!Day(clock)' < costs'.boundary
      BY <1>b, <1>c, <2>1, <2>4, <3>2
    <3> QED BY <1>b, <1>c, <2>1, <2>2, <2>4, <3>1, <3>2, <3>3 DEF BudgetInv, Guard!DailyIsToday
  <2> QED BY <1>b, <2>1, <2>3, <2>4
<1>2. ASSUME NEW t \in Threads, Guard!Begin(t)
      PROVE  BudgetInv'
  <2> DEFINE r == [thread[t] EXCEPT !.pc = IF Guard!Day(clock) >= costs.boundary THEN "reset_check" ELSE "check"]
  <2>1. /\ thread' = [thread EXCEPT ![t] = r] /\ r \in GuardThread
        /\ r.pc \in {"reset_check", "check"}
        /\ UNCHANGED <<clock, costs, today, raced>>
    BY <1>2, <1>c DEF Guard!Begin, Guard!Go, GuardThread
  <2> HIDE DEF r
  <2>2. Guard!OvershootBounded'
    BY <1>c, <2>1, QuietBudget
  <2>3. /\ thread' \in [Threads -> GuardThread]
        /\ \A u \in Threads : thread'[u] = IF u = t THEN r ELSE thread[u]
    BY <2>1, FlyingMoves
  <2> QED BY <2>1, <2>2, <2>3 DEF BudgetInv, Guard!DailyIsToday
<1>3. ASSUME NEW t \in Threads, NEW after \in {"check", "record"}, Guard!Reset(t, after),
             thread[t].pc = IF after = "check" THEN "reset_check" ELSE "reset_record"
      PROVE  BudgetInv'
  <2> DEFINE r == [thread[t] EXCEPT !.pc = after]
  <2>1. /\ thread' = [thread EXCEPT ![t] = r] /\ r \in GuardThread /\ r.pc = after
        /\ costs' = [costs EXCEPT !.daily = 0, !.boundary = Guard!Day(clock) + 1]
        /\ raced' = (raced \/ costs.boundary > Guard!Day(clock))
        /\ UNCHANGED <<clock, today>>
    BY <1>3, <1>c DEF Guard!Reset, Guard!Go, GuardThread
  <2> HIDE DEF r
  <2>2. r.pc = "record" => t \in Flying
    BY <1>3, <2>1 DEF Flying
  <2>3. /\ costs' \in [total : Nat, daily : Nat, boundary : Nat]
        /\ costs'.total = costs.total /\ costs'.daily = 0 /\ costs'.boundary = Guard!Day(clock) + 1
    <3>1. costs' = [total |-> costs.total, daily |-> 0, boundary |-> Guard!Day(clock) + 1]
      BY <1>c, <2>1
    <3> QED BY <1>b, <1>c, <3>1
  <2>4. Guard!OvershootBounded'
    BY <1>3, <1>c, <2>1, <2>2, <2>3, QuietBudget
  <2>5. thread' \in [Threads -> GuardThread]
    BY <2>1, FlyingMoves
  <2>6. ~raced' => today' = 0
    <3>1. ~raced' => ~raced /\ ~(costs.boundary > Guard!Day(clock))
      BY <2>1, Zenon
    <3>2. ~(costs.boundary > Guard!Day(clock)) => costs.boundary <= Guard!Day(clock)
      BY <1>b, <1>c
    <3> QED BY <2>1, <3>1, <3>2 DEF BudgetInv
  <2>7. Guard!Day(clock)' = Guard!Day(clock)
    BY <2>1 DEF Guard!Day
  <2> QED BY <1>b, <1>c, <2>1, <2>3, <2>4, <2>5, <2>6, <2>7 DEF BudgetInv, Guard!DailyIsToday
<1>4. ASSUME NEW t \in Threads, Guard!Check(t)
      PROVE  BudgetInv'
  <2> DEFINE r == IF Guard!WithinBudget THEN [thread[t] EXCEPT !.pc = "allow"] ELSE Guard!NotIn
  <2>1. /\ thread' = [thread EXCEPT ![t] = r] /\ r \in GuardThread
        /\ r.pc = (IF Guard!WithinBudget THEN "allow" ELSE "out")
        /\ UNCHANGED <<clock, costs, today, raced>>
    BY <1>4, <1>c, <1>d DEF Guard!Check, Guard!Go, Guard!Leave, GuardThread, Guard!NotIn
  <2> HIDE DEF r
  <2>2. /\ thread' \in [Threads -> GuardThread]
        /\ \A u \in Threads : thread'[u] = IF u = t THEN r ELSE thread[u]
    BY <2>1, FlyingMoves
  <2>3. CASE ~Guard!WithinBudget
    <3>1. Guard!OvershootBounded'
      BY <1>c, <2>1, <2>3, QuietBudget
    <3> QED BY <2>1, <2>2, <2>3, <3>1 DEF BudgetInv, Guard!DailyIsToday
  <2>4. CASE Guard!WithinBudget
    <3>1. costs.daily <= DailyBudget - 1 /\ costs.total <= MonthlyBudget - 1
      BY <1>a, <1>c, <2>4 DEF Guard!WithinBudget
    <3> DEFINE m == Cardinality(Flying')  y == m * MaxCost  z == Cardinality(Threads) * MaxCost
    <3>2. m \in Nat /\ m <= Cardinality(Threads) /\ Guard!InFlight' = m
      <4>1. m \in Nat /\ m <= Cardinality(Threads)
        BY <2>1, FlyingMoves
      <4> QED BY <4>1, FlyingIs
    <3> HIDE DEF m
    <3>3. y \in Nat /\ z \in Nat /\ y <= z
      BY <1>a, <3>2, FlyingIs, TimesUp
    <3> HIDE DEF y, z
    <3>4. costs.daily + y <= DailyBudget - 1 + z /\ costs.total + y <= MonthlyBudget - 1 + z
      BY <1>a, <1>c, <3>1, <3>3
    <3>5. Guard!OvershootBounded'
      BY <2>1, <3>2, <3>4, FlyingIs DEF Guard!OvershootBounded, y, z
    <3> QED BY <2>1, <2>2, <2>4, <3>5 DEF BudgetInv, Guard!DailyIsToday
  <2> QED BY <2>3, <2>4
<1>5. ASSUME NEW t \in Threads, Guard!Allow(t) \/ Guard!Fails(t) \/ Guard!Success(t)
      PROVE  BudgetInv'
  <2>1. PICK r \in GuardThread :
          /\ thread' = [thread EXCEPT ![t] = r] /\ r.pc # "record"
          /\ r.pc \in {"allow", "call", "reset_record", "record"} => t \in Flying
          /\ UNCHANGED <<clock, costs, today, raced>>
    <3>1. CASE Guard!Allow(t)
      <4>1. thread' = [thread EXCEPT ![t] = Guard!NotIn]
            \/ thread' = [thread EXCEPT ![t] = [thread[t] EXCEPT !.pc = "call"]]
        BY <3>1 DEF Guard!Allow, Guard!Go, Guard!Leave
      <4>2. t \in Flying /\ UNCHANGED <<clock, costs, today, raced>>
        BY <3>1 DEF Guard!Allow, Flying, Guard!At
      <4>3. [thread[t] EXCEPT !.pc = "call"] \in GuardThread /\ [thread[t] EXCEPT !.pc = "call"].pc = "call"
        BY <1>c DEF GuardThread
      <4> QED BY <1>d, <4>1, <4>2, <4>3 DEF Guard!NotIn
    <3>2. CASE Guard!Fails(t) \/ Guard!Success(t)
      BY <1>d, <3>2 DEF Guard!Fails, Guard!Success, Guard!Leave, Guard!NotIn
    <3> QED BY <1>5, <3>1, <3>2
  <2>2. Guard!OvershootBounded'
    BY <1>c, <2>1, QuietBudget
  <2>3. /\ thread' \in [Threads -> GuardThread]
        /\ \A u \in Threads : thread'[u] = IF u = t THEN r ELSE thread[u]
    BY <2>1, FlyingMoves
  <2> QED BY <2>1, <2>2, <2>3 DEF BudgetInv, Guard!DailyIsToday
<1>6. ASSUME NEW t \in Threads, Guard!Succeeds(t)
      PROVE  BudgetInv'
  <2> DEFINE where == IF Guard!Day(clock) >= costs.boundary THEN "reset_record" ELSE "record"
  <2>1. PICK c \in 0 .. MaxCost : thread' = [thread EXCEPT ![t] = [pc |-> where, cost |-> c]]
    BY <1>6 DEF Guard!Succeeds
  <2> DEFINE r == [pc |-> where, cost |-> c]
  <2>2. r \in GuardThread /\ r.pc = where /\ thread' = [thread EXCEPT ![t] = r]
    BY <2>1 DEF GuardThread
  <2> HIDE DEF r
  <2>3. t \in Flying /\ UNCHANGED <<clock, costs, today, raced>>
    BY <1>6 DEF Guard!Succeeds, Flying, Guard!At
  <2>4. Guard!OvershootBounded'
    BY <1>c, <2>2, <2>3, QuietBudget
  <2>5. /\ thread' \in [Threads -> GuardThread]
        /\ \A u \in Threads : thread'[u] = IF u = t THEN r ELSE thread[u]
    BY <2>2, FlyingMoves
  <2>6. costs.boundary <= Guard!Day(clock) => r.pc = "reset_record"
    BY <1>b, <1>c, <2>2
  <2> QED BY <2>3, <2>4, <2>5, <2>6 DEF BudgetInv, Guard!DailyIsToday
<1>7. ASSUME NEW t \in Threads, Guard!Record(t)
      PROVE  BudgetInv'
  <2> DEFINE c == thread[t].cost
             r == [pc |-> "success", cost |-> 0]
  <2>1. /\ thread' = [thread EXCEPT ![t] = r] /\ thread[t].pc = "record" /\ t \in Flying
        /\ costs' = [costs EXCEPT !.total = @ + c, !.daily = @ + c]
        /\ today' = today + c /\ UNCHANGED <<clock, raced>>
    BY <1>7 DEF Guard!Record, Guard!At, Flying
  <2>2. c \in Nat /\ c <= MaxCost
    BY <1>a, <1>c DEF GuardThread
  <2>3. r \in GuardThread /\ r.pc = "success"
    BY <1>a DEF GuardThread
  <2> HIDE DEF r, c
  <2>4. /\ costs' \in [total : Nat, daily : Nat, boundary : Nat]
        /\ costs'.total = costs.total + c /\ costs'.daily = costs.daily + c /\ costs'.boundary = costs.boundary
    <3>1. costs' = [total |-> costs.total + c, daily |-> costs.daily + c, boundary |-> costs.boundary]
      BY <1>c, <2>1
    <3> QED BY <1>c, <2>2, <3>1
  <2> DEFINE n == Cardinality(Flying)  m == Cardinality(Flying')
             x == n * MaxCost  y == m * MaxCost  z == Cardinality(Threads) * MaxCost
  <2>5. /\ thread' \in [Threads -> GuardThread]
        /\ \A u \in Threads : thread'[u] = IF u = t THEN r ELSE thread[u]
    BY <2>1, <2>3, FlyingMoves
  <2>6. t \notin Flying'
    BY <2>3, <2>5 DEF Flying
  <2>7. n \in Nat /\ m \in Nat /\ n = m + 1
    <3>1. /\ n \in Nat /\ m \in Nat
          /\ m = n + (IF t \in Flying' THEN 1 ELSE 0) - (IF t \in Flying THEN 1 ELSE 0)
      BY <2>1, <2>3, FlyingMoves
    <3> HIDE DEF n, m
    <3> QED BY <2>1, <2>6, <3>1
  <2>8. /\ Guard!InFlight = n /\ Guard!InFlight' = m
        /\ costs.daily + n * MaxCost <= DailyBudget - 1 + Cardinality(Threads) * MaxCost
        /\ costs.total + n * MaxCost <= MonthlyBudget - 1 + Cardinality(Threads) * MaxCost
    BY FlyingIs DEF BudgetInv, Guard!OvershootBounded
  <2> HIDE DEF n, m
  <2>9. x \in Nat /\ y \in Nat /\ z \in Nat /\ x = y + MaxCost
    BY <1>a, <2>7, FlyingIs, TimesUp
  <2>10. costs.daily + x <= DailyBudget - 1 + z /\ costs.total + x <= MonthlyBudget - 1 + z
    BY <2>8
  <2> HIDE DEF x, y, z
  <2>11. costs'.daily + y <= DailyBudget - 1 + z /\ costs'.total + y <= MonthlyBudget - 1 + z
    BY <1>a, <1>c, <2>2, <2>4, <2>9, <2>10
  <2>12. Guard!OvershootBounded'
    BY <2>8, <2>11, FlyingIs DEF Guard!OvershootBounded, y, z
  <2>13. Guard!Day(clock)' = Guard!Day(clock) /\ clock' = clock
    BY <2>1 DEF Guard!Day
  <2>14. Guard!DailyIsToday'
    BY <2>1, <2>4, <2>13 DEF BudgetInv, Guard!DailyIsToday
  <2>15. costs.boundary <= Guard!Day(clock) => raced
    BY <2>1 DEF BudgetInv
  <2>16. today' \in Nat
    BY <1>c, <2>1, <2>2
  <2> QED BY <2>1, <2>4, <2>5, <2>12, <2>13, <2>14, <2>15, <2>16, <1>c DEF BudgetInv
<1>8. CASE UNCHANGED Guard!vars
  BY <1>8 DEF Guard!vars, BudgetInv, Guard!OvershootBounded, Guard!InFlight, Guard!DailyIsToday, Guard!Day
<1> QED BY <1>1, <1>2, <1>3, <1>4, <1>5, <1>6, <1>7, <1>8 DEF Guard!Next, Guard!Resets, Guard!At
=============================================================================
