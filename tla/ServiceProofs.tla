---------------------------- MODULE ServiceProofs ----------------------------
(***************************************************************************)
(* The properties of MCServices that hold for every value of the constants.*)
(* A step of Next moves one component: for every other it is a stutter, so *)
(* that the invariant of each component, which ComponentProofs, EdgeProofs *)
(* and CompletionProofs show to be kept by its own steps, is one of Spec.  *)
(***************************************************************************)
EXTENDS MCServices, ComponentProofs, EdgeProofs, CompletionProofs

-----------------------------------------------------------------------------
(* The components that a behaviour is not of do not move.                   *)
LEMMA OneMoves ==
    ASSUME [Next]_vars, NEW name \in Names, which # name
    PROVE  Still(name)
<1>1. ASSUME NEW other \in Names, On(other), Rest(other)
      PROVE  Still(name)
  BY <1>1 DEF On, Rest
<1>2. CASE UNCHANGED vars
  BY <1>2 DEF vars, Still, Names
<1> QED BY <1>1, <1>2 DEF Next, Names

(* To each component a step of Next is one of its own, or a stutter.        *)
LEMMA GuardMoves == [Next]_vars => [Guard!Next]_(Guard!vars)
<1>1. ASSUME [Next]_vars, which # "guard"
      PROVE  UNCHANGED Guard!vars
  BY <1>1, OneMoves DEF Still, Names, guardVars, Guard!vars
<1>2. ASSUME Next, which = "guard" PROVE  Guard!Next
  BY <1>2 DEF Next, On
<1>3. CASE UNCHANGED vars
  BY <1>3 DEF vars, guardVars, Guard!vars
<1> QED BY <1>1, <1>2, <1>3

LEMMA FeedMoves == [Next]_vars => [Feed!Next]_(Feed!feedVars)
<1>1. ASSUME [Next]_vars, which # "feed"
      PROVE  UNCHANGED Feed!feedVars
  BY <1>1, OneMoves DEF Still, Names, feedVars, Feed!feedVars
<1>2. ASSUME Next, which = "feed" PROVE  Feed!Next
  BY <1>2 DEF Next, On
<1>3. CASE UNCHANGED vars
  BY <1>3 DEF vars, feedVars, Feed!feedVars
<1> QED BY <1>1, <1>2, <1>3

LEMMA ModelMoves == [Next]_vars => [Model!Next]_(Model!vars)
<1>1. ASSUME [Next]_vars, which # "model"
      PROVE  UNCHANGED Model!vars
  BY <1>1, OneMoves DEF Still, Names, modelVars, Model!vars
<1>2. ASSUME Next, which = "model" PROVE  Model!Next
  BY <1>2 DEF Next, On
<1>3. CASE UNCHANGED vars
  BY <1>3 DEF vars, modelVars, Model!vars
<1> QED BY <1>1, <1>2, <1>3

LEMMA ModesMoves == [Next]_vars => [Modes!Next]_(Modes!vars)
<1>1. ASSUME [Next]_vars, which # "modes"
      PROVE  UNCHANGED Modes!vars
  BY <1>1, OneMoves DEF Still, Names, modesVars, Modes!vars
<1>2. ASSUME Next, which = "modes" PROVE  Modes!Next
  BY <1>2 DEF Next, On
<1>3. CASE UNCHANGED vars
  BY <1>3 DEF vars, modesVars, Modes!vars
<1> QED BY <1>1, <1>2, <1>3

LEMMA RollMoves == [Next]_vars => [Roll!Next]_(Roll!vars)
<1>1. ASSUME [Next]_vars, which # "roll"
      PROVE  UNCHANGED Roll!vars
  BY <1>1, OneMoves DEF Still, Names, rollVars, Roll!vars
<1>2. ASSUME Next, which = "roll" PROVE  Roll!Next
  BY <1>2 DEF Next, On
<1>3. CASE UNCHANGED vars
  BY <1>3 DEF vars, rollVars, Roll!vars
<1> QED BY <1>1, <1>2, <1>3

LEMMA DeceiveMoves == [Next]_vars => [Deceive!Next]_(Deceive!vars)
<1>1. ASSUME [Next]_vars, which # "deceive"
      PROVE  UNCHANGED Deceive!vars
  BY <1>1, OneMoves DEF Still, Names, deceiveVars, Deceive!vars, Deceive!store
<1>2. ASSUME Next, which = "deceive" PROVE  Deceive!Next
  BY <1>2 DEF Next, On
<1>3. CASE UNCHANGED vars
  BY <1>3 DEF vars, deceiveVars, Deceive!vars, Deceive!store
<1> QED BY <1>1, <1>2, <1>3

LEMMA RateMoves == [Next]_vars => [Rate!Next]_(Rate!vars)
<1>1. ASSUME [Next]_vars, which # "rate"
      PROVE  UNCHANGED Rate!vars
  BY <1>1, OneMoves DEF Still, Names, rateVars, Rate!vars
<1>2. ASSUME Next, which = "rate" PROVE  Rate!Next
  BY <1>2 DEF Next, On
<1>3. CASE UNCHANGED vars
  BY <1>3 DEF vars, rateVars, Rate!vars
<1> QED BY <1>1, <1>2, <1>3

LEMMA IntelMoves == [Next]_vars => [Intel!Next]_(Intel!vars)
<1>1. ASSUME [Next]_vars, which # "intel"
      PROVE  UNCHANGED Intel!vars
  BY <1>1, OneMoves DEF Still, Names, intelVars, Intel!vars
<1>2. ASSUME Next, which = "intel" PROVE  Intel!Next
  BY <1>2 DEF Next, On
<1>3. CASE UNCHANGED vars
  BY <1>3 DEF vars, intelVars, Intel!vars
<1> QED BY <1>1, <1>2, <1>3

LEMMA PostMoves == [Next]_vars => [Post!Next]_(Post!vars)
<1>1. ASSUME [Next]_vars, which # "post"
      PROVE  UNCHANGED Post!vars
  BY <1>1, OneMoves DEF Still, Names, postVars, Post!vars
<1>2. ASSUME Next, which = "post" PROVE  Post!Next
  BY <1>2 DEF Next, On
<1>3. CASE UNCHANGED vars
  BY <1>3 DEF vars, postVars, Post!vars
<1> QED BY <1>1, <1>2, <1>3

LEMMA SiemMoves == [Next]_vars => [Siem!Next]_(Siem!vars)
<1>1. ASSUME [Next]_vars, which # "siem"
      PROVE  UNCHANGED Siem!vars
  BY <1>1, OneMoves DEF Still, Names, siemVars, Siem!vars
<1>2. ASSUME Next, which = "siem" PROVE  Siem!Next
  BY <1>2 DEF Next, On
<1>3. CASE UNCHANGED vars
  BY <1>3 DEF vars, siemVars, Siem!vars
<1> QED BY <1>1, <1>2, <1>3

LEMMA ChunkMoves == [Next]_vars => [Chunks!Next]_(Chunks!vars)
<1>1. ASSUME [Next]_vars, which # "chunks"
      PROVE  UNCHANGED Chunks!vars
  BY <1>1, OneMoves DEF Still, Names, chunkVars, Chunks!vars
<1>2. ASSUME Next, which = "chunks" PROVE  Chunks!Next
  BY <1>2 DEF Next, On
<1>3. CASE UNCHANGED vars
  BY <1>3 DEF vars, chunkVars, Chunks!vars
<1> QED BY <1>1, <1>2, <1>3

LEMMA ServeMoves == [Next]_vars => [Serve!Next]_(Serve!servingVars)
<1>1. ASSUME [Next]_vars, which # "serve"
      PROVE  UNCHANGED Serve!servingVars
  BY <1>1, OneMoves DEF Still, Names, serveVars, Serve!servingVars
<1>2. ASSUME Next, which = "serve" PROVE  Serve!Next
  BY <1>2 DEF Next, On
<1>3. CASE UNCHANGED vars
  BY <1>3 DEF vars, serveVars, Serve!servingVars
<1> QED BY <1>1, <1>2, <1>3

LEMMA BillMoves == [Next]_vars => [Bill!Next]_(Bill!vars)
<1>1. ASSUME [Next]_vars, which # "bill"
      PROVE  UNCHANGED Bill!vars
  BY <1>1, OneMoves DEF Still, Names, billVars, Bill!vars
<1>2. ASSUME Next, which = "bill" PROVE  Bill!Next
  BY <1>2 DEF Next, On
<1>3. CASE UNCHANGED vars
  BY <1>3 DEF vars, billVars, Bill!vars
<1> QED BY <1>1, <1>2, <1>3

-----------------------------------------------------------------------------
(* The breaker of utils.py:52-104 stays shut for its timeout after the      *)
(* failures that opened it, whatever other threads record:                  *)
(* BlocksAfterFailures, by GuardInv (the last failure is never in the       *)
(* future).                                                                 *)
THEOREM BreakerBlocks == Spec => []BlocksAfterFailures
<1>1. Init => GuardInv
  BY GuardStarts DEF Init
<1>2. GuardInv /\ [Next]_vars => GuardInv'
  BY GuardMoves, GuardKept
<1>3. GuardInv => BlocksAfterFailures
  BY DEF GuardInv, BlocksAfterFailures
<1> QED BY <1>1, <1>2, <1>3, PTL DEF Spec

(* The items of the feeds are returned to one caller and once until the     *)
(* cache is cleared: FedOnce, for any connectors (cti_feeds.py:543-583).    *)
THEOREM ItemsFedOnce == Spec => []FedOnce
<1>1. Init => FeedInv
  BY FeedStarts DEF Init
<1>2. FeedInv /\ [Next]_vars => FeedInv'
  BY FeedMoves, FeedKept
<1>3. FeedInv => FedOnce
  BY DEF FeedInv, FedOnce
<1> QED BY <1>1, <1>2, <1>3, PTL DEF Spec

(* A session is scaled as the model that judges it was trained:             *)
(* ScaledAsTrained, by ModelInv, which follows scaler and model through the *)
(* steps of a training (classifier.py:69-193).                              *)
THEOREM ScaledByItsTraining == Spec => []ScaledAsTrained
<1>1. Init => ModelInv
  BY ModelStarts DEF Init
<1>2. ModelInv /\ [Next]_vars => ModelInv'
  BY ModelMoves, ModelKept
<1>3. ModelInv => ScaledAsTrained
  BY DEF ModelInv, ScaledAsTrained
<1> QED BY <1>1, <1>2, <1>3, PTL DEF Spec

(* What is sent as passed is what was verified, for any situations, experts *)
(* and number of retries: PassedIsAnswered, by ModesInv, which knows where  *)
(* on its plan a call can be (cycle/harness.py:253-271).                    *)
THEOREM PassedStays == Spec => []PassedIsAnswered
<1>1. Init => ModesInv
  BY ModesStarts DEF Init
<1>2. ModesInv /\ [Next]_vars => ModesInv'
  BY ModesMoves, ModesKept
<1>3. ModesInv => PassedIsAnswered
  BY ModesHold DEF PassedIsAnswered
<1> QED BY <1>1, <1>2, <1>3, PTL DEF Spec

(* After every call the harness has its own verifier again, unless two      *)
(* calls replaced it at once: VerifierRestored (cycle/harness.py:556-565).  *)
THEOREM VerifierPutBack == Spec => []VerifierRestored
<1>1. Init => ModesInv
  BY ModesStarts DEF Init
<1>2. ModesInv /\ [Next]_vars => ModesInv'
  BY ModesMoves, ModesKept
<1>3. ModesInv => VerifierRestored
  BY ModesHold DEF VerifierRestored
<1> QED BY <1>1, <1>2, <1>3, PTL DEF Spec

(* No version that its last comparison found to be worse goes on to the     *)
(* next stage, and the stage is where the history leads, through rollbacks, *)
(* crashes and restarts: NoAdvanceOnRegression, by RollInv of the state and *)
(* its file (rollout/manager.py:34-159).                                    *)
THEOREM NoRegressionAdvances == Spec => NoAdvanceOnRegression
<1>1. Init => RollInv
  BY RollStarts DEF Init
<1>2. RollInv /\ [Next]_vars => RollInv' /\ Advances
  BY RollMoves, RollKept
<1>3. RollInv => (On("roll") => Roll!HistoryLeadsToStage)
  BY RollHolds
<1>4. RollInv /\ [Next]_vars => [Advances]_<<state, age, verdict>>
  BY <1>2
<1>5. Spec => [](On("roll") => Roll!HistoryLeadsToStage)
  BY <1>1, <1>2, <1>3, PTL DEF Spec
<1>6. Spec => [][Advances]_<<state, age, verdict>>
  BY <1>1, <1>2, <1>4, PTL DEF Spec
<1>7. [][Advances]_<<state, age, verdict>> => Roll!NoAdvanceOnRegression
  BY PTL DEF Advances, Roll!NoAdvanceOnRegression
<1> QED BY <1>5, <1>6, <1>7, PTL DEF NoAdvanceOnRegression

(* The detector never becomes less sure of a session and takes no advice    *)
(* back, however little the later logs show: DetectionNeverFades            *)
(* (intelligence/evasion_detector.py:222-259), for histories of any length. *)
(* By FadeInv: what is remembered only grows at its end, and an indicator   *)
(* more takes from the trust that the fold over those before it left.       *)
THEOREM DetectionStays == Spec => DetectionNeverFades
<1> DEFINE Stays == /\ Intel!Confidence(evidence') >= Intel!Confidence(evidence)
                    /\ Intel!Recommendation(evidence) \subseteq Intel!Recommendation(evidence')
<1>1. Init => FadeInv
  BY FadeStarts DEF Init
<1>2. FadeInv /\ [Next]_vars => FadeInv' /\ (UNCHANGED evidence \/ Stays)
  BY IntelMoves, FadeKept, FadesNot
<1>3. FadeInv /\ [Next]_vars => [Stays]_evidence
  BY <1>2
<1>4. Spec => [][Stays]_evidence
  BY <1>1, <1>2, <1>3, PTL DEF Spec
<1>5. [][Stays]_evidence => Intel!DetectionNeverFades
  BY PTL DEF Intel!DetectionNeverFades
<1> QED BY <1>4, <1>5, PTL DEF DetectionNeverFades

(* No update of a session is missing in its count unless two calls were in  *)
(* the session at once, for any number of threads and sessions:             *)
(* CountsEveryUpdate, by DeceiveInv, under which a call that is alone in    *)
(* its session holds the count that is there                                *)
(* (hisoka/session_manager.py:67).                                          *)
THEOREM NoCountIsLost == Spec => []CountsEveryUpdate
<1>1. Init => DeceiveInv
  BY DeceiveStarts DEF Init
<1>2. DeceiveInv /\ [Next]_vars => DeceiveInv'
  BY DeceiveMoves, DeceiveKept
<1>3. DeceiveInv => CountsEveryUpdate
  BY DEF DeceiveInv, CountsEveryUpdate
<1> QED BY <1>1, <1>2, <1>3, PTL DEF Spec

(* No danger signal of the model reaches the attacker: SafeAnswers,         *)
(* whatever the two replies are (hisoka/deception.py:588-660).              *)
THEOREM NothingDangerousSent == Spec => []SafeAnswers
<1>1. Init => Deceive!SafeAnswers
  BY SafeStarts DEF Init
<1>2. Deceive!SafeAnswers /\ [Next]_vars => Deceive!SafeAnswers'
  BY DeceiveMoves, SafeKept
<1>3. Deceive!SafeAnswers => SafeAnswers
  BY DEF SafeAnswers
<1> QED BY <1>1, <1>2, <1>3, PTL DEF Spec

(* Of an attacker that was reported as forgotten none of the memories that  *)
(* were listed is left, whatever was remembered meanwhile: ForgottenIfTold, *)
(* by ForgetInv (hisoka/memory.py:389-412).                                 *)
THEOREM ForgottenIsGone == Spec => []ForgottenIfTold
<1>1. Init => ForgetInv
  BY ForgetStarts DEF Init
<1>2. ForgetInv /\ [Next]_vars => ForgetInv'
  BY DeceiveMoves, ForgetKept
<1>3. ForgetInv => ForgottenIfTold
  BY DEF ForgetInv, ForgottenIfTold
<1> QED BY <1>1, <1>2, <1>3, PTL DEF Spec

(* The token bucket, the window of the adaptive response and the pause      *)
(* between escalations let no more through than they are set to, for any    *)
(* number of threads and however their calls interleave: RatesBounded       *)
(* (utils.py:235-247, adaptive_response.py:55-64, chrollo/pipeline.py:      *)
(* 145-150).  What makes it so is, of the bucket, that its tokens and what  *)
(* it let through never exceed what was refilled since the first call; of   *)
(* the window, that what it forgot is the beginning of what it granted; of  *)
(* the pause, that a thread waits for an interval after its own last.       *)
THEOREM RatesHold == Spec => []RatesBounded
<1> DEFINE I == RateInv /\ IntelInv /\ PostInv
<1>1. Init => I
  BY RateStarts, IntelStarts, PostStarts DEF Init
<1>2. I /\ [Next]_vars => I'
  BY RateMoves, IntelMoves, PostMoves, RateKept, IntelKept, PostKept
<1>3. I => RatesBounded
  BY PostHolds DEF RateInv, IntelInv, RatesBounded
<1> QED BY <1>1, <1>2, <1>3, PTL DEF Spec

(* A stage of a call that raises costs its own result and not the answer,   *)
(* but for the routing, and the second try of a completion never raises     *)
(* once the first was answered: StagesContained (cycle/harness.py:196-455,  *)
(* gateway/client.py:92-108), for any situations, experts and retries, and  *)
(* any number of calls and posts.  By StagesInv, which says how often a     *)
(* call has answered from what is left of its plan, and by BillInv, which   *)
(* knows which posts are of the first try and what the cache then holds.    *)
THEOREM StagesCostNoAnswer == Spec => []StagesContained
<1> DEFINE I == StagesInv /\ BillInv
<1>1. Init => I
  BY StagesStart, BillStarts DEF Init
<1>2. I /\ [Next]_vars => I'
  BY ModesMoves, BillMoves, StagesKept, BillKept
<1>3. I => StagesContained
  BY StagesHold, BillHolds DEF StagesContained
<1> QED BY <1>1, <1>2, <1>3, PTL DEF Spec

(* Of the events of a connector only one that was appended during a flush   *)
(* can vanish, none is posted more often than attempts were made of it, and *)
(* the counters account for all that no flush overlapped; a streamed answer *)
(* arrives but for lines that shared a frame, and the counters are overshot *)
(* by what the open streams can bring: Delivered (siem/elasticsearch.py:73- *)
(* 123, llm-gateway/src/gateway.rs:186-262), for any number of senders and  *)
(* streams.  By SiemInv, under which an event is in the buffer, in the body *)
(* of a flush that will post it, was received, or is late; and by ChunkInv, *)
(* which tells what a reader has from the frames that were sent.            *)
THEOREM EventsDelivered == Spec => []Delivered
<1> DEFINE I == SiemInv /\ ChunkInv
<1>1. Init => I
  BY SiemStarts, ChunksStart DEF Init
<1>2. I /\ [Next]_vars => I'
  BY SiemMoves, ChunkMoves, SiemKept, ChunksKept
<1>3. I => Delivered
  BY SiemHolds, ChunksHold DEF Delivered
<1> QED BY <1>1, <1>2, <1>3, PTL DEF Spec

(* What a server answers is of the session that asked, is in the audit log  *)
(* once under the session it names, and the cache keeps to its size:        *)
(* AnswersAreOwn (server.py:81-171, 323-603), for any requests, clients and *)
(* cache size.  By ServeInv, which counts answers against entries.          *)
THEOREM AnswersNamed == Spec => []AnswersAreOwn
<1>1. Init => ServeInv
  BY ServingStarts DEF Init
<1>2. ServeInv /\ [Next]_vars => ServeInv'
  BY ServeMoves, ServingKept
<1>3. ServeInv => AnswersAreOwn
  BY ServingHolds DEF AnswersAreOwn
<1> QED BY <1>1, <1>2, <1>3, PTL DEF Spec

(* The ledgers agree with what was spent: BudgetKept.  The guard's budgets  *)
(* (utils.py:148-214) are overshot by no more than the calls under way can  *)
(* cost, and its daily counter is of the day.  The gateway's daily, monthly *)
(* and total counts (gateway.rs:484-499) differ from one another and from   *)
(* what the provider answered with by posts under way or dropped, and a     *)
(* month from its days by a post at midnight.  Callers are told             *)
(* (client.py:52-145) of no more than what was answered and given again,    *)
(* and not of answers that nobody heard or that were asked for twice.       *)
(* For any number of threads, calls, posts and days, by BudgetInv, under    *)
(* which each counter of the guard is covered by its budget and the costs   *)
(* of the calls that passed the check and have not paid, and by LedgerInv,  *)
(* which says for every post, by where it is, which ledgers have its tokens.*)
THEOREM BudgetsReconcile == Spec => []BudgetKept
<1> DEFINE I == BudgetInv /\ BillInv /\ LedgerInv
<1>1. Init => I
  BY BudgetStarts, BillStarts, LedgerStarts DEF Init
<1>2. I /\ [Next]_vars => I'
  BY GuardMoves, BillMoves, BudgetStays, BillKept, LedgersKept
<1>3. I => BudgetKept
  BY LedgersHold, TellingsHold DEF BudgetInv, BudgetKept
<1> QED BY <1>1, <1>2, <1>3, PTL DEF Spec
=============================================================================
