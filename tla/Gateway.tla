------------------------------ MODULE Gateway ------------------------------
(***************************************************************************)
(* llm-gateway: Gateway::generate (gateway.rs) for one model and the       *)
(* provider that serves it, with the semaphore, rate limiter, circuit      *)
(* breaker and response cache that all requests share.                     *)
(*                                                                         *)
(* A request is a task of a multi-threaded runtime.  A step is the code    *)
(* between two accesses to what requests share: each breaker method holds  *)
(* the state lock from beginning to end and is one step, and so is the     *)
(* reset under the window's write lock.  A client that hangs up drops the  *)
(* future, which ends the request at an .await.                            *)
(***************************************************************************)
EXTENDS Integers, Sequences, FiniteSets

CONSTANTS
    Requests,           \* slots for requests in progress
    Messages,           \* cache keys of the served model
    Unknown,            \* a request for a model that is not served
    Permits,            \* server.workers * 100
    RPM,                \* rate_limiting.global_rpm
    TPM,                \* rate_limiting.global_tpm
    Window,             \* ticks in 60 seconds
    MaxRetries,         \* max_retries of the model
    FailureThreshold, SuccessThreshold,
    OpenFor,            \* circuit_breaker.timeout_secs, in ticks
    Caching,            \* caching.enabled and caching.cache_responses
    Size                \* tokens of an answer

ASSUME GatewayAssumption ==
    /\ IsFiniteSet(Requests) /\ Unknown \notin Messages
    /\ Permits \in Nat \ {0} /\ RPM \in Nat /\ TPM \in Nat /\ Window \in Nat
    /\ Size \in Nat /\ MaxRetries \in Nat /\ OpenFor \in Nat /\ Caching \in BOOLEAN
    /\ FailureThreshold \in Nat \ {0} /\ SuccessThreshold \in Nat \ {0}

VARIABLES
    req,                \* req[r]: where request r is in generate
    queue,              \* requests waiting for a permit, in order of arrival
    permits,            \* permits left in request_semaphore
    requests,           \* RateLimiter.global_requests["global"]
    tokens,             \* RateLimiter.global_tokens["global"]
    elapsed,            \* ticks since window_start, at most Window
    breaker,            \* CircuitBreaker of the provider
    cached,             \* keys in response_cache
    healthy,            \* the provider answers every call from now on
    streak              \* history: successes since the last failure

limiter == <<requests, tokens, elapsed>>
guards  == <<breaker, streak>>
vars    == <<req, queue, permits, limiter, guards, cached, healthy>>

Pcs == {"idle", "queued", "window", "limits", "gate", "cache", "backoff",
        "call", "count", "cost"}

(* Suspended in an .await that can last, where a dropped future ends.       *)
Awaiting == {"queued", "window", "backoff", "call", "cost"}

(* Past check_limits, and not yet in the count of the window.               *)
Admitted == {"gate", "cache", "backoff", "call", "count"}

Idle == [pc |-> "idle", msg |-> Unknown, tries |-> 0]

Init ==
    /\ req      = [r \in Requests |-> Idle]
    /\ queue    = <<>>
    /\ permits  = Permits
    /\ requests = 0 /\ tokens = 0 /\ elapsed = 0
    /\ breaker  = [state |-> "Closed", failures |-> 0, successes |-> 0, age |-> 0]
    /\ cached   = {}
    /\ healthy  = FALSE
    /\ streak   = 0

At(r, p)   == req[r].pc = p
Go(r, p)   == req' = [req EXCEPT ![r].pc = p]
InFlight   == {r \in Requests : req[r].pc \in Admitted}
Holders    == {r \in Requests : req[r].pc \notin {"idle", "queued"}}

(* generate returns or is dropped: _permit goes back to the semaphore.      *)
Return(r) ==
    /\ req'     = [req EXCEPT ![r] = Idle]
    /\ permits' = permits + 1

-----------------------------------------------------------------------------
(* A request arrives at /v1/chat/completions; the semaphore is first come, *)
(* first served.                                                           *)
Arrive(r) ==
    /\ At(r, "idle")
    /\ \E m \in Messages \cup {Unknown} :
          req' = [req EXCEPT ![r] = [pc |-> "queued", msg |-> m, tries |-> 0]]
    /\ queue' = Append(queue, r)
    /\ UNCHANGED <<permits, limiter, guards, cached, healthy>>

(* MUTANT: the refusal of an unknown model forgets the permit. *)
Acquire_leaks(r) ==
    /\ At(r, "queued") /\ queue # <<>> /\ Head(queue) = r /\ permits > 0
    /\ queue' = Tail(queue)
    /\ \/ /\ req[r].msg = Unknown
          /\ req' = [req EXCEPT ![r] = Idle]
          /\ permits' = permits - 1
       \/ /\ req[r].msg # Unknown
          /\ Go(r, "window")
          /\ permits' = permits - 1
    /\ UNCHANGED <<limiter, guards, cached, healthy>>

(* With the permit in hand, an unknown or disabled model is refused.        *)
Acquire(r) ==
    /\ At(r, "queued") /\ queue # <<>> /\ Head(queue) = r /\ permits > 0
    /\ queue' = Tail(queue)
    /\ \/ /\ req[r].msg = Unknown
          /\ req' = [req EXCEPT ![r] = Idle]
          /\ UNCHANGED permits
       \/ /\ req[r].msg # Unknown
          /\ Go(r, "window")
          /\ permits' = permits - 1
    /\ UNCHANGED <<limiter, guards, cached, healthy>>

(* reset_window_if_needed, the first line of check_limits.                  *)
ResetWindow(r) ==
    /\ At(r, "window")
    /\ Go(r, "limits")
    /\ IF elapsed >= Window
       THEN requests' = 0 /\ tokens' = 0 /\ elapsed' = 0
       ELSE UNCHANGED limiter
    /\ UNCHANGED <<queue, permits, guards, cached, healthy>>

(* MUTANT: the last request of a window is let in twice over. *)
CheckLimits_off_by_one(r) ==
    /\ At(r, "limits")
    /\ IF requests > RPM \/ tokens >= TPM
       THEN Return(r)
       ELSE Go(r, "gate") /\ UNCHANGED permits
    /\ UNCHANGED <<queue, limiter, guards, cached, healthy>>

(* The rest of check_limits.  per_model_rpm is empty as shipped.            *)
CheckLimits(r) ==
    /\ At(r, "limits")
    /\ IF requests >= RPM \/ tokens >= TPM
       THEN Return(r)
       ELSE Go(r, "gate") /\ UNCHANGED permits
    /\ UNCHANGED <<queue, limiter, guards, cached, healthy>>

-----------------------------------------------------------------------------
(* MUTANT: successes of an earlier half-open period still count. *)
IsOpen_keeps_successes ==
    IF breaker.state = "Open"
    THEN IF breaker.age > OpenFor
         THEN breaker' = [breaker EXCEPT !.state = "HalfOpen"]
         ELSE UNCHANGED breaker
    ELSE UNCHANGED breaker

(* CircuitBreaker::is_open: what it changes, then what it answers.          *)
IsOpen ==
    IF breaker.state = "Open"
    THEN IF breaker.age > OpenFor
         THEN breaker' = [breaker EXCEPT !.state = "HalfOpen", !.successes = 0]
         ELSE UNCHANGED breaker
    ELSE UNCHANGED breaker
Refuses == breaker.state = "Open" /\ breaker.age <= OpenFor

Better == IF streak < SuccessThreshold THEN streak + 1 ELSE streak

(* MUTANT: closing keeps the failures that opened it. *)
RecordSuccess_keeps_failures ==
    /\ streak' = Better
    /\ breaker' =
         CASE breaker.state = "HalfOpen" /\ breaker.successes + 1 >= SuccessThreshold ->
                [breaker EXCEPT !.successes = @ + 1, !.state = "Closed"]
           [] breaker.state = "HalfOpen" /\ breaker.successes + 1 < SuccessThreshold ->
                [breaker EXCEPT !.successes = @ + 1]
           [] breaker.state = "Closed" -> [breaker EXCEPT !.failures = 0]
           [] OTHER -> breaker

(* MUTANT: one success too many is asked for, and never counted. *)
RecordSuccess_stays_half_open ==
    /\ streak' = Better
    /\ breaker' = IF breaker.state = "Closed"
                  THEN [breaker EXCEPT !.failures = 0] ELSE breaker

(* CircuitBreaker::record_success. *)
RecordSuccess ==
    /\ streak' = Better
    /\ breaker' =
         CASE breaker.state = "HalfOpen" /\ breaker.successes + 1 >= SuccessThreshold ->
                [breaker EXCEPT !.successes = @ + 1, !.state = "Closed", !.failures = 0]
           [] breaker.state = "HalfOpen" /\ breaker.successes + 1 < SuccessThreshold ->
                [breaker EXCEPT !.successes = @ + 1]
           [] breaker.state = "Closed" -> [breaker EXCEPT !.failures = 0]
           [] OTHER -> breaker

(* CircuitBreaker::record_failure.  Failures are counted up to the         *)
(* threshold, above which the count makes no difference.                   *)
RecordFailure ==
    LET f == IF breaker.failures < FailureThreshold
             THEN breaker.failures + 1 ELSE breaker.failures IN
    /\ streak' = 0
    /\ breaker' = [breaker EXCEPT !.failures = f, !.age = 0,
                      !.state = IF @ = "Closed" /\ f < FailureThreshold
                                THEN @ ELSE "Open"]

(* select_provider reads only the configuration; then the breaker answers. *)
Gate(r) ==
    /\ At(r, "gate")
    /\ IsOpen
    /\ IF Refuses THEN Return(r) ELSE Go(r, "cache") /\ UNCHANGED permits
    /\ UNCHANGED <<queue, limiter, streak, cached, healthy>>

Lookup(r) ==
    /\ At(r, "cache")
    /\ IF Caching /\ req[r].msg \in cached
       THEN Return(r)
       ELSE Go(r, "call") /\ UNCHANGED permits
    /\ UNCHANGED <<queue, limiter, guards, cached, healthy>>

-----------------------------------------------------------------------------
CallOK(r) ==
    /\ At(r, "call")
    /\ RecordSuccess
    /\ Go(r, "count")
    /\ UNCHANGED <<queue, permits, limiter, cached, healthy>>

(* RateLimiter::record_request; global_tokens is nowhere added to.          *)
RecordRequest(r) ==
    /\ At(r, "count")
    /\ Go(r, "cost")
    /\ requests' = requests + 1
    /\ UNCHANGED <<queue, permits, tokens, elapsed, guards, cached, healthy>>

(* record_cost, then the answer enters the cache (which may drop another)   *)
(* and is returned.                                                         *)
Answer(r) ==
    /\ At(r, "cost")
    /\ Return(r)
    /\ \/ ~Caching /\ UNCHANGED cached
       \/ Caching /\ cached' = cached \cup {req[r].msg}
       \/ /\ Caching
          /\ \E m \in cached \ {req[r].msg} : cached' = (cached \cup {req[r].msg}) \ {m}
    /\ UNCHANGED <<queue, limiter, guards, healthy>>

(* After an error that is_retryable: the next turn of the loop, if any.     *)
RetryOrGiveUp(r) ==
    \/ /\ req[r].tries < MaxRetries
       /\ req' = [req EXCEPT ![r].pc = "backoff", ![r].tries = @ + 1]
       /\ UNCHANGED permits
    \/ /\ req[r].tries = MaxRetries
       /\ Return(r)

(* A provider error or a timeout; an error that cannot be retried; a 429,   *)
(* which the breaker is not told of.                                        *)
CallErr(r) ==
    /\ At(r, "call") /\ ~healthy
    /\ \/ RecordFailure /\ RetryOrGiveUp(r)
       \/ RecordFailure /\ Return(r)
       \/ RetryOrGiveUp(r) /\ UNCHANGED guards
    /\ UNCHANGED <<queue, limiter, cached, healthy>>

Backoff(r) ==
    /\ At(r, "backoff")
    /\ Go(r, "call")
    /\ UNCHANGED <<queue, permits, limiter, guards, cached, healthy>>

(* MUTANT: a waiter that hangs up keeps its place. *)
HangUp_keeps_place(r) ==
    /\ req[r].pc \in Awaiting
    /\ IF At(r, "queued")
       THEN /\ req'   = [req EXCEPT ![r] = Idle]
            /\ UNCHANGED <<queue, permits>>
       ELSE Return(r) /\ UNCHANGED queue
    /\ UNCHANGED <<limiter, guards, cached, healthy>>

(* The client hangs up: the future is dropped where it waits.               *)
HangUp(r) ==
    /\ req[r].pc \in Awaiting
    /\ IF At(r, "queued")
       THEN /\ req'   = [req EXCEPT ![r] = Idle]
            /\ \E i \in 1..Len(queue) :
                  /\ queue[i] = r
                  /\ queue' = SubSeq(queue, 1, i - 1) \o SubSeq(queue, i + 1, Len(queue))
            /\ UNCHANGED permits
       ELSE Return(r) /\ UNCHANGED queue
    /\ UNCHANGED <<limiter, guards, cached, healthy>>

Tick ==
    /\ elapsed'     = IF elapsed < Window THEN elapsed + 1 ELSE elapsed
    /\ breaker' = [breaker EXCEPT !.age = IF @ <= OpenFor THEN @ + 1 ELSE @]
    /\ UNCHANGED <<req, queue, permits, requests, tokens, streak, cached, healthy>>

(* The provider is well again, for good: the assumption of Recovers.        *)
Heal ==
    /\ ~healthy
    /\ healthy' = TRUE
    /\ UNCHANGED <<req, queue, permits, limiter, guards, cached>>

(* What the runtime drives; calls end, because they are under a timeout.    *)
Step(r) == \/ Acquire(r) \/ ResetWindow(r) \/ CheckLimits(r) \/ Gate(r)
           \/ Lookup(r) \/ CallOK(r) \/ CallErr(r) \/ Backoff(r)
           \/ RecordRequest(r) \/ Answer(r)

Next == \/ \E r \in Requests : Arrive(r) \/ Step(r) \/ HangUp(r)
        \/ Tick \/ Heal

Spec == Init /\ [][Next]_vars

(* Every task is polled again after it is woken.  Clients and the provider  *)
(* promise nothing.                                                         *)
FairSpec == Spec /\ \A r \in Requests : WF_vars(Step(r))

-----------------------------------------------------------------------------
TypeInv ==
    /\ req \in [Requests -> [pc : Pcs, msg : Messages \cup {Unknown}, tries : 0..MaxRetries]]
    /\ permits \in 0..Permits
    /\ requests \in Nat /\ tokens \in Nat /\ elapsed \in 0..Window
    /\ breaker \in [state : {"Closed", "Open", "HalfOpen"}, failures : 0..FailureThreshold,
                    successes : 0..SuccessThreshold, age : 0..(OpenFor + 1)]
    /\ cached \subseteq Messages
    /\ healthy \in BOOLEAN
    /\ streak \in 0..SuccessThreshold

(* The state has its type, and the semaphore's queue is exactly the        *)
(* requests that wait, each once: a client that hangs up leaves no hole    *)
(* that would swallow a permit.                                            *)
TypeOK ==
    /\ TypeInv
    /\ queue \in Seq(Requests)
    /\ \A r \in Requests :
          Cardinality({i \in 1..Len(queue) : queue[i] = r}) = IF At(r, "queued") THEN 1 ELSE 0

(* However a request ends -- answered, refused, failed, dropped at any      *)
(* .await -- its permit comes back, once (gateway.rs:108).                  *)
PermitsConserved == permits + Cardinality(Holders) = Permits

(* check_limits and record_request are far apart, and everything admitted   *)
(* meanwhile saw the same count.  The window's count still never passes    *)
(* RPM by more than the permits less one: the semaphore bounds the race,   *)
(* not the limiter (gateway.rs:560-586).                                   *)
OvershootBounded == requests + Cardinality(InFlight) < RPM + Permits

(* A closed breaker is not on the verge of opening with the failures of an *)
(* earlier outage, whatever late reports came while it was open.           *)
ClosedIsFresh == breaker.state = "Closed" => breaker.failures < FailureThreshold

(* The gateway's breaker, with requests of several eras reporting to it in *)
(* any order, is a circuit breaker: it closes only after SuccessThreshold  *)
(* successes in a row.                                                     *)
B == INSTANCE Breaker WITH Needed <- SuccessThreshold, phase <- breaker.state
KeepsBreaker == B!Spec

(* Every request is answered or dropped, though permits are scarce and     *)
(* every call may time out: nobody waits for a permit for ever.            *)
EveryRequestEnds == \A r \in Requests : ~At(r, "idle") ~> At(r, "idle")

(* Once the provider is well and is called again and again, the breaker    *)
(* ends up closed: no order of late answers, hang-ups and refused requests *)
(* leaves it half open for ever.                                           *)
Recovers == (<>healthy /\ []<><<\E r \in Requests : CallOK(r)>>_vars)
               => <>[](breaker.state = "Closed")

(* docs/ARCHITECTURE.md:256 "Rate limiting: 60 RPM, 100K TPM".  If every    *)
(* answer costs Size tokens, the answers counted in a window exceed TPM by *)
(* no more than what was in flight when it was reached.                    *)
TokensLimited == requests * Size < TPM + Permits * Size
=============================================================================
