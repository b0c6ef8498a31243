--------------------------- MODULE GatewayProofs ---------------------------
(***************************************************************************)
(* What the guards of Gateway guarantee for any number of requests and     *)
(* permits and any setting of the limits.  One inductive invariant carries *)
(* it all: the permits on loan are the requests that hold one, the window  *)
(* count plus what was admitted and not counted yet stays under RPM plus   *)
(* Permits, a half-open breaker has not counted more successes than there  *)
(* were since the last failure (Probing), and what is past the lookup of   *)
(* the model is for a known one (Known).                                   *)
(***************************************************************************)
EXTENDS Gateway, FiniteSetTheorems, SequenceTheorems, TLAPS

NoPermit == {"idle", "queued"}

Probing == breaker.state = "HalfOpen" =>
              /\ breaker.successes < SuccessThreshold
              /\ breaker.successes <= streak

(* Nothing past the lookup of the model is for an unknown one. *)
Known == \A q \in Requests : req[q].pc \notin NoPermit => req[q].msg \in Messages

Counts == PermitsConserved /\ OvershootBounded
GuardInv == TypeInv /\ Known /\ Counts /\ ClosedIsFresh /\ Probing

(* What request r does is to move, and nothing else moves. *)
Moves(r, p) ==
    /\ req' \in [Requests -> [pc : Pcs, msg : Messages \cup {Unknown}, tries : 0..MaxRetries]]
    /\ \A q \in Requests \ {r} : req'[q] = req[q]
    /\ req'[r].pc = p
    /\ p \notin NoPermit => req'[r].msg \in Messages

(* A set that differs from another in at most one element. *)
LEMMA OneApart ==
    ASSUME NEW A, NEW D, NEW x, IsFiniteSet(A), A \ {x} = D \ {x}
    PROVE  /\ IsFiniteSet(D)
           /\ Cardinality(A) \in Nat /\ Cardinality(D) \in Nat
           /\ Cardinality(D) = Cardinality(A) + (IF x \in D THEN 1 ELSE 0)
                                              - (IF x \in A THEN 1 ELSE 0)
<1> DEFINE S == A \ {x}
<1>0. S = A \ {x} /\ S = D \ {x}
      OBVIOUS
<1>1. IsFiniteSet(S) /\ x \notin S
      BY FS_RemoveElement
<1>2. IsFiniteSet(S \cup {x}) /\ Cardinality(S \cup {x}) = Cardinality(S) + 1
      BY <1>1, FS_AddElement
<1>3. Cardinality(S) \in Nat
      BY <1>1, FS_CardinalityType
<1> HIDE DEF S
<1>4. Cardinality(A) = Cardinality(S) + (IF x \in A THEN 1 ELSE 0)
      <2>1. CASE x \in A
            <3>1. A = S \cup {x}  BY <1>0, <2>1
            <3> QED BY <2>1, <3>1, <1>2
      <2>2. CASE x \notin A
            <3>1. A = S  BY <1>0, <2>2
            <3> QED BY <2>2, <3>1, <1>3
      <2> QED BY <2>1, <2>2
<1>5. Cardinality(D) = Cardinality(S) + (IF x \in D THEN 1 ELSE 0) /\ IsFiniteSet(D)
      <2>1. CASE x \in D
            <3>1. D = S \cup {x}  BY <1>0, <2>1
            <3> QED BY <2>1, <3>1, <1>2
      <2>2. CASE x \notin D
            <3>1. D = S  BY <1>0, <2>2
            <3> QED BY <2>2, <3>1, <1>1, <1>3
      <2> QED BY <2>1, <2>2
<1> QED BY <1>3, <1>4, <1>5

(* How a move of one request changes the two populations. *)
LEMMA Counting ==
    ASSUME TypeInv, NEW r \in Requests, NEW p, Moves(r, p)
    PROVE  /\ Cardinality(Holders) \in Nat /\ Cardinality(Holders)' \in Nat
           /\ Cardinality(InFlight) \in Nat /\ Cardinality(InFlight)' \in Nat
           /\ Cardinality(InFlight) <= Cardinality(Holders)
           /\ Cardinality(InFlight)' <= Cardinality(Holders)'
           /\ Cardinality(Holders)' = Cardinality(Holders)
                 + (IF p \in NoPermit THEN 0 ELSE 1)
                 - (IF req[r].pc \in NoPermit THEN 0 ELSE 1)
           /\ Cardinality(InFlight)' = Cardinality(InFlight)
                 + (IF p \in Admitted THEN 1 ELSE 0)
                 - (IF req[r].pc \in Admitted THEN 1 ELSE 0)
<1>1. IsFiniteSet(Requests)
      BY GatewayAssumption
<1>2. IsFiniteSet(Holders) /\ IsFiniteSet(InFlight)
      <2>1. Holders \in SUBSET Requests /\ InFlight \in SUBSET Requests
            BY DEF Holders, InFlight
      <2> QED BY <1>1, <2>1, FS_Subset
<1>3. InFlight \in SUBSET Holders
      BY DEF InFlight, Holders, Admitted
<1>4. Cardinality(InFlight) <= Cardinality(Holders)
      BY <1>2, <1>3, FS_Subset
<1>9. Cardinality(InFlight') <= Cardinality(Holders')
      <2>1. Holders' \in SUBSET Requests /\ InFlight' \in SUBSET Holders'
            BY DEF Holders, InFlight, Admitted
      <2>2. IsFiniteSet(Holders')
            BY <1>1, <2>1, FS_Subset
      <2> QED BY <2>1, <2>2, FS_Subset
<1>5. Holders \ {r} = Holders' \ {r} /\ InFlight \ {r} = InFlight' \ {r}
      BY DEF Holders, InFlight, Moves
<1>6. /\ (r \in Holders) = (req[r].pc \notin NoPermit)
      /\ (r \in Holders') = (p \notin NoPermit)
      /\ (r \in InFlight) = (req[r].pc \in Admitted)
      /\ (r \in InFlight') = (p \in Admitted)
      BY DEF Holders, InFlight, Moves, NoPermit
<1>7. /\ Cardinality(Holders) \in Nat /\ Cardinality(Holders') \in Nat
      /\ Cardinality(Holders') = Cardinality(Holders)
            + (IF r \in Holders' THEN 1 ELSE 0) - (IF r \in Holders THEN 1 ELSE 0)
      BY <1>2, <1>5, OneApart
<1>8. /\ Cardinality(InFlight) \in Nat /\ Cardinality(InFlight') \in Nat
      /\ Cardinality(InFlight') = Cardinality(InFlight)
            + (IF r \in InFlight' THEN 1 ELSE 0) - (IF r \in InFlight THEN 1 ELSE 0)
      BY <1>2, <1>5, OneApart
<1> QED BY <1>4, <1>6, <1>7, <1>8, <1>9

(* Sums of natural numbers, smaller in both terms. *)
LEMMA SumBelow ==
    ASSUME NEW a \in Nat, NEW b \in Nat, NEW c \in Nat, NEW d \in Nat,
           NEW m \in Nat, NEW n \in Nat, a <= c, b <= d, c + d < m + n
    PROVE  a + b < m + n
OBVIOUS

(* Counts for each way a request can move: without entering or leaving a   *)
(* population, taking a permit, being admitted, being counted, ending.     *)
LEMMA Bookkeeping ==
    ASSUME TypeInv, Counts, NEW r \in Requests, NEW p \in Pcs, Moves(r, p),
           requests' \in Nat,
           \/ /\ (p \in NoPermit) = (req[r].pc \in NoPermit) /\ permits' = permits
              /\ (p \in Admitted) => (req[r].pc \in Admitted)
              /\ requests' <= requests
           \/ /\ req[r].pc = "queued" /\ p = "window"
              /\ permits > 0 /\ permits' = permits - 1 /\ requests' = requests
           \/ /\ req[r].pc = "limits" /\ p = "gate" /\ permits' = permits
              /\ requests < RPM /\ requests' = requests
           \/ /\ req[r].pc = "count" /\ p = "cost" /\ permits' = permits
              /\ requests' = requests + 1
           \/ /\ req[r].pc \notin NoPermit /\ p = "idle"
              /\ permits' = permits + 1 /\ requests' = requests
    PROVE  Counts' /\ permits' \in 0..Permits
<1> DEFINE H == Cardinality(Holders)
           F == Cardinality(InFlight)
<1>1. /\ H \in Nat /\ H' \in Nat /\ F \in Nat /\ F' \in Nat /\ F <= H
      /\ H' = H + (IF p \in NoPermit THEN 0 ELSE 1) - (IF req[r].pc \in NoPermit THEN 0 ELSE 1)
      /\ F' = F + (IF p \in Admitted THEN 1 ELSE 0) - (IF req[r].pc \in Admitted THEN 1 ELSE 0)
      BY Counting
<1>2. /\ permits + H = Permits /\ requests + F < RPM + Permits
      /\ permits \in Nat /\ requests \in Nat /\ RPM \in Nat /\ Permits \in Nat
      BY GatewayAssumption DEF Counts, PermitsConserved, OvershootBounded, TypeInv
<1>3. "window" \notin NoPermit \cup Admitted /\ "limits" \notin NoPermit \cup Admitted
      /\ "cost" \notin NoPermit \cup Admitted /\ "idle" \in NoPermit \ Admitted
      /\ "queued" \in NoPermit \ Admitted /\ "gate" \in Admitted \ NoPermit
      /\ "count" \in Admitted \ NoPermit
      BY DEF NoPermit, Admitted
<1>4. SUFFICES /\ permits' + H' = Permits /\ permits' \in Nat
               /\ requests' + F' < RPM + Permits
      BY <1>1, <1>2 DEF Counts, PermitsConserved, OvershootBounded
<1> HIDE DEF H, F
<1>5. CASE /\ (p \in NoPermit) = (req[r].pc \in NoPermit) /\ permits' = permits
           /\ (p \in Admitted) => (req[r].pc \in Admitted)
           /\ requests' <= requests
      <2>1. H' = H
            BY <1>1, <1>5
      <2>2. F' <= F
            <3>1. CASE p \in Admitted
                  BY <3>1, <1>1, <1>5
            <3>2. CASE p \notin Admitted
                  BY <3>2, <1>1
            <3> QED BY <3>1, <3>2
      <2>3. permits' + H' = Permits /\ permits' \in Nat
            BY <2>1, <1>2, <1>5
      <2>4. requests' \in Nat /\ requests' <= requests
            BY <1>5
      <2>5. requests' + F' < RPM + Permits
            <3>1. F \in Nat /\ F' \in Nat
                  BY <1>1
            <3>2. /\ requests \in Nat /\ RPM \in Nat /\ Permits \in Nat
                  /\ requests + F < RPM + Permits
                  BY <1>2
            <3> QED BY <3>1, <3>2, <2>2, <2>4, SumBelow
      <2> QED BY <2>3, <2>5
<1>6. CASE /\ req[r].pc = "queued" /\ p = "window"
           /\ permits > 0 /\ permits' = permits - 1 /\ requests' = requests
      <2>1. H' = H + 1 /\ F' = F
            BY <1>1, <1>3, <1>6
      <2> QED BY <2>1, <1>1, <1>2, <1>6
<1>7. CASE /\ req[r].pc = "limits" /\ p = "gate" /\ permits' = permits
           /\ requests < RPM /\ requests' = requests
      <2>1. H' = H /\ F' = F + 1
            BY <1>1, <1>3, <1>7
      <2>2. F' <= H' /\ H' <= Permits /\ requests + 1 <= RPM
            BY <2>1, <1>1, <1>2, <1>7, Counting DEF H, F
      <2> QED BY <2>1, <2>2, <1>1, <1>2, <1>7
<1>8. CASE /\ req[r].pc = "count" /\ p = "cost" /\ permits' = permits
           /\ requests' = requests + 1
      <2>1. H' = H /\ F' = F - 1
            BY <1>1, <1>3, <1>8
      <2> QED BY <2>1, <1>1, <1>2, <1>8
<1>9. CASE /\ req[r].pc \notin NoPermit /\ p = "idle"
           /\ permits' = permits + 1 /\ requests' = requests
      <2>1. H' = H - 1 /\ F' <= F
            BY <1>1, <1>3, <1>9
      <2> QED BY <2>1, <1>1, <1>2, <1>9
<1> QED BY <1>5, <1>6, <1>7, <1>8, <1>9

-----------------------------------------------------------------------------
(* The breaker's part of the invariant, which only its methods and the     *)
(* clock disturb.                                                          *)
BreakerInv ==
    /\ breaker \in [state : {"Closed", "Open", "HalfOpen"}, failures : 0..FailureThreshold,
                    successes : 0..SuccessThreshold, age : 0..(OpenFor + 1)]
    /\ streak \in 0..SuccessThreshold
    /\ ClosedIsFresh
    /\ Probing

LEMMA BreakerMethods ==
    ASSUME BreakerInv
    PROVE  /\ RecordSuccess => BreakerInv'
           /\ RecordFailure => BreakerInv'
           /\ IsOpen /\ UNCHANGED streak => BreakerInv'
<1> USE GatewayAssumption DEF BreakerInv, ClosedIsFresh, Probing
<1>1. ASSUME RecordSuccess PROVE BreakerInv'
      <2>1. /\ streak' \in 0..SuccessThreshold
            /\ breaker.state = "HalfOpen" =>
                  breaker.successes + 1 <= streak' \/ streak' = SuccessThreshold
            BY <1>1 DEF RecordSuccess, Better
      <2>2. CASE breaker.state = "HalfOpen" /\ breaker.successes + 1 >= SuccessThreshold
            <3>1. breaker' = [breaker EXCEPT !.successes = @ + 1, !.state = "Closed", !.failures = 0]
                  BY <1>1, <2>2 DEF RecordSuccess
            <3>2. breaker.successes + 1 \in 0..SuccessThreshold
                  BY <2>2
            <3>3. breaker' = [state |-> "Closed", failures |-> 0,
                              successes |-> breaker.successes + 1, age |-> breaker.age]
                  BY <3>1
            <3> QED BY <2>1, <3>2, <3>3
      <2>3. CASE breaker.state = "HalfOpen" /\ breaker.successes + 1 < SuccessThreshold
            <3>1. breaker' = [breaker EXCEPT !.successes = @ + 1]
                  BY <1>1, <2>3 DEF RecordSuccess
            <3> QED BY <2>1, <2>3, <3>1
      <2>4. CASE breaker.state = "Closed"
            <3>1. breaker' = [breaker EXCEPT !.failures = 0]
                  BY <1>1, <2>4 DEF RecordSuccess
            <3> QED BY <2>1, <2>4, <3>1
      <2>5. CASE breaker.state = "Open"
            <3>1. breaker' = breaker
                  BY <1>1, <2>5 DEF RecordSuccess
            <3> QED BY <2>1, <2>5, <3>1
      <2> QED BY <2>2, <2>3, <2>4, <2>5
<1>2. ASSUME RecordFailure PROVE BreakerInv'
      <2> DEFINE f == IF breaker.failures < FailureThreshold
                      THEN breaker.failures + 1 ELSE breaker.failures
                 b == IF breaker.state = "Closed" /\ f < FailureThreshold
                      THEN "Closed" ELSE "Open"
      <2>1. f \in 0..FailureThreshold /\ b \in {"Closed", "Open"}
            OBVIOUS
      <2>2. b = "Closed" => f < FailureThreshold
            OBVIOUS
      <2>3. breaker' = [state |-> b, failures |-> f,
                        successes |-> breaker.successes, age |-> 0]
            BY <1>2 DEF RecordFailure
      <2>4. streak' = 0
            BY <1>2 DEF RecordFailure
      <2> HIDE DEF f, b
      <2> QED BY <2>1, <2>2, <2>3, <2>4
<1>3. ASSUME IsOpen, UNCHANGED streak PROVE BreakerInv'
      <2>1. CASE breaker' = breaker
            BY <1>3, <2>1
      <2>2. CASE breaker' # breaker
            <3>1. breaker' = [breaker EXCEPT !.state = "HalfOpen", !.successes = 0]
                  BY <1>3, <2>2 DEF IsOpen
            <3>2. breaker' = [state |-> "HalfOpen", failures |-> breaker.failures,
                              successes |-> 0, age |-> breaker.age]
                  BY <3>1
            <3> QED BY <1>3, <3>2
      <2> QED BY <2>1, <2>2
<1> QED BY <1>1, <1>2, <1>3

LEMMA BreakerKept == BreakerInv /\ UNCHANGED guards => BreakerInv'
BY DEF BreakerInv, ClosedIsFresh, Probing, guards

(* GuardInv, taken apart the way the actions disturb it. *)
LEMMA Parts ==
    GuardInv <=> /\ req \in [Requests -> [pc : Pcs, msg : Messages \cup {Unknown}, tries : 0..MaxRetries]]
                 /\ permits \in 0..Permits
                 /\ requests \in Nat /\ tokens \in Nat /\ elapsed \in 0..Window
                 /\ cached \subseteq Messages
                 /\ healthy \in BOOLEAN
                 /\ Known
                 /\ Counts
                 /\ BreakerInv
BY DEF GuardInv, TypeInv, BreakerInv

LEMMA GuardInvInit == Init => GuardInv
<1> SUFFICES ASSUME Init PROVE GuardInv
    OBVIOUS
<1> USE GatewayAssumption
<1>1. TypeInv /\ Known /\ ClosedIsFresh /\ Probing
      <2>1. req \in [Requests -> [pc : Pcs, msg : Messages \cup {Unknown}, tries : 0..MaxRetries]]
            BY DEF Init, Idle, Pcs
      <2>2. breaker \in [state : {"Closed", "Open", "HalfOpen"}, failures : 0..FailureThreshold,
                         successes : 0..SuccessThreshold, age : 0..(OpenFor + 1)]
            BY DEF Init
      <2>3. ClosedIsFresh /\ Probing
            BY DEF Init, ClosedIsFresh, Probing
      <2>4. /\ permits \in 0..Permits
            /\ requests \in Nat /\ tokens \in Nat /\ elapsed \in 0..Window
            /\ cached \subseteq Messages
            /\ streak \in 0..SuccessThreshold
            BY DEF Init
      <2>5. healthy \in BOOLEAN
            BY DEF Init
      <2>6. Known
            BY DEF Init, Idle, Known, NoPermit
      <2> QED BY <2>1, <2>2, <2>3, <2>4, <2>5, <2>6 DEF TypeInv
<1>2. Holders = {} /\ InFlight = {}
      BY DEF Init, Idle, Holders, InFlight, Admitted
<1>3. Cardinality(Holders) = 0 /\ Cardinality(InFlight) = 0
      BY <1>2, FS_EmptySet
<1>4. Counts
      BY <1>3 DEF Init, Counts, PermitsConserved, OvershootBounded
<1> QED BY <1>1, <1>4 DEF GuardInv

(* What a request's own step does to req. *)
LEMMA MovesTo ==
    ASSUME GuardInv, NEW r \in Requests
    PROVE  /\ \A p \in Pcs :
                 Go(r, p) /\ (req[r].pc \notin NoPermit \/ req[r].msg # Unknown) => Moves(r, p)
           /\ Return(r) => Moves(r, "idle") /\ permits' = permits + 1
<1>1. req \in [Requests -> [pc : Pcs, msg : Messages \cup {Unknown}, tries : 0..MaxRetries]]
      BY Parts
<1>2. ASSUME NEW p \in Pcs, Go(r, p), req[r].pc \notin NoPermit \/ req[r].msg # Unknown
      PROVE Moves(r, p)
      <2>1. req[r].msg \in Messages
            BY <1>1, <1>2 DEF GuardInv, Known
      <2> QED BY <1>1, <1>2, <2>1 DEF Go, Moves
<1>3. ASSUME Return(r) PROVE Moves(r, "idle") /\ permits' = permits + 1
      <2>1. Idle \in [pc : Pcs, msg : Messages \cup {Unknown}, tries : 0..MaxRetries] /\ Idle.pc = "idle"
            BY GatewayAssumption DEF Idle, Pcs
      <2> QED BY <1>1, <1>3, <2>1 DEF Return, Moves, NoPermit
<1> QED BY <1>2, <1>3

(* A move that leaves the counts right and the rest typed. *)
LEMMA Together ==
    ASSUME GuardInv, NEW r \in Requests, NEW p \in Pcs, Moves(r, p),
           Counts' /\ permits' \in 0..Permits, BreakerInv',
           requests' \in Nat, tokens' \in Nat, elapsed' \in 0..Window,
           cached' \subseteq Messages, healthy' = healthy
    PROVE  GuardInv'
<1>1. healthy' \in BOOLEAN
      BY Parts
<1>2. req' \in [Requests -> [pc : Pcs, msg : Messages \cup {Unknown}, tries : 0..MaxRetries]]
      BY DEF Moves
<1>3. Known'
      BY DEF GuardInv, Known, Moves
<1> QED BY <1>1, <1>2, <1>3 DEF GuardInv, TypeInv, BreakerInv

-----------------------------------------------------------------------------
(* Every step keeps the invariant. *)
LEMMA GuardInvStep == GuardInv /\ [Next]_vars => GuardInv'
<1> SUFFICES ASSUME GuardInv, [Next]_vars PROVE GuardInv'
    OBVIOUS
<1> USE DEF limiter
<1>0. /\ req \in [Requests -> [pc : Pcs, msg : Messages \cup {Unknown}, tries : 0..MaxRetries]]
      /\ permits \in 0..Permits
      /\ requests \in Nat /\ tokens \in Nat /\ elapsed \in 0..Window
      /\ cached \subseteq Messages
      /\ TypeInv /\ Known /\ Counts
      /\ BreakerInv
      BY Parts DEF GuardInv
<1>p. Permits \in Nat \ {0} /\ MaxRetries \in Nat /\ Window \in Nat
      BY GatewayAssumption
<1>c. \A p \in {"queued", "window", "limits", "gate", "cache", "backoff", "call",
                "count", "cost", "idle"} : p \in Pcs
      BY DEF Pcs
<1>1. ASSUME NEW r \in Requests, Arrive(r) PROVE GuardInv'
      <2>1. PICK m \in Messages \cup {Unknown} :
               req' = [req EXCEPT ![r] = [pc |-> "queued", msg |-> m, tries |-> 0]]
            BY <1>1 DEF Arrive
      <2>2. Moves(r, "queued") /\ req[r].pc = "idle"
            BY <2>1, <1>0, <1>1, <1>p, <1>c DEF Moves, Arrive, At, NoPermit
      <2>3. BreakerInv'
            BY <1>0, <1>1, BreakerKept DEF Arrive
      <2>4. UNCHANGED <<permits, requests, tokens, elapsed, cached, healthy>>
            BY <1>1 DEF Arrive
      <2>5. Counts' /\ permits' \in 0..Permits
            BY <1>0, <1>c, <2>2, <2>4, Bookkeeping DEF NoPermit, Admitted
      <2> QED BY <1>0, <1>c, <2>2, <2>3, <2>4, <2>5, Together
<1>2. ASSUME NEW r \in Requests, Acquire(r) PROVE GuardInv'
      <2>1. BreakerInv'
            BY <1>0, <1>2, BreakerKept DEF Acquire
      <2>2. UNCHANGED <<requests, tokens, elapsed, cached, healthy>> /\ req[r].pc = "queued"
            BY <1>2 DEF Acquire, At
      <2>3. CASE req' = [req EXCEPT ![r] = Idle] /\ UNCHANGED permits
            <3>1. Moves(r, "idle")
                  BY <1>0, <1>c, <1>p, <2>3, GatewayAssumption DEF Moves, Idle, NoPermit
            <3>2. Counts' /\ permits' \in 0..Permits
                  BY <1>0, <1>c, <2>2, <2>3, <3>1, Bookkeeping DEF NoPermit, Admitted
            <3> QED BY <1>0, <1>c, <2>1, <2>2, <3>1, <3>2, Together
      <2>4. CASE req[r].msg # Unknown /\ Go(r, "window") /\ permits > 0 /\ permits' = permits - 1
            <3>1. Moves(r, "window")
                  BY <1>c, <2>2, <2>4, MovesTo DEF NoPermit
            <3>2. Counts' /\ permits' \in 0..Permits
                  BY <1>0, <1>c, <2>2, <2>4, <3>1, Bookkeeping
            <3> QED BY <1>0, <1>c, <2>1, <2>2, <3>1, <3>2, Together
      <2> QED BY <1>2, <2>3, <2>4 DEF Acquire
<1>3. ASSUME NEW r \in Requests, ResetWindow(r) PROVE GuardInv'
      <2>1. Moves(r, "limits") /\ req[r].pc = "window"
            BY <1>3, <1>c, MovesTo DEF ResetWindow, At, NoPermit
      <2>2. BreakerInv'
            BY <1>0, <1>3, BreakerKept DEF ResetWindow
      <2>3. /\ requests' \in Nat /\ tokens' \in Nat /\ elapsed' \in 0..Window
            /\ requests' <= requests
            /\ UNCHANGED <<permits, cached, healthy>>
            BY <1>0, <1>3, <1>p DEF ResetWindow
      <2>4. Counts' /\ permits' \in 0..Permits
            BY <1>0, <1>c, <2>1, <2>3, Bookkeeping DEF NoPermit, Admitted
      <2> QED BY <1>0, <1>c, <2>1, <2>2, <2>3, <2>4, Together
<1>4. ASSUME NEW r \in Requests, CheckLimits(r) PROVE GuardInv'
      <2>1. BreakerInv'
            BY <1>0, <1>4, BreakerKept DEF CheckLimits
      <2>2. UNCHANGED <<requests, tokens, elapsed, cached, healthy>> /\ req[r].pc = "limits"
            BY <1>4 DEF CheckLimits, At
      <2>3. CASE Return(r)
            <3>1. Moves(r, "idle") /\ permits' = permits + 1
                  BY <2>3, MovesTo
            <3>2. Counts' /\ permits' \in 0..Permits
                  BY <1>0, <1>c, <2>2, <3>1, Bookkeeping DEF NoPermit
            <3> QED BY <1>0, <1>c, <2>1, <2>2, <3>1, <3>2, Together
      <2>4. CASE requests < RPM /\ Go(r, "gate") /\ UNCHANGED permits
            <3>1. Moves(r, "gate")
                  BY <1>c, <2>2, <2>4, MovesTo DEF NoPermit
            <3>2. Counts' /\ permits' \in 0..Permits
                  BY <1>0, <1>c, <2>2, <2>4, <3>1, Bookkeeping
            <3> QED BY <1>0, <1>c, <2>1, <2>2, <3>1, <3>2, Together
      <2> QED BY <1>0, <1>4, <2>3, <2>4, GatewayAssumption DEF CheckLimits
<1>5. ASSUME NEW r \in Requests, Gate(r) PROVE GuardInv'
      <2>1. BreakerInv'
            BY <1>0, <1>5, BreakerMethods DEF Gate
      <2>2. UNCHANGED <<requests, tokens, elapsed, cached, healthy>> /\ req[r].pc = "gate"
            BY <1>5 DEF Gate, At
      <2>3. CASE Return(r)
            <3>1. Moves(r, "idle") /\ permits' = permits + 1
                  BY <2>3, MovesTo
            <3>2. Counts' /\ permits' \in 0..Permits
                  BY <1>0, <1>c, <2>2, <3>1, Bookkeeping DEF NoPermit
            <3> QED BY <1>0, <1>c, <2>1, <2>2, <3>1, <3>2, Together
      <2>4. CASE Go(r, "cache") /\ UNCHANGED permits
            <3>1. Moves(r, "cache")
                  BY <1>c, <2>2, <2>4, MovesTo DEF NoPermit
            <3>2. Counts' /\ permits' \in 0..Permits
                  BY <1>0, <1>c, <2>2, <2>4, <3>1, Bookkeeping DEF NoPermit, Admitted
            <3> QED BY <1>0, <1>c, <2>1, <2>2, <3>1, <3>2, Together
      <2> QED BY <1>5, <2>3, <2>4 DEF Gate
<1>6. ASSUME NEW r \in Requests, Lookup(r) PROVE GuardInv'
      <2>1. BreakerInv'
            BY <1>0, <1>6, BreakerKept DEF Lookup
      <2>2. UNCHANGED <<requests, tokens, elapsed, cached, healthy>> /\ req[r].pc = "cache"
            BY <1>6 DEF Lookup, At
      <2>3. CASE Return(r)
            <3>1. Moves(r, "idle") /\ permits' = permits + 1
                  BY <2>3, MovesTo
            <3>2. Counts' /\ permits' \in 0..Permits
                  BY <1>0, <1>c, <2>2, <3>1, Bookkeeping DEF NoPermit
            <3> QED BY <1>0, <1>c, <2>1, <2>2, <3>1, <3>2, Together
      <2>4. CASE Go(r, "call") /\ UNCHANGED permits
            <3>1. Moves(r, "call")
                  BY <1>c, <2>2, <2>4, MovesTo DEF NoPermit
            <3>2. Counts' /\ permits' \in 0..Permits
                  BY <1>0, <1>c, <2>2, <2>4, <3>1, Bookkeeping DEF NoPermit, Admitted
            <3> QED BY <1>0, <1>c, <2>1, <2>2, <3>1, <3>2, Together
      <2> QED BY <1>6, <2>3, <2>4 DEF Lookup
<1>7. ASSUME NEW r \in Requests, CallOK(r) PROVE GuardInv'
      <2>1. BreakerInv'
            BY <1>0, <1>7, BreakerMethods DEF CallOK
      <2>2. UNCHANGED <<permits, requests, tokens, elapsed, cached, healthy>> /\ req[r].pc = "call"
            BY <1>7 DEF CallOK, At
      <2>3. Moves(r, "count")
            BY <1>7, <1>c, <2>2, MovesTo DEF CallOK, NoPermit
      <2>4. Counts' /\ permits' \in 0..Permits
            BY <1>0, <1>c, <2>2, <2>3, Bookkeeping DEF NoPermit, Admitted
      <2> QED BY <1>0, <1>c, <2>1, <2>2, <2>3, <2>4, Together
<1>8. ASSUME NEW r \in Requests, CallErr(r) PROVE GuardInv'
      <2>1. BreakerInv'
            BY <1>0, <1>8, BreakerMethods, BreakerKept DEF CallErr
      <2>2. UNCHANGED <<requests, tokens, elapsed, cached, healthy>> /\ req[r].pc = "call"
            BY <1>8 DEF CallErr, At
      <2>3. CASE Return(r)
            <3>1. Moves(r, "idle") /\ permits' = permits + 1
                  BY <2>3, MovesTo
            <3>2. Counts' /\ permits' \in 0..Permits
                  BY <1>0, <1>c, <2>2, <3>1, Bookkeeping DEF NoPermit
            <3> QED BY <1>0, <1>c, <2>1, <2>2, <3>1, <3>2, Together
      <2>4. CASE /\ req[r].tries < MaxRetries
                 /\ req' = [req EXCEPT ![r].pc = "backoff", ![r].tries = @ + 1]
                 /\ UNCHANGED permits
            <3>1. req[r].tries + 1 \in 0..MaxRetries
                  BY <1>0, <1>p, <2>4
            <3>2. Moves(r, "backoff")
                  BY <1>0, <1>c, <2>2, <2>4, <3>1 DEF Moves, Known, NoPermit
            <3>3. Counts' /\ permits' \in 0..Permits
                  BY <1>0, <1>c, <2>2, <2>4, <3>2, Bookkeeping DEF NoPermit, Admitted
            <3> QED BY <1>0, <1>c, <2>1, <2>2, <3>2, <3>3, Together
      <2> QED BY <1>8, <2>3, <2>4 DEF CallErr, RetryOrGiveUp
<1>9. ASSUME NEW r \in Requests, Backoff(r) PROVE GuardInv'
      <2>1. BreakerInv'
            BY <1>0, <1>9, BreakerKept DEF Backoff
      <2>2. UNCHANGED <<permits, requests, tokens, elapsed, cached, healthy>> /\ req[r].pc = "backoff"
            BY <1>9 DEF Backoff, At
      <2>3. Moves(r, "call")
            BY <1>9, <1>c, <2>2, MovesTo DEF Backoff, NoPermit
      <2>4. Counts' /\ permits' \in 0..Permits
            BY <1>0, <1>c, <2>2, <2>3, Bookkeeping DEF NoPermit, Admitted
      <2> QED BY <1>0, <1>c, <2>1, <2>2, <2>3, <2>4, Together
<1>10. ASSUME NEW r \in Requests, RecordRequest(r) PROVE GuardInv'
      <2>1. BreakerInv'
            BY <1>0, <1>10, BreakerKept DEF RecordRequest
      <2>2. /\ UNCHANGED <<permits, tokens, elapsed, cached, healthy>> /\ req[r].pc = "count"
            /\ requests' = requests + 1 /\ requests' \in Nat
            BY <1>0, <1>10 DEF RecordRequest, At
      <2>3. Moves(r, "cost")
            BY <1>10, <1>c, <2>2, MovesTo DEF RecordRequest, NoPermit
      <2>4. Counts' /\ permits' \in 0..Permits
            BY <1>0, <1>c, <2>2, <2>3, Bookkeeping
      <2> QED BY <1>0, <1>c, <2>1, <2>2, <2>3, <2>4, Together
<1>11. ASSUME NEW r \in Requests, Answer(r) PROVE GuardInv'
      <2>1. BreakerInv'
            BY <1>0, <1>11, BreakerKept DEF Answer
      <2>2. UNCHANGED <<requests, tokens, elapsed, healthy>> /\ req[r].pc = "cost"
            BY <1>11 DEF Answer, At
      <2>3. Moves(r, "idle") /\ permits' = permits + 1
            BY <1>11, MovesTo DEF Answer
      <2>4. Counts' /\ permits' \in 0..Permits
            BY <1>0, <1>c, <2>2, <2>3, Bookkeeping DEF NoPermit
      <2>5. cached' \subseteq Messages
            BY <1>0, <1>11, <2>2 DEF Answer, Known, NoPermit
      <2> QED BY <1>0, <1>c, <2>1, <2>2, <2>3, <2>4, <2>5, Together
<1>12. ASSUME NEW r \in Requests, HangUp(r) PROVE GuardInv'
      <2>1. BreakerInv'
            BY <1>0, <1>12, BreakerKept DEF HangUp
      <2>2. UNCHANGED <<requests, tokens, elapsed, cached, healthy>>
            BY <1>12 DEF HangUp
      <2>3. CASE req[r].pc = "queued"
            <3>1. req' = [req EXCEPT ![r] = Idle] /\ UNCHANGED permits
                  BY <1>12, <2>3 DEF HangUp, At
            <3>2. Moves(r, "idle")
                  BY <1>0, <1>c, <1>p, <3>1, GatewayAssumption DEF Moves, Idle, NoPermit
            <3>3. Counts' /\ permits' \in 0..Permits
                  BY <1>0, <1>c, <2>2, <2>3, <3>1, <3>2, Bookkeeping DEF NoPermit, Admitted
            <3> QED BY <1>0, <1>c, <2>1, <2>2, <3>2, <3>3, Together
      <2>4. CASE req[r].pc # "queued"
            <3>1. Return(r) /\ req[r].pc \notin NoPermit
                  BY <1>12, <2>4 DEF HangUp, At, Awaiting, NoPermit
            <3>2. Moves(r, "idle") /\ permits' = permits + 1
                  BY <3>1, MovesTo
            <3>3. Counts' /\ permits' \in 0..Permits
                  BY <1>0, <1>c, <2>2, <3>1, <3>2, Bookkeeping
            <3> QED BY <1>0, <1>c, <2>1, <2>2, <3>2, <3>3, Together
      <2> QED BY <2>3, <2>4
<1>s. ASSUME UNCHANGED <<req, permits, requests>> PROVE Counts' /\ Known'
      BY <1>0, <1>s DEF Counts, PermitsConserved, OvershootBounded, Holders, InFlight, Known
<1>13. ASSUME Tick PROVE GuardInv'
      <2>1. breaker' \in [state : {"Closed", "Open", "HalfOpen"}, failures : 0..FailureThreshold,
                          successes : 0..SuccessThreshold, age : 0..(OpenFor + 1)]
            BY <1>0, <1>13, GatewayAssumption DEF Tick, BreakerInv
      <2>2. BreakerInv'
            BY <1>0, <1>13, <2>1 DEF Tick, BreakerInv, ClosedIsFresh, Probing
      <2>3. elapsed' \in 0..Window
            BY <1>0, <1>p, <1>13 DEF Tick
      <2>4. UNCHANGED <<req, permits, requests, tokens, cached, healthy>>
            BY <1>13 DEF Tick
      <2>5. healthy' \in BOOLEAN
            BY <2>4 DEF GuardInv, TypeInv
      <2> QED BY <1>0, <1>s, <2>2, <2>3, <2>4, <2>5 DEF GuardInv, TypeInv, BreakerInv
<1>14. ASSUME Heal PROVE GuardInv'
      <2>1. BreakerInv'
            BY <1>0, <1>14, BreakerKept DEF Heal
      <2>2. UNCHANGED <<req, permits, requests, tokens, elapsed, cached>> /\ healthy' \in BOOLEAN
            BY <1>14 DEF Heal
      <2> QED BY <1>0, <1>s, <2>1, <2>2 DEF GuardInv, TypeInv, BreakerInv
<1>15. ASSUME UNCHANGED vars PROVE GuardInv'
      <2>1. BreakerInv'
            BY <1>0, <1>15, BreakerKept DEF vars
      <2>2. UNCHANGED <<req, permits, requests, tokens, elapsed, cached, healthy>>
            BY <1>15 DEF vars
      <2>3. healthy' \in BOOLEAN
            BY <2>2 DEF GuardInv, TypeInv
      <2> QED BY <1>0, <1>s, <2>1, <2>2, <2>3 DEF GuardInv, TypeInv, BreakerInv
<1> QED BY <1>1, <1>2, <1>3, <1>4, <1>5, <1>6, <1>7, <1>8, <1>9, <1>10, <1>11,
           <1>12, <1>13, <1>14, <1>15 DEF Next, Step

-----------------------------------------------------------------------------
LEMMA GuardsHold == Spec => []GuardInv
BY GuardInvInit, GuardInvStep, PTL DEF Spec

(* Every permit is in the semaphore or with exactly one request, however   *)
(* many requests are answered, refused, failed or dropped (gateway.rs:108).*)
THEOREM PermitsBalance == Spec => []PermitsConserved
<1>1. GuardInv => PermitsConserved
      BY DEF GuardInv, Counts
<1> QED BY <1>1, GuardsHold, PTL

(* The window count overshoots the limit by less than the permits, for any *)
(* number of requests, hang-ups and resets in between (gateway.rs:560-586).*)
THEOREM OvershootStaysBounded == Spec => []OvershootBounded
<1>1. GuardInv => OvershootBounded
      BY DEF GuardInv, Counts
<1> QED BY <1>1, GuardsHold, PTL

(* A closed breaker never holds the failures of an earlier outage, in      *)
(* whatever order the requests of several eras report to it.               *)
THEOREM ClosedStartsFresh == Spec => []ClosedIsFresh
<1>1. GuardInv => ClosedIsFresh
      BY DEF GuardInv
<1> QED BY <1>1, GuardsHold, PTL

-----------------------------------------------------------------------------
(* The queue of the semaphore.                                             *)

(* Whoever waits has a place, whoever has a place waits, and no two places *)
(* are held by one request.                                                *)
QueueInv ==
    /\ queue \in Seq(Requests)
    /\ \A i \in 1..Len(queue) : At(queue[i], "queued")
    /\ \A r \in Requests : At(r, "queued") => \E i \in 1..Len(queue) : queue[i] = r
    /\ \A i, j \in 1..Len(queue) : queue[i] = queue[j] => i = j

(* The sequence q without its i-th element. *)
Without(q, i) == SubSeq(q, 1, i - 1) \o SubSeq(q, i + 1, Len(q))

LEMMA TakeOut ==
    ASSUME NEW S, NEW q \in Seq(S), NEW i \in 1..Len(q)
    PROVE  /\ Without(q, i) \in Seq(S) /\ Len(Without(q, i)) = Len(q) - 1
           /\ \A j \in 1..Len(Without(q, i)) :
                 Without(q, i)[j] = IF j < i THEN q[j] ELSE q[j + 1]
<1> DEFINE p == Without(q, i)
           a == SubSeq(q, 1, i - 1)
           b == SubSeq(q, i + 1, Len(q))
<1>1. Len(q) \in Nat /\ i \in Nat /\ 1 <= i /\ i <= Len(q)
      OBVIOUS
<1>2. /\ a \in Seq(S) /\ Len(a) = i - 1
      /\ \A j \in 1..(i - 1) : a[j] = q[j]
      BY <1>1
<1>3. /\ b \in Seq(S) /\ Len(b) = Len(q) - i
      /\ \A j \in 1..(Len(q) - i) : b[j] = q[i + j]
      BY <1>1
<1>4. p = a \o b
      BY DEF Without
<1> HIDE DEF a, b, p
<1>5. /\ p \in Seq(S) /\ Len(p) = Len(q) - 1
      /\ \A j \in 1..(Len(q) - 1) : p[j] = IF j <= i - 1 THEN a[j] ELSE b[j - (i - 1)]
      <2>1. /\ a \o b \in Seq(S) /\ Len(a \o b) = Len(a) + Len(b)
            /\ \A j \in 1..(Len(a) + Len(b)) :
                  (a \o b)[j] = IF j <= Len(a) THEN a[j] ELSE b[j - Len(a)]
            BY <1>2, <1>3, ConcatProperties
      <2>2. Len(a) + Len(b) = Len(q) - 1
            BY <1>1, <1>2, <1>3
      <2> QED BY <1>2, <1>4, <2>1, <2>2
<1>6. ASSUME NEW j \in 1..(Len(q) - 1) PROVE p[j] = IF j < i THEN q[j] ELSE q[j + 1]
      <2>0. j \in Nat /\ 1 <= j /\ j <= Len(q) - 1
            BY <1>1
      <2>1. CASE j < i
            <3>1. j \in 1..(i - 1) /\ j <= i - 1
                  BY <1>1, <2>0, <2>1
            <3> QED BY <1>2, <1>5, <2>1, <3>1
      <2>2. CASE j >= i
            <3>1. ~(j <= i - 1) /\ ~(j < i)
                  BY <1>1, <2>0, <2>2
            <3>2. j - (i - 1) \in 1..(Len(q) - i) /\ i + (j - (i - 1)) = j + 1
                  BY <1>1, <2>0, <2>2
            <3>3. b[j - (i - 1)] = q[i + (j - (i - 1))]
                  BY <1>3, <3>2
            <3> QED BY <1>5, <3>1, <3>2, <3>3
      <2>3. j < i \/ j >= i
            BY <1>1, <2>0
      <2> QED BY <2>1, <2>2, <2>3
<1> QED BY <1>5, <1>6 DEF p

(* A step that neither lets a request into the queue nor out of it. *)
LEMMA QueueKept ==
    ASSUME QueueInv, UNCHANGED queue,
           \A r \in Requests : req'[r].pc = "queued" <=> req[r].pc = "queued"
    PROVE  QueueInv'
BY DEF QueueInv, At

LEMMA QueueStep == TypeInv /\ QueueInv /\ [Next]_vars => QueueInv'
<1> SUFFICES ASSUME TypeInv, QueueInv, [Next]_vars PROVE QueueInv'
      OBVIOUS
<1>0. /\ queue \in Seq(Requests) /\ Len(queue) \in Nat
      /\ req \in [Requests -> [pc : Pcs, msg : Messages \cup {Unknown}, tries : 0..MaxRetries]]
      BY DEF TypeInv, QueueInv
<1>1. ASSUME NEW r \in Requests, Arrive(r) PROVE QueueInv'
      <2>1. req'[r].pc = "queued" /\ \A q \in Requests \ {r} : req'[q] = req[q]
            BY <1>0, <1>1 DEF Arrive
      <2>2. /\ queue' = Append(queue, r) /\ req[r].pc = "idle"
            /\ \A i \in 1..Len(queue) : queue[i] # r
            BY <1>1 DEF Arrive, QueueInv, At
      <2>3. /\ queue' \in Seq(Requests) /\ Len(queue') = Len(queue) + 1
            /\ queue'[Len(queue) + 1] = r
            /\ \A i \in 1..Len(queue) : queue'[i] = queue[i]
            BY <1>0, <2>2
      <2>4. \A i \in 1..Len(queue') : req'[queue'[i]].pc = "queued"
            BY <1>0, <2>1, <2>2, <2>3 DEF QueueInv, At
      <2>5. \A q \in Requests : req'[q].pc = "queued" => \E i \in 1..Len(queue') : queue'[i] = q
            <3> TAKE q \in Requests
            <3>1. Len(queue) + 1 \in 1..Len(queue') /\ 1..Len(queue) \subseteq 1..Len(queue')
                  BY <1>0, <2>3
            <3>2. CASE q = r
                  BY <2>3, <3>1, <3>2
            <3>3. CASE q # r
                  BY <2>1, <2>3, <3>1, <3>3 DEF QueueInv, At
            <3> QED BY <3>2, <3>3
      <2>6. \A i, j \in 1..Len(queue') : queue'[i] = queue'[j] => i = j
            BY <1>0, <2>2, <2>3 DEF QueueInv
      <2> QED BY <2>3, <2>4, <2>5, <2>6 DEF QueueInv, At
<1>2. ASSUME NEW r \in Requests, NEW k \in 1..Len(queue), queue[k] = r, req[r].pc = "queued",
             req'[r].pc # "queued", \A q \in Requests \ {r} : req'[q] = req[q],
             queue' \in Seq(Requests), Len(queue') = Len(queue) - 1,
             \A j \in 1..Len(queue') : queue'[j] = IF j < k THEN queue[j] ELSE queue[j + 1]
      PROVE  QueueInv'
      <2> DEFINE From(i) == IF i < k THEN i ELSE i + 1
      <2>1. ASSUME NEW i \in 1..Len(queue')
            PROVE  From(i) \in 1..Len(queue) /\ From(i) # k /\ queue'[i] = queue[From(i)]
            <3>1. i \in Nat /\ 1 <= i /\ i <= Len(queue) - 1 /\ k \in Nat
                  BY <1>0, <1>2
            <3>2. From(i) \in 1..Len(queue) /\ From(i) # k
                  BY <1>0, <3>1
            <3> QED BY <1>2, <3>2
      <2>2. ASSUME NEW i \in 1..Len(queue'), NEW j \in 1..Len(queue'), From(i) = From(j) PROVE i = j
            <3>1. i \in Nat /\ j \in Nat /\ k \in Nat
                  BY <1>0, <1>2
            <3> QED BY <2>2, <3>1
      <2>3. ASSUME NEW j \in 1..Len(queue), j # k
            PROVE  \E i \in 1..Len(queue') : queue'[i] = queue[j]
            <3>1. j \in Nat /\ 1 <= j /\ j <= Len(queue) /\ k \in Nat
                  BY <1>0
            <3>2. CASE j < k
                  <4>1. j \in 1..(Len(queue) - 1)
                        BY <1>0, <3>1, <3>2
                  <4>2. queue'[j] = queue[j]
                        BY <1>2, <3>2, <4>1
                  <4> QED BY <1>2, <4>1, <4>2
            <3>3. CASE j > k
                  <4>1. j - 1 \in 1..(Len(queue) - 1) /\ ~(j - 1 < k) /\ (j - 1) + 1 = j
                        BY <1>0, <3>1, <3>3
                  <4>2. queue'[j - 1] = queue[j]
                        BY <1>2, <4>1
                  <4> QED BY <1>2, <4>1, <4>2
            <3> QED BY <2>3, <3>1, <3>2, <3>3
      <2> HIDE DEF From
      <2>4. \A i \in 1..Len(queue') : req'[queue'[i]].pc = "queued"
            <3> TAKE i \in 1..Len(queue')
            <3>1. queue'[i] # r /\ queue'[i] \in Requests /\ req[queue'[i]].pc = "queued"
                  <4> DEFINE j == From(i)
                  <4>1. j \in 1..Len(queue) /\ j # k /\ queue'[i] = queue[j]
                        BY <2>1
                  <4> HIDE DEF j
                  <4>2. queue[j] # queue[k] /\ queue[j] \in Requests /\ At(queue[j], "queued")
                        BY <1>0, <4>1 DEF QueueInv
                  <4> QED BY <1>2, <4>1, <4>2 DEF At
            <3> QED BY <1>2, <3>1
      <2>5. \A q \in Requests : req'[q].pc = "queued" => \E i \in 1..Len(queue') : queue'[i] = q
            <3> SUFFICES ASSUME NEW q \in Requests, req'[q].pc = "queued"
                         PROVE  \E i \in 1..Len(queue') : queue'[i] = q
                  OBVIOUS
            <3>1. q # r /\ req[q].pc = "queued"
                  BY <1>2
            <3>2. PICK j \in 1..Len(queue) : queue[j] = q
                  BY <3>1 DEF QueueInv, At
            <3> QED BY <1>2, <2>3, <3>1, <3>2
      <2>6. \A i, j \in 1..Len(queue') : queue'[i] = queue'[j] => i = j
            BY <2>1, <2>2 DEF QueueInv
      <2> QED BY <1>2, <2>4, <2>5, <2>6 DEF QueueInv, At
<1>3. ASSUME NEW r \in Requests, Acquire(r) PROVE QueueInv'
      <2>1. /\ queue # <<>> /\ queue[1] = r /\ req[r].pc = "queued" /\ queue' = Tail(queue)
            BY <1>0, <1>3 DEF Acquire, At
      <2>2. /\ queue' \in Seq(Requests) /\ Len(queue') = Len(queue) - 1
            /\ 1 \in 1..Len(queue)
            /\ \A j \in 1..Len(queue') : queue'[j] = queue[j + 1]
            BY <1>0, <2>1
      <2>3. req'[r].pc # "queued" /\ \A q \in Requests \ {r} : req'[q] = req[q]
            BY <1>0, <1>3 DEF Acquire, Go, Idle
      <2> QED BY <1>2, <2>1, <2>2, <2>3
<1>4. ASSUME NEW r \in Requests, HangUp(r) PROVE QueueInv'
      <2>1. CASE At(r, "queued")
            <3>1. PICK k \in 1..Len(queue) :
                      /\ queue[k] = r
                      /\ queue' = SubSeq(queue, 1, k - 1) \o SubSeq(queue, k + 1, Len(queue))
                  BY <1>4, <2>1 DEF HangUp
            <3>2. req'[r].pc # "queued" /\ \A q \in Requests \ {r} : req'[q] = req[q]
                  BY <1>0, <1>4, <2>1 DEF HangUp, Idle
            <3>3. /\ queue' \in Seq(Requests) /\ Len(queue') = Len(queue) - 1
                  /\ \A j \in 1..Len(queue') : queue'[j] = IF j < k THEN queue[j] ELSE queue[j + 1]
                  <4>1. queue' = Without(queue, k)
                        BY <3>1 DEF Without
                  <4> QED BY <1>0, <4>1, TakeOut
            <3> QED BY <1>2, <2>1, <3>1, <3>2, <3>3 DEF At
      <2>2. CASE ~At(r, "queued")
            BY <1>0, <1>4, <2>2, QueueKept DEF HangUp, Return, Idle, At
      <2> QED BY <2>1, <2>2
<1>5. ASSUME NEW r \in Requests, Step(r), ~Acquire(r) PROVE QueueInv'
      <2>1. UNCHANGED queue
            BY <1>5 DEF Step, ResetWindow, CheckLimits, Gate, Lookup, CallOK, CallErr, Backoff,
                        RecordRequest, Answer
      <2>2. req[r].pc # "queued"
            BY <1>5 DEF Step, ResetWindow, CheckLimits, Gate, Lookup, CallOK, CallErr, Backoff,
                        RecordRequest, Answer, At
      <2>3. \/ \E p \in Pcs \ {"queued"} : Go(r, p)
            \/ Return(r)
            \/ req' = [req EXCEPT ![r].pc = "backoff", ![r].tries = @ + 1]
            BY <1>5 DEF Step, ResetWindow, CheckLimits, Gate, Lookup, CallOK, CallErr, Backoff,
                        RecordRequest, Answer, RetryOrGiveUp, Pcs
      <2>4. req'[r].pc # "queued" /\ \A q \in Requests \ {r} : req'[q] = req[q]
            BY <1>0, <2>3 DEF Go, Return, Idle
      <2> QED BY <2>1, <2>2, <2>4, QueueKept
<1>6. ASSUME Tick \/ Heal \/ UNCHANGED vars PROVE QueueInv'
      BY <1>6, QueueKept DEF Tick, Heal, vars
<1> QED BY <1>1, <1>3, <1>4, <1>5, <1>6 DEF Next

LEMMA QueueCounts == TypeInv /\ QueueInv => TypeOK
<1> SUFFICES ASSUME TypeInv, QueueInv, NEW r \in Requests
             PROVE  Cardinality({i \in 1..Len(queue) : queue[i] = r})
                        = IF At(r, "queued") THEN 1 ELSE 0
      BY DEF TypeOK, QueueInv
<1>1. CASE At(r, "queued")
      <2>1. PICK k \in 1..Len(queue) : queue[k] = r
            BY <1>1 DEF QueueInv
      <2>2. {i \in 1..Len(queue) : queue[i] = r} = {k}
            BY <2>1 DEF QueueInv
      <2> QED BY <1>1, <2>2, FS_Singleton
<1>2. CASE ~At(r, "queued")
      <2>1. {i \in 1..Len(queue) : queue[i] = r} = {}
            BY <1>2 DEF QueueInv
      <2> QED BY <1>2, <2>1, FS_EmptySet
<1> QED BY <1>1, <1>2

(* The variables keep their types, and the semaphore's queue holds each    *)
(* request that waits exactly once and nobody else, whoever hangs up where *)
(* in it (gateway.rs:108): no permit is handed to a request that has left. *)
THEOREM TypeCorrect == Spec => []TypeOK
<1>1. Init => QueueInv
      BY DEF Init, QueueInv, Idle, At
<1>2. GuardInv => TypeInv
      BY DEF GuardInv
<1>3. Spec => []QueueInv
      BY <1>1, <1>2, QueueStep, GuardsHold, PTL DEF Spec
<1> QED BY <1>2, <1>3, QueueCounts, GuardsHold, PTL

-----------------------------------------------------------------------------
(* What a method of the breaker, or the clock, does to it is a step of the *)
(* abstract breaker, or none.                                              *)
LEMMA BreakerStep == GuardInv /\ [Next]_vars => [B!Next]_<<breaker.state, streak>>
<1> SUFFICES ASSUME GuardInv, [Next]_vars PROVE [B!Next]_<<breaker.state, streak>>
    OBVIOUS
<1>0. BreakerInv
      BY Parts
<1>1. ASSUME RecordSuccess PROVE B!Success \/ B!EarlySuccess
      <2>1. streak' = B!Longer
            BY <1>1 DEF RecordSuccess, Better, B!Longer
      <2>2. CASE breaker.state = "HalfOpen" /\ breaker.successes + 1 >= SuccessThreshold
            <3>0. breaker' = [breaker EXCEPT !.successes = @ + 1, !.state = "Closed", !.failures = 0]
                  BY <1>0, <1>1, <2>2, GatewayAssumption DEF RecordSuccess, BreakerInv
            <3>1. breaker'.state = "Closed"
                  BY <1>0, <3>0 DEF BreakerInv
            <3>2. streak' = SuccessThreshold
                  BY <1>0, <2>1, <2>2, GatewayAssumption DEF BreakerInv, Probing, B!Longer
            <3> QED BY <2>1, <2>2, <3>1, <3>2 DEF B!Success
      <2>3. CASE breaker.state = "HalfOpen" /\ breaker.successes + 1 < SuccessThreshold
            <3>1. breaker'.state = "HalfOpen"
                  BY <1>0, <1>1, <2>3 DEF RecordSuccess, BreakerInv
            <3> QED BY <2>1, <2>3, <3>1 DEF B!EarlySuccess
      <2>4. CASE breaker.state \in {"Closed", "Open"}
            <3>1. breaker'.state = breaker.state
                  BY <1>0, <1>1, <2>4 DEF RecordSuccess, BreakerInv
            <3> QED BY <2>1, <2>4, <3>1 DEF B!Success
      <2> QED BY <1>0, <2>2, <2>3, <2>4, GatewayAssumption DEF BreakerInv
<1>2. ASSUME RecordFailure PROVE B!Failure
      BY <1>0, <1>2 DEF RecordFailure, BreakerInv, B!Failure
<1>3. ASSUME IsOpen, UNCHANGED streak PROVE B!Probe \/ UNCHANGED <<breaker.state, streak>>
      BY <1>0, <1>3 DEF IsOpen, BreakerInv, B!Probe
<1>4. ASSUME NEW r \in Requests, Arrive(r) \/ Step(r) \/ HangUp(r)
      PROVE  RecordSuccess \/ RecordFailure \/ (IsOpen /\ UNCHANGED streak) \/ UNCHANGED guards
      BY <1>4 DEF Step, Arrive, HangUp, Acquire, ResetWindow, CheckLimits, Gate, Lookup,
                  CallOK, CallErr, Backoff, RecordRequest, Answer
<1>5. ASSUME Tick \/ Heal \/ UNCHANGED vars PROVE UNCHANGED <<breaker.state, streak>>
      BY <1>0, <1>5 DEF Tick, Heal, vars, guards, BreakerInv
<1>6. ASSUME UNCHANGED guards PROVE UNCHANGED <<breaker.state, streak>>
      BY <1>6 DEF guards
<1> QED BY <1>1, <1>2, <1>3, <1>4, <1>5, <1>6 DEF Next, B!Next

(* The gateway's breaker implements Breaker for every pair of thresholds:  *)
(* it closes only when the last SuccessThreshold reports were successes.   *)
THEOREM BreakerImplemented == Spec => KeepsBreaker
<1>1. Init => GuardInv
      BY GuardInvInit
<1>2. GuardInv /\ [Next]_vars => GuardInv'
      BY GuardInvStep
<1>3. Init => B!Init
      BY DEF Init, B!Init
<1>4. GuardInv /\ [Next]_vars => [B!Next]_<<breaker.state, streak>>
      BY BreakerStep
<1> QED BY <1>1, <1>2, <1>3, <1>4, PTL DEF Spec, KeepsBreaker, B!Spec
=============================================================================
