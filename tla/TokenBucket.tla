---------------------------- MODULE TokenBucket ----------------------------
(***************************************************************************)
(* ragin/utils.py: RateLimiter, for one key.  allow reads the clock, waits *)
(* for the lock, and refills the bucket by the time that passed since the  *)
(* clock another thread read: that time may be negative.                   *)
(***************************************************************************)
EXTENDS Integers, FiniteSets

CONSTANTS
    Askers,         \* threads
    MaxTokens,      \* the size of the bucket
    Refill,         \* tokens a tick
    MaxClock        \* bound: the clock

BucketAssumption ==
    MaxTokens \in Nat /\ Refill \in Nat /\ IsFiniteSet(Askers) /\ MaxClock \in Nat

VARIABLES
    now,            \* time.monotonic()
    bucket,         \* tokens and last_refill; last is -1 for a key not seen
    asking,         \* asking[a]: the clock thread a has read, or -1
    allowed,        \* history: calls that were allowed
    began           \* history: the clock of the first call

vars == <<now, bucket, asking, allowed, began>>

Init ==
    /\ now = 0 /\ bucket = [tokens |-> MaxTokens, last |-> -1]
    /\ asking = [a \in Askers |-> -1] /\ allowed = 0 /\ began = -1

Pass ==
    /\ now < MaxClock
    /\ now' = now + 1
    /\ UNCHANGED <<bucket, asking, allowed, began>>

ReadClock(a) ==
    /\ asking[a] = -1
    /\ asking' = [asking EXCEPT ![a] = now]
    /\ UNCHANGED <<now, bucket, allowed, began>>

Least(a, b) == IF a < b THEN a ELSE b

(* MUTANT: a negative time is taken for none. *)
Filled_never_negative(at) ==
    IF bucket.last = -1 THEN MaxTokens
    ELSE Least(MaxTokens, bucket.tokens + (IF at < bucket.last THEN 0 ELSE at - bucket.last) * Refill)

Filled(at) ==
    IF bucket.last = -1 THEN MaxTokens
    ELSE Least(MaxTokens, bucket.tokens + (at - bucket.last) * Refill)

(* The critical section of allow, with a cost of one token.                 *)
Consume(a) ==
    LET at == asking[a]  tokens == Filled(at) IN
    /\ at # -1
    /\ IF tokens >= 1
       THEN bucket' = [tokens |-> tokens - 1, last |-> at] /\ allowed' = allowed + 1
       ELSE bucket' = [tokens |-> tokens, last |-> at] /\ UNCHANGED allowed
    /\ began'  = IF began = -1 THEN at ELSE began
    /\ asking' = [asking EXCEPT ![a] = -1]
    /\ UNCHANGED now

Next == Pass \/ \E a \in Askers : ReadClock(a) \/ Consume(a)
Spec == Init /\ [][Next]_vars

-----------------------------------------------------------------------------
(* Whatever order the threads get the lock in, the calls allowed since the  *)
(* first are at most the bucket and what the time since then refilled: the  *)
(* tokens a clock that ran backwards took are given back, no more.          *)
RateBounded ==
    bucket.last # -1 =>
        /\ bucket.tokens + allowed <= MaxTokens + (bucket.last - began) * Refill
        /\ allowed <= MaxTokens + (now - began) * Refill
=============================================================================
