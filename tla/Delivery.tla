------------------------------ MODULE Delivery ------------------------------
(***************************************************************************)
(* siem/: a connector with a buffer.  elasticsearch.py and splunk.py are   *)
(* the same in this: send appends and flushes when the buffer is full or   *)
(* old, flush posts what the buffer held when it began, up to max_retries  *)
(* times, and then counts and clears the buffer as it is by then.  Threads *)
(* share the connector without a lock.                                     *)
(*                                                                         *)
(* Events are numbered in the order they are appended.                     *)
(***************************************************************************)
EXTENDS Naturals, Sequences, FiniteSets, SequencesExt

CONSTANTS
    Senders,        \* threads
    BatchSize, MaxRetries,
    MaxEvents       \* bound: events

DeliveryAssumption ==
    {BatchSize, MaxRetries} \subseteq Nat \ {0} /\ MaxEvents \in Nat /\ IsFiniteSet(Senders)

VARIABLES
    buffer,         \* _buffer
    sent, errors,   \* _sent_count, _error_count
    sender,         \* sender[t]: where it is, the body it posts, the attempt
    received,       \* received[e]: how often the server took event e
    events,         \* events appended
    late,           \* history: events appended while a flush was under way
    refused,        \* history: events of a body that was given up
    flushes         \* history: flushes[e], the flushes e was in the body of

vars == <<buffer, sent, errors, sender, received, events, late, refused, flushes>>

Events == 1 .. MaxEvents
Out    == [pc |-> "out", body |-> <<>>, attempt |-> 0]
In(s)  == {s[i] : i \in DOMAIN s}

Init ==
    /\ buffer = <<>> /\ sent = 0 /\ errors = 0
    /\ sender = [t \in Senders |-> Out]
    /\ received = [e \in Events |-> 0] /\ events = 0
    /\ late = {} /\ refused = {} /\ flushes = [e \in Events |-> 0]

At(t, pc)  == sender[t].pc = pc
Set(t, s)  == sender' = [sender EXCEPT ![t] = s]
Flushing   == \E t \in Senders : sender[t].pc \in {"post", "counted"}

(* send.  Whether flush_interval_s has passed is not known.                 *)
Send(t) ==
    /\ At(t, "out") /\ events < MaxEvents
    /\ events' = events + 1
    /\ buffer' = Append(buffer, events')
    /\ late'   = IF Flushing THEN late \cup {events'} ELSE late
    /\ \/ Len(buffer') < BatchSize /\ UNCHANGED sender
       \/ Set(t, [Out EXCEPT !.pc = "flush"])
    /\ UNCHANGED <<sent, errors, received, refused, flushes>>

(* MUTANT: the last event that was appended is dropped with every flush     *)
(* that begins.                                                             *)
Flush_off_by_one(t) ==
    /\ At(t, "flush")
    /\ IF buffer = <<>> THEN Set(t, Out) /\ UNCHANGED flushes
       ELSE /\ Set(t, [pc |-> "post", body |-> Front(buffer), attempt |-> 0])
            /\ flushes' = [e \in Events |-> flushes[e] + IF e \in In(Front(buffer)) THEN 1 ELSE 0]
    /\ UNCHANGED <<buffer, sent, errors, received, events, late, refused>>

Flush(t) ==
    /\ At(t, "flush")
    /\ IF buffer = <<>> THEN Set(t, Out) /\ UNCHANGED flushes
       ELSE /\ Set(t, [pc |-> "post", body |-> buffer, attempt |-> 0])
            /\ flushes' = [e \in Events |-> flushes[e] + IF e \in In(buffer) THEN 1 ELSE 0]
    /\ UNCHANGED <<buffer, sent, errors, received, events, late, refused>>

(* One attempt.  The server takes the whole body, a part of it, or nothing; *)
(* the answer that it took all may be lost.                                 *)
Post(t) ==
    LET body == sender[t].body  n == sender[t].attempt + 1 IN
    /\ At(t, "post")
    /\ \E taken \in SUBSET In(body), answered \in BOOLEAN :
          /\ received' = [e \in Events |-> received[e] + IF e \in taken THEN 1 ELSE 0]
          /\ IF taken = In(body) /\ answered
             THEN /\ sent' = sent + Len(buffer)
                  /\ Set(t, [Out EXCEPT !.pc = "counted"])
                  /\ UNCHANGED <<errors, refused>>
             ELSE IF n = MaxRetries
             THEN /\ errors' = errors + Len(buffer)
                  /\ refused' = refused \cup In(body)
                  /\ Set(t, [Out EXCEPT !.pc = "counted"])
                  /\ UNCHANGED sent
             ELSE /\ Set(t, [sender[t] EXCEPT !.attempt = n])
                  /\ UNCHANGED <<sent, errors, refused>>
    /\ UNCHANGED <<buffer, events, late, flushes>>

(* MUTANT: the buffer is kept for the next flush. *)
Clear_keeps(t) ==
    /\ At(t, "counted")
    /\ Set(t, Out)
    /\ UNCHANGED <<buffer, sent, errors, received, events, late, refused, flushes>>

(* _buffer.clear() comes after the count: an event between the two is lost  *)
(* and not even counted.                                                    *)
Clear(t) ==
    /\ At(t, "counted")
    /\ buffer' = <<>>
    /\ Set(t, Out)
    /\ UNCHANGED <<sent, errors, received, events, late, refused, flushes>>

Next == \E t \in Senders : Send(t) \/ Flush(t) \/ Post(t) \/ Clear(t)
Spec == Init /\ [][Next]_vars

-----------------------------------------------------------------------------
(* An event that was accepted is in the buffer, was taken by the server, or *)
(* was in a body that was given up after all retries: only one that was     *)
(* appended while a flush was under way can vanish (elasticsearch.py:113).  *)
OnlyLateVanish ==
    \A e \in 1 .. events :
        e \in In(buffer) \/ received[e] > 0 \/ e \in refused \/ e \in late
        \/ \E t \in Senders : e \in In(sender[t].body)

(* An event is taken at most once for every attempt of every flush that had *)
(* it in its body, and of two flushes only when they overlapped: once its   *)
(* flush has cleared the buffer it is not posted again.                     *)
DuplicatesBounded ==
    /\ \A e \in Events : received[e] <= MaxRetries * flushes[e]
    /\ \A e \in Events : flushes[e] <= Cardinality(Senders)

(* The counters account for every event that no flush was under way for.    *)
Accounted ==
    late = {} /\ ~Flushing /\ (\A e \in Events : flushes[e] <= 1)
        => sent + errors + Len(buffer) = events
=============================================================================
