----------------------------- MODULE Streaming ------------------------------
(***************************************************************************)
(* llm-gateway: Gateway::generate_stream over OllamaClient's stream.  The  *)
(* provider answers in lines of JSON, the last of which is done; the       *)
(* network cuts the bytes into frames where it likes; the client makes at  *)
(* most one chunk of a frame, and the gateway counts chunk by chunk.       *)
(*                                                                         *)
(* A line is two halves, 2k-1 and 2k: a frame may end in the middle of one.*)
(***************************************************************************)
EXTENDS Naturals, Sequences, FiniteSets, SequencesExt

CONSTANTS
    Streams,        \* callers
    Lines,          \* lines of an answer
    Permits,        \* request_semaphore
    GlobalRpm,      \* global_rpm
    MaxStreams      \* bound: streams opened

StreamingAssumption ==
    IsFiniteSet(Streams) /\ {Lines, Permits, GlobalRpm} \subseteq Nat \ {0} /\ MaxStreams \in Nat

VARIABLES
    permits,        \* left of the semaphore
    counted,        \* global_requests of the window
    costed,         \* spawned record_cost calls
    failures,       \* record_failure calls
    stream,         \* stream[s]: where it is, the halves that came, what it yielded
    frames,         \* history: frames[s], the halves each frame ended with
    opened          \* bound: streams

vars == <<permits, counted, costed, failures, stream, frames, opened>>

Idle == [pc |-> "idle", at |-> 0, chunks |-> <<>>]
At(s, pc) == stream[s].pc = pc
Go(s, pc) == stream' = [stream EXCEPT ![s].pc = pc]

Init ==
    /\ permits = Permits /\ counted = 0 /\ costed = 0 /\ failures = 0
    /\ stream = [s \in Streams |-> Idle] /\ frames = [s \in Streams |-> <<>>] /\ opened = 0

(* generate_stream, up to the call of the provider.                         *)
Acquire(s) ==
    /\ stream[s].pc \in {"idle", "over"} /\ permits > 0 /\ opened < MaxStreams
    /\ permits' = permits - 1 /\ opened' = opened + 1
    /\ stream' = [stream EXCEPT ![s] = [Idle EXCEPT !.pc = "check"]]
    /\ frames' = [frames EXCEPT ![s] = <<>>]
    /\ UNCHANGED <<counted, costed, failures>>

(* check_limits, which first begins a new window if the minute has passed;  *)
(* then no provider, or an open breaker.                                    *)
Admit(s) ==
    /\ At(s, "check")
    /\ counted' \in {counted, 0}
    /\ \/ counted' < GlobalRpm /\ Go(s, "connect") /\ UNCHANGED permits
       \/ Go(s, "over") /\ permits' = permits + 1
    /\ UNCHANGED <<costed, failures, frames, opened>>

(* client.generate_stream returns the stream, or fails (which the breaker   *)
(* is not told of); either way generate_stream returns and its permit goes. *)
Connect(s) ==
    /\ At(s, "connect")
    /\ \/ Go(s, "open")
       \/ Go(s, "over")
    /\ permits' = permits + 1
    /\ UNCHANGED <<counted, costed, failures, frames, opened>>

(* The lines that are whole in a frame of the halves from..to.              *)
Whole(from, to) == {k \in 1 .. Lines : from <= 2 * k - 1 /\ 2 * k <= to}

(* MUTANT: the last of them. *)
Parsed_last(from, to) ==
    IF Whole(from, to) = {} THEN <<>> ELSE <<CHOOSE k \in Whole(from, to) : \A j \in Whole(from, to) : j <= k>>

(* OllamaClient, of a frame: the first line of it that parses.              *)
Parsed(from, to) ==
    IF Whole(from, to) = {} THEN <<>> ELSE <<CHOOSE k \in Whole(from, to) : \A j \in Whole(from, to) : k <= j>>

(* MUTANT: a frame without a chunk counts too. *)
Counting_frames(chunks) == counted + 1

(* record_request, once for a chunk.                                        *)
Counting(chunks) == counted + Len(chunks)

(* The next frame, and what the gateway makes of its chunk: the request is  *)
(* counted, and with a usage (done) its cost is recorded by a task.         *)
Frame(s) ==
    /\ At(s, "open")
    /\ \E to \in stream[s].at + 1 .. 2 * Lines :
          LET chunks == Parsed(stream[s].at + 1, to) IN
          /\ stream' = [stream EXCEPT ![s].at = to, ![s].chunks = @ \o chunks]
          /\ frames' = [frames EXCEPT ![s] = Append(@, to)]
          /\ counted' = Counting(chunks)
          /\ costed' = costed + (IF Lines \in ToSet(chunks) THEN 1 ELSE 0)
    /\ UNCHANGED <<permits, failures, opened>>

(* The connection breaks: the breaker is told, and no more comes.           *)
Break(s) ==
    /\ At(s, "open") /\ stream[s].at < 2 * Lines
    /\ failures' = failures + 1
    /\ Go(s, "over")
    /\ UNCHANGED <<permits, counted, costed, frames, opened>>

(* The stream ends, or whoever reads it drops it; the breaker is told of    *)
(* neither.                                                                 *)
End(s) ==
    /\ At(s, "open")
    /\ Go(s, "over")
    /\ UNCHANGED <<permits, counted, costed, failures, frames, opened>>

(* The caller drops generate_stream itself, and the permit with it.         *)
HangUp(s) ==
    /\ stream[s].pc \in {"check", "connect"}
    /\ Go(s, "over") /\ permits' = permits + 1
    /\ UNCHANGED <<counted, costed, failures, frames, opened>>

Next == \E s \in Streams :
    \/ Acquire(s) \/ Admit(s) \/ Connect(s) \/ Frame(s) \/ Break(s) \/ End(s) \/ HangUp(s)

Spec == Init /\ [][Next]_vars

-----------------------------------------------------------------------------
Start(s, i) == IF i = 1 THEN 1 ELSE frames[s][i - 1] + 1

(* The reader gets lines in their order and each once; of those that came,  *)
(* it misses the ones a frame cut in two and the ones that shared a frame   *)
(* with an earlier one, and no others (clients.rs:271-309).                 *)
LostLinesShared == \A s \in Streams :
    LET got == stream[s].chunks IN
    /\ \A i, j \in DOMAIN got : i < j => got[i] < got[j]
    /\ \A k \in 1 .. stream[s].at \div 2 :
          k \notin ToSet(got) <=>
              \/ \E i \in DOMAIN frames[s] : frames[s][i] = 2 * k - 1
              \/ \E i \in DOMAIN frames[s], j \in 1 .. k - 1 : {j, k} \subseteq Whole(Start(s, i), frames[s][i])

(* A window that admits while it is not full is overshot by the chunks of   *)
(* the streams that are open, not by the requests, and no stream that is    *)
(* open holds a permit (gateway.rs:190, 203, 249).                          *)
OvershootByChunks ==
    /\ counted < GlobalRpm + Lines * Cardinality(Streams)
    /\ permits = Permits - Cardinality({s \in Streams : stream[s].pc \in {"check", "connect"}})
    /\ costed <= opened /\ failures <= opened
=============================================================================
