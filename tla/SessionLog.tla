----------------------------- MODULE SessionLog -----------------------------
(***************************************************************************)
(* The durable half of ragin/cycle/session.py: one JSONL file per session, *)
(* written by Session.emit (append, flush, fsync) and read by              *)
(* Session.replay.  A line is abstracted to the kind of its event; the     *)
(* payload, the event id and the timestamp are left out.                   *)
(*                                                                         *)
(* A write that stops in the middle (power loss, ENOSPC) leaves a partial  *)
(* last line without its newline.  The next append continues that line, so *)
(* both become one line that json.loads rejects for ever.                  *)
(***************************************************************************)
EXTENDS Naturals, Sequences, FiniteSets

CONSTANT Sids           \* session ids (uuid4-based in the code, never reused)

VARIABLES
    log,                \* log[s]: the lines of <s>.jsonl; <<>> if there is no file
    torn                \* torn[s]: the last line of the file has no newline

logVars == <<log, torn>>

Garbled == "garbled"

(* EventType, for the events the pipeline of Harness.process writes.  ERROR *)
(* is split by its "stage" field: "error" is a component's (chrollo, don or *)
(* hisoka); the whole pipeline's is a "failure", or an "orphan" when what   *)
(* failed was the write of the command itself (a reader of the file cannot  *)
(* tell these two apart).                                                   *)
EventType ==
    {"start", "resume", "end", "input", "classification", "cti", "generate",
     "verify", "response", "error", "failure",
     "orphan", "metric"}

-----------------------------------------------------------------------------
(* The write of Session.emit reaches the disk whole. *)
AppendLine(s, e) ==
    /\ log'  = [log EXCEPT ![s] = IF torn[s] THEN @ ELSE Append(@, e)]
    /\ torn' = [torn EXCEPT ![s] = FALSE]

(* The write of Session.emit stops in the middle of the line. *)
TearLine(s) ==
    /\ log'  = [log EXCEPT ![s] = IF torn[s] THEN @ ELSE Append(@, Garbled)]
    /\ torn' = [torn EXCEPT ![s] = TRUE]

(* Session.replay parses every line and raises at the first it cannot. *)
Readable(s) == \A i \in DOMAIN log[s] : log[s][i] # Garbled

(* len(session.get_events_by_type(...)) *)
Occurrences(lines, kinds) == Cardinality({i \in 1..Len(lines) : lines[i] \in kinds})
Count(s, kinds) == Occurrences(log[s], kinds)

Unused == {s \in Sids : log[s] = <<>>}

LogTypeOK ==
    /\ log \in [Sids -> Seq(EventType \cup {Garbled})]
    /\ torn \in [Sids -> BOOLEAN]
=============================================================================
