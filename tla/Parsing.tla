------------------------------- MODULE Parsing -------------------------------
(***************************************************************************)
(* chrollo/session_parser.py and features.py as functions.  A raw log is a *)
(* sequence of lines [kind, at, what, ..]: kind is "session_id", "source_ip",  *)
(* "command", "file", "network", "bad_port" (a network line whose port is  *)
(* not a number) or "unreadable".  Features are in hundredths.             *)
(***************************************************************************)
EXTENDS Integers, Sequences, FiniteSets, SequencesExt, FiniteSetsExt

Unset == -1     \* None, for a time that was not set

(* parse's accumulators, before its first line.                             *)
Fresh == [session_id |-> "", source_ip |-> "", start |-> Unset, end |-> Unset,
          commands |-> <<>>, files |-> <<>>, network |-> <<>>, raised |-> FALSE]

Entry(line) == [at |-> line.at, what |-> line.what]

(* MUTANT: a time that is the earliest is not also the latest. *)
Spanned_else(session, at) ==
    IF session.start = Unset \/ at < session.start THEN [session EXCEPT !.start = at]
    ELSE [session EXCEPT !.end = IF @ = Unset \/ at > @ THEN at ELSE @]

Spanned(session, at) ==
    [session EXCEPT !.start = IF @ = Unset \/ at < @ THEN at ELSE @,
                    !.end   = IF @ = Unset \/ at > @ THEN at ELSE @]

(* One line of parse, with _parse_line: only commands move the times, a     *)
(* later id or address replaces an earlier one, a port that is not a number *)
(* raises.                                                                  *)
TakeLine(session, line) ==
    CASE session.raised           -> session
      [] line.kind = "session_id" -> [session EXCEPT !.session_id = line.what]
      [] line.kind = "source_ip"  -> [session EXCEPT !.source_ip = line.what]
      [] line.kind = "command"    ->
            [Spanned(session, line.at) EXCEPT !.commands = Append(@, Entry(line))]
      [] line.kind = "file"       -> [session EXCEPT !.files = Append(@, Entry(line))]
      [] line.kind = "network"    -> [session EXCEPT !.network = Append(@, Entry(line))]
      [] line.kind = "bad_port"   -> [session EXCEPT !.raised = TRUE]
      [] OTHER                    -> session

(* parse: no session of an empty log, of one over the limit, or of one with *)
(* a line that raises.  A log without an id gets a hash of its beginning,   *)
(* one without a command starts now.                                        *)
Parse(lines, now, tooLong) ==
    LET session == FoldLeft(TakeLine, Fresh, lines) IN
    IF lines = <<>> \/ tooLong \/ session.raised THEN [Fresh EXCEPT !.raised = TRUE]
    ELSE [session EXCEPT !.session_id = IF @ = "" THEN "hash" ELSE @,
                         !.start      = IF @ = Unset THEN now ELSE @]

(* normalize: under the first of its names that the data has a value for,   *)
(* or its default.  Of the lists only the dictionaries are taken, and of the*)
(* commands the strings also, which happen now.  An item of the data is     *)
(* [form, at, what].                                                        *)
Aliases ==
    [session_id       |-> <<"session_id", "sid", "id">>,
     source_ip        |-> <<"source_ip", "src_ip", "src", "remote_addr">>,
     start_time       |-> <<"start_time", "started_at", "ts_start">>,
     end_time         |-> <<"end_time", "ended_at", "ts_end">>,
     commands         |-> <<"commands", "cmd_log">>,
     file_operations  |-> <<"file_operations", "file_ops", "filesystem">>,
     network_activity |-> <<"network_activity", "net_log", "connections">>]
Lists == {"commands", "file_operations", "network_activity"}

Default(field, now) ==
    CASE field \in {"session_id", "source_ip"} -> ""
      [] field = "start_time" -> now
      [] field = "end_time" -> Unset
      [] OTHER -> <<>>

FirstOf(data, field, now) ==
    LET given == SelectSeq(Aliases[field], LAMBDA n : n \in DOMAIN data)
    IN IF given = <<>> THEN Default(field, now) ELSE data[Head(given)]

Items(field, raw, now) ==
    LET taken == SelectSeq(raw, LAMBDA x : x.form = "dict" \/ (x.form = "text" /\ field = "commands"))
    IN [i \in DOMAIN taken |-> [at |-> IF taken[i].form = "text" THEN now ELSE taken[i].at, what |-> taken[i].what]]

Normalize(data, now) ==
    [field \in DOMAIN Aliases |->
        IF field \in Lists THEN Items(field, FirstOf(data, field, now), now) ELSE FirstOf(data, field, now)]

-----------------------------------------------------------------------------
(* extract, of commands [at, what, binary, tokens, marks]; marks[m] is how  *)
(* often the pattern of the feature m matches.                              *)
Clamped(n, d) == Min({100, (100 * n) \div d})
Total(commands, f(_)) == FoldSeq(LAMBDA c, sum : f(c) + sum, 0, commands)
Limit == [persistence |-> 10, lateral |-> 5, escalation |-> 10, credential |-> 10, custom |-> 5]

(* The gaps of _compute_time_cv; whether they vary is what is kept of it.   *)
Gaps(commands) ==
    LET at == SortSeq([i \in DOMAIN commands |-> commands[i].at], LAMBDA x, y : x < y)
    IN {at[i + 1] - at[i] : i \in 1 .. Len(at) - 1}

Features(commands) ==
    LET n == Len(commands)
        hits(m) == Total(commands, LAMBDA c : c.marks[m])
        some(x) == IF n = 0 THEN 0 ELSE x
    IN [complexity |-> some(Clamped(Total(commands, LAMBDA c : c.tokens), 20 * Max({n, 1}))),
        diversity  |-> Clamped(Cardinality({commands[i].binary : i \in DOMAIN commands}), Max({n, 1})),
        unique     |-> some(Clamped(Cardinality({commands[i].what : i \in DOMAIN commands}), Max({n, 1}))),
        irregular  |-> Cardinality(Gaps(commands)) > 1,
        scan       |-> IF hits("scan") > 0 THEN 100 ELSE 0,
        marks      |-> [m \in DOMAIN Limit |-> Clamped(hits(m), Limit[m])]]
=============================================================================
