---------------------------- MODULE TurnTracking ----------------------------
(***************************************************************************)
(* ragin/cycle/multi_turn.py: what is kept turn by turn of the techniques  *)
(* of a session, and the summary made of it.                               *)
(***************************************************************************)
EXTENDS Naturals, Sequences, FiniteSets, SequencesExt

CONSTANTS
    Ttps,
    Severities,     \* ranks of the severities a turn may have
    MaxTurns        \* bound: turns recorded

TurnsAssumption ==
    Severities \subseteq 0 .. 4 /\ MaxTurns \in Nat

VARIABLES
    turns,          \* _turns: [ttps, severity]
    evolution       \* _ttp_evolutions, a function on the techniques seen

vars == <<turns, evolution>>

Init == turns = <<>> /\ evolution = <<>>

Higher(a, b) == IF a > b THEN a ELSE b

(* MUTANT: the streak of a technique that was not seen goes on. *)
Evolved_keeps_streak(e, seen, turn, severity) ==
    IF ~seen THEN e
    ELSE [e EXCEPT !.count = @ + 1, !.last = turn, !.peak = Higher(@, severity),
                   !.streak = @ + 1, !.longest = Higher(@, e.streak + 1)]

(* TTPEvolution.record_turn and break_streak.                               *)
Evolved(e, seen, turn, severity) ==
    IF ~seen THEN [e EXCEPT !.streak = 0]
    ELSE [e EXCEPT !.count = @ + 1, !.last = turn, !.peak = Higher(@, severity),
                   !.streak = @ + 1, !.longest = Higher(@, e.streak + 1)]

NewEvolution(turn) ==
    [first |-> turn, last |-> turn, count |-> 0, peak |-> 0, streak |-> 0, longest |-> 0]

(* record_turn; turns are numbered as the callers do, from 1.               *)
RecordTurn(ttps, severity) ==
    LET turn == Len(turns) + 1 IN
    /\ turn <= MaxTurns
    /\ turns' = Append(turns, [ttps |-> ttps, severity |-> severity])
    /\ evolution' = [t \in DOMAIN evolution \cup ttps |->
          Evolved(IF t \in DOMAIN evolution THEN evolution[t] ELSE NewEvolution(turn),
                  t \in ttps, turn, severity)]

Reset ==
    /\ turns # <<>>
    /\ turns' = <<>> /\ evolution' = <<>>

Next ==
    \/ \E ttps \in SUBSET Ttps, severity \in Severities : RecordTurn(ttps, severity)
    \/ Reset
Spec == Init /\ [][Next]_vars

-----------------------------------------------------------------------------
(* get_summary.                                                             *)
Seen          == UNION {turns[i].ttps : i \in DOMAIN turns}
Persistent    == {t \in Seen : Cardinality({i \in DOMAIN turns : t \in turns[i].ttps}) > 1}
Detections    == FoldLeft(LAMBDA n, s : n + Cardinality(s.ttps), 0, turns)
NewPerTurn    == [i \in DOMAIN turns |->
                    Cardinality(turns[i].ttps \ UNION {turns[j].ttps : j \in 1 .. i - 1})]
(* The first turn with a severity above that of the turn before, 0 if none. *)
EscalatedAt ==
    LET up == {i \in DOMAIN turns : i > 1 /\ turns[i].severity > turns[i - 1].severity}
    IN IF up = {} THEN 0 ELSE CHOOSE i \in up : \A j \in up : i <= j

-----------------------------------------------------------------------------
(* What is kept per technique, turn by turn, is what the list of turns      *)
(* says: how often, since when, until when, and the longest run of turns in *)
(* a row (multi_turn.py:57-80, 169-206); the summary's counts agree with    *)
(* it, and where it sees no escalation no technique came back worse.        *)
EvolutionsAgree ==
    /\ DOMAIN evolution = Seen
    /\ \A t \in Seen :
          LET at  == {i \in DOMAIN turns : t \in turns[i].ttps}
              run == {n \in 1 .. Len(turns) : \E i \in at : \A k \in 0 .. n - 1 : i + k \in at}
          IN /\ evolution[t].count = Cardinality(at)
             /\ evolution[t].first = (CHOOSE i \in at : \A j \in at : i <= j)
             /\ evolution[t].last  = (CHOOSE i \in at : \A j \in at : i >= j)
             /\ evolution[t].longest = Cardinality(run)
             /\ evolution[t].peak = (CHOOSE s \in {turns[i].severity : i \in at} :
                                       \A i \in at : turns[i].severity <= s)
    /\ Persistent = {t \in Seen : evolution[t].count > 1}
    /\ Detections = MapThenSumSet(LAMBDA t : evolution[t].count, Seen)
    /\ FoldSeq(LAMBDA new, sum : new + sum, 0, NewPerTurn) = Cardinality(Seen)
    /\ EscalatedAt = 0 => \A t \in Seen : evolution[t].peak = turns[evolution[t].first].severity
=============================================================================
