---------------------------- MODULE CowrieBridge ----------------------------
(***************************************************************************)
(* scripts/cowrie_pipeline_bridge.py: poll_cowrie tails the log of the     *)
(* Cowrie honeypot from an offset it keeps in a file, gathers the events   *)
(* of each session in memory, and feeds a session to the classifier when   *)
(* it is closed, or when nothing was heard of it for STALE_TIMEOUT.        *)
(*                                                                         *)
(* An event is a line of the log, abstracted to its session and to         *)
(* "connect", "input" (a command or a login attempt) or "closed".  The log *)
(* and the offset are measured in halves of lines, so that the honeypot    *)
(* may have written half of its last line when the bridge reads it.        *)
(*                                                                         *)
(* The honeypot, the rotation of its log and the restart of the bridge are *)
(* not code of the repository.  Sessions come from outside (those of the   *)
(* docker host are dropped by assemble_session).                           *)
(***************************************************************************)
EXTENDS Naturals, Sequences

CONSTANTS
    Sids,           \* honeypot sessions
    Empty,          \* an offset file that was truncated and not yet written
    Halving,        \* the honeypot may write a line in two pieces
    MaxInputs,      \* bound: inputs of a session
    MaxLines,       \* bound: lines logged
    MaxCrashes,     \* bound: crashes of the bridge
    MaxRotations    \* bound: rotations of the log

ASSUME BridgeAssumption == Empty \notin Nat /\ Halving \in BOOLEAN

VARIABLES
    story,          \* story[s]: what session s has done
    file,           \* cowrie.json, a sequence of lines
    half,           \* its last line is only half written
    saved,          \* the offset file
    bridge,         \* poll_cowrie: where it is, and its locals
    buffers,        \* buffers[s]; <<>> when s is not in the dict
    quiet,          \* buffered sessions silent for STALE_TIMEOUT
    fed,            \* fed[s]: what was sent to the classifier of s
    upto,           \* history: halves of this file that were read
    missed,         \* history: sessions with a line that was never read whole
    cut,            \* history: sessions that a crash made the bridge forget
    split,          \* history: sessions processed as stale
    spent           \* what is used up of the bounds

honeypot == <<story, file, half>>
memory   == <<buffers, quiet>>
history  == <<upto, missed, cut, split>>
vars     == <<honeypot, saved, bridge, memory, fed, history, spent>>

Kinds == {"connect", "input", "closed"}
Lines == [sid : Sids, kind : Kinds]
Pcs   == {"down", "poll", "reset", "stale", "read", "feed", "write"}

(* Locals that are read no more are 0 or empty. *)
Down    == [pc |-> "down", size |-> 0, offset |-> 0, lines |-> <<>>, todo |-> {}]
Looping == [Down EXCEPT !.pc = "poll"]

Init ==
    /\ story = [s \in Sids |-> <<>>] /\ file = <<>> /\ half = FALSE
    /\ saved = 0 /\ bridge = Down
    /\ buffers = [s \in Sids |-> <<>>] /\ quiet = {}
    /\ fed = [s \in Sids |-> <<>>]
    /\ upto = 0 /\ missed = {} /\ cut = {} /\ split = {}
    /\ spent = [lines |-> 0, crashes |-> 0, rotations |-> 0]

Size       == 2 * Len(file) - (IF half THEN 1 ELSE 0)
At(p)      == bridge.pc = p
Buffered   == {s \in Sids : buffers[s] # <<>>}
Has(q, k)  == \E i \in DOMAIN q : q[i] = k
Larger(a, b)  == IF a > b THEN a ELSE b
Smaller(a, b) == IF a < b THEN a ELSE b

(* Sessions with a line of the file that overlaps the halves from a to b.   *)
Between(a, b) == {file[i].sid : i \in {j \in DOMAIN file : 2 * j > a /\ 2 * (j - 1) < b}}

-----------------------------------------------------------------------------
(* The honeypot: a session connects, does things, and is closed.            *)
Log(s, k) ==
    /\ ~half /\ spent.lines < MaxLines
    /\ \/ k = "connect" /\ story[s] = <<>>
       \/ /\ k \in {"input", "closed"}
          /\ story[s] # <<>> /\ ~Has(story[s], "closed")
          /\ k = "input" => Len(story[s]) <= MaxInputs
    /\ story' = [story EXCEPT ![s] = Append(@, k)]
    /\ file'  = Append(file, [sid |-> s, kind |-> k])
    /\ half'  \in {FALSE, Halving}
    /\ spent' = [spent EXCEPT !.lines = @ + 1]
    /\ UNCHANGED <<saved, bridge, memory, fed, history>>

Finish ==
    /\ half
    /\ half' = FALSE
    /\ UNCHANGED <<story, file, saved, bridge, memory, fed, history, spent>>

(* The log is moved away and a new one begun.                               *)
Rotate ==
    /\ ~half /\ file # <<>>
    /\ spent.rotations < MaxRotations
    /\ spent'  = [spent EXCEPT !.rotations = @ + 1]
    /\ file'   = <<>>
    /\ missed' = missed \cup Between(upto, Size)
    /\ upto'   = 0
    /\ UNCHANGED <<story, half, saved, bridge, memory, fed, cut, split>>

(* Time passes without a word of s.                                         *)
Idle(s) ==
    /\ s \in Buffered \ quiet
    /\ quiet' = quiet \cup {s}
    /\ UNCHANGED <<honeypot, saved, bridge, buffers, fed, history, spent>>

-----------------------------------------------------------------------------
(* assemble_session returns None without a source address, which only the   *)
(* connect event carries.                                                   *)
Assembles(b) == Has(b, "connect")

(* process_session: probes without any input are not classified.  Whatever  *)
(* the classifier answers, the session is not sent again.                   *)
Process(s, b) ==
    fed' = IF Assembles(b) /\ Has(b, "input")
           THEN [fed EXCEPT ![s] = Append(@, b)]
           ELSE fed

(* No news: the sessions that are stale by now are processed and dropped.   *)
(* News: the log is opened and read.                                        *)
ReadOrExpire(size, o) ==
    bridge' = IF size <= o THEN [Down EXCEPT !.pc = "stale", !.todo = quiet]
                           ELSE [Down EXCEPT !.pc = "read", !.offset = o]

(* MUTANT: a log shorter than the offset is taken for one without news. *)
Poll_never_resets ==
    /\ At("poll") /\ saved # Empty
    /\ ReadOrExpire(Size, saved)
    /\ IF Size < saved
       THEN UNCHANGED <<upto, missed>>
       ELSE /\ missed' = missed \cup Between(upto, saved)
            /\ upto'   = Larger(upto, saved)
    /\ UNCHANGED <<honeypot, saved, memory, fed, cut, split, spent>>

(* The top of the loop: read_offset, the size of the log, and whether it    *)
(* shrank.  What is below the offset will not be read any more.             *)
Poll ==
    /\ At("poll") /\ saved # Empty
    /\ IF Size < saved
       THEN /\ bridge' = [Down EXCEPT !.pc = "reset", !.size = Size]
            /\ UNCHANGED <<upto, missed>>
       ELSE /\ ReadOrExpire(Size, saved)
            /\ missed' = missed \cup Between(upto, saved)
            /\ upto'   = Larger(upto, saved)
    /\ UNCHANGED <<honeypot, saved, memory, fed, cut, split, spent>>

(* read_offset of an empty file, which a crash left: int("") raises out of  *)
(* poll_cowrie, at this start and at every later one.                       *)
PollRaises ==
    /\ At("poll") /\ saved = Empty
    /\ bridge' = Down
    /\ UNCHANGED <<honeypot, saved, memory, fed, history, spent>>

(* write_offset truncates the file and then writes it: to forget the old    *)
(* log, and for what was read once all of it was processed.                 *)
Truncate ==
    /\ saved # Empty /\ saved' = Empty
    /\ \/ At("reset") /\ UNCHANGED bridge
       \/ /\ At("feed") /\ bridge.lines = <<>>
          /\ bridge' = [bridge EXCEPT !.pc = "write"]
    /\ UNCHANGED <<honeypot, memory, fed, history, spent>>

Reset ==
    /\ At("reset") /\ saved = Empty
    /\ saved'  = 0
    /\ ReadOrExpire(bridge.size, 0)
    /\ UNCHANGED <<honeypot, memory, fed, history, spent>>

Save ==
    /\ At("write")
    /\ saved'  = bridge.size
    /\ bridge' = Looping
    /\ UNCHANGED <<honeypot, memory, fed, history, spent>>

(* MUTANT: a stale session stays in the dict. *)
Stale_keeps_buffer ==
    /\ At("stale")
    /\ \/ /\ bridge.todo = {}
          /\ bridge' = Looping
          /\ UNCHANGED <<memory, fed, split>>
       \/ \E s \in bridge.todo :
             /\ Process(s, buffers[s])
             /\ bridge' = [bridge EXCEPT !.todo = @ \ {s}]
             /\ quiet'  = quiet \ {s}
             /\ split'  = split \cup {s}
             /\ UNCHANGED buffers
    /\ UNCHANGED <<honeypot, saved, upto, missed, cut, spent>>

Stale ==
    /\ At("stale")
    /\ \/ /\ bridge.todo = {}
          /\ bridge' = Looping
          /\ UNCHANGED <<memory, fed, split>>
       \/ \E s \in bridge.todo :
             /\ Process(s, buffers[s])
             /\ bridge'  = [bridge EXCEPT !.todo = @ \ {s}]
             /\ buffers' = [buffers EXCEPT ![s] = <<>>]
             /\ quiet'   = quiet \ {s}
             /\ split'   = split \cup {s}
    /\ UNCHANGED <<honeypot, saved, upto, missed, cut, spent>>

(* MUTANT: the new offset is taken before the lines are read. *)
Read_tells_early ==
    LET o == bridge.offset IN
    /\ At("read")
    /\ bridge' = [Down EXCEPT !.pc = "feed", !.size = o,
                     !.lines = SubSeq(file, (o + 1) \div 2 + 1, Size \div 2)]
    /\ UNCHANGED <<honeypot, saved, memory, fed, history, spent>>

(* seek, readlines, tell.  A line of which only a half lies between the     *)
(* offset and the end of the file does not parse and is dropped.  "size"    *)
(* now stands for new_offset.                                               *)
Read ==
    LET o == bridge.offset IN
    /\ At("read")
    /\ bridge' = [Down EXCEPT !.pc = "feed", !.size = Larger(o, Size),
                     !.lines = SubSeq(file, (o + 1) \div 2 + 1, Size \div 2)]
    /\ IF o <= Size
       THEN /\ missed' = missed \cup Between(upto, o)
                                \cup (IF half THEN {file[Len(file)].sid} ELSE {})
            /\ upto'   = Size
       ELSE UNCHANGED <<missed, upto>>
    /\ UNCHANGED <<honeypot, saved, memory, fed, cut, split, spent>>

(* MUTANT: the time of the last event outlives the session. *)
Feed_keeps_time ==
    /\ At("feed") /\ bridge.lines # <<>>
    /\ LET s == Head(bridge.lines).sid
           k == Head(bridge.lines).kind
           b == Append(buffers[s], k)
       IN  IF k = "closed"
           THEN Process(s, b) /\ buffers' = [buffers EXCEPT ![s] = <<>>]
           ELSE buffers' = [buffers EXCEPT ![s] = b] /\ UNCHANGED fed
    /\ bridge' = [bridge EXCEPT !.lines = Tail(@)]
    /\ UNCHANGED <<quiet, honeypot, saved, history, spent>>

(* One of the lines that were read.                                         *)
Feed ==
    /\ At("feed") /\ bridge.lines # <<>>
    /\ LET s == Head(bridge.lines).sid
           k == Head(bridge.lines).kind
           b == Append(buffers[s], k)
       IN  /\ quiet' = quiet \ {s}
           /\ IF k = "closed"
              THEN Process(s, b) /\ buffers' = [buffers EXCEPT ![s] = <<>>]
              ELSE buffers' = [buffers EXCEPT ![s] = b] /\ UNCHANGED fed
    /\ bridge' = [bridge EXCEPT !.lines = Tail(@)]
    /\ UNCHANGED <<honeypot, saved, history, spent>>

-----------------------------------------------------------------------------
(* A restart reads on from the offset: of the sessions in memory it finds   *)
(* again only those that began after it.                                    *)
Ahead(s) == saved # Empty /\ \E i \in DOMAIN file :
               2 * (i - 1) >= saved /\ file[i] = [sid |-> s, kind |-> "connect"]
Held == Buffered \cup {bridge.lines[i].sid : i \in DOMAIN bridge.lines}

Crash ==
    /\ ~At("down")
    /\ spent.crashes < MaxCrashes
    /\ spent'   = [spent EXCEPT !.crashes = @ + 1]
    /\ cut'     = cut \cup {s \in Held : fed[s] = <<>> /\ ~Ahead(s)}
    /\ upto'    = IF saved = Empty THEN 0 ELSE Smaller(upto, saved)
    /\ bridge'  = Down
    /\ buffers' = [s \in Sids |-> <<>>] /\ quiet' = {}
    /\ UNCHANGED <<honeypot, saved, fed, missed, split>>

Restart ==
    /\ At("down")
    /\ bridge' = Looping
    /\ UNCHANGED <<honeypot, saved, memory, fed, history, spent>>

Step == \/ Poll \/ PollRaises \/ Truncate \/ Reset \/ Save
        \/ Stale \/ Read \/ Feed

Next == \/ \E s \in Sids, k \in Kinds : Log(s, k)
        \/ \E s \in Sids : Idle(s)
        \/ Finish \/ Rotate \/ Crash \/ Restart \/ Step

Spec == Init /\ [][Next]_vars

(* A running bridge loops on; its HTTP calls have a timeout of 30 seconds.  *)
(* Nothing is assumed of the honeypot, of crashes and of restarts.          *)
FairSpec == Spec /\ WF_vars(Step)

-----------------------------------------------------------------------------
(* The types, and: times are kept of buffered sessions only (the two dicts  *)
(* of poll_cowrie have the same keys).                                      *)
TypeOK ==
    /\ story \in [Sids -> Seq(Kinds)] /\ file \in Seq(Lines) /\ half \in BOOLEAN
    /\ saved \in Nat \cup {Empty}
    /\ bridge \in [pc : Pcs, size : Nat, offset : Nat, lines : Seq(Lines), todo : SUBSET Sids]
    /\ buffers \in [Sids -> Seq(Kinds)] /\ quiet \subseteq Buffered
    /\ fed \in [Sids -> Seq(Seq(Kinds))]
    /\ upto \in Nat /\ {missed, cut, split} \subseteq SUBSET Sids
    /\ spent \in [lines : Nat, crashes : Nat, rotations : Nat]

(* A session is sent to the classifier at most once in a life of the        *)
(* bridge: neither a rotation, nor a late event of a session that was taken *)
(* for stale, sends it again (poll_cowrie, 193-247).                        *)
FedOncePerLife == \A s \in Sids : Len(fed[s]) <= 1 + spent.crashes

(* What is sent of a session has no gaps: it is what the session did from   *)
(* its beginning, up to its end unless it was taken for stale.  Lines lost  *)
(* to a rotation or read by halves are the only exception.                  *)
NoGaps ==
    \A s \in Sids \ missed : \A i \in DOMAIN fed[s] :
        LET b == fed[s][i] IN
        /\ Len(b) <= Len(story[s]) /\ b = SubSeq(story[s], 1, Len(b))
        /\ b[Len(b)] = "closed" \/ s \in split

Completed(s) == Has(story[s], "input") /\ Has(story[s], "closed")
Up == <>[](bridge.pc # "down")

(* While the bridge stays up, every completed session is fed, but for those *)
(* a rotation or a half line took something of, those that were processed   *)
(* as stale, and those a crash found open behind the saved offset: a crash  *)
(* loses no other, at whatever point of the loop it comes.                  *)
CompletedFed ==
    Up => \A s \in Sids :
            Completed(s) ~> fed[s] # <<>> \/ s \in missed \cup split \cup cut

(* cowrie_pipeline_bridge.py:4, "Watches cowrie.json for completed sessions *)
(* and feeds them through": the sessions that a crash found open, too.      *)
FedAfterCrash ==
    Up => \A s \in Sids : Completed(s) ~> fed[s] # <<>> \/ s \in missed \cup split
=============================================================================
