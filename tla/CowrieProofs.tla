---------------------------- MODULE CowrieProofs ----------------------------
(***************************************************************************)
(* What poll_cowrie sends to the classifier, for any number of sessions,   *)
(* any stories, crashes and rotations: no session twice in a life of the   *)
(* bridge, and none with a gap that a rotation or a half line did not tear *)
(* (cowrie_pipeline_bridge.py:193-247).                                    *)
(*                                                                         *)
(* Neither is inductive.  The invariant that is (BridgeInv) speaks of the  *)
(* lines the bridge has still to take in (Rest): they continue the story   *)
(* where the buffer stops (Tracked), and the line that opens a session is  *)
(* met once in a life of the bridge (Single), so that a session is either  *)
(* to be fed or was fed (Once).                                            *)
(***************************************************************************)
EXTENDS CowrieBridge, SequenceTheorems, TLAPS

(* The lines of s in q are the events h, in their order. *)
Follows(q, s, h) ==
    \E f \in [1..Len(h) -> 1..Len(q)] :
        /\ \A j, k \in 1..Len(h) : j < k => f[j] < f[k]
        /\ \A k \in 1..Len(h) : q[f[k]].sid = s /\ q[f[k]].kind = h[k]
        /\ \A p \in 1..Len(q) : q[p].sid = s => \E k \in 1..Len(h) : f[k] = p

Free(q, s)  == \A p \in 1..Len(q) : q[p].sid # s
Opens(q, s) == \E p \in 1..Len(q) : q[p].sid = s /\ q[p].kind = "connect"

(* Outside the positions a + 1 to b of q, there is nothing of s. *)
Silent(q, s, a, b) == \A p \in 1..Len(q) : q[p].sid = s => a < p /\ p <= b

-----------------------------------------------------------------------------
(* Sequences of lines, and what they tell of a session *)

LEMMA Section ==
    ASSUME NEW q \in Seq(Lines), NEW a \in Nat, NEW b \in Int, b <= Len(q)
    PROVE  /\ SubSeq(q, a + 1, b) \in Seq(Lines)
           /\ Len(SubSeq(q, a + 1, b)) = IF a < b THEN b - a ELSE 0
           /\ \A i \in 1..(b - a) : /\ SubSeq(q, a + 1, b)[i] = q[a + i]
                                   /\ a + i \in 1..Len(q)
<1> DEFINE r == SubSeq(q, a + 1, b)
<1>1. Len(q) \in Nat /\ a + 1 \in Int /\ \A i \in (a + 1)..b : i \in 1..Len(q)
  OBVIOUS
<1>2. \A i \in (a + 1)..b : q[i] \in Lines
  BY <1>1
<1>3. /\ r \in Seq(Lines)
      /\ Len(r) = IF a + 1 <= b THEN b - (a + 1) + 1 ELSE 0
      /\ \A i \in 1..(b - (a + 1) + 1) : r[i] = q[(a + 1) + i - 1]
  BY <1>1, <1>2, SubSeqProperties
<1> HIDE DEF r
<1>4. \A i \in 1..(b - a) : /\ i \in 1..(b - (a + 1) + 1) /\ (a + 1) + i - 1 = a + i
                           /\ a + i \in 1..Len(q)
  BY <1>1
<1>5. Len(r) = IF a < b THEN b - a ELSE 0
  BY <1>3
<1>6. \A i \in 1..(b - a) : r[i] = q[a + i] /\ a + i \in 1..Len(q)
  BY <1>3, <1>4
<1> QED BY <1>3, <1>5, <1>6 DEF r

(* A log is as good as its lines without those of others. *)
LEMMA FollowsNothing ==
    ASSUME NEW s \in Sids, NEW q \in Seq(Lines)
    PROVE  Follows(q, s, <<>>) <=> Free(q, s)
<1>1. ASSUME Free(q, s)
      PROVE  Follows(q, s, <<>>)
  <2> DEFINE f == [k \in 1..Len(<<>>) |-> 1]
  <2>1. f \in [1..Len(<<>>) -> 1..Len(q)]
    OBVIOUS
  <2>2. 1..Len(<<>>) = {}
    OBVIOUS
  <2> HIDE DEF f
  <2> QED BY <1>1, <2>1, <2>2 DEF Follows, Free
<1>2. ASSUME Follows(q, s, <<>>)
      PROVE  Free(q, s)
  <2>1. 1..Len(<<>>) = {}
    OBVIOUS
  <2> QED BY <1>2, <2>1 DEF Follows, Free
<1> QED BY <1>1, <1>2

(* A line of another session changes nothing. *)
LEMMA FollowsOther ==
    ASSUME NEW s \in Sids, NEW q \in Seq(Lines), NEW h \in Seq(Kinds),
           NEW e \in Lines, e.sid # s, Follows(q, s, h)
    PROVE  Follows(Append(q, e), s, h)
<1> DEFINE r == Append(q, e)
<1>1. /\ Len(q) \in Nat /\ Len(r) = Len(q) + 1 /\ Len(h) \in Nat
      /\ \A p \in 1..Len(q) : r[p] = q[p]
      /\ r[Len(q) + 1] = e
  OBVIOUS
<1>2. PICK f \in [1..Len(h) -> 1..Len(q)] :
        /\ \A j, k \in 1..Len(h) : j < k => f[j] < f[k]
        /\ \A k \in 1..Len(h) : q[f[k]].sid = s /\ q[f[k]].kind = h[k]
        /\ \A p \in 1..Len(q) : q[p].sid = s => \E k \in 1..Len(h) : f[k] = p
  BY DEF Follows
<1> HIDE DEF r
<1>3. f \in [1..Len(h) -> 1..Len(r)]
  BY <1>1
<1>4. \A k \in 1..Len(h) : r[f[k]].sid = s /\ r[f[k]].kind = h[k]
  BY <1>1, <1>2
<1>5. \A p \in 1..Len(r) : r[p].sid = s => \E k \in 1..Len(h) : f[k] = p
  BY <1>1, <1>2
<1>6. Follows(r, s, h)
  BY <1>2, <1>3, <1>4, <1>5 DEF Follows
<1> QED BY <1>6 DEF r

(* A line of s is its next event. *)
LEMMA FollowsOwn ==
    ASSUME NEW s \in Sids, NEW q \in Seq(Lines), NEW h \in Seq(Kinds),
           NEW e \in Lines, e.sid = s, Follows(q, s, h)
    PROVE  Follows(Append(q, e), s, Append(h, e.kind))
<1> DEFINE r == Append(q, e)
           g == Append(h, e.kind)
<1>0. e.kind \in Kinds
  BY DEF Lines
<1>1. /\ Len(q) \in Nat /\ Len(r) = Len(q) + 1
      /\ \A p \in 1..Len(q) : r[p] = q[p]
      /\ r[Len(q) + 1] = e
  OBVIOUS
<1>2. /\ Len(h) \in Nat /\ Len(g) = Len(h) + 1
      /\ \A k \in 1..Len(h) : g[k] = h[k]
      /\ g[Len(h) + 1] = e.kind
  BY <1>0
<1>3. PICK f \in [1..Len(h) -> 1..Len(q)] :
        /\ \A j, k \in 1..Len(h) : j < k => f[j] < f[k]
        /\ \A k \in 1..Len(h) : q[f[k]].sid = s /\ q[f[k]].kind = h[k]
        /\ \A p \in 1..Len(q) : q[p].sid = s => \E k \in 1..Len(h) : f[k] = p
  BY DEF Follows
<1> DEFINE w == [k \in 1..(Len(h) + 1) |-> IF k = Len(h) + 1 THEN Len(q) + 1 ELSE f[k]]
<1>4. /\ w \in [1..Len(g) -> 1..Len(r)]
      /\ w[Len(h) + 1] = Len(q) + 1
      /\ \A k \in 1..Len(h) : w[k] = f[k]
  BY <1>1, <1>2
<1>5. \A k \in 1..Len(h) : f[k] \in 1..Len(q)
  OBVIOUS
<1> HIDE DEF r, g, w
<1>6. \A j, k \in 1..Len(g) : j < k => w[j] < w[k]
  <2> TAKE j, k \in 1..Len(g)
  <2> SUFFICES ASSUME j < k
               PROVE  w[j] < w[k]
    OBVIOUS
  <2>1. j \in 1..Len(h) /\ w[j] = f[j] /\ f[j] \in 1..Len(q)
    BY <1>2, <1>4, <1>5
  <2>2. CASE k = Len(h) + 1
    BY <2>1, <2>2, <1>1, <1>4
  <2>3. CASE k \in 1..Len(h)
    BY <2>1, <2>3, <1>3, <1>4
  <2> QED BY <2>2, <2>3, <1>2
<1>7. \A k \in 1..Len(g) : r[w[k]].sid = s /\ r[w[k]].kind = g[k]
  <2> TAKE k \in 1..Len(g)
  <2>1. CASE k = Len(h) + 1
    BY <2>1, <1>1, <1>2, <1>4
  <2>2. CASE k \in 1..Len(h)
    <3>1. w[k] = f[k] /\ f[k] \in 1..Len(q) /\ r[f[k]] = q[f[k]] /\ g[k] = h[k]
      BY <2>2, <1>1, <1>2, <1>4, <1>5
    <3> QED BY <2>2, <3>1, <1>3
  <2> QED BY <2>1, <2>2, <1>2
<1>8. \A p \in 1..Len(r) : r[p].sid = s => \E k \in 1..Len(g) : w[k] = p
  <2> SUFFICES ASSUME NEW p \in 1..Len(r), r[p].sid = s
               PROVE  \E k \in 1..Len(g) : w[k] = p
    OBVIOUS
  <2>1. CASE p = Len(q) + 1
    <3>1. Len(h) + 1 \in 1..Len(g) /\ w[Len(h) + 1] = p
      BY <2>1, <1>2, <1>4
    <3> QED BY <3>1
  <2>2. CASE p \in 1..Len(q)
    <3>1. q[p].sid = s
      BY <2>2, <1>1
    <3>2. PICK k \in 1..Len(h) : f[k] = p
      BY <2>2, <3>1, <1>3
    <3>3. k \in 1..Len(g) /\ w[k] = p
      BY <3>2, <1>2, <1>4
    <3> QED BY <3>3
  <2> QED BY <2>1, <2>2, <1>1
<1>9. Follows(r, s, g)
  BY <1>4, <1>6, <1>7, <1>8 DEF Follows
<1> QED BY <1>9 DEF r, g

(* Leaving out lines of others at both ends changes nothing. *)
LEMMA FollowsSection ==
    ASSUME NEW s \in Sids, NEW q \in Seq(Lines), NEW h \in Seq(Kinds),
           NEW a \in 0..Len(q), NEW b \in Int, b <= Len(q),
           Silent(q, s, a, b), Follows(q, s, h)
    PROVE  Follows(SubSeq(q, a + 1, b), s, h)
<1> DEFINE r == SubSeq(q, a + 1, b)
<1>1. /\ Len(q) \in Nat /\ Len(h) \in Nat /\ a \in Nat /\ b \in Int
      /\ Len(r) = IF a < b THEN b - a ELSE 0
      /\ \A p \in 1..(b - a) : a + p \in 1..Len(q) /\ r[p] = q[a + p]
  BY Section
<1>2. PICK f \in [1..Len(h) -> 1..Len(q)] :
        /\ \A j, k \in 1..Len(h) : j < k => f[j] < f[k]
        /\ \A k \in 1..Len(h) : q[f[k]].sid = s /\ q[f[k]].kind = h[k]
        /\ \A p \in 1..Len(q) : q[p].sid = s => \E k \in 1..Len(h) : f[k] = p
  BY DEF Follows
<1> HIDE DEF r
<1>3. \A k \in 1..Len(h) : f[k] \in 1..Len(q) /\ a < f[k] /\ f[k] <= b
  BY <1>2 DEF Silent
<1> DEFINE w == [k \in 1..Len(h) |-> f[k] - a]
<1>4. /\ w \in [1..Len(h) -> 1..Len(r)]
      /\ \A k \in 1..Len(h) : w[k] = f[k] - a /\ a + w[k] = f[k]
  BY <1>1, <1>3
<1> HIDE DEF w
<1>5. \A j, k \in 1..Len(h) : j < k => w[j] < w[k]
  <2> SUFFICES ASSUME NEW j \in 1..Len(h), NEW k \in 1..Len(h), j < k
               PROVE  w[j] < w[k]
    OBVIOUS
  <2>1. f[j] < f[k]
    BY <1>2
  <2>2. f[j] \in Int /\ f[k] \in Int /\ a \in Int
    <3>1. Len(q) \in Int /\ a \in Int /\ f[j] \in 1..Len(q) /\ f[k] \in 1..Len(q)
      BY <1>1, <1>3
    <3> QED BY ONLY <3>1
  <2>3. w[j] = f[j] - a /\ w[k] = f[k] - a
    BY <1>4
  <2> QED BY ONLY <2>1, <2>2, <2>3
<1>6. \A k \in 1..Len(h) : r[w[k]].sid = s /\ r[w[k]].kind = h[k]
  <2> TAKE k \in 1..Len(h)
  <2>1. w[k] \in 1..(b - a) /\ r[w[k]] = q[f[k]]
    BY <1>1, <1>4
  <2> QED BY <2>1, <1>2
<1>7. \A p \in 1..Len(r) : r[p].sid = s => \E k \in 1..Len(h) : w[k] = p
  <2> SUFFICES ASSUME NEW p \in 1..Len(r), r[p].sid = s
               PROVE  \E k \in 1..Len(h) : w[k] = p
    OBVIOUS
  <2>1. p \in 1..(b - a) /\ a + p \in 1..Len(q) /\ q[a + p].sid = s
    BY <1>1
  <2>2. PICK k \in 1..Len(h) : f[k] = a + p
    BY <2>1, <1>2
  <2>3. w[k] = p
    BY <2>2, <1>1, <1>4
  <2> QED BY <2>3
<1>8. Follows(r, s, h)
  BY <1>4, <1>5, <1>6, <1>7 DEF Follows
<1> QED BY <1>8 DEF r

(* A first line of s is its first event. *)
LEMMA FollowsHead ==
    ASSUME NEW s \in Sids, NEW q \in Seq(Lines), NEW h \in Seq(Kinds),
           q # <<>>, q[1].sid = s, Follows(q, s, h)
    PROVE  /\ h # <<>> /\ h[1] = q[1].kind
           /\ Follows(Tail(q), s, Tail(h))
<1> DEFINE r == Tail(q)
           g == Tail(h)
<1>1. /\ Len(q) \in Nat \ {0} /\ r \in Seq(Lines) /\ Len(r) = Len(q) - 1
      /\ \A p \in 1..Len(r) : r[p] = q[p + 1]
  BY HeadTailProperties, EmptySeq
<1>2. PICK f \in [1..Len(h) -> 1..Len(q)] :
        /\ \A j, k \in 1..Len(h) : j < k => f[j] < f[k]
        /\ \A k \in 1..Len(h) : q[f[k]].sid = s /\ q[f[k]].kind = h[k]
        /\ \A p \in 1..Len(q) : q[p].sid = s => \E k \in 1..Len(h) : f[k] = p
  BY DEF Follows
<1>3. PICK c \in 1..Len(h) : f[c] = 1
  BY <1>1, <1>2
<1>4. Len(h) \in Nat /\ c = 1
  <2>1. Len(h) \in Nat
    OBVIOUS
  <2>2. ASSUME c > 1
        PROVE  FALSE
    <3>1. 1 \in 1..Len(h)
      BY <2>1
    <3>2. f[1] < f[c] /\ f[1] \in 1..Len(q)
      BY <2>2, <3>1, <1>2
    <3> QED BY <3>2, <1>3
  <2> QED BY <2>1, <2>2
<1>5. h # <<>> /\ h[1] = q[1].kind /\ Len(h) \in Nat \ {0}
  BY <1>2, <1>3, <1>4
<1>6. g \in Seq(Kinds) /\ Len(g) = Len(h) - 1 /\ \A k \in 1..Len(g) : g[k] = h[k + 1]
  BY <1>5, HeadTailProperties
<1> HIDE DEF r, g
<1>7. \A k \in 1..Len(g) : /\ k + 1 \in 1..Len(h) /\ f[k + 1] \in 1..Len(q)
                           /\ f[k + 1] > 1
  <2> TAKE k \in 1..Len(g)
  <2>1. 1 \in 1..Len(h) /\ k + 1 \in 1..Len(h) /\ 1 < k + 1
    BY <1>5, <1>6
  <2>2. f[1] < f[k + 1] /\ f[k + 1] \in 1..Len(q)
    BY <2>1, <1>2
  <2> QED BY <2>1, <2>2, <1>3, <1>4
<1> DEFINE w == [k \in 1..Len(g) |-> f[k + 1] - 1]
<1>8. /\ w \in [1..Len(g) -> 1..Len(r)]
      /\ \A k \in 1..Len(g) : w[k] = f[k + 1] - 1 /\ w[k] + 1 = f[k + 1]
  BY <1>1, <1>7
<1> HIDE DEF w
<1>9. \A j, k \in 1..Len(g) : j < k => w[j] < w[k]
  <2> SUFFICES ASSUME NEW j \in 1..Len(g), NEW k \in 1..Len(g), j < k
               PROVE  w[j] < w[k]
    OBVIOUS
  <2>1. /\ j + 1 \in 1..Len(h) /\ k + 1 \in 1..Len(h) /\ j + 1 < k + 1
        /\ f[j + 1] \in 1..Len(q) /\ f[k + 1] \in 1..Len(q)
    BY <1>6, <1>7, <1>5
  <2>2. f[j + 1] < f[k + 1]
    BY <2>1, <1>2
  <2> QED BY <2>1, <2>2, <1>8
<1>10. \A k \in 1..Len(g) : r[w[k]].sid = s /\ r[w[k]].kind = g[k]
  <2> TAKE k \in 1..Len(g)
  <2>1. w[k] \in 1..Len(r) /\ w[k] + 1 = f[k + 1]
    BY <1>8
  <2>2. r[w[k]] = q[f[k + 1]] /\ g[k] = h[k + 1] /\ k + 1 \in 1..Len(h)
    BY <2>1, <1>1, <1>6, <1>7
  <2> QED BY <2>2, <1>2
<1>11. \A p \in 1..Len(r) : r[p].sid = s => \E k \in 1..Len(g) : w[k] = p
  <2> SUFFICES ASSUME NEW p \in 1..Len(r), r[p].sid = s
               PROVE  \E k \in 1..Len(g) : w[k] = p
    OBVIOUS
  <2>1. p + 1 \in 1..Len(q) /\ q[p + 1].sid = s /\ p + 1 > 1
    BY <1>1
  <2>2. PICK d \in 1..Len(h) : f[d] = p + 1
    BY <2>1, <1>2
  <2>3. d # 1
    BY <2>1, <2>2, <1>3, <1>4
  <2>4. PICK k \in 1..Len(g) : k + 1 = d
    <3>1. d - 1 \in 1..Len(g) /\ (d - 1) + 1 = d
      BY <2>3, <1>5, <1>6
    <3> QED BY <3>1
  <2>5. w[k] + 1 = p + 1 /\ w[k] \in 1..Len(r)
    BY <2>2, <2>4, <1>8
  <2> QED BY <2>4, <2>5, <1>1
<1>12. Follows(r, s, g)
  BY <1>8, <1>9, <1>10, <1>11 DEF Follows
<1> QED BY <1>5, <1>12 DEF r, g

(* A story that begins with "connect" and has no other. *)
Begins(h) == \A k \in 1..Len(h) : h[k] = "connect" <=> k = 1

(* Nothing of a session comes before the line that opens it, and no second *)
(* line does.                                                              *)
LEMMA FollowsOpening ==
    ASSUME NEW s \in Sids, NEW q \in Seq(Lines), NEW h \in Seq(Kinds),
           Begins(h), Follows(q, s, h),
           NEW o \in 1..Len(q), q[o].sid = s, q[o].kind = "connect"
    PROVE  /\ Silent(q, s, o - 1, Len(q))
           /\ \A p \in 1..Len(q) : q[p].sid = s /\ q[p].kind = "connect" => p = o
<1>1. PICK f \in [1..Len(h) -> 1..Len(q)] :
        /\ \A j, k \in 1..Len(h) : j < k => f[j] < f[k]
        /\ \A k \in 1..Len(h) : q[f[k]].sid = s /\ q[f[k]].kind = h[k]
        /\ \A p \in 1..Len(q) : q[p].sid = s => \E k \in 1..Len(h) : f[k] = p
  BY DEF Follows
<1>2. /\ 1 \in 1..Len(h) /\ f[1] = o
      /\ \A p \in 1..Len(q) : q[p].sid = s /\ q[p].kind = "connect" => p = f[1]
  <2>1. ASSUME NEW p \in 1..Len(q), q[p].sid = s, q[p].kind = "connect"
        PROVE  1 \in 1..Len(h) /\ p = f[1]
    <3>1. PICK k \in 1..Len(h) : f[k] = p
      BY <2>1, <1>1
    <3>2. k = 1
      BY <2>1, <3>1, <1>1 DEF Begins
    <3> QED BY <3>1, <3>2
  <2> QED BY <2>1
<1>3. ASSUME NEW p \in 1..Len(q), q[p].sid = s
      PROVE  o <= p
  <2>1. PICK k \in 1..Len(h) : f[k] = p
    BY <1>1, <1>3
  <2>2. k = 1 \/ 1 < k
    OBVIOUS
  <2> QED BY <2>1, <2>2, <1>1, <1>2
<1>4. Silent(q, s, o - 1, Len(q))
  <2>1. \A p \in 1..Len(q) : p \in Nat /\ p <= Len(q)
    OBVIOUS
  <2>2. o \in Nat
    OBVIOUS
  <2> QED BY <2>1, <2>2, <1>3 DEF Silent
<1> QED BY <1>2, <1>4

-----------------------------------------------------------------------------
(* The offsets *)

(* The bridge does not go back over what it has read, unless the log was   *)
(* rotated, which sets upto to 0.                                          *)
Offsets ==
    /\ upto <= Size
    /\ At("reset") => upto = 0
    /\ bridge.pc \in {"down", "poll", "stale"} =>
          IF saved = Empty THEN upto = 0 ELSE upto <= saved
    /\ At("read") => upto <= bridge.offset /\ bridge.offset = saved
    /\ bridge.pc \in {"feed", "write"} => upto <= bridge.size
    /\ upto > 0 => /\ saved # Empty => saved <= Size
                   /\ bridge.pc \in {"feed", "write"} => bridge.size <= Size
    /\ ~At("feed") => bridge.lines = <<>>
    /\ half => file # <<>>

(* Halves of lines, rounded up and down. *)
LEMMA Halves ==
    ASSUME NEW n \in Nat
    PROVE  /\ (n + 1) \div 2 \in Nat /\ n \div 2 \in Nat
           /\ 2 * ((n + 1) \div 2) = n \/ 2 * ((n + 1) \div 2) = n + 1
           /\ 2 * (n \div 2) = n \/ 2 * (n \div 2) = n - 1
OBVIOUS

Bounds  == [lines : Nat, crashes : Nat, rotations : Nat]
Bridges == [pc : Pcs, size : Nat, offset : Nat, lines : Seq(Lines), todo : SUBSET Sids]

(* Lines, and the states of the bridge. *)
LEMMA LineParts == \A e \in Lines : e.sid \in Sids /\ e.kind \in Kinds
BY DEF Lines

LEMMA Spending ==
    \A u \in Bounds : /\ [u EXCEPT !.lines = @ + 1] \in Bounds
                     /\ [u EXCEPT !.crashes = @ + 1] \in Bounds
                     /\ [u EXCEPT !.rotations = @ + 1] \in Bounds
BY DEF Bounds

LEMMA AppendNonempty ==
    ASSUME NEW q \in Seq(Kinds), NEW k \in Kinds
    PROVE  Append(q, k) # <<>>
BY AppendProperties

LEMMA BridgeStates ==
    /\ Down \in Bridges /\ Looping \in Bridges /\ Down.lines = <<>> /\ Looping.lines = <<>>
    /\ \A T \in SUBSET Sids : [Down EXCEPT !.pc = "stale", !.todo = T] \in Bridges
    /\ \A n \in Nat : /\ [Down EXCEPT !.pc = "read", !.offset = n] \in Bridges
                      /\ [Down EXCEPT !.pc = "reset", !.size = n] \in Bridges
    /\ \A n \in Nat, q \in Seq(Lines) :
          [Down EXCEPT !.pc = "feed", !.size = n, !.lines = q] \in Bridges
    /\ \A r \in Bridges : /\ [r EXCEPT !.pc = "write"] \in Bridges
                          /\ \A T \in SUBSET Sids : [r EXCEPT !.todo = T] \in Bridges
                          /\ \A q \in Seq(Lines) : [r EXCEPT !.lines = q] \in Bridges
<1>1. <<>> \in Seq(Lines)
  BY EmptySeq
<1> QED BY <1>1 DEF Down, Looping, Bridges, Pcs

(* Half as many as more is no less. *)
LEMMA HalvesGrow ==
    ASSUME NEW u \in Nat, NEW v \in Nat, NEW x \in Nat, NEW y \in Nat,
           2 * x = u \/ 2 * x = u + 1, 2 * y = v \/ 2 * y = v + 1
    PROVE  /\ u <= v => x <= y
           /\ \A z \in Nat : 2 * z >= v => z >= y
           /\ \A z \in Nat : z > x => 2 * z > u
OBVIOUS

(* Halves of the size of a file of n lines, the last one cut or not. *)
LEMMA HalvesOfSize ==
    ASSUME NEW n \in Nat, NEW z \in Nat, NEW b \in Nat, NEW c \in Nat,
           2 * b = z \/ 2 * b = z - 1, 2 * c = z \/ 2 * c = z + 1
    PROVE  /\ z = 2 * n => b = n /\ c = n
           /\ z = 2 * n - 1 => b = n - 1 /\ c = n /\ n >= 1
OBVIOUS

(* The types, one by one, and the size of the file. *)
Fields ==
    /\ story \in [Sids -> Seq(Kinds)] /\ file \in Seq(Lines) /\ half \in BOOLEAN
    /\ saved # Empty => saved \in Nat
    /\ bridge \in Bridges
    /\ buffers \in [Sids -> Seq(Kinds)] /\ quiet \subseteq Buffered
    /\ fed \in [Sids -> Seq(Seq(Kinds))]
    /\ upto \in Nat
    /\ missed \subseteq Sids /\ cut \subseteq Sids /\ split \subseteq Sids
    /\ spent \in Bounds

Sizes ==
    /\ Len(file) \in Nat /\ DOMAIN file = 1..Len(file)
    /\ Size \in Nat /\ Size <= 2 * Len(file) /\ 2 * Len(file) - 1 <= Size
    /\ (~half) => Size = 2 * Len(file)
    /\ half => Size = 2 * Len(file) - 1

LEMMA TypesAreFields == (TypeOK <=> Fields) /\ (TypeOK' <=> Fields')
<1>1. TypeOK <=> Fields
  BY DEF TypeOK, Fields, Bridges, Bounds
<1>2. TypeOK' <=> Fields'
  BY DEF TypeOK, Fields, Bridges, Bounds
<1> QED BY <1>1, <1>2

LEMMA SizesHold ==
    ASSUME Fields, half => file # <<>>
    PROVE  Sizes /\ \A a, b : Between(a, b) \subseteq Sids
<1>1. file \in Seq(Lines) /\ half \in BOOLEAN
  BY DEF Fields
<1>2. Len(file) \in Nat /\ DOMAIN file = 1..Len(file)
  BY <1>1
<1>3. file # <<>> => Len(file) > 0
  BY <1>1, EmptySeq
<1>4. Sizes
  BY <1>1, <1>2, <1>3 DEF Size, Sizes
<1>5. \A a, b : Between(a, b) \subseteq Sids
  <2>1. \A i \in 1..Len(file) : file[i].sid \in Sids
    BY <1>1, LineParts
  <2> QED BY <2>1, <1>2 DEF Between
<1> QED BY <1>4, <1>5

(* Sending a session or not, and to nobody else. *)
LEMMA Processed ==
    ASSUME fed \in [Sids -> Seq(Seq(Kinds))], NEW s \in Sids, NEW b \in Seq(Kinds), Process(s, b)
    PROVE  /\ fed' \in [Sids -> Seq(Seq(Kinds))]
           /\ \A x \in Sids \ {s} : fed'[x] = fed[x]
           /\ \/ fed'[s] = fed[s]
              \/ Has(b, "connect") /\ Has(b, "input") /\ fed'[s] = Append(fed[s], b)
<1>1. fed[s] \in Seq(Seq(Kinds)) /\ Append(fed[s], b) \in Seq(Seq(Kinds))
  OBVIOUS
<1> QED BY <1>1 DEF Process, Assembles

LEMMA TypeStep ==
    ASSUME Fields, half => file # <<>>, [Next]_vars
    PROVE  Fields'
<1>0. Sizes /\ \A a, b : Between(a, b) \subseteq Sids
  BY SizesHold
<1> USE DEF Fields
<1>1. ASSUME NEW s \in Sids, NEW k \in Kinds, Log(s, k)
      PROVE  Fields'
  <2>1. [sid |-> s, kind |-> k] \in Lines
    BY DEF Lines
  <2>2. file' \in Seq(Lines)
    BY <2>1, <1>1 DEF Log
  <2>3. story' \in [Sids -> Seq(Kinds)]
    BY <1>1 DEF Log
  <2>4. half' \in BOOLEAN
    BY <1>1, BridgeAssumption DEF Log
  <2>5. spent' \in Bounds
    BY <1>1, Spending DEF Log
  <2>6. /\ UNCHANGED <<saved, bridge, buffers, quiet, fed, upto, missed, cut, split>>
        /\ Buffered' = Buffered
    BY <1>1 DEF Log, memory, history, Buffered
  <2> QED BY <2>2, <2>3, <2>4, <2>5, <2>6
<1>2. CASE Finish
  BY <1>2 DEF Finish, memory, history, Buffered
<1>3. CASE Rotate
  <2>1. file' \in Seq(Lines) /\ upto' \in Nat
    BY <1>3 DEF Rotate
  <2>2. missed' \subseteq Sids
    BY <1>0, <1>3 DEF Rotate
  <2> QED BY <2>1, <2>2, <1>3, Spending DEF Rotate, memory, Buffered
<1>4. ASSUME NEW s \in Sids, Idle(s)
      PROVE  Fields'
  BY <1>4 DEF Idle, honeypot, history, Buffered
<1>5. CASE Poll
  <2>1. bridge' \in Bridges
    BY <1>0, <1>5, BridgeStates DEF Sizes, Poll, ReadOrExpire, Buffered
  <2>2. upto' \in Nat /\ missed' \subseteq Sids
    BY <1>0, <1>5 DEF Poll, Larger
  <2> QED BY <2>1, <2>2, <1>5 DEF Poll, honeypot, memory, Buffered
<1>6. CASE PollRaises
  BY <1>6, BridgeStates DEF PollRaises, honeypot, memory, history, Buffered
<1>7. CASE Truncate
  <2>1. bridge' \in Bridges
    BY <1>7, BridgeStates DEF Truncate, Pcs
  <2> QED BY <2>1, <1>7 DEF Truncate, honeypot, memory, history, Buffered
<1>8. CASE Reset
  <2>1. bridge' \in Bridges
    BY <1>8, BridgeStates DEF Reset, ReadOrExpire, Buffered
  <2> QED BY <2>1, <1>8 DEF Reset, honeypot, memory, history, Buffered
<1>9. CASE Save
  <2>1. bridge' \in Bridges /\ saved' \in Nat
    BY <1>9, BridgeStates DEF Save, Bridges
  <2> QED BY <2>1, <1>9 DEF Save, honeypot, memory, history, Buffered
<1>10. CASE Stale
  <2>1. CASE bridge.todo = {} /\ bridge' = Looping /\ UNCHANGED <<memory, fed, split>>
    BY <2>1, <1>10, BridgeStates DEF Stale, honeypot, memory, Buffered
  <2>2. ASSUME NEW s \in bridge.todo,
               Process(s, buffers[s]),
               bridge' = [bridge EXCEPT !.todo = @ \ {s}],
               buffers' = [buffers EXCEPT ![s] = <<>>],
               quiet' = quiet \ {s}, split' = split \cup {s}
        PROVE  Fields'
    <3>1. s \in Sids /\ buffers[s] \in Seq(Kinds) /\ bridge.todo \ {s} \in SUBSET Sids
      BY DEF Bridges
    <3>2. bridge' \in Bridges
      BY <2>2, <3>1, BridgeStates
    <3>3. fed' \in [Sids -> Seq(Seq(Kinds))]
      BY <2>2, <3>1, Processed
    <3>4. buffers' \in [Sids -> Seq(Kinds)] /\ quiet' \subseteq Buffered'
      BY <2>2, <3>1 DEF Buffered
    <3> QED BY <2>2, <3>1, <3>2, <3>3, <3>4, <1>10 DEF Stale, honeypot
  <2> QED BY <2>1, <2>2, <1>10 DEF Stale
<1>11. CASE Read
  <2>1. ASSUME NEW m \in Nat, NEW n \in Nat, n <= Len(file)
        PROVE  SubSeq(file, m + 1, n) \in Seq(Lines)
    <3>1. \A i \in (m + 1)..n : file[i] \in Lines
      BY <1>0, <2>1 DEF Sizes
    <3> QED BY <3>1, SubSeqProperties
  <2>2. /\ bridge.offset \in Nat /\ (bridge.offset + 1) \div 2 \in Nat
        /\ Size \div 2 \in Nat /\ Size \div 2 <= Len(file)
    <3>1. bridge.offset \in Nat /\ Size \in Nat
      BY <1>0 DEF Bridges, Sizes
    <3> QED BY <1>0, <3>1, Halves DEF Sizes
  <2>3. SubSeq(file, (bridge.offset + 1) \div 2 + 1, Size \div 2) \in Seq(Lines)
    BY <2>1, <2>2
  <2>4. bridge' \in Bridges
    <3>1. Larger(bridge.offset, Size) \in Nat
      BY <2>2, <1>0 DEF Sizes, Larger
    <3> QED BY <2>3, <3>1, <1>11, BridgeStates DEF Read
  <2>5. half => file[Len(file)].sid \in Sids
    <3>1. half => Len(file) \in 1..Len(file)
      BY EmptySeq
    <3> QED BY <3>1, LineParts
  <2>6. upto' \in Nat /\ missed' \subseteq Sids
    BY <2>5, <1>0, <1>11 DEF Sizes, Read
  <2> QED BY <2>4, <2>6, <1>11 DEF Read, honeypot, memory, Buffered
<1>12. CASE Feed
  <2> DEFINE s == Head(bridge.lines).sid
             k == Head(bridge.lines).kind
             b == Append(buffers[s], k)
  <2>1. s \in Sids /\ k \in Kinds /\ b \in Seq(Kinds) /\ b # <<>>
    <3>1. bridge.lines \in Seq(Lines) /\ bridge.lines # <<>>
      BY <1>12 DEF Feed, Bridges
    <3>2. Head(bridge.lines) \in Lines
      BY <3>1, HeadTailProperties
    <3>3. s \in Sids /\ k \in Kinds
      BY <3>2, LineParts
    <3>4. buffers[s] \in Seq(Kinds)
      BY <3>3
    <3>5. b \in Seq(Kinds) /\ Len(b) = Len(buffers[s]) + 1 /\ Len(buffers[s]) \in Nat
      BY <3>3, <3>4
    <3>6. Append(buffers[s], k) # <<>>
      BY <3>3, <3>4, AppendNonempty
    <3> QED BY <3>3, <3>5, <3>6
  <2>2. bridge' \in Bridges
    <3>1. bridge.lines \in Seq(Lines) /\ bridge.lines # <<>>
      BY <1>12 DEF Feed, Bridges
    <3>2. Tail(bridge.lines) \in Seq(Lines)
      BY <3>1, HeadTailProperties
    <3> QED BY <3>2, <1>12, BridgeStates DEF Feed
  <2>3. quiet' = quiet \ {s}
    BY <1>12 DEF Feed
  <2>4. CASE Process(s, b) /\ buffers' = [buffers EXCEPT ![s] = <<>>]
    <3>1. fed' \in [Sids -> Seq(Seq(Kinds))]
      BY <2>1, <2>4, Processed
    <3>2. buffers' \in [Sids -> Seq(Kinds)] /\ quiet' \subseteq Buffered'
      BY <2>1, <2>3, <2>4 DEF Buffered
    <3> QED BY <2>2, <3>1, <3>2, <1>12 DEF Feed, honeypot, history
  <2>5. CASE buffers' = [buffers EXCEPT ![s] = b] /\ UNCHANGED fed
    <3>1. buffers' \in [Sids -> Seq(Kinds)] /\ quiet' \subseteq Buffered'
      BY <2>1, <2>3, <2>5 DEF Buffered
    <3> QED BY <2>2, <2>5, <3>1, <1>12 DEF Feed, honeypot, history
  <2> QED BY <2>4, <2>5, <1>12 DEF Feed
<1>13. CASE Crash
  <2>1. cut' \subseteq Sids
    <3>1. \A i \in DOMAIN bridge.lines : bridge.lines[i].sid \in Sids
      <4>1. bridge.lines \in Seq(Lines)
        BY DEF Bridges
      <4>2. \A i \in DOMAIN bridge.lines : bridge.lines[i] \in Lines
        BY <4>1
      <4> QED BY <4>2, LineParts
    <3> QED BY <3>1, <1>13 DEF Crash, Held, Buffered
  <2>2. upto' \in Nat
    BY <1>13 DEF Crash, Smaller
  <2>3. bridge' \in Bridges
    BY <1>13, BridgeStates DEF Crash
  <2>4. buffers' \in [Sids -> Seq(Kinds)] /\ quiet' \subseteq Buffered'
    BY <1>13 DEF Crash, Buffered
  <2>5. spent' \in Bounds
    BY <1>13, Spending DEF Crash
  <2>6. UNCHANGED <<story, file, half, saved, fed, missed, split>>
    BY <1>13 DEF Crash, honeypot
  <2> QED BY <2>1, <2>2, <2>3, <2>4, <2>5, <2>6
<1>14. CASE Restart
  BY <1>14, BridgeStates DEF Restart, honeypot, memory, history, Buffered
<1>15. CASE UNCHANGED vars
  BY <1>15 DEF vars, honeypot, memory, history, Buffered
<1> QED BY <1>1, <1>2, <1>3, <1>4, <1>5, <1>6, <1>7, <1>8, <1>9, <1>10, <1>11, <1>12,
           <1>13, <1>14, <1>15 DEF Next, Step

(* The fields of the bridge's next states. *)
LEMMA BridgeFields ==
    /\ Down.pc = "down" /\ Down.lines = <<>>
    /\ Looping.pc = "poll" /\ Looping.lines = <<>>
    /\ \A T : /\ [Down EXCEPT !.pc = "stale", !.todo = T].pc = "stale"
              /\ [Down EXCEPT !.pc = "stale", !.todo = T].lines = <<>>
    /\ \A n : /\ [Down EXCEPT !.pc = "read", !.offset = n].pc = "read"
              /\ [Down EXCEPT !.pc = "read", !.offset = n].offset = n
              /\ [Down EXCEPT !.pc = "read", !.offset = n].lines = <<>>
              /\ [Down EXCEPT !.pc = "reset", !.size = n].pc = "reset"
              /\ [Down EXCEPT !.pc = "reset", !.size = n].lines = <<>>
    /\ \A n, q : /\ [Down EXCEPT !.pc = "feed", !.size = n, !.lines = q].pc = "feed"
                 /\ [Down EXCEPT !.pc = "feed", !.size = n, !.lines = q].size = n
                 /\ [Down EXCEPT !.pc = "feed", !.size = n, !.lines = q].lines = q
    /\ \A r \in Bridges :
          /\ [r EXCEPT !.pc = "write"].pc = "write"
          /\ [r EXCEPT !.pc = "write"].size = r.size
          /\ [r EXCEPT !.pc = "write"].lines = r.lines
          /\ \A T : /\ [r EXCEPT !.todo = T].pc = r.pc
                    /\ [r EXCEPT !.todo = T].lines = r.lines
          /\ \A q : /\ [r EXCEPT !.lines = q].pc = r.pc
                    /\ [r EXCEPT !.lines = q].size = r.size
                    /\ [r EXCEPT !.lines = q].lines = q
BY DEF Down, Looping, Bridges

LEMMA OffsetsStep ==
    ASSUME Fields, Offsets, [Next]_vars
    PROVE  Offsets'
<1>0. /\ file \in Seq(Lines) /\ half \in BOOLEAN /\ (half => file # <<>>)
      /\ upto \in Nat /\ (saved # Empty => saved \in Nat) /\ bridge \in Bridges
      /\ bridge.size \in Nat /\ bridge.offset \in Nat
      /\ Empty \notin Nat /\ Len(file) \in Nat /\ Size \in Nat
  <2>1. Sizes
    BY SizesHold DEF Offsets
  <2>2. bridge.size \in Nat /\ bridge.offset \in Nat
    BY DEF Fields, Bridges
  <2> QED BY <2>1, <2>2, BridgeAssumption DEF Offsets, Fields, Sizes
<1>1. ASSUME NEW s \in Sids, NEW k \in Kinds, Log(s, k)
      PROVE  Offsets'
  <2>1. /\ ~half /\ half' \in BOOLEAN
        /\ file' \in Seq(Lines) /\ Len(file') = Len(file) + 1 /\ file' # <<>>
    <3>1. [sid |-> s, kind |-> k] \in Lines
      BY DEF Lines
    <3>2. Len(file') = Len(file) + 1 /\ file' \in Seq(Lines)
      BY <1>0, <1>1, <3>1 DEF Log
    <3>3. Len(<<>>) = 0
      OBVIOUS
    <3>4. file' # <<>>
      BY <3>2, <3>3, <1>0
    <3> QED BY <1>1, <3>2, <3>4, BridgeAssumption DEF Log
  <2>2. Size' \in Nat /\ Size <= Size'
    BY <2>1, <1>0 DEF Size
  <2> QED BY <1>0, <1>1, <2>1, <2>2 DEF Offsets, Log, At, history
<1>2. CASE Finish
  <2>1. Size' \in Nat /\ Size <= Size'
    BY <1>0, <1>2 DEF Size, Finish
  <2> QED BY <1>0, <1>2, <2>1 DEF Offsets, Finish, At, history
<1>3. CASE Rotate
  <2>1. file' = <<>> /\ half' = FALSE /\ upto' = 0 /\ Len(file') = 0
    BY <1>0, <1>3 DEF Rotate
  <2>2. Size' = 0
    BY <2>1 DEF Size
  <2> QED BY <1>0, <1>3, <2>1, <2>2 DEF Offsets, Rotate, At
<1>4. ASSUME NEW s \in Sids, Idle(s)
      PROVE  Offsets'
  BY <1>4 DEF Offsets, Idle, honeypot, history, At, Size
<1>5. CASE Poll
  <2>1. Size' = Size /\ saved' = saved /\ half' = half /\ file' = file
    BY <1>5 DEF Poll, honeypot, Size
  <2>2. saved \in Nat /\ upto <= saved /\ saved # Empty
    BY <1>0, <1>5 DEF Poll, Offsets, At
  <2>3. CASE Size < saved
    <3>1. bridge' = [Down EXCEPT !.pc = "reset", !.size = Size] /\ upto' = upto
      BY <1>5, <2>3 DEF Poll
    <3>2. bridge'.pc = "reset" /\ bridge'.lines = <<>> /\ upto' = 0
      BY <3>1, <2>2, <2>3, <1>0, BridgeFields DEF Offsets
    <3> QED BY <1>0, <2>1, <3>2 DEF Offsets, At
  <2>4. CASE ~(Size < saved)
    <3>1. upto' = saved /\ saved <= Size
      BY <1>0, <1>5, <2>2, <2>4 DEF Poll, Larger
    <3>2. /\ bridge'.pc = "stale" \/ (bridge'.pc = "read" /\ bridge'.offset = saved)
          /\ bridge'.lines = <<>>
      <4>1. \/ bridge' = [Down EXCEPT !.pc = "stale", !.todo = quiet]
            \/ bridge' = [Down EXCEPT !.pc = "read", !.offset = saved]
        BY <1>5, <2>4 DEF Poll, ReadOrExpire
      <4>2. CASE bridge' = [Down EXCEPT !.pc = "stale", !.todo = quiet]
        <5>1. bridge'.pc = "stale" /\ bridge'.lines = <<>>
          BY <4>2, BridgeFields
        <5> QED BY <5>1
      <4>3. CASE bridge' = [Down EXCEPT !.pc = "read", !.offset = saved]
        <5>1. bridge'.pc = "read" /\ bridge'.offset = saved /\ bridge'.lines = <<>>
          BY <4>3, BridgeFields
        <5> QED BY <5>1
      <4> QED BY <4>1, <4>2, <4>3
    <3> QED BY <1>0, <2>1, <2>2, <3>1, <3>2 DEF Offsets, At
  <2> QED BY <2>3, <2>4
<1>6. CASE PollRaises
  <2>1. bridge'.pc = "down" /\ bridge'.lines = <<>>
    BY <1>6, BridgeFields DEF PollRaises
  <2> QED BY <1>0, <1>6, <2>1 DEF Offsets, PollRaises, At, honeypot, history, Size
<1>7. CASE Truncate
  <2>1. CASE At("reset") /\ UNCHANGED bridge
    BY <1>0, <1>7, <2>1 DEF Offsets, Truncate, At, honeypot, history, Size
  <2>2. CASE At("feed") /\ bridge.lines = <<>> /\ bridge' = [bridge EXCEPT !.pc = "write"]
    <3>1. bridge'.pc = "write" /\ bridge'.lines = <<>> /\ bridge'.size = bridge.size
      BY <1>0, <2>2, BridgeFields
    <3> QED BY <1>0, <1>7, <2>2, <3>1 DEF Offsets, Truncate, At, honeypot, history, Size
  <2> QED BY <1>7, <2>1, <2>2 DEF Truncate
<1>8. CASE Reset
  <2>1. /\ bridge'.pc = "stale" \/ (bridge'.pc = "read" /\ bridge'.offset = 0)
        /\ bridge'.lines = <<>>
    BY <1>8, BridgeFields DEF Reset, ReadOrExpire
  <2>2. saved' = 0 /\ upto' = 0 /\ Size' = Size /\ half' = half /\ file' = file
    BY <1>8 DEF Reset, Offsets, honeypot, history, Size
  <2> QED BY <1>0, <2>1, <2>2 DEF Offsets, At
<1>9. CASE Save
  <2>1. bridge'.pc = "poll" /\ bridge'.lines = <<>>
    BY <1>9, BridgeFields DEF Save
  <2> QED BY <1>0, <1>9, <2>1 DEF Offsets, Save, At, honeypot, history, Size
<1>10. CASE Stale
  <2>1. /\ bridge'.pc \in {"poll", "stale"} /\ bridge'.lines = <<>> /\ bridge.pc = "stale"
    <3>1. bridge.pc = "stale" /\ bridge.lines = <<>>
      BY <1>10 DEF Stale, At, Offsets
    <3>2. bridge' = Looping \/ \E s \in bridge.todo : bridge' = [bridge EXCEPT !.todo = @ \ {s}]
      BY <1>10 DEF Stale
    <3>3. CASE bridge' = Looping
      BY <3>1, <3>3, BridgeFields
    <3>4. ASSUME NEW T, bridge' = [bridge EXCEPT !.todo = T]
          PROVE  bridge'.pc = bridge.pc /\ bridge'.lines = bridge.lines
      BY <1>0, <3>4, BridgeFields
    <3> QED BY <3>1, <3>2, <3>3, <3>4
  <2>2. saved' = saved /\ upto' = upto /\ Size' = Size /\ half' = half /\ file' = file
    BY <1>10 DEF Stale, honeypot, Size
  <2> QED BY <1>0, <2>1, <2>2 DEF Offsets, At
<1>11. CASE Read
  <2>1. /\ saved' = saved /\ Size' = Size /\ half' = half /\ file' = file
        /\ bridge.pc = "read" /\ bridge.offset = saved /\ upto <= bridge.offset
    BY <1>11 DEF Read, honeypot, Size, At, Offsets
  <2>2. bridge'.pc = "feed" /\ bridge'.size = Larger(bridge.offset, Size)
    BY <1>11, BridgeFields DEF Read
  <2>3. CASE bridge.offset <= Size
    <3>1. upto' = Size /\ bridge'.size = Size
      BY <1>0, <1>11, <2>2, <2>3 DEF Read, Larger
    <3> QED BY <1>0, <2>1, <2>2, <2>3, <3>1 DEF Offsets, At
  <2>4. CASE ~(bridge.offset <= Size)
    <3>1. upto' = upto /\ bridge'.size = bridge.offset
      BY <1>0, <1>11, <2>2, <2>4 DEF Read, Larger
    <3>2. upto = 0
      BY <1>0, <2>1, <2>4 DEF Offsets
    <3> QED BY <1>0, <2>1, <2>2, <2>4, <3>1, <3>2 DEF Offsets, At
  <2> QED BY <2>3, <2>4
<1>12. CASE Feed
  <2>1. bridge.pc = "feed" /\ bridge'.pc = "feed" /\ bridge'.size = bridge.size
    BY <1>0, <1>12, BridgeFields DEF Feed, At
  <2>2. saved' = saved /\ upto' = upto /\ Size' = Size /\ half' = half /\ file' = file
    BY <1>12 DEF Feed, honeypot, history, Size
  <2> QED BY <1>0, <2>1, <2>2 DEF Offsets, At
<1>13. CASE Crash
  <2>1. bridge'.pc = "down" /\ bridge'.lines = <<>>
    BY <1>13, BridgeFields DEF Crash
  <2>2. saved' = saved /\ Size' = Size /\ half' = half /\ file' = file
    BY <1>13 DEF Crash, honeypot, Size
  <2>3. upto' = IF saved = Empty THEN 0 ELSE IF upto < saved THEN upto ELSE saved
    BY <1>13 DEF Crash, Smaller
  <2> QED BY <1>0, <2>1, <2>2, <2>3 DEF Offsets, At
<1>14. CASE Restart
  <2>1. bridge'.pc = "poll" /\ bridge'.lines = <<>> /\ bridge.pc = "down"
    BY <1>14, BridgeFields DEF Restart, At
  <2> QED BY <1>0, <1>14, <2>1 DEF Offsets, Restart, At, honeypot, history, Size
<1>15. CASE UNCHANGED vars
  BY <1>15 DEF Offsets, vars, honeypot, memory, history, At, Size
<1> QED BY <1>1, <1>2, <1>3, <1>4, <1>5, <1>6, <1>7, <1>8, <1>9, <1>10, <1>11, <1>12,
           <1>13, <1>14, <1>15 DEF Next, Step

-----------------------------------------------------------------------------
(* What is left to take in *)

Left(q, n) == SubSeq(q, n + 1, Len(q))

(* The lines that this life of the bridge has still to take in: those it   *)
(* has read, then those of the file beyond what was read or skipped.       *)
Ceil(n) == (n + 1) \div 2
Rest    == bridge.lines \o Left(file, Ceil(upto))

(* Lines are dropped at both ends of Rest, of sessions that are missed.    *)
Narrows ==
    \E a \in 0..Len(Rest), b \in Int :
        /\ b <= Len(Rest) /\ Rest' = SubSeq(Rest, a + 1, b)
        /\ \A s \in Sids \ missed' : Silent(Rest, s, a, b)

LEMMA LeftOf ==
    ASSUME NEW q \in Seq(Lines), NEW n \in 0..Len(q)
    PROVE  /\ Left(q, n) \in Seq(Lines) /\ Len(Left(q, n)) = Len(q) - n
           /\ \A p \in 1..(Len(q) - n) : Left(q, n)[p] = q[n + p] /\ n + p \in 1..Len(q)
<1>1. Len(q) \in Nat /\ n \in Nat /\ n <= Len(q)
  OBVIOUS
<1> QED BY <1>1, Section DEF Left

(* A section of what is left is a section of the whole. *)
LEMMA SectionOfLeft ==
    ASSUME NEW q \in Seq(Lines), NEW n \in 0..Len(q), NEW m \in n..Len(q),
           NEW b \in Int, b <= Len(q)
    PROVE  SubSeq(Left(q, n), (m - n) + 1, b - n) = SubSeq(q, m + 1, b)
<1> DEFINE l == Left(q, n)
           u == SubSeq(l, (m - n) + 1, b - n)
           v == SubSeq(q, m + 1, b)
<1>1. /\ Len(q) \in Nat /\ n \in Nat /\ n <= Len(q) /\ m \in Nat /\ n <= m /\ m <= Len(q)
      /\ (m - n) + 1 \in Int /\ b - n \in Int /\ m + 1 \in Int
  OBVIOUS
<1>2. /\ l \in Seq(Lines) /\ Len(l) = Len(q) - n
      /\ \A p \in 1..(Len(q) - n) : l[p] = q[n + p] /\ n + p \in 1..Len(q)
  BY LeftOf
<1> HIDE DEF l
<1>3. /\ u \in Seq(Lines)
      /\ Len(u) = IF m - n < b - n THEN (b - n) - (m - n) ELSE 0
      /\ \A i \in 1..((b - n) - (m - n)) : u[i] = l[(m - n) + i] /\ (m - n) + i \in 1..Len(l)
  <2>1. m - n \in Nat /\ b - n \in Int /\ b - n <= Len(l)
    BY <1>1, <1>2
  <2> QED BY <1>2, <2>1, Section
<1>4. /\ v \in Seq(Lines)
      /\ Len(v) = IF m < b THEN b - m ELSE 0
      /\ \A i \in 1..(b - m) : v[i] = q[m + i] /\ m + i \in 1..Len(q)
  BY <1>1, Section
<1> HIDE DEF u, v
<1>7. Len(u) = Len(v) /\ Len(v) \in Nat
  BY <1>1, <1>3, <1>4
<1>8. ASSUME NEW i \in 1..Len(u)
      PROVE  u[i] = v[i]
  <2>1. /\ i \in 1..((b - n) - (m - n)) /\ i \in 1..(b - m)
        /\ n + ((m - n) + i) = m + i
    BY <1>1, <1>3, <1>4, <1>7
  <2>2. u[i] = l[(m - n) + i] /\ (m - n) + i \in 1..(Len(q) - n)
    BY <1>2, <1>3, <2>1
  <2>3. l[(m - n) + i] = q[n + ((m - n) + i)]
    BY <1>2, <2>2
  <2>4. v[i] = q[m + i]
    BY <1>4, <2>1
  <2> QED BY <2>1, <2>2, <2>3, <2>4
<1>9. u = v
  BY <1>3, <1>4, <1>7, <1>8, SeqEqual
<1> QED BY <1>9 DEF u, v, l

LEMMA RestType ==
    ASSUME Fields, Offsets
    PROVE  /\ Sizes /\ bridge.lines \in Seq(Lines) /\ file \in Seq(Lines) /\ upto \in Nat
           /\ Ceil(upto) \in 0..Len(file)
           /\ 2 * Ceil(upto) = upto \/ 2 * Ceil(upto) = upto + 1
           /\ Rest \in Seq(Lines)
           /\ Len(Rest) = Len(bridge.lines) + (Len(file) - Ceil(upto))
           /\ \A p \in 1..Len(bridge.lines) : Rest[p] = bridge.lines[p]
           /\ \A p \in 1..(Len(file) - Ceil(upto)) :
                 Rest[Len(bridge.lines) + p] = file[Ceil(upto) + p] /\ Ceil(upto) + p \in 1..Len(file)
           /\ ~At("feed") => Rest = Left(file, Ceil(upto))
<1>1. /\ Sizes /\ bridge.lines \in Seq(Lines) /\ file \in Seq(Lines) /\ upto \in Nat
      /\ half \in BOOLEAN
  BY SizesHold DEF Offsets, Fields, Bridges
<1>2. /\ Ceil(upto) \in 0..Len(file)
      /\ 2 * Ceil(upto) = upto \/ 2 * Ceil(upto) = upto + 1
  <2>1. /\ Ceil(upto) \in Nat
        /\ 2 * Ceil(upto) = upto \/ 2 * Ceil(upto) = upto + 1
    BY <1>1, Halves DEF Ceil
  <2>2. upto <= Size /\ Size <= 2 * Len(file) /\ Len(file) \in Nat /\ Size \in Nat
    BY <1>1 DEF Sizes, Offsets
  <2> QED BY <1>1, <2>1, <2>2
<1> DEFINE l == Left(file, Ceil(upto))
<1>3. /\ l \in Seq(Lines) /\ Len(l) = Len(file) - Ceil(upto)
      /\ \A p \in 1..(Len(file) - Ceil(upto)) : l[p] = file[Ceil(upto) + p] /\ Ceil(upto) + p \in 1..Len(file)
  BY <1>1, <1>2, LeftOf
<1> HIDE DEF l
<1>4. /\ bridge.lines \o l \in Seq(Lines)
      /\ Len(bridge.lines \o l) = Len(bridge.lines) + Len(l)
      /\ \A i \in 1..(Len(bridge.lines) + Len(l)) : (bridge.lines \o l)[i] =
            IF i <= Len(bridge.lines) THEN bridge.lines[i] ELSE l[i - Len(bridge.lines)]
  BY <1>1, <1>3, ConcatProperties
<1>5. Rest = bridge.lines \o l
  BY DEF Rest, l
<1>6. Len(bridge.lines) \in Nat /\ Len(l) \in Nat /\ Len(file) \in Nat /\ Ceil(upto) \in Nat
  BY <1>1, <1>2, <1>3
<1>7. \A p \in 1..Len(bridge.lines) : Rest[p] = bridge.lines[p]
  BY <1>4, <1>5, <1>6
<1>8. \A p \in 1..(Len(file) - Ceil(upto)) :
         Rest[Len(bridge.lines) + p] = file[Ceil(upto) + p] /\ Ceil(upto) + p \in 1..Len(file)
  <2> TAKE p \in 1..(Len(file) - Ceil(upto))
  <2>1. /\ Len(bridge.lines) + p \in 1..(Len(bridge.lines) + Len(l))
        /\ ~(Len(bridge.lines) + p <= Len(bridge.lines))
        /\ (Len(bridge.lines) + p) - Len(bridge.lines) = p
    BY <1>3, <1>6
  <2> QED BY <2>1, <1>3, <1>4, <1>5
<1>9. ~At("feed") => Rest = Left(file, Ceil(upto))
  BY <1>3, <1>5, ConcatEmptySeq DEF Offsets, l
<1> QED BY <1>1, <1>2, <1>3, <1>4, <1>5, <1>7, <1>8, <1>9

LEMMA RestTypeNext ==
    ASSUME Fields', Offsets'
    PROVE  /\ Ceil(upto') \in 0..Len(file')
           /\ 2 * Ceil(upto') = upto' \/ 2 * Ceil(upto') = upto' + 1
<1>1. /\ Len(file') \in Nat /\ Size' \in Nat /\ upto' \in Nat
      /\ upto' <= Size' /\ Size' <= 2 * Len(file')
  <2>1. file' \in Seq(Lines) /\ half' \in BOOLEAN /\ upto' \in Nat
    BY DEF Fields
  <2>2. file' # <<>> => Len(file') > 0
    BY <2>1, EmptySeq
  <2> QED BY <2>1, <2>2 DEF Size, Offsets
<1>2. /\ Ceil(upto') \in Nat
      /\ 2 * Ceil(upto') = upto' \/ 2 * Ceil(upto') = upto' + 1
  BY <1>1, Halves DEF Ceil
<1>3. Ceil(upto') <= Len(file')
  BY <1>1, <1>2
<1> QED BY <1>1, <1>2, <1>3

(* Reading a log, and a log that is moved away, drop lines only of sessions *)
(* that are missed; nothing else changes what is left, but a line that is  *)
(* logged or taken in, and a crash.                                        *)
LEMMA PollNarrows ==
    ASSUME Fields, Offsets, Fields', Offsets', Poll
    PROVE  Rest' = Rest \/ Narrows
<1>1. /\ file' = file /\ At("poll") /\ ~At("feed") /\ ~At("feed")'
  <2>1. bridge'.pc # "feed"
    <3>1. \/ bridge' = [Down EXCEPT !.pc = "reset", !.size = Size]
          \/ bridge' = [Down EXCEPT !.pc = "stale", !.todo = quiet]
          \/ bridge' = [Down EXCEPT !.pc = "read", !.offset = saved]
      BY DEF Poll, ReadOrExpire
    <3>2. CASE bridge' = [Down EXCEPT !.pc = "reset", !.size = Size]
      BY <3>2, BridgeFields
    <3>3. CASE bridge' = [Down EXCEPT !.pc = "stale", !.todo = quiet]
      BY <3>3, BridgeFields
    <3>4. CASE bridge' = [Down EXCEPT !.pc = "read", !.offset = saved]
      BY <3>4, BridgeFields
    <3> QED BY <3>1, <3>2, <3>3, <3>4
  <2> QED BY <2>1 DEF Poll, At, honeypot
<1>2. Rest = Left(file, Ceil(upto)) /\ Rest' = Left(file, Ceil(upto'))
  <2>1. Rest = Left(file, Ceil(upto))
    BY <1>1, RestType
  <2>2. bridge'.lines = <<>> /\ file \in Seq(Lines)
    BY <1>1 DEF Offsets, At, Fields
  <2>3. Ceil(upto') \in 0..Len(file)
    BY <1>1, RestTypeNext
  <2>4. Left(file, Ceil(upto')) \in Seq(Lines)
    BY <2>2, <2>3, LeftOf
  <2> QED BY <1>1, <2>1, <2>2, <2>4, ConcatEmptySeq DEF Rest
<1>3. CASE upto' = upto
  BY <1>2, <1>3 DEF Ceil
<1>4. CASE upto' # upto
  <2>1. /\ saved \in Nat /\ upto' = saved /\ upto < saved
        /\ missed' = missed \cup Between(upto, saved)
    BY <1>4 DEF Poll, Larger, Fields
  <2>2. /\ Ceil(upto) \in 0..Len(file) /\ Ceil(upto') \in 0..Len(file) /\ Len(file) \in Nat
        /\ 2 * Ceil(upto) = upto \/ 2 * Ceil(upto) = upto + 1
        /\ 2 * Ceil(upto') = saved \/ 2 * Ceil(upto') = saved + 1
        /\ upto \in Nat /\ file \in Seq(Lines) /\ DOMAIN file = 1..Len(file)
        /\ Len(Rest) = Len(file) - Ceil(upto)
        /\ \A p \in 1..(Len(file) - Ceil(upto)) : Rest[p] = file[Ceil(upto) + p]
    BY <1>1, <1>2, <2>1, RestType, RestTypeNext, LeftOf DEF Sizes
  <2> DEFINE a == Ceil(upto') - Ceil(upto)
             b == Len(file) - Ceil(upto)
  <2>3. Ceil(upto) <= Ceil(upto') /\ a \in 0..Len(Rest) /\ b \in Int /\ b = Len(Rest)
    <3>1. Ceil(upto) <= Ceil(upto')
      BY <2>1, <2>2, HalvesGrow
    <3> QED BY <2>2, <3>1
  <2> HIDE DEF a, b
  <2>4. Rest' = SubSeq(Rest, a + 1, b)
    <3>1. Ceil(upto') \in Ceil(upto)..Len(file) /\ Len(file) \in Int
      BY <2>2, <2>3
    <3>2. SubSeq(Left(file, Ceil(upto)), (Ceil(upto') - Ceil(upto)) + 1, Len(file) - Ceil(upto))
             = SubSeq(file, Ceil(upto') + 1, Len(file))
      <4>1. Len(file) <= Len(file)
        BY <2>2
      <4> QED BY <2>2, <3>1, <4>1, SectionOfLeft
    <3> QED BY <1>2, <3>2 DEF Left, a, b
  <2>5. ASSUME NEW s \in Sids \ missed', NEW p \in 1..Len(Rest), Rest[p].sid = s
        PROVE  a < p /\ p <= b
    <3>1. p \in 1..(Len(file) - Ceil(upto)) /\ Rest[p] = file[Ceil(upto) + p]
          /\ Ceil(upto) + p \in DOMAIN file /\ p \in Nat /\ 1 <= p
      BY <2>2, <2>5
    <3>2. s \notin Between(upto, saved)
      BY <2>1, <2>5
    <3>3. ~(2 * (Ceil(upto) + p) > upto /\ 2 * (Ceil(upto) + p - 1) < saved)
      BY <3>1, <3>2, <2>5, <2>2 DEF Between
    <3>4. 2 * (Ceil(upto) + p) > upto
      BY <3>1, <2>2
    <3>5. 2 * (Ceil(upto) + p - 1) >= saved
      BY <3>1, <3>3, <3>4, <2>1, <2>2
    <3>6. Ceil(upto) + p - 1 >= Ceil(upto')
      <4>1. Ceil(upto) + p - 1 \in Nat
        BY <3>1, <2>2
      <4> QED BY <4>1, <3>5, <2>1, <2>2, HalvesGrow
    <3> QED BY <3>1, <3>6, <2>2 DEF a, b
  <2>6. \A s \in Sids \ missed' : Silent(Rest, s, a, b)
    BY <2>5 DEF Silent
  <2>7. b <= Len(Rest)
    BY <2>3
  <2> QED BY <2>3, <2>4, <2>6, <2>7 DEF Narrows
<1> QED BY <1>3, <1>4

LEMMA ReadNarrows ==
    ASSUME Fields, Offsets, Fields', Offsets', Read
    PROVE  Rest' = Rest \/ Narrows
<1> DEFINE o == bridge.offset
           c == Ceil(o)
           b == Size \div 2
<1>1. /\ file' = file /\ At("read") /\ ~At("feed") /\ o \in Nat
      /\ bridge'.lines = SubSeq(file, c + 1, b)
  BY BridgeFields DEF Read, At, honeypot, Fields, Bridges, Ceil
<1>2. /\ Rest = Left(file, Ceil(upto)) /\ Len(Rest) = Len(file) - Ceil(upto)
      /\ Sizes /\ file \in Seq(Lines) /\ upto \in Nat /\ half \in BOOLEAN
      /\ Ceil(upto) \in 0..Len(file)
      /\ 2 * Ceil(upto) = upto \/ 2 * Ceil(upto) = upto + 1
      /\ \A p \in 1..(Len(file) - Ceil(upto)) : Rest[p] = file[Ceil(upto) + p]
  <2>1. half \in BOOLEAN
    BY DEF Fields
  <2>2. /\ Sizes /\ file \in Seq(Lines) /\ upto \in Nat /\ Ceil(upto) \in 0..Len(file)
        /\ 2 * Ceil(upto) = upto \/ 2 * Ceil(upto) = upto + 1
        /\ Rest = Left(file, Ceil(upto))
    BY <1>1, RestType
  <2>3. /\ Len(Rest) = Len(file) - Ceil(upto)
        /\ \A p \in 1..(Len(file) - Ceil(upto)) : Rest[p] = file[Ceil(upto) + p]
    BY <2>2, LeftOf
  <2> QED BY <2>1, <2>2, <2>3
<1>3. /\ Rest' = SubSeq(file, c + 1, b) \o Left(file, Ceil(upto'))
      /\ Ceil(upto') \in 0..Len(file)
  BY <1>1, RestTypeNext DEF Rest
<1>4. /\ c \in Nat /\ (2 * c = o \/ 2 * c = o + 1)
      /\ b \in Nat /\ b <= Len(file) /\ Len(file) \in Nat /\ Size \in Nat
      /\ b = Len(file) \/ (half /\ b = Len(file) - 1 /\ Len(file) >= 1)
      /\ (2 * b = Size \/ 2 * b = Size - 1)
      /\ Ceil(Size) = Len(file)
  <2>1. c \in Nat /\ (2 * c = o \/ 2 * c = o + 1)
    BY <1>1, Halves DEF Ceil
  <2>2. Len(file) \in Nat /\ Size \in Nat
    BY <1>2 DEF Sizes
  <2>3. b \in Nat /\ (2 * b = Size \/ 2 * b = Size - 1)
    BY <2>2, Halves
  <2>4. Ceil(Size) \in Nat /\ (2 * Ceil(Size) = Size \/ 2 * Ceil(Size) = Size + 1)
    BY <2>2, Halves DEF Ceil
  <2> HIDE DEF b
  <2>5. CASE half
    <3>1. Size = 2 * Len(file) - 1
      BY <1>2, <2>5 DEF Sizes
    <3>2. b = Len(file) - 1 /\ Ceil(Size) = Len(file) /\ Len(file) >= 1
      BY <2>2, <2>3, <2>4, <3>1, HalvesOfSize
    <3> QED BY <2>1, <2>2, <2>3, <2>5, <3>2
  <2>6. CASE ~half
    <3>1. Size = 2 * Len(file)
      BY <1>2, <2>6 DEF Sizes
    <3>2. b = Len(file) /\ Ceil(Size) = Len(file)
      BY <2>2, <2>3, <2>4, <3>1, HalvesOfSize
    <3> QED BY <2>1, <2>2, <2>3, <3>2
  <2> QED BY <2>5, <2>6
<1>5. SubSeq(file, c + 1, b) \in Seq(Lines)
  BY <1>2, <1>4, Section
<1> HIDE DEF c, b
<1>6. CASE ~(o <= Size)
  <2>1. upto' = upto /\ upto = 0
    <3>1. upto' = upto
      BY <1>6 DEF Read
    <3>2. upto > 0 => saved = Empty \/ saved <= Size
      BY DEF Offsets
    <3>3. saved = o /\ saved # Empty
      BY <1>1, BridgeAssumption DEF Offsets
    <3> QED BY <1>1, <1>2, <1>4, <1>6, <3>1, <3>2, <3>3
  <2>2. b <= c
    BY <1>1, <1>4, <1>6
  <2>3. SubSeq(file, c + 1, b) = <<>>
    BY <1>2, <1>4, <2>2, SubSeqEmpty
  <2>4. Rest' = Left(file, Ceil(upto))
    BY <1>2, <1>3, <2>1, <2>3, LeftOf, ConcatEmptySeq
  <2> QED BY <1>2, <2>4
<1>7. CASE o <= Size
  <2>1. /\ upto' = Size /\ upto <= o
        /\ missed' = missed \cup Between(upto, o) \cup (IF half THEN {file[Len(file)].sid} ELSE {})
    BY <1>1, <1>7 DEF Read, Offsets
  <2>2. Ceil(upto') = Len(file)
    BY <1>4, <2>1
  <2>3. Rest' = SubSeq(file, c + 1, b)
    <3>1. Left(file, Len(file)) = <<>>
      BY <1>4, SubSeqEmpty DEF Left
    <3> QED BY <1>3, <1>5, <2>2, <3>1, ConcatEmptySeq
  <2>4. Ceil(upto) <= c /\ c <= Len(file)
    <3>1. Ceil(upto) <= c
      <4>1. /\ Ceil(upto) \in Nat /\ upto \in Nat
            /\ 2 * Ceil(upto) = upto \/ 2 * Ceil(upto) = upto + 1
        BY <1>2, <1>4
      <4>2. o \in Nat /\ c \in Nat /\ (2 * c = o \/ 2 * c = o + 1)
        BY <1>1, <1>4
      <4>3. upto <= o => Ceil(upto) <= c
        BY <4>1, <4>2, HalvesGrow
      <4> QED BY <4>3, <2>1
    <3>2. c <= Len(file)
      <4>1. 2 * Ceil(Size) = Size \/ 2 * Ceil(Size) = Size + 1
        BY <1>4, Halves DEF Ceil
      <4>2. c <= Ceil(Size)
        BY <1>1, <1>4, <1>7, <4>1, HalvesGrow
      <4> QED BY <1>4, <4>2
    <3> QED BY <3>1, <3>2
  <2> DEFINE a == c - Ceil(upto)
             d == b - Ceil(upto)
  <2>5. a \in 0..Len(Rest) /\ d \in Int /\ d <= Len(Rest)
    BY <1>2, <1>4, <2>4
  <2>6. Rest' = SubSeq(Rest, a + 1, d)
    <3>1. c \in Ceil(upto)..Len(file) /\ b \in Int
      BY <1>2, <1>4, <2>4
    <3> QED BY <1>2, <1>4, <2>3, <3>1, SectionOfLeft
  <2> HIDE DEF a, d
  <2>7. ASSUME NEW s \in Sids \ missed', NEW p \in 1..Len(Rest), Rest[p].sid = s
        PROVE  a < p /\ p <= d
    <3>1. p \in 1..(Len(file) - Ceil(upto)) /\ Rest[p] = file[Ceil(upto) + p]
          /\ Ceil(upto) + p \in DOMAIN file /\ p \in Nat /\ 1 <= p
          /\ Ceil(upto) + p <= Len(file) /\ Ceil(upto) \in Nat
      <4>1. Ceil(upto) \in Nat /\ Len(file) \in Nat /\ DOMAIN file = 1..Len(file)
        BY <1>2 DEF Sizes
      <4>2. p \in 1..(Len(file) - Ceil(upto))
        BY <1>2, <2>7
      <4>3. p \in Nat /\ 1 <= p /\ Ceil(upto) + p <= Len(file) /\ Ceil(upto) + p \in 1..Len(file)
        BY <4>1, <4>2
      <4> QED BY <1>2, <4>1, <4>2, <4>3
    <3>2. s \notin Between(upto, o) /\ (half => file[Len(file)].sid # s)
      BY <2>1, <2>7
    <3>3. ~(2 * (Ceil(upto) + p) > upto /\ 2 * (Ceil(upto) + p - 1) < o)
      BY <3>1, <3>2, <2>7 DEF Between
    <3>4. 2 * (Ceil(upto) + p) > upto
      BY <3>1, <1>2
    <3>5. Ceil(upto) + p - 1 \in Nat
      BY <3>1
    <3>6. 2 * (Ceil(upto) + p - 1) >= o
      BY <3>3, <3>4, <3>5, <1>1
    <3>7. Ceil(upto) + p - 1 >= c
      <4>1. \A z \in Nat : 2 * z >= o => z >= c
        BY <1>1, <1>4, HalvesGrow
      <4> QED BY <3>5, <3>6, <4>1
    <3>8. Ceil(upto) + p <= b
      <4>1. half => Ceil(upto) + p # Len(file)
        BY <3>1, <3>2, <2>7
      <4> QED BY <4>1, <3>1, <1>2, <1>4
    <3> QED BY <3>1, <3>7, <3>8, <1>2, <1>4 DEF a, d
  <2>8. \A s \in Sids \ missed' : Silent(Rest, s, a, d)
    BY <2>7 DEF Silent
  <2> QED BY <2>5, <2>6, <2>8 DEF Narrows
<1> QED BY <1>6, <1>7

LEMMA RotateNarrows ==
    ASSUME Fields, Offsets, Fields', Offsets', Rotate
    PROVE  Narrows
<1>1. /\ file' = <<>> /\ upto' = 0 /\ bridge' = bridge /\ ~half
      /\ missed' = missed \cup Between(upto, Size)
  BY DEF Rotate
<1>2. /\ Sizes /\ bridge.lines \in Seq(Lines) /\ file \in Seq(Lines) /\ upto \in Nat
      /\ Rest \in Seq(Lines) /\ Ceil(upto) \in 0..Len(file)
      /\ 2 * Ceil(upto) = upto \/ 2 * Ceil(upto) = upto + 1
      /\ Len(Rest) = Len(bridge.lines) + (Len(file) - Ceil(upto))
      /\ \A p \in 1..Len(bridge.lines) : Rest[p] = bridge.lines[p]
      /\ \A p \in 1..(Len(file) - Ceil(upto)) :
            Rest[Len(bridge.lines) + p] = file[Ceil(upto) + p] /\ Ceil(upto) + p \in 1..Len(file)
  BY RestType
<1> DEFINE b == Len(bridge.lines)
<1>3. /\ b \in Nat /\ b <= Len(Rest) /\ Len(Rest) \in Nat /\ Len(file) \in Nat
      /\ Size = 2 * Len(file)
  BY <1>1, <1>2 DEF Sizes
<1>4. Rest' = bridge.lines
  <2>1. Left(file', Ceil(upto')) = <<>>
    <3>1. Len(<<>>) = 0 /\ Ceil(0) \in Nat
      BY Halves DEF Ceil
    <3> QED BY <1>1, <3>1, SubSeqEmpty DEF Left
  <2> QED BY <1>1, <1>2, <2>1, ConcatEmptySeq DEF Rest
<1>5. SubSeq(Rest, 0 + 1, b) = bridge.lines
  <2> DEFINE v == SubSeq(Rest, 0 + 1, b)
  <2>1. /\ v \in Seq(Lines) /\ Len(v) = IF 0 < b THEN b - 0 ELSE 0
        /\ \A i \in 1..(b - 0) : v[i] = Rest[0 + i]
    BY <1>2, <1>3, Section
  <2> HIDE DEF v
  <2>2. Len(v) = b /\ \A i \in 1..Len(v) : v[i] = bridge.lines[i]
    <3>1. Len(v) = b
      BY <1>3, <2>1
    <3>2. \A i \in 1..b : i \in 1..(b - 0) /\ 0 + i = i
      BY <1>3
    <3> QED BY <1>2, <2>1, <3>1, <3>2
  <2>3. v = bridge.lines
    BY <1>2, <2>1, <2>2, SeqEqual
  <2> QED BY <2>3 DEF v
<1>6. ASSUME NEW s \in Sids \ missed', NEW p \in 1..Len(Rest), Rest[p].sid = s
      PROVE  0 < p /\ p <= b
  <2>1. SUFFICES ASSUME b < p
                 PROVE  FALSE
    BY <1>3
  <2> DEFINE i == Ceil(upto) + (p - b)
  <2>2. p - b \in 1..(Len(file) - Ceil(upto)) /\ b + (p - b) = p
    BY <1>2, <1>3, <2>1
  <2>3. Rest[p] = file[i] /\ i \in 1..Len(file)
    BY <1>2, <2>2
  <2>4. i > Ceil(upto) /\ i \in Nat /\ i <= Len(file) /\ i \in DOMAIN file
    <3>1. Ceil(upto) \in Nat /\ Len(file) \in Nat /\ DOMAIN file = 1..Len(file)
      BY ONLY <1>2, LenProperties
    <3>2. p - b \in Int /\ p - b >= 1
      BY ONLY <1>3, <2>1, p \in 1..Len(Rest)
    <3>3. i \in Int /\ i > Ceil(upto)
      BY ONLY <3>1, <3>2
    <3>4. i \in Nat /\ i <= Len(file)
      BY ONLY <2>3, <3>1
    <3> QED BY ONLY <2>3, <3>1, <3>3, <3>4
  <2> HIDE DEF i
  <2>5. 2 * i > upto /\ 2 * (i - 1) < Size
    BY <1>2, <1>3, <2>4
  <2>6. s \in Between(upto, Size)
    BY <1>6, <2>3, <2>4, <2>5 DEF Between
  <2> QED BY <1>1, <1>6, <2>6
<1>7. \A s \in Sids \ missed' : Silent(Rest, s, 0, b)
  BY <1>6 DEF Silent
<1>8. 0 \in 0..Len(Rest) /\ b \in Int /\ b <= Len(Rest) /\ Rest' = SubSeq(Rest, 0 + 1, b)
  BY <1>3, <1>4, <1>5
<1> HIDE DEF b
<1> QED BY <1>7, <1>8 DEF Narrows

LEMMA ConcatAppend ==
    ASSUME NEW q \in Seq(Lines), NEW l \in Seq(Lines), NEW e \in Lines
    PROVE  q \o Append(l, e) = Append(q \o l, e)
<1> DEFINE u == <<e>>
<1>1. u \in Seq(Lines)
  OBVIOUS
<1>2. Append(l, e) = l \o u
  BY AppendIsConcat
<1>3. q \o l \in Seq(Lines)
  BY ConcatProperties
<1>4. Append(q \o l, e) = (q \o l) \o u
  BY <1>3, AppendIsConcat
<1> HIDE DEF u
<1>5. (q \o l) \o u = q \o (l \o u)
  BY <1>1, ConcatAssociative
<1> QED BY <1>2, <1>4, <1>5

LEMMA LogExtends ==
    ASSUME Fields, Offsets, NEW s \in Sids, NEW k \in Kinds, Log(s, k)
    PROVE  /\ [sid |-> s, kind |-> k] \in Lines
           /\ Rest' = Append(Rest, [sid |-> s, kind |-> k])
<1> DEFINE e == [sid |-> s, kind |-> k]
           l == Left(file, Ceil(upto))
           n == Left(file', Ceil(upto))
<1>1. e \in Lines
  BY DEF Lines
<1>2. file' = Append(file, e) /\ upto' = upto /\ bridge' = bridge
  BY DEF Log, history
<1> HIDE DEF e
<1>3. /\ file \in Seq(Lines) /\ Len(file) \in Nat /\ Ceil(upto) \in 0..Len(file)
      /\ bridge.lines \in Seq(Lines)
  BY RestType DEF Sizes
<1>4. /\ file' \in Seq(Lines) /\ Len(file') = Len(file) + 1
      /\ \A i \in 1..Len(file) : file'[i] = file[i]
      /\ file'[Len(file) + 1] = e
  BY <1>1, <1>2, <1>3, AppendProperties
<1>5. /\ l \in Seq(Lines) /\ Len(l) = Len(file) - Ceil(upto)
      /\ \A p \in 1..(Len(file) - Ceil(upto)) : l[p] = file[Ceil(upto) + p] /\ Ceil(upto) + p \in 1..Len(file)
  BY <1>3, LeftOf
<1>6. /\ n \in Seq(Lines) /\ Len(n) = Len(file') - Ceil(upto)
      /\ \A p \in 1..(Len(file') - Ceil(upto)) : n[p] = file'[Ceil(upto) + p]
  <2>1. Ceil(upto) \in 0..Len(file')
    BY <1>3, <1>4
  <2> QED BY <1>4, <2>1, LeftOf
<1> HIDE DEF l, n
<1>7. /\ Append(l, e) \in Seq(Lines) /\ Len(Append(l, e)) = Len(l) + 1
      /\ \A i \in 1..Len(l) : Append(l, e)[i] = l[i]
      /\ Append(l, e)[Len(l) + 1] = e
  BY <1>1, <1>5, AppendProperties
<1>8. n = Append(l, e)
  <2>1. Len(n) = Len(Append(l, e)) /\ Len(l) \in Nat
    BY <1>3, <1>4, <1>5, <1>6, <1>7
  <2>2. ASSUME NEW i \in 1..Len(n)
        PROVE  n[i] = Append(l, e)[i]
    <3>1. CASE i = Len(l) + 1
      <4>1. i \in 1..(Len(file') - Ceil(upto)) /\ Ceil(upto) + i = Len(file) + 1
        BY <3>1, <1>3, <1>4, <1>5
      <4> QED BY <3>1, <4>1, <1>4, <1>6, <1>7
    <3>2. CASE i \in 1..Len(l)
      <4>1. i \in 1..(Len(file') - Ceil(upto)) /\ i \in 1..(Len(file) - Ceil(upto))
        BY <3>2, <1>3, <1>4, <1>5
      <4> QED BY <3>2, <4>1, <1>4, <1>5, <1>6, <1>7
    <3> QED BY <2>1, <3>1, <3>2, <1>7
  <2> QED BY <1>6, <1>7, <2>1, <2>2, SeqEqual
<1>9. bridge.lines \o n = Append(bridge.lines \o l, e)
  BY <1>1, <1>3, <1>5, <1>8, ConcatAppend
<1>10. Rest' = bridge.lines \o n /\ Rest = bridge.lines \o l
  BY <1>2 DEF Rest, l, n
<1> QED BY <1>1, <1>9, <1>10 DEF e

LEMMA FeedTakes ==
    ASSUME Fields, Offsets, Feed
    PROVE  /\ Rest # <<>> /\ Rest[1] = Head(bridge.lines) /\ Rest[1] \in Lines
           /\ Rest' = Tail(Rest)
<1> DEFINE q == bridge.lines
           l == Left(file, Ceil(upto))
<1>1. /\ q \in Seq(Lines) /\ q # <<>> /\ file' = file /\ upto' = upto
      /\ bridge'.lines = Tail(q) /\ file \in Seq(Lines) /\ Ceil(upto) \in 0..Len(file)
  BY RestType, BridgeFields DEF Feed, honeypot, history, Fields
<1>2. Rest = q \o l /\ Rest' = Tail(q) \o l
  BY <1>1 DEF Rest
<1>3. l \in Seq(Lines) /\ Len(l) \in Nat
  BY <1>1, LeftOf
<1> HIDE DEF q, l
<1>4. /\ Len(q) \in Nat \ {0} /\ Tail(q) \in Seq(Lines) /\ Len(Tail(q)) = Len(q) - 1
      /\ \A i \in 1..Len(Tail(q)) : Tail(q)[i] = q[i + 1]
      /\ Head(q) = q[1] /\ q[1] \in Lines
  BY <1>1, HeadTailProperties, EmptySeq
<1>5. /\ Rest \in Seq(Lines) /\ Len(Rest) = Len(q) + Len(l)
      /\ \A i \in 1..(Len(q) + Len(l)) : Rest[i] = IF i <= Len(q) THEN q[i] ELSE l[i - Len(q)]
  BY <1>1, <1>2, <1>3, ConcatProperties
<1>6. /\ Rest' \in Seq(Lines) /\ Len(Rest') = (Len(q) - 1) + Len(l)
      /\ \A i \in 1..((Len(q) - 1) + Len(l)) :
            Rest'[i] = IF i <= Len(q) - 1 THEN Tail(q)[i] ELSE l[i - (Len(q) - 1)]
  BY <1>2, <1>3, <1>4, ConcatProperties
<1>7. Rest # <<>> /\ Rest[1] = q[1]
  <2>1. Len(Rest) >= 1
    BY <1>3, <1>4, <1>5
  <2>2. Len(<<>>) = 0
    OBVIOUS
  <2>3. Rest # <<>>
    BY <2>1, <2>2
  <2>4. 1 \in 1..(Len(q) + Len(l)) /\ 1 <= Len(q)
    BY <1>3, <1>4
  <2> QED BY <2>3, <2>4, <1>5
<1>8. /\ Tail(Rest) \in Seq(Lines) /\ Len(Tail(Rest)) = Len(Rest) - 1
      /\ \A i \in 1..Len(Tail(Rest)) : Tail(Rest)[i] = Rest[i + 1]
  BY <1>5, <1>7, HeadTailProperties
<1>9. Rest' = Tail(Rest)
  <2>1. Len(Rest') = Len(Tail(Rest))
    BY <1>3, <1>4, <1>5, <1>6, <1>8
  <2>2. ASSUME NEW i \in 1..Len(Rest')
        PROVE  Rest'[i] = Tail(Rest)[i]
    <3>1. /\ i \in Nat /\ i \in 1..((Len(q) - 1) + Len(l)) /\ i + 1 \in 1..(Len(q) + Len(l))
          /\ Tail(Rest)[i] = Rest[i + 1]
      BY <2>1, <2>2, <1>3, <1>4, <1>6, <1>8
    <3>2. CASE i <= Len(q) - 1
      <4>1. i \in 1..Len(Tail(q)) /\ i + 1 <= Len(q)
        BY <3>1, <3>2, <1>4
      <4> QED BY <3>1, <3>2, <4>1, <1>4, <1>5, <1>6
    <3>3. CASE ~(i <= Len(q) - 1)
      <4>1. ~(i + 1 <= Len(q)) /\ i - (Len(q) - 1) = (i + 1) - Len(q)
        BY <3>1, <3>3, <1>4
      <4> QED BY <3>1, <3>3, <4>1, <1>5, <1>6
    <3> QED BY <3>2, <3>3
  <2> QED BY <1>6, <1>8, <2>1, <2>2, SeqEqual
<1> QED BY <1>4, <1>7, <1>9 DEF q

LEMMA CrashRewinds ==
    ASSUME Fields, Offsets, Fields', Offsets', Crash
    PROVE  file' = file /\ Ceil(upto') \in 0..Len(file) /\ Rest' = Left(file, Ceil(upto'))
<1>1. file' = file /\ bridge'.lines = <<>> /\ file \in Seq(Lines)
  BY BridgeFields DEF Crash, honeypot, Fields
<1>2. Ceil(upto') \in 0..Len(file)
  BY <1>1, RestTypeNext
<1>3. Left(file, Ceil(upto')) \in Seq(Lines)
  BY <1>1, <1>2, LeftOf
<1> QED BY <1>1, <1>2, <1>3, ConcatEmptySeq DEF Rest

-----------------------------------------------------------------------------
(* The session invariants *)

(* q has one line at most that opens s. *)
OpensOnce(q, s) ==
    \A p, r \in 1..Len(q) :
        /\ q[p].sid = s /\ q[p].kind = "connect"
        /\ q[r].sid = s /\ q[r].kind = "connect"
        => p = r

Prefix(b, h) == Len(b) <= Len(h) /\ \A k \in 1..Len(b) : b[k] = h[k]

(* Where the beginning of s may still be met in this life of the bridge:   *)
(* it did not happen yet, or is to be taken in, or is in the buffer.       *)
Started(s) == Has(buffers[s], "connect")
Avail(s)   == story[s] = <<>> \/ Opens(Rest, s) \/ Started(s)

(* A session is told from its beginning. *)
Told(s) ==
    /\ Begins(story[s])
    /\ story[s] = <<>> => Free(file, s) /\ Free(Rest, s) /\ buffers[s] = <<>>
    /\ Opens(file, s) => Follows(file, s, story[s])

(* Its beginning is met once in a life. *)
Single(s) == OpensOnce(Rest, s) /\ (Opens(Rest, s) => ~Started(s))

(* What the bridge took in and what it has to take in make up its story.   *)
Tracked(s) ==
    /\ Prefix(buffers[s], story[s])
    /\ Follows(Rest, s, Left(story[s], Len(buffers[s])))

(* It was fed at most once in each life, and not yet in this one while its *)
(* beginning may still be met.                                             *)
Once(s) == Len(fed[s]) + (IF Avail(s) THEN 1 ELSE 0) <= 1 + spent.crashes

Gapless(s) ==
    s \notin missed => \A i \in 1..Len(fed[s]) :
        /\ Prefix(fed[s][i], story[s])
        /\ fed[s][i][Len(fed[s][i])] = "closed" \/ s \in split

Sound(s) ==
    /\ Told(s) /\ Single(s) /\ Once(s) /\ Gapless(s)
    /\ s \notin missed /\ Avail(s) => Tracked(s)

BridgeInv == Fields /\ Offsets /\ \A s \in Sids : Sound(s)

(* One more line *)
LEMMA AppendOther ==
    ASSUME NEW s \in Sids, NEW q \in Seq(Lines), NEW e \in Lines, e.sid # s
    PROVE  /\ Opens(Append(q, e), s) <=> Opens(q, s)
           /\ Free(q, s) => Free(Append(q, e), s)
           /\ OpensOnce(q, s) => OpensOnce(Append(q, e), s)
<1> DEFINE r == Append(q, e)
<1>1. /\ Len(q) \in Nat /\ Len(r) = Len(q) + 1
      /\ \A p \in 1..Len(q) : r[p] = q[p]
      /\ r[Len(q) + 1] = e
  BY AppendProperties
<1> HIDE DEF r
<1>2. \A p \in 1..Len(r) : r[p].sid = s => p \in 1..Len(q) /\ r[p] = q[p]
  BY <1>1
<1>3. \A p \in 1..Len(q) : p \in 1..Len(r)
  BY <1>1
<1>4. Opens(r, s) <=> Opens(q, s)
  BY <1>1, <1>2, <1>3 DEF Opens
<1>5. Free(q, s) => Free(r, s)
  BY <1>2 DEF Free
<1>6. OpensOnce(q, s) => OpensOnce(r, s)
  BY <1>2 DEF OpensOnce
<1> QED BY <1>4, <1>5, <1>6 DEF r

LEMMA AppendOwn ==
    ASSUME NEW s \in Sids, NEW q \in Seq(Lines), NEW e \in Lines, e.sid = s
    PROVE  /\ e.kind # "connect" => /\ Opens(Append(q, e), s) <=> Opens(q, s)
                                    /\ OpensOnce(q, s) => OpensOnce(Append(q, e), s)
           /\ Free(q, s) => OpensOnce(Append(q, e), s)
<1> DEFINE r == Append(q, e)
<1>1. /\ Len(q) \in Nat /\ Len(r) = Len(q) + 1
      /\ \A p \in 1..Len(q) : r[p] = q[p]
      /\ r[Len(q) + 1] = e
  BY AppendProperties
<1> HIDE DEF r
<1>2. \A p \in 1..Len(r) : p = Len(q) + 1 \/ (p \in 1..Len(q) /\ r[p] = q[p])
  BY <1>1
<1>3. \A p \in 1..Len(q) : p \in 1..Len(r)
  BY <1>1
<1>4. ASSUME e.kind # "connect"
      PROVE  Opens(r, s) <=> Opens(q, s)
  <2>1. \A p \in 1..Len(r) : r[p].kind = "connect" => p \in 1..Len(q) /\ r[p] = q[p]
    BY <1>1, <1>2, <1>4
  <2> QED BY <2>1, <1>1, <1>3 DEF Opens
<1>5. ASSUME e.kind # "connect", OpensOnce(q, s)
      PROVE  OpensOnce(r, s)
  <2>1. \A p \in 1..Len(r) : r[p].kind = "connect" => p \in 1..Len(q) /\ r[p] = q[p]
    BY <1>1, <1>2, <1>5
  <2> QED BY <2>1, <1>5 DEF OpensOnce
<1>6. ASSUME Free(q, s)
      PROVE  OpensOnce(r, s)
  <2>1. \A p \in 1..Len(r) : r[p].sid = s => p = Len(q) + 1
    BY <1>2, <1>6 DEF Free
  <2> QED BY <2>1 DEF OpensOnce
<1> QED BY <1>4, <1>5, <1>6 DEF r

(* Fewer lines *)
LEMMA SectionOpens ==
    ASSUME NEW s \in Sids, NEW q \in Seq(Lines), NEW a \in 0..Len(q),
           NEW b \in Int, b <= Len(q)
    PROVE  /\ Opens(SubSeq(q, a + 1, b), s) =>
                 \E p \in 1..Len(q) : a < p /\ q[p].sid = s /\ q[p].kind = "connect"
           /\ Free(q, s) => Free(SubSeq(q, a + 1, b), s)
           /\ OpensOnce(q, s) => OpensOnce(SubSeq(q, a + 1, b), s)
<1> DEFINE r == SubSeq(q, a + 1, b)
<1>1. /\ Len(q) \in Nat /\ a \in Nat /\ b \in Int
      /\ Len(r) = IF a < b THEN b - a ELSE 0
      /\ \A i \in 1..(b - a) : r[i] = q[a + i] /\ a + i \in 1..Len(q)
  BY Section
<1> HIDE DEF r
<1>2. \A i \in 1..Len(r) : r[i] = q[a + i] /\ a + i \in 1..Len(q) /\ a < a + i /\ i \in Nat
  BY <1>1
<1>3. Opens(r, s) => \E p \in 1..Len(q) : a < p /\ q[p].sid = s /\ q[p].kind = "connect"
  BY <1>1, <1>2 DEF Opens
<1>4. Free(q, s) => Free(r, s)
  BY <1>2 DEF Free
<1>5. ASSUME OpensOnce(q, s)
      PROVE  OpensOnce(r, s)
  <2> SUFFICES ASSUME NEW i \in 1..Len(r), NEW j \in 1..Len(r),
                      r[i].sid = s, r[i].kind = "connect", r[j].sid = s, r[j].kind = "connect"
               PROVE  i = j
    BY DEF OpensOnce
  <2>1. a + i = a + j
    BY <1>2, <1>5 DEF OpensOnce
  <2> QED BY <2>1, <1>1, <1>2
<1> QED BY <1>3, <1>4, <1>5 DEF r

(* What is left of a story *)
LEMMA LeftStory ==
    ASSUME NEW h \in Seq(Kinds), NEW n \in 0..Len(h)
    PROVE  /\ Left(h, n) \in Seq(Kinds) /\ Len(Left(h, n)) = Len(h) - n
           /\ \A p \in 1..(Len(h) - n) : Left(h, n)[p] = h[n + p]
<1>1. Len(h) \in Nat /\ n \in Nat /\ n + 1 \in Int /\ \A i \in (n + 1)..Len(h) : i \in 1..Len(h)
  OBVIOUS
<1>2. \A i \in (n + 1)..Len(h) : h[i] \in Kinds
  BY <1>1
<1> DEFINE l == Left(h, n)
<1>3. /\ l \in Seq(Kinds)
      /\ Len(l) = IF n + 1 <= Len(h) THEN Len(h) - (n + 1) + 1 ELSE 0
      /\ \A i \in 1..(Len(h) - (n + 1) + 1) : l[i] = h[(n + 1) + i - 1]
  BY <1>1, <1>2, SubSeqProperties DEF Left
<1> HIDE DEF l
<1>4. \A p \in 1..(Len(h) - n) : p \in 1..(Len(h) - (n + 1) + 1) /\ (n + 1) + p - 1 = n + p
  BY <1>1
<1>5. Len(l) = Len(h) - n /\ \A p \in 1..(Len(h) - n) : l[p] = h[n + p]
  BY <1>1, <1>3, <1>4
<1> QED BY <1>3, <1>5 DEF l

LEMMA LeftAppend ==
    ASSUME NEW h \in Seq(Kinds), NEW n \in 0..Len(h), NEW k \in Kinds
    PROVE  Left(Append(h, k), n) = Append(Left(h, n), k)
<1> DEFINE g == Append(h, k)
           l == Left(h, n)
           m == Left(g, n)
           u == Append(l, k)
<1>1. /\ Len(h) \in Nat /\ n \in Nat /\ n <= Len(h)
      /\ g \in Seq(Kinds) /\ Len(g) = Len(h) + 1 /\ g[Len(h) + 1] = k
      /\ \A i \in 1..Len(h) : g[i] = h[i]
  BY AppendProperties
<1>2. /\ l \in Seq(Kinds) /\ Len(l) = Len(h) - n
      /\ \A p \in 1..(Len(h) - n) : l[p] = h[n + p]
  BY LeftStory
<1> HIDE DEF g
<1>3. /\ m \in Seq(Kinds) /\ Len(m) = Len(g) - n
      /\ \A p \in 1..(Len(g) - n) : m[p] = g[n + p]
  <2>1. n \in 0..Len(g)
    BY <1>1
  <2> QED BY <1>1, <2>1, LeftStory
<1> HIDE DEF l, m
<1>4. /\ u \in Seq(Kinds) /\ Len(u) = Len(l) + 1 /\ u[Len(l) + 1] = k
      /\ \A i \in 1..Len(l) : u[i] = l[i]
  BY <1>2, AppendProperties
<1> HIDE DEF u
<1>5. ASSUME NEW i \in 1..Len(m)
      PROVE  m[i] = u[i]
  <2>1. CASE i \in 1..Len(l)
    <3>1. i \in 1..(Len(g) - n) /\ i \in 1..(Len(h) - n) /\ n + i \in 1..Len(h)
      BY <2>1, <1>1, <1>2
    <3> QED BY <2>1, <3>1, <1>1, <1>2, <1>3, <1>4
  <2>2. CASE i = Len(l) + 1
    <3>1. i \in 1..(Len(g) - n) /\ n + i = Len(h) + 1
      BY <2>2, <1>1, <1>2
    <3> QED BY <2>2, <3>1, <1>1, <1>3, <1>4
  <2> QED BY <2>1, <2>2, <1>1, <1>2, <1>3
<1>6. Len(m) = Len(u)
  BY <1>1, <1>2, <1>3, <1>4
<1>7. m = u
  BY <1>3, <1>4, <1>5, <1>6, SeqEqual
<1> QED BY <1>7 DEF m, u, l, g

LEMMA LeftTail ==
    ASSUME NEW h \in Seq(Kinds), NEW n \in 0..Len(h), Left(h, n) # <<>>
    PROVE  n < Len(h) /\ Left(h, n)[1] = h[n + 1] /\ Tail(Left(h, n)) = Left(h, n + 1)
<1> DEFINE l == Left(h, n)
           m == Left(h, n + 1)
           u == Tail(l)
<1>1. /\ Len(h) \in Nat /\ n \in Nat /\ n <= Len(h)
      /\ l \in Seq(Kinds) /\ Len(l) = Len(h) - n /\ l # <<>>
      /\ \A p \in 1..(Len(h) - n) : l[p] = h[n + p]
  BY LeftStory
<1>2. Len(l) > 0
  BY <1>1, EmptySeq
<1>3. n < Len(h) /\ n + 1 \in 0..Len(h) /\ l[1] = h[n + 1]
  BY <1>1, <1>2
<1>4. /\ m \in Seq(Kinds) /\ Len(m) = Len(h) - (n + 1)
      /\ \A p \in 1..(Len(h) - (n + 1)) : m[p] = h[(n + 1) + p]
  BY <1>3, LeftStory
<1> HIDE DEF l, m
<1>5. /\ u \in Seq(Kinds) /\ Len(u) = Len(l) - 1
      /\ \A i \in 1..Len(u) : u[i] = l[i + 1]
  BY <1>1, HeadTailProperties
<1> HIDE DEF u
<1>6. Len(u) = Len(m)
  BY <1>1, <1>4, <1>5
<1>7. ASSUME NEW i \in 1..Len(u)
      PROVE  u[i] = m[i]
  <2>1. /\ i + 1 \in 1..(Len(h) - n) /\ i \in 1..(Len(h) - (n + 1))
        /\ n + (i + 1) = (n + 1) + i
    BY <1>1, <1>5
  <2> QED BY <2>1, <1>1, <1>4, <1>5
<1>8. u = m
  BY <1>4, <1>5, <1>6, <1>7, SeqEqual
<1> QED BY <1>3, <1>8 DEF u, m, l

-----------------------------------------------------------------------------
(* Each kind of step keeps the session invariants *)

LEMMA HasAppend ==
    ASSUME NEW b \in Seq(Kinds), NEW k \in Kinds, NEW c
    PROVE  /\ Has(Append(b, k), c) <=> Has(b, c) \/ k = c
           /\ ~Has(<<>>, c)
<1> DEFINE r == Append(b, k)
<1>1. /\ Len(b) \in Nat /\ Len(r) = Len(b) + 1 /\ r \in Seq(Kinds)
      /\ \A p \in 1..Len(b) : r[p] = b[p]
      /\ r[Len(b) + 1] = k
  BY AppendProperties
<1>2. DOMAIN b = 1..Len(b)
  OBVIOUS
<1> HIDE DEF r
<1>3. DOMAIN r = 1..Len(r)
  BY <1>1
<1>4. /\ \A p \in DOMAIN r : (p \in DOMAIN b /\ r[p] = b[p]) \/ (p = Len(b) + 1 /\ r[p] = k)
      /\ \A p \in DOMAIN b : p \in DOMAIN r /\ r[p] = b[p]
      /\ Len(b) + 1 \in DOMAIN r /\ r[Len(b) + 1] = k
  BY <1>1, <1>2, <1>3
<1>5. Has(r, c) <=> Has(b, c) \/ k = c
  BY <1>4 DEF Has
<1>6. ~Has(<<>>, c)
  BY DEF Has
<1> QED BY <1>5, <1>6 DEF r

LEMMA PrefixAppend ==
    ASSUME NEW h \in Seq(Kinds), NEW k \in Kinds, NEW b \in Seq(Kinds), Prefix(b, h)
    PROVE  Prefix(b, Append(h, k))
<1> DEFINE g == Append(h, k)
<1>1. /\ Len(h) \in Nat /\ Len(g) = Len(h) + 1 /\ Len(b) \in Nat
      /\ \A p \in 1..Len(h) : g[p] = h[p]
  BY AppendProperties
<1> HIDE DEF g
<1>2. Prefix(b, g)
  <2>1. Len(b) <= Len(h) /\ \A p \in 1..Len(b) : p \in 1..Len(h) /\ b[p] = h[p]
    BY <1>1 DEF Prefix
  <2> QED BY <1>1, <2>1 DEF Prefix
<1> QED BY <1>2 DEF g

(* The next event of the story makes the buffer one longer. *)
LEMMA PrefixTakes ==
    ASSUME NEW h \in Seq(Kinds), NEW b \in Seq(Kinds), Prefix(b, h), Len(b) < Len(h)
    PROVE  /\ Prefix(Append(b, h[Len(b) + 1]), h)
           /\ Len(Append(b, h[Len(b) + 1])) = Len(b) + 1
           /\ Append(b, h[Len(b) + 1])[Len(b) + 1] = h[Len(b) + 1]
<1>1. Len(h) \in Nat /\ Len(b) \in Nat /\ Len(b) + 1 \in 1..Len(h)
  OBVIOUS
<1>2. h[Len(b) + 1] \in Kinds
  BY <1>1
<1> DEFINE k == h[Len(b) + 1]
           c == Append(b, k)
<1>3. /\ Len(c) = Len(b) + 1 /\ c[Len(b) + 1] = k
      /\ \A p \in 1..Len(b) : c[p] = b[p]
  BY <1>2, AppendProperties
<1> HIDE DEF c
<1>4. \A p \in 1..Len(c) : c[p] = h[p]
  <2> TAKE p \in 1..Len(c)
  <2>1. CASE p = Len(b) + 1
    BY <2>1, <1>3
  <2>2. CASE p \in 1..Len(b)
    BY <2>2, <1>3 DEF Prefix
  <2> QED BY <2>1, <2>2, <1>1, <1>3
<1>5. Prefix(c, h)
  BY <1>1, <1>3, <1>4 DEF Prefix
<1> QED BY <1>3, <1>5 DEF c

LEMMA SessionTypes ==
    ASSUME Fields, Offsets, NEW s \in Sids
    PROVE  /\ story[s] \in Seq(Kinds) /\ buffers[s] \in Seq(Kinds)
           /\ fed[s] \in Seq(Seq(Kinds)) /\ Len(fed[s]) \in Nat
           /\ \A i \in 1..Len(fed[s]) : fed[s][i] \in Seq(Kinds)
           /\ spent.crashes \in Nat /\ Rest \in Seq(Lines) /\ file \in Seq(Lines)
<1>1. story[s] \in Seq(Kinds) /\ buffers[s] \in Seq(Kinds) /\ fed[s] \in Seq(Seq(Kinds))
  BY DEF Fields
<1>2. Len(fed[s]) \in Nat /\ \A i \in 1..Len(fed[s]) : fed[s][i] \in Seq(Kinds)
  BY <1>1
<1>3. spent.crashes \in Nat
  BY DEF Fields, Bounds
<1> QED BY <1>1, <1>2, <1>3, RestType

LEMMA OnceMeans ==
    ASSUME NEW s \in Sids, Len(fed[s]) \in Nat, spent.crashes \in Nat, Once(s)
    PROVE  /\ Len(fed[s]) <= 1 + spent.crashes
           /\ Avail(s) => Len(fed[s]) + 1 <= 1 + spent.crashes
<1>1. CASE Avail(s)
  <2>1. Len(fed[s]) + 1 <= 1 + spent.crashes
    BY <1>1 DEF Once
  <2> QED BY <2>1
<1>2. CASE ~Avail(s)
  <2>1. Len(fed[s]) + 0 <= 1 + spent.crashes
    BY <1>2 DEF Once
  <2> QED BY <2>1, <1>2
<1> QED BY <1>1, <1>2

LEMMA OnceNext ==
    ASSUME NEW s \in Sids, Len(fed'[s]) \in Nat, spent'.crashes \in Nat,
           Len(fed'[s]) <= 1 + spent'.crashes,
           Avail(s)' => Len(fed'[s]) + 1 <= 1 + spent'.crashes
    PROVE  Once(s)'
<1>1. CASE Avail(s)'
  BY <1>1 DEF Once
<1>2. CASE ~Avail(s)'
  BY <1>2 DEF Once
<1> QED BY <1>1, <1>2

LEMMA OnceKept ==
    ASSUME NEW s \in Sids, Len(fed[s]) \in Nat, spent.crashes \in Nat, Once(s),
           fed'[s] = fed[s], spent'.crashes = spent.crashes, Avail(s)' => Avail(s)
    PROVE  Once(s)'
BY OnceMeans, OnceNext

(* A line is logged: of another session, *)
LEMMA LogSoundOther ==
    ASSUME Fields, Offsets, NEW s \in Sids, NEW k \in Kinds, Log(s, k),
           NEW x \in Sids \ {s}, Sound(x)
    PROVE  Sound(x)'
<1> DEFINE e == [sid |-> s, kind |-> k]
<1>1. /\ e \in Lines /\ e.sid # x /\ Rest' = Append(Rest, e) /\ file' = Append(file, e)
      /\ story'[x] = story[x] /\ buffers' = buffers /\ fed' = fed
      /\ missed' = missed /\ split' = split /\ spent'.crashes = spent.crashes
  <2>1. e.sid # x /\ file' = Append(file, e)
    BY DEF Log
  <2>2. /\ story'[x] = story[x] /\ buffers' = buffers /\ fed' = fed
        /\ missed' = missed /\ split' = split /\ spent'.crashes = spent.crashes
    BY DEF Log, memory, history, Fields, Bounds
  <2> QED BY <2>1, <2>2, LogExtends
<1> HIDE DEF e
<1>2. /\ story[x] \in Seq(Kinds) /\ buffers[x] \in Seq(Kinds)
      /\ Rest \in Seq(Lines) /\ file \in Seq(Lines)
  BY SessionTypes
<1>3. /\ Opens(Rest', x) <=> Opens(Rest, x)
      /\ Free(Rest, x) => Free(Rest', x)
      /\ OpensOnce(Rest, x) => OpensOnce(Rest', x)
      /\ Opens(file', x) <=> Opens(file, x)
      /\ Free(file, x) => Free(file', x)
  BY <1>1, <1>2, AppendOther
<1>4. Told(x)'
  <2>1. Opens(file', x) => Follows(file', x, story[x])
    BY <1>1, <1>2, <1>3, FollowsOther DEF Sound, Told
  <2> QED BY <1>1, <1>3, <2>1 DEF Sound, Told
<1>5. Single(x)' /\ (Avail(x)' <=> Avail(x))
  BY <1>1, <1>3 DEF Sound, Single, Avail, Started
<1>6. Once(x)' /\ Gapless(x)'
  BY <1>1, <1>5 DEF Sound, Once, Gapless
<1>7. ASSUME Tracked(x)
      PROVE  Tracked(x)'
  <2>1. Left(story[x], Len(buffers[x])) \in Seq(Kinds)
    BY <1>2, <1>7, LeftStory DEF Tracked, Prefix
  <2>2. Follows(Rest', x, Left(story[x], Len(buffers[x])))
    BY <1>1, <1>2, <1>7, <2>1, FollowsOther DEF Tracked
  <2> QED BY <1>1, <1>7, <2>2 DEF Tracked
<1> QED BY <1>1, <1>4, <1>5, <1>6, <1>7 DEF Sound

(* of this one. *)
LEMMA LogSoundOwn ==
    ASSUME Fields, Offsets, NEW s \in Sids, NEW k \in Kinds, Log(s, k), Sound(s)
    PROVE  Sound(s)'
<1> DEFINE e == [sid |-> s, kind |-> k]
           h == story[s]
           g == Append(h, k)
<1>1. /\ e \in Lines /\ e.sid = s /\ e.kind = k /\ Rest' = Append(Rest, e) /\ file' = Append(file, e)
      /\ story'[s] = g /\ buffers' = buffers /\ fed' = fed
      /\ missed' = missed /\ split' = split /\ spent'.crashes = spent.crashes
      /\ k = "connect" <=> h = <<>>
  <2>1. e.sid = s /\ e.kind = k /\ file' = Append(file, e)
    BY DEF Log
  <2>2. /\ story'[s] = g /\ buffers' = buffers /\ fed' = fed
        /\ missed' = missed /\ split' = split /\ spent'.crashes = spent.crashes
    BY DEF Log, memory, history, Fields, Bounds
  <2>3. k = "connect" <=> h = <<>>
    BY DEF Log
  <2> QED BY <2>1, <2>2, <2>3, LogExtends
<1>2. /\ h \in Seq(Kinds) /\ buffers[s] \in Seq(Kinds) /\ fed[s] \in Seq(Seq(Kinds))
      /\ \A i \in 1..Len(fed[s]) : fed[s][i] \in Seq(Kinds)
      /\ Rest \in Seq(Lines) /\ file \in Seq(Lines)
  BY SessionTypes
<1> HIDE DEF h
<1>3. /\ Len(h) \in Nat /\ g \in Seq(Kinds) /\ g # <<>> /\ Len(g) = Len(h) + 1
      /\ g[Len(h) + 1] = k /\ \A i \in 1..Len(h) : g[i] = h[i]
  BY <1>2, AppendProperties, AppendNonempty
<1> HIDE DEF e, g
<1>4. Begins(g)
  <2>1. Begins(h)
    BY DEF Sound, Told, h
  <2>2. \A i \in 1..Len(g) : i = Len(h) + 1 \/ i \in 1..Len(h)
    BY <1>3
  <2>3. h = <<>> <=> Len(h) = 0
    BY <1>2, EmptySeq
  <2>4. k = "connect" <=> Len(h) + 1 = 1
    BY <1>1, <1>3, <2>3
  <2> QED BY <1>3, <2>1, <2>2, <2>4 DEF Begins
<1>5. ASSUME k = "connect"
      PROVE  Told(s)' /\ Single(s)' /\ (Avail(s)' => Avail(s))
  <2>1. h = <<>> /\ Free(file, s) /\ Free(Rest, s) /\ buffers[s] = <<>> /\ Avail(s)
    BY <1>1, <1>5 DEF Sound, Told, Avail, h
  <2>2. Follows(file', s, g)
    <3>1. Follows(file, s, h)
      BY <1>2, <2>1, FollowsNothing
    <3> QED BY <1>1, <1>2, <3>1, FollowsOwn DEF g
  <2>3. OpensOnce(Rest', s) /\ ~Started(s)'
    <3>1. ~Has(<<>>, "connect")
      BY HasAppend DEF Has
    <3> QED BY <1>1, <1>2, <2>1, <3>1, AppendOwn DEF Started
  <2>4. Told(s)' /\ Single(s)'
    BY <1>1, <1>3, <1>4, <2>2, <2>3 DEF Told, Single
  <2> QED BY <2>1, <2>4 DEF Avail
<1>6. ASSUME k # "connect"
      PROVE  Told(s)' /\ Single(s)' /\ (Avail(s)' => Avail(s))
  <2>1. h # <<>>
    BY <1>1, <1>6
  <2>2. /\ Opens(Rest', s) <=> Opens(Rest, s)
        /\ OpensOnce(Rest, s) => OpensOnce(Rest', s)
        /\ Opens(file', s) <=> Opens(file, s)
    BY <1>1, <1>2, <1>6, AppendOwn
  <2>3. Opens(file', s) => Follows(file', s, g)
    <3>1. Opens(file, s) => Follows(file, s, h)
      BY DEF Sound, Told, h
    <3> QED BY <1>1, <1>2, <2>2, <3>1, FollowsOwn DEF g
  <2>4. Told(s)' /\ Single(s)'
    BY <1>1, <1>3, <1>4, <2>2, <2>3 DEF Told, Single, Sound, Started
  <2>5. Avail(s)' => Avail(s)
    BY <1>1, <1>3, <2>2 DEF Avail, Started
  <2> QED BY <2>4, <2>5
<1>7. Told(s)' /\ Single(s)' /\ (Avail(s)' => Avail(s))
  BY <1>5, <1>6
<1>8. Once(s)'
  <2>1. Len(fed[s]) \in Nat /\ spent.crashes \in Nat
    BY SessionTypes
  <2> QED BY <1>1, <1>7, <2>1, OnceKept DEF Sound
<1>9. Gapless(s)'
  <2>1. \A i \in 1..Len(fed[s]) : Prefix(fed[s][i], h) => Prefix(fed[s][i], g)
    BY <1>2, PrefixAppend DEF g
  <2> QED BY <1>1, <2>1 DEF Sound, Gapless, h
<1>10. ASSUME Tracked(s)
       PROVE  Tracked(s)'
  <2>1. /\ Prefix(buffers[s], h) /\ Follows(Rest, s, Left(h, Len(buffers[s])))
        /\ Len(buffers[s]) \in 0..Len(h)
    BY <1>2, <1>10 DEF Tracked, h, Prefix
  <2>2. Left(h, Len(buffers[s])) \in Seq(Kinds)
    BY <1>2, <2>1, LeftStory
  <2>3. Follows(Rest', s, Append(Left(h, Len(buffers[s])), k))
    BY <1>1, <1>2, <2>1, <2>2, FollowsOwn
  <2>4. Left(g, Len(buffers[s])) = Append(Left(h, Len(buffers[s])), k)
    BY <1>2, <2>1, LeftAppend DEF g
  <2>5. Prefix(buffers[s], g)
    BY <1>2, <2>1, PrefixAppend DEF g
  <2> QED BY <1>1, <2>3, <2>4, <2>5 DEF Tracked
<1> QED BY <1>1, <1>7, <1>8, <1>9, <1>10 DEF Sound

(* Nothing is taken in or sent, and of what is left only lines of missed   *)
(* sessions are dropped.                                                   *)
Quietly ==
    /\ Rest' = Rest \/ Narrows
    /\ UNCHANGED <<story, buffers, fed, split>>
    /\ missed \subseteq missed' /\ spent'.crashes = spent.crashes
    /\ file' = file \/ file' = <<>>

(* What a narrower rest keeps. *)
LEMMA NarrowsKeeps ==
    ASSUME Fields, Offsets, Rest' = Rest \/ Narrows, NEW x \in Sids
    PROVE  /\ Opens(Rest', x) => Opens(Rest, x)
           /\ Free(Rest, x) => Free(Rest', x)
           /\ OpensOnce(Rest, x) => OpensOnce(Rest', x)
           /\ \A h \in Seq(Kinds) :
                 x \notin missed' /\ Follows(Rest, x, h) => Follows(Rest', x, h)
<1>1. CASE Rest' = Rest
  BY <1>1
<1>2. CASE Narrows
  <2>1. PICK a \in 0..Len(Rest), b \in Int :
           /\ b <= Len(Rest) /\ Rest' = SubSeq(Rest, a + 1, b)
           /\ \A s \in Sids \ missed' : Silent(Rest, s, a, b)
    BY <1>2 DEF Narrows
  <2>2. Rest \in Seq(Lines)
    BY RestType
  <2>3. /\ Opens(Rest', x) => \E p \in 1..Len(Rest) : Rest[p].sid = x /\ Rest[p].kind = "connect"
        /\ Free(Rest, x) => Free(Rest', x)
        /\ OpensOnce(Rest, x) => OpensOnce(Rest', x)
    BY <2>1, <2>2, SectionOpens
  <2>4. ASSUME NEW h \in Seq(Kinds), x \notin missed', Follows(Rest, x, h)
        PROVE  Follows(Rest', x, h)
    BY <2>1, <2>2, <2>4, FollowsSection
  <2> QED BY <2>3, <2>4 DEF Opens
<1> QED BY <1>1, <1>2

LEMMA QuietlySound ==
    ASSUME Fields, Offsets, Quietly, NEW x \in Sids, Sound(x)
    PROVE  Sound(x)'
<1>1. /\ story' = story /\ buffers' = buffers /\ fed' = fed /\ split' = split
      /\ missed \subseteq missed' /\ spent'.crashes = spent.crashes
      /\ file' = file \/ file' = <<>>
  BY DEF Quietly
<1>2. /\ Opens(Rest', x) => Opens(Rest, x)
      /\ Free(Rest, x) => Free(Rest', x)
      /\ OpensOnce(Rest, x) => OpensOnce(Rest', x)
      /\ \A h \in Seq(Kinds) :
            x \notin missed' /\ Follows(Rest, x, h) => Follows(Rest', x, h)
  BY NarrowsKeeps DEF Quietly
<1>3. Told(x)'
  <2>1. Free(<<>>, x) /\ ~Opens(<<>>, x)
    BY DEF Free, Opens
  <2>2. CASE file' = file
    BY <1>1, <1>2, <2>2 DEF Sound, Told
  <2>3. CASE file' = <<>>
    BY <1>1, <1>2, <2>1, <2>3 DEF Sound, Told
  <2> QED BY <1>1, <2>2, <2>3
<1>4. Single(x)' /\ (Avail(x)' => Avail(x))
  BY <1>1, <1>2 DEF Sound, Single, Avail, Started
<1>5. Once(x)'
  BY <1>1, <1>4, SessionTypes, OnceKept DEF Sound
<1>6. Gapless(x)'
  BY <1>1 DEF Sound, Gapless
<1>7. ASSUME Tracked(x), x \notin missed'
      PROVE  Tracked(x)'
  <2>1. Len(buffers[x]) \in 0..Len(story[x]) /\ story[x] \in Seq(Kinds)
    BY <1>7, SessionTypes DEF Tracked, Prefix
  <2>2. Left(story[x], Len(buffers[x])) \in Seq(Kinds)
    BY <2>1, LeftStory
  <2> QED BY <1>1, <1>2, <1>7, <2>2 DEF Tracked
<1> QED BY <1>1, <1>3, <1>4, <1>5, <1>6, <1>7 DEF Sound

(* Tracked sessions: what an opening that is still to be met, or none, says *)
(* of the buffer.                                                          *)
LEMMA TrackedBuffer ==
    ASSUME NEW s \in Sids, Fields, Offsets, Told(s), Tracked(s)
    PROVE  buffers[s] = <<>> \/ Started(s)
<1>1. story[s] \in Seq(Kinds) /\ buffers[s] \in Seq(Kinds)
  BY SessionTypes
<1>2. ASSUME buffers[s] # <<>>
      PROVE  Started(s)
  <2>1. 1 \in 1..Len(buffers[s]) /\ 1 \in 1..Len(story[s]) /\ 1 \in DOMAIN buffers[s]
    BY <1>1, <1>2, EmptySeq DEF Tracked, Prefix
  <2>2. buffers[s][1] = "connect"
    BY <2>1 DEF Told, Begins, Tracked, Prefix
  <2> QED BY <2>1, <2>2 DEF Started, Has
<1> QED BY <1>2

(* A stale session is processed and dropped. *)
LEMMA StaleSound ==
    ASSUME Fields, Offsets, NEW s \in Sids, NEW x \in Sids, Sound(x),
           Process(s, buffers[s]), buffers' = [buffers EXCEPT ![s] = <<>>],
           split' = split \cup {s}, Rest' = Rest,
           UNCHANGED <<story, file, missed, spent>>
    PROVE  Sound(x)'
<1>1. /\ story' = story /\ file' = file /\ missed' = missed /\ spent' = spent
      /\ buffers'[s] = <<>> /\ \A y \in Sids \ {s} : buffers'[y] = buffers[y]
      /\ split \subseteq split' /\ s \in split'
  BY DEF Fields
<1>2. /\ \A y \in Sids \ {s} : fed'[y] = fed[y]
      /\ \/ fed'[s] = fed[s]
         \/ Started(s) /\ fed'[s] = Append(fed[s], buffers[s])
  BY SessionTypes, Processed DEF Fields, Started
<1>3. ASSUME x # s
      PROVE  Sound(x)'
  <2>1. buffers'[x] = buffers[x] /\ fed'[x] = fed[x]
    BY <1>1, <1>2, <1>3
  <2>2. Told(x)' /\ Single(x)' /\ (Avail(x)' <=> Avail(x))
    BY <1>1, <2>1 DEF Sound, Told, Single, Avail, Started
  <2>3. Once(x)'
    BY <1>1, <2>1, <2>2, SessionTypes, OnceKept DEF Sound
  <2>4. Gapless(x)' /\ (Tracked(x) => Tracked(x)')
    BY <1>1, <2>1 DEF Sound, Gapless, Tracked
  <2> QED BY <1>1, <2>2, <2>3, <2>4 DEF Sound
<1>4. ASSUME x = s
      PROVE  Sound(s)'
  <2>0. Sound(s)
    BY <1>4
  <2>1. Told(s)'
    BY <1>1, <2>0 DEF Sound, Told
  <2>2. ~Started(s)' /\ Single(s)'
    <3>1. ~Has(<<>>, "connect")
      BY DEF Has
    <3> QED BY <1>1, <2>0, <3>1 DEF Sound, Single, Started
  <2>3. Avail(s)' => Avail(s) /\ ~Started(s)
    <3>1. ASSUME story[s] = <<>>
          PROVE  ~Started(s)
      <4>1. buffers[s] = <<>>
        BY <2>0, <3>1 DEF Sound, Told
      <4> QED BY <4>1 DEF Started, Has
    <3> QED BY <1>1, <2>0, <2>2, <3>1 DEF Sound, Single, Avail
  <2>4. Once(s)'
    <3>1. CASE fed'[s] = fed[s]
      BY <1>1, <2>0, <2>3, <3>1, SessionTypes, OnceKept DEF Sound
    <3>2. CASE Started(s) /\ fed'[s] = Append(fed[s], buffers[s])
      <4>1. /\ fed[s] \in Seq(Seq(Kinds)) /\ buffers[s] \in Seq(Kinds)
            /\ Len(fed[s]) \in Nat /\ spent.crashes \in Nat
        BY SessionTypes
      <4>2. Len(fed'[s]) = Len(fed[s]) + 1
        BY <3>2, <4>1
      <4>3. Avail(s) /\ ~Avail(s)'
        BY <2>3, <3>2 DEF Avail
      <4>4. Len(fed[s]) + 1 <= 1 + spent.crashes
        BY <2>0, <4>1, <4>3, OnceMeans DEF Sound
      <4> QED BY <1>1, <4>1, <4>2, <4>3, <4>4, OnceNext
    <3> QED BY <1>2, <3>1, <3>2
  <2>5. Gapless(s)'
    <3> SUFFICES ASSUME s \notin missed', NEW i \in 1..Len(fed'[s])
                 PROVE  Prefix(fed'[s][i], story[s])
      BY <1>1 DEF Gapless
    <3>1. CASE fed'[s] = fed[s]
      BY <1>1, <2>0, <3>1 DEF Sound, Gapless
    <3>2. CASE Started(s) /\ fed'[s] = Append(fed[s], buffers[s])
      <4>1. fed[s] \in Seq(Seq(Kinds)) /\ buffers[s] \in Seq(Kinds) /\ Len(fed[s]) \in Nat
        BY SessionTypes
      <4>2. Prefix(buffers[s], story[s])
        BY <1>1, <2>0, <3>2 DEF Sound, Tracked, Avail
      <4>3. /\ Len(fed'[s]) = Len(fed[s]) + 1 /\ fed'[s][Len(fed[s]) + 1] = buffers[s]
            /\ \A j \in 1..Len(fed[s]) : fed'[s][j] = fed[s][j]
        BY <3>2, <4>1, AppendProperties
      <4>4. CASE i = Len(fed[s]) + 1
        BY <4>2, <4>3, <4>4
      <4>5. CASE i \in 1..Len(fed[s])
        BY <1>1, <2>0, <4>3, <4>5 DEF Sound, Gapless
      <4> QED BY <4>1, <4>3, <4>4, <4>5
    <3> QED BY <1>2, <3>1, <3>2
  <2>6. ASSUME s \notin missed', Avail(s)'
        PROVE  Tracked(s)'
    <3>1. Tracked(s) /\ buffers[s] = <<>>
      BY <1>1, <2>0, <2>3, <2>6, TrackedBuffer DEF Sound
    <3> QED BY <1>1, <3>1 DEF Tracked
  <2> QED BY <2>1, <2>2, <2>4, <2>5, <2>6 DEF Sound
<1> QED BY <1>3, <1>4

(* One of the lines that were read is taken in: by another session, *)
LEMMA FeedSoundOther ==
    ASSUME Fields, Offsets, Feed, NEW x \in Sids, Sound(x), Head(bridge.lines).sid # x
    PROVE  Sound(x)'
<1>1. /\ Rest # <<>> /\ Rest[1] = Head(bridge.lines) /\ Rest[1] \in Lines
      /\ Rest' = Tail(Rest) /\ Rest \in Seq(Lines)
      /\ Head(bridge.lines).sid \in Sids /\ Head(bridge.lines).kind \in Kinds
  BY FeedTakes, RestType, LineParts
<1>2. /\ story' = story /\ file' = file /\ missed' = missed /\ split' = split /\ spent' = spent
      /\ buffers'[x] = buffers[x] /\ fed'[x] = fed[x]
  <2> DEFINE s == Head(bridge.lines).sid
             k == Head(bridge.lines).kind
             b == Append(buffers[s], k)
  <2>1. b \in Seq(Kinds) /\ s \in Sids /\ x # s
    BY <1>1, SessionTypes
  <2>2. \/ Process(s, b) /\ buffers' = [buffers EXCEPT ![s] = <<>>]
        \/ buffers' = [buffers EXCEPT ![s] = b] /\ UNCHANGED fed
    BY DEF Feed
  <2> HIDE DEF s, b
  <2>3. buffers'[x] = buffers[x]
    BY <2>1, <2>2 DEF Fields
  <2>4. fed'[x] = fed[x]
    BY <2>1, <2>2, Processed DEF Fields
  <2> QED BY <2>3, <2>4 DEF Feed, honeypot, history
<1>3. Rest' = SubSeq(Rest, 1 + 1, Len(Rest)) /\ 1 \in 0..Len(Rest) /\ Len(Rest) \in Int
  BY <1>1, TailIsSubSeq, EmptySeq
<1>4. Silent(Rest, x, 1, Len(Rest))
  <2> SUFFICES ASSUME NEW p \in 1..Len(Rest), Rest[p].sid = x
               PROVE  1 < p /\ p <= Len(Rest)
    BY DEF Silent
  <2>1. p # 1
    BY <1>1
  <2> QED BY <2>1
<1>5. Len(Rest) <= Len(Rest)
  BY <1>3
<1>6. /\ Opens(Rest', x) => Opens(Rest, x)
      /\ Free(Rest, x) => Free(Rest', x)
      /\ OpensOnce(Rest, x) => OpensOnce(Rest', x)
  <2> DEFINE r == SubSeq(Rest, 1 + 1, Len(Rest))
  <2>1. /\ Opens(r, x) => \E p \in 1..Len(Rest) : 1 < p /\ Rest[p].sid = x /\ Rest[p].kind = "connect"
        /\ Free(Rest, x) => Free(r, x)
        /\ OpensOnce(Rest, x) => OpensOnce(r, x)
    <3>1. Rest \in Seq(Lines) /\ 1 \in 0..Len(Rest) /\ Len(Rest) \in Int /\ Len(Rest) <= Len(Rest)
      BY <1>1, <1>3, <1>5
    <3> QED BY ONLY <3>1, SectionOpens, x \in Sids
  <2> HIDE DEF r
  <2>2. Rest' = r
    BY <1>3 DEF r
  <2> QED BY <2>1, <2>2 DEF Opens
<1>7. Told(x)' /\ Single(x)' /\ (Avail(x)' => Avail(x))
  BY <1>2, <1>6 DEF Sound, Told, Single, Avail, Started
<1>8. Once(x)' /\ Gapless(x)'
  BY <1>2, <1>7, SessionTypes, OnceKept DEF Sound, Gapless
<1>9. ASSUME Tracked(x)
      PROVE  Tracked(x)'
  <2>1. Left(story[x], Len(buffers[x])) \in Seq(Kinds)
    BY <1>9, SessionTypes, LeftStory DEF Tracked, Prefix
  <2>2. Follows(Rest', x, Left(story[x], Len(buffers[x])))
    BY <1>1, <1>3, <1>4, <1>5, <1>9, <2>1, FollowsSection DEF Tracked
  <2> QED BY <1>2, <1>9, <2>2 DEF Tracked
<1> QED BY <1>2, <1>7, <1>8, <1>9 DEF Sound

(* by this one. *)
LEMMA FeedSoundOwn ==
    ASSUME Fields, Offsets, Feed, NEW s \in Sids, Sound(s), Head(bridge.lines).sid = s
    PROVE  Sound(s)'
<1> DEFINE k == Head(bridge.lines).kind
           b == Append(buffers[s], k)
           n == Len(buffers[s])
<1>1. /\ Rest # <<>> /\ Rest' = Tail(Rest) /\ Rest \in Seq(Lines)
      /\ Rest[1].sid = s /\ Rest[1].kind = k /\ k \in Kinds
      /\ Len(Rest) \in Nat /\ 1 \in 1..Len(Rest)
  BY FeedTakes, RestType, LineParts, EmptySeq
<1>2. /\ story[s] \in Seq(Kinds) /\ buffers[s] \in Seq(Kinds) /\ b \in Seq(Kinds)
      /\ fed[s] \in Seq(Seq(Kinds)) /\ Len(fed[s]) \in Nat /\ spent.crashes \in Nat
      /\ n \in Nat /\ Len(b) = n + 1 /\ b[n + 1] = k
  BY <1>1, SessionTypes, AppendProperties
<1>3. /\ story' = story /\ file' = file /\ missed' = missed /\ split' = split /\ spent' = spent
      /\ \/ k = "closed" /\ Process(s, b) /\ buffers' = [buffers EXCEPT ![s] = <<>>]
         \/ k # "closed" /\ buffers' = [buffers EXCEPT ![s] = b] /\ UNCHANGED fed
  BY DEF Feed, honeypot, history
<1>4. /\ k = "closed" => buffers'[s] = <<>>
      /\ k # "closed" => buffers'[s] = b /\ fed'[s] = fed[s]
      /\ \/ fed'[s] = fed[s]
         \/ k = "closed" /\ Has(b, "connect") /\ fed'[s] = Append(fed[s], b)
  BY <1>2, <1>3, Processed DEF Fields
<1> HIDE DEF k
<1>5. Has(b, "connect") <=> Started(s) \/ k = "connect"
  BY <1>1, <1>2, HasAppend DEF Started
<1> HIDE DEF b, n
<1>6. Rest' = SubSeq(Rest, 1 + 1, Len(Rest)) /\ 1 \in 0..Len(Rest) /\ Len(Rest) \in Int
  BY <1>1, TailIsSubSeq
<1>7. /\ Opens(Rest', s) =>
            \E p \in 1..Len(Rest) : 1 < p /\ Rest[p].sid = s /\ Rest[p].kind = "connect"
      /\ OpensOnce(Rest, s) => OpensOnce(Rest', s)
  <2>1. Len(Rest) <= Len(Rest)
    BY <1>1
  <2> QED BY <1>1, <1>6, <2>1, SectionOpens
<1>8. story[s] # <<>> /\ (k = "connect" => Opens(Rest, s))
  <2>1. ~Free(Rest, s)
    BY <1>1 DEF Free
  <2> QED BY <1>1, <2>1 DEF Sound, Told, Opens
<1>9. /\ Opens(Rest', s) => Opens(Rest, s) /\ ~Started(s) /\ k # "connect"
      /\ OpensOnce(Rest', s)
  <2>1. Opens(Rest', s) => Opens(Rest, s)
    BY <1>7 DEF Opens
  <2>2. Opens(Rest', s) => k # "connect"
    BY <1>1, <1>7 DEF Sound, Single, OpensOnce
  <2> QED BY <1>7, <2>1, <2>2 DEF Sound, Single
<1>10. Started(s)' => k # "closed" /\ (Started(s) \/ k = "connect")
  BY <1>4, <1>5 DEF Started, Has
<1>11. Told(s)' /\ Single(s)' /\ (Avail(s)' => Avail(s))
  BY <1>3, <1>8, <1>9, <1>10 DEF Sound, Told, Single, Avail
<1>12. Once(s)'
  <2>1. CASE fed'[s] = fed[s]
    BY <1>2, <1>3, <1>11, <2>1, OnceKept DEF Sound
  <2>2. CASE k = "closed" /\ Has(b, "connect") /\ fed'[s] = Append(fed[s], b)
    <3>1. Started(s)
      BY <2>2, <1>5
    <3>2. Avail(s) /\ ~Avail(s)'
      BY <3>1, <2>2, <1>3, <1>8, <1>9, <1>10 DEF Avail
    <3>3. Len(fed'[s]) = Len(fed[s]) + 1
      BY <1>2, <2>2
    <3>4. Len(fed[s]) + 1 <= 1 + spent.crashes
      BY <1>2, <3>2, OnceMeans DEF Sound
    <3> QED BY <1>2, <1>3, <3>2, <3>3, <3>4, OnceNext
  <2> QED BY <1>4, <2>1, <2>2
<1>13. ASSUME Tracked(s)
       PROVE  /\ Prefix(b, story[s])
              /\ Follows(Rest', s, Left(story[s], n + 1))
              /\ k = "closed" => Started(s)
  <2>1. n \in 0..Len(story[s]) /\ Prefix(buffers[s], story[s])
    BY <1>2, <1>13 DEF Tracked, Prefix, n
  <2>2. Left(story[s], n) \in Seq(Kinds) /\ Follows(Rest, s, Left(story[s], n))
    BY <1>2, <1>13, <2>1, LeftStory DEF Tracked, n
  <2>3. /\ Left(story[s], n) # <<>> /\ Left(story[s], n)[1] = k
        /\ Follows(Rest', s, Tail(Left(story[s], n)))
    BY <1>1, <2>2, FollowsHead
  <2>4. n < Len(story[s]) /\ k = story[s][n + 1] /\ Tail(Left(story[s], n)) = Left(story[s], n + 1)
    BY <1>2, <2>1, <2>3, LeftTail
  <2>5. Prefix(b, story[s])
    BY <1>2, <2>1, <2>4, PrefixTakes DEF n, b
  <2>6. ASSUME k = "closed"
        PROVE  Started(s)
    <3>1. buffers[s] # <<>>
      <4> SUFFICES ASSUME n = 0
                   PROVE  FALSE
        BY DEF n
      <4>1. 1 \in 1..Len(story[s]) /\ k = story[s][1]
        BY <1>2, <2>4
      <4>2. k = "connect"
        BY <4>1 DEF Sound, Told, Begins
      <4> QED BY <2>6, <4>2
    <3> QED BY <1>13, <3>1, TrackedBuffer DEF Sound
  <2> QED BY <2>3, <2>4, <2>5, <2>6
<1>14. Gapless(s)'
  <2>1. CASE fed'[s] = fed[s]
    BY <1>3, <2>1 DEF Sound, Gapless
  <2>2. CASE k = "closed" /\ Has(b, "connect") /\ fed'[s] = Append(fed[s], b)
    <3> SUFFICES ASSUME s \notin missed, NEW i \in 1..Len(fed'[s])
                 PROVE  /\ Prefix(fed'[s][i], story[s])
                        /\ fed'[s][i][Len(fed'[s][i])] = "closed" \/ s \in split
      BY <1>3 DEF Gapless
    <3>1. Prefix(b, story[s]) /\ b[Len(b)] = "closed"
      <4>1. Avail(s)
        BY <2>2, <1>5 DEF Avail
      <4> QED BY <1>2, <1>13, <2>2, <4>1 DEF Sound
    <3>2. /\ Len(fed'[s]) = Len(fed[s]) + 1 /\ fed'[s][Len(fed[s]) + 1] = b
          /\ \A j \in 1..Len(fed[s]) : fed'[s][j] = fed[s][j]
      BY <1>2, <2>2, AppendProperties
    <3>3. CASE i = Len(fed[s]) + 1
      BY <3>1, <3>2, <3>3
    <3>4. CASE i \in 1..Len(fed[s])
      BY <3>2, <3>4 DEF Sound, Gapless
    <3> QED BY <1>2, <3>2, <3>3, <3>4
  <2> QED BY <1>4, <2>1, <2>2
<1>15. ASSUME s \notin missed', Avail(s)'
       PROVE  Tracked(s)'
  <2>1. Tracked(s)
    BY <1>3, <1>11, <1>15 DEF Sound
  <2>2. k # "closed"
    <3>1. ASSUME k = "closed"
          PROVE  FALSE
      BY <3>1, <1>3, <1>8, <1>9, <1>10, <1>13, <1>15, <2>1 DEF Avail
    <3> QED BY <3>1
  <2>3. buffers'[s] = b /\ Len(b) = n + 1
    BY <1>2, <1>4, <2>2
  <2> QED BY <1>3, <1>13, <2>1, <2>3 DEF Tracked
<1> QED BY <1>11, <1>12, <1>14, <1>15 DEF Sound

(* The bridge crashes and goes back to the saved offset. *)
LEMMA CrashSound ==
    ASSUME Fields, Offsets, Fields', Offsets', Crash, NEW x \in Sids, Sound(x)
    PROVE  Sound(x)'
<1> DEFINE m == Ceil(upto')
<1>1. /\ file' = file /\ m \in 0..Len(file) /\ Rest' = SubSeq(file, m + 1, Len(file))
      /\ story' = story /\ fed' = fed /\ missed' = missed /\ split' = split
      /\ buffers'[x] = <<>> /\ spent'.crashes = spent.crashes + 1
  <2>1. buffers'[x] = <<>> /\ spent'.crashes = spent.crashes + 1
    BY DEF Crash, Fields, Bounds
  <2>2. story' = story /\ fed' = fed /\ missed' = missed /\ split' = split
    BY DEF Crash, honeypot
  <2> QED BY <2>1, <2>2, CrashRewinds DEF Left
<1>2. /\ story[x] \in Seq(Kinds) /\ file \in Seq(Lines) /\ Len(file) \in Nat
      /\ Len(fed[x]) \in Nat /\ spent.crashes \in Nat
  BY SessionTypes, RestType DEF Sizes
<1> HIDE DEF m
<1>3. /\ Opens(Rest', x) =>
            \E p \in 1..Len(file) : m < p /\ file[p].sid = x /\ file[p].kind = "connect"
      /\ Free(file, x) => Free(Rest', x)
      /\ OpensOnce(file, x) => OpensOnce(Rest', x)
  <2>1. Len(file) \in Int /\ Len(file) <= Len(file)
    BY <1>2
  <2> QED BY <1>1, <1>2, <2>1, SectionOpens
<1>4. ~Started(x)'
  BY <1>1 DEF Started, Has
<1>5. OpensOnce(file, x)
  <2>1. CASE Opens(file, x)
    <3>1. Follows(file, x, story[x]) /\ Begins(story[x])
      BY <2>1 DEF Sound, Told
    <3>2. ASSUME NEW o \in 1..Len(file), file[o].sid = x, file[o].kind = "connect"
          PROVE  \A p \in 1..Len(file) : file[p].sid = x /\ file[p].kind = "connect" => p = o
      BY <1>2, <3>1, <3>2, FollowsOpening
    <3> QED BY <3>2 DEF OpensOnce
  <2>2. CASE ~Opens(file, x)
    BY <2>2 DEF Opens, OpensOnce
  <2> QED BY <2>1, <2>2
<1>6. Told(x)' /\ Single(x)'
  BY <1>1, <1>3, <1>4, <1>5 DEF Sound, Told, Single
<1>7. Once(x)'
  <2>1. Len(fed[x]) <= 1 + spent.crashes
    BY <1>2, OnceMeans DEF Sound
  <2>2. /\ Len(fed'[x]) \in Nat /\ spent'.crashes \in Nat
        /\ Len(fed'[x]) <= 1 + spent'.crashes /\ Len(fed'[x]) + 1 <= 1 + spent'.crashes
    BY <1>1, <1>2, <2>1
  <2> QED BY <2>2, OnceNext
<1>8. Gapless(x)'
  BY <1>1 DEF Sound, Gapless
<1>9. ASSUME Avail(x)'
      PROVE  Tracked(x)'
  <2>1. Left(story[x], 0) = story[x]
    BY <1>2, SubSeqFull DEF Left
  <2>2. Follows(Rest', x, story[x])
    <3>1. CASE story[x] = <<>>
      <4>1. Free(Rest', x) /\ Rest' \in Seq(Lines)
        BY <3>1, <1>1, <1>2, <1>3, Section DEF Sound, Told
      <4> QED BY <3>1, <4>1, FollowsNothing
    <3>2. CASE Opens(Rest', x)
      <4>1. PICK o \in 1..Len(file) : m < o /\ file[o].sid = x /\ file[o].kind = "connect"
        BY <3>2, <1>3
      <4>2. Follows(file, x, story[x]) /\ Begins(story[x])
        BY <4>1 DEF Sound, Told, Opens
      <4>3. Silent(file, x, o - 1, Len(file))
        BY <1>2, <4>1, <4>2, FollowsOpening
      <4>4. Silent(file, x, m, Len(file))
        BY <1>1, <4>1, <4>3 DEF Silent
      <4>5. Len(file) \in Int /\ Len(file) <= Len(file)
        BY <1>2
      <4> QED BY <1>1, <1>2, <4>2, <4>4, <4>5, FollowsSection
    <3> QED BY <1>1, <1>4, <1>9, <3>1, <3>2 DEF Avail
  <2>3. Prefix(<<>>, story[x]) /\ Len(<<>>) = 0
    BY <1>2 DEF Prefix
  <2> QED BY <1>1, <2>1, <2>2, <2>3 DEF Tracked
<1> QED BY <1>6, <1>7, <1>8, <1>9 DEF Sound

-----------------------------------------------------------------------------
(* The invariant and the theorems *)

(* Steps that leave the lines and the offset alone leave what is left. *)
LEMMA RestKept ==
    ASSUME file' = file, upto' = upto, bridge'.lines = bridge.lines
    PROVE  Rest' = Rest
BY DEF Rest

LEMMA StaleLines ==
    ASSUME Fields, Offsets, Stale
    PROVE  bridge'.lines = bridge.lines /\ file' = file /\ upto' = upto
<1>1. bridge.lines = <<>> /\ bridge \in Bridges
  BY DEF Stale, At, Offsets, Fields
<1>2. bridge' = Looping \/ \E s \in bridge.todo : bridge' = [bridge EXCEPT !.todo = @ \ {s}]
  BY DEF Stale
<1>3. ASSUME NEW T, bridge' = [bridge EXCEPT !.todo = T]
      PROVE  bridge'.lines = bridge.lines
  BY <1>1, <1>3, BridgeFields
<1>4. ASSUME bridge' = Looping
      PROVE  bridge'.lines = bridge.lines
  BY <1>1, <1>4, BridgeFields
<1>5. bridge'.lines = bridge.lines
  BY <1>2, <1>3, <1>4
<1> QED BY <1>5 DEF Stale, honeypot

LEMMA PrefixIsStart ==
    ASSUME NEW h \in Seq(Kinds), NEW b \in Seq(Kinds), Prefix(b, h)
    PROVE  b = SubSeq(h, 1, Len(b))
<1> DEFINE c == SubSeq(h, 1, Len(b))
<1>1. /\ Len(b) \in Nat /\ Len(b) \in Int /\ Len(h) \in Nat
      /\ \A i \in 1..Len(b) : i \in 1..Len(h) /\ h[i] \in Kinds
  BY DEF Prefix
<1>2. /\ c \in Seq(Kinds) /\ Len(c) = IF 1 <= Len(b) THEN Len(b) - 1 + 1 ELSE 0
      /\ \A i \in 1..(Len(b) - 1 + 1) : c[i] = h[1 + i - 1]
  BY <1>1, SubSeqProperties
<1> HIDE DEF c
<1>3. Len(c) = Len(b) /\ \A i \in 1..Len(b) : i \in 1..(Len(b) - 1 + 1) /\ 1 + i - 1 = i
  BY <1>1, <1>2
<1>4. \A i \in 1..Len(b) : b[i] = c[i]
  BY <1>2, <1>3 DEF Prefix
<1>5. b = c
  BY <1>2, <1>3, <1>4, SeqEqual
<1> QED BY <1>5 DEF c

LEMMA InitSound == Init => BridgeInv
<1> SUFFICES ASSUME Init
             PROVE  BridgeInv
  OBVIOUS
<1>1. Fields
  <2>1. /\ \A S : <<>> \in Seq(S)
    BY EmptySeq
  <2>2. bridge \in Bridges
    BY BridgeStates DEF Init
  <2>3. /\ story \in [Sids -> Seq(Kinds)] /\ buffers \in [Sids -> Seq(Kinds)]
        /\ fed \in [Sids -> Seq(Seq(Kinds))] /\ file \in Seq(Lines)
    BY <2>1 DEF Init
  <2> QED BY <2>2, <2>3 DEF Init, Fields, Bounds
<1>2. Offsets
  <2>1. Len(file) = 0 /\ half = FALSE /\ upto = 0 /\ saved = 0 /\ bridge = Down
    BY DEF Init
  <2>2. Size = 2 * 0 - 0
    BY ONLY <2>1 DEF Size
  <2>3. Size = 0
    BY <2>2
  <2> QED BY <2>1, <2>3, BridgeFields DEF Offsets, At
<1>3. ASSUME NEW s \in Sids
      PROVE  Sound(s)
  <2>1. /\ story[s] = <<>> /\ buffers[s] = <<>> /\ fed[s] = <<>> /\ file = <<>>
        /\ spent.crashes = 0
    BY DEF Init
  <2>2. Rest = <<>> /\ Rest \in Seq(Lines)
    <3>1. Rest = Left(file, Ceil(upto)) /\ Ceil(upto) \in 0..Len(file) /\ file \in Seq(Lines)
      BY <1>1, <1>2, BridgeFields, RestType DEF Init, At
    <3>2. Left(file, Ceil(upto)) = <<>>
      <4>1. Len(file) = 0 /\ Ceil(upto) = 0
        BY <2>1, <3>1
      <4> QED BY <4>1, SubSeqEmpty DEF Left
    <3> QED BY <3>1, <3>2, EmptySeq
  <2>3. ~Opens(<<>>, s) /\ Free(<<>>, s) /\ OpensOnce(<<>>, s) /\ ~Started(s)
    BY <2>1 DEF Opens, Free, OpensOnce, Started, Has
  <2>4. Told(s) /\ Single(s)
    BY <2>1, <2>2, <2>3 DEF Told, Begins, Single
  <2>5. Once(s) /\ Gapless(s)
    BY <2>1 DEF Once, Gapless
  <2>6. Tracked(s)
    <3>1. Left(<<>>, 0) = <<>> /\ Len(<<>>) = 0
      BY SubSeqEmpty DEF Left
    <3>2. Follows(Rest, s, <<>>)
      BY <2>2, <2>3, FollowsNothing
    <3> QED BY <2>1, <3>1, <3>2 DEF Tracked, Prefix
  <2> QED BY <2>4, <2>5, <2>6 DEF Sound
<1> QED BY <1>1, <1>2, <1>3 DEF BridgeInv

LEMMA QuietSteps ==
    ASSUME Fields, Offsets, Fields', Offsets',
           \/ Finish \/ Rotate \/ (\E s \in Sids : Idle(s)) \/ Poll \/ PollRaises
           \/ Truncate \/ Reset \/ Save \/ Read \/ Restart \/ UNCHANGED vars
           \/ (Stale /\ UNCHANGED <<memory, fed, split>>)
    PROVE  Quietly
<1>1. CASE Finish
  BY <1>1, RestKept DEF Finish, Quietly, memory, history
<1>2. CASE Rotate
  <2>1. spent'.crashes = spent.crashes
    BY <1>2 DEF Rotate, Fields, Bounds
  <2> QED BY <1>2, <2>1, RotateNarrows DEF Rotate, Quietly, memory
<1>3. ASSUME NEW s \in Sids, Idle(s)
      PROVE  Quietly
  BY <1>3, RestKept DEF Idle, Quietly, honeypot, history
<1>4. CASE Poll
  <2>1. missed \subseteq missed'
    BY <1>4 DEF Poll
  <2>2. UNCHANGED <<story, buffers, fed, split, spent, file>>
    BY <1>4 DEF Poll, honeypot, memory
  <2> QED BY <1>4, <2>1, <2>2, PollNarrows DEF Quietly
<1>5. CASE Read
  <2>1. missed \subseteq missed'
    BY <1>5 DEF Read
  <2>2. UNCHANGED <<story, buffers, fed, split, spent, file>>
    BY <1>5 DEF Read, honeypot, memory
  <2> QED BY <1>5, <2>1, <2>2, ReadNarrows DEF Quietly
<1>6. ASSUME UNCHANGED <<honeypot, buffers, fed, upto, missed, split, spent>>,
             bridge'.lines = bridge.lines
      PROVE  Quietly
  BY <1>6, RestKept DEF Quietly, honeypot
<1>7. CASE PollRaises
  <2>1. bridge'.lines = <<>> /\ bridge.lines = <<>>
    BY <1>7, BridgeFields DEF PollRaises, Offsets, At
  <2> QED BY <1>6, <1>7, <2>1 DEF PollRaises, memory, history
<1>8. CASE Truncate
  <2>1. bridge \in Bridges
    BY DEF Fields
  <2>2. bridge' = bridge \/ bridge' = [bridge EXCEPT !.pc = "write"]
    BY <1>8 DEF Truncate
  <2>3. ASSUME bridge' = [bridge EXCEPT !.pc = "write"]
        PROVE  bridge'.lines = bridge.lines
    BY <2>1, <2>3, BridgeFields
  <2>4. bridge'.lines = bridge.lines
    BY <2>2, <2>3
  <2> QED BY <1>6, <1>8, <2>4 DEF Truncate, memory, history
<1>9. CASE Reset
  <2>1. bridge'.lines = <<>> /\ bridge.lines = <<>>
    BY <1>9, BridgeFields DEF Reset, ReadOrExpire, Offsets, At
  <2> QED BY <1>6, <1>9, <2>1 DEF Reset, memory, history
<1>10. CASE Save
  <2>1. bridge'.lines = <<>> /\ bridge.lines = <<>>
    BY <1>10, BridgeFields DEF Save, Offsets, At
  <2> QED BY <1>6, <1>10, <2>1 DEF Save, memory, history
<1>11. CASE Restart
  <2>1. bridge'.lines = <<>> /\ bridge.lines = <<>>
    BY <1>11, BridgeFields DEF Restart, Offsets, At
  <2> QED BY <1>6, <1>11, <2>1 DEF Restart, memory, history
<1>12. CASE UNCHANGED vars
  BY <1>6, <1>12 DEF vars, memory, history
<1>13. CASE Stale /\ UNCHANGED <<memory, fed, split>>
  <2>1. bridge'.lines = bridge.lines
    BY <1>13, StaleLines
  <2> QED BY <1>6, <1>13, <2>1 DEF Stale, memory
<1> QED BY <1>1, <1>2, <1>3, <1>4, <1>5, <1>7, <1>8, <1>9, <1>10, <1>11, <1>12, <1>13

LEMMA NextSound == BridgeInv /\ [Next]_vars => BridgeInv'
<1> SUFFICES ASSUME BridgeInv, [Next]_vars
             PROVE  BridgeInv'
  OBVIOUS
<1>1. Fields /\ Offsets /\ \A s \in Sids : Sound(s)
  BY DEF BridgeInv
<1>2. Fields' /\ Offsets'
  BY <1>1, TypeStep, OffsetsStep DEF Offsets
<1>3. ASSUME NEW x \in Sids
      PROVE  Sound(x)'
  <2>1. ASSUME NEW s \in Sids, NEW k \in Kinds, Log(s, k)
        PROVE  Sound(x)'
    <3>1. CASE x = s
      BY <1>1, <2>1, <3>1, LogSoundOwn
    <3>2. CASE x # s
      <4>1. x \in Sids \ {s}
        BY <3>2
      <4> QED BY <1>1, <2>1, <4>1, LogSoundOther
    <3> QED BY <3>1, <3>2
  <2>2. CASE Quietly
    BY <1>1, <2>2, QuietlySound
  <2>3. CASE Stale
    <3>1. CASE UNCHANGED <<memory, fed, split>>
      BY <1>1, <1>2, <2>2, <2>3, <3>1, QuietSteps
    <3>2. ASSUME NEW s \in bridge.todo, Process(s, buffers[s]),
                 buffers' = [buffers EXCEPT ![s] = <<>>], split' = split \cup {s}
          PROVE  Sound(x)'
      <4>1. s \in Sids
        BY <1>1 DEF Fields, Bridges
      <4>2. Rest' = Rest /\ UNCHANGED <<story, file, missed, spent>>
        BY <1>1, <2>3, StaleLines, RestKept DEF Stale, honeypot
      <4> QED BY <1>1, <3>2, <4>1, <4>2, StaleSound
    <3> QED BY <2>3, <3>1, <3>2 DEF Stale
  <2>4. CASE Feed
    BY <1>1, <2>4, FeedSoundOther, FeedSoundOwn
  <2>5. CASE Crash
    BY <1>1, <1>2, <2>5, CrashSound
  <2>6. CASE \/ Finish \/ Rotate \/ (\E s \in Sids : Idle(s)) \/ Poll \/ PollRaises
             \/ Truncate \/ Reset \/ Save \/ Read \/ Restart \/ UNCHANGED vars
    BY <1>1, <1>2, <2>2, <2>6, QuietSteps
  <2> QED BY <2>1, <2>3, <2>4, <2>5, <2>6 DEF Next, Step
<1> QED BY <1>2, <1>3 DEF BridgeInv

LEMMA BridgeHolds == Spec => []BridgeInv
BY InitSound, NextSound, PTL DEF Spec

(* The bridge and the log keep their types, and the two dicts of            *)
(* poll_cowrie their common keys, however often it crashes.                *)
THEOREM TypeCorrect == Spec => []TypeOK
<1>1. BridgeInv => TypeOK
  BY TypesAreFields DEF BridgeInv
<1> QED BY <1>1, BridgeHolds, PTL

(* A session is sent to the classifier at most once in a life of the       *)
(* bridge, for any number of sessions, rotations and crashes (poll_cowrie, *)
(* 193-247).                                                               *)
THEOREM SentOncePerLife == Spec => []FedOncePerLife
<1>1. BridgeInv => FedOncePerLife
  <2> SUFFICES ASSUME BridgeInv, NEW s \in Sids
               PROVE  Len(fed[s]) <= 1 + spent.crashes
    BY DEF FedOncePerLife
  <2>1. Fields /\ Offsets /\ Once(s)
    BY DEF BridgeInv, Sound
  <2> QED BY <2>1, SessionTypes, OnceMeans
<1> QED BY <1>1, BridgeHolds, PTL

(* What is sent of a session is its story from the beginning, to its end   *)
(* unless it was taken for stale, if no line of it was lost to a rotation  *)
(* or read by halves (poll_cowrie, 204-240).                               *)
THEOREM SentWithoutGaps == Spec => []NoGaps
<1>1. BridgeInv => NoGaps
  <2> SUFFICES ASSUME BridgeInv, NEW s \in Sids \ missed, NEW i \in DOMAIN fed[s]
               PROVE  /\ Len(fed[s][i]) <= Len(story[s])
                      /\ fed[s][i] = SubSeq(story[s], 1, Len(fed[s][i]))
                      /\ fed[s][i][Len(fed[s][i])] = "closed" \/ s \in split
    BY DEF NoGaps
  <2>1. Fields /\ Offsets /\ Gapless(s)
    BY DEF BridgeInv, Sound
  <2>2. /\ story[s] \in Seq(Kinds) /\ fed[s] \in Seq(Seq(Kinds)) /\ i \in 1..Len(fed[s])
        /\ fed[s][i] \in Seq(Kinds)
    BY <2>1, SessionTypes
  <2>3. /\ Prefix(fed[s][i], story[s])
        /\ fed[s][i][Len(fed[s][i])] = "closed" \/ s \in split
    BY <2>1, <2>2 DEF Gapless
  <2> QED BY <2>2, <2>3, PrefixIsStart DEF Prefix
<1> QED BY <1>1, BridgeHolds, PTL
=============================================================================
