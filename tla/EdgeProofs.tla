----------------------------- MODULE EdgeProofs -----------------------------
(***************************************************************************)
(* The inductive invariants of Edges, as those of ComponentProofs are      *)
(* stated: the buffered events of a SIEM      *)
(* connector (Delivery), the streams of the gateway (Streaming), and the   *)
(* cache and the audit log of the servers (Serving).                       *)
(***************************************************************************)
EXTENDS Edges, FiniteSetTheorems, SequenceTheorems, TLAPS

-----------------------------------------------------------------------------
(* A connector and its senders: of what kind everything is.                 *)
SenderStates == {"out", "flush", "post", "counted"}
Bodies       == Seq(Siem!Events)
Sending      == [pc : SenderStates, body : Bodies, attempt : Nat]

SiemTyped ==
    /\ events \in 0 .. MaxEvents /\ sent \in Nat /\ errors \in Nat
    /\ buffer \in Bodies /\ Siem!In(buffer) \subseteq 1 .. events
    /\ DOMAIN sender = Threads /\ \A t \in Threads : sender[t] \in Sending
    /\ received \in [Siem!Events -> Nat] /\ flushes \in [Siem!Events -> Nat]
    /\ \A e \in Siem!Events : e > events => flushes[e] = 0
    /\ \A t \in Threads : sender[t].pc = "post" => sender[t].attempt < MaxPosted
    /\ \A t \in Threads : sender[t].pc # "post" => sender[t].body = <<>>

(* The threads in a flush, and the attempts that are left to post an event. *)
Busy(s) == {t \in Threads : s[t].pc \in {"post", "counted"}}
Left(s, e) == {x \in Threads \X (1 .. MaxPosted) :
                  s[x[1]].pc = "post" /\ e \in Siem!In(s[x[1]].body) /\ x[2] > s[x[1]].attempt}

(* Nothing was appended to the buffer of a flush, and nothing flushed twice.*)
Calm == late = {} /\ \A e \in Siem!Events : flushes[e] <= 1

(* What is in the buffer of a flush is in its body, or came late; so that a *)
(* flush that ends leaves nothing behind but that.  Each thread has a flush *)
(* of an event at most as long as the event is in the buffer, and at most   *)
(* MaxPosted attempts of it.  And when nothing came late and nothing was    *)
(* flushed twice, one thread flushes at a time, and counts what it clears.  *)
SiemInv ==
    /\ SiemTyped
    /\ \A t \in Threads : sender[t].pc = "post" =>
          \A e \in Siem!In(buffer) : e \in Siem!In(sender[t].body) \/ e \in late
    /\ \A t \in Threads : sender[t].pc = "counted" =>
          \A e \in Siem!In(buffer) : received[e] > 0 \/ e \in refused \/ e \in late
    /\ Siem!OnlyLateVanish
    /\ Siem!Flushing => \A e \in Siem!In(buffer) : flushes[e] > 0 \/ e \in late
    /\ \A e \in Siem!Events :
          /\ received[e] + Cardinality(Left(sender, e)) <= MaxPosted * flushes[e]
          /\ flushes[e] <= Cardinality(Threads)
          /\ e \in Siem!In(buffer) => flushes[e] <= Cardinality(Busy(sender))
    /\ Calm =>
          /\ \A t, u \in Busy(sender) : t = u
          /\ sent + errors + (IF \E t \in Threads : sender[t].pc = "counted" THEN 0 ELSE Len(buffer)) = events

(* The constants of a connector, and what a sender starts from.             *)
LEMMA SiemConstants ==
    /\ MaxPosted \in Nat \ {0} /\ BatchSize \in Nat \ {0} /\ MaxEvents \in Nat
    /\ IsFiniteSet(Threads) /\ Cardinality(Threads) \in Nat
    /\ Siem!Events = 1 .. MaxEvents
    /\ Siem!Out \in Sending /\ Siem!Out.pc = "out" /\ Siem!Out.body = <<>> /\ Siem!Out.attempt = 0
    /\ Siem!In(<<>>) = {} /\ <<>> \in Bodies /\ Len(<<>>) = 0
<1>1. /\ MaxPosted \in Nat \ {0} /\ BatchSize \in Nat \ {0} /\ MaxEvents \in Nat /\ Siem!IsFiniteSet(Threads)
  BY EdgeAssumptions DEF Siem!DeliveryAssumption
<1>2. IsFiniteSet(Threads)
  BY <1>1 DEF Siem!IsFiniteSet, IsFiniteSet
<1>3. Cardinality(Threads) \in Nat
  BY <1>2, FS_CardinalityType
<1>4. <<>> \in Bodies /\ Len(<<>>) = 0
  BY EmptySeq DEF Bodies
<1>5. Siem!In(<<>>) = {}
  BY DEF Siem!In
<1>6. Siem!Out.pc = "out" /\ Siem!Out.body = <<>> /\ Siem!Out.attempt = 0
  BY DEF Siem!Out
<1>7. Siem!Out \in Sending
  BY <1>4 DEF Siem!Out, Sending, SenderStates
<1>8. Siem!Events = 1 .. MaxEvents
  BY DEF Siem!Events
<1> QED BY <1>1, <1>2, <1>3, <1>4, <1>5, <1>6, <1>7, <1>8

(* The sets of threads and attempts are finite.                             *)
LEMMA LeftFinite ==
    ASSUME NEW s, NEW e
    PROVE  /\ IsFiniteSet(Left(s, e)) /\ Cardinality(Left(s, e)) \in Nat
           /\ IsFiniteSet(Busy(s)) /\ Cardinality(Busy(s)) \in Nat /\ Cardinality(Busy(s)) <= Cardinality(Threads)
<1>1. MaxPosted \in Nat /\ IsFiniteSet(Threads)
  BY SiemConstants
<1>2. IsFiniteSet(1 .. MaxPosted)
  BY <1>1, FS_Interval
<1>3. IsFiniteSet(Threads \X (1 .. MaxPosted))
  BY <1>1, <1>2, FS_Product
<1>4. Left(s, e) \subseteq Threads \X (1 .. MaxPosted)
  BY DEF Left
<1>5. Busy(s) \subseteq Threads
  BY DEF Busy
<1>6. IsFiniteSet(Left(s, e))
  BY <1>3, <1>4, FS_Subset
<1>7. IsFiniteSet(Busy(s)) /\ Cardinality(Busy(s)) <= Cardinality(Threads)
  BY <1>1, <1>5, FS_Subset
<1> QED BY <1>6, <1>7, FS_CardinalityType

(* The connector, at the start.                                             *)
LEMMA SiemStarts == Siem!Init => SiemInv
<1> SUFFICES ASSUME Siem!Init PROVE SiemInv
  OBVIOUS
<1>1. /\ buffer = <<>> /\ sent = 0 /\ errors = 0 /\ events = 0 /\ late = {} /\ refused = {}
      /\ received = [e \in Siem!Events |-> 0] /\ flushes = [e \in Siem!Events |-> 0]
      /\ DOMAIN sender = Threads /\ \A t \in Threads : sender[t] = Siem!Out
  BY DEF Siem!Init
<1>2. SiemTyped
  BY <1>1, SiemConstants DEF SiemTyped
<1>3. Left(sender, 0) = {} /\ \A e : Left(sender, e) = {}
  BY <1>1, SiemConstants DEF Left
<1>4. Busy(sender) = {}
  BY <1>1, SiemConstants DEF Busy
<1>5. Cardinality({}) = 0
  BY FS_EmptySet
<1>6. \A e \in Siem!Events :
          /\ received[e] + Cardinality(Left(sender, e)) <= MaxPosted * flushes[e]
          /\ flushes[e] <= Cardinality(Threads)
          /\ e \in Siem!In(buffer) => flushes[e] <= Cardinality(Busy(sender))
  <2> SUFFICES ASSUME NEW e \in Siem!Events
               PROVE  /\ received[e] + Cardinality(Left(sender, e)) <= MaxPosted * flushes[e]
                      /\ flushes[e] <= Cardinality(Threads)
                      /\ e \in Siem!In(buffer) => flushes[e] <= Cardinality(Busy(sender))
    OBVIOUS
  <2>1. MaxPosted * 0 = 0
    BY SiemConstants
  <2>2. received[e] = 0 /\ flushes[e] = 0
    BY <1>1
  <2>3. Cardinality(Left(sender, e)) = 0
    BY <1>3, <1>5
  <2>4. e \notin Siem!In(buffer)
    BY <1>1, SiemConstants
  <2>5. 0 + 0 <= MaxPosted * 0 /\ 0 <= Cardinality(Threads)
    BY <2>1, SiemConstants
  <2> QED BY <2>2, <2>3, <2>4, <2>5
<1>7. Siem!OnlyLateVanish
  BY <1>1 DEF Siem!OnlyLateVanish
<1>8. sent + errors + (IF \E t \in Threads : sender[t].pc = "counted" THEN 0 ELSE Len(buffer)) = events
  BY <1>1, SiemConstants
<1> QED BY <1>1, <1>2, <1>4, <1>6, <1>7, <1>8, SiemConstants DEF SiemInv, Siem!Flushing

(* The events of a buffer with one more.                                    *)
LEMMA InAppend ==
    ASSUME NEW s \in Bodies, NEW e \in Siem!Events
    PROVE  /\ Append(s, e) \in Bodies /\ Len(Append(s, e)) = Len(s) + 1 /\ Len(s) \in Nat
           /\ Siem!In(Append(s, e)) = Siem!In(s) \cup {e}
<1>1. /\ Append(s, e) \in Bodies /\ Len(Append(s, e)) = Len(s) + 1 /\ Len(s) \in Nat
      /\ \A i \in 1 .. Len(s) : Append(s, e)[i] = s[i]
      /\ Append(s, e)[Len(s) + 1] = e
      /\ DOMAIN s = 1 .. Len(s) /\ DOMAIN Append(s, e) = 1 .. Len(s) + 1
  BY AppendProperties, LenProperties DEF Bodies
<1> DEFINE a == Append(s, e)  n == Len(s)
<1> HIDE DEF a, n
<1>2. \A x : x \in Siem!In(a) <=> \E i \in 1 .. n + 1 : x = a[i]
  BY <1>1 DEF Siem!In, a, n
<1>3. \A x : x \in Siem!In(s) <=> \E i \in 1 .. n : x = s[i]
  BY <1>1 DEF Siem!In, n
<1>4. /\ \A i \in 1 .. n : a[i] = s[i]
      /\ a[n + 1] = e /\ n \in Nat
  BY <1>1 DEF a, n
<1>5. \A x : x \in Siem!In(a) <=> x \in Siem!In(s) \/ x = e
  <2>1. ASSUME NEW x, x \in Siem!In(a) PROVE x \in Siem!In(s) \/ x = e
    <3>1. PICK i \in 1 .. n + 1 : x = a[i]
      BY <1>2, <2>1
    <3>2. i \in 1 .. n \/ i = n + 1
      BY <1>4
    <3> QED BY <1>3, <1>4, <3>1, <3>2
  <2>2. ASSUME NEW x, x \in Siem!In(s) PROVE x \in Siem!In(a)
    <3>1. PICK i \in 1 .. n : x = s[i]
      BY <1>3, <2>2
    <3>2. i \in 1 .. n + 1 /\ x = a[i]
      BY <1>4, <3>1
    <3> QED BY <1>2, <3>2
  <2>3. e \in Siem!In(a)
    <3>1. n + 1 \in 1 .. n + 1
      BY <1>4
    <3> QED BY <1>2, <1>4, <3>1
  <2> QED BY <2>1, <2>2, <2>3
<1>6. Siem!In(a) = Siem!In(s) \cup {e}
  BY <1>5
<1> QED BY <1>1, <1>6 DEF a

(* What a sender is set to.                                                 *)
LEMMA SenderSet ==
    ASSUME SiemTyped, NEW t \in Threads, NEW s, Siem!Set(t, s)
    PROVE  /\ DOMAIN sender' = Threads /\ sender'[t] = s
           /\ \A u \in Threads \ {t} : sender'[u] = sender[u]
<1>1. DOMAIN sender = Threads
  BY DEF SiemTyped
<1>2. sender' = [sender EXCEPT ![t] = s]
  BY DEF Siem!Set
<1> QED BY <1>1, <1>2

(* A step of a sender that stays idle, or leaves a flush or a post.         *)
LEMMA Pausing ==
    ASSUME NEW p \in SenderStates
    PROVE  /\ [Siem!Out EXCEPT !.pc = p] \in Sending /\ [Siem!Out EXCEPT !.pc = p].pc = p
           /\ [Siem!Out EXCEPT !.pc = p].body = <<>>
<1> QED BY SiemConstants DEF Sending

(* An event is appended.                                                    *)
LEMMA Sends ==
    ASSUME SiemInv, NEW t \in Threads, Siem!Send(t)
    PROVE  SiemInv'
<1>1. /\ sender[t].pc = "out" /\ events < MaxEvents /\ events' = events + 1
      /\ buffer' = Append(buffer, events')
      /\ late' = (IF Siem!Flushing THEN late \cup {events'} ELSE late)
      /\ sender' = sender \/ Siem!Set(t, [Siem!Out EXCEPT !.pc = "flush"])
      /\ UNCHANGED <<sent, errors, received, refused, flushes>>
  BY DEF Siem!Send, Siem!At
<1>2. /\ events \in 0 .. MaxEvents /\ buffer \in Bodies /\ Siem!In(buffer) \subseteq 1 .. events
      /\ sent \in Nat /\ errors \in Nat
      /\ DOMAIN sender = Threads /\ \A u \in Threads : sender[u] \in Sending
      /\ received \in [Siem!Events -> Nat] /\ flushes \in [Siem!Events -> Nat]
      /\ \A e \in Siem!Events : e > events => flushes[e] = 0
      /\ sender[t].body = <<>>
  BY <1>1 DEF SiemInv, SiemTyped
<1>3. /\ events' \in Siem!Events /\ events' \in 0 .. MaxEvents /\ events' > events
  BY <1>1, <1>2, SiemConstants
<1>4. /\ buffer' \in Bodies /\ Len(buffer') = Len(buffer) + 1 /\ Len(buffer) \in Nat
      /\ Siem!In(buffer') = Siem!In(buffer) \cup {events'}
  BY <1>1, <1>2, <1>3, InAppend
<1>5. /\ DOMAIN sender' = Threads /\ sender'[t] \in Sending /\ sender'[t].body = <<>>
      /\ sender'[t].pc \in {"out", "flush"}
      /\ \A u \in Threads \ {t} : sender'[u] = sender[u]
  <2>1. CASE sender' = sender
    BY <1>1, <1>2, <2>1
  <2>2. CASE Siem!Set(t, [Siem!Out EXCEPT !.pc = "flush"])
    <3>1. "flush" \in SenderStates
      BY DEF SenderStates
    <3>2. SiemTyped
      BY DEF SiemInv
    <3> DEFINE o == [Siem!Out EXCEPT !.pc = "flush"]
    <3>3. o \in Sending /\ o.pc = "flush" /\ o.body = <<>>
      BY <3>1, Pausing
    <3>4. Siem!Set(t, o)
      BY <2>2
    <3> HIDE DEF o
    <3>5. /\ DOMAIN sender' = Threads /\ sender'[t] = o
          /\ \A u \in Threads \ {t} : sender'[u] = sender[u]
      BY <3>2, <3>4, SenderSet
    <3> QED BY <3>3, <3>5
  <2> QED BY <1>1, <2>1, <2>2
<1>6. \A u \in Threads : sender'[u].pc \in {"post", "counted"} \/ sender[u].pc \in {"post", "counted"} =>
          u # t /\ sender'[u] = sender[u]
  BY <1>1, <1>5
<1>7. Busy(sender') = Busy(sender) /\ (Siem!Flushing)' = Siem!Flushing
  BY <1>6 DEF Busy, Siem!Flushing
<1>8. \A e \in Siem!Events : Left(sender', e) = Left(sender, e)
  BY <1>6 DEF Left
<1>9. Siem!In(buffer') \subseteq 1 .. events'
  <2>1. 1 .. events \subseteq 1 .. events' /\ events' \in 1 .. events'
    BY <1>1, <1>2
  <2> QED BY <1>2, <1>4, <2>1
<1>10. SiemTyped'
  <2>1. \A e \in Siem!Events : e > events' => flushes'[e] = 0
    BY <1>1, <1>2, <1>3, SiemConstants
  <2>2. \A u \in Threads : /\ sender'[u] \in Sending
                           /\ sender'[u].pc = "post" => sender'[u].attempt < MaxPosted
                           /\ sender'[u].pc # "post" => sender'[u].body = <<>>
    BY <1>5, <1>6 DEF SiemInv, SiemTyped
  <2> QED BY <1>1, <1>2, <1>3, <1>4, <1>5, <1>9, <2>1, <2>2, SiemConstants DEF SiemTyped
<1>11. Siem!Flushing => events' \in late'
  BY <1>1
<1>12. late \subseteq late'
  BY <1>1
<1>13. \A u \in Threads : sender'[u].pc = "post" =>
          \A e \in Siem!In(buffer') : e \in Siem!In(sender'[u].body) \/ e \in late'
  <2> SUFFICES ASSUME NEW u \in Threads, sender'[u].pc = "post", NEW e \in Siem!In(buffer')
               PROVE  e \in Siem!In(sender'[u].body) \/ e \in late'
    OBVIOUS
  <2>1. sender'[u] = sender[u] /\ Siem!Flushing
    BY <1>6, <1>7 DEF Siem!Flushing
  <2> QED BY <1>4, <1>11, <1>12, <2>1 DEF SiemInv
<1>14. \A u \in Threads : sender'[u].pc = "counted" =>
          \A e \in Siem!In(buffer') : received'[e] > 0 \/ e \in refused' \/ e \in late'
  <2> SUFFICES ASSUME NEW u \in Threads, sender'[u].pc = "counted", NEW e \in Siem!In(buffer')
               PROVE  received'[e] > 0 \/ e \in refused' \/ e \in late'
    OBVIOUS
  <2>1. sender'[u] = sender[u] /\ Siem!Flushing
    BY <1>6, <1>7 DEF Siem!Flushing
  <2> QED BY <1>1, <1>4, <1>11, <1>12, <2>1 DEF SiemInv
<1>15. (Siem!OnlyLateVanish)'
  <2> SUFFICES ASSUME NEW e \in 1 .. events'
               PROVE  e \in Siem!In(buffer') \/ received'[e] > 0 \/ e \in refused' \/ e \in late'
                      \/ \E u \in Threads : e \in Siem!In(sender'[u].body)
    BY DEF Siem!OnlyLateVanish
  <2>1. e = events' \/ e \in 1 .. events
    BY <1>1, <1>2
  <2>2. CASE e = events'
    BY <1>4, <2>2
  <2>3. CASE e \in 1 .. events
    <3>1. e \in Siem!In(buffer) \/ received[e] > 0 \/ e \in refused \/ e \in late
          \/ \E u \in Threads : e \in Siem!In(sender[u].body)
      BY <2>3 DEF SiemInv, Siem!OnlyLateVanish
    <3>2. CASE \E u \in Threads : e \in Siem!In(sender[u].body)
      BY <1>2, <1>5, <3>2, SiemConstants
    <3> QED BY <1>1, <1>4, <1>12, <3>1, <3>2
  <2> QED BY <2>1, <2>2, <2>3
<1>16. (Siem!Flushing)' => \A e \in Siem!In(buffer') : flushes'[e] > 0 \/ e \in late'
  BY <1>1, <1>4, <1>7, <1>11, <1>12 DEF SiemInv
<1>17. \A e \in Siem!Events :
          /\ received'[e] + Cardinality(Left(sender', e)) <= MaxPosted * flushes'[e]
          /\ flushes'[e] <= Cardinality(Threads)
          /\ e \in Siem!In(buffer') => flushes'[e] <= Cardinality(Busy(sender'))
  <2> SUFFICES ASSUME NEW e \in Siem!Events
               PROVE  /\ received'[e] + Cardinality(Left(sender', e)) <= MaxPosted * flushes'[e]
                      /\ flushes'[e] <= Cardinality(Threads)
                      /\ e \in Siem!In(buffer') => flushes'[e] <= Cardinality(Busy(sender'))
    OBVIOUS
  <2>1. /\ received[e] + Cardinality(Left(sender, e)) <= MaxPosted * flushes[e]
        /\ flushes[e] <= Cardinality(Threads)
        /\ e \in Siem!In(buffer) => flushes[e] <= Cardinality(Busy(sender))
    BY DEF SiemInv
  <2>2. CASE e \in Siem!In(buffer)
    BY <1>1, <1>7, <1>8, <2>1, <2>2
  <2>3. CASE e = events'
    <3>1. flushes[e] = 0
      BY <1>2, <1>3, <2>3
    <3>2. Cardinality(Busy(sender)) \in Nat
      BY LeftFinite
    <3> QED BY <1>1, <1>7, <1>8, <2>1, <3>1, <3>2
  <2>4. CASE e \notin Siem!In(buffer) /\ e # events'
    BY <1>1, <1>4, <1>8, <2>1, <2>4
  <2> QED BY <2>2, <2>3, <2>4
<1>18. Calm' =>
          /\ \A u, v \in Busy(sender') : u = v
          /\ sent' + errors' + (IF \E u \in Threads : sender'[u].pc = "counted" THEN 0 ELSE Len(buffer')) = events'
  <2> SUFFICES ASSUME Calm'
               PROVE  /\ \A u, v \in Busy(sender') : u = v
                      /\ sent' + errors' + (IF \E u \in Threads : sender'[u].pc = "counted" THEN 0 ELSE Len(buffer')) = events'
    OBVIOUS
  <2>1. ~Siem!Flushing
    BY <1>1 DEF Calm
  <2>2. Calm
    BY <1>1, <2>1 DEF Calm
  <2>3. /\ \A u, v \in Busy(sender) : u = v
        /\ sent + errors + (IF \E u \in Threads : sender[u].pc = "counted" THEN 0 ELSE Len(buffer)) = events
    BY <2>2 DEF SiemInv
  <2>4. ~\E u \in Threads : sender[u].pc = "counted"
    BY <2>1 DEF Siem!Flushing
  <2>5. ~\E u \in Threads : sender'[u].pc = "counted"
    BY <1>7, <2>1 DEF Siem!Flushing
  <2>6. sent + errors + Len(buffer) = events
    BY <2>3, <2>4
  <2>7. sent' + errors' + Len(buffer') = events'
    BY <1>1, <1>2, <1>4, <2>6
  <2> QED BY <1>7, <2>3, <2>5, <2>7
<1> QED BY <1>10, <1>13, <1>14, <1>15, <1>16, <1>17, <1>18 DEF SiemInv

(* A sender that is in no flush does nothing but change its place.          *)
LEMMA Idles ==
    ASSUME SiemInv, NEW t \in Threads,
           sender[t].pc \in {"out", "flush"}, sender[t].body = <<>>,
           DOMAIN sender' = Threads, \A u \in Threads \ {t} : sender'[u] = sender[u],
           sender'[t] \in Sending, sender'[t].pc \in {"out", "flush"}, sender'[t].body = <<>>,
           UNCHANGED <<buffer, sent, errors, received, events, late, refused, flushes>>
    PROVE  SiemInv'
<1>1. \A u \in Threads : sender'[u].pc \in {"post", "counted"} \/ sender[u].pc \in {"post", "counted"} =>
          u # t /\ sender'[u] = sender[u]
  OBVIOUS
<1>2. Busy(sender') = Busy(sender) /\ (Siem!Flushing)' = Siem!Flushing
  BY <1>1 DEF Busy, Siem!Flushing
<1>3. \A e \in Siem!Events : Left(sender', e) = Left(sender, e)
  BY <1>1 DEF Left
<1>4. SiemTyped'
  BY <1>1 DEF SiemInv, SiemTyped
<1>5. (Siem!OnlyLateVanish)'
  <2>1. \A u \in Threads : sender'[u].body = sender[u].body
    OBVIOUS
  <2> QED BY <2>1 DEF SiemInv, Siem!OnlyLateVanish
<1>6. \A u \in Threads : sender'[u].pc = "post" =>
          \A e \in Siem!In(buffer') : e \in Siem!In(sender'[u].body) \/ e \in late'
  BY <1>1 DEF SiemInv
<1>7. \A u \in Threads : sender'[u].pc = "counted" =>
          \A e \in Siem!In(buffer') : received'[e] > 0 \/ e \in refused' \/ e \in late'
  BY <1>1 DEF SiemInv
<1>8. \A e \in Siem!Events :
          /\ received'[e] + Cardinality(Left(sender', e)) <= MaxPosted * flushes'[e]
          /\ flushes'[e] <= Cardinality(Threads)
          /\ e \in Siem!In(buffer') => flushes'[e] <= Cardinality(Busy(sender'))
  BY <1>2, <1>3 DEF SiemInv
<1>9. (\E u \in Threads : sender'[u].pc = "counted") <=> (\E u \in Threads : sender[u].pc = "counted")
  BY <1>1
<1>10. Calm' => Calm
  BY DEF Calm
<1>11. (Siem!Flushing)' => \A e \in Siem!In(buffer') : flushes'[e] > 0 \/ e \in late'
  BY <1>2 DEF SiemInv
<1>12. Calm' =>
          /\ \A u, v \in Busy(sender') : u = v
          /\ sent' + errors' + (IF \E u \in Threads : sender'[u].pc = "counted" THEN 0 ELSE Len(buffer')) = events'
  BY <1>2, <1>9, <1>10 DEF SiemInv
<1> QED BY <1>4, <1>5, <1>6, <1>7, <1>8, <1>11, <1>12 DEF SiemInv

(* A flush begins: of an empty buffer none.                                 *)
LEMMA Unflushed ==
    ASSUME SiemInv, NEW t \in Threads, Siem!Flush(t), buffer = <<>>
    PROVE  SiemInv'
<1>1. /\ sender[t].pc = "flush" /\ Siem!Set(t, Siem!Out)
      /\ UNCHANGED <<buffer, sent, errors, received, events, late, refused, flushes>>
  BY DEF Siem!Flush, Siem!At
<1>2. SiemTyped
  BY DEF SiemInv
<1>3. /\ DOMAIN sender' = Threads /\ sender'[t] = Siem!Out
      /\ \A u \in Threads \ {t} : sender'[u] = sender[u]
  BY <1>1, <1>2, SenderSet
<1>4. /\ sender'[t] \in Sending /\ sender'[t].pc = "out" /\ sender'[t].body = <<>>
      /\ sender[t].body = <<>>
  BY <1>1, <1>2, <1>3, SiemConstants DEF SiemTyped
<1> QED BY <1>1, <1>3, <1>4, Idles

(* A flush begins: its body is what the buffer holds.                       *)
LEMMA Flushes ==
    ASSUME SiemInv, NEW t \in Threads, Siem!Flush(t), buffer # <<>>
    PROVE  SiemInv'
<1> DEFINE o == [pc |-> "post", body |-> buffer, attempt |-> 0]
<1>1. /\ sender[t].pc = "flush" /\ Siem!Set(t, o)
      /\ flushes' = [e \in Siem!Events |-> flushes[e] + IF e \in Siem!In(buffer) THEN 1 ELSE 0]
      /\ UNCHANGED <<buffer, sent, errors, received, events, late, refused>>
  BY DEF Siem!Flush, Siem!At
<1>2. /\ events \in 0 .. MaxEvents /\ buffer \in Bodies /\ Siem!In(buffer) \subseteq 1 .. events
      /\ DOMAIN sender = Threads /\ \A u \in Threads : sender[u] \in Sending
      /\ received \in [Siem!Events -> Nat] /\ flushes \in [Siem!Events -> Nat]
      /\ \A e \in Siem!Events : e > events => flushes[e] = 0
      /\ sender[t].body = <<>> /\ SiemTyped
  BY <1>1 DEF SiemInv, SiemTyped
<1>3. o \in Sending /\ o.pc = "post" /\ o.body = buffer /\ o.attempt = 0
  BY <1>2 DEF Sending, SenderStates
<1> HIDE DEF o
<1>4. /\ DOMAIN sender' = Threads /\ sender'[t] = o
      /\ \A u \in Threads \ {t} : sender'[u] = sender[u]
  BY <1>1, <1>2, SenderSet
<1>5. \A e \in Siem!Events : flushes'[e] = (IF e \in Siem!In(buffer) THEN flushes[e] + 1 ELSE flushes[e])
  BY <1>1, <1>2
<1>6. flushes' \in [Siem!Events -> Nat]
  <2>1. \A e \in Siem!Events : flushes[e] + (IF e \in Siem!In(buffer) THEN 1 ELSE 0) \in Nat
    BY <1>2
  <2> QED BY <1>1, <2>1
<1>7. Siem!In(buffer) \subseteq Siem!Events
  BY <1>2, SiemConstants
<1>8. \E e : e \in Siem!In(buffer)
  <2>1. Len(buffer) \in Nat /\ DOMAIN buffer = 1 .. Len(buffer) /\ Len(buffer) # 0
    BY <1>2, EmptySeq, LenProperties DEF Bodies
  <2>2. 1 \in DOMAIN buffer
    BY <2>1
  <2> QED BY <2>2 DEF Siem!In
<1>9. SiemTyped'
  <2>1. \A e \in Siem!Events : e > events => flushes'[e] = 0
    BY <1>2, <1>5, SiemConstants
  <2>2. \A u \in Threads : /\ sender'[u] \in Sending
                           /\ sender'[u].pc = "post" => sender'[u].attempt < MaxPosted
                           /\ sender'[u].pc # "post" => sender'[u].body = <<>>
    BY <1>2, <1>3, <1>4, SiemConstants DEF SiemTyped
  <2> QED BY <1>1, <1>2, <1>4, <1>6, <2>1, <2>2 DEF SiemTyped
<1>10. Busy(sender') = Busy(sender) \cup {t} /\ t \notin Busy(sender)
  BY <1>1, <1>3, <1>4 DEF Busy
<1>11. \A u \in Threads : sender'[u].pc = "post" =>
          \A e \in Siem!In(buffer') : e \in Siem!In(sender'[u].body) \/ e \in late'
  BY <1>1, <1>3, <1>4 DEF SiemInv
<1>12. \A u \in Threads : sender'[u].pc = "counted" =>
          \A e \in Siem!In(buffer') : received'[e] > 0 \/ e \in refused' \/ e \in late'
  BY <1>1, <1>3, <1>4 DEF SiemInv
<1>13. (Siem!OnlyLateVanish)'
  <2> SUFFICES ASSUME NEW e \in 1 .. events,
                      e \notin Siem!In(buffer), ~(received[e] > 0), e \notin refused, e \notin late
               PROVE  \E u \in Threads : e \in Siem!In(sender'[u].body)
    BY <1>1 DEF Siem!OnlyLateVanish
  <2>1. PICK u \in Threads : e \in Siem!In(sender[u].body)
    BY DEF SiemInv, Siem!OnlyLateVanish
  <2>2. u # t
    BY <1>2, <2>1, SiemConstants
  <2> QED BY <1>4, <2>1, <2>2
<1>14. (Siem!Flushing)' => \A e \in Siem!In(buffer') : flushes'[e] > 0 \/ e \in late'
  BY <1>1, <1>2, <1>5, <1>7
<1>15. ASSUME NEW e \in Siem!Events
       PROVE  /\ received'[e] + Cardinality(Left(sender', e)) <= MaxPosted * flushes'[e]
              /\ flushes'[e] <= Cardinality(Threads)
              /\ e \in Siem!In(buffer') => flushes'[e] <= Cardinality(Busy(sender'))
  <2>1. /\ received[e] + Cardinality(Left(sender, e)) <= MaxPosted * flushes[e]
        /\ flushes[e] <= Cardinality(Threads)
        /\ e \in Siem!In(buffer) => flushes[e] <= Cardinality(Busy(sender))
        /\ received[e] \in Nat /\ flushes[e] \in Nat
    BY <1>2 DEF SiemInv
  <2>2. CASE e \in Siem!In(buffer)
    <3>1. Cardinality(Busy(sender')) = Cardinality(Busy(sender)) + 1
      BY <1>10, LeftFinite, FS_AddElement
    <3>2. Cardinality(Busy(sender')) <= Cardinality(Threads)
      BY LeftFinite
    <3>3. Left(sender', e) \subseteq Left(sender, e) \cup ({t} \X (1 .. MaxPosted))
      BY <1>4 DEF Left
    <3>4. IsFiniteSet({t} \X (1 .. MaxPosted)) /\ Cardinality({t} \X (1 .. MaxPosted)) = MaxPosted
      <4>1. IsFiniteSet(1 .. MaxPosted) /\ Cardinality(1 .. MaxPosted) = MaxPosted
        <5>1. MaxPosted \in Int /\ 1 \in Int /\ ~(1 > MaxPosted) /\ MaxPosted - 1 + 1 = MaxPosted
          BY SiemConstants
        <5>2. /\ IsFiniteSet(1 .. MaxPosted)
              /\ Cardinality(1 .. MaxPosted) = (IF 1 > MaxPosted THEN 0 ELSE MaxPosted - 1 + 1)
          BY <5>1, FS_Interval
        <5> QED BY <5>1, <5>2
      <4>2. IsFiniteSet({t}) /\ Cardinality({t}) = 1
        BY FS_Singleton
      <4>3. /\ IsFiniteSet({t} \X (1 .. MaxPosted))
            /\ Cardinality({t} \X (1 .. MaxPosted)) = Cardinality({t}) * Cardinality(1 .. MaxPosted)
        BY <4>1, <4>2, FS_Product
      <4>4. 1 * MaxPosted = MaxPosted
        BY SiemConstants
      <4> QED BY <4>1, <4>2, <4>3, <4>4
    <3>5. Cardinality(Left(sender', e)) <= Cardinality(Left(sender, e)) + MaxPosted
      <4> DEFINE x == Left(sender, e)  y == {t} \X (1 .. MaxPosted)
      <4>1. IsFiniteSet(x) /\ IsFiniteSet(y) /\ Cardinality(y) = MaxPosted
        BY <3>4, LeftFinite
      <4>2. /\ IsFiniteSet(x \cup y) /\ IsFiniteSet(x \cap y)
            /\ Cardinality(x \cup y) = Cardinality(x) + Cardinality(y) - Cardinality(x \cap y)
        BY <4>1, FS_Union, FS_Intersection
      <4>3. Cardinality(x \cap y) \in Nat /\ Cardinality(x) \in Nat /\ Cardinality(x \cup y) \in Nat
        BY <4>1, <4>2, FS_CardinalityType
      <4>4. Cardinality(Left(sender', e)) <= Cardinality(x \cup y)
        BY <3>3, <4>2, FS_Subset
      <4>5. Cardinality(Left(sender', e)) \in Nat
        BY LeftFinite
      <4> HIDE DEF x, y
      <4>6. Cardinality(Left(sender', e)) <= Cardinality(x) + MaxPosted
        BY <4>1, <4>2, <4>3, <4>4, <4>5, SiemConstants
      <4> QED BY <4>6 DEF x
    <3>6. MaxPosted * (flushes[e] + 1) = MaxPosted * flushes[e] + MaxPosted
      BY <2>1, SiemConstants
    <3>7. flushes'[e] = flushes[e] + 1 /\ received'[e] = received[e]
      BY <1>1, <1>5, <2>2
    <3>8. MaxPosted * flushes[e] \in Nat
      BY <2>1, SiemConstants
    <3>9. received'[e] + Cardinality(Left(sender', e)) <= MaxPosted * flushes'[e]
      <4>1. Cardinality(Left(sender, e)) \in Nat /\ Cardinality(Left(sender', e)) \in Nat /\ MaxPosted \in Nat
        BY LeftFinite, SiemConstants
      <4>2. received[e] + Cardinality(Left(sender', e)) <= MaxPosted * flushes[e] + MaxPosted
        BY <2>1, <3>5, <3>8, <4>1
      <4> QED BY <3>6, <3>7, <4>2
    <3>10. flushes'[e] <= Cardinality(Busy(sender'))
      BY <2>1, <2>2, <3>1, <3>7, LeftFinite
    <3>11. flushes'[e] \in Nat /\ Cardinality(Busy(sender')) \in Nat /\ Cardinality(Threads) \in Nat
      BY <2>1, <3>7, LeftFinite, SiemConstants
    <3> QED BY <3>2, <3>9, <3>10, <3>11
  <2>3. CASE e \notin Siem!In(buffer)
    <3>1. flushes'[e] = flushes[e] /\ received'[e] = received[e]
      BY <1>1, <1>5, <2>3
    <3>2. Left(sender', e) = Left(sender, e)
      BY <1>1, <1>3, <1>4, <2>3 DEF Left
    <3> QED BY <1>1, <2>1, <2>3, <3>1, <3>2
  <2> QED BY <2>2, <2>3
<1>16. Calm' =>
          /\ \A u, v \in Busy(sender') : u = v
          /\ sent' + errors' + (IF \E u \in Threads : sender'[u].pc = "counted" THEN 0 ELSE Len(buffer')) = events'
  <2> SUFFICES ASSUME Calm'
               PROVE  /\ \A u, v \in Busy(sender') : u = v
                      /\ sent' + errors' + (IF \E u \in Threads : sender'[u].pc = "counted" THEN 0 ELSE Len(buffer')) = events'
    OBVIOUS
  <2>1. late = {} /\ \A e \in Siem!Events : flushes'[e] <= 1
    BY <1>1 DEF Calm
  <2>2. \A e \in Siem!Events : flushes[e] <= 1 /\ (e \in Siem!In(buffer) => flushes[e] = 0)
    <3> TAKE e \in Siem!Events
    <3>1. flushes[e] \in Nat
      BY <1>2
    <3> QED BY <1>5, <2>1, <3>1
  <2>3. Calm
    BY <2>1, <2>2 DEF Calm
  <2>4. ~Siem!Flushing
    <3> SUFFICES ASSUME Siem!Flushing PROVE FALSE
      OBVIOUS
    <3>1. PICK e : e \in Siem!In(buffer)
      BY <1>8
    <3>2. flushes[e] > 0
      BY <2>1, <3>1 DEF SiemInv
    <3> QED BY <1>7, <2>2, <3>1, <3>2
  <2>5. Busy(sender) = {} /\ ~\E u \in Threads : sender[u].pc = "counted"
    BY <2>4 DEF Busy, Siem!Flushing
  <2>6. ~\E u \in Threads : sender'[u].pc = "counted"
    BY <1>3, <1>4, <2>5
  <2>7. sent + errors + Len(buffer) = events
    BY <2>3, <2>5 DEF SiemInv
  <2> QED BY <1>1, <1>10, <2>5, <2>6, <2>7
<1> QED BY <1>9, <1>11, <1>12, <1>13, <1>14, <1>15, <1>16 DEF SiemInv

(* What an attempt leaves of the attempts: fewer, and one fewer of an event *)
(* that was taken.                                                          *)
LEMMA AttemptMade ==
    ASSUME SiemTyped, NEW t \in Threads, NEW e,
           sender[t].pc = "post", NEW n, n = sender[t].attempt + 1,
           \A u \in Threads \ {t} : sender'[u] = sender[u],
           \/ sender'[t].pc = "counted"
           \/ sender'[t].pc = "post" /\ sender'[t].body = sender[t].body /\ sender'[t].attempt = n
    PROVE  /\ Cardinality(Left(sender', e)) <= Cardinality(Left(sender, e))
           /\ e \in Siem!In(sender[t].body) =>
                 Cardinality(Left(sender', e)) + 1 <= Cardinality(Left(sender, e))
<1>1. /\ sender[t].attempt \in Nat /\ sender[t].attempt < MaxPosted /\ n \in Nat
      /\ n \in 1 .. MaxPosted /\ n > sender[t].attempt /\ ~(n > n)
  BY SiemConstants DEF SiemTyped, Sending
<1>2. Left(sender', e) \subseteq Left(sender, e)
  <2> SUFFICES ASSUME NEW u \in Threads, NEW k \in 1 .. MaxPosted, <<u, k>> \in Left(sender', e)
               PROVE  <<u, k>> \in Left(sender, e)
    BY DEF Left
  <2>1. sender'[u].pc = "post" /\ e \in Siem!In(sender'[u].body) /\ k > sender'[u].attempt
    BY DEF Left
  <2>2. CASE u # t
    BY <2>1, <2>2 DEF Left
  <2>3. CASE u = t
    <3>1. sender'[t].body = sender[t].body /\ sender'[t].attempt = n
      BY <2>1, <2>3
    <3>2. k \in Nat
      BY SiemConstants
    <3>3. k > sender[t].attempt
      BY <1>1, <2>1, <2>3, <3>1, <3>2
    <3> QED BY <2>1, <2>3, <3>1, <3>3 DEF Left
  <2> QED BY <2>2, <2>3
<1>3. IsFiniteSet(Left(sender, e)) /\ Cardinality(Left(sender, e)) \in Nat
  BY LeftFinite
<1>4. Cardinality(Left(sender', e)) <= Cardinality(Left(sender, e))
  BY <1>2, <1>3, FS_Subset
<1>5. ASSUME e \in Siem!In(sender[t].body)
      PROVE  Cardinality(Left(sender', e)) + 1 <= Cardinality(Left(sender, e))
  <2>1. <<t, n>> \in Left(sender, e)
    BY <1>1, <1>5 DEF Left
  <2>2. <<t, n>> \notin Left(sender', e)
    <3> SUFFICES ASSUME <<t, n>> \in Left(sender', e) PROVE FALSE
      OBVIOUS
    <3>1. sender'[t].pc = "post" /\ n > sender'[t].attempt
      BY DEF Left
    <3> QED BY <1>1, <3>1
  <2>3. Left(sender', e) \subseteq Left(sender, e) \ {<<t, n>>}
    BY <1>2, <2>2
  <2>4. /\ IsFiniteSet(Left(sender, e) \ {<<t, n>>})
        /\ Cardinality(Left(sender, e) \ {<<t, n>>}) = Cardinality(Left(sender, e)) - 1
    BY <1>3, <2>1, FS_RemoveElement
  <2>5. Cardinality(Left(sender', e)) <= Cardinality(Left(sender, e) \ {<<t, n>>})
    BY <2>3, <2>4, FS_Subset
  <2>6. Cardinality(Left(sender', e)) \in Nat
    BY LeftFinite
  <2> QED BY <1>3, <2>4, <2>5, <2>6
<1> QED BY <1>4, <1>5

(* What an attempt does.                                                    *)
LEMMA AttemptsLeft ==
    ASSUME SiemInv, NEW t \in Threads, Siem!Post(t)
    PROVE  \E taken \in SUBSET Siem!In(sender[t].body) :
              /\ received' = [e \in Siem!Events |-> received[e] + IF e \in taken THEN 1 ELSE 0]
              /\ sender[t].pc = "post" /\ DOMAIN sender' = Threads /\ sender'[t] \in Sending
              /\ \A u \in Threads \ {t} : sender'[u] = sender[u]
              /\ UNCHANGED <<buffer, events, late, flushes>>
              /\ \/ /\ sender'[t].pc = "counted" /\ sender'[t].body = <<>>
                    /\ \/ /\ taken = Siem!In(sender[t].body) /\ refused' = refused
                          /\ sent' = sent + Len(buffer) /\ errors' = errors
                       \/ /\ refused' = refused \cup Siem!In(sender[t].body)
                          /\ errors' = errors + Len(buffer) /\ sent' = sent
                 \/ /\ sender'[t].pc = "post" /\ sender'[t].body = sender[t].body
                    /\ sender'[t].attempt = sender[t].attempt + 1 /\ sender[t].attempt + 1 < MaxPosted
                    /\ UNCHANGED <<sent, errors, refused>>
<1>1. SiemTyped
  BY DEF SiemInv
<1>2. sender[t] \in Sending /\ sender[t].attempt \in Nat
  BY <1>1 DEF SiemTyped, Sending
<1>3. sender[t].pc = "post" /\ UNCHANGED <<buffer, events, late, flushes>>
  BY DEF Siem!Post, Siem!At
<1>4. PICK taken \in SUBSET Siem!In(sender[t].body), replied \in BOOLEAN :
         /\ received' = [e \in Siem!Events |-> received[e] + IF e \in taken THEN 1 ELSE 0]
         /\ IF taken = Siem!In(sender[t].body) /\ replied
            THEN /\ sent' = sent + Len(buffer)
                 /\ Siem!Set(t, [Siem!Out EXCEPT !.pc = "counted"])
                 /\ UNCHANGED <<errors, refused>>
            ELSE IF sender[t].attempt + 1 = MaxPosted
            THEN /\ errors' = errors + Len(buffer)
                 /\ refused' = refused \cup Siem!In(sender[t].body)
                 /\ Siem!Set(t, [Siem!Out EXCEPT !.pc = "counted"])
                 /\ UNCHANGED sent
            ELSE /\ Siem!Set(t, [sender[t] EXCEPT !.attempt = sender[t].attempt + 1])
                 /\ UNCHANGED <<sent, errors, refused>>
  BY DEF Siem!Post
<1>5. ASSUME Siem!Set(t, [Siem!Out EXCEPT !.pc = "counted"])
      PROVE  /\ DOMAIN sender' = Threads /\ sender'[t] \in Sending
             /\ sender'[t].pc = "counted" /\ sender'[t].body = <<>>
             /\ \A u \in Threads \ {t} : sender'[u] = sender[u]
  <2> DEFINE o == [Siem!Out EXCEPT !.pc = "counted"]
  <2>1. "counted" \in SenderStates
    BY DEF SenderStates
  <2>2. o \in Sending /\ o.pc = "counted" /\ o.body = <<>>
    BY <2>1, Pausing
  <2>3. Siem!Set(t, o)
    BY <1>5
  <2> HIDE DEF o
  <2>4. /\ DOMAIN sender' = Threads /\ sender'[t] = o
        /\ \A u \in Threads \ {t} : sender'[u] = sender[u]
    BY <1>1, <2>3, SenderSet
  <2> QED BY <2>2, <2>4
<1>6. ASSUME Siem!Set(t, [sender[t] EXCEPT !.attempt = sender[t].attempt + 1])
      PROVE  /\ DOMAIN sender' = Threads /\ sender'[t] \in Sending
             /\ sender'[t].pc = "post" /\ sender'[t].body = sender[t].body
             /\ sender'[t].attempt = sender[t].attempt + 1
             /\ \A u \in Threads \ {t} : sender'[u] = sender[u]
  <2> DEFINE o == [sender[t] EXCEPT !.attempt = sender[t].attempt + 1]
  <2>1. sender[t].attempt + 1 \in Nat
    BY <1>2
  <2>2. /\ o \in Sending /\ o.pc = "post" /\ o.body = sender[t].body
        /\ o.attempt = sender[t].attempt + 1
    BY <1>2, <1>3, <2>1 DEF Sending
  <2>3. Siem!Set(t, o)
    BY <1>6
  <2> HIDE DEF o
  <2>4. /\ DOMAIN sender' = Threads /\ sender'[t] = o
        /\ \A u \in Threads \ {t} : sender'[u] = sender[u]
    BY <1>1, <2>3, SenderSet
  <2> QED BY <2>2, <2>4
<1>7. CASE taken = Siem!In(sender[t].body) /\ replied
  <2>1. /\ sent' = sent + Len(buffer) /\ errors' = errors /\ refused' = refused
        /\ Siem!Set(t, [Siem!Out EXCEPT !.pc = "counted"])
    BY <1>4, <1>7
  <2> QED BY <1>3, <1>4, <1>5, <1>7, <2>1
<1>8. CASE ~(taken = Siem!In(sender[t].body) /\ replied) /\ sender[t].attempt + 1 = MaxPosted
  <2>1. /\ errors' = errors + Len(buffer) /\ sent' = sent
        /\ refused' = refused \cup Siem!In(sender[t].body)
        /\ Siem!Set(t, [Siem!Out EXCEPT !.pc = "counted"])
    BY <1>4, <1>8
  <2> QED BY <1>3, <1>4, <1>5, <2>1
<1>9. CASE ~(taken = Siem!In(sender[t].body) /\ replied) /\ sender[t].attempt + 1 # MaxPosted
  <2>1. /\ UNCHANGED <<sent, errors, refused>>
        /\ Siem!Set(t, [sender[t] EXCEPT !.attempt = sender[t].attempt + 1])
    BY <1>4, <1>9
  <2>2. sender[t].attempt + 1 < MaxPosted
    BY <1>1, <1>2, <1>3, <1>9, SiemConstants DEF SiemTyped
  <2> QED BY <1>3, <1>4, <1>6, <2>1, <2>2
<1> QED BY <1>7, <1>8, <1>9

(* One attempt to post a body.                                              *)
LEMMA Posts ==
    ASSUME SiemInv, NEW t \in Threads, Siem!Post(t)
    PROVE  SiemInv'
<1> DEFINE body == sender[t].body
<1>1. PICK taken \in SUBSET Siem!In(body) :
         /\ received' = [e \in Siem!Events |-> received[e] + IF e \in taken THEN 1 ELSE 0]
         /\ sender[t].pc = "post" /\ DOMAIN sender' = Threads /\ sender'[t] \in Sending
         /\ \A u \in Threads \ {t} : sender'[u] = sender[u]
         /\ UNCHANGED <<buffer, events, late, flushes>>
         /\ \/ /\ sender'[t].pc = "counted" /\ sender'[t].body = <<>>
               /\ \/ /\ taken = Siem!In(body) /\ refused' = refused
                     /\ sent' = sent + Len(buffer) /\ errors' = errors
                  \/ /\ refused' = refused \cup Siem!In(body)
                     /\ errors' = errors + Len(buffer) /\ sent' = sent
            \/ /\ sender'[t].pc = "post" /\ sender'[t].body = body
               /\ sender'[t].attempt = sender[t].attempt + 1 /\ sender[t].attempt + 1 < MaxPosted
               /\ UNCHANGED <<sent, errors, refused>>
  BY AttemptsLeft
<1>2. /\ events \in 0 .. MaxEvents /\ sent \in Nat /\ errors \in Nat
      /\ buffer \in Bodies /\ Siem!In(buffer) \subseteq 1 .. events /\ Len(buffer) \in Nat
      /\ DOMAIN sender = Threads /\ \A u \in Threads : sender[u] \in Sending
      /\ received \in [Siem!Events -> Nat] /\ flushes \in [Siem!Events -> Nat]
      /\ SiemTyped
  BY LenProperties DEF SiemInv, SiemTyped, Bodies
<1>3. \A e \in Siem!Events : /\ received'[e] = (IF e \in taken THEN received[e] + 1 ELSE received[e])
                             /\ received'[e] \in Nat /\ received[e] \in Nat
  BY <1>1, <1>2
<1>4. /\ \A e \in Siem!Events : received[e] > 0 => received'[e] > 0
      /\ \A e \in taken \cap Siem!Events : received'[e] > 0
      /\ refused \subseteq refused'
  BY <1>1, <1>3
<1>5. received' \in [Siem!Events -> Nat]
  <2>1. \A e \in Siem!Events : received[e] + (IF e \in taken THEN 1 ELSE 0) \in Nat
    BY <1>2
  <2> QED BY <1>1, <2>1
<1>6. SiemTyped'
  <2>1. \A u \in Threads : /\ sender'[u] \in Sending
                           /\ sender'[u].pc = "post" => sender'[u].attempt < MaxPosted
                           /\ sender'[u].pc # "post" => sender'[u].body = <<>>
    BY <1>1, <1>2 DEF SiemTyped
  <2>2. sent' \in Nat /\ errors' \in Nat
    BY <1>1, <1>2
  <2>3. \A e \in Siem!Events : e > events => flushes[e] = 0
    BY <1>2 DEF SiemTyped
  <2> QED BY <1>1, <1>2, <1>5, <2>1, <2>2, <2>3 DEF SiemTyped
<1>7. Busy(sender') = Busy(sender) /\ (Siem!Flushing)' = Siem!Flushing
  <2>1. \A u \in Threads : sender'[u].pc \in {"post", "counted"} <=> sender[u].pc \in {"post", "counted"}
    BY <1>1
  <2> QED BY <2>1 DEF Busy, Siem!Flushing
<1>8. Siem!In(buffer) \subseteq Siem!Events
  BY <1>2, SiemConstants
<1>9. \A u \in Threads : sender'[u].pc = "post" =>
          \A e \in Siem!In(buffer') : e \in Siem!In(sender'[u].body) \/ e \in late'
  <2> SUFFICES ASSUME NEW u \in Threads, sender'[u].pc = "post", NEW e \in Siem!In(buffer')
               PROVE  e \in Siem!In(sender'[u].body) \/ e \in late'
    OBVIOUS
  <2>1. sender[u].pc = "post" /\ sender'[u].body = sender[u].body
    BY <1>1
  <2> QED BY <1>1, <2>1 DEF SiemInv
<1>10. ASSUME sender'[t].pc = "counted", NEW e \in Siem!In(body)
       PROVE  e \in Siem!Events => received'[e] > 0 \/ e \in refused'
  BY <1>1, <1>4, <1>10
<1>11. \A u \in Threads : sender'[u].pc = "counted" =>
          \A e \in Siem!In(buffer') : received'[e] > 0 \/ e \in refused' \/ e \in late'
  <2> SUFFICES ASSUME NEW u \in Threads, sender'[u].pc = "counted", NEW e \in Siem!In(buffer)
               PROVE  received'[e] > 0 \/ e \in refused' \/ e \in late
    BY <1>1
  <2>1. CASE u = t
    <3>1. e \in Siem!In(body) \/ e \in late
      BY <1>1 DEF SiemInv
    <3> QED BY <1>8, <1>10, <2>1, <3>1
  <2>2. CASE u # t
    <3>1. received[e] > 0 \/ e \in refused \/ e \in late
      BY <1>1, <2>2 DEF SiemInv
    <3> QED BY <1>4, <1>8, <3>1
  <2> QED BY <2>1, <2>2
<1>12. (Siem!OnlyLateVanish)'
  <2> SUFFICES ASSUME NEW e \in 1 .. events
               PROVE  e \in Siem!In(buffer) \/ received'[e] > 0 \/ e \in refused' \/ e \in late
                      \/ \E u \in Threads : e \in Siem!In(sender'[u].body)
    BY <1>1 DEF Siem!OnlyLateVanish
  <2>1. e \in Siem!Events
    BY <1>2, SiemConstants
  <2>2. e \in Siem!In(buffer) \/ received[e] > 0 \/ e \in refused \/ e \in late
        \/ \E u \in Threads : e \in Siem!In(sender[u].body)
    BY DEF SiemInv, Siem!OnlyLateVanish
  <2>3. CASE \E u \in Threads : e \in Siem!In(sender[u].body)
    <3>1. PICK u \in Threads : e \in Siem!In(sender[u].body)
      BY <2>3
    <3>2. CASE sender'[u].body = sender[u].body
      BY <3>1, <3>2
    <3>3. CASE u = t /\ sender'[t].pc = "counted"
      BY <1>10, <2>1, <3>1, <3>3
    <3> QED BY <1>1, <3>2, <3>3
  <2> QED BY <1>4, <2>1, <2>2, <2>3
<1>13. (Siem!Flushing)' => \A e \in Siem!In(buffer') : flushes'[e] > 0 \/ e \in late'
  BY <1>1, <1>7 DEF SiemInv
<1>14. ASSUME NEW e \in Siem!Events
       PROVE  /\ received'[e] + Cardinality(Left(sender', e)) <= MaxPosted * flushes'[e]
              /\ flushes'[e] <= Cardinality(Threads)
              /\ e \in Siem!In(buffer') => flushes'[e] <= Cardinality(Busy(sender'))
  <2> DEFINE l == Cardinality(Left(sender, e))  k == Cardinality(Left(sender', e))
             m == MaxPosted * flushes[e]
  <2>1. /\ received[e] + l <= m
        /\ flushes[e] <= Cardinality(Threads)
        /\ e \in Siem!In(buffer) => flushes[e] <= Cardinality(Busy(sender))
    BY DEF SiemInv
  <2>2. k <= l /\ (e \in Siem!In(body) => k + 1 <= l)
    <3>1. \/ sender'[t].pc = "counted"
          \/ sender'[t].pc = "post" /\ sender'[t].body = sender[t].body
             /\ sender'[t].attempt = sender[t].attempt + 1
      BY <1>1
    <3>2. sender[t].pc = "post" /\ \A u \in Threads \ {t} : sender'[u] = sender[u]
      BY <1>1
    <3> QED BY <1>2, <3>1, <3>2, AttemptMade
  <2>3. l \in Nat /\ k \in Nat
    BY LeftFinite
  <2>4. m \in Nat
    BY <1>2, SiemConstants
  <2> HIDE DEF l, k, m
  <2>5. received'[e] + k <= m
    <3>1. CASE e \in taken
      <4>1. received'[e] = received[e] + 1 /\ received[e] \in Nat /\ k + 1 <= l
        BY <1>3, <2>2, <3>1
      <4> QED BY <2>1, <2>3, <2>4, <4>1
    <3>2. CASE e \notin taken
      <4>1. received'[e] = received[e] /\ received[e] \in Nat
        BY <1>3, <3>2
      <4> QED BY <2>1, <2>2, <2>3, <2>4, <4>1
    <3> QED BY <3>1, <3>2
  <2> QED BY <1>1, <1>7, <2>1, <2>5 DEF k, m
<1>15. Calm' =>
          /\ \A u, v \in Busy(sender') : u = v
          /\ sent' + errors' + (IF \E u \in Threads : sender'[u].pc = "counted" THEN 0 ELSE Len(buffer')) = events'
  <2> SUFFICES ASSUME Calm
               PROVE  /\ \A u, v \in Busy(sender') : u = v
                      /\ sent' + errors' + (IF \E u \in Threads : sender'[u].pc = "counted" THEN 0 ELSE Len(buffer)) = events
    BY <1>1 DEF Calm
  <2>1. /\ \A u, v \in Busy(sender) : u = v
        /\ sent + errors + (IF \E u \in Threads : sender[u].pc = "counted" THEN 0 ELSE Len(buffer)) = events
    BY DEF SiemInv
  <2>2. \A u \in Threads \ {t} : sender[u].pc # "counted"
    BY <1>1, <2>1 DEF Busy
  <2>3. sent + errors + Len(buffer) = events
    BY <1>1, <2>1, <2>2
  <2>4. CASE sender'[t].pc = "counted"
    <3>1. sent' + errors' = events
      BY <1>1, <1>2, <2>3, <2>4
    <3>2. sent' \in Nat /\ errors' \in Nat
      BY <1>6 DEF SiemTyped
    <3>3. sent' + errors' + 0 = events
      BY <3>1, <3>2
    <3> QED BY <1>7, <2>1, <2>4, <3>3
  <2>5. CASE sender'[t].pc = "post"
    <3>1. ~\E u \in Threads : sender'[u].pc = "counted"
      BY <1>1, <2>2, <2>5
    <3>2. sent' = sent /\ errors' = errors
      BY <1>1, <2>5
    <3> QED BY <1>7, <2>1, <2>3, <3>1, <3>2
  <2> QED BY <1>1, <2>4, <2>5
<1> QED BY <1>6, <1>9, <1>11, <1>12, <1>13, <1>14, <1>15 DEF SiemInv

(* A flush clears the buffer.                                               *)
LEMMA Clears ==
    ASSUME SiemInv, NEW t \in Threads, Siem!Clear(t)
    PROVE  SiemInv'
<1>1. /\ sender[t].pc = "counted" /\ buffer' = <<>> /\ Siem!Set(t, Siem!Out)
      /\ UNCHANGED <<sent, errors, received, events, late, refused, flushes>>
  BY DEF Siem!Clear, Siem!At
<1>2. SiemTyped /\ sender[t].body = <<>>
  BY <1>1 DEF SiemInv, SiemTyped
<1>3. /\ DOMAIN sender' = Threads /\ sender'[t] \in Sending
      /\ sender'[t].pc = "out" /\ sender'[t].body = <<>>
      /\ \A u \in Threads \ {t} : sender'[u] = sender[u]
  BY <1>1, <1>2, SenderSet, SiemConstants
<1>4. Siem!In(buffer') = {} /\ buffer' \in Bodies /\ Len(buffer') = 0
  BY <1>1, SiemConstants
<1>5. SiemTyped'
  BY <1>1, <1>2, <1>3, <1>4 DEF SiemTyped
<1>6. (Siem!OnlyLateVanish)'
  <2> SUFFICES ASSUME NEW e \in 1 .. events
               PROVE  received[e] > 0 \/ e \in refused \/ e \in late
                      \/ \E u \in Threads : e \in Siem!In(sender'[u].body)
    BY <1>1 DEF Siem!OnlyLateVanish
  <2>1. e \in Siem!In(buffer) \/ received[e] > 0 \/ e \in refused \/ e \in late
        \/ \E u \in Threads : e \in Siem!In(sender[u].body)
    BY DEF SiemInv, Siem!OnlyLateVanish
  <2>2. e \in Siem!In(buffer) => received[e] > 0 \/ e \in refused \/ e \in late
    BY <1>1 DEF SiemInv
  <2>3. \A u \in Threads : sender'[u].body = sender[u].body
    BY <1>2, <1>3
  <2> QED BY <2>1, <2>2, <2>3
<1>7. \A e \in Siem!Events : Left(sender', e) = Left(sender, e)
  <2>1. \A u \in Threads : sender'[u].pc = "post" \/ sender[u].pc = "post" => sender'[u] = sender[u]
    BY <1>1, <1>3
  <2> QED BY <2>1 DEF Left
<1>8. \A e \in Siem!Events :
          /\ received'[e] + Cardinality(Left(sender', e)) <= MaxPosted * flushes'[e]
          /\ flushes'[e] <= Cardinality(Threads)
          /\ e \in Siem!In(buffer') => flushes'[e] <= Cardinality(Busy(sender'))
  BY <1>1, <1>4, <1>7 DEF SiemInv
<1>9. Calm' =>
          /\ \A u, v \in Busy(sender') : u = v
          /\ sent' + errors' + (IF \E u \in Threads : sender'[u].pc = "counted" THEN 0 ELSE Len(buffer')) = events'
  <2> SUFFICES ASSUME Calm
               PROVE  /\ \A u, v \in Busy(sender') : u = v
                      /\ sent' + errors' + (IF \E u \in Threads : sender'[u].pc = "counted" THEN 0 ELSE Len(buffer')) = events'
    BY <1>1 DEF Calm
  <2>1. /\ \A u, v \in Busy(sender) : u = v
        /\ sent + errors + (IF \E u \in Threads : sender[u].pc = "counted" THEN 0 ELSE Len(buffer)) = events
    BY DEF SiemInv
  <2>2. \A u \in Threads \ {t} : sender[u].pc \notin {"post", "counted"}
    BY <1>1, <2>1 DEF Busy
  <2>3. Busy(sender') = {} /\ ~\E u \in Threads : sender'[u].pc = "counted"
    BY <1>3, <2>2 DEF Busy
  <2>4. sent + errors + 0 = events
    BY <1>1, <2>1
  <2> QED BY <1>1, <1>4, <2>3, <2>4
<1>10. \A u \in Threads : sender'[u].pc = "post" =>
          \A e \in Siem!In(buffer') : e \in Siem!In(sender'[u].body) \/ e \in late'
  BY <1>4
<1>11. \A u \in Threads : sender'[u].pc = "counted" =>
          \A e \in Siem!In(buffer') : received'[e] > 0 \/ e \in refused' \/ e \in late'
  BY <1>4
<1>12. (Siem!Flushing)' => \A e \in Siem!In(buffer') : flushes'[e] > 0 \/ e \in late'
  BY <1>4
<1> QED BY <1>5, <1>6, <1>8, <1>9, <1>10, <1>11, <1>12 DEF SiemInv

(* A connector at rest.                                                     *)
LEMMA SiemStutters == SiemInv /\ UNCHANGED Siem!vars => SiemInv'
<1> SUFFICES ASSUME SiemInv, UNCHANGED Siem!vars PROVE SiemInv'
  OBVIOUS
<1>1. UNCHANGED <<buffer, sent, errors, sender, received, events, late, refused, flushes>>
  BY DEF Siem!vars
<1>2. SiemTyped' /\ (Siem!OnlyLateVanish)'
  BY <1>1 DEF SiemInv, SiemTyped, Siem!OnlyLateVanish
<1>3. (Siem!Flushing)' = Siem!Flushing /\ Calm' = Calm
  BY <1>1 DEF Siem!Flushing, Calm
<1> QED BY <1>1, <1>2, <1>3 DEF SiemInv

(* The connector, with every step.                                          *)
LEMMA SiemKept == SiemInv /\ [Siem!Next]_(Siem!vars) => SiemInv'
<1> SUFFICES ASSUME SiemInv, [Siem!Next]_(Siem!vars) PROVE SiemInv'
  OBVIOUS
<1>1. CASE UNCHANGED Siem!vars
  BY <1>1, SiemStutters
<1>2. CASE Siem!Next
  <2>1. PICK t \in Threads : Siem!Send(t) \/ Siem!Flush(t) \/ Siem!Post(t) \/ Siem!Clear(t)
    BY <1>2 DEF Siem!Next
  <2> QED BY <2>1, Sends, Unflushed, Flushes, Posts, Clears
<1> QED BY <1>1, <1>2

(* What is promised of a connector follows.                                 *)
LEMMA SiemHolds == SiemInv => Siem!OnlyLateVanish /\ Siem!DuplicatesBounded /\ Siem!Accounted
<1> SUFFICES ASSUME SiemInv PROVE Siem!DuplicatesBounded /\ Siem!Accounted
  BY DEF SiemInv
<1>1. Siem!Cardinality(Threads) = Cardinality(Threads)
  BY DEF Siem!Cardinality, Cardinality
<1>2. ASSUME NEW e \in Siem!Events PROVE received[e] <= MaxPosted * flushes[e]
  <2>1. received[e] + Cardinality(Left(sender, e)) <= MaxPosted * flushes[e]
    BY DEF SiemInv
  <2>2. received[e] \in Nat /\ flushes[e] \in Nat /\ Cardinality(Left(sender, e)) \in Nat
    BY LeftFinite DEF SiemInv, SiemTyped
  <2>3. MaxPosted * flushes[e] \in Nat
    BY <2>2, SiemConstants
  <2> QED BY <2>1, <2>2, <2>3
<1>3. Siem!DuplicatesBounded
  BY <1>1, <1>2 DEF SiemInv, Siem!DuplicatesBounded
<1>4. Siem!Accounted
  BY DEF SiemInv, Siem!Accounted, Calm, Siem!Flushing
<1> QED BY <1>3, <1>4

-----------------------------------------------------------------------------
(* A sequence with one element more.                                        *)
LEMMA Longer ==
    ASSUME NEW S, NEW s \in Seq(S), NEW x \in S
    PROVE  /\ Append(s, x) \in Seq(S) /\ Append(s, x) = s \o <<x>> /\ Len(s) \in Nat
           /\ Append(s, x) # <<>> /\ Len(Append(s, x)) = Len(s) + 1
           /\ DOMAIN s = 1 .. Len(s) /\ DOMAIN Append(s, x) = 1 .. Len(s) + 1
           /\ \A i \in 1 .. Len(s) : Append(s, x)[i] = s[i]
           /\ Append(s, x)[Len(s) + 1] = x
<1>1. /\ Append(s, x) \in Seq(S) /\ Append(s, x) # <<>> /\ Len(Append(s, x)) = Len(s) + 1
      /\ \A i \in 1 .. Len(s) : Append(s, x)[i] = s[i]
      /\ Append(s, x)[Len(s) + 1] = x
  BY AppendProperties
<1>2. Append(s, x) = s \o <<x>>
  BY AppendIsConcat
<1>3. Len(s) \in Nat /\ DOMAIN s = 1 .. Len(s)
  BY LenProperties
<1>4. DOMAIN Append(s, x) = 1 .. Len(s) + 1
  BY <1>1, LenProperties
<1> QED BY <1>1, <1>2, <1>3, <1>4


(* What the reader of a stream got, told by the frames: everything that was *)
(* whole, in its order, but the lines that were cut and those that shared a *)
(* frame with an earlier one.                                               *)
Gotten    == Seq(1 .. ReplyLines)
Frames    == Seq(Nat)
LineAt(fr, i) == IF i = 1 THEN 1 ELSE fr[i - 1] + 1
Missed(fr, k) ==
    \/ \E i \in DOMAIN fr : fr[i] = 2 * k - 1
    \/ \E i \in DOMAIN fr, j \in 1 .. k - 1 : {j, k} \subseteq Chunks!Whole(LineAt(fr, i), fr[i])
Reading(at, got, fr) ==
    /\ at \in Nat /\ at <= 2 * ReplyLines /\ got \in Gotten /\ fr \in Frames
    /\ at = IF fr = <<>> THEN 0 ELSE fr[Len(fr)]
    /\ \A i \in DOMAIN fr : fr[i] <= at
    /\ \A i \in DOMAIN got : 2 * got[i] <= at
    /\ \A i, j \in DOMAIN got : i < j => got[i] < got[j]
    /\ \A k \in 1 .. ReplyLines : 2 * k <= at => (k \notin Chunks!ToSet(got) <=> Missed(fr, k))

(* The constants of a gateway that streams.                                 *)
LEMMA ChunkConstants ==
    /\ ReplyLines \in Nat \ {0} /\ Permits \in Nat \ {0} /\ GlobalRpm \in Nat \ {0} /\ MaxStreams \in Nat
    /\ IsFiniteSet(Threads) /\ Cardinality(Threads) \in Nat
    /\ Chunks!Cardinality(Threads) = Cardinality(Threads)
<1>1. /\ ReplyLines \in Nat \ {0} /\ Permits \in Nat \ {0} /\ GlobalRpm \in Nat \ {0} /\ MaxStreams \in Nat
      /\ Chunks!IsFiniteSet(Threads)
  BY EdgeAssumptions DEF Chunks!StreamingAssumption
<1>2. IsFiniteSet(Threads)
  BY <1>1 DEF Chunks!IsFiniteSet, IsFiniteSet
<1>3. Chunks!Cardinality(Threads) = Cardinality(Threads)
  BY DEF Chunks!Cardinality, Cardinality
<1> QED BY <1>1, <1>2, <1>3, FS_CardinalityType

(* The first line that is whole in a frame.                                 *)
LEMMA FirstWhole ==
    ASSUME NEW at \in Nat, NEW to \in Nat, to <= 2 * ReplyLines
    PROVE  \/ Chunks!Whole(at + 1, to) = {} /\ Chunks!Parsed(at + 1, to) = <<>>
           \/ \E c \in Chunks!Whole(at + 1, to) :
                 /\ Chunks!Parsed(at + 1, to) = <<c>>
                 /\ \A j \in Chunks!Whole(at + 1, to) : c <= j
<1>1. CASE Chunks!Whole(at + 1, to) = {}
  BY <1>1 DEF Chunks!Parsed
<1>2. CASE Chunks!Whole(at + 1, to) # {}
  <2> DEFINE m == ((at + 1) \div 2) + 1
  <2>1. PICK k \in Chunks!Whole(at + 1, to) : TRUE
    BY <1>2
  <2>2. k \in 1 .. ReplyLines /\ at + 1 <= 2 * k - 1 /\ 2 * k <= to
    BY <2>1 DEF Chunks!Whole
  <2>3. m \in Nat /\ at + 1 <= 2 * m - 1 /\ 2 * m - 3 < at + 1 /\ m >= 1
    OBVIOUS
  <2> HIDE DEF m
  <2>4. m <= k
    BY <2>2, <2>3, ChunkConstants
  <2>5. m \in Chunks!Whole(at + 1, to)
    BY <2>2, <2>3, <2>4, ChunkConstants DEF Chunks!Whole
  <2>6. \A j \in Chunks!Whole(at + 1, to) : m <= j
    BY <2>3, ChunkConstants DEF Chunks!Whole
  <2> DEFINE c == CHOOSE x \in Chunks!Whole(at + 1, to) : \A j \in Chunks!Whole(at + 1, to) : x <= j
  <2>7. c \in Chunks!Whole(at + 1, to) /\ \A j \in Chunks!Whole(at + 1, to) : c <= j
    BY <2>5, <2>6
  <2>8. Chunks!Parsed(at + 1, to) = <<c>>
    BY <1>2 DEF Chunks!Parsed
  <2> QED BY <2>7, <2>8
<1> QED BY <1>1, <1>2

(* A frame that comes makes the story of the frames one longer.             *)
LEMMA ReadOn ==
    ASSUME NEW at, NEW got, NEW fr, Reading(at, got, fr),
           NEW to \in Nat, at < to, to <= 2 * ReplyLines
    PROVE  Reading(to, got \o Chunks!Parsed(at + 1, to), Append(fr, to))
<1>1. /\ at \in Nat /\ got \in Gotten /\ fr \in Frames /\ ReplyLines \in Nat
      /\ at = (IF fr = <<>> THEN 0 ELSE fr[Len(fr)])
      /\ \A i \in DOMAIN fr : fr[i] <= at
      /\ \A i \in DOMAIN got : 2 * got[i] <= at
      /\ \A i, j \in DOMAIN got : i < j => got[i] < got[j]
      /\ \A k \in 1 .. ReplyLines : 2 * k <= at => (k \notin Chunks!ToSet(got) <=> Missed(fr, k))
  BY ChunkConstants DEF Reading
<1> DEFINE n == Len(fr)  fs == Append(fr, to)  gs == got \o Chunks!Parsed(at + 1, to)
           w == Chunks!Whole(at + 1, to)
<1>2. /\ fs \in Frames /\ n \in Nat /\ fs # <<>> /\ Len(fs) = n + 1
      /\ DOMAIN fr = 1 .. n /\ DOMAIN fs = 1 .. n + 1
      /\ \A i \in 1 .. n : fs[i] = fr[i]
      /\ fs[n + 1] = to
  <2>1. fr \in Seq(Nat)
    BY <1>1 DEF Frames
  <2>2. /\ Append(fr, to) \in Seq(Nat) /\ Len(fr) \in Nat
        /\ Append(fr, to) # <<>> /\ Len(Append(fr, to)) = Len(fr) + 1
        /\ DOMAIN fr = 1 .. Len(fr) /\ DOMAIN Append(fr, to) = 1 .. Len(fr) + 1
        /\ \A i \in 1 .. Len(fr) : Append(fr, to)[i] = fr[i]
        /\ Append(fr, to)[Len(fr) + 1] = to
    BY <2>1, Longer
  <2>3. Append(fr, to) \in Frames
    BY <2>2 DEF Frames
  <2> QED BY ONLY <2>2, <2>3 DEF fs, n
<1>3. \A i \in 1 .. n : fr[i] \in Nat
  BY <1>1, <1>2, ElementOfSeq DEF Frames
<1>4. LineAt(fs, n + 1) = at + 1
  <2>1. CASE fr = <<>>
    <3>1. n = 0
      BY <2>1
    <3> QED BY <1>1, <2>1, <3>1 DEF LineAt
  <2>2. CASE fr # <<>>
    <3>1. n # 0
      BY <1>1, <2>2, EmptySeq DEF Frames
    <3>2. n \in 1 .. n /\ n + 1 # 1 /\ n + 1 - 1 = n
      BY <1>2, <3>1
    <3> QED BY <1>1, <1>2, <2>2, <3>2 DEF LineAt
  <2> QED BY <2>1, <2>2
<1>5. \A i \in 1 .. n : LineAt(fs, i) = LineAt(fr, i)
  <2> TAKE i \in 1 .. n
  <2>1. i = 1 \/ i - 1 \in 1 .. n
    BY <1>2
  <2> QED BY <1>2, <2>1 DEF LineAt
<1>6. \A i \in DOMAIN fs : fs[i] <= to
  BY <1>1, <1>2, <1>3
<1>7. \/ w = {} /\ gs = got
      \/ \E c \in w : gs = Append(got, c) /\ \A j \in w : c <= j
  <2>1. CASE w = {} /\ Chunks!Parsed(at + 1, to) = <<>>
    <3>1. got \o <<>> = got
      BY <1>1, ConcatEmptySeq DEF Gotten
    <3> QED BY <2>1, <3>1
  <2>2. CASE \E c \in w : Chunks!Parsed(at + 1, to) = <<c>> /\ \A j \in w : c <= j
    <3>1. PICK c \in w : Chunks!Parsed(at + 1, to) = <<c>> /\ \A j \in w : c <= j
      BY <2>2
    <3>2. c \in 1 .. ReplyLines
      BY DEF Chunks!Whole
    <3>3. Append(got, c) = got \o <<c>>
      BY <1>1, <3>2, Longer DEF Gotten
    <3> QED BY <3>1, <3>3
  <2> QED BY <1>1, <2>1, <2>2, FirstWhole
<1>8. \A k : k \in w <=> k \in 1 .. ReplyLines /\ at + 1 <= 2 * k - 1 /\ 2 * k <= to
  BY DEF Chunks!Whole
<1> DEFINE Fits(seq) ==
              /\ seq \in Gotten
              /\ \A i \in DOMAIN seq : 2 * seq[i] <= to
              /\ \A i, j \in DOMAIN seq : i < j => seq[i] < seq[j]
           Of(seq, c) == \A k \in 1 .. ReplyLines : k \in Chunks!ToSet(seq) <=> k \in Chunks!ToSet(got) \/ k = c
<1>9. Fits(got)
  <2>1. \A i \in DOMAIN got : got[i] \in 1 .. ReplyLines
    BY <1>1, ElementOfSeq, LenProperties DEF Gotten
  <2> QED BY <1>1, <2>1
<1>10. ASSUME NEW c \in w PROVE Fits(Append(got, c)) /\ Of(Append(got, c), c)
  <2> DEFINE m == Len(got)  g == Append(got, c)
  <2>1. /\ c \in 1 .. ReplyLines /\ at + 1 <= 2 * c - 1 /\ 2 * c <= to
    BY <1>8
  <2>2. /\ g \in Gotten /\ m \in Nat /\ DOMAIN got = 1 .. m /\ DOMAIN g = 1 .. m + 1
        /\ \A i \in 1 .. m : g[i] = got[i]
        /\ g[m + 1] = c
    BY <1>1, <2>1, Longer DEF Gotten
  <2>3. \A i \in 1 .. m : got[i] \in 1 .. ReplyLines /\ 2 * got[i] <= at
    BY <1>1, <2>2, ElementOfSeq DEF Gotten
  <2> HIDE DEF g, m, w
  <2>4. \A i \in 1 .. m + 1 : i \in 1 .. m \/ i = m + 1
    BY <2>2
  <2>5. \A i \in DOMAIN g : 2 * g[i] <= to
    <3>1. \A i \in 1 .. m : g[i] \in Nat /\ 2 * g[i] <= at
      BY <1>1, <2>2, <2>3
    <3>2. \A i \in 1 .. m : 2 * g[i] <= to
      BY <1>1, <3>1
    <3> QED BY <2>1, <2>2, <2>4, <3>2
  <2>6. \A i, j \in DOMAIN g : i < j => g[i] < g[j]
    <3> SUFFICES ASSUME NEW i \in 1 .. m + 1, NEW j \in 1 .. m + 1, i < j PROVE g[i] < g[j]
      BY <2>2
    <3>1. i \in 1 .. m
      BY <2>2
    <3>2. CASE j \in 1 .. m
      BY <1>1, <2>2, <3>1, <3>2
    <3>3. CASE j = m + 1
      <4>1. g[i] \in Nat /\ 2 * g[i] <= at /\ g[j] = c /\ c \in Nat
        BY <2>1, <2>2, <2>3, <3>1, <3>3
      <4> QED BY <1>1, <2>1, <4>1
    <3> QED BY <2>4, <3>2, <3>3
  <2>7. Of(g, c)
    <3> SUFFICES ASSUME NEW k \in 1 .. ReplyLines
                 PROVE  (\E i \in 1 .. m + 1 : k = g[i]) <=> (\E i \in 1 .. m : k = got[i]) \/ k = c
      BY <2>2 DEF Chunks!ToSet
    <3>1. \A i \in 1 .. m : i \in 1 .. m + 1
      BY <2>2
    <3>2. m + 1 \in 1 .. m + 1
      BY <2>2
    <3> QED BY <2>2, <2>4, <3>1, <3>2
  <2> QED BY <2>2, <2>5, <2>6, <2>7 DEF g
<1>11. ASSUME NEW k \in 1 .. ReplyLines PROVE k \in Chunks!ToSet(got) => 2 * k <= at
  BY <1>1 DEF Chunks!ToSet
<1>12. ASSUME NEW k \in 1 .. ReplyLines, 2 * k <= to
       PROVE  Missed(fs, k) <=> \/ 2 * k <= at /\ Missed(fr, k)
                                \/ 2 * k - 1 = at
                                \/ k \in w /\ \E j \in w : j < k
  <2> HIDE DEF w, fs, n, gs
  <2>1. k \in Nat /\ k >= 1
    BY <1>1
  <2>2. ASSUME Missed(fs, k)
        PROVE  \/ 2 * k <= at /\ Missed(fr, k)
               \/ 2 * k - 1 = at
               \/ k \in w /\ \E j \in w : j < k
    <3>1. CASE \E i \in DOMAIN fs : fs[i] = 2 * k - 1
      <4>1. PICK i \in 1 .. n + 1 : fs[i] = 2 * k - 1
        BY <1>2, <3>1
      <4>2. i # n + 1
        BY <1>2, <1>12, <2>1, <4>1
      <4>3. i \in 1 .. n /\ fr[i] = 2 * k - 1 /\ 2 * k - 1 <= at
        BY <1>1, <1>2, <4>1, <4>2
      <4>4. 2 * k - 1 = at \/ 2 * k <= at
        BY <1>1, <2>1, <4>3
      <4> QED BY <1>2, <4>3, <4>4 DEF Missed
    <3>2. CASE \E i \in DOMAIN fs, j \in 1 .. k - 1 : {j, k} \subseteq Chunks!Whole(LineAt(fs, i), fs[i])
      <4>1. PICK i \in 1 .. n + 1, j \in 1 .. k - 1 : {j, k} \subseteq Chunks!Whole(LineAt(fs, i), fs[i])
        BY <1>2, <3>2
      <4>2. CASE i \in 1 .. n
        <5>1. {j, k} \subseteq Chunks!Whole(LineAt(fr, i), fr[i])
          BY <1>2, <1>5, <4>1, <4>2
        <5>2. 2 * k <= fr[i] /\ fr[i] <= at /\ fr[i] \in Nat
          BY <1>1, <1>2, <1>3, <4>2, <5>1 DEF Chunks!Whole
        <5>3. 2 * k <= at
          BY <1>1, <2>1, <5>2
        <5> QED BY <1>2, <4>2, <5>1, <5>3 DEF Missed
      <4>3. CASE i = n + 1
        <5>1. {j, k} \subseteq Chunks!Whole(at + 1, to)
          BY <1>2, <1>4, <4>1, <4>3
        <5>2. j < k
          BY <2>1
        <5> QED BY <5>1, <5>2 DEF w
      <4> QED BY <1>2, <4>2, <4>3
    <3> QED BY <2>2, <3>1, <3>2 DEF Missed
  <2>3. ASSUME 2 * k <= at, Missed(fr, k) PROVE Missed(fs, k)
    <3>1. \A i \in 1 .. n : i \in 1 .. n + 1
      BY <1>2
    <3>2. CASE \E i \in DOMAIN fr : fr[i] = 2 * k - 1
      BY <1>2, <3>1, <3>2 DEF Missed
    <3>3. CASE \E i \in DOMAIN fr, j \in 1 .. k - 1 : {j, k} \subseteq Chunks!Whole(LineAt(fr, i), fr[i])
      <4>1. PICK i \in 1 .. n, j \in 1 .. k - 1 : {j, k} \subseteq Chunks!Whole(LineAt(fr, i), fr[i])
        BY <1>2, <3>3
      <4>2. i \in DOMAIN fs /\ {j, k} \subseteq Chunks!Whole(LineAt(fs, i), fs[i])
        BY <1>2, <1>5, <3>1, <4>1
      <4> QED BY <4>2 DEF Missed
    <3> QED BY <2>3, <3>2, <3>3 DEF Missed
  <2>4. ASSUME 2 * k - 1 = at PROVE Missed(fs, k)
    <3>1. at # 0
      BY <2>1, <2>4
    <3>2. fr # <<>> /\ fr[n] = at
      BY <1>1, <3>1 DEF n
    <3>3. n # 0
      BY <1>1, <3>2, EmptySeq DEF Frames, n
    <3>4. n \in 1 .. n /\ n \in DOMAIN fs
      BY <1>2, <3>3
    <3>5. fs[n] = 2 * k - 1
      BY <1>2, <2>4, <3>2, <3>4
    <3> QED BY <3>4, <3>5 DEF Missed
  <2>5. ASSUME k \in w, NEW j \in w, j < k PROVE Missed(fs, k)
    <3>1. n + 1 \in DOMAIN fs
      BY <1>2
    <3>2. {j, k} \subseteq Chunks!Whole(LineAt(fs, n + 1), fs[n + 1])
      BY <1>2, <1>4, <2>5 DEF w
    <3>3. j \in 1 .. k - 1
      BY <1>1, <1>8, <2>1, <2>5
    <3> QED BY <3>1, <3>2, <3>3 DEF Missed
  <2> QED BY <2>2, <2>3, <2>4, <2>5
<1>13. ASSUME NEW k \in 1 .. ReplyLines, 2 * k <= to
       PROVE  k \notin Chunks!ToSet(gs) <=> Missed(fs, k)
  <2> HIDE DEF w, fs, n, gs
  <2>1. k \in Nat /\ k >= 1
    BY <1>1
  <2>2. 2 * k <= at \/ 2 * k - 1 = at \/ at + 1 <= 2 * k - 1
    BY <1>1, <2>1
  <2>3. CASE w = {} /\ gs = got
    <3>1. ~(at + 1 <= 2 * k - 1)
      BY <1>8, <1>13, <2>3
    <3>2. k \in Chunks!ToSet(got) => 2 * k <= at
      BY <1>11
    <3>3. 2 * k - 1 = at => ~(2 * k <= at)
      BY <1>1, <2>1
    <3> QED BY <1>1, <1>12, <1>13, <2>2, <2>3, <3>1, <3>2, <3>3
  <2>4. CASE \E c \in w : gs = Append(got, c) /\ \A j \in w : c <= j
    <3>1. PICK c \in w : gs = Append(got, c) /\ \A j \in w : c <= j
      BY <2>4
    <3>2. k \in Chunks!ToSet(gs) <=> k \in Chunks!ToSet(got) \/ k = c
      BY <1>10, <3>1
    <3>3. c \in Nat /\ at + 1 <= 2 * c - 1
      BY <1>1, <1>8
    <3>4. CASE 2 * k <= at
      <4>1. k # c /\ k \notin w /\ 2 * k - 1 # at
        BY <1>1, <1>8, <2>1, <3>3, <3>4
      <4> QED BY <1>1, <1>12, <1>13, <3>2, <3>4, <4>1
    <3>5. CASE 2 * k - 1 = at
      <4>1. k # c /\ ~(2 * k <= at)
        BY <1>1, <2>1, <3>3, <3>5
      <4> QED BY <1>11, <1>12, <1>13, <3>2, <3>5, <4>1
    <3>6. CASE at + 1 <= 2 * k - 1
      <4>1. k \in w /\ ~(2 * k <= at) /\ 2 * k - 1 # at
        BY <1>1, <1>8, <1>13, <2>1, <3>6
      <4>2. k = c <=> ~\E j \in w : j < k
        <5>1. \A j \in w : j \in Nat
          BY <1>1, <1>8
        <5> QED BY <2>1, <3>1, <3>3, <4>1, <5>1
      <4> QED BY <1>11, <1>12, <1>13, <3>2, <4>1, <4>2
    <3> QED BY <2>2, <3>4, <3>5, <3>6
  <2> QED BY <1>7, <2>3, <2>4
<1>14. Fits(gs)
  BY <1>7, <1>9, <1>10
<1> HIDE DEF n, w, gs, fs
<1>15. to = IF fs = <<>> THEN 0 ELSE fs[Len(fs)]
  BY <1>2
<1>16. Reading(to, gs, fs)
  BY <1>2, <1>6, <1>13, <1>14, <1>15 DEF Reading
<1> QED BY <1>16 DEF gs, fs

(* The streams that hold a permit, those that can still fail, those whose   *)
(* cost is still to come, and the lines that are still to be counted.       *)
StreamPlaces == {"idle", "check", "connect", "open", "over"}
Streamed     == [pc : StreamPlaces, at : Nat, chunks : Gotten]
Holding(st)  == {s \in Threads : st[s].pc \in {"check", "connect"}}
Alive(st)    == {s \in Threads : st[s].pc \in {"check", "connect", "open"}}
Unpaid(st)   == {s \in Alive(st) : st[s].at < 2 * ReplyLines}
Coming(st)   == {x \in Threads \X (1 .. ReplyLines) :
                   st[x[1]].pc \in {"connect", "open"} /\ st[x[1]].at < 2 * x[2] - 1}

(* What a stream got is told by its frames; and what was admitted stays     *)
(* under its bound with all that is still to come of it.                    *)
ChunkInv ==
    /\ permits \in Int /\ counted \in Nat /\ costed \in Nat /\ failures \in Nat /\ opened \in Nat
    /\ DOMAIN stream = Threads /\ \A s \in Threads : stream[s] \in Streamed
    /\ DOMAIN frames = Threads
    /\ \A s \in Threads : Reading(stream[s].at, stream[s].chunks, frames[s])
    /\ counted + Cardinality(Coming(stream)) < GlobalRpm + ReplyLines * Cardinality(Threads)
    /\ permits + Cardinality(Holding(stream)) = Permits
    /\ failures + Cardinality(Alive(stream)) <= opened
    /\ costed + Cardinality(Unpaid(stream)) <= opened

(* These sets are finite, and no more is to come than every line of all.    *)
LEMMA StreamSets ==
    ASSUME NEW st
    PROVE  /\ IsFiniteSet(Holding(st)) /\ Cardinality(Holding(st)) \in Nat
           /\ IsFiniteSet(Alive(st)) /\ Cardinality(Alive(st)) \in Nat
           /\ IsFiniteSet(Unpaid(st)) /\ Cardinality(Unpaid(st)) \in Nat
           /\ IsFiniteSet(Coming(st)) /\ Cardinality(Coming(st)) \in Nat
           /\ Cardinality(Coming(st)) <= ReplyLines * Cardinality(Threads)
           /\ ReplyLines * Cardinality(Threads) \in Nat
<1>1. Holding(st) \subseteq Threads /\ Alive(st) \subseteq Threads /\ Unpaid(st) \subseteq Threads
  BY DEF Holding, Alive, Unpaid
<1>2. IsFiniteSet(1 .. ReplyLines) /\ Cardinality(1 .. ReplyLines) = ReplyLines
  <2>1. ReplyLines \in Int /\ 1 \in Int /\ ~(1 > ReplyLines) /\ ReplyLines - 1 + 1 = ReplyLines
    BY ChunkConstants
  <2>2. /\ IsFiniteSet(1 .. ReplyLines)
        /\ Cardinality(1 .. ReplyLines) = (IF 1 > ReplyLines THEN 0 ELSE ReplyLines - 1 + 1)
    BY <2>1, FS_Interval
  <2> QED BY <2>1, <2>2
<1>3. /\ IsFiniteSet(Threads \X (1 .. ReplyLines))
      /\ Cardinality(Threads \X (1 .. ReplyLines)) = Cardinality(Threads) * Cardinality(1 .. ReplyLines)
  BY <1>2, ChunkConstants, FS_Product
<1>4. Cardinality(Threads) * ReplyLines = ReplyLines * Cardinality(Threads) /\ ReplyLines * Cardinality(Threads) \in Nat
  BY ChunkConstants
<1>5. Coming(st) \subseteq Threads \X (1 .. ReplyLines)
  BY DEF Coming
<1>6. IsFiniteSet(Coming(st)) /\ Cardinality(Coming(st)) <= Cardinality(Threads \X (1 .. ReplyLines))
  BY <1>3, <1>5, FS_Subset
<1>7. IsFiniteSet(Holding(st)) /\ IsFiniteSet(Alive(st)) /\ IsFiniteSet(Unpaid(st))
  BY <1>1, ChunkConstants, FS_Subset
<1> QED BY <1>2, <1>3, <1>4, <1>6, <1>7, FS_CardinalityType

(* One fewer in each, or no more.                                           *)
LEMMA Fewer ==
    ASSUME NEW S, NEW T, IsFiniteSet(S), T \subseteq S
    PROVE  /\ Cardinality(T) <= Cardinality(S)
           /\ \A x \in S \ T : Cardinality(T) + 1 <= Cardinality(S)
<1>1. Cardinality(T) <= Cardinality(S) /\ Cardinality(T) \in Nat /\ Cardinality(S) \in Nat
  BY FS_Subset, FS_CardinalityType
<1>2. ASSUME NEW x \in S \ T PROVE Cardinality(T) + 1 <= Cardinality(S)
  <2>1. IsFiniteSet(S \ {x}) /\ Cardinality(S \ {x}) = Cardinality(S) - 1
    BY FS_RemoveElement
  <2>2. Cardinality(T) <= Cardinality(S \ {x})
    <3>1. T \subseteq S \ {x}
      OBVIOUS
    <3> QED BY <2>1, <3>1, FS_Subset
  <2> QED BY <1>1, <2>1, <2>2
<1> QED BY <1>1, <1>2

(* A stream that has told nothing yet.                                      *)
LEMMA NothingRead == Reading(0, <<>>, <<>>) /\ <<>> \in Gotten
<1>1. <<>> \in Seq(1 .. ReplyLines) /\ <<>> \in Seq(Nat) /\ DOMAIN <<>> = {}
  BY EmptySeq
<1>2. <<>> \in Gotten /\ <<>> \in Frames
  BY <1>1 DEF Gotten, Frames
<1>3. \A k \in 1 .. ReplyLines : ~(2 * k <= 0)
  BY ChunkConstants
<1> QED BY <1>1, <1>2, <1>3, ChunkConstants DEF Reading

(* The gateway, at the start.                                               *)
LEMMA ChunksStart == Chunks!Init => ChunkInv
<1> SUFFICES ASSUME Chunks!Init PROVE ChunkInv
  OBVIOUS
<1>1. /\ permits = Permits /\ counted = 0 /\ costed = 0 /\ failures = 0 /\ opened = 0
      /\ DOMAIN stream = Threads /\ \A s \in Threads : stream[s] = Chunks!Idle
      /\ DOMAIN frames = Threads /\ \A s \in Threads : frames[s] = <<>>
  BY DEF Chunks!Init
<1>2. Chunks!Idle.pc = "idle" /\ Chunks!Idle.at = 0 /\ Chunks!Idle.chunks = <<>>
  BY DEF Chunks!Idle
<1>3. Chunks!Idle \in Streamed
  BY NothingRead DEF Chunks!Idle, Streamed, StreamPlaces
<1>4. \A s \in Threads : Reading(stream[s].at, stream[s].chunks, frames[s])
  BY <1>1, <1>2, NothingRead
<1>5. Holding(stream) = {} /\ Alive(stream) = {} /\ Unpaid(stream) = {} /\ Coming(stream) = {}
  BY <1>1, <1>2 DEF Holding, Alive, Unpaid, Coming
<1>6. Cardinality({}) = 0
  BY FS_EmptySet
<1>7. 0 + 0 < GlobalRpm + ReplyLines * Cardinality(Threads)
  BY ChunkConstants, StreamSets
<1>8. Permits + 0 = Permits /\ 0 + 0 <= 0 /\ Permits \in Int
  BY ChunkConstants
<1> QED BY <1>1, <1>3, <1>4, <1>5, <1>6, <1>7, <1>8 DEF ChunkInv

(* A stream goes on to another place, and nothing else of it changes.       *)
LEMMA StreamGoes ==
    ASSUME DOMAIN stream = Threads, \A s \in Threads : stream[s] \in Streamed,
           NEW s \in Threads, NEW pc \in StreamPlaces, Chunks!Go(s, pc)
    PROVE  /\ DOMAIN stream' = Threads /\ stream'[s] \in Streamed
           /\ stream'[s].pc = pc /\ stream'[s].at = stream[s].at /\ stream'[s].chunks = stream[s].chunks
           /\ \A t \in Threads \ {s} : stream'[t] = stream[t]
<1>1. stream' = [stream EXCEPT ![s].pc = pc]
  BY DEF Chunks!Go
<1>2. stream' = [stream EXCEPT ![s] = [stream[s] EXCEPT !.pc = pc]]
  BY <1>1
<1>3. /\ [stream[s] EXCEPT !.pc = pc] \in Streamed /\ [stream[s] EXCEPT !.pc = pc].pc = pc
      /\ [stream[s] EXCEPT !.pc = pc].at = stream[s].at
      /\ [stream[s] EXCEPT !.pc = pc].chunks = stream[s].chunks
  BY DEF Streamed
<1> DEFINE r == [stream[s] EXCEPT !.pc = pc]
<1>4. stream' = [stream EXCEPT ![s] = r] /\ r \in Streamed /\ r.pc = pc /\ r.at = stream[s].at /\ r.chunks = stream[s].chunks
  BY <1>2, <1>3
<1> HIDE DEF r
<1> QED BY <1>4

(* The record of a stream that begins.                                      *)
LEMMA Beginning ==
    /\ [Chunks!Idle EXCEPT !.pc = "check"] \in Streamed
    /\ [Chunks!Idle EXCEPT !.pc = "check"].pc = "check"
    /\ [Chunks!Idle EXCEPT !.pc = "check"].at = 0
    /\ [Chunks!Idle EXCEPT !.pc = "check"].chunks = <<>>
<1>1. Chunks!Idle \in Streamed
  BY NothingRead DEF Chunks!Idle, Streamed, StreamPlaces
<1>2. Chunks!Idle.at = 0 /\ Chunks!Idle.chunks = <<>>
  BY DEF Chunks!Idle
<1>3. "check" \in StreamPlaces
  BY DEF StreamPlaces
<1> QED BY <1>1, <1>2, <1>3 DEF Streamed

(* A permit is taken, and a stream begins.                                  *)
LEMMA Acquires ==
    ASSUME ChunkInv, NEW s \in Threads, Chunks!Acquire(s)
    PROVE  ChunkInv'
<1> DEFINE r == [Chunks!Idle EXCEPT !.pc = "check"]
<1>1. /\ stream[s].pc \in {"idle", "over"}
      /\ permits' = permits - 1 /\ opened' = opened + 1
      /\ stream' = [stream EXCEPT ![s] = r]
      /\ frames' = [frames EXCEPT ![s] = <<>>]
      /\ UNCHANGED <<counted, costed, failures>>
  BY DEF Chunks!Acquire
<1>2. r \in Streamed /\ r.pc = "check" /\ r.at = 0 /\ r.chunks = <<>>
  BY Beginning
<1> HIDE DEF r
<1>3. /\ permits \in Int /\ counted \in Nat /\ costed \in Nat /\ failures \in Nat /\ opened \in Nat
      /\ DOMAIN stream = Threads /\ \A t \in Threads : stream[t] \in Streamed
      /\ DOMAIN frames = Threads
      /\ counted + Cardinality(Coming(stream)) < GlobalRpm + ReplyLines * Cardinality(Threads)
      /\ permits + Cardinality(Holding(stream)) = Permits
      /\ failures + Cardinality(Alive(stream)) <= opened
      /\ costed + Cardinality(Unpaid(stream)) <= opened
      /\ \A t \in Threads : Reading(stream[t].at, stream[t].chunks, frames[t])
  BY DEF ChunkInv
<1>4. /\ DOMAIN stream' = Threads /\ stream'[s] = r
      /\ \A t \in Threads \ {s} : stream'[t] = stream[t]
      /\ DOMAIN frames' = Threads /\ frames'[s] = <<>>
      /\ \A t \in Threads \ {s} : frames'[t] = frames[t]
  BY <1>1, <1>3
<1>5. /\ Holding(stream') = Holding(stream) \cup {s} /\ s \notin Holding(stream)
      /\ Alive(stream') = Alive(stream) \cup {s} /\ s \notin Alive(stream)
  BY <1>1, <1>2, <1>4 DEF Holding, Alive
<1>6. Unpaid(stream') = Unpaid(stream) \cup {s} /\ s \notin Unpaid(stream)
  <2>1. 0 < 2 * ReplyLines
    BY ChunkConstants
  <2>2. \A t : t \in Unpaid(stream') <=> t \in Alive(stream') /\ stream'[t].at < 2 * ReplyLines
    BY DEF Unpaid
  <2>3. \A t : t \in Unpaid(stream) <=> t \in Alive(stream) /\ stream[t].at < 2 * ReplyLines
    BY DEF Unpaid
  <2>4. \A t \in Alive(stream) : t # s /\ stream'[t] = stream[t]
    BY <1>4, <1>5 DEF Alive
  <2>5. stream'[s].at < 2 * ReplyLines
    BY <1>2, <1>4, <2>1
  <2> QED BY <1>5, <2>2, <2>3, <2>4, <2>5
<1>7. Coming(stream') = Coming(stream)
  BY <1>1, <1>2, <1>4 DEF Coming
<1>8. /\ Cardinality(Holding(stream')) = Cardinality(Holding(stream)) + 1
      /\ Cardinality(Alive(stream')) = Cardinality(Alive(stream)) + 1
      /\ Cardinality(Unpaid(stream')) = Cardinality(Unpaid(stream)) + 1
  BY <1>5, <1>6, StreamSets, FS_AddElement
<1>9. \A t \in Threads : /\ stream'[t] \in Streamed
                         /\ Reading(stream'[t].at, stream'[t].chunks, frames'[t])
  BY <1>2, <1>3, <1>4, NothingRead
<1>10. /\ permits' \in Int /\ opened' \in Nat
       /\ permits' + Cardinality(Holding(stream')) = Permits
       /\ failures' + Cardinality(Alive(stream')) <= opened'
       /\ costed' + Cardinality(Unpaid(stream')) <= opened'
  <2>1. /\ Cardinality(Holding(stream)) \in Nat /\ Cardinality(Alive(stream)) \in Nat
        /\ Cardinality(Unpaid(stream)) \in Nat
    BY StreamSets
  <2>2. permits' \in Int /\ permits' + Cardinality(Holding(stream')) = Permits
    BY <1>1, <1>3, <1>8, <2>1, ChunkConstants
  <2>3. failures' + Cardinality(Alive(stream')) <= opened'
    BY <1>1, <1>3, <1>8, <2>1
  <2>4. opened' \in Nat /\ costed' + Cardinality(Unpaid(stream')) <= opened'
    BY <1>1, <1>3, <1>8, <2>1
  <2> QED BY <2>2, <2>3, <2>4
<1> QED BY <1>1, <1>3, <1>4, <1>7, <1>9, <1>10 DEF ChunkInv

(* A stream goes on with the lines it has: the sets it is in, and the rest. *)
LEMMA Onwards ==
    ASSUME ChunkInv, NEW s \in Threads, NEW pc \in StreamPlaces, Chunks!Go(s, pc), UNCHANGED frames
    PROVE  /\ DOMAIN stream' = Threads /\ \A t \in Threads : stream'[t] \in Streamed
           /\ DOMAIN frames' = Threads
           /\ \A t \in Threads : Reading(stream'[t].at, stream'[t].chunks, frames'[t])
           /\ stream'[s].pc = pc /\ stream'[s].at = stream[s].at
           /\ \A t \in Threads \ {s} : stream'[t] = stream[t]
           /\ stream[s].pc \in {"check", "connect", "open"} /\ pc \in {"connect", "open"} =>
                 Alive(stream') = Alive(stream) /\ Unpaid(stream') = Unpaid(stream)
           /\ stream[s].pc \in {"connect", "open"} => Coming(stream') \subseteq Coming(stream)
           /\ pc = "over" => Coming(stream') \subseteq Coming(stream)
           /\ stream[s].pc \in {"check", "connect", "open"} /\ pc = "over" =>
                 /\ Alive(stream') = Alive(stream) \ {s} /\ s \in Alive(stream)
                 /\ Unpaid(stream') \subseteq Unpaid(stream)
           /\ stream[s].pc \in {"check", "connect"} /\ pc \notin {"check", "connect"} =>
                 Holding(stream') = Holding(stream) \ {s} /\ s \in Holding(stream)
           /\ stream[s].pc = "check" /\ pc = "connect" => Holding(stream') = Holding(stream)
           /\ stream[s].pc = "open" /\ pc = "over" => Holding(stream') = Holding(stream)
<1>1. /\ DOMAIN stream = Threads /\ \A t \in Threads : stream[t] \in Streamed
      /\ DOMAIN frames = Threads
      /\ \A t \in Threads : Reading(stream[t].at, stream[t].chunks, frames[t])
  BY DEF ChunkInv
<1>2. /\ DOMAIN stream' = Threads /\ stream'[s] \in Streamed
      /\ stream'[s].pc = pc /\ stream'[s].at = stream[s].at /\ stream'[s].chunks = stream[s].chunks
      /\ \A t \in Threads \ {s} : stream'[t] = stream[t]
  BY <1>1, StreamGoes
<1>3. /\ \A t \in Threads : stream'[t] \in Streamed
      /\ \A t \in Threads : Reading(stream'[t].at, stream'[t].chunks, frames'[t])
  BY <1>1, <1>2
<1>4. stream[s].pc \in {"check", "connect", "open"} /\ pc \in {"connect", "open"} =>
         Alive(stream') = Alive(stream) /\ Unpaid(stream') = Unpaid(stream)
  BY <1>2 DEF Alive, Unpaid
<1>5. /\ stream[s].pc \in {"connect", "open"} => Coming(stream') \subseteq Coming(stream)
      /\ pc = "over" => Coming(stream') \subseteq Coming(stream)
  BY <1>2 DEF Coming
<1>6. stream[s].pc \in {"check", "connect", "open"} /\ pc = "over" =>
         /\ Alive(stream') = Alive(stream) \ {s} /\ s \in Alive(stream)
         /\ Unpaid(stream') \subseteq Unpaid(stream)
  BY <1>2 DEF Alive, Unpaid
<1>7. /\ stream[s].pc \in {"check", "connect"} /\ pc \notin {"check", "connect"} =>
            Holding(stream') = Holding(stream) \ {s} /\ s \in Holding(stream)
      /\ stream[s].pc = "check" /\ pc = "connect" => Holding(stream') = Holding(stream)
      /\ stream[s].pc = "open" /\ pc = "over" => Holding(stream') = Holding(stream)
  BY <1>2 DEF Holding
<1> QED BY <1>1, <1>2, <1>3, <1>4, <1>5, <1>6, <1>7

(* A stream that was under way is over.                                     *)
LEMMA StreamsEnd ==
    ASSUME ChunkInv, NEW s \in Threads, Chunks!Go(s, "over"), UNCHANGED frames,
           stream[s].pc \in {"check", "connect", "open"},
           opened' = opened, costed' = costed,
           counted' \in Nat, counted' <= counted,
           failures' \in {failures, failures + 1},
           permits' = (IF stream[s].pc = "open" THEN permits ELSE permits + 1)
    PROVE  ChunkInv'
<1>1. "over" \in StreamPlaces
  BY DEF StreamPlaces
<1>2. /\ DOMAIN stream' = Threads /\ \A t \in Threads : stream'[t] \in Streamed
      /\ DOMAIN frames' = Threads
      /\ \A t \in Threads : Reading(stream'[t].at, stream'[t].chunks, frames'[t])
      /\ Coming(stream') \subseteq Coming(stream)
      /\ Alive(stream') = Alive(stream) \ {s} /\ s \in Alive(stream)
      /\ Unpaid(stream') \subseteq Unpaid(stream)
      /\ stream[s].pc # "open" => Holding(stream') = Holding(stream) \ {s} /\ s \in Holding(stream)
      /\ stream[s].pc = "open" => Holding(stream') = Holding(stream)
  BY <1>1, Onwards
<1>3. /\ permits \in Int /\ counted \in Nat /\ costed \in Nat /\ failures \in Nat /\ opened \in Nat
      /\ counted + Cardinality(Coming(stream)) < GlobalRpm + ReplyLines * Cardinality(Threads)
      /\ permits + Cardinality(Holding(stream)) = Permits
      /\ failures + Cardinality(Alive(stream)) <= opened
      /\ costed + Cardinality(Unpaid(stream)) <= opened
  BY DEF ChunkInv
<1>4. /\ Cardinality(Coming(stream')) <= Cardinality(Coming(stream))
      /\ Cardinality(Unpaid(stream')) <= Cardinality(Unpaid(stream))
  BY <1>2, StreamSets, Fewer
<1>5. Cardinality(Alive(stream')) = Cardinality(Alive(stream)) - 1
  <2>1. IsFiniteSet(Alive(stream)) /\ s \in Alive(stream)
    BY <1>2, StreamSets
  <2>2. Cardinality(Alive(stream) \ {s}) = Cardinality(Alive(stream)) - 1
    BY <2>1, FS_RemoveElement
  <2> QED BY <1>2, <2>2
<1>6. permits' \in Int /\ permits' + Cardinality(Holding(stream')) = Permits
  <2>1. CASE stream[s].pc = "open"
    BY <1>2, <1>3, <2>1
  <2>2. CASE stream[s].pc # "open"
    <3>1. Cardinality(Holding(stream')) = Cardinality(Holding(stream)) - 1
      BY <1>2, <2>2, StreamSets, FS_RemoveElement
    <3> QED BY <1>3, <2>2, <3>1, StreamSets, ChunkConstants
  <2> QED BY <2>1, <2>2
<1>7. failures' \in Nat /\ failures' + Cardinality(Alive(stream')) <= opened'
  BY <1>3, <1>5, StreamSets
<1>8. costed' + Cardinality(Unpaid(stream')) <= opened'
  BY <1>3, <1>4, StreamSets
<1>9. counted' + Cardinality(Coming(stream')) < GlobalRpm + ReplyLines * Cardinality(Threads)
  <2>1. Cardinality(Coming(stream)) \in Nat /\ Cardinality(Coming(stream')) \in Nat
        /\ ReplyLines * Cardinality(Threads) \in Nat /\ GlobalRpm \in Nat
    BY StreamSets, ChunkConstants
  <2> QED BY <1>3, <1>4, <2>1
<1> QED BY <1>2, <1>3, <1>6, <1>7, <1>8, <1>9 DEF ChunkInv

(* A stream is admitted while the window is not full: all lines of it may   *)
(* still come, and of the others what was to come.                          *)
LEMMA Admits ==
    ASSUME ChunkInv, NEW s \in Threads, Chunks!Admit(s)
    PROVE  ChunkInv'
<1>1. /\ stream[s].pc = "check" /\ counted' \in {counted, 0}
      /\ \/ counted' < GlobalRpm /\ Chunks!Go(s, "connect") /\ UNCHANGED permits
         \/ Chunks!Go(s, "over") /\ permits' = permits + 1
      /\ UNCHANGED <<costed, failures, frames, opened>>
  BY DEF Chunks!Admit, Chunks!At
<1>2. /\ permits \in Int /\ counted \in Nat /\ costed \in Nat /\ failures \in Nat /\ opened \in Nat
      /\ permits + Cardinality(Holding(stream)) = Permits
      /\ failures + Cardinality(Alive(stream)) <= opened
      /\ costed + Cardinality(Unpaid(stream)) <= opened
  BY DEF ChunkInv
<1>3. counted' \in Nat /\ counted' <= counted
  BY <1>1, <1>2
<1>4. CASE Chunks!Go(s, "over") /\ permits' = permits + 1
  BY <1>1, <1>3, <1>4, StreamsEnd
<1>5. CASE counted' < GlobalRpm /\ Chunks!Go(s, "connect") /\ UNCHANGED permits
  <2>1. "connect" \in StreamPlaces
    BY DEF StreamPlaces
  <2>2. /\ DOMAIN stream' = Threads /\ \A t \in Threads : stream'[t] \in Streamed
        /\ DOMAIN frames' = Threads
        /\ \A t \in Threads : Reading(stream'[t].at, stream'[t].chunks, frames'[t])
        /\ Alive(stream') = Alive(stream) /\ Unpaid(stream') = Unpaid(stream)
        /\ Holding(stream') = Holding(stream)
    BY <1>1, <1>5, <2>1, Onwards
  <2>3. counted' + Cardinality(Coming(stream')) < GlobalRpm + ReplyLines * Cardinality(Threads)
    <3>1. /\ Cardinality(Coming(stream')) \in Nat /\ ReplyLines * Cardinality(Threads) \in Nat
          /\ Cardinality(Coming(stream')) <= ReplyLines * Cardinality(Threads) /\ GlobalRpm \in Nat
      BY StreamSets, ChunkConstants
    <3> QED BY <1>3, <1>5, <3>1
  <2> QED BY <1>1, <1>2, <1>3, <1>5, <2>2, <2>3 DEF ChunkInv
<1> QED BY <1>1, <1>4, <1>5

(* The provider answers with a stream, or fails; the permit goes.           *)
LEMMA Connects ==
    ASSUME ChunkInv, NEW s \in Threads, Chunks!Connect(s)
    PROVE  ChunkInv'
<1>1. /\ stream[s].pc = "connect" /\ permits' = permits + 1
      /\ Chunks!Go(s, "open") \/ Chunks!Go(s, "over")
      /\ UNCHANGED <<counted, costed, failures, frames, opened>>
  BY DEF Chunks!Connect, Chunks!At
<1>2. /\ permits \in Int /\ counted \in Nat /\ costed \in Nat /\ failures \in Nat /\ opened \in Nat
      /\ counted + Cardinality(Coming(stream)) < GlobalRpm + ReplyLines * Cardinality(Threads)
      /\ permits + Cardinality(Holding(stream)) = Permits
      /\ failures + Cardinality(Alive(stream)) <= opened
      /\ costed + Cardinality(Unpaid(stream)) <= opened
  BY DEF ChunkInv
<1>3. CASE Chunks!Go(s, "over")
  <2>1. counted' \in Nat /\ counted' <= counted
    BY <1>1, <1>2
  <2> QED BY <1>1, <1>3, <2>1, StreamsEnd
<1>4. CASE Chunks!Go(s, "open")
  <2>1. "open" \in StreamPlaces
    BY DEF StreamPlaces
  <2>2. /\ DOMAIN stream' = Threads /\ \A t \in Threads : stream'[t] \in Streamed
        /\ DOMAIN frames' = Threads
        /\ \A t \in Threads : Reading(stream'[t].at, stream'[t].chunks, frames'[t])
        /\ Alive(stream') = Alive(stream) /\ Unpaid(stream') = Unpaid(stream)
        /\ Holding(stream') = Holding(stream) \ {s} /\ s \in Holding(stream)
        /\ Coming(stream') \subseteq Coming(stream)
    BY <1>1, <1>4, <2>1, Onwards
  <2>3. Cardinality(Coming(stream')) <= Cardinality(Coming(stream))
    BY <2>2, StreamSets, Fewer
  <2>4. Cardinality(Holding(stream')) = Cardinality(Holding(stream)) - 1
    BY <2>2, StreamSets, FS_RemoveElement
  <2>5. permits' \in Int /\ permits' + Cardinality(Holding(stream')) = Permits
    BY <1>1, <1>2, <2>4, StreamSets, ChunkConstants
  <2>6. counted' + Cardinality(Coming(stream')) < GlobalRpm + ReplyLines * Cardinality(Threads)
    <3>1. Cardinality(Coming(stream)) \in Nat /\ Cardinality(Coming(stream')) \in Nat
          /\ ReplyLines * Cardinality(Threads) \in Nat /\ GlobalRpm \in Nat
      BY StreamSets, ChunkConstants
    <3> QED BY <1>1, <1>2, <2>3, <3>1
  <2> QED BY <1>1, <1>2, <2>2, <2>5, <2>6 DEF ChunkInv
<1> QED BY <1>1, <1>3, <1>4

(* What a frame makes of a stream.                                          *)
LEMMA Framed ==
    ASSUME ChunkInv, NEW s \in Threads, NEW to \in Nat, NEW new \in Gotten,
           stream[s].chunks \o new \in Gotten,
           stream' = [stream EXCEPT ![s].at = to, ![s].chunks = @ \o new]
    PROVE  /\ DOMAIN stream' = Threads /\ stream'[s] \in Streamed
           /\ stream'[s].pc = stream[s].pc /\ stream'[s].at = to
           /\ stream'[s].chunks = stream[s].chunks \o new
           /\ \A t \in Threads \ {s} : stream'[t] = stream[t]
<1> DEFINE q == [stream[s] EXCEPT !.at = to]  r == [q EXCEPT !.chunks = stream[s].chunks \o new]
<1>1. DOMAIN stream = Threads /\ stream[s] \in Streamed
  BY DEF ChunkInv
<1>2. q \in Streamed /\ q.pc = stream[s].pc /\ q.at = to /\ q.chunks = stream[s].chunks
  BY <1>1 DEF Streamed
<1>3. stream' = [[stream EXCEPT ![s] = q] EXCEPT ![s].chunks = @ \o new]
  BY <1>1
<1> HIDE DEF q
<1>4. /\ r \in Streamed /\ r.pc = stream[s].pc /\ r.at = to
      /\ r.chunks = stream[s].chunks \o new
  BY <1>2 DEF Streamed
<1>5. [stream EXCEPT ![s] = q][s] = q
  BY <1>1
<1>6. stream' = [[stream EXCEPT ![s] = q] EXCEPT ![s] = r]
  BY <1>2, <1>3, <1>5
<1> HIDE DEF r
<1> QED BY <1>1, <1>4, <1>6

(* What ReplyLines was counted of a frame.                                       *)
LEMMA FrameCounts ==
    ASSUME NEW at \in Nat, NEW to \in Nat, at < to, to <= 2 * ReplyLines
    PROVE  \/ Chunks!Parsed(at + 1, to) = <<>> /\ Len(Chunks!Parsed(at + 1, to)) = 0
              /\ ReplyLines \notin Chunks!ToSet(Chunks!Parsed(at + 1, to))
           \/ \E c \in 1 .. ReplyLines :
                 /\ Chunks!Parsed(at + 1, to) = <<c>> /\ Len(Chunks!Parsed(at + 1, to)) = 1
                 /\ at + 1 <= 2 * c - 1 /\ 2 * c <= to
                 /\ ReplyLines \in Chunks!ToSet(Chunks!Parsed(at + 1, to)) => at < 2 * ReplyLines /\ to = 2 * ReplyLines
<1>1. CASE Chunks!Parsed(at + 1, to) = <<>>
  <2>1. Chunks!ToSet(<<>>) = {} /\ Len(<<>>) = 0
    BY DEF Chunks!ToSet
  <2> QED BY <1>1, <2>1
<1>2. CASE \E c \in Chunks!Whole(at + 1, to) : Chunks!Parsed(at + 1, to) = <<c>>
  <2>1. PICK c \in Chunks!Whole(at + 1, to) : Chunks!Parsed(at + 1, to) = <<c>>
    BY <1>2
  <2>2. c \in 1 .. ReplyLines /\ at + 1 <= 2 * c - 1 /\ 2 * c <= to
    BY DEF Chunks!Whole
  <2>3. Chunks!ToSet(<<c>>) = {c} /\ Len(<<c>>) = 1
    BY DEF Chunks!ToSet
  <2>4. ReplyLines = c => at < 2 * ReplyLines /\ to = 2 * ReplyLines
    BY <2>2, ChunkConstants
  <2>5. ReplyLines \in Chunks!ToSet(Chunks!Parsed(at + 1, to)) => ReplyLines = c
    BY <2>1, <2>3
  <2> QED BY <2>1, <2>2, <2>3, <2>4, <2>5
<1> QED BY <1>1, <1>2, FirstWhole

(* A frame of an open stream comes.                                         *)
LEMMA FrameComes ==
    ASSUME ChunkInv, NEW s \in Threads, Chunks!Frame(s)
    PROVE  ChunkInv'
<1> DEFINE at == stream[s].at
<1>1. PICK to \in at + 1 .. 2 * ReplyLines :
         /\ stream' = [stream EXCEPT ![s].at = to, ![s].chunks = @ \o Chunks!Parsed(at + 1, to)]
         /\ frames' = [frames EXCEPT ![s] = Append(@, to)]
         /\ counted' = Chunks!Counting(Chunks!Parsed(at + 1, to))
         /\ costed' = costed + (IF ReplyLines \in Chunks!ToSet(Chunks!Parsed(at + 1, to)) THEN 1 ELSE 0)
  BY DEF Chunks!Frame
<1>2. stream[s].pc = "open" /\ UNCHANGED <<permits, failures, opened>>
  BY DEF Chunks!Frame, Chunks!At
<1> DEFINE new == Chunks!Parsed(at + 1, to)
<1>3. /\ permits \in Int /\ counted \in Nat /\ costed \in Nat /\ failures \in Nat /\ opened \in Nat
      /\ DOMAIN stream = Threads /\ \A t \in Threads : stream[t] \in Streamed
      /\ DOMAIN frames = Threads
      /\ \A t \in Threads : Reading(stream[t].at, stream[t].chunks, frames[t])
      /\ counted + Cardinality(Coming(stream)) < GlobalRpm + ReplyLines * Cardinality(Threads)
      /\ permits + Cardinality(Holding(stream)) = Permits
      /\ failures + Cardinality(Alive(stream)) <= opened
      /\ costed + Cardinality(Unpaid(stream)) <= opened
  BY DEF ChunkInv
<1>4. at \in Nat
  BY <1>3 DEF Streamed
<1>5. to \in Nat /\ at < to /\ to <= 2 * ReplyLines
  BY <1>1, <1>4, ChunkConstants
<1>6. Reading(to, stream[s].chunks \o new, Append(frames[s], to))
  BY <1>3, <1>5, ReadOn
<1>7. /\ \/ new = <<>> /\ Len(new) = 0 /\ ReplyLines \notin Chunks!ToSet(new)
         \/ \E c \in 1 .. ReplyLines :
               /\ new = <<c>> /\ Len(new) = 1 /\ at + 1 <= 2 * c - 1 /\ 2 * c <= to
               /\ ReplyLines \in Chunks!ToSet(new) => at < 2 * ReplyLines /\ to = 2 * ReplyLines
  BY <1>4, <1>5, FrameCounts
<1>8. new \in Gotten
  <2>1. CASE new = <<>>
    BY <2>1, NothingRead
  <2>2. CASE \E c \in 1 .. ReplyLines : new = <<c>>
    <3>1. PICK c \in 1 .. ReplyLines : new = <<c>>
      BY <2>2
    <3>2. /\ <<>> \in Seq(1 .. ReplyLines) /\ Append(<<>>, c) \in Seq(1 .. ReplyLines)
          /\ Append(<<>>, c) = <<>> \o <<c>> /\ <<>> \o <<c>> = <<c>>
      BY EmptySeq, Longer
    <3> QED BY <3>1, <3>2 DEF Gotten
  <2> QED BY <1>7, <2>1, <2>2
<1>9. counted' = counted + Len(new)
  BY <1>1 DEF Chunks!Counting
<1>10. costed' = costed + (IF ReplyLines \in Chunks!ToSet(new) THEN 1 ELSE 0)
  BY <1>1
<1>11. stream[s].chunks \o new \in Gotten
  BY <1>6 DEF Reading
<1>12. stream' = [stream EXCEPT ![s].at = to, ![s].chunks = @ \o new]
  BY <1>1
<1> HIDE DEF new, at
<1>13. /\ DOMAIN stream' = Threads /\ stream'[s] \in Streamed
       /\ stream'[s].pc = "open" /\ stream'[s].at = to
       /\ stream'[s].chunks = stream[s].chunks \o new
       /\ \A t \in Threads \ {s} : stream'[t] = stream[t]
  BY <1>2, <1>5, <1>8, <1>11, <1>12, Framed
<1>14. /\ DOMAIN frames' = Threads /\ frames'[s] = Append(frames[s], to)
       /\ \A t \in Threads \ {s} : frames'[t] = frames[t]
  BY <1>1, <1>3
<1>15. \A t \in Threads : /\ stream'[t] \in Streamed
                          /\ Reading(stream'[t].at, stream'[t].chunks, frames'[t])
  BY <1>3, <1>6, <1>13, <1>14
<1>16. Holding(stream') = Holding(stream) /\ Alive(stream') = Alive(stream)
  BY <1>2, <1>13 DEF Holding, Alive
<1>17. stream[s].at = at /\ s \in Alive(stream)
  BY <1>2 DEF at, Alive
<1>18. Unpaid(stream') \subseteq Unpaid(stream)
  <2> SUFFICES ASSUME NEW t \in Unpaid(stream') PROVE t \in Unpaid(stream)
    OBVIOUS
  <2>1. t \in Alive(stream) /\ stream'[t].at < 2 * ReplyLines /\ t \in Threads
    BY <1>16 DEF Unpaid, Alive
  <2>2. CASE t = s
    <3>1. at < 2 * ReplyLines
      BY <1>4, <1>5, <1>13, <2>1, <2>2, ChunkConstants
    <3> QED BY <1>17, <2>2, <3>1 DEF Unpaid
  <2>3. CASE t # s
    BY <1>13, <2>1, <2>3 DEF Unpaid
  <2> QED BY <2>2, <2>3
<1>19. costed' \in Nat /\ costed' + Cardinality(Unpaid(stream')) <= opened
  <2>1. /\ Cardinality(Unpaid(stream')) <= Cardinality(Unpaid(stream))
        /\ Cardinality(Unpaid(stream')) \in Nat /\ Cardinality(Unpaid(stream)) \in Nat
    BY <1>18, StreamSets, Fewer
  <2>2. CASE ReplyLines \in Chunks!ToSet(new)
    <3>1. at < 2 * ReplyLines /\ to = 2 * ReplyLines
      BY <1>7, <2>2
    <3>2. s \in Unpaid(stream)
      BY <1>17, <3>1 DEF Unpaid
    <3>3. s \notin Unpaid(stream')
      <4>1. ~(2 * ReplyLines < 2 * ReplyLines)
        BY ChunkConstants
      <4> QED BY <1>13, <3>1, <4>1 DEF Unpaid
    <3>4. Cardinality(Unpaid(stream')) + 1 <= Cardinality(Unpaid(stream))
      <4>1. IsFiniteSet(Unpaid(stream)) /\ s \in Unpaid(stream) \ Unpaid(stream')
        BY <3>2, <3>3, StreamSets
      <4> QED BY <1>18, <4>1, Fewer
    <3>5. costed' = costed + 1
      BY <1>10, <2>2
    <3> QED BY <1>3, <2>1, <3>4, <3>5
  <2>3. CASE ReplyLines \notin Chunks!ToSet(new)
    <3>1. costed' = costed + 0
      BY <1>10, <2>3
    <3> QED BY <1>3, <2>1, <3>1
  <2> QED BY <2>2, <2>3
<1>20. Coming(stream') \subseteq Coming(stream)
  <2> SUFFICES ASSUME NEW t \in Threads, NEW k \in 1 .. ReplyLines, <<t, k>> \in Coming(stream')
               PROVE  <<t, k>> \in Coming(stream)
    BY DEF Coming
  <2>1. stream'[t].pc \in {"connect", "open"} /\ stream'[t].at < 2 * k - 1
    BY DEF Coming
  <2>2. CASE t = s
    <3>1. at < 2 * k - 1
      BY <1>4, <1>5, <1>13, <2>1, <2>2, ChunkConstants
    <3> QED BY <1>2, <1>17, <2>2, <3>1 DEF Coming
  <2>3. CASE t # s
    BY <1>13, <2>1, <2>3 DEF Coming
  <2> QED BY <2>2, <2>3
<1>21. counted' \in Nat /\ counted' + Cardinality(Coming(stream')) < GlobalRpm + ReplyLines * Cardinality(Threads)
  <2>1. /\ Cardinality(Coming(stream')) <= Cardinality(Coming(stream))
        /\ Cardinality(Coming(stream')) \in Nat /\ Cardinality(Coming(stream)) \in Nat
        /\ ReplyLines * Cardinality(Threads) \in Nat /\ GlobalRpm \in Nat
    BY <1>20, StreamSets, Fewer, ChunkConstants
  <2>2. CASE Len(new) = 0
    <3>1. counted' = counted + 0
      BY <1>9, <2>2
    <3> QED BY <1>3, <2>1, <3>1
  <2>3. CASE \E c \in 1 .. ReplyLines : Len(new) = 1 /\ at + 1 <= 2 * c - 1 /\ 2 * c <= to
    <3>1. PICK c \in 1 .. ReplyLines : Len(new) = 1 /\ at + 1 <= 2 * c - 1 /\ 2 * c <= to
      BY <2>3
    <3>2. at < 2 * c - 1 /\ ~(to < 2 * c - 1)
      BY <1>4, <1>5, <3>1, ChunkConstants
    <3>3. <<s, c>> \in Coming(stream) \ Coming(stream')
      BY <1>2, <1>13, <1>17, <3>2 DEF Coming
    <3>4. Cardinality(Coming(stream')) + 1 <= Cardinality(Coming(stream))
      <4>1. IsFiniteSet(Coming(stream))
        BY StreamSets
      <4> QED BY <1>20, <3>3, <4>1, Fewer
    <3>5. counted' = counted + 1
      BY <1>9, <3>1
    <3> QED BY <1>3, <2>1, <3>4, <3>5
  <2> QED BY <1>7, <2>2, <2>3
<1> QED BY <1>2, <1>3, <1>13, <1>14, <1>15, <1>16, <1>19, <1>21 DEF ChunkInv

(* A stream breaks, ends, or was not waited for.                            *)
LEMMA StreamsStop ==
    ASSUME ChunkInv, NEW s \in Threads, Chunks!Break(s) \/ Chunks!End(s) \/ Chunks!HangUp(s)
    PROVE  ChunkInv'
<1>1. /\ Chunks!Go(s, "over") /\ UNCHANGED frames
      /\ stream[s].pc \in {"check", "connect", "open"}
      /\ opened' = opened /\ costed' = costed /\ counted' = counted
      /\ failures' \in {failures, failures + 1}
      /\ permits' = (IF stream[s].pc = "open" THEN permits ELSE permits + 1)
  BY DEF Chunks!Break, Chunks!End, Chunks!HangUp, Chunks!At
<1>2. counted' \in Nat /\ counted' <= counted
  BY <1>1 DEF ChunkInv
<1> QED BY <1>1, <1>2, StreamsEnd

(* A gateway at rest.                                                       *)
LEMMA ChunksStutter == ChunkInv /\ UNCHANGED Chunks!vars => ChunkInv'
<1> SUFFICES ASSUME ChunkInv, UNCHANGED Chunks!vars PROVE ChunkInv'
  OBVIOUS
<1>1. UNCHANGED <<permits, counted, costed, failures, stream, frames, opened>>
  BY DEF Chunks!vars
<1> QED BY <1>1 DEF ChunkInv

(* Streaming, with every step.                                              *)
LEMMA ChunksKept == ChunkInv /\ [Chunks!Next]_(Chunks!vars) => ChunkInv'
<1> SUFFICES ASSUME ChunkInv, [Chunks!Next]_(Chunks!vars) PROVE ChunkInv'
  OBVIOUS
<1>1. CASE UNCHANGED Chunks!vars
  BY <1>1, ChunksStutter
<1>2. CASE Chunks!Next
  <2>1. PICK s \in Threads :
           \/ Chunks!Acquire(s) \/ Chunks!Admit(s) \/ Chunks!Connect(s) \/ Chunks!Frame(s)
           \/ Chunks!Break(s) \/ Chunks!End(s) \/ Chunks!HangUp(s)
    BY <1>2 DEF Chunks!Next
  <2> QED BY <2>1, Acquires, Admits, Connects, FrameComes, StreamsStop
<1> QED BY <1>1, <1>2

(* What is promised of a stream follows.                                    *)
LEMMA ChunksHold == ChunkInv => Chunks!LostLinesShared /\ Chunks!OvershootByChunks
<1> SUFFICES ASSUME ChunkInv PROVE Chunks!LostLinesShared /\ Chunks!OvershootByChunks
  OBVIOUS
<1>1. ASSUME NEW s \in Threads, NEW k \in 1 .. stream[s].at \div 2
      PROVE  k \notin Chunks!ToSet(stream[s].chunks) <=>
                \/ \E i \in DOMAIN frames[s] : frames[s][i] = 2 * k - 1
                \/ \E i \in DOMAIN frames[s], j \in 1 .. k - 1 :
                      {j, k} \subseteq Chunks!Whole(Chunks!Start(s, i), frames[s][i])
  <2>1. /\ stream[s].at \in Nat /\ stream[s].at <= 2 * ReplyLines
        /\ \A x \in 1 .. ReplyLines : 2 * x <= stream[s].at =>
              (x \notin Chunks!ToSet(stream[s].chunks) <=> Missed(frames[s], x))
    BY DEF ChunkInv, Reading
  <2>2. k \in 1 .. ReplyLines /\ 2 * k <= stream[s].at
    BY <2>1, ChunkConstants
  <2>3. \A i : Chunks!Start(s, i) = LineAt(frames[s], i)
    BY DEF Chunks!Start, LineAt
  <2> QED BY <2>1, <2>2, <2>3 DEF Missed
<1>2. \A s \in Threads : \A i, j \in DOMAIN stream[s].chunks :
         i < j => stream[s].chunks[i] < stream[s].chunks[j]
  BY DEF ChunkInv, Reading
<1>3. Chunks!LostLinesShared
  BY <1>1, <1>2 DEF Chunks!LostLinesShared
<1>4. Chunks!Cardinality({s \in Threads : stream[s].pc \in {"check", "connect"}}) = Cardinality(Holding(stream))
  BY DEF Chunks!Cardinality, Cardinality, Holding
<1>5. /\ permits \in Int /\ counted \in Nat /\ costed \in Nat /\ failures \in Nat /\ opened \in Nat
      /\ counted + Cardinality(Coming(stream)) < GlobalRpm + ReplyLines * Cardinality(Threads)
      /\ permits + Cardinality(Holding(stream)) = Permits
      /\ failures + Cardinality(Alive(stream)) <= opened
      /\ costed + Cardinality(Unpaid(stream)) <= opened
  BY DEF ChunkInv
<1>6. /\ counted < GlobalRpm + ReplyLines * Cardinality(Threads)
      /\ permits = Permits - Cardinality(Holding(stream))
      /\ costed <= opened /\ failures <= opened
  <2>1. /\ Cardinality(Coming(stream)) \in Nat /\ ReplyLines * Cardinality(Threads) \in Nat
        /\ Cardinality(Holding(stream)) \in Nat /\ Cardinality(Alive(stream)) \in Nat
        /\ Cardinality(Unpaid(stream)) \in Nat /\ Permits \in Nat /\ GlobalRpm \in Nat
    BY StreamSets, ChunkConstants
  <2>2. counted < GlobalRpm + ReplyLines * Cardinality(Threads)
    BY <1>5, <2>1
  <2>3. permits = Permits - Cardinality(Holding(stream))
    BY <1>5, <2>1
  <2>4. costed <= opened /\ failures <= opened
    BY <1>5, <2>1
  <2> QED BY <2>2, <2>3, <2>4
<1>7. Chunks!OvershootByChunks
  BY <1>4, <1>6, ChunkConstants DEF Chunks!OvershootByChunks
<1> QED BY <1>3, <1>7

-----------------------------------------------------------------------------
(* A sequence with one element more.                                        *)
LEMMA Appended ==
    ASSUME NEW S, NEW s \in Seq(S), NEW x \in S
    PROVE  /\ Append(s, x) \in Seq(S) /\ Append(s, x) = s \o <<x>> /\ Len(s) \in Nat
           /\ Append(s, x) # <<>> /\ Len(Append(s, x)) = Len(s) + 1
           /\ DOMAIN s = 1 .. Len(s) /\ DOMAIN Append(s, x) = 1 .. Len(s) + 1
           /\ \A i \in 1 .. Len(s) : Append(s, x)[i] = s[i]
           /\ Append(s, x)[Len(s) + 1] = x
<1>1. /\ Append(s, x) \in Seq(S) /\ Append(s, x) # <<>> /\ Len(Append(s, x)) = Len(s) + 1
      /\ \A i \in 1 .. Len(s) : Append(s, x)[i] = s[i]
      /\ Append(s, x)[Len(s) + 1] = x
  BY AppendProperties
<1>2. Append(s, x) = s \o <<x>>
  BY AppendIsConcat
<1>3. Len(s) \in Nat /\ DOMAIN s = 1 .. Len(s)
  BY LenProperties
<1>4. DOMAIN Append(s, x) = 1 .. Len(s) + 1
  BY <1>1, LenProperties
<1> QED BY <1>1, <1>2, <1>3, <1>4


(* A sequence without one of its elements, and the end of a sequence.       *)
LEMMA OneRemoved ==
    ASSUME NEW S, NEW q \in Seq(S), NEW i \in 1 .. Len(q)
    PROVE  /\ Serve!RemoveAt(q, i) \in Seq(S) /\ Len(Serve!RemoveAt(q, i)) = Len(q) - 1
           /\ \A j \in 1 .. Len(q) - 1 : Serve!RemoveAt(q, i)[j] = q[IF j < i THEN j ELSE j + 1]
<1> DEFINE a == SubSeq(q, 1, i - 1)  b == SubSeq(q, i + 1, Len(q))
<1>1. Len(q) \in Nat /\ \A j \in 1 .. Len(q) : q[j] \in S
  BY LenProperties, ElementOfSeq
<1>2. a \in Seq(S) /\ Len(a) = i - 1 /\ \A j \in 1 .. i - 1 : a[j] = q[j]
  <2>1. 1 \in Int /\ i - 1 \in Int /\ \A j \in 1 .. i - 1 : q[j] \in S
    BY <1>1
  <2>2. /\ a \in Seq(S) /\ Len(a) = (IF 1 <= i - 1 THEN i - 1 - 1 + 1 ELSE 0)
        /\ \A j \in 1 .. i - 1 - 1 + 1 : a[j] = q[1 + j - 1]
    BY <2>1, SubSeqProperties
  <2>3. i - 1 - 1 + 1 = i - 1 /\ (~(1 <= i - 1) => i - 1 = 0) /\ \A j \in 1 .. i - 1 : 1 + j - 1 = j
    BY <1>1
  <2> QED BY <2>2, <2>3
<1>3. b \in Seq(S) /\ Len(b) = Len(q) - i /\ \A j \in 1 .. Len(q) - i : b[j] = q[i + j]
  <2>1. i + 1 \in Int /\ Len(q) \in Int /\ \A j \in i + 1 .. Len(q) : q[j] \in S
    BY <1>1
  <2>2. /\ b \in Seq(S) /\ Len(b) = (IF i + 1 <= Len(q) THEN Len(q) - (i + 1) + 1 ELSE 0)
        /\ \A j \in 1 .. Len(q) - (i + 1) + 1 : b[j] = q[i + 1 + j - 1]
    BY <2>1, SubSeqProperties
  <2>3. /\ Len(q) - (i + 1) + 1 = Len(q) - i /\ (~(i + 1 <= Len(q)) => Len(q) - i = 0)
        /\ \A j \in 1 .. Len(q) - i : i + 1 + j - 1 = i + j
    BY <1>1
  <2> QED BY <2>2, <2>3
<1>4. Serve!RemoveAt(q, i) = a \o b
  BY DEF Serve!RemoveAt
<1> HIDE DEF a, b
<1>5. /\ a \o b \in Seq(S) /\ Len(a \o b) = Len(a) + Len(b)
      /\ \A j \in 1 .. Len(a) + Len(b) : (a \o b)[j] = IF j <= Len(a) THEN a[j] ELSE b[j - Len(a)]
  BY <1>2, <1>3, ConcatProperties
<1>6. i - 1 + (Len(q) - i) = Len(q) - 1
  BY <1>1
<1>7. \A j \in 1 .. Len(q) - 1 : (a \o b)[j] = q[IF j < i THEN j ELSE j + 1]
  <2> TAKE j \in 1 .. Len(q) - 1
  <2>1. CASE j < i
    <3>1. j <= i - 1 /\ j \in 1 .. i - 1
      BY <1>1, <2>1
    <3> QED BY <1>2, <1>3, <1>5, <1>6, <2>1, <3>1
  <2>2. CASE ~(j < i)
    <3>1. ~(j <= i - 1) /\ j - (i - 1) \in 1 .. Len(q) - i /\ i + (j - (i - 1)) = j + 1
      BY <1>1, <2>2
    <3>2. (a \o b)[j] = b[j - (i - 1)]
      BY <1>2, <1>3, <1>5, <1>6, <3>1
    <3>3. b[j - (i - 1)] = q[i + (j - (i - 1))]
      BY <1>3, <3>1
    <3> QED BY <2>2, <3>1, <3>2, <3>3
  <2> QED BY <2>1, <2>2
<1> QED BY <1>2, <1>3, <1>4, <1>5, <1>6, <1>7

(* What a server has: its entries, its records of what it answered.         *)
Namings         == {Serve!Named(r) : r \in Requests} \cup {Serve!Unnamed}
Audited       == {r.route : r \in Requests} \cup {"auth_failure", "rate_limit_exceeded"}
ReplyStatuses == {200, 400, 401, 429, 500}
CacheKeys     == {Serve!Key(r) : r \in Requests}
Cached        == [key : CacheKeys, at : Nat, answer : Namings]
Replied       == [to : Threads, request : Requests, status : ReplyStatuses, named : Namings]
Entered       == [event : Audited, of : Namings]

(* The elements of a sequence that are in a set.                            *)
Tally(q, T) == Cardinality({i \in 1 .. Len(q) : q[i] \in T})

(* The answers of a route that name s, its failed analyses, and the entries.*)
AnswersOf(route, s)  == {r \in Replied : r.status = 200 /\ r.request.route = route /\ r.named = s}
FailuresOf(route, s) == {r \in Replied : r.status = 500 /\ r.request.route = "analyze"
                                          /\ route = "analyze" /\ r.request.session = s}
EntriesOf(route, s)  == {e \in Entered : e.event = route /\ e.of = s}

Balanced(given, log) == \A route \in Serve!Deceptive \cup {"analyze"} : \A s :
    /\ Tally(given, AnswersOf(route, s)) <= Tally(log, EntriesOf(route, s))
    /\ Tally(log, EntriesOf(route, s)) <= Tally(given, AnswersOf(route, s)) + Tally(given, FailuresOf(route, s))
OwnNames(given) == \A i \in 1 .. Len(given) :
    given[i].status = 200 =>
        given[i].named = given[i].request.session \/ (given[i].named = "static" /\ given[i].request.scans)
KeysOnce(entries) == \A i, j \in 1 .. Len(entries) : entries[i].key = entries[j].key => i = j

ServeInv ==
    /\ component \in {"don", "hisoka"} /\ wall \in Nat
    /\ cache \in Seq(Cached) /\ Len(cache) <= MaxSize /\ KeysOnce(cache)
    /\ DOMAIN waiting = Threads /\ \A c \in Threads : waiting[c] # Serve!None => waiting[c] \in Requests
    /\ replies \in Seq(Replied) /\ OwnNames(replies)
    /\ audit \in Seq(Entered) /\ Balanced(replies, audit)

(* One more element, and how often the set is met.                          *)
LEMMA TallyGrows ==
    ASSUME NEW S, NEW q \in Seq(S), NEW x \in S, NEW T
    PROVE  /\ Tally(Append(q, x), T) = Tally(q, T) + (IF x \in T THEN 1 ELSE 0)
           /\ Tally(q, T) \in Nat
<1> DEFINE n == Len(q)  p == Append(q, x)
           old == {i \in 1 .. n : q[i] \in T}  new == {i \in 1 .. n + 1 : p[i] \in T}
<1>1. n \in Nat /\ Len(p) = n + 1 /\ (\A i \in 1 .. n : p[i] = q[i]) /\ p[n + 1] = x
  BY Appended
<1>2. IsFiniteSet(1 .. n)
  BY <1>1, FS_Interval
<1>3. IsFiniteSet(old) /\ Cardinality(old) \in Nat
  <2>1. old \subseteq 1 .. n
    OBVIOUS
  <2> QED BY <1>2, <2>1, FS_Subset, FS_CardinalityType
<1> HIDE DEF n, p
<1>4. \A i : i \in 1 .. n + 1 <=> i \in 1 .. n \/ i = n + 1
  BY <1>1
<1>5. n + 1 \notin old
  BY <1>1
<1>6. x \in T => new = old \cup {n + 1}
  BY <1>1, <1>4
<1>7. x \notin T => new = old
  BY <1>1, <1>4
<1>8. Tally(q, T) = Cardinality(old) /\ Tally(p, T) = Cardinality(new)
  BY <1>1 DEF Tally, n
<1> HIDE DEF old, new
<1>9. x \in T => Cardinality(new) = Cardinality(old) + 1
  BY <1>3, <1>5, <1>6, FS_AddElement
<1>10. Cardinality(new) = Cardinality(old) + (IF x \in T THEN 1 ELSE 0)
  BY <1>3, <1>7, <1>9
<1> QED BY <1>3, <1>8, <1>10 DEF p

(* A reply that is an answer has its own name; any other does not matter.   *)
LEMMA NamesKept ==
    ASSUME NEW given \in Seq(Replied), OwnNames(given), NEW r \in Replied,
           r.status = 200 => r.named = r.request.session \/ (r.named = "static" /\ r.request.scans)
    PROVE  OwnNames(Append(given, r)) /\ Append(given, r) \in Seq(Replied)
<1>1. /\ Append(given, r) \in Seq(Replied) /\ Len(given) \in Nat /\ Len(Append(given, r)) = Len(given) + 1
      /\ \A i \in 1 .. Len(given) : Append(given, r)[i] = given[i]
      /\ Append(given, r)[Len(given) + 1] = r
  BY Appended
<1>2. \A i \in 1 .. Len(given) + 1 : i \in 1 .. Len(given) \/ i = Len(given) + 1
  BY <1>1
<1> QED BY <1>1, <1>2 DEF OwnNames

(* A reply that is no answer is balanced by whatever entry of no route, or  *)
(* by none.                                                                 *)
LEMMA RefusalBalances ==
    ASSUME NEW given \in Seq(Replied), NEW log \in Seq(Entered), Balanced(given, log),
           NEW r \in Replied, r.status # 200
    PROVE  /\ Balanced(Append(given, r), log)
           /\ \A e \in Entered : e.event \in {"auth_failure", "rate_limit_exceeded"} =>
                 Balanced(Append(given, r), Append(log, e)) /\ Append(log, e) \in Seq(Entered)
<1>1. ASSUME NEW route \in Serve!Deceptive \cup {"analyze"}, NEW s
      PROVE  /\ Tally(Append(given, r), AnswersOf(route, s)) = Tally(given, AnswersOf(route, s))
             /\ Tally(given, FailuresOf(route, s)) <= Tally(Append(given, r), FailuresOf(route, s))
             /\ Tally(given, AnswersOf(route, s)) \in Nat /\ Tally(given, FailuresOf(route, s)) \in Nat
             /\ Tally(Append(given, r), FailuresOf(route, s)) \in Nat
             /\ Tally(log, EntriesOf(route, s)) \in Nat
  <2>1. r \notin AnswersOf(route, s)
    BY DEF AnswersOf
  <2>2. /\ Tally(Append(given, r), AnswersOf(route, s)) = Tally(given, AnswersOf(route, s)) + 0
        /\ Tally(given, AnswersOf(route, s)) \in Nat
    BY <2>1, TallyGrows
  <2>3. /\ Tally(Append(given, r), FailuresOf(route, s))
             = Tally(given, FailuresOf(route, s)) + (IF r \in FailuresOf(route, s) THEN 1 ELSE 0)
        /\ Tally(given, FailuresOf(route, s)) \in Nat
    BY TallyGrows
  <2>4. Tally(log, EntriesOf(route, s)) \in Nat
    <3>1. PICK e : e = [event |-> "auth_failure", of |-> Serve!Unnamed]
      OBVIOUS
    <3>2. e \in Entered
      BY <3>1 DEF Entered, Audited, Namings
    <3> QED BY <3>2, TallyGrows
  <2> QED BY <2>2, <2>3, <2>4
<1>2. Balanced(Append(given, r), log)
  <2> SUFFICES ASSUME NEW route \in Serve!Deceptive \cup {"analyze"}, NEW s
               PROVE  /\ Tally(Append(given, r), AnswersOf(route, s)) <= Tally(log, EntriesOf(route, s))
                      /\ Tally(log, EntriesOf(route, s))
                            <= Tally(Append(given, r), AnswersOf(route, s)) + Tally(Append(given, r), FailuresOf(route, s))
    BY DEF Balanced
  <2>1. /\ Tally(given, AnswersOf(route, s)) <= Tally(log, EntriesOf(route, s))
        /\ Tally(log, EntriesOf(route, s))
              <= Tally(given, AnswersOf(route, s)) + Tally(given, FailuresOf(route, s))
    BY DEF Balanced
  <2> DEFINE a == Tally(given, AnswersOf(route, s))  f == Tally(given, FailuresOf(route, s))
             l == Tally(log, EntriesOf(route, s))
             b == Tally(Append(given, r), AnswersOf(route, s))
             g == Tally(Append(given, r), FailuresOf(route, s))
  <2>2. a <= l /\ l <= a + f /\ b = a /\ f <= g /\ a \in Nat /\ f \in Nat /\ g \in Nat /\ l \in Nat
    BY <1>1, <2>1
  <2> HIDE DEF a, f, l, b, g
  <2>3. b <= l /\ l <= b + g
    BY <2>2
  <2> QED BY <2>3 DEF b, l, g
<1>3. ASSUME NEW e \in Entered, e.event \in {"auth_failure", "rate_limit_exceeded"}
      PROVE  Balanced(Append(given, r), Append(log, e)) /\ Append(log, e) \in Seq(Entered)
  <2>1. ASSUME NEW route \in Serve!Deceptive \cup {"analyze"}, NEW s
        PROVE  Tally(Append(log, e), EntriesOf(route, s)) = Tally(log, EntriesOf(route, s))
    <3>1. e \notin EntriesOf(route, s)
      BY <1>3 DEF EntriesOf, Serve!Deceptive
    <3>2. Tally(Append(log, e), EntriesOf(route, s)) = Tally(log, EntriesOf(route, s)) + 0
      BY <3>1, TallyGrows
    <3> QED BY <1>1, <3>2
  <2>2. Append(log, e) \in Seq(Entered)
    BY Appended
  <2> QED BY <1>2, <2>1, <2>2 DEF Balanced
<1> QED BY <1>2, <1>3

(* A request that was handled, with its entry, is balanced.                 *)
LEMMA AnswerBalances ==
    ASSUME NEW given \in Seq(Replied), NEW log \in Seq(Entered), Balanced(given, log),
           NEW r \in Replied, NEW e \in Entered, e.event = r.request.route,
           \/ r.status = 200 /\ e.of = r.named
           \/ r.status = 500 /\ r.request.route = "analyze" /\ e.of = r.request.session
    PROVE  Balanced(Append(given, r), Append(log, e)) /\ Append(log, e) \in Seq(Entered)
<1> SUFFICES ASSUME NEW route \in Serve!Deceptive \cup {"analyze"}, NEW s
             PROVE  /\ Tally(Append(given, r), AnswersOf(route, s)) <= Tally(Append(log, e), EntriesOf(route, s))
                    /\ Tally(Append(log, e), EntriesOf(route, s))
                         <= Tally(Append(given, r), AnswersOf(route, s)) + Tally(Append(given, r), FailuresOf(route, s))
  <2>1. Append(log, e) \in Seq(Entered)
    BY Appended
  <2> QED BY <2>1 DEF Balanced
<1> DEFINE a == Tally(given, AnswersOf(route, s))  f == Tally(given, FailuresOf(route, s))
           l == Tally(log, EntriesOf(route, s))
<1>1. a <= l /\ l <= a + f
  BY DEF Balanced
<1>2. /\ Tally(Append(given, r), AnswersOf(route, s)) = a + (IF r \in AnswersOf(route, s) THEN 1 ELSE 0) /\ a \in Nat
  BY TallyGrows
<1>3. /\ Tally(Append(given, r), FailuresOf(route, s)) = f + (IF r \in FailuresOf(route, s) THEN 1 ELSE 0) /\ f \in Nat
  BY TallyGrows
<1>4. /\ Tally(Append(log, e), EntriesOf(route, s)) = l + (IF e \in EntriesOf(route, s) THEN 1 ELSE 0) /\ l \in Nat
  BY TallyGrows
<1>5. \/ (r \in AnswersOf(route, s)) = (e \in EntriesOf(route, s))
      \/ (r \in FailuresOf(route, s)) = (e \in EntriesOf(route, s)) /\ r \notin AnswersOf(route, s)
  <2>1. CASE r.status = 200 /\ e.of = r.named
    BY <2>1 DEF AnswersOf, EntriesOf
  <2>2. CASE r.status = 500 /\ r.request.route = "analyze" /\ e.of = r.request.session
    BY <2>2 DEF AnswersOf, EntriesOf, FailuresOf
  <2> QED BY <2>1, <2>2
<1> HIDE DEF a, f, l
<1>6. r \in AnswersOf(route, s) => r \notin FailuresOf(route, s)
  BY DEF AnswersOf, FailuresOf
<1> QED BY <1>1, <1>2, <1>3, <1>4, <1>5, <1>6

(* What put leaves has every input once, and keeps to the size.             *)
LEMMA PutKeeps ==
    ASSUME cache \in Seq(Cached), Len(cache) <= MaxSize, KeysOnce(cache), wall \in Nat,
           NEW request \in Requests, NEW answer \in Namings
    PROVE  /\ Serve!Put(request, answer) \in Seq(Cached)
           /\ Len(Serve!Put(request, answer)) <= MaxSize
           /\ KeysOnce(Serve!Put(request, answer))
<1> DEFINE k == Serve!Key(request)  e == [key |-> k, at |-> wall, answer |-> answer]
           w == Serve!Without(cache, k)  g == Append(w, e)
<1>1. e \in Cached /\ e.key = k
  BY DEF Cached, CacheKeys
<1>2. MaxSize \in Nat /\ Len(cache) \in Nat
  BY EdgeAssumptions, LenProperties DEF Serve!ServingAssumption
<1>3. /\ w \in Seq(Cached) /\ Len(w) \in Nat /\ KeysOnce(w)
      /\ \A i \in 1 .. Len(w) : w[i].key # k
  <2>1. CASE Serve!Holds(cache, k) = {}
    <3>1. w = cache
      BY <2>1 DEF Serve!Without
    <3>2. \A i \in 1 .. Len(cache) : cache[i].key # k
      BY <2>1 DEF Serve!Holds
    <3> HIDE DEF w, k
    <3> QED BY <1>2, <3>1, <3>2
  <2>2. CASE Serve!Holds(cache, k) # {}
    <3> DEFINE p == Serve!Place(cache, k)
    <3>1. p \in Serve!Holds(cache, k)
      BY <2>2 DEF Serve!Place
    <3>2. p \in 1 .. Len(cache) /\ cache[p].key = k
      BY <3>1 DEF Serve!Holds
    <3>3. w = Serve!RemoveAt(cache, p)
      BY <2>2 DEF Serve!Without
    <3> HIDE DEF p, w, k
    <3>4. /\ w \in Seq(Cached) /\ Len(w) = Len(cache) - 1
          /\ \A j \in 1 .. Len(cache) - 1 : w[j] = cache[IF j < p THEN j ELSE j + 1]
      BY <3>2, <3>3, OneRemoved
    <3>5. ASSUME NEW j \in 1 .. Len(cache) - 1
          PROVE  /\ (IF j < p THEN j ELSE j + 1) \in 1 .. Len(cache)
                 /\ (IF j < p THEN j ELSE j + 1) # p
      BY <1>2, <3>2
    <3>6. \A j \in 1 .. Len(w) : w[j].key # k
      BY <3>2, <3>4, <3>5 DEF KeysOnce
    <3>7. KeysOnce(w)
      <4> SUFFICES ASSUME NEW i \in 1 .. Len(cache) - 1, NEW j \in 1 .. Len(cache) - 1, w[i].key = w[j].key
                   PROVE  i = j
        BY <3>4 DEF KeysOnce
      <4>1. (IF i < p THEN i ELSE i + 1) = (IF j < p THEN j ELSE j + 1)
        BY <3>4, <3>5 DEF KeysOnce
      <4> QED BY <1>2, <3>2, <4>1
    <3> QED BY <1>2, <3>4, <3>6, <3>7, LenProperties
  <2> QED BY <2>1, <2>2
<1>4. Serve!Put(request, answer) =
        IF Len(g) > MaxSize THEN SubSeq(g, Len(g) - MaxSize + 1, Len(g)) ELSE g
  BY DEF Serve!Put
<1> HIDE DEF k, e, w
<1>5. /\ g \in Seq(Cached) /\ Len(g) = Len(w) + 1
      /\ \A i \in 1 .. Len(w) : g[i] = w[i]
      /\ g[Len(w) + 1] = e
  BY <1>1, <1>3, Appended
<1>6. KeysOnce(g)
  <2> SUFFICES ASSUME NEW i \in 1 .. Len(w) + 1, NEW j \in 1 .. Len(w) + 1, g[i].key = g[j].key PROVE i = j
    BY <1>5 DEF KeysOnce
  <2>1. \A x \in 1 .. Len(w) + 1 : x \in 1 .. Len(w) \/ x = Len(w) + 1
    BY <1>3
  <2>2. CASE i \in 1 .. Len(w) /\ j \in 1 .. Len(w)
    BY <1>3, <1>5, <2>2 DEF KeysOnce
  <2>3. CASE i = Len(w) + 1 /\ j \in 1 .. Len(w)
    BY <1>1, <1>3, <1>5, <2>3
  <2>4. CASE j = Len(w) + 1 /\ i \in 1 .. Len(w)
    BY <1>1, <1>3, <1>5, <2>4
  <2> QED BY <2>1, <2>2, <2>3, <2>4
<1>7. Len(g) \in Nat
  BY <1>3, <1>5
<1> HIDE DEF g
<1>8. CASE Len(g) <= MaxSize
  BY <1>2, <1>4, <1>5, <1>6, <1>7, <1>8
<1>9. CASE Len(g) > MaxSize
  <2> DEFINE m == Len(g) - MaxSize + 1  t == SubSeq(g, m, Len(g))
  <2>1. m \in Int /\ Len(g) \in Int /\ m >= 1 /\ Len(g) - m + 1 = MaxSize
    BY <1>2, <1>7, <1>9
  <2> HIDE DEF m
  <2>2. \A i \in m .. Len(g) : g[i] \in Cached
    BY <1>5, <1>7, <2>1, ElementOfSeq
  <2>3. /\ t \in Seq(Cached) /\ Len(t) = (IF m <= Len(g) THEN Len(g) - m + 1 ELSE 0)
        /\ \A i \in 1 .. Len(g) - m + 1 : t[i] = g[m + i - 1]
    BY <2>1, <2>2, SubSeqProperties
  <2>4. Len(t) = MaxSize
    BY <1>2, <2>1, <2>3
  <2>5. Serve!Put(request, answer) = t
    BY <1>4, <1>9 DEF m
  <2> HIDE DEF t
  <2>6. \A i \in 1 .. MaxSize : m + i - 1 \in 1 .. Len(g)
    BY <1>2, <1>7, <2>1
  <2>7. KeysOnce(t)
    <3> SUFFICES ASSUME NEW i \in 1 .. MaxSize, NEW j \in 1 .. MaxSize, t[i].key = t[j].key PROVE i = j
      BY <2>4 DEF KeysOnce
    <3>1. t[i] = g[m + i - 1] /\ t[j] = g[m + j - 1]
      BY <2>1, <2>3
    <3>2. m + i - 1 = m + j - 1
      BY <1>6, <2>6, <3>1 DEF KeysOnce
    <3> QED BY <1>2, <2>1, <3>2
  <2>8. Len(t) <= MaxSize
    BY <1>2, <2>4
  <2> QED BY <2>3, <2>5, <2>7, <2>8
<1> QED BY <1>2, <1>7, <1>8, <1>9

(* The server, at the start.                                                *)
LEMMA ServingStarts == Serve!Init => ServeInv
<1> SUFFICES ASSUME Serve!Init PROVE ServeInv
  OBVIOUS
<1>1. /\ component \in {"don", "hisoka"} /\ wall = 0 /\ cache = <<>> /\ audit = <<>> /\ replies = <<>>
      /\ DOMAIN waiting = Threads /\ \A c \in Threads : waiting[c] = Serve!None
  BY DEF Serve!Init
<1>2. MaxSize \in Nat
  BY EdgeAssumptions DEF Serve!ServingAssumption
<1>3. /\ <<>> \in Seq(Cached) /\ <<>> \in Seq(Replied) /\ <<>> \in Seq(Entered) /\ Len(<<>>) = 0
  BY EmptySeq
<1>4. KeysOnce(<<>>) /\ OwnNames(<<>>)
  BY <1>3 DEF KeysOnce, OwnNames
<1>5. \A T : Tally(<<>>, T) = 0
  <2> TAKE T
  <2>1. {i \in 1 .. Len(<<>>) : <<>>[i] \in T} = {}
    BY <1>3
  <2> QED BY <2>1, FS_EmptySet DEF Tally
<1>6. Balanced(<<>>, <<>>)
  BY <1>5 DEF Balanced
<1> QED BY <1>1, <1>2, <1>3, <1>4, <1>6 DEF ServeInv

(* A reply, as it is sent.                                                  *)
LEMMA ReplyMade ==
    ASSUME NEW c \in Threads, NEW r \in Requests, NEW status \in ReplyStatuses, NEW named \in Namings,
           Serve!Reply(c, r, status, named)
    PROVE  \E x \in Replied : /\ x.request = r /\ x.status = status /\ x.named = named
                              /\ replies' = Append(replies, x)
<1> DEFINE x == [to |-> c, request |-> r, status |-> status, named |-> named]
<1>1. x \in Replied /\ x.request = r /\ x.status = status /\ x.named = named
  BY DEF Replied
<1>2. replies' = Append(replies, x)
  BY DEF Serve!Reply
<1> HIDE DEF x
<1> QED BY <1>1, <1>2

(* A reply that answers nothing.                                            *)
LEMMA RefusedOnce ==
    ASSUME ServeInv, NEW c \in Threads, NEW r \in Requests, NEW status \in ReplyStatuses \ {200},
           Serve!Reply(c, r, status, Serve!Unnamed)
    PROVE  /\ replies' \in Seq(Replied) /\ OwnNames(replies') /\ Balanced(replies', audit)
           /\ \A e \in Entered : e.event \in {"auth_failure", "rate_limit_exceeded"} =>
                 Balanced(replies', Append(audit, e)) /\ Append(audit, e) \in Seq(Entered)
<1>1. Serve!Unnamed \in Namings
  BY DEF Namings
<1>2. PICK x \in Replied : x.status = status /\ replies' = Append(replies, x)
  BY <1>1, ReplyMade
<1>3. x.status # 200
  BY <1>2
<1>4. /\ replies \in Seq(Replied) /\ OwnNames(replies)
      /\ audit \in Seq(Entered) /\ Balanced(replies, audit)
  BY DEF ServeInv
<1>5. OwnNames(Append(replies, x)) /\ Append(replies, x) \in Seq(Replied)
  BY <1>3, <1>4, NamesKept
<1>6. /\ Balanced(Append(replies, x), audit)
      /\ \A e \in Entered : e.event \in {"auth_failure", "rate_limit_exceeded"} =>
            Balanced(Append(replies, x), Append(audit, e)) /\ Append(audit, e) \in Seq(Entered)
  BY <1>3, <1>4, RefusalBalances
<1> QED BY <1>2, <1>5, <1>6

(* A middleware ends a request.                                             *)
LEMMA Refuses ==
    ASSUME ServeInv, NEW c \in Threads, Serve!Refuse(c)
    PROVE  ServeInv'
<1>1. PICK r \in Requests, status \in {401, 429}, event \in {"auth_failure", "rate_limit_exceeded"} :
         Serve!Reply(c, r, status, Serve!Unnamed) /\ audit' = Append(audit, [event |-> event, of |-> Serve!Unnamed])
  BY DEF Serve!Refuse, Serve!LetIn, Serve!Arrives
<1>2. UNCHANGED <<component, wall, cache, waiting, measured>>
  BY DEF Serve!Refuse
<1> DEFINE e == [event |-> event, of |-> Serve!Unnamed]
<1>3. e \in Entered /\ e.event \in {"auth_failure", "rate_limit_exceeded"}
  BY DEF Entered, Audited, Namings
<1>4. audit' = Append(audit, e)
  BY <1>1
<1> HIDE DEF e
<1>5. status \in ReplyStatuses \ {200}
  BY DEF ReplyStatuses
<1>6. /\ replies' \in Seq(Replied) /\ OwnNames(replies')
      /\ Balanced(replies', audit') /\ audit' \in Seq(Entered)
  BY <1>1, <1>3, <1>4, <1>5, RefusedOnce
<1> QED BY <1>2, <1>6 DEF ServeInv

(* A handler ends a request before it asks the component, or the component  *)
(* raises.                                                                  *)
LEMMA TurnsAway ==
    ASSUME ServeInv, NEW c \in Threads, Serve!TurnAway(c)
    PROVE  ServeInv'
<1>1. PICK r \in Requests, status \in {400, 429} : Serve!Reply(c, r, status, Serve!Unnamed)
  BY DEF Serve!TurnAway, Serve!LetIn, Serve!Arrives
<1>2. UNCHANGED <<component, wall, cache, waiting, audit>>
  BY DEF Serve!TurnAway
<1>3. status \in ReplyStatuses \ {200}
  BY DEF ReplyStatuses
<1>4. replies' \in Seq(Replied) /\ OwnNames(replies') /\ Balanced(replies', audit)
  BY <1>1, <1>3, RefusedOnce
<1> QED BY <1>2, <1>4 DEF ServeInv

(* A request that fails is answered with the failure and nothing else.      *)
LEMMA Fails ==
    ASSUME ServeInv, NEW c \in Threads, Serve!Fail(c)
    PROVE  ServeInv'
<1>1. /\ waiting[c] # Serve!None
      /\ waiting' = [waiting EXCEPT ![c] = Serve!None]
      /\ UNCHANGED <<component, wall, cache, audit>>
      /\ \E status \in {400, 500} : Serve!Reply(c, waiting[c], status, Serve!Unnamed)
  BY DEF Serve!Fail
<1>2. waiting[c] \in Requests
  BY <1>1 DEF ServeInv
<1>3. PICK status \in {400, 500} : Serve!Reply(c, waiting[c], status, Serve!Unnamed)
  BY <1>1
<1>4. status \in ReplyStatuses \ {200}
  BY DEF ReplyStatuses
<1>5. replies' \in Seq(Replied) /\ OwnNames(replies') /\ Balanced(replies', audit)
  BY <1>2, <1>3, <1>4, RefusedOnce
<1>6. DOMAIN waiting' = Threads /\ \A d \in Threads : waiting'[d] # Serve!None => waiting'[d] \in Requests
  BY <1>1 DEF ServeInv
<1> QED BY <1>1, <1>5, <1>6 DEF ServeInv

(* A request goes to the component: no route reads the cache.               *)
LEMMA Handles ==
    ASSUME ServeInv, NEW c \in Threads, Serve!Handle(c)
    PROVE  ServeInv'
<1>1. PICK r \in Requests : cache' = cache /\ waiting' = [waiting EXCEPT ![c] = r] /\ UNCHANGED <<replies, measured>>
  BY DEF Serve!Handle, Serve!LetIn, Serve!Arrives, Serve!UseCache
<1>2. UNCHANGED <<component, wall, audit>>
  BY DEF Serve!Handle
<1>3. DOMAIN waiting' = Threads /\ \A d \in Threads : waiting'[d] # Serve!None => waiting'[d] \in Requests
  BY <1>1 DEF ServeInv
<1> QED BY <1>1, <1>2, <1>3 DEF ServeInv

(* The component has answered.                                              *)
LEMMA Finishes ==
    ASSUME ServeInv, NEW c \in Threads, Serve!Finish(c)
    PROVE  ServeInv'
<1> DEFINE r == waiting[c]  named == Serve!Named(waiting[c])
<1>1. /\ r # Serve!None
      /\ cache' = IF r.route \in Serve!Deceptive THEN Serve!Put(r, named) ELSE cache
      /\ audit' = Append(audit, [event |-> r.route, of |-> named])
      /\ \E status \in IF r.route = "analyze" THEN {200, 500} ELSE {200} :
            Serve!Reply(c, r, status, IF status = 200 THEN named ELSE Serve!Unnamed)
      /\ waiting' = [waiting EXCEPT ![c] = Serve!None]
      /\ UNCHANGED <<component, wall>>
  BY DEF Serve!Finish
<1>2. r \in Requests
  BY <1>1 DEF ServeInv
<1>3. named \in Namings /\ Serve!Unnamed \in Namings
  BY <1>2 DEF Namings
<1>4. PICK status \in IF r.route = "analyze" THEN {200, 500} ELSE {200} :
         Serve!Reply(c, r, status, IF status = 200 THEN named ELSE Serve!Unnamed)
  BY <1>1
<1>5. status \in ReplyStatuses /\ (status = 200 \/ (status = 500 /\ r.route = "analyze"))
  BY DEF ReplyStatuses
<1>6. /\ named = r.session \/ (named = "static" /\ r.scans)
      /\ r.route = "analyze" => named = r.session
  BY DEF Serve!Named, Serve!Deceptive
<1> DEFINE e == [event |-> r.route, of |-> named]
<1>7. e \in Entered /\ e.event = r.route /\ e.of = named
  BY <1>2, <1>3 DEF Entered, Audited
<1>8. audit' = Append(audit, e)
  BY <1>1
<1>9. /\ cache \in Seq(Cached) /\ Len(cache) <= MaxSize /\ KeysOnce(cache) /\ wall \in Nat
      /\ DOMAIN waiting = Threads /\ \A d \in Threads : waiting[d] # Serve!None => waiting[d] \in Requests
      /\ replies \in Seq(Replied) /\ OwnNames(replies)
      /\ audit \in Seq(Entered) /\ Balanced(replies, audit) /\ component \in {"don", "hisoka"}
  BY DEF ServeInv
<1> HIDE DEF e, named, r
<1>10. cache' \in Seq(Cached) /\ Len(cache') <= MaxSize /\ KeysOnce(cache')
  BY <1>1, <1>2, <1>3, <1>9, PutKeeps
<1>11. DOMAIN waiting' = Threads /\ \A d \in Threads : waiting'[d] # Serve!None => waiting'[d] \in Requests
  BY <1>1, <1>9
<1> DEFINE says == IF status = 200 THEN named ELSE Serve!Unnamed
<1>12. says \in Namings /\ (status = 200 => says = named)
  BY <1>3
<1>13. Serve!Reply(c, r, status, says)
  BY <1>4
<1> HIDE DEF says
<1>14. PICK x \in Replied : /\ x.request = r /\ x.status = status /\ x.named = says
                            /\ replies' = Append(replies, x)
  BY <1>2, <1>5, <1>12, <1>13, ReplyMade
<1>15. x.status = 200 => x.named = x.request.session \/ (x.named = "static" /\ x.request.scans)
  BY <1>6, <1>12, <1>14
<1>16. \/ x.status = 200 /\ e.of = x.named
       \/ x.status = 500 /\ x.request.route = "analyze" /\ e.of = x.request.session
  BY <1>5, <1>6, <1>7, <1>12, <1>14
<1>17. e.event = x.request.route
  BY <1>7, <1>14
<1>18. OwnNames(replies') /\ replies' \in Seq(Replied)
  BY <1>9, <1>14, <1>15, NamesKept
<1>19. Balanced(replies', audit') /\ audit' \in Seq(Entered)
  BY <1>7, <1>8, <1>9, <1>14, <1>16, <1>17, AnswerBalances
<1> QED BY <1>1, <1>9, <1>10, <1>11, <1>18, <1>19 DEF ServeInv

(* The server, with every step.                                             *)
LEMMA ServingKept == ServeInv /\ [Serve!Next]_(Serve!servingVars) => ServeInv'
<1> SUFFICES ASSUME ServeInv, [Serve!Next]_(Serve!servingVars) PROVE ServeInv'
  OBVIOUS
<1>1. CASE UNCHANGED Serve!servingVars
  BY <1>1 DEF ServeInv, Serve!servingVars
<1>2. CASE Serve!Tick
  BY <1>2 DEF ServeInv, Serve!Tick
<1>3. CASE \E c \in Threads :
              Serve!Refuse(c) \/ Serve!TurnAway(c) \/ Serve!Handle(c) \/ Serve!Finish(c) \/ Serve!Fail(c)
  BY <1>3, Refuses, TurnsAway, Handles, Finishes, Fails
<1> QED BY <1>1, <1>2, <1>3 DEF Serve!Next

(* What is promised of the answers follows.                                 *)
LEMMA ServingHolds == ServeInv => Serve!AnswersAreOwn /\ Serve!AnswersAreAudited /\ Serve!CacheBounded
<1> SUFFICES ASSUME ServeInv PROVE Serve!AnswersAreOwn /\ Serve!AnswersAreAudited /\ Serve!CacheBounded
  OBVIOUS
<1>1. Serve!AnswersAreOwn
  BY DEF ServeInv, OwnNames, Serve!AnswersAreOwn
<1>2. Serve!CacheBounded
  BY DEF ServeInv, KeysOnce, Serve!CacheBounded
<1>3. \A i \in 1 .. Len(replies) : replies[i] \in Replied
  BY ElementOfSeq DEF ServeInv
<1>4. \A i \in 1 .. Len(audit) : audit[i] \in Entered
  BY ElementOfSeq DEF ServeInv
<1>5. ASSUME NEW route \in Serve!Deceptive \cup {"analyze"}, NEW s
      PROVE  /\ {i \in 1 .. Len(replies) : replies[i].status = 200 /\ replies[i].request.route = route
                                           /\ replies[i].named = s}
                  = {i \in 1 .. Len(replies) : replies[i] \in AnswersOf(route, s)}
             /\ {i \in 1 .. Len(replies) : replies[i].status = 500 /\ replies[i].request.route = "analyze"
                                           /\ route = "analyze" /\ replies[i].request.session = s}
                  = {i \in 1 .. Len(replies) : replies[i] \in FailuresOf(route, s)}
             /\ {i \in 1 .. Len(audit) : audit[i].event = route /\ audit[i].of = s}
                  = {i \in 1 .. Len(audit) : audit[i] \in EntriesOf(route, s)}
  BY <1>3, <1>4 DEF AnswersOf, FailuresOf, EntriesOf
<1>6. \A S : Serve!Cardinality(S) = Cardinality(S)
  BY DEF Serve!Cardinality, Cardinality
<1>7. Serve!AnswersAreAudited
  <2> SUFFICES ASSUME NEW route \in Serve!Deceptive \cup {"analyze"},
                      NEW s \in {r.session : r \in Requests} \cup {"static"}
               PROVE  LET given    == Serve!Cardinality({i \in 1 .. Len(replies) :
                                          replies[i].status = 200 /\ replies[i].request.route = route
                                          /\ replies[i].named = s})
                          failed   == Serve!Cardinality({i \in 1 .. Len(replies) :
                                          replies[i].status = 500 /\ replies[i].request.route = "analyze"
                                          /\ route = "analyze" /\ replies[i].request.session = s})
                          entries  == Serve!Cardinality({i \in 1 .. Len(audit) :
                                          audit[i].event = route /\ audit[i].of = s})
                      IN  given <= entries /\ entries <= given + failed
    BY DEF Serve!AnswersAreAudited, Serve!Count
  <2>1. /\ Tally(replies, AnswersOf(route, s)) <= Tally(audit, EntriesOf(route, s))
        /\ Tally(audit, EntriesOf(route, s))
              <= Tally(replies, AnswersOf(route, s)) + Tally(replies, FailuresOf(route, s))
    BY DEF ServeInv, Balanced
  <2> QED BY <1>5, <1>6, <2>1 DEF Tally
<1> QED BY <1>1, <1>2, <1>7
=============================================================================
