------------------------- MODULE CompletionProofs ---------------------------
(***************************************************************************)
(* What is proved of the exchanges with the providers and of the harness,  *)
(* for any number of callers, any budgets and whatever the providers       *)
(* answer.                                                                 *)
(*   - Sums: Added over a set, by one element and the rest; of a function  *)
(*     that differs at one place.                                          *)
(*   - BillInv: which posts a call has, and what the cache holds for it.   *)
(*   - LedgerInv: for every post, by where it is, the ledgers that have its*)
(*     tokens.  Each step of a post moves it from one sum to the next.     *)
(*   - ModesInv and StagesInv: what is left of a call's plan, which        *)
(*     verifier the harness has meanwhile, and how often it has answered.  *)
(***************************************************************************)
EXTENDS Completions, FoldProofs, SequenceTheorems

-----------------------------------------------------------------------------
(* Sums, as Exchange adds them up: of a function over a finite set.         *)
One(s) == CHOOSE x \in s : TRUE
Adds(h, f, S) ==
    \A s \in SUBSET S : h[s] = IF s = {} THEN 0 ELSE f[One(s)] + h[s \ {One(s)}]
Numbered(f, S) == IsFiniteSet(S) /\ \A x \in S : f[x] \in Nat
SumsUp(h, f, S) ==
    /\ h \in [SUBSET S -> Nat] /\ Adds(h, f, S)
    /\ \A k : Adds(k, f, S) => \A s \in SUBSET S : h[s] = k[s]

(* The sums over the parts of a set: there are some, and no others.         *)
LEMMA AddsExist ==
    ASSUME NEW S, NEW f, Numbered(f, S)
    PROVE  \E h : SumsUp(h, f, S)
<1> DEFINE G == [x \in S |-> [v \in Nat |-> f[x] + v]]
           c == [s \in SUBSET S |-> One(s)]
<1>1. IsFiniteSet(S) /\ 0 \in Nat /\ \A x \in S : f[x] \in Nat
  BY DEF Numbered
<1>2. G \in [S -> [Nat -> Nat]] /\ \A x \in S, v \in Nat : G[x][v] = f[x] + v
  BY <1>1
<1>3. \A s \in SUBSET S : c[s] = One(s) /\ (s # {} => One(s) \in s)
  BY DEF One
<1>4. Choosing(c, S)
  BY <1>3 DEF Choosing
<1> HIDE DEF G, c
<1>5. PICK h \in [SUBSET S -> Nat] : Folds(h, S, 0, G, c)
  BY <1>1, <1>2, <1>4, FoldExists
<1>6. Adds(h, f, S)
  <2> SUFFICES ASSUME NEW s \in SUBSET S
               PROVE  h[s] = IF s = {} THEN 0 ELSE f[One(s)] + h[s \ {One(s)}]
    BY DEF Adds
  <2>1. s # {} => One(s) \in S /\ h[s \ {One(s)}] \in Nat /\ c[s] = One(s)
    BY <1>3, <1>5
  <2>2. h[s] = IF s = {} THEN 0 ELSE G[c[s]][h[s \ {c[s]}]]
    BY <1>5 DEF Folds
  <2> QED BY <1>2, <2>1, <2>2
<1>7. ASSUME NEW k, Adds(k, f, S)
      PROVE  \A s \in SUBSET S : h[s] = k[s]
  <2>1. Follows(k, S, Nat, 0, G, c)
    <3> SUFFICES ASSUME NEW s \in SUBSET S
                 PROVE  /\ s = {} => k[s] = 0
                        /\ s # {} /\ k[s \ {c[s]}] \in Nat => k[s] = G[c[s]][k[s \ {c[s]}]]
      BY DEF Follows
    <3>1. s # {} => One(s) \in S /\ c[s] = One(s)
      BY <1>3
    <3> QED BY <1>2, <1>7, <3>1 DEF Adds
  <2>2. 0 \in Nat /\ IsFiniteSet(S) /\ h \in [SUBSET S -> Nat] /\ Folds(h, S, 0, G, c)
    BY <1>1, <1>5
  <2> QED BY <1>4, <2>1, <2>2, FoldUnique
<1> QED BY <1>5, <1>6, <1>7 DEF SumsUp

(* What Added is.                                                           *)
LEMMA AddedIs ==
    ASSUME NEW S, NEW f, Numbered(f, S), NEW h \in [SUBSET S -> Nat], Adds(h, f, S)
    PROVE  \A T \in SUBSET S : Bill!Added(f, T) = h[T]
<1> TAKE T \in SUBSET S
<1> DEFINE Sums(k) == k = [s \in SUBSET T |-> IF s = {} THEN 0
                                              ELSE f[CHOOSE x \in s : TRUE] + k[s \ {CHOOSE x \in s : TRUE}]]
<1>1. Bill!Added(f, T) = (CHOOSE k : Sums(k))[T]
  BY DEF Bill!Added, Bill!MapThenSumSet, Bill!MapThenFoldSet
<1>2. Numbered(f, T)
  BY FS_Subset DEF Numbered
<1>3. PICK g : SumsUp(g, f, T)
  BY <1>2, AddsExist
<1>4. Sums(g)
  BY <1>3 DEF SumsUp, Adds, One
<1>5. Sums(CHOOSE k : Sums(k))
  <2> HIDE DEF Sums
  <2> QED BY <1>4
<1> DEFINE k == CHOOSE k : Sums(k)
<1>6. Adds(k, f, T)
  <2> HIDE DEF k
  <2>1. Sums(k)
    BY <1>5 DEF k
  <2> QED BY <2>1 DEF Adds, One
<1>7. Adds(h, f, T)
  BY DEF Adds
<1> HIDE DEF k, Sums
<1>8. g[T] = k[T] /\ g[T] = h[T]
  BY <1>3, <1>6, <1>7 DEF SumsUp
<1> QED BY <1>1, <1>8 DEF k

(* A sum: of nothing, and of a set by any of its elements.                  *)
LEMMA AddedNothing == \A f : Bill!Added(f, {}) = 0
<1> TAKE f
<1>1. Numbered(f, {})
  BY FS_EmptySet DEF Numbered
<1>2. PICK h : SumsUp(h, f, {})
  BY <1>1, AddsExist
<1>3. h \in [SUBSET {} -> Nat] /\ Adds(h, f, {}) /\ {} \in SUBSET {}
  BY <1>2 DEF SumsUp
<1>4. Bill!Added(f, {}) = h[{}]
  BY <1>1, <1>3, AddedIs
<1>5. h[{}] = 0
  BY <1>3 DEF Adds
<1> QED BY <1>4, <1>5

LEMMA AddedOne ==
    ASSUME NEW S, NEW f, Numbered(f, S)
    PROVE  /\ Bill!Added(f, S) \in Nat
           /\ \A x \in S : Bill!Added(f, S) = f[x] + Bill!Added(f, S \ {x})
<1>1. PICK h : h \in [SUBSET S -> Nat] /\ Adds(h, f, S)
  BY AddsExist DEF SumsUp
<1>2. \A T \in SUBSET S : Bill!Added(f, T) = h[T]
  BY <1>1, AddedIs
<1>3. IsFiniteSet(S) /\ \A x \in S : f[x] \in Nat
  BY DEF Numbered
<1> DEFINE C == {T \in SUBSET S : \A x \in T : h[T] = f[x] + h[T \ {x}]}
<1>4. ASSUME NEW T \in SUBSET S, \A R \in SUBSET T : R # T => R \in C
      PROVE  T \in C
  <2> SUFFICES ASSUME NEW x \in T PROVE h[T] = f[x] + h[T \ {x}]
    OBVIOUS
  <2> DEFINE y == One(T)
  <2>1. y \in T
    BY DEF One
  <2>2. h[T] = f[y] + h[T \ {y}]
    BY <1>1 DEF Adds
  <2> HIDE DEF y
  <2>3. CASE x # y
    <3>1. /\ T \ {y} \in C /\ x \in T \ {y}
          /\ T \ {x} \in C /\ y \in T \ {x}
      BY <1>4, <2>1, <2>3
    <3>2. h[T \ {y}] = f[x] + h[(T \ {y}) \ {x}] /\ h[T \ {x}] = f[y] + h[(T \ {x}) \ {y}]
      BY <3>1
    <3>3. (T \ {y}) \ {x} = (T \ {x}) \ {y} /\ (T \ {y}) \ {x} \in SUBSET S
      OBVIOUS
    <3>4. f[x] \in Nat /\ f[y] \in Nat /\ h[(T \ {y}) \ {x}] \in Nat
      <4>1. x \in S /\ y \in S
        BY <2>1
      <4>2. h[(T \ {y}) \ {x}] \in Nat
        BY <1>1, <3>3
      <4> QED BY <1>3, <4>1, <4>2
    <3> DEFINE a == f[x]  b == f[y]  d == h[(T \ {y}) \ {x}]
    <3>5. h[T] = b + (a + d) /\ h[T \ {x}] = b + d
      BY <2>2, <3>2, <3>3
    <3>6. a \in Nat /\ b \in Nat /\ d \in Nat
      BY <3>4
    <3> HIDE DEF a, b, d
    <3>7. h[T] = a + h[T \ {x}]
      BY <3>5, <3>6
    <3> QED BY <3>7 DEF a
  <2> QED BY <2>2, <2>3
<1>5. C \in SUBSET SUBSET S
  OBVIOUS
<1> HIDE DEF C
<1>6. S \in C
  BY <1>3, <1>4, <1>5, AllParts
<1>7. \A x \in S : h[S] = f[x] + h[S \ {x}]
  BY <1>6 DEF C
<1>8. S \in SUBSET S /\ (\A x : S \ {x} \in SUBSET S) /\ h[S] \in Nat
  BY <1>1
<1> QED BY <1>2, <1>7, <1>8

(* Of what is 0 everywhere.                                                 *)
LEMMA AddedZeros ==
    ASSUME NEW S, NEW f, IsFiniteSet(S), \A x \in S : f[x] = 0
    PROVE  Bill!Added(f, S) = 0
<1> DEFINE C == {R \in SUBSET S : Bill!Added(f, R) = 0}
<1>1. ASSUME NEW R \in SUBSET S, \A Q \in SUBSET R : Q # R => Q \in C
      PROVE  R \in C
  <2>1. CASE R = {}
    BY <2>1, AddedNothing
  <2>2. CASE R # {}
    <3>1. PICK x \in R : TRUE
      BY <2>2
    <3>2. Numbered(f, R)
      BY FS_Subset DEF Numbered
    <3>3. Bill!Added(f, R) = f[x] + Bill!Added(f, R \ {x})
      BY <3>1, <3>2, AddedOne
    <3>4. Bill!Added(f, R \ {x}) = 0
      BY <1>1, <3>1
    <3>5. f[x] = 0
      BY <3>1
    <3>6. Bill!Added(f, R) = 0
      BY <3>3, <3>4, <3>5
    <3> QED BY <3>6
  <2> QED BY <2>1, <2>2
<1>2. C \in SUBSET SUBSET S
  OBVIOUS
<1> HIDE DEF C
<1>3. S \in C
  BY <1>1, <1>2, AllParts
<1> QED BY <1>3 DEF C

(* The same function has the same sum, whatever it is elsewhere.            *)
LEMMA AddedAgree ==
    ASSUME NEW S, NEW f, NEW g, Numbered(f, S), \A x \in S : f[x] = g[x]
    PROVE  Bill!Added(f, S) = Bill!Added(g, S)
<1> DEFINE C == {T \in SUBSET S : Bill!Added(f, T) = Bill!Added(g, T)}
<1>1. IsFiniteSet(S) /\ \A x \in S : f[x] \in Nat
  BY DEF Numbered
<1>2. ASSUME NEW T \in SUBSET S, \A R \in SUBSET T : R # T => R \in C
      PROVE  T \in C
  <2>1. CASE T = {}
    BY <2>1, AddedNothing
  <2>2. CASE T # {}
    <3>1. PICK x \in T : TRUE
      BY <2>2
    <3>2. Numbered(f, T) /\ Numbered(g, T)
      BY <1>1, FS_Subset DEF Numbered
    <3>3. /\ Bill!Added(f, T) = f[x] + Bill!Added(f, T \ {x})
          /\ Bill!Added(g, T) = g[x] + Bill!Added(g, T \ {x})
      BY <3>1, <3>2, AddedOne
    <3>4. Bill!Added(f, T \ {x}) = Bill!Added(g, T \ {x})
      BY <1>2, <3>1
    <3> QED BY <3>1, <3>3, <3>4
  <2> QED BY <2>1, <2>2
<1>3. C \in SUBSET SUBSET S
  OBVIOUS
<1> HIDE DEF C
<1>4. S \in C
  BY <1>1, <1>2, <1>3, AllParts
<1> QED BY <1>4 DEF C

(* A function that is changed in one place.                                 *)
SameBut(f, g, S, x) == x \in S /\ \A y \in S : y # x => f[y] = g[y]

LEMMA AddedChanged ==
    \A S, f, g, x : Numbered(f, S) /\ Numbered(g, S) /\ SameBut(f, g, S, x) =>
        Bill!Added(g, S) + f[x] = Bill!Added(f, S) + g[x]
<1> TAKE S, f, g, x
<1> HAVE Numbered(f, S) /\ Numbered(g, S) /\ SameBut(f, g, S, x)
<1>0. x \in S /\ \A y \in S \ {x} : f[y] = g[y]
  BY DEF SameBut
<1>1. Numbered(f, S \ {x}) /\ Numbered(g, S \ {x}) /\ f[x] \in Nat /\ g[x] \in Nat
  BY <1>0, FS_Subset DEF Numbered
<1>2. Bill!Added(f, S \ {x}) = Bill!Added(g, S \ {x}) /\ Bill!Added(f, S \ {x}) \in Nat
  BY <1>0, <1>1, AddedAgree, AddedOne
<1>3. Bill!Added(f, S) = f[x] + Bill!Added(f, S \ {x}) /\ Bill!Added(g, S) = g[x] + Bill!Added(g, S \ {x})
  BY <1>0, AddedOne
<1> DEFINE a == f[x]  b == g[x]  r == Bill!Added(f, S \ {x})
<1>4. a \in Nat /\ b \in Nat /\ r \in Nat /\ Bill!Added(f, S) = a + r /\ Bill!Added(g, S) = b + r
  BY <1>1, <1>2, <1>3
<1> HIDE DEF a, b, r
<1>5. Bill!Added(g, S) + a = Bill!Added(f, S) + b
  BY <1>4
<1> QED BY <1>5 DEF a, b

(* A function that is nowhere more than three others together.              *)
LEMMA AddedUnder ==
    ASSUME NEW S, NEW f, NEW a, NEW b, NEW c,
           Numbered(f, S), Numbered(a, S), Numbered(b, S), Numbered(c, S),
           \A x \in S : f[x] <= a[x] + b[x] + c[x]
    PROVE  Bill!Added(f, S) <= Bill!Added(a, S) + Bill!Added(b, S) + Bill!Added(c, S)
<1> DEFINE Under(T) == Bill!Added(f, T) <= Bill!Added(a, T) + Bill!Added(b, T) + Bill!Added(c, T)
           C == {T \in SUBSET S : Under(T)}
<1>1. IsFiniteSet(S) /\ \A x \in S : f[x] \in Nat /\ a[x] \in Nat /\ b[x] \in Nat /\ c[x] \in Nat
  BY DEF Numbered
<1>2. ASSUME NEW T \in SUBSET S, \A R \in SUBSET T : R # T => R \in C
      PROVE  T \in C
  <2>1. CASE T = {}
    BY <2>1, AddedNothing
  <2>2. CASE T # {}
    <3>1. PICK x \in T : TRUE
      BY <2>2
    <3>2. /\ Numbered(f, T) /\ Numbered(a, T) /\ Numbered(b, T) /\ Numbered(c, T)
          /\ Numbered(f, T \ {x}) /\ Numbered(a, T \ {x}) /\ Numbered(b, T \ {x}) /\ Numbered(c, T \ {x})
      BY <1>1, FS_Subset DEF Numbered
    <3>3. /\ Bill!Added(f, T) = f[x] + Bill!Added(f, T \ {x}) /\ Bill!Added(a, T) = a[x] + Bill!Added(a, T \ {x})
          /\ Bill!Added(b, T) = b[x] + Bill!Added(b, T \ {x}) /\ Bill!Added(c, T) = c[x] + Bill!Added(c, T \ {x})
      BY <3>1, <3>2, AddedOne
    <3>4. /\ Bill!Added(f, T \ {x}) \in Nat /\ Bill!Added(a, T \ {x}) \in Nat
          /\ Bill!Added(b, T \ {x}) \in Nat /\ Bill!Added(c, T \ {x}) \in Nat
      BY <3>2, AddedOne
    <3>5. Under(T \ {x})
      BY <1>2, <3>1
    <3> DEFINE fx == f[x]  ax == a[x]  bx == b[x]  cx == c[x]
               fr == Bill!Added(f, T \ {x})  ar == Bill!Added(a, T \ {x})
               br == Bill!Added(b, T \ {x})  cr == Bill!Added(c, T \ {x})
    <3>6. /\ fx \in Nat /\ ax \in Nat /\ bx \in Nat /\ cx \in Nat /\ fx <= ax + bx + cx
          /\ fr \in Nat /\ ar \in Nat /\ br \in Nat /\ cr \in Nat /\ fr <= ar + br + cr
      BY <1>1, <3>1, <3>4, <3>5
    <3> HIDE DEF fx, ax, bx, cx, fr, ar, br, cr
    <3>7. fx + fr <= (ax + ar) + (bx + br) + (cx + cr)
      BY <3>6
    <3>8. Under(T)
      BY <3>3, <3>7 DEF fx, ax, bx, cx, fr, ar, br, cr
    <3> QED BY <3>8
  <2> QED BY <2>1, <2>2
<1>3. C \in SUBSET SUBSET S
  OBVIOUS
<1> HIDE DEF C, Under
<1>4. IsFiniteSet(S)
  BY <1>1
<1>5. \A T \in SUBSET S : (\A R \in SUBSET T : R # T => R \in C) => T \in C
  BY <1>2
<1>6. S \in C
  BY ONLY <1>3, <1>4, <1>5, AllParts
<1> QED BY <1>6 DEF C, Under

(* The sum over a part is that of what is 0 elsewhere.                      *)
LEMMA AddedMasked ==
    ASSUME NEW S, NEW f, NEW g, NEW H \in SUBSET S, Numbered(f, S),
           \A x \in S : g[x] = IF x \in H THEN f[x] ELSE 0
    PROVE  Bill!Added(f, H) = Bill!Added(g, S)
<1> DEFINE C == {T \in SUBSET S : Bill!Added(f, H \cap T) = Bill!Added(g, T)}
<1>1. IsFiniteSet(S) /\ (\A x \in S : f[x] \in Nat) /\ Numbered(g, S)
  BY DEF Numbered
<1>2. ASSUME NEW T \in SUBSET S, \A R \in SUBSET T : R # T => R \in C
      PROVE  T \in C
  <2>1. CASE T = {}
    BY <2>1, AddedNothing
  <2>2. CASE T # {}
    <3>1. PICK x \in T : TRUE
      BY <2>2
    <3>2. Numbered(f, H \cap T) /\ Numbered(g, T) /\ Numbered(g, T \ {x})
      BY <1>1, FS_Subset DEF Numbered
    <3>3. Bill!Added(g, T) = g[x] + Bill!Added(g, T \ {x}) /\ Bill!Added(g, T \ {x}) \in Nat
      BY <3>1, <3>2, AddedOne
    <3>4. Bill!Added(f, H \cap (T \ {x})) = Bill!Added(g, T \ {x})
      BY <1>2, <3>1
    <3>5. CASE x \in H
      <4>1. H \cap (T \ {x}) = (H \cap T) \ {x} /\ x \in H \cap T /\ g[x] = f[x]
        BY <3>1, <3>5
      <4>2. Bill!Added(f, H \cap T) = f[x] + Bill!Added(f, (H \cap T) \ {x})
        BY <3>2, <4>1, AddedOne
      <4> QED BY <3>3, <3>4, <4>1, <4>2
    <3>6. CASE x \notin H
      <4>1. H \cap (T \ {x}) = H \cap T /\ g[x] = 0
        BY <3>1, <3>6
      <4> DEFINE r == Bill!Added(g, T \ {x})
      <4>2. r \in Nat /\ Bill!Added(g, T) = 0 + r
        BY <3>3, <4>1
      <4> HIDE DEF r
      <4>3. Bill!Added(g, T) = r
        BY <4>2
      <4>4. Bill!Added(f, H \cap T) = Bill!Added(g, T)
        BY <3>4, <4>1, <4>3 DEF r
      <4> QED BY <4>4
    <3> QED BY <3>5, <3>6
  <2> QED BY <2>1, <2>2
<1>3. C \in SUBSET SUBSET S
  OBVIOUS
<1> HIDE DEF C
<1>4. S \in C
  BY <1>1, <1>2, <1>3, AllParts
<1>5. H \cap S = H
  OBVIOUS
<1> QED BY <1>4, <1>5 DEF C

-----------------------------------------------------------------------------
(* A completion and its posts: of what kind everything is; a response that  *)
(* was heard is final.                                                      *)
Answering == [tokens : Nat, content : {"none", "null", "text"}, cached : BOOLEAN]
PostStates == {"arrived", "provider", "daily", "monthly", "store", "responded", "gone"}
Statuses == {0, 200, 404, 503}
Charges  == {1, 2}
Months   == {Bill!Month(d) : d \in Bill!Days} \cup {0}
Posted == [pc : PostStates, tokens : Charges, answer : Answering, day : Bill!Days, month : Months,
           status : Statuses, heard : BOOLEAN]
CallStates == {"idle", "waiting", "done"}
Tries    == {1, 2}
Attempts == {0, 1}
Starts   == Nat \ {0}
Outcomes == {"none", "raised", "empty", "content"}
Asking == [pc : CallStates, try : Tries, attempt : Attempts, first : Answering, from : Starts, outcome : Outcomes]

BillTyped ==
    /\ day \in Bill!Days
    /\ asked \in Asking
    /\ posts \in Seq(Posted)
    /\ keptAnswer \in Answering
    /\ \A i \in 1 .. Len(posts) : posts[i].heard => posts[i].pc = "responded"
    /\ asked.pc = "waiting" => asked.from <= Len(posts) /\ asked.outcome = "none"

(* Every post but the last was heard: no other is under way.                *)
Lone == \A i \in 1 .. Len(posts) - 1 : posts[i].heard

(* A call posts twice in a try; one that may still raise has heard no 200;  *)
(* and as long as no post was given up on, the cache has what the last one  *)
(* was answered, so that the second try hears it again.                     *)
LoneKept(a, kept, p) ==
    /\ p.pc = "responded" /\ p.status = 200 => kept.content = p.answer.content
    /\ a.pc = "waiting" /\ a.try = 2 => kept.content = "null" /\ p.pc \in {"arrived", "responded"}

BillInv ==
    /\ BillTyped
    /\ Len(posts) <= asked.from + asked.attempt + (IF asked.try = 1 THEN 0 ELSE 2)
    /\ asked.outcome = "raised" => asked.try = 1
    /\ asked.try = 1 /\ asked.outcome \in {"none", "raised"} =>
          \A i \in asked.from .. Len(posts) : posts[i].heard => posts[i].status # 200
    /\ CacheResponses /\ Lone /\ Len(posts) > 0 => LoneKept(asked, keptAnswer, posts[Len(posts)])
    /\ CacheResponses /\ asked.outcome = "content" /\ asked.try = 2 => \E i \in 1 .. Len(posts) : ~posts[i].heard

(* The records of an exchange.                                              *)
LEMMA BillRecords ==
    /\ Bill!None \in Answering /\ Bill!None.tokens = 0 /\ Bill!None.content = "none" /\ Bill!None.cached = FALSE
    /\ Bill!Idle \in Asking /\ 0 \in Bill!Days
<1>1. /\ Bill!None.tokens = 0 /\ Bill!None.content = "none" /\ Bill!None.cached = FALSE
  BY DEF Bill!None
<1>2. Bill!None \in Answering
  BY DEF Bill!None, Answering
<1>3. Bill!Idle \in Asking
  <2>1. /\ "idle" \in CallStates /\ 1 \in Tries /\ 0 \in Attempts /\ 1 \in Starts /\ "none" \in Outcomes
    BY DEF CallStates, Tries, Attempts, Starts, Outcomes
  <2> QED BY <1>2, <2>1 DEF Bill!Idle, Asking
<1>4. 0 \in Bill!Days
  BY CompletionAssumptions DEF Bill!ExchangeAssumption, Bill!Days
<1> QED BY <1>1, <1>2, <1>3, <1>4

(* The invariant of a completion, at the start.                             *)
LEMMA BillStarts == Bill!Init => BillInv
<1> SUFFICES ASSUME Bill!Init PROVE BillInv
  OBVIOUS
<1>1. /\ day = 0 /\ asked = Bill!Idle /\ posts = <<>> /\ keptAnswer = Bill!None
  BY DEF Bill!Init
<1>2. posts \in Seq(Posted) /\ Len(posts) = 0
  BY <1>1, EmptySeq
<1>3. /\ asked.pc = "idle" /\ asked.try = 1 /\ asked.from = 1 /\ asked.attempt = 0 /\ asked.outcome = "none"
  BY <1>1 DEF Bill!Idle
<1>4. BillTyped
  BY <1>1, <1>2, <1>3, BillRecords DEF BillTyped
<1> QED BY <1>2, <1>3, <1>4 DEF BillInv

(* A record of the posts is replaced.                                       *)
LEMMA PostReplaced ==
    ASSUME posts \in Seq(Posted), NEW i \in DOMAIN posts, NEW p \in Posted, NEW log,
           log = [posts EXCEPT ![i] = p]
    PROVE  /\ log \in Seq(Posted) /\ Len(log) = Len(posts) /\ i \in 1 .. Len(posts)
           /\ \A j \in 1 .. Len(posts) : log[j] = IF j = i THEN p ELSE posts[j]
<1>1. DOMAIN posts = 1 .. Len(posts) /\ Len(posts) \in Nat
  BY LenProperties
<1>2. log \in Seq(Posted) /\ Len(log) = Len(posts)
  BY <1>1, ExceptSeq
<1>3. \A j \in 1 .. Len(posts) : log[j] = IF j = i THEN p ELSE posts[j]
  BY <1>1
<1> QED BY <1>1, <1>2, <1>3

(* The gateway moves a post that it has not answered yet.                   *)
LEMMA GatewayStep ==
    ASSUME BillInv, NEW i \in DOMAIN posts, NEW p \in Posted,
           posts' = [posts EXCEPT ![i] = p], UNCHANGED <<day, asked>>, keptAnswer' \in Answering,
           posts[i].pc # "responded", p.heard = posts[i].heard,
           i = Len(posts) /\ CacheResponses /\ Lone /\ LoneKept(asked, keptAnswer, posts[i]) =>
               LoneKept(asked, keptAnswer', p)
    PROVE  BillInv'
<1>0. posts \in Seq(Posted) /\ asked \in Asking /\ Len(posts) \in Nat
  BY LenProperties DEF BillInv, BillTyped
<1>1. /\ posts' \in Seq(Posted) /\ Len(posts') = Len(posts) /\ i \in 1 .. Len(posts)
      /\ \A j \in 1 .. Len(posts) : posts'[j] = IF j = i THEN p ELSE posts[j]
  BY <1>0, PostReplaced
<1>2. posts[i].heard = FALSE /\ p.heard = FALSE
  <2>1. posts[i] \in Posted
    BY <1>0, <1>1, ElementOfSeq
  <2>2. ~posts[i].heard
    BY <1>1 DEF BillInv, BillTyped
  <2> QED BY <2>1, <2>2 DEF Posted
<1>3. \A j \in 1 .. Len(posts) : posts'[j].heard = posts[j].heard /\ (posts[j].heard => posts'[j] = posts[j])
  BY <1>1, <1>2
<1>4. BillTyped'
  BY <1>0, <1>1, <1>3 DEF BillInv, BillTyped
<1>5. Lone' => Lone
  BY <1>0, <1>1, <1>3 DEF Lone
<1>6. ASSUME CacheResponses, Lone', Len(posts) > 0
      PROVE  LoneKept(asked', keptAnswer', posts'[Len(posts')])
  <2>1. i = Len(posts)
    BY <1>0, <1>1, <1>2, <1>5, <1>6 DEF Lone
  <2>2. LoneKept(asked, keptAnswer, posts[i])
    BY <2>1, <1>5, <1>6 DEF BillInv
  <2>3. LoneKept(asked', keptAnswer', p)
    BY <1>5, <1>6, <2>1, <2>2
  <2>4. posts'[Len(posts')] = p
    BY <1>1, <2>1
  <2> QED BY <2>3, <2>4
<1>7. /\ Len(posts') <= asked'.from + asked'.attempt + (IF asked'.try = 1 THEN 0 ELSE 2)
      /\ asked'.outcome = "raised" => asked'.try = 1
  BY <1>1 DEF BillInv
<1>8. ASSUME asked'.try = 1, asked'.outcome \in {"none", "raised"}, NEW j \in asked'.from .. Len(posts'), posts'[j].heard
      PROVE  posts'[j].status # 200
  <2>1. j \in asked.from .. Len(posts) /\ j \in 1 .. Len(posts)
    BY <1>0, <1>1, <1>8 DEF Asking, Starts
  <2> QED BY <1>3, <1>8, <2>1 DEF BillInv
<1>9. ASSUME CacheResponses, asked'.outcome = "content", asked'.try = 2
      PROVE  \E j \in 1 .. Len(posts') : ~posts'[j].heard
  BY <1>1, <1>3, <1>9 DEF BillInv
<1> QED BY <1>1, <1>4, <1>6, <1>7, <1>8, <1>9 DEF BillInv

(* Where a post stands.                                                     *)
LEMMA PostStands ==
    ASSUME BillInv, NEW i \in DOMAIN posts
    PROVE  /\ i \in 1 .. Len(posts) /\ posts[i] \in Posted
           /\ posts[i].answer \in Answering /\ keptAnswer \in Answering
           /\ day \in Bill!Days /\ Bill!Month(day) \in Months
<1>1. posts \in Seq(Posted)
  BY DEF BillInv, BillTyped
<1>2. i \in 1 .. Len(posts)
  BY <1>1, LenProperties
<1>3. posts[i] \in Posted
  BY <1>1, <1>2, ElementOfSeq
<1>4. posts[i].answer \in Answering
  BY <1>3 DEF Posted
<1>5. keptAnswer \in Answering /\ day \in Bill!Days
  BY DEF BillInv, BillTyped
<1>6. Bill!Month(day) \in Months
  BY <1>5 DEF Months
<1> QED BY <1>2, <1>3, <1>4, <1>5, <1>6

(* What the gateway and the client make of a post.                          *)
FieldsOf(r, pc, answer, d, month, status, heard, tokens) ==
    /\ r \in Posted /\ r.pc = pc /\ r.answer = answer /\ r.day = d /\ r.month = month
    /\ r.status = status /\ r.heard = heard /\ r.tokens = tokens

(* The fields of a post of which some have changed.                         *)
LEMMA Reposted ==
    ASSUME NEW q \in Posted, NEW u \in PostStates, NEW s \in Statuses, NEW a \in Answering,
           NEW d \in Bill!Days, NEW m \in Months, NEW r
    PROVE  /\ r = [q EXCEPT !.pc = u] => FieldsOf(r, u, q.answer, q.day, q.month, q.status, q.heard, q.tokens)
           /\ r = [q EXCEPT !.pc = u, !.status = s] =>
                  FieldsOf(r, u, q.answer, q.day, q.month, s, q.heard, q.tokens)
           /\ r = [q EXCEPT !.pc = u, !.status = s, !.answer = a] =>
                  FieldsOf(r, u, a, q.day, q.month, s, q.heard, q.tokens)
           /\ r = [q EXCEPT !.pc = u, !.month = m] =>
                  FieldsOf(r, u, q.answer, q.day, m, q.status, q.heard, q.tokens)
           /\ r = [q EXCEPT !.pc = u, !.day = d, !.answer = a] =>
                  FieldsOf(r, u, a, d, q.month, q.status, q.heard, q.tokens)
<1> USE DEF FieldsOf, Posted
<1>1. r = [q EXCEPT !.pc = u] => FieldsOf(r, u, q.answer, q.day, q.month, q.status, q.heard, q.tokens)
  OBVIOUS
<1>2. r = [q EXCEPT !.pc = u, !.status = s] =>
          FieldsOf(r, u, q.answer, q.day, q.month, s, q.heard, q.tokens)
  OBVIOUS
<1>3. r = [q EXCEPT !.pc = u, !.status = s, !.answer = a] =>
          FieldsOf(r, u, a, q.day, q.month, s, q.heard, q.tokens)
  OBVIOUS
<1>4. r = [q EXCEPT !.pc = u, !.month = m] =>
          FieldsOf(r, u, q.answer, q.day, m, q.status, q.heard, q.tokens)
  OBVIOUS
<1>5. r = [q EXCEPT !.pc = u, !.day = d, !.answer = a] =>
          FieldsOf(r, u, a, d, q.month, q.status, q.heard, q.tokens)
  OBVIOUS
<1> HIDE DEF FieldsOf, Posted
<1> QED BY <1>1, <1>2, <1>3, <1>4, <1>5

Refusal(q, s) == [q EXCEPT !.pc = "responded", !.status = s]

(* A post that is refused.                                                  *)
LEMMA Refused ==
    ASSUME NEW q \in Posted, NEW s \in Statuses, NEW r, r = Refusal(q, s)
    PROVE  FieldsOf(r, "responded", q.answer, q.day, q.month, s, q.heard, q.tokens)
<1>1. "responded" \in PostStates
  BY DEF PostStates
<1> QED BY <1>1 DEF FieldsOf, Posted, Refusal

(* A post whose response the client has read.                               *)
LEMMA Heard ==
    ASSUME NEW q \in Posted, NEW r, r = [q EXCEPT !.heard = TRUE]
    PROVE  FieldsOf(r, q.pc, q.answer, q.day, q.month, q.status, TRUE, q.tokens)
BY DEF FieldsOf, Posted

(* The gateway's steps on a post.                                           *)
LEMMA GatewaySteps ==
    ASSUME BillInv, NEW i \in DOMAIN posts,
           \/ Bill!Lookup(i) \/ Bill!Refuse(i) \/ Bill!Provide(i) \/ Bill!Daily(i)
           \/ Bill!Monthly(i) \/ Bill!Respond(i) \/ Bill!Drop(i)
    PROVE  BillInv'
<1> DEFINE q == posts[i]
<1>0. /\ q \in Posted /\ q.answer \in Answering /\ keptAnswer \in Answering
      /\ day \in Bill!Days /\ Bill!Month(day) \in Months /\ q.tokens \in Charges
  BY PostStands DEF Posted
<1>s. 200 \in Statuses /\ 404 \in Statuses /\ 503 \in Statuses
  BY DEF Statuses
<1>1. CASE Bill!Lookup(i)
  <2>0. q.pc = "arrived" /\ UNCHANGED <<day, asked>> /\ keptAnswer' = keptAnswer
    BY <1>1 DEF Bill!Lookup, Bill!At, Bill!gatewayVars
  <2>1. CASE CacheResponses /\ keptAnswer # Bill!None
    <3> DEFINE k == [keptAnswer EXCEPT !.cached = TRUE]
               p == [q EXCEPT !.pc = "responded", !.status = 200, !.answer = k]
    <3>1. k \in Answering /\ k.content = keptAnswer.content
      BY <1>0 DEF Answering
    <3>2. posts' = [posts EXCEPT ![i] = p]
      BY <1>1, <2>1 DEF Bill!Lookup
    <3> HIDE DEF k
    <3>3. FieldsOf(p, "responded", k, q.day, q.month, 200, q.heard, q.tokens)
      BY <1>0, <1>s, <3>1, Reposted DEF PostStates
    <3> HIDE DEF p
    <3>4. LoneKept(asked, keptAnswer, q) => LoneKept(asked, keptAnswer', p)
      BY <2>0, <3>1, <3>3 DEF LoneKept, FieldsOf
    <3> QED BY <1>0, <2>0, <3>2, <3>3, <3>4, GatewayStep DEF FieldsOf
  <2>2. CASE ~(CacheResponses /\ keptAnswer # Bill!None)
    <3> DEFINE p == [q EXCEPT !.pc = "provider"]
    <3>1. posts' = [posts EXCEPT ![i] = p]
      BY <1>1, <2>2 DEF Bill!Lookup
    <3>2. FieldsOf(p, "provider", q.answer, q.day, q.month, q.status, q.heard, q.tokens)
      BY <1>0, <1>s, Reposted DEF PostStates
    <3> HIDE DEF p
    <3>3. CacheResponses /\ LoneKept(asked, keptAnswer, q) => LoneKept(asked, keptAnswer', p)
      <4>1. CacheResponses => keptAnswer.content # "null"
        BY <2>2, BillRecords
      <4> QED BY <2>0, <3>2, <4>1 DEF LoneKept, FieldsOf
    <3> QED BY <1>0, <2>0, <3>1, <3>2, <3>3, GatewayStep DEF FieldsOf
  <2> QED BY <2>1, <2>2
<1>2. CASE Bill!Refuse(i)
  <2>1. PICK s \in {503, 404} : posts' = [posts EXCEPT ![i].pc = "responded", ![i].status = s]
    BY <1>2 DEF Bill!Refuse
  <2> DEFINE p == Refusal(q, s)
  <2>2. posts' = [posts EXCEPT ![i] = p]
    BY <2>1 DEF Refusal
  <2>a. s \in Statuses
    BY <1>s
  <2>3. FieldsOf(p, "responded", q.answer, q.day, q.month, s, q.heard, q.tokens)
    BY <1>0, <2>a, Refused
  <2> HIDE DEF p
  <2>4. q.pc \in {"arrived", "provider"} /\ UNCHANGED <<day, asked>> /\ keptAnswer' = keptAnswer
    BY <1>2 DEF Bill!Refuse, Bill!gatewayVars
  <2>5. LoneKept(asked, keptAnswer, q) => LoneKept(asked, keptAnswer', p)
    BY <2>3, <2>4 DEF LoneKept, FieldsOf
  <2> QED BY <1>0, <2>2, <2>3, <2>4, <2>5, GatewayStep DEF FieldsOf
<1>3. CASE Bill!Provide(i)
  <2>1. PICK content \in {"text", "null", "none"} :
          posts' = [posts EXCEPT ![i] = [q EXCEPT !.pc = "daily", !.day = day,
                       !.answer = [tokens |-> q.tokens, content |-> content, cached |-> FALSE]]]
    BY <1>3 DEF Bill!Provide
  <2> DEFINE k == [tokens |-> q.tokens, content |-> content, cached |-> FALSE]
             p == [q EXCEPT !.pc = "daily", !.day = day, !.answer = k]
  <2>2. k \in Answering
    BY <1>0 DEF Answering, Charges
  <2>3. posts' = [posts EXCEPT ![i] = p]
    BY <2>1
  <2> HIDE DEF k
  <2>4. FieldsOf(p, "daily", k, day, q.month, q.status, q.heard, q.tokens)
    BY <1>0, <1>s, <2>2, Reposted DEF PostStates
  <2> HIDE DEF p
  <2>5. q.pc = "provider" /\ UNCHANGED <<day, asked>> /\ keptAnswer' = keptAnswer
    BY <1>3 DEF Bill!Provide, Bill!At
  <2>6. LoneKept(asked, keptAnswer, q) => LoneKept(asked, keptAnswer', p)
    BY <2>4, <2>5 DEF LoneKept, FieldsOf
  <2> QED BY <1>0, <2>3, <2>4, <2>5, <2>6, GatewayStep DEF FieldsOf
<1>4. CASE Bill!Daily(i)
  <2> DEFINE p == [q EXCEPT !.pc = "monthly", !.month = Bill!Month(day)]
  <2>1. posts' = [posts EXCEPT ![i] = p]
    BY <1>4 DEF Bill!Daily
  <2>2. FieldsOf(p, "monthly", q.answer, q.day, Bill!Month(day), q.status, q.heard, q.tokens)
    BY <1>0, <1>s, Reposted DEF PostStates
  <2> HIDE DEF p
  <2>3. q.pc = "daily" /\ UNCHANGED <<day, asked>> /\ keptAnswer' = keptAnswer
    BY <1>4 DEF Bill!Daily, Bill!At
  <2>4. LoneKept(asked, keptAnswer, q) => LoneKept(asked, keptAnswer', p)
    BY <2>2, <2>3 DEF LoneKept, FieldsOf
  <2> QED BY <1>0, <2>1, <2>2, <2>3, <2>4, GatewayStep DEF FieldsOf
<1>5. CASE Bill!Monthly(i)
  <2> DEFINE p == [q EXCEPT !.pc = "store"]
  <2>1. posts' = [posts EXCEPT ![i] = p]
    BY <1>5 DEF Bill!Monthly
  <2>2. FieldsOf(p, "store", q.answer, q.day, q.month, q.status, q.heard, q.tokens)
    BY <1>0, <1>s, Reposted DEF PostStates
  <2> HIDE DEF p
  <2>3. q.pc = "monthly" /\ UNCHANGED <<day, asked>> /\ keptAnswer' = keptAnswer
    BY <1>5 DEF Bill!Monthly, Bill!At
  <2>4. LoneKept(asked, keptAnswer, q) => LoneKept(asked, keptAnswer', p)
    BY <2>2, <2>3 DEF LoneKept, FieldsOf
  <2> QED BY <1>0, <2>1, <2>2, <2>3, <2>4, GatewayStep DEF FieldsOf
<1>6. CASE Bill!Respond(i)
  <2> DEFINE p == [q EXCEPT !.pc = "responded", !.status = 200]
  <2>1. posts' = [posts EXCEPT ![i] = p]
    BY <1>6 DEF Bill!Respond
  <2>2. FieldsOf(p, "responded", q.answer, q.day, q.month, 200, q.heard, q.tokens)
    BY <1>0, <1>s, Reposted DEF PostStates
  <2> HIDE DEF p
  <2>3. /\ q.pc = "store" /\ UNCHANGED <<day, asked>>
        /\ keptAnswer' = IF CacheResponses THEN q.answer ELSE keptAnswer
    BY <1>6 DEF Bill!Respond, Bill!At
  <2>4. CacheResponses /\ LoneKept(asked, keptAnswer, q) => LoneKept(asked, keptAnswer', p)
    BY <2>2, <2>3 DEF LoneKept, FieldsOf
  <2> QED BY <1>0, <2>1, <2>2, <2>3, <2>4, GatewayStep DEF FieldsOf
<1>7. CASE Bill!Drop(i)
  <2> DEFINE p == [q EXCEPT !.pc = "gone"]
  <2>1. posts' = [posts EXCEPT ![i] = p]
    BY <1>7 DEF Bill!Drop
  <2>2. FieldsOf(p, "gone", q.answer, q.day, q.month, q.status, q.heard, q.tokens)
    BY <1>0, <1>s, Reposted DEF PostStates
  <2> HIDE DEF p
  <2>3. /\ q.pc # "responded" /\ UNCHANGED <<day, asked>> /\ keptAnswer' = keptAnswer
        /\ ~(asked.pc = "waiting" /\ i = Len(posts))
    BY <1>7 DEF Bill!Drop, Bill!Waited, Bill!gatewayVars
  <2>4. i = Len(posts) /\ LoneKept(asked, keptAnswer, q) => LoneKept(asked, keptAnswer', p)
    BY <2>2, <2>3 DEF LoneKept, FieldsOf
  <2> QED BY <1>0, <2>1, <2>2, <2>3, <2>4, GatewayStep DEF FieldsOf
<1> QED BY <1>1, <1>2, <1>3, <1>4, <1>5, <1>6, <1>7

(* What becomes of a call.                                                  *)
CallIs(a, pc, try, attempt, from, outcome) ==
    /\ a \in Asking /\ a.pc = pc /\ a.try = try /\ a.attempt = attempt /\ a.from = from /\ a.outcome = outcome

Ended(q, o)       == [q EXCEPT !.pc = "done", !.outcome = o]
Retrying(q, first) == [q EXCEPT !.try = 2, !.attempt = 0, !.first = first]
Begun(n)          == [Bill!Idle EXCEPT !.pc = "waiting", !.from = n]

(* A call that ends with an outcome.                                        *)
LEMMA CallDone ==
    ASSUME NEW q \in Asking, NEW a, NEW o \in Outcomes, a = Ended(q, o)
    PROVE  CallIs(a, "done", q.try, q.attempt, q.from, o)
<1>1. "done" \in CallStates
  BY DEF CallStates
<1> QED BY <1>1 DEF CallIs, Asking, Ended

(* A call that asks again after a failed attempt.                           *)
LEMMA CallAgain ==
    ASSUME NEW q \in Asking, NEW a, a = [q EXCEPT !.attempt = 1]
    PROVE  CallIs(a, q.pc, q.try, 1, q.from, q.outcome)
<1>1. 1 \in Attempts
  BY DEF Attempts
<1> QED BY <1>1 DEF CallIs, Asking

(* A call that begins its second try.                                       *)
LEMMA CallRetries ==
    ASSUME NEW q \in Asking, NEW a, NEW first \in Answering, a = Retrying(q, first)
    PROVE  CallIs(a, q.pc, 2, 0, q.from, q.outcome) /\ a.first = first
<1>1. 0 \in Attempts /\ 2 \in Tries
  BY DEF Attempts, Tries
<1> QED BY <1>1 DEF CallIs, Asking, Retrying

(* A call that begins: its first post is yet to be made.                    *)
LEMMA CallBegins ==
    ASSUME NEW n \in Starts, NEW a, a = Begun(n)
    PROVE  CallIs(a, "waiting", 1, 0, n, "none") /\ a.first = Bill!None
<1>1. Bill!Idle \in Asking /\ "waiting" \in CallStates
  BY BillRecords DEF CallStates
<1>2. /\ Bill!Idle.try = 1 /\ Bill!Idle.attempt = 0 /\ Bill!Idle.outcome = "none"
      /\ Bill!Idle.first = Bill!None
  BY DEF Bill!Idle
<1> QED BY <1>1, <1>2 DEF CallIs, Asking, Begun

(* The posts when the client moves: the last was heard or it was not.       *)
LogOf(log) ==
    LET n == Len(posts) IN
    /\ log \in Seq(Posted) /\ Len(log) = n /\ n \in Nat \ {0}
    /\ \A j \in 1 .. n - 1 : log[j] = posts[j]
    /\ log[n].pc = posts[n].pc /\ log[n].status = posts[n].status /\ log[n].answer = posts[n].answer
    /\ log[n].heard => log[n].pc = "responded"

(* The log as it is.                                                        *)
LEMMA LogStays == BillInv /\ asked.pc = "waiting" => LogOf(posts)
<1> SUFFICES ASSUME BillInv, asked.pc = "waiting" PROVE LogOf(posts)
  OBVIOUS
<1>1. posts \in Seq(Posted) /\ Len(posts) \in Nat /\ asked \in Asking /\ asked.from <= Len(posts)
  BY LenProperties DEF BillInv, BillTyped
<1>2. Len(posts) > 0
  BY <1>1 DEF Asking, Starts
<1>3. posts[Len(posts)].heard => posts[Len(posts)].pc = "responded"
  BY <1>1, <1>2 DEF BillInv, BillTyped
<1> QED BY <1>1, <1>2, <1>3 DEF LogOf

(* The log with its last post heard, when that has been responded to.       *)
LEMMA LogHeard ==
    ASSUME BillInv, asked.pc = "waiting", posts[Len(posts)].pc = "responded", NEW log,
           log = [posts EXCEPT ![Len(posts)].heard = TRUE]
    PROVE  LogOf(log) /\ log[Len(posts)].heard
<1> DEFINE n == Len(posts)  q == posts[n]  p == [q EXCEPT !.heard = TRUE]
<1>1. posts \in Seq(Posted) /\ n \in Nat \ {0} /\ DOMAIN posts = 1 .. n
  BY LogStays, LenProperties DEF LogOf
<1>2. n \in DOMAIN posts /\ q \in Posted
  BY <1>1, ElementOfSeq
<1>3. log = [posts EXCEPT ![n] = p]
  OBVIOUS
<1>4. FieldsOf(p, q.pc, q.answer, q.day, q.month, q.status, TRUE, q.tokens)
  BY <1>2, Heard
<1> HIDE DEF p
<1>5. /\ log \in Seq(Posted) /\ Len(log) = n
      /\ \A j \in 1 .. n : log[j] = IF j = n THEN p ELSE posts[j]
  BY <1>1, <1>2, <1>3, <1>4, PostReplaced DEF FieldsOf
<1> HIDE DEF n
<1>6. log[n] = p /\ \A j \in 1 .. n - 1 : log[j] = posts[j]
  BY <1>1, <1>5
<1> QED BY <1>1, <1>4, <1>5, <1>6 DEF LogOf, FieldsOf, n

(* A call ends.                                                             *)
LEMMA CallEnds ==
    ASSUME BillInv, asked.pc = "waiting", NEW log, LogOf(log), NEW o \in {"raised", "empty", "content"},
           asked' = Ended(asked, o), posts' = log, UNCHANGED <<day, keptAnswer>>,
           o = "raised" => asked.try = 1 /\ (log[Len(posts)].heard => log[Len(posts)].status # 200),
           o = "content" => posts[Len(posts)].pc = "responded" /\ posts[Len(posts)].status = 200
                            /\ posts[Len(posts)].answer.content # "null"
    PROVE  BillInv'
<1> DEFINE n == Len(posts)
<1>0. /\ asked \in Asking /\ posts \in Seq(Posted) /\ keptAnswer \in Answering /\ day \in Bill!Days
      /\ asked.from <= n /\ asked.outcome = "none" /\ asked.from \in Nat \ {0}
  BY DEF BillInv, BillTyped, Asking, Starts
<1>1. CallIs(asked', "done", asked.try, asked.attempt, asked.from, o)
  <2>1. o \in Outcomes
    BY DEF Outcomes
  <2> QED BY <1>0, <2>1, CallDone
<1>2. /\ log \in Seq(Posted) /\ Len(log) = n /\ n \in Nat \ {0}
      /\ \A j \in 1 .. n - 1 : log[j] = posts[j]
      /\ log[n].pc = posts[n].pc /\ log[n].status = posts[n].status /\ log[n].answer = posts[n].answer
      /\ log[n].heard => log[n].pc = "responded"
  BY DEF LogOf
<1> HIDE DEF n
<1>3. BillTyped'
  <2>1. \A i \in 1 .. n : log[i].heard => log[i].pc = "responded"
    BY <1>2 DEF BillInv, BillTyped, n
  <2> QED BY <1>0, <1>1, <1>2, <2>1 DEF BillTyped, CallIs
<1>4. Len(posts') <= asked'.from + asked'.attempt + (IF asked'.try = 1 THEN 0 ELSE 2)
  BY <1>1, <1>2 DEF BillInv, CallIs, n
<1>5. asked'.outcome = "raised" => asked'.try = 1
  BY <1>1 DEF CallIs
<1>6. ASSUME asked'.try = 1, asked'.outcome \in {"none", "raised"}, NEW i \in asked'.from .. Len(posts'), posts'[i].heard
      PROVE  posts'[i].status # 200
  <2>1. o = "raised" /\ i \in asked.from .. n /\ asked.try = 1
    BY <1>1, <1>2, <1>6 DEF CallIs
  <2>2. CASE i = n
    BY <1>6, <2>1, <2>2 DEF n
  <2>3. CASE i # n
    <3>1. posts'[i] = posts[i]
      BY <1>0, <1>2, <2>1, <2>3
    <3> QED BY <1>0, <1>6, <2>1, <3>1 DEF BillInv, n
  <2> QED BY <2>2, <2>3
<1>7. Lone' <=> Lone
  BY <1>2 DEF Lone, n
<1>8. ASSUME CacheResponses, Lone' PROVE LoneKept(asked', keptAnswer', posts'[Len(posts')])
  <2>1. LoneKept(asked, keptAnswer, posts[n])
    BY <1>2, <1>7, <1>8 DEF BillInv, n
  <2> QED BY <1>1, <1>2, <2>1 DEF LoneKept, CallIs
<1>9. ASSUME CacheResponses, asked'.outcome = "content", asked'.try = 2
      PROVE  \E i \in 1 .. Len(posts') : ~posts'[i].heard
  <2>1. o = "content" /\ asked.try = 2
    BY <1>1, <1>9 DEF CallIs
  <2>2. ~Lone
    <3>1. ASSUME Lone PROVE LoneKept(asked, keptAnswer, posts[n])
      BY <1>2, <1>9, <3>1 DEF BillInv, n
    <3> QED BY <2>1, <3>1 DEF LoneKept, n
  <2>3. PICK i \in 1 .. n - 1 : ~posts[i].heard
    BY <2>2 DEF Lone, n
  <2> QED BY <1>2, <2>3
<1> QED BY <1>3, <1>4, <1>5, <1>6, <1>8, <1>9 DEF BillInv

(* A post that is made.                                                     *)
LEMMA PostMade ==
    ASSUME NEW tokens \in Charges, NEW log \in Seq(Posted), NEW p, p = Bill!Post(tokens, log)
    PROVE  /\ p \in Seq(Posted) /\ Len(log) \in Nat /\ Len(p) = Len(log) + 1
           /\ \A j \in 1 .. Len(log) : p[j] = log[j]
           /\ p[Len(log) + 1].pc = "arrived" /\ ~p[Len(log) + 1].heard
           /\ p[Len(log) + 1].tokens = tokens /\ p[Len(log) + 1].answer = Bill!None
<1> DEFINE q == [pc |-> "arrived", tokens |-> tokens, answer |-> Bill!None,
                 day |-> 0, month |-> 0, status |-> 0, heard |-> FALSE]
<1>1. q \in Posted
  <2>1. "arrived" \in PostStates /\ 0 \in Statuses /\ 0 \in Months
    BY DEF PostStates, Statuses, Months
  <2> QED BY <2>1, BillRecords DEF Posted
<1>2. p = Append(log, q)
  BY DEF Bill!Post
<1>3. q.pc = "arrived" /\ ~q.heard /\ q.tokens = tokens /\ q.answer = Bill!None
  OBVIOUS
<1> HIDE DEF q
<1>4. /\ p \in Seq(Posted) /\ Len(log) \in Nat /\ Len(p) = Len(log) + 1
      /\ \A j \in 1 .. Len(log) : p[j] = log[j]
      /\ p[Len(log) + 1] = q
  BY <1>1, <1>2, AppendProperties, LenProperties
<1> QED BY <1>3, <1>4

(* A call that goes on, with one more post: after the first failure of a    *)
(* try, or with the second try.                                             *)
LEMMA CallGoesOn ==
    ASSUME BillInv, asked.pc = "waiting", NEW log, LogOf(log), NEW tokens \in Charges,
           posts' = Bill!Post(tokens, log), UNCHANGED <<day, keptAnswer>>,
           NEW t \in Tries, NEW k \in Attempts, CallIs(asked', "waiting", t, k, asked.from, "none"),
           \/ /\ t = asked.try /\ asked.attempt = 0 /\ k = 1
              /\ asked.try = 1 /\ log[Len(posts)].heard => log[Len(posts)].status # 200
           \/ /\ asked.try = 1 /\ t = 2 /\ k = 0
              /\ posts[Len(posts)].pc = "responded" /\ posts[Len(posts)].status = 200
              /\ posts[Len(posts)].answer.content = "null"
    PROVE  BillInv'
<1> DEFINE n == Len(posts)
<1>0. /\ asked \in Asking /\ posts \in Seq(Posted) /\ keptAnswer \in Answering /\ day \in Bill!Days
      /\ asked.from <= n /\ asked.outcome = "none" /\ asked.from \in Nat \ {0}
      /\ asked.try \in {1, 2} /\ asked.attempt \in {0, 1}
  BY DEF BillInv, BillTyped, Asking, Starts, Tries, Attempts
<1>2. /\ log \in Seq(Posted) /\ Len(log) = n /\ n \in Nat \ {0}
      /\ \A j \in 1 .. n - 1 : log[j] = posts[j]
      /\ log[n].pc = posts[n].pc /\ log[n].status = posts[n].status /\ log[n].answer = posts[n].answer
      /\ log[n].heard => log[n].pc = "responded"
  BY DEF LogOf
<1>3. /\ posts' \in Seq(Posted) /\ Len(posts') = n + 1
      /\ \A j \in 1 .. n : posts'[j] = log[j]
      /\ posts'[n + 1].pc = "arrived" /\ ~posts'[n + 1].heard
  <2>1. log \in Seq(Posted) /\ posts' = Bill!Post(tokens, log)
    BY <1>2
  <2>2. /\ posts' \in Seq(Posted) /\ Len(posts') = Len(log) + 1
        /\ \A j \in 1 .. Len(log) : posts'[j] = log[j]
        /\ posts'[Len(log) + 1].pc = "arrived" /\ ~posts'[Len(log) + 1].heard
    BY <2>1, PostMade
  <2> HIDE DEF n
  <2> QED BY <1>2, <2>2
<1>d. \/ /\ t = asked.try /\ asked.attempt = 0 /\ k = 1
         /\ asked.try = 1 /\ log[n].heard => log[n].status # 200
      \/ /\ asked.try = 1 /\ t = 2 /\ k = 0 /\ posts[n].pc = "responded" /\ posts[n].status = 200
         /\ posts[n].answer.content = "null"
  OBVIOUS
<1>b. /\ n <= asked.from + asked.attempt + (IF asked.try = 1 THEN 0 ELSE 2)
      /\ CacheResponses /\ Lone => LoneKept(asked, keptAnswer, posts[n])
      /\ asked.try = 1 => \A i \in asked.from .. n : posts[i].heard => posts[i].status # 200
  BY <1>0, <1>2 DEF BillInv
<1>c. \A i \in 1 .. n : log[i].heard => log[i].pc = "responded"
  BY <1>2 DEF BillInv, BillTyped
<1> HIDE DEF n
<1>4. BillTyped'
  <2>1. \A i \in 1 .. n + 1 : posts'[i].heard => posts'[i].pc = "responded"
    BY <1>2, <1>3, <1>c
  <2> QED BY <1>0, <1>2, <1>3, <2>1 DEF BillTyped, CallIs
<1>5. Len(posts') <= asked'.from + asked'.attempt + (IF asked'.try = 1 THEN 0 ELSE 2)
  <2>1. asked'.from = asked.from /\ asked'.attempt = k /\ asked'.try = t /\ t \in {1, 2}
    BY DEF CallIs, Tries
  <2> QED BY <1>0, <1>2, <1>3, <1>b, <1>d, <2>1
<1>6. ASSUME asked'.try = 1, NEW i \in asked'.from .. Len(posts'), posts'[i].heard
      PROVE  posts'[i].status # 200
  <2>1. t = 1 /\ i \in asked.from .. n + 1 /\ asked.try = 1 /\ (log[n].heard => log[n].status # 200)
    BY <1>3, <1>6, <1>d DEF CallIs
  <2>2. i # n + 1
    BY <1>3, <1>6
  <2>3. i \in asked.from .. n /\ posts'[i] = log[i]
    BY <1>0, <1>2, <1>3, <2>1, <2>2
  <2>4. i # n => log[i] = posts[i]
    BY <1>0, <1>2, <2>3
  <2> QED BY <1>6, <1>b, <2>1, <2>3, <2>4
<1>7. ASSUME CacheResponses, Lone' PROVE LoneKept(asked', keptAnswer', posts'[Len(posts')])
  <2>1. \A i \in 1 .. n : log[i].heard
    BY <1>2, <1>3, <1>7 DEF Lone
  <2>2. Lone
    BY <1>2, <2>1 DEF Lone, n
  <2>3. LoneKept(asked, keptAnswer, posts[n])
    BY <1>7, <1>b, <2>2
  <2>4. t = 2 => keptAnswer.content = "null"
    BY <1>d, <2>3 DEF LoneKept
  <2> QED BY <1>3, <2>4 DEF LoneKept, CallIs
<1>8. asked'.outcome = "none"
  BY DEF CallIs
<1> QED BY <1>4, <1>5, <1>6, <1>7, <1>8 DEF BillInv

(* A call begins.                                                           *)
LEMMA AskKept == BillInv /\ Bill!Ask => BillInv'
<1> SUFFICES ASSUME BillInv, Bill!Ask PROVE BillInv'
  OBVIOUS
<1> DEFINE n == Len(posts)
<1>0. /\ posts \in Seq(Posted) /\ keptAnswer \in Answering /\ day \in Bill!Days /\ n \in Nat
      /\ \A i \in 1 .. n : posts[i].heard => posts[i].pc = "responded"
  BY LenProperties DEF BillInv, BillTyped
<1>1. /\ asked' = Begun(n + 1)
      /\ posts' = Bill!Post(1, posts) /\ UNCHANGED <<day, keptAnswer>>
  BY DEF Bill!Ask, Bill!gatewayVars, Begun
<1>2. /\ posts' \in Seq(Posted) /\ Len(posts') = n + 1
      /\ \A j \in 1 .. n : posts'[j] = posts[j]
      /\ posts'[n + 1].pc = "arrived" /\ ~posts'[n + 1].heard
  <2>1. 1 \in Charges
    BY DEF Charges
  <2>2. posts' = Bill!Post(1, posts)
    BY <1>1
  <2> QED BY <1>0, <2>1, <2>2, PostMade
<1>3. CallIs(asked', "waiting", 1, 0, n + 1, "none")
  <2>1. n + 1 \in Starts
    BY <1>0 DEF Starts
  <2> HIDE DEF n
  <2> QED BY <1>1, <2>1, CallBegins
<1> HIDE DEF n
<1>4. BillTyped'
  <2>1. \A i \in 1 .. n + 1 : posts'[i].heard => posts'[i].pc = "responded"
    BY <1>0, <1>2
  <2> QED BY <1>0, <1>1, <1>2, <1>3, <2>1 DEF BillTyped, CallIs
<1>5. Len(posts') <= asked'.from + asked'.attempt + (IF asked'.try = 1 THEN 0 ELSE 2)
  BY <1>0, <1>2, <1>3 DEF CallIs
<1>6. \A i \in asked'.from .. Len(posts') : posts'[i].heard => posts'[i].status # 200
  BY <1>0, <1>2, <1>3 DEF CallIs
<1>7. LoneKept(asked', keptAnswer', posts'[Len(posts')])
  BY <1>2, <1>3 DEF LoneKept, CallIs
<1>8. asked'.outcome = "none" /\ asked'.try = 1
  BY <1>3 DEF CallIs
<1> QED BY <1>4, <1>5, <1>6, <1>7, <1>8 DEF BillInv

(* The attempt failed, in a way that is tried again, or not.                *)
LEMMA FailedKept ==
    ASSUME BillInv, asked.pc = "waiting", NEW log, LogOf(log), Bill!Again(log) \/ Bill!Raises(log),
           asked.try = 1 /\ log[Len(posts)].heard => log[Len(posts)].status # 200, UNCHANGED <<day, keptAnswer>>
    PROVE  BillInv'
<1>0. asked \in Asking /\ asked.outcome = "none"
  BY DEF BillInv, BillTyped
<1>1. ASSUME Bill!Raises(log) PROVE BillInv'
  <2>1. PICK o \in {"raised", "empty"} : asked' = Ended(asked, o) /\ (o = "raised" => asked.try = 1)
    BY <1>1 DEF Bill!Raises, Bill!Finish, Ended
  <2>2. posts' = log /\ o \in {"raised", "empty", "content"} /\ o # "content"
    BY <1>1 DEF Bill!Raises
  <2>3. o = "raised" => asked.try = 1
    BY <2>1
  <2> QED BY <2>1, <2>2, <2>3, CallEnds
<1>2. ASSUME asked.attempt = 0, asked' = [asked EXCEPT !.attempt = 1], posts' = Bill!Post(asked.try, log)
      PROVE  BillInv'
  <2>1. asked.try \in Tries /\ asked.try \in Charges /\ 1 \in Attempts
    BY <1>0 DEF Asking, Tries, Charges, Attempts
  <2>2. CallIs(asked', "waiting", asked.try, 1, asked.from, "none")
    BY <1>0, <1>2, CallAgain
  <2> QED BY <1>2, <2>1, <2>2, CallGoesOn
<1> QED BY <1>1, <1>2 DEF Bill!Again, Bill!Tokens

(* A response of a try.                                                     *)
LEMMA AnsweredKept ==
    ASSUME BillInv, asked.pc = "waiting", NEW log, LogOf(log),
           posts[Len(posts)].pc = "responded", posts[Len(posts)].status = 200,
           Bill!Answered(posts[Len(posts)].answer, log), UNCHANGED <<day, keptAnswer>>
    PROVE  BillInv'
<1> DEFINE answer == posts[Len(posts)].answer
<1>0. asked \in Asking /\ asked.outcome = "none"
  BY DEF BillInv, BillTyped
<1>1. ASSUME NEW o \in {"content", "empty"}, asked' = Ended(asked, o), posts' = log,
             o = "content" => answer.content = "text"
      PROVE  BillInv'
  BY <1>1, CallEnds
<1>2. ASSUME answer.content = "null", asked.try = 1, posts' = Bill!Post(2, log),
             asked' = Retrying(asked, answer)
      PROVE  BillInv'
  <2>1. 2 \in Tries /\ 2 \in Charges /\ 0 \in Attempts
    BY DEF Tries, Charges, Attempts
  <2>2. answer \in Answering
    <3>1. Len(posts) \in DOMAIN posts
      <4>1. posts \in Seq(Posted) /\ Len(posts) \in Nat \ {0}
        BY DEF LogOf, BillInv, BillTyped
      <4> QED BY <4>1, LenProperties
    <3> QED BY <3>1, PostStands
  <2>3. CallIs(asked', "waiting", 2, 0, asked.from, "none")
    BY <1>0, <1>2, <2>2, CallRetries
  <2> QED BY <1>2, <2>1, <2>3, CallGoesOn
<1> QED BY <1>1, <1>2 DEF Bill!Answered, Bill!Finish, Ended, Retrying

(* A step of a completion keeps its invariant.                              *)
LEMMA BillKept == BillInv /\ [Bill!Next]_(Bill!vars) => BillInv'
<1> SUFFICES ASSUME BillInv, [Bill!Next]_(Bill!vars) PROVE BillInv'
  OBVIOUS
<1>1. CASE Bill!Midnight
  <2>1. day' \in Bill!Days /\ UNCHANGED <<asked, posts, keptAnswer>>
    <3>1. day \in Bill!Days /\ day < MaxDays /\ day' = day + 1 /\ UNCHANGED <<asked, posts, keptAnswer>>
      BY <1>1 DEF Bill!Midnight, Bill!gatewayVars, BillInv, BillTyped
    <3>2. MaxDays \in Nat
      BY CompletionAssumptions DEF Bill!ExchangeAssumption
    <3> QED BY <3>1, <3>2 DEF Bill!Days
  <2> QED BY <2>1 DEF BillInv, BillTyped, Lone
<1>2. CASE Bill!Ask
  BY <1>2, AskKept
<1>3. CASE Bill!Hear
  <2> DEFINE n == Len(posts)  log == [posts EXCEPT ![n].heard = TRUE]
  <2>1. /\ asked.pc = "waiting" /\ posts[n].pc = "responded" /\ UNCHANGED <<day, keptAnswer>>
        /\ \/ posts[n].status = 200 /\ Bill!Answered(posts[n].answer, log)
           \/ posts[n].status = 503 /\ Bill!Again(log)
           \/ posts[n].status = 404 /\ Bill!Raises(log)
    BY <1>3 DEF Bill!Hear, Bill!gatewayVars
  <2>2. LogOf(log)
    BY <2>1, LogHeard
  <2> HIDE DEF log
  <2>3. log[n].status = posts[n].status
    BY <2>2 DEF LogOf
  <2> HIDE DEF n
  <2>0. UNCHANGED <<day, keptAnswer>>
    BY <2>1
  <2>4. CASE posts[n].status = 200 /\ Bill!Answered(posts[n].answer, log)
    BY <2>1, <2>2, <2>4, AnsweredKept DEF n
  <2>5. CASE posts[n].status # 200 /\ (Bill!Again(log) \/ Bill!Raises(log))
    <3>1. log[Len(posts)].heard => log[Len(posts)].status # 200
      BY <2>3, <2>5 DEF n
    <3> QED BY <2>0, <2>1, <2>2, <2>5, <3>1, FailedKept
  <2> QED BY <2>1, <2>4, <2>5
<1>4. CASE Bill!TimeOut
  <2>1. asked.pc = "waiting" /\ Bill!Again(posts) /\ UNCHANGED <<day, keptAnswer>>
    BY <1>4 DEF Bill!TimeOut, Bill!gatewayVars
  <2>2. LogOf(posts)
    BY <2>1, LogStays
  <2>3. asked.try = 1 /\ posts[Len(posts)].heard => posts[Len(posts)].status # 200
    <3>1. asked.from <= Len(posts) /\ asked.outcome = "none" /\ asked.from \in Nat /\ Len(posts) \in Nat
      BY <2>1, <2>2 DEF BillInv, BillTyped, Asking, Starts, LogOf
    <3> QED BY <3>1 DEF BillInv
  <2> QED BY <2>1, <2>2, <2>3, FailedKept
<1>5. ASSUME NEW i \in DOMAIN posts,
             \/ Bill!Lookup(i) \/ Bill!Refuse(i) \/ Bill!Provide(i) \/ Bill!Daily(i)
             \/ Bill!Monthly(i) \/ Bill!Respond(i) \/ Bill!Drop(i)
      PROVE  BillInv'
  BY <1>5, GatewaySteps
<1>6. CASE UNCHANGED Bill!vars
  BY <1>6 DEF Bill!vars, BillInv, BillTyped, Lone
<1> QED BY <1>1, <1>2, <1>3, <1>4, <1>5, <1>6 DEF Bill!Next

(* From it, that an answer does not raise.                                  *)
LEMMA BillHolds == BillInv => Bill!AnsweredNeverRaises
<1> SUFFICES ASSUME BillInv PROVE Bill!AnsweredNeverRaises
  OBVIOUS
<1> DEFINE own == asked.from .. Len(posts)
<1>1. /\ asked \in Asking /\ posts \in Seq(Posted) /\ Len(posts) \in Nat /\ DOMAIN posts = 1 .. Len(posts)
      /\ asked.from \in Nat /\ asked.attempt \in {0, 1} /\ asked.try \in {1, 2}
  BY LenProperties DEF BillInv, BillTyped, Asking, Starts, Attempts, Tries
<1>2. Bill!Cardinality(own) <= 4
  <2>1. Bill!Cardinality(own) = Cardinality(own)
    BY DEF Bill!Cardinality, Cardinality
  <2>2. Cardinality(own) = IF asked.from > Len(posts) THEN 0 ELSE Len(posts) - asked.from + 1
    <3> DEFINE a == asked.from  b == Len(posts)
    <3>1. a \in Int /\ b \in Int
      BY <1>1
    <3> HIDE DEF a, b
    <3>2. Cardinality(a .. b) = IF a > b THEN 0 ELSE b - a + 1
      BY <3>1, FS_Interval
    <3> QED BY <3>2 DEF a, b
  <2> HIDE DEF own
  <2>3. Len(posts) <= asked.from + asked.attempt + (IF asked.try = 1 THEN 0 ELSE 2)
    BY DEF BillInv
  <2> QED BY <1>1, <2>1, <2>2, <2>3
<1>3. asked.outcome = "raised" => \A i \in own : posts[i].heard => posts[i].status # 200
  BY DEF BillInv
<1>4. CacheResponses /\ asked.outcome = "content" /\ asked.try = 2 => \E i \in DOMAIN posts : ~posts[i].heard
  BY <1>1 DEF BillInv
<1> QED BY <1>2, <1>3, <1>4 DEF Bill!AnsweredNeverRaises

-----------------------------------------------------------------------------
(* The tokens of the posts of a kind.                                       *)
AtDaily   == {p \in Posted : p.pc = "daily"}
AtMonthly == {p \in Posted : p.pc = "monthly"}
InMonth(m) == {p \in Posted : p.pc = "monthly" /\ p.month = m}
Unsettled == {p \in Posted : p.pc \in {"daily", "monthly", "gone"}}
Provided  == {p \in Posted : ~p.answer.cached}
Heeded    == {p \in Posted : p.heard}
HeededOnce == {p \in Posted : p.heard /\ p.tokens = 1 /\ ~p.answer.cached}

Toll(K, p) == IF p \in K THEN p.answer.tokens ELSE 0
Tolls(K, log) == [j \in 1 .. Len(log) |-> Toll(K, log[j])]
Owing(K, log) == Bill!Added(Tolls(K, log), 1 .. Len(log))

(* They are numbers.                                                        *)
LEMMA TollType == \A K, p : p \in Posted => Toll(K, p) \in Nat
BY DEF Toll, Posted, Answering

LEMMA TollsNumbered ==
    ASSUME NEW K, NEW log \in Seq(Posted)
    PROVE  /\ Len(log) \in Nat /\ IsFiniteSet(1 .. Len(log))
           /\ \A j \in 1 .. Len(log) : log[j] \in Posted /\ Tolls(K, log)[j] = Toll(K, log[j])
           /\ Numbered(Tolls(K, log), 1 .. Len(log)) /\ Owing(K, log) \in Nat
<1>1. Len(log) \in Nat /\ IsFiniteSet(1 .. Len(log))
  BY LenProperties, FS_Interval
<1>2. \A j \in 1 .. Len(log) : log[j] \in Posted /\ Tolls(K, log)[j] = Toll(K, log[j])
  BY <1>1, ElementOfSeq DEF Tolls
<1>3. Numbered(Tolls(K, log), 1 .. Len(log))
  BY <1>1, <1>2, TollType DEF Numbered
<1> QED BY <1>1, <1>2, <1>3, AddedOne DEF Owing

(* A post is replaced.                                                      *)
LEMMA OwingChanged ==
    ASSUME NEW log \in Seq(Posted), NEW i \in 1 .. Len(log), NEW p \in Posted, NEW new \in Seq(Posted),
           Len(new) = Len(log), \A j \in 1 .. Len(log) : new[j] = IF j = i THEN p ELSE log[j]
    PROVE  \A K : Owing(K, new) + Toll(K, log[i]) = Owing(K, log) + Toll(K, p)
<1> TAKE K
<1> DEFINE S == 1 .. Len(log)  f == Tolls(K, log)  g == Tolls(K, new)
<1>1. /\ Numbered(f, S) /\ \A j \in S : f[j] = Toll(K, log[j])
  BY TollsNumbered
<1>2. /\ Numbered(g, S) /\ \A j \in S : g[j] = Toll(K, new[j])
  <2>1. /\ Numbered(g, 1 .. Len(new)) /\ \A j \in 1 .. Len(new) : g[j] = Toll(K, new[j])
    BY TollsNumbered
  <2> HIDE DEF g
  <2> QED BY <2>1
<1>3. i \in S /\ f[i] = Toll(K, log[i]) /\ g[i] = Toll(K, p) /\ \A j \in S : j # i => f[j] = g[j]
  BY <1>1, <1>2
<1>4. Owing(K, log) = Bill!Added(f, S) /\ Owing(K, new) = Bill!Added(g, S)
  BY DEF Owing
<1> HIDE DEF f, g, S
<1>5. Bill!Added(g, S) + f[i] = Bill!Added(f, S) + g[i]
  <2>1. Numbered(f, S) /\ Numbered(g, S) /\ i \in S
    BY <1>1, <1>2, <1>3
  <2>2. SameBut(f, g, S, i)
    BY <1>3 DEF SameBut
  <2> QED BY ONLY <2>1, <2>2, AddedChanged
<1> QED BY <1>3, <1>4, <1>5

(* A post is made, which has no tokens yet.                                 *)
LEMMA OwingStays ==
    ASSUME NEW log \in Seq(Posted), NEW new \in Seq(Posted), Len(new) = Len(log) + 1,
           \A j \in 1 .. Len(log) : new[j] = log[j], new[Len(log) + 1].answer.tokens = 0
    PROVE  \A K : Owing(K, new) = Owing(K, log)
<1> TAKE K
<1> DEFINE n == Len(log)  S == 1 .. n  R == 1 .. n + 1  f == Tolls(K, log)  g == Tolls(K, new)
<1>1. n \in Nat /\ Numbered(f, S) /\ (\A j \in S : f[j] = Toll(K, log[j])) /\ Bill!Added(f, S) \in Nat
  BY TollsNumbered DEF Owing
<1>2. Numbered(g, R) /\ \A j \in R : g[j] = Toll(K, new[j])
  <2>1. /\ Numbered(g, 1 .. Len(new)) /\ \A j \in 1 .. Len(new) : g[j] = Toll(K, new[j])
    BY TollsNumbered
  <2>2. Len(new) = n + 1
    OBVIOUS
  <2> HIDE DEF g, n
  <2> QED BY <2>1, <2>2
<1>3. n + 1 \in R /\ R \ {n + 1} = S
  BY <1>1
<1>4. g[n + 1] = 0 /\ \A j \in S : f[j] = g[j]
  BY <1>1, <1>2, <1>3 DEF Toll
<1>5. Owing(K, log) = Bill!Added(f, S) /\ Owing(K, new) = Bill!Added(g, R)
  BY DEF Owing
<1> HIDE DEF f, g, S, R, n
<1>6. Bill!Added(g, R) = g[n + 1] + Bill!Added(g, S)
  BY <1>2, <1>3, AddedOne
<1>7. Bill!Added(f, S) = Bill!Added(g, S)
  BY <1>1, <1>4, AddedAgree
<1> QED BY <1>1, <1>4, <1>5, <1>6, <1>7

(* The tokens of posts none of which has any.                               *)
LEMMA OwingNothing ==
    ASSUME NEW K, NEW log \in Seq(Posted), \A j \in 1 .. Len(log) : Toll(K, log[j]) = 0
    PROVE  Owing(K, log) = 0
<1>1. IsFiniteSet(1 .. Len(log)) /\ \A j \in 1 .. Len(log) : Tolls(K, log)[j] = 0
  BY TollsNumbered
<1> QED BY <1>1, AddedZeros DEF Owing

-----------------------------------------------------------------------------
(* The ledgers of a completion: what of its tokens a post has brought into  *)
(* them, by where it is.                                                    *)
PostSound(p) ==
    /\ p.pc \in {"arrived", "provider"} => p.answer.tokens = 0
    /\ p.pc \in {"daily", "monthly", "store"} => p.answer.tokens = p.tokens /\ ~p.answer.cached
    /\ ~p.answer.cached => p.answer.tokens \in {0, p.tokens}
    /\ p.status = 200 => p.answer.tokens >= 1
    /\ p.status \in {404, 503} => p.answer.tokens = 0
    /\ p.pc \notin {"responded", "gone"} => p.status = 0

KeptSound(kept) == kept # Bill!None => kept.tokens >= 1 /\ ~kept.cached

(* While a call waits, its last post is of its try and was not heard; the   *)
(* first try has no answer yet, and one the second keeps cost one token,    *)
(* unless it was out of the cache.                                          *)
CallSound(a, log) ==
    a.pc = "waiting" =>
        /\ ~log[Len(log)].heard /\ log[Len(log)].tokens = a.try
        /\ a.try = 1 => a.first.tokens = 0
        /\ a.try = 2 /\ ~a.first.cached => a.first.tokens = 1

(* An answer that a waiting call has got and not yet told of.               *)
Untold(a)      == IF a.pc = "waiting" THEN a.first.tokens ELSE 0
UntoldFresh(a) == IF a.pc = "waiting" /\ ~a.first.cached THEN a.first.tokens ELSE 0

(* A post whose answer is in a day of one month and not, or elsewhere, in   *)
(* the months.                                                              *)
Strayed(p) ==
    \/ p.pc \in {"monthly", "store", "responded", "gone"} /\ Bill!Month(p.day) # p.month
    \/ p.pc = "gone" /\ p.answer # Bill!None

LedgerTyped ==
    /\ burned \in Nat /\ told \in Nat /\ total \in Nat
    /\ daily \in [Bill!Days -> Nat] /\ monthly \in [Months -> Nat]

Ledgers ==
    /\ total = Bill!Spent(monthly)
    /\ total + Owing(AtMonthly, posts) <= Bill!Spent(daily)
    /\ Bill!Spent(daily) + Owing(AtDaily, posts) <= burned
    /\ burned <= total + Owing(Unsettled, posts)
    /\ burned = Owing(Provided, posts)

MonthsAgree ==
    (\A i \in 1 .. Len(posts) : ~Strayed(posts[i])) =>
        \A m \in Months : Bill!Added(daily, Bill!Of(m)) = monthly[m] + Owing(InMonth(m), posts)

Tellings ==
    /\ told + Untold(asked) <= Owing(Heeded, posts)
    /\ Owing(HeededOnce, posts) <= told + UntoldFresh(asked)

LedgerInv ==
    /\ LedgerTyped /\ KeptSound(keptAnswer) /\ CallSound(asked, posts)
    /\ \A i \in 1 .. Len(posts) : PostSound(posts[i])
    /\ Ledgers /\ MonthsAgree /\ Tellings

(* The tokens of a post, by its fields.                                     *)
LEMMA TollsOf ==
    \A r, pc, answer, d, month, status, heard, tokens :
        FieldsOf(r, pc, answer, d, month, status, heard, tokens) =>
            /\ Toll(AtDaily, r) = IF pc = "daily" THEN answer.tokens ELSE 0
            /\ Toll(AtMonthly, r) = IF pc = "monthly" THEN answer.tokens ELSE 0
            /\ \A m : Toll(InMonth(m), r) = IF pc = "monthly" /\ month = m THEN answer.tokens ELSE 0
            /\ Toll(Unsettled, r) = IF pc \in {"daily", "monthly", "gone"} THEN answer.tokens ELSE 0
            /\ Toll(Provided, r) = IF ~answer.cached THEN answer.tokens ELSE 0
            /\ Toll(Heeded, r) = IF heard THEN answer.tokens ELSE 0
            /\ Toll(HeededOnce, r) = IF heard /\ tokens = 1 /\ ~answer.cached THEN answer.tokens ELSE 0
<1> TAKE r, pc, answer, d, month, status, heard, tokens
<1> HAVE FieldsOf(r, pc, answer, d, month, status, heard, tokens)
<1> USE DEF FieldsOf, Toll
<1>1. Toll(AtDaily, r) = IF pc = "daily" THEN answer.tokens ELSE 0
  BY DEF AtDaily
<1>2. Toll(AtMonthly, r) = IF pc = "monthly" THEN answer.tokens ELSE 0
  BY DEF AtMonthly
<1>3. \A m : Toll(InMonth(m), r) = IF pc = "monthly" /\ month = m THEN answer.tokens ELSE 0
  BY DEF InMonth
<1>4. Toll(Unsettled, r) = IF pc \in {"daily", "monthly", "gone"} THEN answer.tokens ELSE 0
  BY DEF Unsettled
<1>5. Toll(Provided, r) = IF ~answer.cached THEN answer.tokens ELSE 0
  BY DEF Provided
<1>6. Toll(Heeded, r) = IF heard THEN answer.tokens ELSE 0
  BY DEF Heeded
<1>7. Toll(HeededOnce, r) = IF heard /\ tokens = 1 /\ ~answer.cached THEN answer.tokens ELSE 0
  BY DEF HeededOnce
<1> QED BY <1>1, <1>2, <1>3, <1>4, <1>5, <1>6, <1>7

LEMMA OwnFields ==
    \A q \in Posted : /\ FieldsOf(q, q.pc, q.answer, q.day, q.month, q.status, q.heard, q.tokens)
                      /\ q.answer \in Answering /\ q.answer.tokens \in Nat /\ q.tokens \in {1, 2} /\ q.heard \in BOOLEAN
                      /\ q.answer.cached \in BOOLEAN /\ q.day \in Bill!Days /\ q.month \in Months
BY DEF FieldsOf, Posted, Answering, Charges

TollsAre(r) ==
    /\ Toll(AtDaily, r) = IF r.pc = "daily" THEN r.answer.tokens ELSE 0
    /\ Toll(AtMonthly, r) = IF r.pc = "monthly" THEN r.answer.tokens ELSE 0
    /\ \A m : Toll(InMonth(m), r) = IF r.pc = "monthly" /\ r.month = m THEN r.answer.tokens ELSE 0
    /\ Toll(Unsettled, r) = IF r.pc \in {"daily", "monthly", "gone"} THEN r.answer.tokens ELSE 0
    /\ Toll(Provided, r) = IF ~r.answer.cached THEN r.answer.tokens ELSE 0
    /\ Toll(Heeded, r) = IF r.heard THEN r.answer.tokens ELSE 0
    /\ Toll(HeededOnce, r) = IF r.heard /\ r.tokens = 1 /\ ~r.answer.cached THEN r.answer.tokens ELSE 0

LEMMA OwnTolls == \A r \in Posted : TollsAre(r)
BY DEF TollsAre, Toll, AtDaily, AtMonthly, InMonth, Unsettled, Provided, Heeded, HeededOnce

(* Days and months.                                                         *)
LEMMA DaysAndMonths ==
    /\ 0 \in Bill!Days /\ Bill!Month(0) = 0
    /\ Months = {Bill!Month(d) : d \in Bill!Days}
    /\ IsFiniteSet(Bill!Days) /\ IsFiniteSet(Months)
    /\ \A m : Bill!Of(m) \in SUBSET Bill!Days
<1>1. MaxDays \in Nat /\ MonthLength \in Nat \ {0}
  BY CompletionAssumptions DEF Bill!ExchangeAssumption
<1>2. 0 \in Bill!Days /\ IsFiniteSet(Bill!Days)
  BY <1>1, FS_Interval DEF Bill!Days
<1>3. Bill!Month(0) = 0
  BY <1>1 DEF Bill!Month
<1>4. Months = {Bill!Month(d) : d \in Bill!Days}
  BY <1>2, <1>3 DEF Months
<1>5. IsFiniteSet({Bill!Month(d) : d \in Bill!Days})
  <2> DEFINE M == {Bill!Month(d) : d \in Bill!Days}  f == [d \in Bill!Days |-> Bill!Month(d)]
  <2>1. f \in Surjection(Bill!Days, M)
    BY DEF Surjection
  <2> HIDE DEF f, M
  <2>2. IsFiniteSet(M)
    BY <1>2, <2>1, FS_Surjection
  <2> QED BY <2>2 DEF M
<1> QED BY <1>2, <1>3, <1>4, <1>5 DEF Bill!Of

(* A post the gateway has not answered is replaced by another: what that    *)
(* leaves to show are the ledgers.                                          *)
LEMMA LedgerStep ==
    ASSUME BillInv, LedgerInv, NEW i \in DOMAIN posts, NEW p \in Posted,
           posts' = [posts EXCEPT ![i] = p], UNCHANGED <<asked, told>>,
           posts[i].pc # "responded", p.heard = posts[i].heard, p.tokens = posts[i].tokens,
           PostSound(p), KeptSound(keptAnswer'), LedgerTyped', Ledgers', MonthsAgree'
    PROVE  LedgerInv'
<1> DEFINE q == posts[i]
<1>0. /\ posts \in Seq(Posted) /\ asked \in Asking /\ i \in 1 .. Len(posts) /\ q \in Posted
  BY PostStands DEF BillInv, BillTyped
<1>1. /\ posts' \in Seq(Posted) /\ Len(posts') = Len(posts)
      /\ \A j \in 1 .. Len(posts) : posts'[j] = IF j = i THEN p ELSE posts[j]
  BY <1>0, PostReplaced
<1>2. q.heard = FALSE /\ p.heard = FALSE
  <2>1. ~q.heard
    BY <1>0 DEF BillInv, BillTyped
  <2> QED BY <2>1, <1>0, OwnFields
<1>3. \A K : Owing(K, posts') + Toll(K, q) = Owing(K, posts) + Toll(K, p)
  BY <1>0, <1>1, OwingChanged
<1>4. Tellings'
  <2>1. /\ Toll(Heeded, q) = 0 /\ Toll(Heeded, p) = 0
        /\ Toll(HeededOnce, q) = 0 /\ Toll(HeededOnce, p) = 0
    BY <1>0, <1>2, OwnFields, TollsOf
  <2>2. /\ Owing(Heeded, posts) \in Nat /\ Owing(Heeded, posts') \in Nat
        /\ Owing(HeededOnce, posts) \in Nat /\ Owing(HeededOnce, posts') \in Nat
    BY <1>0, <1>1, TollsNumbered
  <2>3. /\ Owing(Heeded, posts') + 0 = Owing(Heeded, posts) + 0
        /\ Owing(HeededOnce, posts') + 0 = Owing(HeededOnce, posts) + 0
    <3>1. Owing(Heeded, posts') + Toll(Heeded, q) = Owing(Heeded, posts) + Toll(Heeded, p)
      BY <1>3
    <3>2. Owing(HeededOnce, posts') + Toll(HeededOnce, q) = Owing(HeededOnce, posts) + Toll(HeededOnce, p)
      BY <1>3
    <3> QED BY <2>1, <3>1, <3>2
  <2>4. Owing(Heeded, posts') = Owing(Heeded, posts) /\ Owing(HeededOnce, posts') = Owing(HeededOnce, posts)
    BY <2>2, <2>3
  <2> QED BY <2>4 DEF LedgerInv, Tellings
<1>5. CallSound(asked', posts')
  <2> SUFFICES ASSUME asked.pc = "waiting"
               PROVE  ~posts'[Len(posts')].heard /\ posts'[Len(posts')].tokens = asked.try
    BY DEF LedgerInv, CallSound
  <2>1. Len(posts) \in 1 .. Len(posts)
    BY LogStays DEF LogOf
  <2>2. ~posts[Len(posts)].heard /\ posts[Len(posts)].tokens = asked.try
    BY DEF LedgerInv, CallSound
  <2> QED BY <1>1, <1>2, <2>1, <2>2
<1>6. \A j \in 1 .. Len(posts') : PostSound(posts'[j])
  BY <1>1 DEF LedgerInv
<1> QED BY <1>4, <1>5, <1>6 DEF LedgerInv

(* A step that writes to no ledger: a post that costs is new to them all,   *)
(* and one that was to be written may be dropped.                           *)
Unwritten(p, q) ==
    /\ UNCHANGED <<daily, monthly, total>> /\ burned' \in Nat
    /\ burned' + Toll(Provided, q) = burned + Toll(Provided, p)
    /\ Toll(AtMonthly, p) <= Toll(AtMonthly, q)
    /\ Toll(AtDaily, p) + burned <= Toll(AtDaily, q) + burned'
    /\ burned' + Toll(Unsettled, q) <= burned + Toll(Unsettled, p)
    /\ Strayed(q) => Strayed(p)
    /\ ~Strayed(p) => \A m : Toll(InMonth(m), p) = Toll(InMonth(m), q)

LEMMA LedgersUnwritten ==
    ASSUME BillInv, LedgerInv, NEW i \in DOMAIN posts, NEW p \in Posted,
           posts' = [posts EXCEPT ![i] = p], UNCHANGED told, Unwritten(p, posts[i])
    PROVE  LedgerTyped' /\ Ledgers' /\ MonthsAgree'
<1> DEFINE q == posts[i]
<1>0. posts \in Seq(Posted) /\ i \in 1 .. Len(posts) /\ q \in Posted
  BY PostStands DEF BillInv, BillTyped
<1>1. /\ posts' \in Seq(Posted) /\ Len(posts') = Len(posts)
      /\ \A j \in 1 .. Len(posts) : posts'[j] = IF j = i THEN p ELSE posts[j]
  BY <1>0, PostReplaced
<1>2. \A K : /\ Owing(K, posts') + Toll(K, q) = Owing(K, posts) + Toll(K, p)
             /\ Owing(K, posts) \in Nat /\ Owing(K, posts') \in Nat /\ Toll(K, q) \in Nat /\ Toll(K, p) \in Nat
  <2>1. \A K : Owing(K, posts') + Toll(K, q) = Owing(K, posts) + Toll(K, p)
    BY <1>0, <1>1, OwingChanged
  <2>2. \A K : Owing(K, posts) \in Nat /\ Owing(K, posts') \in Nat
    BY <1>0, <1>1, TollsNumbered
  <2> QED BY <1>0, <2>1, <2>2, TollType
<1>3. LedgerTyped'
  BY DEF LedgerInv, LedgerTyped, Unwritten
<1>4. Ledgers'
  <2> DEFINE b == burned  b1 == burned'  t == total  y == Bill!Spent(daily)
             m == Owing(AtMonthly, posts)  m1 == Owing(AtMonthly, posts')
             d == Owing(AtDaily, posts)  d1 == Owing(AtDaily, posts')
             u == Owing(Unsettled, posts)  u1 == Owing(Unsettled, posts')
             f == Owing(Provided, posts)  f1 == Owing(Provided, posts')
             mp == Toll(AtMonthly, p)  mq == Toll(AtMonthly, q)
             dp == Toll(AtDaily, p)  dq == Toll(AtDaily, q)
             up == Toll(Unsettled, p)  uq == Toll(Unsettled, q)
             fp == Toll(Provided, p)  fq == Toll(Provided, q)
  <2>1. /\ m \in Nat /\ m1 \in Nat /\ d \in Nat /\ d1 \in Nat /\ u \in Nat /\ u1 \in Nat /\ f \in Nat /\ f1 \in Nat
        /\ mp \in Nat /\ mq \in Nat /\ dp \in Nat /\ dq \in Nat
        /\ up \in Nat /\ uq \in Nat /\ fp \in Nat /\ fq \in Nat
    BY <1>2
  <2>2. m1 + mq = m + mp /\ d1 + dq = d + dp /\ u1 + uq = u + up /\ f1 + fq = f + fp
    BY <1>2
  <2>3. b1 + fq = b + fp /\ mp <= mq /\ dp + b <= dq + b1 /\ b1 + uq <= b + up /\ b1 \in Nat
    BY DEF Unwritten
  <2>4. t = Bill!Spent(monthly) /\ t + m <= y /\ y + d <= b /\ b <= t + u /\ b = f
    BY DEF LedgerInv, Ledgers
  <2>5. b \in Nat /\ t \in Nat /\ y \in Nat
    <3>1. b \in Nat /\ t \in Nat /\ daily \in [Bill!Days -> Nat]
      BY DEF LedgerInv, LedgerTyped
    <3>2. Numbered(daily, Bill!Days) /\ DOMAIN daily = Bill!Days
      BY <3>1, DaysAndMonths DEF Numbered
    <3>3. y \in Nat
      BY <3>2, AddedOne DEF Bill!Spent
    <3> QED BY <3>1, <3>3
  <2>6. total' = t /\ Bill!Spent(monthly)' = Bill!Spent(monthly) /\ Bill!Spent(daily)' = y
    BY DEF Unwritten
  <2> HIDE DEF b, b1, t, y, m, m1, d, d1, u, u1, f, f1, mp, mq, dp, dq, up, uq, fp, fq, q
  <2>7. t + m1 <= y /\ y + d1 <= b1 /\ b1 <= t + u1 /\ b1 = f1
    BY <2>1, <2>2, <2>3, <2>4, <2>5
  <2> QED BY <2>4, <2>6, <2>7 DEF Ledgers, b1, m1, d1, u1, f1
<1>5. MonthsAgree'
  <2> SUFFICES ASSUME \A j \in 1 .. Len(posts') : ~Strayed(posts'[j]), NEW m \in Months
               PROVE  Bill!Added(daily', Bill!Of(m)) = monthly'[m] + Owing(InMonth(m), posts')
    BY DEF MonthsAgree, Bill!Of, Bill!Days, Bill!Month
  <2>1. ~Strayed(p) /\ \A j \in 1 .. Len(posts) : ~Strayed(posts[j])
    BY <1>0, <1>1 DEF Unwritten
  <2>2. Toll(InMonth(m), p) = Toll(InMonth(m), q)
    BY <2>1 DEF Unwritten
  <2>3. Owing(InMonth(m), posts') = Owing(InMonth(m), posts)
    <3> DEFINE K == InMonth(m)
    <3> HIDE DEF K
    <3>1. /\ Owing(K, posts') + Toll(K, q) = Owing(K, posts) + Toll(K, p)
          /\ Owing(K, posts) \in Nat /\ Owing(K, posts') \in Nat /\ Toll(K, q) \in Nat
      BY <1>2
    <3>2. Toll(K, p) = Toll(K, q)
      BY <2>2 DEF K
    <3> DEFINE a == Owing(K, posts')  b == Owing(K, posts)  c == Toll(K, q)
    <3>3. a + c = b + c /\ a \in Nat /\ b \in Nat /\ c \in Nat
      BY <3>1, <3>2
    <3> HIDE DEF a, b, c
    <3>4. a = b
      BY <3>3
    <3> QED BY <3>4 DEF a, b, K
  <2>4. Bill!Added(daily, Bill!Of(m)) = monthly[m] + Owing(InMonth(m), posts)
    BY <2>1 DEF LedgerInv, MonthsAgree
  <2> QED BY <2>3, <2>4 DEF Unwritten
<1> QED BY <1>3, <1>4, <1>5

LEMMA LedgerStays ==
    ASSUME BillInv, LedgerInv, NEW i \in DOMAIN posts, NEW p \in Posted,
           posts' = [posts EXCEPT ![i] = p], UNCHANGED <<asked, told>>,
           posts[i].pc # "responded", p.heard = posts[i].heard, p.tokens = posts[i].tokens,
           PostSound(p), KeptSound(keptAnswer'), Unwritten(p, posts[i])
    PROVE  LedgerInv'
<1>1. LedgerTyped' /\ Ledgers' /\ MonthsAgree'
  BY LedgersUnwritten
<1> QED BY <1>1, LedgerStep

(* What the steps on a post start from.                                     *)
LEMMA PostReady ==
    ASSUME BillInv, LedgerInv, NEW i \in DOMAIN posts
    PROVE  /\ posts[i] \in Posted /\ posts[i].answer \in Answering /\ keptAnswer \in Answering
           /\ day \in Bill!Days /\ Bill!Month(day) \in Months
           /\ PostSound(posts[i]) /\ KeptSound(keptAnswer) /\ burned \in Nat
           /\ 200 \in Statuses /\ 404 \in Statuses /\ 503 \in Statuses
<1>1. /\ posts[i] \in Posted /\ posts[i].answer \in Answering /\ keptAnswer \in Answering
      /\ day \in Bill!Days /\ Bill!Month(day) \in Months /\ i \in 1 .. Len(posts)
  BY PostStands
<1>2. PostSound(posts[i]) /\ KeptSound(keptAnswer) /\ burned \in Nat
  BY <1>1 DEF LedgerInv, LedgerTyped
<1> QED BY <1>1, <1>2 DEF Statuses

(* The cache is asked.                                                      *)
LEMMA LedgerLookup ==
    ASSUME BillInv, LedgerInv, NEW i \in DOMAIN posts, Bill!Lookup(i)
    PROVE  LedgerInv'
<1> DEFINE q == posts[i]
<1>0. /\ q \in Posted /\ q.answer \in Answering /\ keptAnswer \in Answering
      /\ PostSound(q) /\ KeptSound(keptAnswer) /\ 200 \in Statuses /\ burned \in Nat
      /\ day \in Bill!Days /\ Bill!Month(day) \in Months
  BY PostReady
<1>1. /\ q.pc = "arrived" /\ UNCHANGED <<asked, told, daily, monthly, total, burned, keptAnswer>>
  BY DEF Bill!Lookup, Bill!At, Bill!gatewayVars
<1>2. q.answer.tokens = 0 /\ ~Strayed(q)
  BY <1>0, <1>1, BillRecords DEF PostSound, Strayed
<1>3. FieldsOf(q, q.pc, q.answer, q.day, q.month, q.status, q.heard, q.tokens)
  BY <1>0, OwnFields
<1>4. CASE CacheResponses /\ keptAnswer # Bill!None
  <2> DEFINE k == [keptAnswer EXCEPT !.cached = TRUE]
             p == [q EXCEPT !.pc = "responded", !.status = 200, !.answer = k]
  <2>1. k \in Answering /\ k.tokens = keptAnswer.tokens /\ k.cached = TRUE
    BY <1>0 DEF Answering
  <2>2. posts' = [posts EXCEPT ![i] = p]
    BY <1>4 DEF Bill!Lookup
  <2>3. k.tokens >= 1
    BY <1>0, <1>4, <2>1 DEF KeptSound
  <2> HIDE DEF k
  <2>4. FieldsOf(p, "responded", k, q.day, q.month, 200, q.heard, q.tokens)
    BY <1>0, <2>1, Reposted DEF PostStates
  <2> HIDE DEF p
  <2>5. p \in Posted /\ p.heard = q.heard /\ p.tokens = q.tokens
    BY <2>4 DEF FieldsOf
  <2>6. PostSound(p)
    BY <2>1, <2>3, <2>4 DEF PostSound, FieldsOf
  <2>7. Unwritten(p, q)
    <3>1. /\ Toll(AtDaily, p) = 0 /\ Toll(AtMonthly, p) = 0 /\ Toll(Unsettled, p) = 0 /\ Toll(Provided, p) = 0
          /\ \A m : Toll(InMonth(m), p) = 0
      BY <2>1, <2>4, TollsOf
    <3>2. /\ Toll(AtDaily, q) = 0 /\ Toll(AtMonthly, q) = 0 /\ Toll(Unsettled, q) = 0 /\ Toll(Provided, q) = 0
          /\ \A m : Toll(InMonth(m), q) = 0
      BY <1>2, <1>3, TollsOf
    <3> QED BY <1>0, <1>1, <1>2, <3>1, <3>2 DEF Unwritten
  <2> QED BY <1>0, <1>1, <2>2, <2>5, <2>6, <2>7, LedgerStays
<1>5. CASE ~(CacheResponses /\ keptAnswer # Bill!None)
  <2> DEFINE p == [q EXCEPT !.pc = "provider"]
  <2>1. posts' = [posts EXCEPT ![i] = p]
    BY <1>5 DEF Bill!Lookup
  <2>2. FieldsOf(p, "provider", q.answer, q.day, q.month, q.status, q.heard, q.tokens)
    BY <1>0, Reposted DEF PostStates
  <2> HIDE DEF p
  <2>3. p \in Posted /\ p.heard = q.heard /\ p.tokens = q.tokens
    BY <2>2 DEF FieldsOf
  <2>4. PostSound(p)
    BY <1>0, <1>1, <1>2, <2>2 DEF PostSound, FieldsOf
  <2>5. Unwritten(p, q)
    <3>1. /\ Toll(AtDaily, p) = 0 /\ Toll(AtMonthly, p) = 0 /\ Toll(Unsettled, p) = 0 /\ Toll(Provided, p) = 0
          /\ \A m : Toll(InMonth(m), p) = 0
      BY <1>2, <2>2, TollsOf
    <3>2. /\ Toll(AtDaily, q) = 0 /\ Toll(AtMonthly, q) = 0 /\ Toll(Unsettled, q) = 0 /\ Toll(Provided, q) = 0
          /\ \A m : Toll(InMonth(m), q) = 0
      BY <1>2, <1>3, TollsOf
    <3> QED BY <1>0, <1>1, <1>2, <3>1, <3>2 DEF Unwritten
  <2> QED BY <1>0, <1>1, <2>1, <2>3, <2>4, <2>5, LedgerStays
<1> QED BY <1>4, <1>5

(* A post is refused.                                                       *)
LEMMA LedgerRefuse ==
    ASSUME BillInv, LedgerInv, NEW i \in DOMAIN posts, Bill!Refuse(i)
    PROVE  LedgerInv'
<1> DEFINE q == posts[i]
<1>0. /\ q \in Posted /\ q.answer \in Answering /\ PostSound(q) /\ KeptSound(keptAnswer)
      /\ 404 \in Statuses /\ 503 \in Statuses /\ burned \in Nat
  BY PostReady
<1>1. PICK s \in {503, 404} : posts' = [posts EXCEPT ![i].pc = "responded", ![i].status = s]
  BY DEF Bill!Refuse
<1> DEFINE p == Refusal(q, s)
<1>2. posts' = [posts EXCEPT ![i] = p]
  BY <1>1 DEF Refusal
<1>3. s \in Statuses
  BY <1>0
<1>4. FieldsOf(p, "responded", q.answer, q.day, q.month, s, q.heard, q.tokens)
  BY <1>0, <1>3, Refused
<1> HIDE DEF p
<1>5. q.pc \in {"arrived", "provider"} /\ UNCHANGED <<asked, told, daily, monthly, total, burned, keptAnswer>>
  BY DEF Bill!Refuse, Bill!gatewayVars
<1>6. q.answer.tokens = 0 /\ ~Strayed(q)
  BY <1>0, <1>5 DEF PostSound, Strayed
<1>7. p \in Posted /\ p.heard = q.heard /\ p.tokens = q.tokens
  BY <1>4 DEF FieldsOf
<1>8. PostSound(p)
  BY <1>0, <1>4, <1>6 DEF PostSound, FieldsOf
<1>9. Unwritten(p, q)
  <2>1. /\ Toll(AtDaily, p) = 0 /\ Toll(AtMonthly, p) = 0 /\ Toll(Unsettled, p) = 0 /\ Toll(Provided, p) = 0
        /\ \A m : Toll(InMonth(m), p) = 0
    BY <1>4, <1>6, TollsOf
  <2>2. FieldsOf(q, q.pc, q.answer, q.day, q.month, q.status, q.heard, q.tokens)
    BY <1>0, OwnFields
  <2>3. /\ Toll(AtDaily, q) = 0 /\ Toll(AtMonthly, q) = 0 /\ Toll(Unsettled, q) = 0 /\ Toll(Provided, q) = 0
        /\ \A m : Toll(InMonth(m), q) = 0
    BY <1>6, <2>2, TollsOf
  <2> QED BY <1>0, <1>5, <1>6, <2>1, <2>3 DEF Unwritten
<1> QED BY <1>0, <1>2, <1>5, <1>7, <1>8, <1>9, LedgerStays

(* The provider answers.                                                    *)
LEMMA LedgerProvide ==
    ASSUME BillInv, LedgerInv, NEW i \in DOMAIN posts, Bill!Provide(i)
    PROVE  LedgerInv'
<1> DEFINE q == posts[i]
<1>0. /\ q \in Posted /\ q.answer \in Answering /\ PostSound(q) /\ KeptSound(keptAnswer) /\ burned \in Nat
      /\ day \in Bill!Days /\ Bill!Month(day) \in Months /\ 200 \in Statuses
  BY PostReady
<1>1. PICK content \in {"text", "null", "none"} :
          posts' = [posts EXCEPT ![i] = [q EXCEPT !.pc = "daily", !.day = day,
                       !.answer = [tokens |-> q.tokens, content |-> content, cached |-> FALSE]]]
  BY DEF Bill!Provide
<1> DEFINE k == [tokens |-> q.tokens, content |-> content, cached |-> FALSE]
           p == [q EXCEPT !.pc = "daily", !.day = day, !.answer = k]
<1>2. k \in Answering /\ k.tokens = q.tokens /\ k.cached = FALSE /\ q.tokens \in {1, 2}
  BY <1>0, OwnFields DEF Answering
<1>3. posts' = [posts EXCEPT ![i] = p]
  BY <1>1
<1> HIDE DEF k
<1>4. FieldsOf(p, "daily", k, day, q.month, q.status, q.heard, q.tokens)
  BY <1>0, <1>2, Reposted DEF PostStates
<1> HIDE DEF p
<1>5. /\ q.pc = "provider" /\ UNCHANGED <<asked, told, daily, monthly, total, keptAnswer>>
      /\ burned' = burned + q.tokens
  BY DEF Bill!Provide, Bill!At
<1>6. q.answer.tokens = 0 /\ ~Strayed(q)
  BY <1>0, <1>5 DEF PostSound, Strayed
<1>7. p \in Posted /\ p.heard = q.heard /\ p.tokens = q.tokens
  BY <1>4 DEF FieldsOf
<1>8. PostSound(p)
  <2>1. q.status = 0
    BY <1>0, <1>5 DEF PostSound
  <2> QED BY <1>0, <1>2, <1>4, <2>1 DEF PostSound, FieldsOf
<1>9. Unwritten(p, q)
  <2>1. /\ Toll(AtDaily, p) = q.tokens /\ Toll(AtMonthly, p) = 0 /\ Toll(Unsettled, p) = q.tokens
        /\ Toll(Provided, p) = q.tokens /\ \A m : Toll(InMonth(m), p) = 0
    BY <1>2, <1>4, TollsOf
  <2>2. FieldsOf(q, q.pc, q.answer, q.day, q.month, q.status, q.heard, q.tokens)
    BY <1>0, OwnFields
  <2>3. /\ Toll(AtDaily, q) = 0 /\ Toll(AtMonthly, q) = 0 /\ Toll(Unsettled, q) = 0 /\ Toll(Provided, q) = 0
        /\ \A m : Toll(InMonth(m), q) = 0
    BY <1>6, <2>2, TollsOf
  <2> QED BY <1>0, <1>2, <1>5, <1>6, <2>1, <2>3 DEF Unwritten
<1> QED BY <1>0, <1>3, <1>5, <1>7, <1>8, <1>9, LedgerStays

(* A ledger that is written to.                                             *)
Written(new, ledger, k, t) == new = [ledger EXCEPT ![k] = @ + t]

LEMMA LedgerWritten ==
    \A S, ledger, k, t, new :
        IsFiniteSet(S) /\ ledger \in [S -> Nat] /\ k \in S /\ t \in Nat /\ Written(new, ledger, k, t) =>
            /\ new \in [S -> Nat] /\ DOMAIN new = S /\ DOMAIN ledger = S
            /\ \A j \in S : new[j] = ledger[j] + (IF j = k THEN t ELSE 0)
            /\ \A R \in SUBSET S : /\ Bill!Added(ledger, R) \in Nat
                                   /\ Bill!Added(new, R) = Bill!Added(ledger, R) + (IF k \in R THEN t ELSE 0)
<1> TAKE S, ledger, k, t, new
<1> HAVE IsFiniteSet(S) /\ ledger \in [S -> Nat] /\ k \in S /\ t \in Nat /\ Written(new, ledger, k, t)
<1>1. /\ new \in [S -> Nat] /\ DOMAIN new = S /\ DOMAIN ledger = S
      /\ \A j \in S : new[j] = ledger[j] + (IF j = k THEN t ELSE 0)
  BY DEF Written
<1>2. ASSUME NEW R \in SUBSET S
      PROVE  /\ Bill!Added(ledger, R) \in Nat
             /\ Bill!Added(new, R) = Bill!Added(ledger, R) + (IF k \in R THEN t ELSE 0)
  <2>1. Numbered(ledger, R) /\ Numbered(new, R)
    BY <1>1, FS_Subset DEF Numbered
  <2>2. Bill!Added(ledger, R) \in Nat /\ Bill!Added(new, R) \in Nat
    BY <2>1, AddedOne
  <2>3. CASE k \in R
    <3>1. SameBut(ledger, new, R, k)
      BY <1>1, <2>3 DEF SameBut
    <3>2. Bill!Added(new, R) + ledger[k] = Bill!Added(ledger, R) + new[k]
      BY ONLY <2>1, <3>1, AddedChanged
    <3> DEFINE a == Bill!Added(ledger, R)  b == Bill!Added(new, R)  x == ledger[k]
    <3>3. b + x = a + (x + t) /\ a \in Nat /\ b \in Nat /\ x \in Nat
      BY <1>1, <2>2, <3>2
    <3> HIDE DEF a, b, x
    <3>4. b = a + t
      BY <3>3
    <3> QED BY <2>2, <2>3, <3>4 DEF a, b
  <2>4. CASE k \notin R
    <3>1. \A j \in R : ledger[j] = new[j]
      BY <1>1, <2>4
    <3>2. Bill!Added(ledger, R) = Bill!Added(new, R)
      BY <2>1, <3>1, AddedAgree
    <3> QED BY <2>2, <2>4, <3>2
  <2> QED BY <2>3, <2>4
<1> QED BY <1>1, <1>2

(* The numbers of the ledgers before a step, and of the posts around it.    *)
LEMMA LedgerNumbers ==
    ASSUME BillInv, LedgerInv, NEW i \in DOMAIN posts, NEW p \in Posted, posts' = [posts EXCEPT ![i] = p]
    PROVE  /\ \A K : /\ Owing(K, posts') + Toll(K, posts[i]) = Owing(K, posts) + Toll(K, p)
                     /\ Owing(K, posts) \in Nat /\ Owing(K, posts') \in Nat
                     /\ Toll(K, posts[i]) \in Nat /\ Toll(K, p) \in Nat
           /\ (\A j \in 1 .. Len(posts') : ~Strayed(posts'[j])) =>
                  ~Strayed(p) /\ \A j \in 1 .. Len(posts) : j # i => ~Strayed(posts[j])
           /\ Bill!Spent(daily) \in Nat /\ Bill!Spent(monthly) \in Nat
<1>0. posts \in Seq(Posted) /\ i \in 1 .. Len(posts) /\ posts[i] \in Posted
  BY PostStands DEF BillInv, BillTyped
<1>1. /\ posts' \in Seq(Posted) /\ Len(posts') = Len(posts)
      /\ \A j \in 1 .. Len(posts) : posts'[j] = IF j = i THEN p ELSE posts[j]
  BY <1>0, PostReplaced
<1>2. \A K : Owing(K, posts') + Toll(K, posts[i]) = Owing(K, posts) + Toll(K, p)
  BY <1>0, <1>1, OwingChanged
<1>3. \A K : Owing(K, posts) \in Nat /\ Owing(K, posts') \in Nat
  BY <1>0, <1>1, TollsNumbered
<1>4. \A K : Toll(K, posts[i]) \in Nat /\ Toll(K, p) \in Nat
  BY <1>0, TollType
<1>5. (\A j \in 1 .. Len(posts') : ~Strayed(posts'[j])) =>
          ~Strayed(p) /\ \A j \in 1 .. Len(posts) : j # i => ~Strayed(posts[j])
  BY <1>0, <1>1
<1>6. Bill!Spent(daily) \in Nat /\ Bill!Spent(monthly) \in Nat
  <2>1. daily \in [Bill!Days -> Nat] /\ monthly \in [Months -> Nat]
    BY DEF LedgerInv, LedgerTyped
  <2>2. Numbered(daily, DOMAIN daily) /\ Numbered(monthly, DOMAIN monthly)
    BY <2>1, DaysAndMonths DEF Numbered
  <2> QED BY <2>2, AddedOne DEF Bill!Spent
<1> QED BY <1>2, <1>3, <1>4, <1>5, <1>6

(* The day's spend is written.                                              *)
LEMMA LedgerDaily ==
    ASSUME BillInv, LedgerInv, NEW i \in DOMAIN posts, Bill!Daily(i)
    PROVE  LedgerInv'
<1> DEFINE q == posts[i]
           p == [q EXCEPT !.pc = "monthly", !.month = Bill!Month(day)]
           t == q.answer.tokens
<1>0. /\ q \in Posted /\ q.answer \in Answering /\ PostSound(q) /\ KeptSound(keptAnswer) /\ 200 \in Statuses
      /\ day \in Bill!Days /\ Bill!Month(day) \in Months /\ t \in Nat /\ q.day \in Bill!Days
  BY PostReady, OwnFields
<1>1. posts' = [posts EXCEPT ![i] = p]
  BY DEF Bill!Daily
<1>2. FieldsOf(p, "monthly", q.answer, q.day, Bill!Month(day), q.status, q.heard, q.tokens)
  BY <1>0, Reposted DEF PostStates
<1> HIDE DEF p
<1>3. /\ q.pc = "daily" /\ UNCHANGED <<asked, told, monthly, total, burned, keptAnswer>>
      /\ daily' = [daily EXCEPT ![q.day] = @ + t]
  BY DEF Bill!Daily, Bill!At
<1>4. p \in Posted /\ p.heard = q.heard /\ p.tokens = q.tokens
  BY <1>2 DEF FieldsOf
<1>5. PostSound(p) /\ ~q.answer.cached
  BY <1>0, <1>2, <1>3 DEF PostSound, FieldsOf
<1>6. /\ daily \in [Bill!Days -> Nat] /\ burned \in Nat /\ told \in Nat /\ total \in Nat
      /\ monthly \in [Months -> Nat]
  BY DEF LedgerInv, LedgerTyped
<1>7. /\ daily' \in [Bill!Days -> Nat] /\ DOMAIN daily' = Bill!Days /\ DOMAIN daily = Bill!Days
      /\ \A R \in SUBSET Bill!Days : /\ Bill!Added(daily, R) \in Nat
             /\ Bill!Added(daily', R) = Bill!Added(daily, R) + (IF q.day \in R THEN t ELSE 0)
  <2>1. Written(daily', daily, q.day, t)
    BY <1>3 DEF Written
  <2> HIDE DEF t, q
  <2>2. IsFiniteSet(Bill!Days) /\ q.day \in Bill!Days
    BY <1>0, DaysAndMonths
  <2> QED BY <1>0, <1>6, <2>1, <2>2, LedgerWritten
<1>8. /\ Toll(AtDaily, p) = 0 /\ Toll(AtMonthly, p) = t /\ Toll(Unsettled, p) = t /\ Toll(Provided, p) = t
      /\ \A m : Toll(InMonth(m), p) = IF Bill!Month(day) = m THEN t ELSE 0
  BY <1>2, <1>5, TollsOf
<1>9. /\ Toll(AtDaily, q) = t /\ Toll(AtMonthly, q) = 0 /\ Toll(Unsettled, q) = t /\ Toll(Provided, q) = t
      /\ \A m : Toll(InMonth(m), q) = 0
  <2>1. FieldsOf(q, q.pc, q.answer, q.day, q.month, q.status, q.heard, q.tokens)
    BY <1>0, OwnFields
  <2> QED BY <1>3, <1>5, <2>1, TollsOf
<1>10. /\ \A K : /\ Owing(K, posts') + Toll(K, q) = Owing(K, posts) + Toll(K, p)
                 /\ Owing(K, posts) \in Nat /\ Owing(K, posts') \in Nat
       /\ (\A j \in 1 .. Len(posts') : ~Strayed(posts'[j])) =>
              ~Strayed(p) /\ \A j \in 1 .. Len(posts) : j # i => ~Strayed(posts[j])
       /\ Bill!Spent(daily) \in Nat
  BY <1>1, <1>4, LedgerNumbers
<1>11. Ledgers'
  <2> DEFINE y == Bill!Spent(daily)  y1 == Bill!Spent(daily')
             m == Owing(AtMonthly, posts)  m1 == Owing(AtMonthly, posts')
             d == Owing(AtDaily, posts)  d1 == Owing(AtDaily, posts')
             u == Owing(Unsettled, posts)  u1 == Owing(Unsettled, posts')
             f == Owing(Provided, posts)  f1 == Owing(Provided, posts')
  <2>1. /\ m \in Nat /\ m1 \in Nat /\ d \in Nat /\ d1 \in Nat /\ u \in Nat /\ u1 \in Nat /\ f \in Nat /\ f1 \in Nat
        /\ y \in Nat
    BY <1>10
  <2>2. m1 + 0 = m + t /\ d1 + t = d + 0 /\ u1 + t = u + t /\ f1 + t = f + t
    BY <1>8, <1>9, <1>10
  <2>3. y1 = y + t
    BY <1>0, <1>7 DEF Bill!Spent
  <2>4. /\ total = Bill!Spent(monthly) /\ total + m <= y /\ y + d <= burned
        /\ burned <= total + u /\ burned = f
    BY DEF LedgerInv, Ledgers
  <2>5. total' = total /\ burned' = burned /\ Bill!Spent(monthly)' = Bill!Spent(monthly) /\ Bill!Spent(daily)' = y1
    BY <1>3 DEF Bill!Spent, Bill!Added, Bill!MapThenSumSet, Bill!MapThenFoldSet
  <2> HIDE DEF y, y1, m, m1, d, d1, u, u1, f, f1, t, q
  <2>6. total + m1 <= y1 /\ y1 + d1 <= burned /\ burned <= total + u1 /\ burned = f1
    BY <1>0, <1>6, <2>1, <2>2, <2>3, <2>4
  <2> QED BY <2>4, <2>5, <2>6 DEF Ledgers, m1, d1, u1, f1
<1>12. MonthsAgree'
  <2> SUFFICES ASSUME \A j \in 1 .. Len(posts') : ~Strayed(posts'[j]), NEW m \in Months
               PROVE  Bill!Added(daily', Bill!Of(m)) = monthly'[m] + Owing(InMonth(m), posts')
    BY DEF MonthsAgree, Bill!Of, Bill!Days, Bill!Month
  <2>1. ~Strayed(p) /\ ~Strayed(q) /\ \A j \in 1 .. Len(posts) : j # i => ~Strayed(posts[j])
    <3>1. ~Strayed(q)
      BY <1>3 DEF Strayed
    <3> QED BY <1>10, <3>1
  <2>2. Bill!Month(q.day) = Bill!Month(day)
    BY <1>2, <2>1 DEF Strayed, FieldsOf
  <2> DEFINE K == InMonth(m)
             a == Bill!Added(daily, Bill!Of(m))  a1 == Bill!Added(daily', Bill!Of(m))
             w == Owing(K, posts)  w1 == Owing(K, posts')  l == monthly[m]
             x == IF Bill!Month(day) = m THEN t ELSE 0
  <2>3. a = l + w
    BY <2>1 DEF LedgerInv, MonthsAgree
  <2>4. a1 = a + x
    <3>1. q.day \in Bill!Of(m) <=> Bill!Month(day) = m
      BY <1>0, <2>2 DEF Bill!Of
    <3>2. Bill!Of(m) \in SUBSET Bill!Days
      BY DaysAndMonths
    <3>3. a1 = a + (IF q.day \in Bill!Of(m) THEN t ELSE 0)
      BY <1>7, <3>2
    <3> QED BY <3>1, <3>3
  <2>5. w1 + Toll(K, q) = w + Toll(K, p) /\ w \in Nat /\ w1 \in Nat
    BY <1>10
  <2>6. Toll(K, q) = 0 /\ Toll(K, p) = x
    BY <1>8, <1>9
  <2>7. w1 + 0 = w + x /\ w \in Nat /\ w1 \in Nat /\ x \in Nat /\ l \in Nat /\ monthly'[m] = l
    BY <1>0, <1>3, <1>6, <2>5, <2>6
  <2> HIDE DEF K, a, a1, w, w1, l, x
  <2>8. a1 = l + w1
    BY <2>3, <2>4, <2>7
  <2> QED BY <2>7, <2>8 DEF a1, w1, K
<1>13. LedgerTyped'
  BY <1>3, <1>6, <1>7 DEF LedgerTyped
<1>14. KeptSound(keptAnswer') /\ q.pc # "responded"
  BY <1>0, <1>3
<1> QED BY <1>1, <1>3, <1>4, <1>5, <1>11, <1>12, <1>13, <1>14, LedgerStep

(* The month's spend is written, and the totals.                            *)
LEMMA LedgerMonthly ==
    ASSUME BillInv, LedgerInv, NEW i \in DOMAIN posts, Bill!Monthly(i)
    PROVE  LedgerInv'
<1> DEFINE q == posts[i]
           p == [q EXCEPT !.pc = "store"]
           t == q.answer.tokens
<1>0. /\ q \in Posted /\ q.answer \in Answering /\ PostSound(q) /\ KeptSound(keptAnswer) /\ 200 \in Statuses
      /\ day \in Bill!Days /\ Bill!Month(day) \in Months /\ t \in Nat /\ q.month \in Months
  BY PostReady, OwnFields
<1>1. posts' = [posts EXCEPT ![i] = p]
  BY DEF Bill!Monthly
<1>2. FieldsOf(p, "store", q.answer, q.day, q.month, q.status, q.heard, q.tokens)
  BY <1>0, Reposted DEF PostStates
<1> HIDE DEF p
<1>3. /\ q.pc = "monthly" /\ UNCHANGED <<asked, told, daily, burned, keptAnswer>>
      /\ monthly' = [monthly EXCEPT ![q.month] = @ + t]
      /\ total' = total + t
  BY DEF Bill!Monthly, Bill!At
<1>4. p \in Posted /\ p.heard = q.heard /\ p.tokens = q.tokens
  BY <1>2 DEF FieldsOf
<1>5. PostSound(p) /\ ~q.answer.cached
  BY <1>0, <1>2, <1>3 DEF PostSound, FieldsOf
<1>6. /\ monthly \in [Months -> Nat] /\ burned \in Nat /\ told \in Nat /\ total \in Nat
      /\ daily \in [Bill!Days -> Nat]
  BY DEF LedgerInv, LedgerTyped
<1>7. /\ monthly' \in [Months -> Nat] /\ DOMAIN monthly' = Months /\ DOMAIN monthly = Months
      /\ \A j \in Months : monthly'[j] = monthly[j] + (IF j = q.month THEN t ELSE 0)
      /\ \A R \in SUBSET Months : /\ Bill!Added(monthly, R) \in Nat
             /\ Bill!Added(monthly', R) = Bill!Added(monthly, R) + (IF q.month \in R THEN t ELSE 0)
  <2>1. Written(monthly', monthly, q.month, t)
    BY <1>3 DEF Written
  <2> HIDE DEF t, q
  <2>2. IsFiniteSet(Months)
    BY DaysAndMonths
  <2> QED BY <1>0, <1>6, <2>1, <2>2, LedgerWritten
<1>8. /\ Toll(AtDaily, p) = 0 /\ Toll(AtMonthly, p) = 0 /\ Toll(Unsettled, p) = 0 /\ Toll(Provided, p) = t
      /\ \A m : Toll(InMonth(m), p) = 0
  BY <1>2, <1>5, TollsOf
<1>9. /\ Toll(AtDaily, q) = 0 /\ Toll(AtMonthly, q) = t /\ Toll(Unsettled, q) = t /\ Toll(Provided, q) = t
      /\ \A m : Toll(InMonth(m), q) = IF q.month = m THEN t ELSE 0
  <2>1. FieldsOf(q, q.pc, q.answer, q.day, q.month, q.status, q.heard, q.tokens)
    BY <1>0, OwnFields
  <2> QED BY <1>3, <1>5, <2>1, TollsOf
<1>10. /\ \A K : /\ Owing(K, posts') + Toll(K, q) = Owing(K, posts) + Toll(K, p)
                 /\ Owing(K, posts) \in Nat /\ Owing(K, posts') \in Nat
       /\ (\A j \in 1 .. Len(posts') : ~Strayed(posts'[j])) =>
              ~Strayed(p) /\ \A j \in 1 .. Len(posts) : j # i => ~Strayed(posts[j])
       /\ Bill!Spent(daily) \in Nat
  BY <1>1, <1>4, LedgerNumbers
<1>11. Ledgers'
  <2> DEFINE y == Bill!Spent(daily)  v == Bill!Spent(monthly)  v1 == Bill!Spent(monthly')  t1 == total'
             m == Owing(AtMonthly, posts)  m1 == Owing(AtMonthly, posts')
             d == Owing(AtDaily, posts)  d1 == Owing(AtDaily, posts')
             u == Owing(Unsettled, posts)  u1 == Owing(Unsettled, posts')
             f == Owing(Provided, posts)  f1 == Owing(Provided, posts')
  <2>1. /\ m \in Nat /\ m1 \in Nat /\ d \in Nat /\ d1 \in Nat /\ u \in Nat /\ u1 \in Nat /\ f \in Nat /\ f1 \in Nat
        /\ y \in Nat
    BY <1>10
  <2>2. m1 + t = m + 0 /\ d1 + 0 = d + 0 /\ u1 + t = u + 0 /\ f1 + t = f + t
    BY <1>8, <1>9, <1>10
  <2>3. v1 = v + t /\ t1 = total + t
    BY <1>0, <1>3, <1>7 DEF Bill!Spent
  <2>4. /\ total = v /\ total + m <= y /\ y + d <= burned
        /\ burned <= total + u /\ burned = f
    BY DEF LedgerInv, Ledgers
  <2>5. burned' = burned /\ Bill!Spent(monthly)' = v1 /\ Bill!Spent(daily)' = y
    BY <1>3 DEF Bill!Spent, Bill!Added, Bill!MapThenSumSet, Bill!MapThenFoldSet
  <2> HIDE DEF y, v, v1, t1, m, m1, d, d1, u, u1, f, f1, t, q
  <2>6. t1 = v1 /\ t1 + m1 <= y /\ y + d1 <= burned /\ burned <= t1 + u1 /\ burned = f1
    BY <1>0, <1>6, <2>1, <2>2, <2>3, <2>4
  <2> QED BY <2>5, <2>6 DEF Ledgers, m1, d1, u1, f1, t1
<1>12. MonthsAgree'
  <2> SUFFICES ASSUME \A j \in 1 .. Len(posts') : ~Strayed(posts'[j]), NEW m \in Months
               PROVE  Bill!Added(daily', Bill!Of(m)) = monthly'[m] + Owing(InMonth(m), posts')
    BY DEF MonthsAgree, Bill!Of, Bill!Days, Bill!Month
  <2>1. \A j \in 1 .. Len(posts) : ~Strayed(posts[j])
    <3>1. ~Strayed(q)
      BY <1>2, <1>3, <1>10 DEF Strayed, FieldsOf
    <3> QED BY <1>10, <3>1
  <2> DEFINE K == InMonth(m)
             a == Bill!Added(daily, Bill!Of(m))
             w == Owing(K, posts)  w1 == Owing(K, posts')  l == monthly[m]  l1 == monthly'[m]
             x == IF m = q.month THEN t ELSE 0
  <2>3. a = l + w
    BY <2>1 DEF LedgerInv, MonthsAgree
  <2>4. l1 = l + x
    BY <1>7
  <2>5. w1 + Toll(K, q) = w + Toll(K, p) /\ w \in Nat /\ w1 \in Nat
    BY <1>10
  <2>6. Toll(K, q) = x /\ Toll(K, p) = 0
    BY <1>8, <1>9
  <2>7. w1 + x = w + 0 /\ w \in Nat /\ w1 \in Nat /\ x \in Nat /\ l \in Nat /\ daily' = daily
    BY <1>0, <1>3, <1>6, <2>5, <2>6
  <2> HIDE DEF K, a, w, w1, l, l1, x
  <2>8. a = l1 + w1
    BY <2>3, <2>4, <2>7
  <2> QED BY <2>7, <2>8 DEF a, w1, l1, K
<1>13. LedgerTyped'
  BY <1>0, <1>3, <1>6, <1>7 DEF LedgerTyped
<1>14. KeptSound(keptAnswer') /\ q.pc # "responded"
  BY <1>0, <1>3
<1> QED BY <1>1, <1>3, <1>4, <1>5, <1>11, <1>12, <1>13, <1>14, LedgerStep

(* The cache is given the answer.                                           *)
LEMMA LedgerRespond ==
    ASSUME BillInv, LedgerInv, NEW i \in DOMAIN posts, Bill!Respond(i)
    PROVE  LedgerInv'
<1> DEFINE q == posts[i]
           p == [q EXCEPT !.pc = "responded", !.status = 200]
<1>0. /\ q \in Posted /\ q.answer \in Answering /\ PostSound(q) /\ KeptSound(keptAnswer) /\ 200 \in Statuses
      /\ day \in Bill!Days /\ Bill!Month(day) \in Months /\ q.tokens \in {1, 2} /\ burned \in Nat
  BY PostReady, OwnFields
<1>1. posts' = [posts EXCEPT ![i] = p]
  BY DEF Bill!Respond
<1>2. FieldsOf(p, "responded", q.answer, q.day, q.month, 200, q.heard, q.tokens)
  BY <1>0, Reposted DEF PostStates
<1> HIDE DEF p
<1>3. /\ q.pc = "store" /\ UNCHANGED <<asked, told, daily, monthly, total, burned>>
      /\ keptAnswer' \in {q.answer, keptAnswer}
  BY DEF Bill!Respond, Bill!At
<1>4. p \in Posted /\ p.heard = q.heard /\ p.tokens = q.tokens
  BY <1>2 DEF FieldsOf
<1>5. q.answer.tokens >= 1 /\ ~q.answer.cached
  BY <1>0, <1>3 DEF PostSound
<1>6. PostSound(p)
  BY <1>0, <1>2, <1>3, <1>5 DEF PostSound, FieldsOf
<1>7. KeptSound(keptAnswer')
  BY <1>0, <1>3, <1>5 DEF KeptSound
<1>8. Unwritten(p, q)
  <2>1. /\ Toll(AtDaily, p) = 0 /\ Toll(AtMonthly, p) = 0 /\ Toll(Unsettled, p) = 0
        /\ Toll(Provided, p) = q.answer.tokens /\ \A m : Toll(InMonth(m), p) = 0
    BY <1>2, <1>5, TollsOf
  <2>2. FieldsOf(q, q.pc, q.answer, q.day, q.month, q.status, q.heard, q.tokens)
    BY <1>0, OwnFields
  <2>3. /\ Toll(AtDaily, q) = 0 /\ Toll(AtMonthly, q) = 0 /\ Toll(Unsettled, q) = 0
        /\ Toll(Provided, q) = q.answer.tokens /\ \A m : Toll(InMonth(m), q) = 0
    BY <1>3, <1>5, <2>2, TollsOf
  <2>4. Strayed(q) <=> Strayed(p)
    BY <1>2, <1>3 DEF Strayed, FieldsOf
  <2> QED BY <1>0, <1>3, <2>1, <2>3, <2>4 DEF Unwritten
<1> QED BY <1>1, <1>3, <1>4, <1>6, <1>7, <1>8, LedgerStays

(* A post is dropped.                                                       *)
LEMMA LedgerDrop ==
    ASSUME BillInv, LedgerInv, NEW i \in DOMAIN posts, Bill!Drop(i)
    PROVE  LedgerInv'
<1> DEFINE q == posts[i]
           p == [q EXCEPT !.pc = "gone"]
           t == q.answer.tokens
<1>0. /\ q \in Posted /\ q.answer \in Answering /\ PostSound(q) /\ KeptSound(keptAnswer) /\ 200 \in Statuses
      /\ day \in Bill!Days /\ Bill!Month(day) \in Months /\ t \in Nat /\ burned \in Nat
  BY PostReady, OwnFields
<1>1. posts' = [posts EXCEPT ![i] = p]
  BY DEF Bill!Drop
<1>2. FieldsOf(p, "gone", q.answer, q.day, q.month, q.status, q.heard, q.tokens)
  BY <1>0, Reposted DEF PostStates
<1> HIDE DEF p
<1>3. q.pc \notin {"responded", "gone"} /\ UNCHANGED <<asked, told, daily, monthly, total, burned, keptAnswer>>
  BY DEF Bill!Drop, Bill!gatewayVars
<1>4. p \in Posted /\ p.heard = q.heard /\ p.tokens = q.tokens
  BY <1>2 DEF FieldsOf
<1>5. PostSound(p) /\ (q.pc \in {"daily", "monthly"} => ~q.answer.cached)
  BY <1>0, <1>2, <1>3 DEF PostSound, FieldsOf
<1>6. Unwritten(p, q)
  <2> DEFINE f == IF ~q.answer.cached THEN t ELSE 0
  <2>1. /\ Toll(AtDaily, p) = 0 /\ Toll(AtMonthly, p) = 0 /\ Toll(Unsettled, p) = t
        /\ Toll(Provided, p) = f /\ \A m : Toll(InMonth(m), p) = 0
    BY <1>2, TollsOf
  <2>2. FieldsOf(q, q.pc, q.answer, q.day, q.month, q.status, q.heard, q.tokens)
    BY <1>0, OwnFields
  <2>3. /\ Toll(AtDaily, q) = IF q.pc = "daily" THEN t ELSE 0
        /\ Toll(AtMonthly, q) = IF q.pc = "monthly" THEN t ELSE 0
        /\ Toll(Unsettled, q) = IF q.pc \in {"daily", "monthly", "gone"} THEN t ELSE 0
        /\ Toll(Provided, q) = f /\ \A m : Toll(InMonth(m), q) = IF q.pc = "monthly" /\ q.month = m THEN t ELSE 0
    BY <2>2, TollsOf
  <2>4. Strayed(q) => Strayed(p)
    BY <1>2, <1>3 DEF Strayed, FieldsOf
  <2>5. ~Strayed(p) => t = 0
    BY <1>2, BillRecords DEF Strayed, FieldsOf
  <2>6. f \in Nat
    BY <1>0
  <2>7. ~Strayed(p) => \A m : Toll(InMonth(m), p) = Toll(InMonth(m), q)
    BY <2>1, <2>3, <2>5
  <2>8. UNCHANGED <<daily, monthly, total>> /\ burned' = burned
    BY <1>3
  <2> HIDE DEF f, t, q
  <2>9. /\ Toll(AtMonthly, q) \in Nat /\ Toll(AtDaily, q) \in Nat /\ Toll(Unsettled, q) \in {0, t}
    BY <1>0, <2>3
  <2> QED BY <1>0, <2>1, <2>3, <2>4, <2>6, <2>7, <2>8, <2>9 DEF Unwritten
<1>7. KeptSound(keptAnswer') /\ q.pc # "responded"
  BY <1>0, <1>3
<1> QED BY <1>1, <1>3, <1>4, <1>5, <1>6, <1>7, LedgerStays

(* The posts of a call that moves: those before it, with t more tokens      *)
(* heard, f of them once and fresh.                                         *)
Hearing(log, t, f) ==
    /\ log \in Seq(Posted) /\ Len(log) = Len(posts) /\ t \in Nat /\ f \in Nat
    /\ \A j \in 1 .. Len(posts) : PostSound(log[j]) /\ (Strayed(posts[j]) => Strayed(log[j]))
    /\ \A K \in {AtDaily, AtMonthly, Unsettled, Provided} \cup {InMonth(m) : m \in Months} :
          Owing(K, log) = Owing(K, posts)
    /\ Owing(Heeded, log) = Owing(Heeded, posts) + t
    /\ Owing(HeededOnce, log) = Owing(HeededOnce, posts) + f

LEMMA HearsNothing == BillInv /\ LedgerInv => Hearing(posts, 0, 0)
<1> SUFFICES ASSUME BillInv, LedgerInv PROVE Hearing(posts, 0, 0)
  OBVIOUS
<1>1. posts \in Seq(Posted)
  BY DEF BillInv, BillTyped
<1>2. Owing(Heeded, posts) \in Nat /\ Owing(HeededOnce, posts) \in Nat
  BY <1>1, TollsNumbered
<1> DEFINE a == Owing(Heeded, posts)  b == Owing(HeededOnce, posts)
<1>3. a + 0 = a /\ b + 0 = b
  <2>1. a \in Nat /\ b \in Nat
    BY <1>2
  <2> HIDE DEF a, b
  <2> QED BY <2>1
<1> QED BY <1>1, <1>3 DEF Hearing, LedgerInv

LEMMA HearsAnswer ==
    ASSUME BillInv, LedgerInv, asked.pc = "waiting", posts[Len(posts)].pc = "responded", NEW log,
           log = [posts EXCEPT ![Len(posts)].heard = TRUE]
    PROVE  /\ Len(posts) \in DOMAIN posts
           /\ \E f \in Nat :
                 /\ Hearing(log, posts[Len(posts)].answer.tokens, f)
                 /\ f = IF posts[Len(posts)].tokens = 1 /\ ~posts[Len(posts)].answer.cached
                          THEN posts[Len(posts)].answer.tokens ELSE 0
<1> DEFINE n == Len(posts)  q == posts[n]  p == [q EXCEPT !.heard = TRUE]
           t == q.answer.tokens  f == IF q.tokens = 1 /\ ~q.answer.cached THEN t ELSE 0
<1>1. posts \in Seq(Posted) /\ n \in Nat \ {0} /\ DOMAIN posts = 1 .. n
  BY LogStays, LenProperties DEF LogOf
<1>2. n \in DOMAIN posts /\ q \in Posted /\ PostSound(q)
  <2>1. n \in 1 .. n
    BY <1>1
  <2> QED BY <1>1, <2>1, ElementOfSeq DEF LedgerInv
<1>3. log = [posts EXCEPT ![n] = p]
  OBVIOUS
<1>4. FieldsOf(p, q.pc, q.answer, q.day, q.month, q.status, TRUE, q.tokens)
  BY <1>2, Heard
<1> HIDE DEF p
<1>5. p \in Posted /\ PostSound(p) /\ (Strayed(q) => Strayed(p))
  BY <1>2, <1>4 DEF FieldsOf, PostSound, Strayed
<1>a. n \in DOMAIN posts /\ q \in Posted /\ p \in Posted
  BY <1>2, <1>5
<1>6. /\ log \in Seq(Posted) /\ Len(log) = n
      /\ \A j \in 1 .. n : log[j] = IF j = n THEN p ELSE posts[j]
  <2> HIDE DEF n, q
  <2> QED BY ONLY <1>1, <1>3, <1>a, PostReplaced
<1>7. ~q.heard
  BY DEF LedgerInv, CallSound
<1>8. \A K : Owing(K, log) + Toll(K, q) = Owing(K, posts) + Toll(K, p)
  <2>1. n \in 1 .. Len(posts) /\ Len(log) = Len(posts)
    BY <1>1, <1>6
  <2>2. \A j \in 1 .. Len(posts) : log[j] = IF j = n THEN p ELSE posts[j]
    BY <1>6
  <2> HIDE DEF n
  <2>3. posts \in Seq(Posted) /\ log \in Seq(Posted) /\ p \in Posted
    BY <1>1, <1>5, <1>6
  <2>4. \A K : Owing(K, log) + Toll(K, posts[n]) = Owing(K, posts) + Toll(K, p)
    BY ONLY <2>1, <2>2, <2>3, OwingChanged
  <2> QED BY <2>4
<1>9. \A K : Owing(K, posts) \in Nat /\ Owing(K, log) \in Nat /\ Toll(K, q) \in Nat /\ Toll(K, p) \in Nat
  <2>1. \A K : Owing(K, posts) \in Nat /\ Owing(K, log) \in Nat
    BY <1>1, <1>6, TollsNumbered
  <2> QED BY <1>2, <1>5, <2>1, TollType
<1>10. FieldsOf(q, q.pc, q.answer, q.day, q.month, q.status, q.heard, q.tokens) /\ t \in Nat
  BY <1>2, OwnFields
<1>11. /\ Toll(AtDaily, q) = Toll(AtDaily, p) /\ Toll(AtMonthly, q) = Toll(AtMonthly, p)
       /\ \A m : Toll(InMonth(m), q) = Toll(InMonth(m), p)
       /\ Toll(Unsettled, q) = Toll(Unsettled, p) /\ Toll(Provided, q) = Toll(Provided, p)
       /\ Toll(Heeded, q) = 0 /\ Toll(Heeded, p) = t /\ Toll(HeededOnce, q) = 0 /\ Toll(HeededOnce, p) = f
  <2>1. ~q.heard /\ q \in Posted /\ p \in Posted
    BY <1>2, <1>5, <1>7
  <2>b. p.pc = q.pc /\ p.answer = q.answer /\ p.month = q.month /\ p.tokens = q.tokens /\ p.heard
    BY <1>4 DEF FieldsOf
  <2> HIDE DEF q
  <2>2. TollsAre(q) /\ TollsAre(p)
    BY <2>1, OwnTolls
  <2>3. /\ Toll(AtDaily, q) = Toll(AtDaily, p) /\ Toll(AtMonthly, q) = Toll(AtMonthly, p)
        /\ \A m : Toll(InMonth(m), q) = Toll(InMonth(m), p)
        /\ Toll(Unsettled, q) = Toll(Unsettled, p) /\ Toll(Provided, q) = Toll(Provided, p)
    BY <2>b, <2>2 DEF TollsAre
  <2>4. Toll(Heeded, q) = 0 /\ Toll(Heeded, p) = t /\ Toll(HeededOnce, q) = 0 /\ Toll(HeededOnce, p) = f
    BY <2>1, <2>b, <2>2 DEF TollsAre
  <2> QED BY <2>3, <2>4
<1>12. ASSUME NEW K, Toll(K, q) = Toll(K, p) PROVE Owing(K, log) = Owing(K, posts)
  <2> DEFINE a == Owing(K, log)  b == Owing(K, posts)  c == Toll(K, q)
  <2>1. a + c = b + c /\ a \in Nat /\ b \in Nat /\ c \in Nat
    BY <1>8, <1>9, <1>12
  <2> HIDE DEF a, b, c
  <2>2. a = b
    BY <2>1
  <2> QED BY <2>2 DEF a, b
<1>13. f \in Nat
  BY <1>10
<1>14. Owing(Heeded, log) = Owing(Heeded, posts) + t /\ Owing(HeededOnce, log) = Owing(HeededOnce, posts) + f
  <2> DEFINE a == Owing(Heeded, log)  b == Owing(Heeded, posts)
             c == Owing(HeededOnce, log)  d == Owing(HeededOnce, posts)
  <2>1. a + 0 = b + t /\ c + 0 = d + f /\ a \in Nat /\ b \in Nat /\ c \in Nat /\ d \in Nat
    BY <1>8, <1>9, <1>11
  <2> HIDE DEF a, b, c, d, t, f
  <2>2. a = b + t /\ c = d + f
    BY <1>10, <1>13, <2>1
  <2> QED BY <2>2 DEF a, b, c, d
<1>15. \A K \in {AtDaily, AtMonthly, Unsettled, Provided} \cup {InMonth(m) : m \in Months} :
          Owing(K, log) = Owing(K, posts)
  BY <1>11, <1>12
<1>16. \A j \in 1 .. n : PostSound(log[j]) /\ (Strayed(posts[j]) => Strayed(log[j]))
  <2>1. \A j \in 1 .. n : PostSound(posts[j])
    BY DEF LedgerInv
  <2> QED BY <1>5, <1>6, <2>1
<1>17. Hearing(log, t, f)
  <2> HIDE DEF t, f, q
  <2> QED BY <1>6, <1>10, <1>13, <1>14, <1>15, <1>16 DEF Hearing
<1> QED BY <1>2, <1>13, <1>17

(* The ledgers, when a call moves.                                          *)
LEMMA LedgerClient ==
    ASSUME BillInv, LedgerInv, NEW log, NEW t, NEW f, Hearing(log, t, f),
           posts' \in Seq(Posted), Len(posts') >= Len(log), Len(posts') \in Nat,
           \A j \in 1 .. Len(log) : posts'[j] = log[j],
           \A j \in 1 .. Len(posts') : PostSound(posts'[j]),
           \A K : Owing(K, posts') = Owing(K, log),
           UNCHANGED Bill!gatewayVars, told' \in Nat, CallSound(asked', posts'),
           told' + Untold(asked') <= told + Untold(asked) + t,
           told + UntoldFresh(asked) + f <= told' + UntoldFresh(asked'),
           Untold(asked) \in Nat, Untold(asked') \in Nat, UntoldFresh(asked) \in Nat, UntoldFresh(asked') \in Nat
    PROVE  LedgerInv'
<1>0. UNCHANGED <<keptAnswer, burned, daily, monthly, total>>
  BY DEF Bill!gatewayVars
<1>1. /\ Len(log) = Len(posts) /\ Len(posts) \in Nat /\ t \in Nat /\ f \in Nat
      /\ \A j \in 1 .. Len(posts) : Strayed(posts[j]) => Strayed(log[j])
      /\ Owing(Heeded, log) = Owing(Heeded, posts) + t
      /\ Owing(HeededOnce, log) = Owing(HeededOnce, posts) + f
  BY LenProperties DEF Hearing, BillInv, BillTyped
<1>2. /\ Owing(AtDaily, posts') = Owing(AtDaily, posts) /\ Owing(AtMonthly, posts') = Owing(AtMonthly, posts)
      /\ Owing(Unsettled, posts') = Owing(Unsettled, posts) /\ Owing(Provided, posts') = Owing(Provided, posts)
      /\ \A m \in Months : Owing(InMonth(m), posts') = Owing(InMonth(m), posts)
  BY DEF Hearing
<1>3. LedgerTyped' /\ KeptSound(keptAnswer')
  BY <1>0 DEF LedgerInv, LedgerTyped
<1>4. Ledgers'
  <2>1. Bill!Spent(monthly)' = Bill!Spent(monthly) /\ Bill!Spent(daily)' = Bill!Spent(daily)
    BY <1>0
  <2> QED BY <1>0, <1>2, <2>1 DEF LedgerInv, Ledgers
<1>5. MonthsAgree'
  <2> SUFFICES ASSUME \A j \in 1 .. Len(posts') : ~Strayed(posts'[j]), NEW m \in Months
               PROVE  Bill!Added(daily', Bill!Of(m)) = monthly'[m] + Owing(InMonth(m), posts')
    BY DEF MonthsAgree, Bill!Of, Bill!Days, Bill!Month
  <2>1. \A j \in 1 .. Len(posts) : ~Strayed(posts[j])
    BY <1>1
  <2>2. Bill!Added(daily, Bill!Of(m)) = monthly[m] + Owing(InMonth(m), posts)
    BY <2>1 DEF LedgerInv, MonthsAgree
  <2> QED BY <1>0, <1>2, <2>2
<1>6. Tellings'
  <2> DEFINE a == Owing(Heeded, posts)  a1 == Owing(Heeded, posts')
             b == Owing(HeededOnce, posts)  b1 == Owing(HeededOnce, posts')
             u == Untold(asked)  u1 == Untold(asked')  v == UntoldFresh(asked)  v1 == UntoldFresh(asked')
             o == told  o1 == told'
  <2>1. a1 = a + t /\ b1 = b + f
    BY <1>1
  <2>2. o + u <= a /\ b <= o + v
    BY DEF LedgerInv, Tellings
  <2>3. o1 + u1 <= o + u + t /\ o + v + f <= o1 + v1
    OBVIOUS
  <2>4. a \in Nat /\ b \in Nat /\ u \in Nat /\ u1 \in Nat /\ v \in Nat /\ v1 \in Nat /\ o \in Nat /\ o1 \in Nat
    BY TollsNumbered DEF BillInv, BillTyped, LedgerInv, LedgerTyped
  <2> HIDE DEF a, a1, b, b1, u, u1, v, v1, o, o1
  <2>5. o1 + u1 <= a1 /\ b1 <= o1 + v1
    BY <1>1, <2>1, <2>2, <2>3, <2>4
  <2> QED BY <2>5 DEF Tellings, a1, b1, u1, v1, o1
<1> QED BY <1>3, <1>4, <1>5, <1>6 DEF LedgerInv

(* A post that is made.                                                     *)
LEMMA NewPost ==
    ASSUME NEW tokens \in Charges, NEW log \in Seq(Posted), NEW new, new = Bill!Post(tokens, log)
    PROVE  /\ new \in Seq(Posted) /\ Len(log) \in Nat /\ Len(new) = Len(log) + 1
           /\ \A j \in 1 .. Len(log) : new[j] = log[j]
           /\ PostSound(new[Len(log) + 1]) /\ ~new[Len(log) + 1].heard /\ new[Len(log) + 1].tokens = tokens
           /\ \A K : Owing(K, new) = Owing(K, log)
<1> DEFINE q == [pc |-> "arrived", tokens |-> tokens, answer |-> Bill!None,
                 day |-> 0, month |-> 0, status |-> 0, heard |-> FALSE]
<1>1. /\ new \in Seq(Posted) /\ Len(log) \in Nat /\ Len(new) = Len(log) + 1
      /\ \A j \in 1 .. Len(log) : new[j] = log[j]
      /\ ~new[Len(log) + 1].heard
      /\ new[Len(log) + 1].tokens = tokens /\ new[Len(log) + 1].answer = Bill!None
  BY PostMade
<1>2. PostSound(q)
  BY BillRecords DEF PostSound
<1>3. new[Len(log) + 1] = q
  <2>1. new = Append(log, q)
    BY DEF Bill!Post
  <2> HIDE DEF q
  <2> QED BY <2>1, <1>1
<1> HIDE DEF q
<1>4. new[Len(log) + 1].answer.tokens = 0
  BY <1>1, BillRecords
<1>5. \A K : Owing(K, new) = Owing(K, log)
  BY <1>1, <1>4, OwingStays
<1> QED BY <1>1, <1>2, <1>3, <1>5

(* What a call has got and not told of.                                     *)
LEMMA UntoldType ==
    \A a \in Asking :
        /\ Untold(a) \in Nat /\ UntoldFresh(a) \in Nat
        /\ a.first \in Answering /\ a.first.tokens \in Nat /\ a.first.cached \in BOOLEAN /\ a.try \in {1, 2}
BY DEF Untold, UntoldFresh, Asking, Answering, Tries

(* A call ends.                                                             *)
LEMMA LedgerEnds ==
    ASSUME BillInv, LedgerInv, NEW log, NEW t, NEW f, Hearing(log, t, f), posts' = log,
           asked' \in Asking, asked'.pc = "done", UNCHANGED Bill!gatewayVars, told' \in Nat,
           told' <= told + Untold(asked) + t, told + UntoldFresh(asked) + f <= told'
    PROVE  LedgerInv'
<1>1. /\ log \in Seq(Posted) /\ Len(log) = Len(posts) /\ Len(log) \in Nat
      /\ \A j \in 1 .. Len(posts) : PostSound(log[j])
  BY LenProperties DEF Hearing
<1>2. Untold(asked') = 0 /\ UntoldFresh(asked') = 0 /\ CallSound(asked', posts')
  BY DEF Untold, UntoldFresh, CallSound
<1>3. Untold(asked) \in Nat /\ UntoldFresh(asked) \in Nat
  BY UntoldType DEF BillInv, BillTyped
<1>4. told' + Untold(asked') <= told + Untold(asked) + t /\ told + UntoldFresh(asked) + f <= told' + UntoldFresh(asked')
  <2>1. told' + 0 <= told + Untold(asked) + t /\ told + UntoldFresh(asked) + f <= told' + 0
    <3> DEFINE a == told + Untold(asked) + t  b == told + UntoldFresh(asked) + f  c == told'
    <3>1. c <= a /\ b <= c /\ c \in Nat
      OBVIOUS
    <3> HIDE DEF a, b, c
    <3>2. c + 0 <= a /\ b <= c + 0
      BY <3>1
    <3> QED BY <3>2 DEF a, b, c
  <2> QED BY <1>2, <2>1
<1>5. Untold(asked') \in Nat /\ UntoldFresh(asked') \in Nat
  BY <1>2
<1>6. /\ posts' \in Seq(Posted) /\ Len(posts') >= Len(log) /\ Len(posts') \in Nat
      /\ \A j \in 1 .. Len(log) : posts'[j] = log[j]
      /\ \A j \in 1 .. Len(posts') : PostSound(posts'[j])
      /\ \A K : Owing(K, posts') = Owing(K, log)
  BY <1>1
<1> QED BY <1>2, <1>3, <1>4, <1>5, <1>6, LedgerClient

(* A call posts, for the tokens of its try.                                 *)
LEMMA LedgerPosts ==
    ASSUME BillInv, LedgerInv, NEW log, NEW t, NEW f, Hearing(log, t, f), NEW k \in Charges,
           posts' = Bill!Post(k, log), asked' \in Asking, asked'.pc = "waiting", asked'.try = k,
           k = 1 => asked'.first.tokens = 0,
           k = 2 /\ ~asked'.first.cached => asked'.first.tokens = 1,
           UNCHANGED <<Bill!gatewayVars, told>>,
           Untold(asked') <= Untold(asked) + t, UntoldFresh(asked) + f <= UntoldFresh(asked')
    PROVE  LedgerInv'
<1>1. /\ log \in Seq(Posted) /\ Len(log) = Len(posts) /\ Len(log) \in Nat /\ t \in Nat /\ f \in Nat
      /\ \A j \in 1 .. Len(posts) : PostSound(log[j])
  BY LenProperties DEF Hearing
<1>2. /\ posts' \in Seq(Posted) /\ Len(posts') = Len(log) + 1
      /\ \A j \in 1 .. Len(log) : posts'[j] = log[j]
      /\ PostSound(posts'[Len(log) + 1]) /\ ~posts'[Len(log) + 1].heard /\ posts'[Len(log) + 1].tokens = k
      /\ \A K : Owing(K, posts') = Owing(K, log)
  <2>1. posts' = Bill!Post(k, log) /\ log \in Seq(Posted) /\ k \in Charges
    BY <1>1
  <2> QED BY <2>1, NewPost
<1>3. CallSound(asked', posts')
  BY <1>2 DEF CallSound
<1>4. Untold(asked) \in Nat /\ UntoldFresh(asked) \in Nat /\ Untold(asked') \in Nat /\ UntoldFresh(asked') \in Nat
  BY UntoldType DEF BillInv, BillTyped
<1>5. told' \in Nat /\ told' = told
  BY DEF LedgerInv, LedgerTyped
<1>6. told' + Untold(asked') <= told + Untold(asked) + t /\ told + UntoldFresh(asked) + f <= told' + UntoldFresh(asked')
  <2> DEFINE u == Untold(asked)  u1 == Untold(asked')  v == UntoldFresh(asked)  v1 == UntoldFresh(asked')  o == told
  <2>1. u \in Nat /\ u1 \in Nat /\ v \in Nat /\ v1 \in Nat /\ o \in Nat /\ u1 <= u + t /\ v + f <= v1
    BY <1>4, <1>5
  <2> HIDE DEF u, u1, v, v1, o
  <2>2. o + u1 <= o + u + t /\ o + v + f <= o + v1
    BY <1>1, <2>1
  <2> QED BY <1>5, <2>2 DEF u, u1, v, v1, o
<1>7. UNCHANGED Bill!gatewayVars
  OBVIOUS
<1>8. /\ Len(posts') >= Len(log) /\ Len(posts') \in Nat
      /\ \A j \in 1 .. Len(posts') : PostSound(posts'[j])
  <2>1. Len(posts') = Len(log) + 1 /\ Len(log) \in Nat
    BY <1>1, <1>2
  <2>2. \A j \in 1 .. Len(posts') : j \in 1 .. Len(log) \/ j = Len(log) + 1
    BY <2>1
  <2> QED BY <1>1, <1>2, <2>1, <2>2
<1> QED BY <1>2, <1>3, <1>4, <1>5, <1>6, <1>7, <1>8, LedgerClient

(* A call begins.                                                           *)
LEMMA LedgerAsk == BillInv /\ LedgerInv /\ Bill!Ask => LedgerInv'
<1> SUFFICES ASSUME BillInv, LedgerInv, Bill!Ask PROVE LedgerInv'
  OBVIOUS
<1> DEFINE n == Len(posts)
<1>1. /\ asked' = Begun(n + 1) /\ posts' = Bill!Post(1, posts)
      /\ UNCHANGED <<Bill!gatewayVars, told>> /\ asked.pc # "waiting"
  BY DEF Bill!Ask, Begun
<1>2. CallIs(asked', "waiting", 1, 0, n + 1, "none") /\ asked'.first = Bill!None
  <2>1. n + 1 \in Starts
    BY LenProperties DEF Starts, BillInv, BillTyped
  <2> HIDE DEF n
  <2> QED BY <1>1, <2>1, CallBegins
<1>3. asked'.first.tokens = 0 /\ asked' \in Asking /\ asked'.pc = "waiting" /\ asked'.try = 1
  BY <1>2, BillRecords DEF CallIs
<1>4. Untold(asked') = 0 /\ UntoldFresh(asked') = 0 /\ Untold(asked) = 0 /\ UntoldFresh(asked) = 0
  BY <1>1, <1>3 DEF Untold, UntoldFresh
<1>5. Untold(asked') <= Untold(asked) + 0 /\ UntoldFresh(asked) + 0 <= UntoldFresh(asked')
  BY <1>4
<1>6. 1 \in Charges /\ Hearing(posts, 0, 0)
  BY HearsNothing DEF Charges
<1> QED BY <1>1, <1>3, <1>5, <1>6, LedgerPosts

(* The attempt failed.                                                      *)
LEMMA LedgerFails ==
    ASSUME BillInv, LedgerInv, asked.pc = "waiting", NEW log, Hearing(log, 0, 0),
           Bill!Again(log) \/ Bill!Raises(log), UNCHANGED Bill!gatewayVars
    PROVE  LedgerInv'
<1>0. /\ asked \in Asking /\ asked.first.tokens \in Nat /\ asked.try \in {1, 2} /\ told \in Nat
      /\ Untold(asked) = asked.first.tokens /\ UntoldFresh(asked) \in Nat /\ UntoldFresh(asked) <= Untold(asked)
  BY UntoldType DEF BillInv, BillTyped, LedgerInv, LedgerTyped, Untold, UntoldFresh
<1>1. ASSUME Bill!Raises(log) PROVE LedgerInv'
  <2>1. PICK o \in {"raised", "empty"} : asked' = Ended(asked, o)
    BY <1>1 DEF Bill!Raises, Bill!Finish, Ended
  <2>2. posts' = log /\ told' = told + asked.first.tokens
    BY <1>1 DEF Bill!Raises, Bill!Finish
  <2>3. o \in Outcomes
    BY DEF Outcomes
  <2>4. CallIs(asked', "done", asked.try, asked.attempt, asked.from, o)
    BY <1>0, <2>1, <2>3, CallDone
  <2>5. asked' \in Asking /\ asked'.pc = "done"
    BY <2>4 DEF CallIs
  <2>6. told' \in Nat /\ told' <= told + Untold(asked) + 0 /\ told + UntoldFresh(asked) + 0 <= told'
    BY <1>0, <2>2
  <2> QED BY <2>2, <2>5, <2>6, LedgerEnds
<1>2. ASSUME asked.attempt = 0, asked' = [asked EXCEPT !.attempt = 1], posts' = Bill!Post(asked.try, log),
             UNCHANGED told
      PROVE  LedgerInv'
  <2>1. asked' \in Asking /\ asked'.pc = "waiting" /\ asked'.try = asked.try /\ asked'.first = asked.first
    BY <1>0, <1>2 DEF Asking, Attempts
  <2>2. asked.try \in Charges
    BY <1>0 DEF Charges
  <2>3. /\ asked.try = 1 => asked'.first.tokens = 0
        /\ asked.try = 2 /\ ~asked'.first.cached => asked'.first.tokens = 1
    BY <2>1 DEF LedgerInv, CallSound
  <2>4. Untold(asked') = Untold(asked) /\ UntoldFresh(asked') = UntoldFresh(asked)
    BY <2>1 DEF Untold, UntoldFresh
  <2>5. Untold(asked') <= Untold(asked) + 0 /\ UntoldFresh(asked) + 0 <= UntoldFresh(asked')
    BY <1>0, <2>4
  <2>6. UNCHANGED <<Bill!gatewayVars, told>>
    BY <1>2
  <2> QED BY <1>2, <2>1, <2>2, <2>3, <2>5, <2>6, LedgerPosts
<1> QED BY <1>1, <1>2 DEF Bill!Again, Bill!Tokens

(* A response arrives.                                                      *)
LEMMA LedgerHear == BillInv /\ LedgerInv /\ Bill!Hear => LedgerInv'
<1> SUFFICES ASSUME BillInv, LedgerInv, Bill!Hear PROVE LedgerInv'
  OBVIOUS
<1> DEFINE n == Len(posts)  q == posts[n]  log == [posts EXCEPT ![n].heard = TRUE]  t == q.answer.tokens
<1>1. /\ asked.pc = "waiting" /\ q.pc = "responded" /\ UNCHANGED Bill!gatewayVars
      /\ \/ q.status = 200 /\ Bill!Answered(q.answer, log)
         \/ q.status = 503 /\ Bill!Again(log)
         \/ q.status = 404 /\ Bill!Raises(log)
  BY DEF Bill!Hear
<1>2. n \in DOMAIN posts /\ \E f \in Nat : Hearing(log, t, f) /\ f = IF q.tokens = 1 /\ ~q.answer.cached THEN t ELSE 0
  BY <1>1, HearsAnswer
<1>3. PICK f \in Nat : Hearing(log, t, f) /\ f = IF q.tokens = 1 /\ ~q.answer.cached THEN t ELSE 0
  BY <1>2
<1>4. /\ q \in Posted /\ PostSound(q) /\ q.answer \in Answering /\ t \in Nat /\ q.tokens \in {1, 2}
      /\ q.answer.cached \in BOOLEAN /\ q.tokens = asked.try
  BY <1>1, <1>2, PostReady, OwnFields DEF LedgerInv, CallSound
<1>5. /\ asked \in Asking /\ asked.first.tokens \in Nat /\ asked.try \in {1, 2} /\ told \in Nat
      /\ Untold(asked) = asked.first.tokens /\ UntoldFresh(asked) \in Nat /\ UntoldFresh(asked) <= Untold(asked)
      /\ asked.try = 1 => UntoldFresh(asked) = 0 /\ asked.first.tokens = 0
      /\ asked.try = 2 => UntoldFresh(asked) <= 1
  BY <1>1, UntoldType DEF BillInv, BillTyped, LedgerInv, LedgerTyped, Untold, UntoldFresh, CallSound
<1> HIDE DEF log
<1>6. ASSUME q.status # 200 PROVE LedgerInv'
  <2>1. t = 0
    BY <1>1, <1>4, <1>6 DEF PostSound
  <2>2. f = 0
    BY <1>3, <2>1
  <2>3. Hearing(log, 0, 0)
    BY <1>3, <2>1, <2>2
  <2>4. Bill!Again(log) \/ Bill!Raises(log)
    BY <1>1, <1>6
  <2> QED BY <1>1, <2>3, <2>4, LedgerFails
<1>7. ASSUME q.status = 200 PROVE LedgerInv'
  <2>0. t >= 1 /\ f <= t /\ (asked.try = 2 => f = 0) /\ f \in Nat
    BY <1>3, <1>4, <1>7 DEF PostSound
  <2>1. ASSUME NEW o \in {"content", "empty"}, asked' = Ended(asked, o), posts' = log,
               \/ told' = told + t /\ (o = "content" \/ asked.try = 1)
               \/ told' = told + asked.first.tokens /\ asked.try = 2
        PROVE  LedgerInv'
    <3>1. o \in Outcomes
      BY DEF Outcomes
    <3>2. CallIs(asked', "done", asked.try, asked.attempt, asked.from, o)
      BY <1>5, <2>1, <3>1, CallDone
    <3>3. asked' \in Asking /\ asked'.pc = "done"
      BY <3>2 DEF CallIs
    <3> DEFINE u == Untold(asked)  v == UntoldFresh(asked)  a == told  b == told'
    <3>4. /\ u \in Nat /\ v \in Nat /\ a \in Nat /\ t \in Nat
          /\ b = a + t \/ (b = a + u /\ asked.try = 2)
          /\ v <= u /\ (asked.try = 1 => v = 0) /\ (asked.try = 2 => v <= 1) /\ asked.try \in {1, 2}
      BY <1>4, <1>5, <2>1
    <3> HIDE DEF u, v, a, b, t
    <3>5. b \in Nat /\ b <= a + u + t /\ a + v + f <= b
      BY <2>0, <3>4
    <3>6. told' \in Nat /\ told' <= told + Untold(asked) + t /\ told + UntoldFresh(asked) + f <= told'
      BY <3>5 DEF u, v, a, b
    <3>7. Hearing(log, t, f) /\ UNCHANGED Bill!gatewayVars
      BY <1>1, <1>3
    <3> QED BY <2>1, <3>3, <3>6, <3>7, LedgerEnds
  <2>2. ASSUME asked.try = 1, asked' = Retrying(asked, q.answer), posts' = Bill!Post(2, log), UNCHANGED told
        PROVE  LedgerInv'
    <3>1. CallIs(asked', asked.pc, 2, 0, asked.from, asked.outcome) /\ asked'.first = q.answer
      BY <1>4, <1>5, <2>2, CallRetries
    <3>2. asked' \in Asking /\ asked'.pc = "waiting" /\ asked'.try = 2
      BY <1>1, <3>1 DEF CallIs
    <3>3. ~q.answer.cached => t = 1
      BY <1>4, <2>0, <2>2 DEF PostSound
    <3>4. Untold(asked') = t /\ UntoldFresh(asked') = (IF ~q.answer.cached THEN t ELSE 0)
      BY <3>1, <3>2 DEF Untold, UntoldFresh
    <3>5. Untold(asked') <= Untold(asked) + t /\ UntoldFresh(asked) + f <= UntoldFresh(asked')
      BY <1>3, <1>4, <1>5, <2>2, <3>4
    <3>6. 2 \in Charges /\ (2 = 1 => asked'.first.tokens = 0)
      BY DEF Charges
    <3>7. 2 = 2 /\ ~asked'.first.cached => asked'.first.tokens = 1
      BY <3>1, <3>3
    <3>8. Hearing(log, t, f) /\ UNCHANGED <<Bill!gatewayVars, told>>
      BY <1>1, <1>3, <2>2
    <3> QED BY <2>2, <3>2, <3>5, <3>6, <3>7, <3>8, LedgerPosts
  <2>3. Bill!Answered(q.answer, log)
    BY <1>1, <1>7
  <2> QED BY <2>1, <2>2, <2>3 DEF Bill!Answered, Bill!Finish, Ended, Retrying
<1> QED BY <1>6, <1>7

(* The invariant of the ledgers, at the start.                              *)
LEMMA LedgerStarts == Bill!Init => LedgerInv
<1> SUFFICES ASSUME Bill!Init PROVE LedgerInv
  OBVIOUS
<1>1. /\ posts = <<>> /\ asked = Bill!Idle /\ keptAnswer = Bill!None /\ burned = 0 /\ total = 0 /\ told = 0
      /\ daily = [d \in Bill!Days |-> 0] /\ monthly = [m \in {Bill!Month(d) : d \in Bill!Days} |-> 0]
  BY DEF Bill!Init
<1>2. posts \in Seq(Posted) /\ Len(posts) = 0
  BY <1>1, EmptySeq
<1>3. daily \in [Bill!Days -> Nat] /\ monthly \in [Months -> Nat]
  BY <1>1, DaysAndMonths
<1>4. \A K : Owing(K, posts) = 0
  <2> TAKE K
  <2>1. \A j \in 1 .. Len(posts) : Toll(K, posts[j]) = 0
    BY <1>2
  <2> QED BY <1>2, <2>1, OwingNothing
<1>5. \A R \in SUBSET Bill!Days : Bill!Added(daily, R) = 0
  <2> TAKE R \in SUBSET Bill!Days
  <2>1. IsFiniteSet(R) /\ \A d \in R : daily[d] = 0
    BY <1>1, DaysAndMonths, FS_Subset
  <2> QED BY <2>1, AddedZeros
<1>6. Bill!Added(monthly, Months) = 0
  <2>1. IsFiniteSet(Months) /\ \A m \in Months : monthly[m] = 0
    BY <1>1, DaysAndMonths
  <2> QED BY <2>1, AddedZeros
<1>7. Bill!Spent(daily) = 0 /\ Bill!Spent(monthly) = 0
  <2>1. DOMAIN daily = Bill!Days /\ DOMAIN monthly = Months
    BY <1>3
  <2> QED BY <1>5, <1>6, <2>1 DEF Bill!Spent
<1>8. asked.pc = "idle"
  BY <1>1 DEF Bill!Idle
<1>9. Untold(asked) = 0 /\ UntoldFresh(asked) = 0 /\ CallSound(asked, posts)
  BY <1>8 DEF Untold, UntoldFresh, CallSound
<1>10. Ledgers
  BY <1>1, <1>4, <1>7 DEF Ledgers
<1>11. MonthsAgree
  <2>1. \A m \in Months : monthly[m] = 0 /\ Bill!Of(m) \in SUBSET Bill!Days
    BY <1>1, DaysAndMonths
  <2> QED BY <1>4, <1>5, <2>1 DEF MonthsAgree
<1>12. Tellings
  BY <1>1, <1>4, <1>9 DEF Tellings
<1>13. LedgerTyped /\ KeptSound(keptAnswer)
  BY <1>1, <1>3 DEF LedgerTyped, KeptSound
<1> QED BY <1>2, <1>9, <1>10, <1>11, <1>12, <1>13 DEF LedgerInv

(* A step of a completion keeps it.                                         *)
LEMMA LedgersKept == BillInv /\ LedgerInv /\ [Bill!Next]_(Bill!vars) => LedgerInv'
<1> SUFFICES ASSUME BillInv, LedgerInv, [Bill!Next]_(Bill!vars) PROVE LedgerInv'
  OBVIOUS
<1>1. ASSUME UNCHANGED <<asked, posts, Bill!gatewayVars, told>> PROVE LedgerInv'
  BY <1>1 DEF Bill!gatewayVars, LedgerInv, LedgerTyped, Ledgers, MonthsAgree, Tellings, KeptSound, CallSound,
              Untold, UntoldFresh, PostSound
<1>2. CASE Bill!Midnight
  BY <1>1, <1>2 DEF Bill!Midnight
<1>3. CASE Bill!Ask
  BY <1>3, LedgerAsk
<1>4. CASE Bill!Hear
  BY <1>4, LedgerHear
<1>5. CASE Bill!TimeOut
  <2>1. asked.pc = "waiting" /\ Bill!Again(posts) /\ UNCHANGED Bill!gatewayVars
    BY <1>5 DEF Bill!TimeOut, Bill!gatewayVars
  <2>2. Hearing(posts, 0, 0)
    BY HearsNothing
  <2> QED BY <2>1, <2>2, LedgerFails
<1>6. ASSUME NEW i \in DOMAIN posts,
             \/ Bill!Lookup(i) \/ Bill!Refuse(i) \/ Bill!Provide(i) \/ Bill!Daily(i)
             \/ Bill!Monthly(i) \/ Bill!Respond(i) \/ Bill!Drop(i)
      PROVE  LedgerInv'
  BY <1>6, LedgerLookup, LedgerRefuse, LedgerProvide, LedgerDaily, LedgerMonthly, LedgerRespond, LedgerDrop
<1>7. CASE UNCHANGED Bill!vars
  BY <1>1, <1>7 DEF Bill!vars, Bill!gatewayVars
<1> QED BY <1>2, <1>3, <1>4, <1>5, <1>6, <1>7 DEF Bill!Next

(* From it, that the ledgers reconcile.                                     *)
LEMMA LedgersHold == BillInv /\ LedgerInv => Bill!LedgersReconcile
<1> SUFFICES ASSUME BillInv, LedgerInv PROVE Bill!LedgersReconcile
  OBVIOUS
<1> DEFINE open == {i \in DOMAIN posts :
                       posts[i].pc \in {"daily", "monthly", "store", "gone"} /\ posts[i].answer # Bill!None}
<1>1. posts \in Seq(Posted) /\ Len(posts) \in Nat /\ DOMAIN posts = 1 .. Len(posts)
  BY LenProperties DEF BillInv, BillTyped
<1>2. /\ Owing(AtMonthly, posts) \in Nat /\ Owing(AtDaily, posts) \in Nat /\ Owing(Unsettled, posts) \in Nat
      /\ total \in Nat /\ burned \in Nat /\ daily \in [Bill!Days -> Nat] /\ DOMAIN monthly = Months
      /\ Bill!Spent(daily) \in Nat
  <2>1. total \in Nat /\ burned \in Nat /\ daily \in [Bill!Days -> Nat] /\ DOMAIN monthly = Months
    BY DEF LedgerInv, LedgerTyped
  <2>2. Numbered(daily, DOMAIN daily)
    BY <2>1, DaysAndMonths DEF Numbered
  <2>3. Bill!Spent(daily) \in Nat
    BY <2>2, AddedOne DEF Bill!Spent
  <2> QED BY <1>1, <2>1, <2>3, TollsNumbered
<1>3. \A j \in 1 .. Len(posts) : posts[j] \in Posted /\ TollsAre(posts[j])
  BY <1>1, ElementOfSeq, OwnTolls
<1>4. /\ total = Bill!Spent(monthly) /\ total <= Bill!Spent(daily) /\ Bill!Spent(daily) <= burned
      /\ total <= burned /\ burned <= total + Owing(Unsettled, posts)
  <2> DEFINE a == Owing(AtMonthly, posts)  b == Owing(AtDaily, posts)  u == Owing(Unsettled, posts)
             y == Bill!Spent(daily)  v == Bill!Spent(monthly)
  <2>1. total = v /\ total + a <= y /\ y + b <= burned /\ burned <= total + u
    BY DEF LedgerInv, Ledgers
  <2>2. a \in Nat /\ b \in Nat /\ u \in Nat /\ y \in Nat /\ total \in Nat /\ burned \in Nat
    BY <1>2
  <2> HIDE DEF a, b, u, y, v
  <2>3. total <= y /\ y <= burned /\ total <= burned
    BY <2>1, <2>2
  <2> QED BY <2>1, <2>3 DEF u, y, v
<1>5. ASSUME open = {} PROVE \A j \in 1 .. Len(posts) : posts[j].pc \in {"daily", "monthly", "gone"} => posts[j].answer = Bill!None
  BY <1>1, <1>5
<1>6. ASSUME open = {} PROVE total = burned
  <2>1. \A j \in 1 .. Len(posts) : Toll(Unsettled, posts[j]) = 0
    <3> TAKE j \in 1 .. Len(posts)
    <3> DEFINE p == posts[j]
    <3>1. p.pc \in {"daily", "monthly", "gone"} => p.answer.tokens = 0
      BY <1>5, <1>6, BillRecords
    <3>2. TollsAre(p)
      BY <1>3
    <3> HIDE DEF p
    <3>3. Toll(Unsettled, p) = 0
      BY <3>1, <3>2 DEF TollsAre
    <3> QED BY <3>3 DEF p
  <2>2. Owing(Unsettled, posts) = 0
    BY <1>1, <2>1, OwingNothing
  <2>3. burned <= total + 0 /\ total <= burned /\ total \in Nat /\ burned \in Nat
    BY <1>2, <1>4, <2>2
  <2> QED BY <2>3
<1>7. ASSUME open = {}, \A i \in DOMAIN posts : Bill!Month(posts[i].day) = posts[i].month, NEW m \in Months
      PROVE  monthly[m] = Bill!Added(daily, Bill!Of(m))
  <2>1. \A j \in 1 .. Len(posts) : ~Strayed(posts[j])
    BY <1>1, <1>5, <1>7 DEF Strayed
  <2>2. Bill!Added(daily, Bill!Of(m)) = monthly[m] + Owing(InMonth(m), posts)
    BY <2>1 DEF LedgerInv, MonthsAgree
  <2>3. \A j \in 1 .. Len(posts) : Toll(InMonth(m), posts[j]) = 0
    <3> TAKE j \in 1 .. Len(posts)
    <3> DEFINE p == posts[j]
    <3>1. p.pc = "monthly" => p.answer.tokens = 0
      BY <1>5, <1>7, BillRecords
    <3>2. TollsAre(p)
      BY <1>3
    <3> HIDE DEF p
    <3>3. Toll(InMonth(m), p) = 0
      BY <3>1, <3>2 DEF TollsAre
    <3> QED BY <3>3 DEF p
  <2>4. Owing(InMonth(m), posts) = 0
    BY <1>1, <2>3, OwingNothing
  <2>5. monthly[m] \in Nat
    BY DEF LedgerInv, LedgerTyped
  <2> QED BY <2>2, <2>4, <2>5
<1> QED BY <1>2, <1>4, <1>6, <1>7 DEF Bill!LedgersReconcile

(* The tokens of a part of the posts, those of a kind.                      *)
Given == [i \in DOMAIN posts |-> posts[i].answer.tokens]

LEMMA OwingOf ==
    ASSUME posts \in Seq(Posted), NEW K
    PROVE  /\ Bill!Added(Given, {i \in DOMAIN posts : posts[i] \in K}) = Owing(K, posts)
<1> DEFINE S == 1 .. Len(posts)  H == {i \in DOMAIN posts : posts[i] \in K}  g == Tolls(K, posts)
<1>1. DOMAIN posts = S /\ H \in SUBSET S
  BY LenProperties
<1>2. IsFiniteSet(S) /\ \A i \in S : posts[i] \in Posted /\ g[i] = Toll(K, posts[i])
  BY TollsNumbered
<1>3. \A i \in S : Given[i] = posts[i].answer.tokens /\ Given[i] \in Nat
  BY <1>1, <1>2, OwnFields DEF Given
<1>4. Numbered(Given, S)
  BY <1>2, <1>3 DEF Numbered
<1>5. \A i \in S : g[i] = IF i \in H THEN Given[i] ELSE 0
  BY <1>1, <1>2, <1>3 DEF Toll
<1>6. Owing(K, posts) = Bill!Added(g, S)
  BY DEF Owing
<1> HIDE DEF S, H, g, Given
<1>7. Bill!Added(Given, H) = Bill!Added(g, S)
  BY <1>1, <1>4, <1>5, AddedMasked
<1> QED BY <1>6, <1>7 DEF H

(* The tokens of what is of a kind are those of the kinds that cover it.    *)
LEMMA OwingUnder ==
    ASSUME posts \in Seq(Posted), NEW K, NEW A, NEW B, NEW C,
           \A p \in Posted : p \in K => p \in A \/ p \in B \/ p \in C
    PROVE  Owing(K, posts) <= Owing(A, posts) + Owing(B, posts) + Owing(C, posts)
<1> DEFINE S == 1 .. Len(posts)  f == Tolls(K, posts)  a == Tolls(A, posts)  b == Tolls(B, posts)  c == Tolls(C, posts)
<1>1. \A M : /\ Numbered(Tolls(M, posts), S)
             /\ \A i \in S : posts[i] \in Posted /\ Tolls(M, posts)[i] = Toll(M, posts[i])
  BY TollsNumbered
<1>2. \A i \in S : f[i] <= a[i] + b[i] + c[i]
  <2> TAKE i \in S
  <2> DEFINE p == posts[i]
  <2>1. f[i] = Toll(K, p) /\ a[i] = Toll(A, p) /\ b[i] = Toll(B, p) /\ c[i] = Toll(C, p) /\ p \in Posted
    BY <1>1
  <2> HIDE DEF p
  <2>2. p.answer.tokens \in Nat
    BY <2>1, OwnFields
  <2> DEFINE t == p.answer.tokens
  <2> HIDE DEF t
  <2>3. Toll(K, p) <= Toll(A, p) + Toll(B, p) + Toll(C, p)
    <3>1. /\ Toll(K, p) = (IF p \in K THEN t ELSE 0) /\ Toll(A, p) = (IF p \in A THEN t ELSE 0)
          /\ Toll(B, p) = (IF p \in B THEN t ELSE 0) /\ Toll(C, p) = (IF p \in C THEN t ELSE 0)
      BY DEF Toll, t
    <3>2. t \in Nat /\ (p \in K => p \in A \/ p \in B \/ p \in C)
      BY <2>1, <2>2 DEF t
    <3> QED BY <3>1, <3>2
  <2> QED BY <2>1, <2>3
<1>3. Numbered(f, S) /\ Numbered(a, S) /\ Numbered(b, S) /\ Numbered(c, S)
  BY <1>1
<1>4. /\ Owing(K, posts) = Bill!Added(f, S) /\ Owing(A, posts) = Bill!Added(a, S)
      /\ Owing(B, posts) = Bill!Added(b, S) /\ Owing(C, posts) = Bill!Added(c, S)
  BY DEF Owing
<1> HIDE DEF S, f, a, b, c
<1>5. Bill!Added(f, S) <= Bill!Added(a, S) + Bill!Added(b, S) + Bill!Added(c, S)
  BY <1>2, <1>3, AddedUnder
<1> QED BY <1>4, <1>5

(* And that what callers are told of is bounded.                            *)
Regiven     == {p \in Posted : p.answer.cached}
Unheeded    == {p \in Posted : ~p.heard}
HeededTwice == {p \in Posted : p.heard /\ p.tokens = 2}

LEMMA TellingsHold == BillInv /\ LedgerInv => Bill!ToldIsBounded
<1> SUFFICES ASSUME BillInv, LedgerInv PROVE Bill!ToldIsBounded
  OBVIOUS
<1> DEFINE heard == {i \in DOMAIN posts : posts[i].heard}
<1>1. posts \in Seq(Posted) /\ DOMAIN posts = 1 .. Len(posts) /\ asked \in Asking
  BY LenProperties DEF BillInv, BillTyped
<1>2. \A i \in DOMAIN posts : posts[i] \in Posted
  BY <1>1, ElementOfSeq
<1>3. Bill!Added(Given, {i \in DOMAIN posts : posts[i].answer.cached}) = Owing(Regiven, posts)
  <2>1. {i \in DOMAIN posts : posts[i].answer.cached} = {i \in DOMAIN posts : posts[i] \in Regiven}
    BY <1>2 DEF Regiven
  <2> QED BY <1>1, <2>1, OwingOf
<1>4. Bill!Added(Given, DOMAIN posts \ heard) = Owing(Unheeded, posts)
  <2>1. DOMAIN posts \ heard = {i \in DOMAIN posts : posts[i] \in Unheeded}
    BY <1>2 DEF Unheeded
  <2> QED BY <1>1, <2>1, OwingOf
<1>5. Bill!Added(Given, {i \in heard : posts[i].tokens = 2}) = Owing(HeededTwice, posts)
  <2>1. {i \in heard : posts[i].tokens = 2} = {i \in DOMAIN posts : posts[i] \in HeededTwice}
    BY <1>2 DEF HeededTwice
  <2> QED BY <1>1, <2>1, OwingOf
<1>6. Owing(Heeded, posts) <= Owing(Provided, posts) + Owing(Regiven, posts) + Owing({}, posts)
  <2>1. \A p \in Posted : p \in Heeded => p \in Provided \/ p \in Regiven \/ p \in {}
    BY DEF Provided, Regiven
  <2> QED BY <1>1, <2>1, OwingUnder
<1>7. Owing(Provided, posts) <= Owing(HeededOnce, posts) + Owing(Unheeded, posts) + Owing(HeededTwice, posts)
  <2>1. \A p \in Posted : p \in Provided => p \in HeededOnce \/ p \in Unheeded \/ p \in HeededTwice
    BY OwnFields DEF Provided, HeededOnce, Unheeded, HeededTwice
  <2> QED BY <1>1, <2>1, OwingUnder
<1>8. Owing({}, posts) = 0
  <2>1. \A j \in 1 .. Len(posts) : Toll({}, posts[j]) = 0
    BY DEF Toll
  <2> QED BY <1>1, <2>1, OwingNothing
<1>9. \A K : Owing(K, posts) \in Nat
  BY <1>1, TollsNumbered
<1>10. /\ told + Untold(asked) <= Owing(Heeded, posts) /\ burned = Owing(Provided, posts)
       /\ Owing(HeededOnce, posts) <= told + UntoldFresh(asked)
       /\ told \in Nat /\ burned \in Nat /\ Untold(asked) \in Nat
       /\ asked.pc = "done" => UntoldFresh(asked) = 0
  BY <1>1, UntoldType DEF LedgerInv, Tellings, Ledgers, LedgerTyped, UntoldFresh
<1> DEFINE h == Owing(Heeded, posts)  c == Owing(Regiven, posts)  e == Owing({}, posts)
           o == Owing(HeededOnce, posts)  w == Owing(Unheeded, posts)  z == Owing(HeededTwice, posts)
           v == UntoldFresh(asked)
<1>11. h \in Nat /\ c \in Nat /\ o \in Nat /\ w \in Nat /\ z \in Nat
  BY <1>9
<1>12. told <= burned + c
  <2>1. told + Untold(asked) <= h /\ h <= burned + c + e /\ e = 0
    BY <1>6, <1>8, <1>10
  <2> HIDE DEF h, c, e
  <2> QED BY <1>10, <1>11, <2>1
<1>13. ASSUME asked.pc = "done" PROVE burned - told <= w + z
  <2>1. burned <= o + w + z /\ o <= told + v /\ v = 0
    BY <1>7, <1>10, <1>13
  <2> HIDE DEF o, w, z, v
  <2> QED BY <1>10, <1>11, <2>1
<1> QED BY <1>3, <1>4, <1>5, <1>12, <1>13 DEF Bill!ToldIsBounded, Given

-----------------------------------------------------------------------------
(* The stages of the two calls of the harness (harness.py:135-565).         *)
StageNames == {"classification", "routing", "cti", "expert", "generation", "voting", "review",
               "verification", "answer", "threat", "swap", "restore", "chain", "finding", "retry"}

(* What is left of a call's plan, told by its length: the end of the plan,  *)
(* or that with the verification replaced by a retry.                       *)
EndOf(todo, plan, length, verification) ==
    /\ todo \in Seq(StageNames) /\ Len(todo) <= length
    /\ \A i \in 1..Len(todo) :
          \/ todo[i] = plan[length - Len(todo) + i]
          \/ i = 1 /\ Len(todo) = verification /\ todo[i] = "retry"

OnPlan(todo, mode) ==
    \/ mode = "" /\ todo = <<>>
    \/ mode = "supervised" /\ EndOf(todo, Modes!Supervised, 9, 2)
    \/ mode = "modelled" /\ EndOf(todo, Modes!Modelled, 10, 5)

(* The plans are sequences of stages.                                       *)
LEMMA NineSeq ==
    ASSUME NEW S, NEW a \in S, NEW b \in S, NEW c \in S, NEW d \in S, NEW e \in S,
           NEW f \in S, NEW g \in S, NEW h \in S, NEW i \in S
    PROVE  <<a, b, c, d, e, f, g, h, i>> \in Seq(S)
OBVIOUS

LEMMA TenSeq ==
    ASSUME NEW S, NEW a \in S, NEW b \in S, NEW c \in S, NEW d \in S, NEW e \in S,
           NEW f \in S, NEW g \in S, NEW h \in S, NEW i \in S, NEW j \in S
    PROVE  <<a, b, c, d, e, f, g, h, i, j>> \in Seq(S)
OBVIOUS

(* What is at each place of the two plans.                                  *)
LEMMA Plans ==
    /\ Modes!Supervised \in Seq(StageNames) /\ Len(Modes!Supervised) = 9
    /\ Modes!Supervised[1] = "classification" /\ Modes!Supervised[2] = "routing"
    /\ Modes!Supervised[3] = "cti" /\ Modes!Supervised[4] = "expert"
    /\ Modes!Supervised[5] = "generation" /\ Modes!Supervised[6] = "voting"
    /\ Modes!Supervised[7] = "review" /\ Modes!Supervised[8] = "verification"
    /\ Modes!Supervised[9] = "answer"
    /\ Modes!Modelled \in Seq(StageNames) /\ Len(Modes!Modelled) = 10
    /\ Modes!Modelled[1] = "classification" /\ Modes!Modelled[2] = "threat"
    /\ Modes!Modelled[3] = "cti" /\ Modes!Modelled[4] = "generation"
    /\ Modes!Modelled[5] = "swap" /\ Modes!Modelled[6] = "verification"
    /\ Modes!Modelled[7] = "restore" /\ Modes!Modelled[8] = "answer"
    /\ Modes!Modelled[9] = "chain" /\ Modes!Modelled[10] = "finding"
<1>1. Modes!Supervised \in Seq(StageNames)
  BY NineSeq DEF Modes!Supervised, StageNames
<1>2. Modes!Modelled \in Seq(StageNames)
  BY TenSeq DEF Modes!Modelled, StageNames
<1>3. /\ Len(Modes!Supervised) = 9
      /\ Modes!Supervised[1] = "classification" /\ Modes!Supervised[2] = "routing"
      /\ Modes!Supervised[3] = "cti" /\ Modes!Supervised[4] = "expert"
      /\ Modes!Supervised[5] = "generation" /\ Modes!Supervised[6] = "voting"
      /\ Modes!Supervised[7] = "review" /\ Modes!Supervised[8] = "verification"
      /\ Modes!Supervised[9] = "answer"
  BY DEF Modes!Supervised
<1>4. /\ Len(Modes!Modelled) = 10
      /\ Modes!Modelled[1] = "classification" /\ Modes!Modelled[2] = "threat"
      /\ Modes!Modelled[3] = "cti" /\ Modes!Modelled[4] = "generation"
      /\ Modes!Modelled[5] = "swap" /\ Modes!Modelled[6] = "verification"
      /\ Modes!Modelled[7] = "restore" /\ Modes!Modelled[8] = "answer"
      /\ Modes!Modelled[9] = "chain" /\ Modes!Modelled[10] = "finding"
  BY DEF Modes!Modelled
<1> QED BY <1>1, <1>2, <1>3, <1>4

(* A call begins with a whole plan.                                         *)
LEMMA PlansBegin ==
    OnPlan(Modes!Supervised, "supervised") /\ OnPlan(Modes!Modelled, "modelled")
<1>1. EndOf(Modes!Supervised, Modes!Supervised, 9, 2)
  BY Plans DEF EndOf
<1>2. EndOf(Modes!Modelled, Modes!Modelled, 10, 5)
  BY Plans DEF EndOf
<1> QED BY <1>1, <1>2 DEF OnPlan

(* A stage done, what is left is again the end of the plan.                 *)
LEMMA EndOfTail ==
    ASSUME NEW todo, NEW plan, NEW length \in Nat, NEW v \in Nat,
           EndOf(todo, plan, length, v), todo # <<>>
    PROVE  /\ EndOf(Tail(todo), plan, length, v)
           /\ Len(Tail(todo)) = Len(todo) - 1 /\ Len(todo) \in Nat \ {0}
<1>1. todo \in Seq(StageNames)
  BY DEF EndOf
<1>2. /\ Tail(todo) \in Seq(StageNames) /\ Len(Tail(todo)) = Len(todo) - 1
      /\ \A i \in 1..Len(Tail(todo)) : Tail(todo)[i] = todo[i + 1]
  BY <1>1, HeadTailProperties
<1>3. Len(todo) \in Nat \ {0}
  BY <1>1, EmptySeq, LenProperties
<1>4. ASSUME NEW i \in 1..Len(Tail(todo))
      PROVE  Tail(todo)[i] = plan[length - Len(Tail(todo)) + i]
  <2>1. i + 1 \in 1..Len(todo) /\ i + 1 # 1
        /\ length - Len(Tail(todo)) + i = length - Len(todo) + (i + 1)
    BY <1>2, <1>3
  <2>2. todo[i + 1] = plan[length - Len(todo) + (i + 1)]
    BY <2>1 DEF EndOf
  <2> QED BY <1>2, <2>1, <2>2
<1>5. Len(Tail(todo)) <= length
  <2>1. Len(todo) <= length
    BY DEF EndOf
  <2> QED BY <1>2, <1>3, <2>1
<1> QED BY <1>2, <1>3, <1>4, <1>5 DEF EndOf

LEMMA PlanTail ==
    ASSUME NEW todo, NEW mode, OnPlan(todo, mode), todo # <<>>
    PROVE  /\ OnPlan(Tail(todo), mode)
           /\ Len(Tail(todo)) = Len(todo) - 1 /\ Len(todo) \in Nat \ {0}
<1>1. CASE mode = "supervised" /\ EndOf(todo, Modes!Supervised, 9, 2)
  BY <1>1, EndOfTail DEF OnPlan
<1>2. CASE mode = "modelled" /\ EndOf(todo, Modes!Modelled, 10, 5)
  BY <1>2, EndOfTail DEF OnPlan
<1> QED BY <1>1, <1>2 DEF OnPlan

(* The stage a call is at, by the length of what is left.                   *)
LEMMA EndOfHead ==
    ASSUME NEW todo, NEW plan, NEW length \in Nat, NEW v \in Nat,
           EndOf(todo, plan, length, v), todo # <<>>
    PROVE  /\ Len(todo) \in 1..length
           /\ \/ Head(todo) = plan[length - Len(todo) + 1]
              \/ Len(todo) = v /\ Head(todo) = "retry"
<1>1. todo \in Seq(StageNames) /\ Head(todo) = todo[1]
  BY DEF EndOf
<1>2. Len(todo) \in Nat \ {0}
  BY <1>1, EmptySeq, LenProperties
<1> QED BY <1>1, <1>2 DEF EndOf

(* Which stages a call can be at, by what is left of it.                    *)
LEMMA SupervisedStage ==
    ASSUME NEW todo, EndOf(todo, Modes!Supervised, 9, 2), todo # <<>>
    PROVE  /\ Len(todo) \in 1..9
           /\ Head(todo) \notin {"swap", "restore"}
           /\ Head(todo) \in {"verification", "retry"} <=> Len(todo) = 2
           /\ Head(todo) \in {"generation", "voting"} => Len(todo) > 2
<1>1. /\ Len(todo) \in 1..9
      /\ \/ Head(todo) = Modes!Supervised[9 - Len(todo) + 1]
         \/ Len(todo) = 2 /\ Head(todo) = "retry"
  BY EndOfHead
<1> DEFINE n == Len(todo)  h == Head(todo)
<1> HIDE DEF n, h
<1>2. n \in 1..9 /\ (h = Modes!Supervised[9 - n + 1] \/ (n = 2 /\ h = "retry"))
  BY <1>1 DEF n, h
<1>3. CASE n = 9
  BY <1>2, <1>3, Plans DEF n, h
<1>4. CASE n = 8
  BY <1>2, <1>4, Plans DEF n, h
<1>5. CASE n = 7
  BY <1>2, <1>5, Plans DEF n, h
<1>6. CASE n = 6
  BY <1>2, <1>6, Plans DEF n, h
<1>7. CASE n = 5
  BY <1>2, <1>7, Plans DEF n, h
<1>8. CASE n = 4
  BY <1>2, <1>8, Plans DEF n, h
<1>9. CASE n = 3
  BY <1>2, <1>9, Plans DEF n, h
<1>10. CASE n = 2
  BY <1>2, <1>10, Plans DEF n, h
<1>11. CASE n = 1
  BY <1>2, <1>11, Plans DEF n, h
<1> QED BY <1>2, <1>3, <1>4, <1>5, <1>6, <1>7, <1>8, <1>9, <1>10, <1>11

LEMMA ModelledStage ==
    ASSUME NEW todo, EndOf(todo, Modes!Modelled, 10, 5), todo # <<>>
    PROVE  /\ Len(todo) \in 1..10
           /\ Head(todo) \notin {"voting", "expert"}
           /\ Head(todo) = "swap" <=> Len(todo) = 6
           /\ Head(todo) \in {"verification", "retry"} <=> Len(todo) = 5
           /\ Head(todo) = "restore" <=> Len(todo) = 4
           /\ Head(todo) = "generation" <=> Len(todo) = 7
<1>1. /\ Len(todo) \in 1..10
      /\ \/ Head(todo) = Modes!Modelled[10 - Len(todo) + 1]
         \/ Len(todo) = 5 /\ Head(todo) = "retry"
  BY EndOfHead
<1> DEFINE n == Len(todo)  h == Head(todo)
<1> HIDE DEF n, h
<1>2. n \in 1..10 /\ (h = Modes!Modelled[10 - n + 1] \/ (n = 5 /\ h = "retry"))
  BY <1>1 DEF n, h
<1>12. CASE n = 10
  BY <1>2, <1>12, Plans DEF n, h
<1>3. CASE n = 9
  BY <1>2, <1>3, Plans DEF n, h
<1>4. CASE n = 8
  BY <1>2, <1>4, Plans DEF n, h
<1>5. CASE n = 7
  BY <1>2, <1>5, Plans DEF n, h
<1>6. CASE n = 6
  BY <1>2, <1>6, Plans DEF n, h
<1>7. CASE n = 5
  BY <1>2, <1>7, Plans DEF n, h
<1>8. CASE n = 4
  BY <1>2, <1>8, Plans DEF n, h
<1>9. CASE n = 3
  BY <1>2, <1>9, Plans DEF n, h
<1>10. CASE n = 2
  BY <1>2, <1>10, Plans DEF n, h
<1>11. CASE n = 1
  BY <1>2, <1>11, Plans DEF n, h
<1> QED BY <1>2, <1>3, <1>4, <1>5, <1>6, <1>7, <1>8, <1>9, <1>10, <1>11, <1>12

(* A call between its swap and the end of its restore.                      *)
Midway(r) == r.mode = "modelled" /\ Len(r.todo) \in {4, 5}

CallOK(r) == DOMAIN r = DOMAIN Modes!Done /\ OnPlan(r.todo, r.mode)

(* What passed is answered, and it is too late to change it.                *)
PassKept(r) ==
    r.passed = "yes" =>
        r.checked = r.response /\ Len(r.todo) <= 4 /\ (r.mode = "supervised" => Len(r.todo) <= 1)

(* Unless replacements overlapped, one call at most is between its swap and *)
(* its restore, holds what the verifier was, and has its own in the place;  *)
(* with no such call the harness's own verifier is there.                   *)
Restores ==
    /\ \A c \in Threads : Midway(caller[c]) =>
          caller[c].original \in {"own", "none"} /\ (caller[c].brought # "none" => verifier = c)
    /\ \A c, d \in Threads : Midway(caller[c]) /\ Midway(caller[d]) => c = d
    /\ (\A c \in Threads : ~Midway(caller[c])) => verifier \in {"own", "none"}
    /\ \A c \in Threads : caller[c].mode = "modelled" /\ caller[c].brought # "none" =>
          caller[c].by \in {"", c}

(* The invariant of the harness modes: every call is on its plan and what   *)
(* it passed is what it checked; and until two calls swapped at once, the   *)
(* verifier is the swapper's own only between his swap and his restore.     *)
ModesInv ==
    /\ DOMAIN caller = Threads
    /\ \A c \in Threads : CallOK(caller[c]) /\ PassKept(caller[c])
    /\ swapped \/ Restores

(* The invariant of the harness modes, at the start.                        *)
LEMMA ModesStarts == Modes!Init => ModesInv
<1> SUFFICES ASSUME Modes!Init PROVE ModesInv
  OBVIOUS
<1>1. DOMAIN caller = Threads /\ \A c \in Threads : caller[c] = Modes!Done
  BY DEF Modes!Init
<1>2. CallOK(Modes!Done) /\ PassKept(Modes!Done) /\ ~Midway(Modes!Done)
  BY DEF Modes!Done, CallOK, OnPlan, PassKept, Midway
<1>3. Modes!Done.mode # "modelled"
  BY DEF Modes!Done
<1>4. verifier \in {"own", "none"}
  BY DEF Modes!Init
<1>5. Restores
  BY <1>1, <1>2, <1>3, <1>4 DEF Restores
<1> QED BY <1>1, <1>2, <1>5 DEF ModesInv

(* The fields of a call whose plan alone has changed.                       *)
LEMMA DoneHas ==
    ASSUME NEW r, DOMAIN r = DOMAIN Modes!Done, NEW v
    PROVE  /\ DOMAIN [r EXCEPT !.todo = v] = DOMAIN Modes!Done
           /\ [r EXCEPT !.todo = v].todo = v
           /\ [r EXCEPT !.todo = v].mode = r.mode /\ [r EXCEPT !.todo = v].brought = r.brought
           /\ [r EXCEPT !.todo = v].by = r.by /\ [r EXCEPT !.todo = v].original = r.original
           /\ [r EXCEPT !.todo = v].passed = r.passed /\ [r EXCEPT !.todo = v].checked = r.checked
           /\ [r EXCEPT !.todo = v].response = r.response
BY DEF Modes!Done

(* Where a call stands.                                                     *)
LEMMA StageIs ==
    ASSUME NEW c \in Threads, CallOK(caller[c])
    PROVE  /\ Modes!Stage(c) = "out" <=> caller[c].todo = <<>>
           /\ caller[c].todo # <<>> => Modes!Stage(c) = Head(caller[c].todo)
           /\ Len(caller[c].todo) \in Nat
<1> DEFINE todo == caller[c].todo
<1>1. CASE todo = <<>>
  BY <1>1 DEF Modes!Stage
<1>2. CASE todo # <<>>
  <2>1. Len(todo) \in Nat
    BY <1>2, PlanTail DEF CallOK
  <2>2. todo \in Seq(StageNames)
    BY <1>2 DEF CallOK, OnPlan, EndOf
  <2>3. Head(todo) \in StageNames
    BY <1>2, <2>2, HeadTailProperties
  <2> QED BY <1>2, <2>1, <2>3 DEF Modes!Stage, StageNames
<1> QED BY <1>1, <1>2

(* A step that changes neither the verifier nor who is between his swap and *)
(* his restore.                                                             *)
LEMMA QuietStep ==
    ASSUME ModesInv, NEW c \in Threads, NEW r,
           caller' = [caller EXCEPT ![c] = r], UNCHANGED <<verifier, swapped>>,
           CallOK(r), PassKept(r), Midway(r) <=> Midway(caller[c]),
           Midway(r) => r.brought = caller[c].brought /\ r.original = caller[c].original,
           swapped \/ (r.mode = "modelled" /\ r.brought # "none" => r.by \in {"", c})
    PROVE  ModesInv'
<1>1. DOMAIN caller' = Threads /\ \A d \in Threads : caller'[d] = IF d = c THEN r ELSE caller[d]
  BY DEF ModesInv
<1>2. \A d \in Threads : CallOK(caller'[d]) /\ PassKept(caller'[d])
  BY <1>1 DEF ModesInv
<1>3. \A d \in Threads : Midway(caller'[d]) <=> Midway(caller[d])
  BY <1>1
<1>4. \A d \in Threads : Midway(caller[d]) =>
         caller'[d].brought = caller[d].brought /\ caller'[d].original = caller[d].original
  BY <1>1
<1>5. ASSUME Restores, ~swapped PROVE Restores'
  <2>1. \A d \in Threads : Midway(caller'[d]) =>
           caller'[d].original \in {"own", "none"} /\ (caller'[d].brought # "none" => verifier' = d)
    <3>1. ASSUME NEW d \in Threads, Midway(caller'[d])
          PROVE  caller[d].original \in {"own", "none"} /\ (caller[d].brought # "none" => verifier = d)
      BY <1>3, <1>5, <3>1 DEF Restores
    <3> HIDE DEF Restores
    <3> QED BY <1>3, <1>4, <3>1
  <2>2. \A d, e \in Threads : Midway(caller'[d]) /\ Midway(caller'[e]) => d = e
    BY <1>3, <1>5 DEF Restores
  <2>3. (\A d \in Threads : ~Midway(caller'[d])) => verifier' \in {"own", "none"}
    BY <1>3, <1>5 DEF Restores
  <2>4. \A d \in Threads : caller'[d].mode = "modelled" /\ caller'[d].brought # "none" =>
           caller'[d].by \in {"", d}
    BY <1>1, <1>5 DEF Restores
  <2> QED BY <2>1, <2>2, <2>3, <2>4 DEF Restores
<1> QED BY <1>1, <1>2, <1>5 DEF ModesInv

(* A stage done that is neither the verification nor the swap.              *)
LEMMA QuietAdvance ==
    ASSUME ModesInv, NEW c \in Threads, NEW s,
           Modes!Advance(c, s), UNCHANGED <<verifier, swapped>>,
           Modes!Stage(c) \notin {"out", "swap", "verification", "retry", "restore"},
           DOMAIN s = DOMAIN Modes!Done, s.todo = caller[c].todo, s.mode = caller[c].mode,
           s.brought = caller[c].brought, s.by = caller[c].by, s.original = caller[c].original,
           s.passed = caller[c].passed, s.checked = caller[c].checked,
           s.response = caller[c].response \/ Modes!Stage(c) \in {"generation", "voting"}
    PROVE  ModesInv'
<1> DEFINE todo == caller[c].todo  r == [s EXCEPT !.todo = Tail(s.todo)]
<1>1. CallOK(caller[c]) /\ PassKept(caller[c])
  BY DEF ModesInv
<1>2. todo # <<>> /\ Modes!Stage(c) = Head(todo) /\ OnPlan(todo, caller[c].mode)
  BY <1>1, StageIs DEF CallOK
<1>3. OnPlan(Tail(todo), caller[c].mode) /\ Len(Tail(todo)) = Len(todo) - 1 /\ Len(todo) \in Nat \ {0}
  BY <1>2, PlanTail
<1>4. /\ DOMAIN r = DOMAIN Modes!Done /\ r.todo = Tail(todo) /\ r.mode = caller[c].mode
      /\ r.brought = caller[c].brought /\ r.by = caller[c].by /\ r.original = caller[c].original
      /\ r.passed = caller[c].passed /\ r.checked = caller[c].checked /\ r.response = s.response
  BY DoneHas
<1>5. caller' = [caller EXCEPT ![c] = r]
  BY DEF Modes!Advance
<1> HIDE DEF r
<1>6. /\ caller[c].mode = "modelled" => Len(todo) \notin {4, 5, 6}
      /\ s.response = caller[c].response \/ Len(todo) > 4 \/ (caller[c].mode = "supervised" /\ Len(todo) > 2)
  <2>1. CASE caller[c].mode = "modelled"
    <3>1. EndOf(todo, Modes!Modelled, 10, 5)
      BY <1>2, <2>1 DEF OnPlan
    <3>2. /\ Head(todo) = "swap" <=> Len(todo) = 6
          /\ Head(todo) \in {"verification", "retry"} <=> Len(todo) = 5
          /\ Head(todo) = "restore" <=> Len(todo) = 4
          /\ Head(todo) = "generation" <=> Len(todo) = 7
          /\ Head(todo) # "voting"
      BY <1>2, <3>1, ModelledStage
    <3>3. Len(todo) \notin {4, 5, 6}
      BY <1>2, <3>2
    <3>4. s.response = caller[c].response \/ Len(todo) = 7
      BY <1>2, <3>2
    <3>5. Len(todo) = 7 => Len(todo) > 4
      OBVIOUS
    <3> HIDE DEF todo
    <3> QED BY ONLY <3>3, <3>4, <3>5
  <2>2. CASE caller[c].mode = "supervised"
    BY <1>2, <2>2, SupervisedStage DEF OnPlan
  <2> QED BY <1>2, <2>1, <2>2 DEF OnPlan
<1>7. CallOK(r) /\ (Midway(r) <=> Midway(caller[c]))
  BY <1>3, <1>4, <1>6 DEF CallOK, Midway
<1>8. PassKept(r)
  BY <1>1, <1>3, <1>4, <1>6 DEF PassKept
<1>9. swapped \/ (r.mode = "modelled" /\ r.brought # "none" => r.by \in {"", c})
  BY <1>4 DEF ModesInv, Restores
<1> QED BY <1>4, <1>5, <1>7, <1>8, <1>9, QuietStep


(* The stages that look up, route, review, generate and conclude.           *)
LEMMA PlainKept ==
    ASSUME ModesInv, NEW c \in Threads,
           \/ Modes!Lookup(c) \/ Modes!Routing(c) \/ Modes!EnhancedReview(c)
           \/ Modes!Generation(c) \/ Modes!Conclude(c)
    PROVE  ModesInv'
<1>0. DOMAIN caller[c] = DOMAIN Modes!Done
  BY DEF ModesInv, CallOK
<1>1. ASSUME Modes!Lookup(c) \/ Modes!EnhancedReview(c) \/ Modes!Conclude(c)
      PROVE  ModesInv'
  <2>1. /\ Modes!Advance(c, caller[c]) /\ UNCHANGED <<verifier, swapped>>
        /\ Modes!Stage(c) \in {"classification", "cti", "threat", "review", "answer", "chain", "finding"}
    BY <1>1 DEF Modes!Lookup, Modes!EnhancedReview, Modes!Conclude, Modes!On
  <2> QED BY <1>0, <2>1, QuietAdvance
<1>2. CASE Modes!Routing(c)
  <2>1. Modes!Stage(c) = "routing" /\ UNCHANGED <<verifier, swapped>>
    BY <1>2 DEF Modes!Routing, Modes!On
  <2>2. CASE Modes!Advance(c, caller[c])
    BY <1>0, <2>1, <2>2, QuietAdvance
  <2>3. ASSUME NEW v, Modes!Advance(c, [caller[c] EXCEPT !.decision = v])
        PROVE  ModesInv'
    <3> DEFINE s == [caller[c] EXCEPT !.decision = v]
    <3>1. /\ DOMAIN s = DOMAIN Modes!Done /\ s.todo = caller[c].todo /\ s.mode = caller[c].mode
          /\ s.brought = caller[c].brought /\ s.by = caller[c].by /\ s.original = caller[c].original
          /\ s.passed = caller[c].passed /\ s.checked = caller[c].checked /\ s.response = caller[c].response
      BY <1>0 DEF Modes!Done
    <3>2. Modes!Advance(c, s)
      BY <2>3
    <3> HIDE DEF s
    <3> QED BY <2>1, <3>1, <3>2, QuietAdvance
  <2> QED BY <1>2, <2>2, <2>3 DEF Modes!Routing
<1>3. CASE Modes!Generation(c)
  <2>1. Modes!Stage(c) = "generation" /\ UNCHANGED <<verifier, swapped>>
    BY <1>3 DEF Modes!Generation, Modes!On
  <2>2. CASE Modes!Advance(c, caller[c])
    BY <1>0, <2>1, <2>2, QuietAdvance
  <2>3. CASE Modes!Advance(c, [caller[c] EXCEPT !.response = 1, !.made = 1])
    <3> DEFINE s == [caller[c] EXCEPT !.response = 1, !.made = 1]
    <3>1. /\ DOMAIN s = DOMAIN Modes!Done /\ s.todo = caller[c].todo /\ s.mode = caller[c].mode
          /\ s.brought = caller[c].brought /\ s.by = caller[c].by /\ s.original = caller[c].original
          /\ s.passed = caller[c].passed /\ s.checked = caller[c].checked
      BY <1>0 DEF Modes!Done
    <3>2. Modes!Advance(c, s)
      BY <2>3
    <3> HIDE DEF s
    <3> QED BY <2>1, <3>1, <3>2, QuietAdvance
  <2> QED BY <1>3, <2>2, <2>3 DEF Modes!Generation
<1> QED BY <1>1, <1>2, <1>3

(* The vote, which may replace the response before it is verified.          *)
LEMMA VotingKept ==
    ASSUME ModesInv, NEW c \in Threads, Modes!Voting(c)
    PROVE  ModesInv'
<1>0. DOMAIN caller[c] = DOMAIN Modes!Done
  BY DEF ModesInv, CallOK
<1>1. Modes!Stage(c) = "voting" /\ UNCHANGED <<verifier, swapped>>
  BY DEF Modes!Voting, Modes!On
<1>2. CASE Modes!Advance(c, caller[c])
  BY <1>0, <1>1, <1>2, QuietAdvance
<1>3. ASSUME NEW v, NEW w, Modes!Advance(c, [caller[c] EXCEPT !.response = v, !.made = w])
      PROVE  ModesInv'
  <2> DEFINE s == [caller[c] EXCEPT !.response = v, !.made = w]
  <2>1. /\ DOMAIN s = DOMAIN Modes!Done /\ s.todo = caller[c].todo /\ s.mode = caller[c].mode
        /\ s.brought = caller[c].brought /\ s.by = caller[c].by /\ s.original = caller[c].original
        /\ s.passed = caller[c].passed /\ s.checked = caller[c].checked
    BY <1>0 DEF Modes!Done
  <2>2. Modes!Advance(c, s)
    BY <1>3
  <2> HIDE DEF s
  <2> QED BY <1>1, <2>1, <2>2, QuietAdvance
<1>4. ASSUME NEW v, NEW w, Modes!Advance(c, [caller[c] EXCEPT !.response = v, !.vetoed = w])
      PROVE  ModesInv'
  <2> DEFINE s == [caller[c] EXCEPT !.response = v, !.vetoed = w]
  <2>1. /\ DOMAIN s = DOMAIN Modes!Done /\ s.todo = caller[c].todo /\ s.mode = caller[c].mode
        /\ s.brought = caller[c].brought /\ s.by = caller[c].by /\ s.original = caller[c].original
        /\ s.passed = caller[c].passed /\ s.checked = caller[c].checked
    BY <1>0 DEF Modes!Done
  <2>2. Modes!Advance(c, s)
    BY <1>4
  <2> HIDE DEF s
  <2> QED BY <1>1, <2>1, <2>2, QuietAdvance
<1>5. \/ Modes!Advance(c, caller[c])
      \/ \E v, w : Modes!Advance(c, [caller[c] EXCEPT !.response = v, !.made = w])
      \/ \E v, w : Modes!Advance(c, [caller[c] EXCEPT !.response = v, !.vetoed = w])
  BY DEF Modes!Voting
<1> QED BY <1>2, <1>3, <1>4, <1>5

(* The expert's opinion.                                                    *)
LEMMA ExpertKept ==
    ASSUME ModesInv, NEW c \in Threads, Modes!Expert(c)
    PROVE  ModesInv'
<1>0. DOMAIN caller[c] = DOMAIN Modes!Done /\ CallOK(caller[c]) /\ PassKept(caller[c])
  BY DEF ModesInv, CallOK
<1>1. Modes!Stage(c) = "expert" /\ UNCHANGED <<verifier, swapped>>
  BY DEF Modes!Expert, Modes!On
<1>2. CASE Modes!Advance(c, caller[c])
  BY <1>0, <1>1, <1>2, QuietAdvance
<1>3. ASSUME NEW v, Modes!Advance(c, [caller[c] EXCEPT !.expert = v])
      PROVE  ModesInv'
  <2> DEFINE s == [caller[c] EXCEPT !.expert = v]
  <2>1. /\ DOMAIN s = DOMAIN Modes!Done /\ s.todo = caller[c].todo /\ s.mode = caller[c].mode
        /\ s.brought = caller[c].brought /\ s.by = caller[c].by /\ s.original = caller[c].original
        /\ s.passed = caller[c].passed /\ s.checked = caller[c].checked /\ s.response = caller[c].response
    BY <1>0 DEF Modes!Done
  <2>2. Modes!Advance(c, s)
    BY <1>3
  <2> HIDE DEF s
  <2> QED BY <1>1, <2>1, <2>2, QuietAdvance
<1>4. CASE Modes!GiveUp(c)
  <2> DEFINE r == [caller[c] EXCEPT !.todo = <<>>, !.error = TRUE]
  <2>1. /\ DOMAIN r = DOMAIN Modes!Done /\ r.todo = <<>> /\ r.mode = caller[c].mode
        /\ r.brought = caller[c].brought /\ r.by = caller[c].by /\ r.original = caller[c].original
        /\ r.passed = caller[c].passed /\ r.checked = caller[c].checked /\ r.response = caller[c].response
    BY <1>0 DEF Modes!Done
  <2>2. caller' = [caller EXCEPT ![c] = r]
    BY <1>4 DEF Modes!GiveUp
  <2> HIDE DEF r
  <2>3. caller[c].mode = "supervised"
    <3>1. caller[c].todo # <<>> /\ Head(caller[c].todo) = "expert"
      BY <1>0, <1>1, StageIs
    <3> QED BY <1>0, <3>1, ModelledStage DEF CallOK, OnPlan
  <2>4. Len(<<>>) = 0 /\ EndOf(<<>>, Modes!Supervised, 9, 2)
    BY EmptySeq DEF EndOf
  <2>5. CallOK(r) /\ ~Midway(r) /\ ~Midway(caller[c])
    BY <2>1, <2>3, <2>4 DEF CallOK, OnPlan, Midway
  <2>6. PassKept(r)
    BY <1>0, <2>1, <2>4 DEF PassKept
  <2> QED BY <1>1, <2>1, <2>2, <2>3, <2>5, <2>6, QuietStep
<1>5. \/ Modes!Advance(c, caller[c]) \/ Modes!GiveUp(c)
      \/ \E v : Modes!Advance(c, [caller[c] EXCEPT !.expert = v])
  BY DEF Modes!Expert
<1> QED BY <1>2, <1>3, <1>4, <1>5

(* A call of either kind begins.                                            *)
LEMMA BeginKept ==
    ASSUME ModesInv, NEW c \in Threads, NEW mode \in {"supervised", "modelled"}, Modes!Begin(c, mode)
    PROVE  ModesInv'
<1>1. PICK v : caller' = [caller EXCEPT ![c] = [Modes!Done EXCEPT !.mode = mode, !.brought = v,
                             !.todo = IF mode = "supervised" THEN Modes!Supervised ELSE Modes!Modelled]]
  BY DEF Modes!Begin
<1> DEFINE r == [Modes!Done EXCEPT !.mode = mode, !.brought = v,
                    !.todo = IF mode = "supervised" THEN Modes!Supervised ELSE Modes!Modelled]
<1>2. /\ DOMAIN r = DOMAIN Modes!Done /\ r.mode = mode /\ r.by = "" /\ r.passed = "unset"
      /\ r.todo = IF mode = "supervised" THEN Modes!Supervised ELSE Modes!Modelled
  BY DEF Modes!Done
<1>3. caller' = [caller EXCEPT ![c] = r]
  BY <1>1
<1> HIDE DEF r
<1>4. CallOK(r) /\ PassKept(r) /\ ~Midway(r)
  BY <1>2, PlansBegin, Plans DEF CallOK, PassKept, Midway
<1>5. ~Midway(caller[c])
  <2>1. CallOK(caller[c]) /\ Modes!Stage(c) = "out"
    BY DEF ModesInv, Modes!Begin, Modes!On
  <2>2. caller[c].todo = <<>> /\ Len(<<>>) = 0
    BY <2>1, StageIs, EmptySeq
  <2> QED BY <2>2 DEF Midway
<1>6. UNCHANGED <<verifier, swapped>>
  BY DEF Modes!Begin
<1> QED BY <1>2, <1>3, <1>4, <1>5, <1>6, QuietStep

(* At its verification, or the retry in its place, a call has not passed.   *)
LEMMA BeingJudged ==
    ASSUME ModesInv, NEW c \in Threads, Modes!Stage(c) \in {"verification", "retry"}
    PROVE  /\ caller[c].todo # <<>> /\ OnPlan(caller[c].todo, caller[c].mode)
           /\ Modes!Stage(c) = Head(caller[c].todo)
           /\ \/ caller[c].mode = "modelled" /\ Len(caller[c].todo) = 5
              \/ caller[c].mode = "supervised" /\ Len(caller[c].todo) = 2
           /\ caller[c].passed # "yes"
<1> DEFINE todo == caller[c].todo  mode == caller[c].mode
<1>1. CallOK(caller[c]) /\ PassKept(caller[c])
  BY DEF ModesInv
<1>2. todo # <<>> /\ OnPlan(todo, mode) /\ Modes!Stage(c) = Head(todo)
  BY <1>1, StageIs DEF CallOK
<1>3. (mode = "modelled" /\ Len(todo) = 5) \/ (mode = "supervised" /\ Len(todo) = 2)
  <2>1. CASE mode = "modelled" /\ EndOf(todo, Modes!Modelled, 10, 5)
    BY <1>2, <2>1, ModelledStage
  <2>2. CASE mode = "supervised" /\ EndOf(todo, Modes!Supervised, 9, 2)
    BY <1>2, <2>2, SupervisedStage
  <2> QED BY <1>2, <2>1, <2>2 DEF OnPlan
<1>4. caller[c].passed # "yes"
  <2>1. caller[c].passed = "yes" => Len(todo) <= 4 /\ (mode = "supervised" => Len(todo) <= 1)
    BY <1>1 DEF PassKept
  <2> HIDE DEF todo, mode
  <2> QED BY ONLY <1>3, <2>1
<1> QED BY <1>2, <1>3, <1>4

(* A step of the verification or of a retry: a call that passes has         *)
(* checked its response and goes on.                                        *)
LEMMA JudgeStep ==
    ASSUME ModesInv, NEW c \in Threads, NEW r,
           caller' = [caller EXCEPT ![c] = r], UNCHANGED <<verifier, swapped>>,
           Modes!Stage(c) \in {"verification", "retry"},
           DOMAIN r = DOMAIN Modes!Done, OnPlan(r.todo, r.mode),
           r.mode = caller[c].mode, r.brought = caller[c].brought, r.original = caller[c].original,
           Len(r.todo) \in {Len(caller[c].todo), Len(caller[c].todo) - 1},
           r.by = caller[c].by \/ r.by = verifier,
           r.passed = "yes" => r.checked = r.response /\ Len(r.todo) = Len(caller[c].todo) - 1
    PROVE  ModesInv'
<1>1. \/ caller[c].mode = "modelled" /\ Len(caller[c].todo) = 5
      \/ caller[c].mode = "supervised" /\ Len(caller[c].todo) = 2
  BY BeingJudged
<1>2. CallOK(r)
  BY DEF CallOK
<1> DEFINE n == Len(caller[c].todo)  m == Len(r.todo)
<1>0. (r.mode = "modelled" /\ n = 5 /\ m \in {5, 4}) \/ (r.mode = "supervised" /\ n = 2 /\ m \in {2, 1})
  <2>1. m \in {n, n - 1} /\ r.mode = caller[c].mode
    OBVIOUS
  <2>2. (r.mode = "modelled" /\ n = 5) \/ (r.mode = "supervised" /\ n = 2)
    BY <1>1
  <2> HIDE DEF n, m
  <2> QED BY ONLY <2>1, <2>2
<1>3. Midway(r) <=> Midway(caller[c])
  <2>1. /\ Midway(r) <=> (r.mode = "modelled" /\ m \in {4, 5})
        /\ Midway(caller[c]) <=> (r.mode = "modelled" /\ n \in {4, 5})
    BY DEF Midway
  <2> HIDE DEF n, m
  <2> QED BY ONLY <1>0, <2>1
<1>4. PassKept(r)
  <2>1. r.passed = "yes" => r.checked = r.response /\ m = n - 1
    OBVIOUS
  <2>2. PassKept(r) <=> (r.passed = "yes" =>
            r.checked = r.response /\ m <= 4 /\ (r.mode = "supervised" => m <= 1))
    BY DEF PassKept
  <2> HIDE DEF n, m
  <2>3. n - 1 = m => m <= 4 /\ (r.mode = "supervised" => m <= 1)
    BY ONLY <1>0
  <2> QED BY <2>1, <2>2, <2>3
<1>5. swapped \/ (r.mode = "modelled" /\ r.brought # "none" => r.by \in {"", c})
  <2>1. caller[c].mode = "modelled" => Midway(caller[c])
    BY <1>1 DEF Midway
  <2> QED BY <2>1 DEF ModesInv, Restores
<1> QED BY <1>2, <1>3, <1>4, <1>5, QuietStep

(* A retry takes the place of the verification.                             *)
LEMMA RetryPlan ==
    ASSUME NEW todo, NEW mode, OnPlan(todo, mode), todo # <<>>, Head(todo) = "verification"
    PROVE  /\ OnPlan(<<"retry">> \o Tail(todo), mode)
           /\ Len(<<"retry">> \o Tail(todo)) = Len(todo)
<1> DEFINE t == <<"retry">> \o Tail(todo)
<1>1. ASSUME NEW plan, NEW length \in Nat, NEW v \in Nat, EndOf(todo, plan, length, v), Len(todo) = v
      PROVE  EndOf(t, plan, length, v) /\ Len(t) = Len(todo)
  <2>1. /\ EndOf(Tail(todo), plan, length, v)
        /\ Len(Tail(todo)) = Len(todo) - 1 /\ Len(todo) \in Nat \ {0}
    BY <1>1, EndOfTail
  <2>2. todo \in Seq(StageNames) /\ Tail(todo) \in Seq(StageNames) /\ <<"retry">> \in Seq(StageNames)
        /\ Len(todo) <= length
    BY <1>1, <2>1 DEF EndOf, StageNames
  <2>3. \A i \in 1..Len(Tail(todo)) : Tail(todo)[i] = todo[i + 1]
    BY <2>2, HeadTailProperties
  <2>4. /\ t \in Seq(StageNames) /\ Len(t) = 1 + Len(Tail(todo))
        /\ \A i \in 1..(1 + Len(Tail(todo))) :
              t[i] = IF i <= 1 THEN <<"retry">>[i] ELSE Tail(todo)[i - 1]
    <3>1. Len(<<"retry">>) = 1
      OBVIOUS
    <3> QED BY <2>2, <3>1, ConcatProperties
  <2> HIDE DEF t
  <2>5. Len(t) = Len(todo) /\ t[1] = "retry"
    BY <2>1, <2>4
  <2>6. ASSUME NEW i \in 2..Len(t)
        PROVE  t[i] = plan[length - Len(t) + i]
    <3>1. i - 1 \in 1..Len(Tail(todo)) /\ (i - 1) + 1 = i /\ i \in 1..Len(todo) /\ i # 1 /\ ~(i <= 1)
          /\ i \in 1..(1 + Len(Tail(todo)))
      BY <2>1, <2>5
    <3>2. t[i] = todo[i]
      BY <2>3, <2>4, <3>1
    <3> QED BY <1>1, <2>5, <3>1, <3>2 DEF EndOf
  <2>7. \A i \in 1..Len(t) : i = 1 \/ i \in 2..Len(t)
    BY <2>1, <2>5
  <2> QED BY <1>1, <2>2, <2>4, <2>5, <2>6, <2>7 DEF EndOf
<1>2. CASE mode = "supervised" /\ EndOf(todo, Modes!Supervised, 9, 2)
  BY <1>1, <1>2, SupervisedStage DEF OnPlan
<1>3. CASE mode = "modelled" /\ EndOf(todo, Modes!Modelled, 10, 5)
  BY <1>1, <1>3, ModelledStage DEF OnPlan
<1> QED BY <1>2, <1>3 DEF OnPlan

(* The verification of harness.py:253-271.                                  *)
LEMMA VerificationKept ==
    ASSUME ModesInv, NEW c \in Threads, Modes!Verification(c)
    PROVE  ModesInv'
<1> DEFINE todo == caller[c].todo
<1>1. Modes!Stage(c) = "verification" /\ UNCHANGED <<verifier, swapped>>
  BY DEF Modes!Verification, Modes!On
<1>2. /\ todo # <<>> /\ OnPlan(todo, caller[c].mode) /\ Head(todo) = "verification"
      /\ caller[c].passed # "yes" /\ DOMAIN caller[c] = DOMAIN Modes!Done
  BY <1>1, BeingJudged DEF ModesInv, CallOK
<1>3. OnPlan(Tail(todo), caller[c].mode) /\ Len(Tail(todo)) = Len(todo) - 1
  BY <1>2, PlanTail
<1>4. CASE Modes!Advance(c, caller[c])
  <2> DEFINE r == [caller[c] EXCEPT !.todo = Tail(todo)]
  <2>1. caller' = [caller EXCEPT ![c] = r]
    BY <1>4 DEF Modes!Advance
  <2>2. /\ DOMAIN r = DOMAIN Modes!Done /\ r.todo = Tail(todo) /\ r.mode = caller[c].mode
        /\ r.brought = caller[c].brought /\ r.by = caller[c].by /\ r.original = caller[c].original
        /\ r.passed = caller[c].passed
    BY <1>2, DoneHas
  <2> HIDE DEF r
  <2> QED BY <1>1, <1>2, <1>3, <2>1, <2>2, JudgeStep
<1>5. CASE Modes!Advance(c, [caller[c] EXCEPT !.passed = "yes", !.by = verifier, !.checked = caller[c].response])
  <2> DEFINE r == [caller[c] EXCEPT !.passed = "yes", !.by = verifier, !.checked = caller[c].response,
                                    !.todo = Tail(todo)]
  <2>1. caller' = [caller EXCEPT ![c] = r]
    BY <1>2, <1>5 DEF Modes!Advance, Modes!Done
  <2>2. /\ DOMAIN r = DOMAIN Modes!Done /\ r.todo = Tail(todo) /\ r.mode = caller[c].mode
        /\ r.brought = caller[c].brought /\ r.by = verifier /\ r.original = caller[c].original
        /\ r.checked = r.response
    BY <1>2 DEF Modes!Done
  <2> HIDE DEF r
  <2> QED BY <1>1, <1>3, <2>1, <2>2, JudgeStep
<1>6. CASE Modes!Advance(c, [caller[c] EXCEPT !.passed = "raised", !.by = verifier])
  <2> DEFINE r == [caller[c] EXCEPT !.passed = "raised", !.by = verifier, !.todo = Tail(todo)]
  <2>1. caller' = [caller EXCEPT ![c] = r]
    BY <1>2, <1>6 DEF Modes!Advance, Modes!Done
  <2>2. /\ DOMAIN r = DOMAIN Modes!Done /\ r.todo = Tail(todo) /\ r.mode = caller[c].mode
        /\ r.brought = caller[c].brought /\ r.by = verifier /\ r.original = caller[c].original
        /\ r.passed = "raised"
    BY <1>2 DEF Modes!Done
  <2> HIDE DEF r
  <2> QED BY <1>1, <1>3, <2>1, <2>2, JudgeStep
<1>7. ASSUME NEW t \in {Tail(todo), <<"retry">> \o Tail(todo)},
             caller' = [caller EXCEPT ![c] = [caller[c] EXCEPT !.passed = "no", !.by = verifier, !.todo = t]]
      PROVE  ModesInv'
  <2> DEFINE r == [caller[c] EXCEPT !.passed = "no", !.by = verifier, !.todo = t]
  <2>1. /\ DOMAIN r = DOMAIN Modes!Done /\ r.todo = t /\ r.mode = caller[c].mode
        /\ r.brought = caller[c].brought /\ r.by = verifier /\ r.original = caller[c].original
        /\ r.passed = "no"
    BY <1>2 DEF Modes!Done
  <2>2. OnPlan(t, caller[c].mode) /\ Len(t) \in {Len(todo), Len(todo) - 1}
    BY <1>2, <1>3, RetryPlan
  <2>3. caller' = [caller EXCEPT ![c] = r]
    BY <1>7
  <2> HIDE DEF r
  <2> QED BY <1>1, <2>1, <2>2, <2>3, JudgeStep
<1>8. \/ Modes!Advance(c, caller[c])
      \/ Modes!Advance(c, [caller[c] EXCEPT !.passed = "yes", !.by = verifier, !.checked = caller[c].response])
      \/ Modes!Advance(c, [caller[c] EXCEPT !.passed = "raised", !.by = verifier])
      \/ \E t \in {Tail(todo), <<"retry">> \o Tail(todo)} :
            caller' = [caller EXCEPT ![c] = [caller[c] EXCEPT !.passed = "no", !.by = verifier, !.todo = t]]
  BY <1>2 DEF Modes!Verification
<1> QED BY <1>4, <1>5, <1>6, <1>7, <1>8

(* What the model calls replacing is what the invariant calls midway.       *)
LEMMA ReplacingIs ==
    ASSUME NEW c \in Threads, CallOK(caller[c])
    PROVE  Modes!Replacing(c) <=> Midway(caller[c])
<1> DEFINE todo == caller[c].todo
<1>1. CASE todo = <<>>
  <2>1. Len(<<>>) = 0
    BY EmptySeq
  <2>2. Modes!Stage(c) = "out"
    BY <1>1, StageIs
  <2> QED BY <1>1, <2>1, <2>2 DEF Modes!Replacing, Midway
<1>2. CASE todo # <<>> /\ caller[c].mode = "modelled"
  <2>1. EndOf(todo, Modes!Modelled, 10, 5) /\ Modes!Stage(c) = Head(todo)
    BY <1>2, StageIs DEF CallOK, OnPlan
  <2>2. /\ Head(todo) \in {"verification", "retry"} <=> Len(todo) = 5
        /\ Head(todo) = "restore" <=> Len(todo) = 4
    BY <1>2, <2>1, ModelledStage
  <2> QED BY <1>2, <2>1, <2>2 DEF Modes!Replacing, Midway
<1>3. CASE caller[c].mode # "modelled"
  BY <1>3 DEF Modes!Replacing, Midway
<1> QED BY <1>1, <1>2, <1>3

(* One round of the retries of a response that did not pass.                *)
LEMMA RetryKept ==
    ASSUME ModesInv, NEW c \in Threads, Modes!Retry(c)
    PROVE  ModesInv'
<1> DEFINE todo == caller[c].todo
<1>1. Modes!Stage(c) = "retry" /\ UNCHANGED <<verifier, swapped>>
  BY DEF Modes!Retry, Modes!On
<1>2. /\ todo # <<>> /\ OnPlan(todo, caller[c].mode)
      /\ caller[c].passed # "yes" /\ DOMAIN caller[c] = DOMAIN Modes!Done
  BY <1>1, BeingJudged DEF ModesInv, CallOK
<1>3. OnPlan(Tail(todo), caller[c].mode) /\ Len(Tail(todo)) = Len(todo) - 1
  BY <1>2, PlanTail
<1>4. CASE Modes!Advance(c, caller[c])
  <2> DEFINE r == [caller[c] EXCEPT !.todo = Tail(todo)]
  <2>1. caller' = [caller EXCEPT ![c] = r]
    BY <1>4 DEF Modes!Advance
  <2>2. /\ DOMAIN r = DOMAIN Modes!Done /\ r.todo = Tail(todo) /\ r.mode = caller[c].mode
        /\ r.brought = caller[c].brought /\ r.by = caller[c].by /\ r.original = caller[c].original
        /\ r.passed = caller[c].passed
    BY <1>2, DoneHas
  <2> HIDE DEF r
  <2> QED BY <1>1, <1>2, <1>3, <2>1, <2>2, JudgeStep
<1>5. ASSUME NEW v, NEW w,
             Modes!Advance(c, [caller[c] EXCEPT !.response = v, !.made = w, !.vetoed = FALSE])
      PROVE  ModesInv'
  <2> DEFINE r == [caller[c] EXCEPT !.response = v, !.made = w, !.vetoed = FALSE, !.todo = Tail(todo)]
  <2>1. caller' = [caller EXCEPT ![c] = r]
    BY <1>2, <1>5 DEF Modes!Advance, Modes!Done
  <2>2. /\ DOMAIN r = DOMAIN Modes!Done /\ r.todo = Tail(todo) /\ r.mode = caller[c].mode
        /\ r.brought = caller[c].brought /\ r.by = caller[c].by /\ r.original = caller[c].original
        /\ r.passed = caller[c].passed
    BY <1>2 DEF Modes!Done
  <2> HIDE DEF r
  <2> QED BY <1>1, <1>2, <1>3, <2>1, <2>2, JudgeStep
<1>6. ASSUME NEW v, caller' = [caller EXCEPT ![c] = [caller[c] EXCEPT !.tries = v]]
      PROVE  ModesInv'
  <2> DEFINE r == [caller[c] EXCEPT !.tries = v]
  <2>1. /\ DOMAIN r = DOMAIN Modes!Done /\ r.todo = todo /\ r.mode = caller[c].mode
        /\ r.brought = caller[c].brought /\ r.by = caller[c].by /\ r.original = caller[c].original
        /\ r.passed = caller[c].passed
    BY <1>2 DEF Modes!Done
  <2>2. caller' = [caller EXCEPT ![c] = r]
    BY <1>6
  <2> HIDE DEF r
  <2> QED BY <1>1, <1>2, <2>1, <2>2, JudgeStep
<1>7. \/ Modes!Advance(c, caller[c])
      \/ \E v, w : Modes!Advance(c, [caller[c] EXCEPT !.response = v, !.made = w, !.vetoed = FALSE])
      \/ \E v : caller' = [caller EXCEPT ![c] = [caller[c] EXCEPT !.tries = v]]
  <2>1. caller'= [caller EXCEPT ![c].tries = @ + 1] =>
            caller' = [caller EXCEPT ![c] = [caller[c] EXCEPT !.tries = caller[c].tries + 1]]
    OBVIOUS
  <2> QED BY <2>1 DEF Modes!Retry
<1> QED BY <1>4, <1>5, <1>6, <1>7

(* How much is left of the call with the swap after one stage.              *)
LEMMA TailAt ==
    ASSUME NEW t, NEW n \in Nat \ {0}, OnPlan(t, "modelled"), Len(t) = n
    PROVE  OnPlan(Tail(t), "modelled") /\ Len(Tail(t)) = n - 1
<1>1. t # <<>>
  <2>1. Len(<<>>) = 0
    BY EmptySeq
  <2> QED BY <2>1
<1> QED BY <1>1, PlanTail

(* The swap of the verifier (harness.py:556): after a second one during     *)
(* the first, nothing is claimed of the verifier.                           *)
LEMMA SwapKept ==
    ASSUME ModesInv, NEW c \in Threads, Modes!Swap(c)
    PROVE  ModesInv'
<1> DEFINE todo == caller[c].todo
           mine == IF caller[c].brought = "none" THEN verifier ELSE c
<1>1. Modes!Stage(c) = "swap" /\ CallOK(caller[c]) /\ PassKept(caller[c])
  BY DEF ModesInv, Modes!Swap, Modes!On
<1>2. todo # <<>> /\ Head(todo) = "swap" /\ OnPlan(todo, caller[c].mode)
  BY <1>1, StageIs DEF CallOK
<1>3. caller[c].mode = "modelled" /\ Len(todo) = 6 /\ EndOf(todo, Modes!Modelled, 10, 5)
  BY <1>2, SupervisedStage, ModelledStage DEF OnPlan
<1>4. OnPlan(Tail(todo), "modelled") /\ Len(Tail(todo)) = 5
  BY <1>2, <1>3, PlanTail
<1>5. ~Midway(caller[c]) /\ caller[c].passed # "yes" /\ DOMAIN caller[c] = DOMAIN Modes!Done
  BY <1>1, <1>3 DEF Midway, PassKept, CallOK
<1>6. CASE mine = "none" \/ caller[c].response = 0
  <2> DEFINE t == Tail(Tail(Tail(todo)))
  <2>1. OnPlan(t, "modelled") /\ Len(t) = 3
    <3> DEFINE t1 == Tail(todo)  t2 == Tail(t1)
    <3>1. OnPlan(t1, "modelled") /\ Len(t1) = 5
      BY <1>4
    <3> HIDE DEF t1
    <3>4. \A s : OnPlan(s, "modelled") /\ Len(s) \in {4, 5} =>
             OnPlan(Tail(s), "modelled") /\ Len(Tail(s)) = Len(s) - 1
      <4>1. {4, 5} \subseteq Nat \ {0}
        OBVIOUS
      <4> QED BY <4>1, TailAt
    <3>2. OnPlan(t2, "modelled") /\ Len(t2) = 4
      BY <3>1, <3>4
    <3> HIDE DEF t2
    <3>3. OnPlan(Tail(t2), "modelled") /\ Len(Tail(t2)) = 3
      BY <3>2, <3>4
    <3> QED BY <3>3 DEF t1, t2
  <2> DEFINE r == [caller[c] EXCEPT !.todo = t]
  <2>2. caller' = [caller EXCEPT ![c] = r] /\ UNCHANGED <<verifier, swapped>>
    BY <1>6 DEF Modes!Swap
  <2>3. /\ DOMAIN r = DOMAIN Modes!Done /\ r.todo = t /\ r.mode = caller[c].mode
        /\ r.brought = caller[c].brought /\ r.by = caller[c].by /\ r.original = caller[c].original
        /\ r.passed = caller[c].passed
    BY <1>5, DoneHas
  <2> HIDE DEF r, t
  <2>4. CallOK(r) /\ ~Midway(r) /\ PassKept(r)
    BY <1>3, <1>5, <2>1, <2>3 DEF CallOK, Midway, PassKept
  <2>5. swapped \/ (r.mode = "modelled" /\ r.brought # "none" => r.by \in {"", c})
    BY <2>3 DEF ModesInv, Restores
  <2> QED BY <1>5, <2>2, <2>4, <2>5, QuietStep
<1>7. CASE mine # "none" /\ caller[c].response # 0
  <2> DEFINE r == [caller[c] EXCEPT !.original = verifier, !.todo = Tail(todo)]
  <2>1. /\ caller' = [caller EXCEPT ![c] = r] /\ verifier' = mine
        /\ swapped' = (swapped \/ \E d \in Threads \ {c} : Modes!Replacing(d))
    BY <1>5, <1>7 DEF Modes!Swap, Modes!Advance, Modes!Done
  <2>2. /\ DOMAIN r = DOMAIN Modes!Done /\ r.todo = Tail(todo) /\ r.mode = caller[c].mode
        /\ r.brought = caller[c].brought /\ r.by = caller[c].by /\ r.original = verifier
        /\ r.passed = caller[c].passed
    BY <1>5 DEF Modes!Done
  <2> HIDE DEF r
  <2>3. CallOK(r) /\ Midway(r) /\ PassKept(r)
    BY <1>3, <1>4, <1>5, <2>2 DEF CallOK, Midway, PassKept
  <2>4. DOMAIN caller' = Threads /\ \A d \in Threads : caller'[d] = IF d = c THEN r ELSE caller[d]
    BY <2>1 DEF ModesInv
  <2>5. ASSUME ~swapped'
        PROVE  Restores'
    <3>1. Restores /\ \A d \in Threads \ {c} : ~Midway(caller[d])
      BY <2>1, <2>5, ReplacingIs DEF ModesInv
    <3>2. verifier \in {"own", "none"}
      BY <1>5, <3>1 DEF Restores
    <3>3. \A d \in Threads : Midway(caller'[d]) => d = c
      BY <2>4, <3>1
    <3>4. \A d \in Threads : Midway(caller'[d]) =>
             caller'[d].original \in {"own", "none"} /\ (caller'[d].brought # "none" => verifier' = d)
      BY <2>1, <2>2, <2>4, <3>2, <3>3
    <3>5. ~(\A d \in Threads : ~Midway(caller'[d]))
      BY <2>3, <2>4
    <3>6. \A d \in Threads : caller'[d].mode = "modelled" /\ caller'[d].brought # "none" =>
             caller'[d].by \in {"", d}
      BY <2>2, <2>4, <3>1 DEF Restores
    <3> QED BY <3>3, <3>4, <3>5, <3>6 DEF Restores
  <2>6. \A d \in Threads : CallOK(caller'[d]) /\ PassKept(caller'[d])
    BY <2>3, <2>4 DEF ModesInv
  <2> QED BY <2>4, <2>5, <2>6 DEF ModesInv
<1> QED BY <1>6, <1>7

(* The restore in the finally (harness.py:565).                             *)
LEMMA RestoreKept ==
    ASSUME ModesInv, NEW c \in Threads, Modes!Restore(c)
    PROVE  ModesInv'
<1> DEFINE todo == caller[c].todo  r == [caller[c] EXCEPT !.todo = Tail(todo)]
<1>1. Modes!Stage(c) = "restore" /\ CallOK(caller[c]) /\ PassKept(caller[c])
  BY DEF ModesInv, Modes!Restore, Modes!On
<1>2. todo # <<>> /\ Head(todo) = "restore" /\ OnPlan(todo, caller[c].mode)
  BY <1>1, StageIs DEF CallOK
<1>3. caller[c].mode = "modelled" /\ Len(todo) = 4
  BY <1>2, SupervisedStage, ModelledStage DEF OnPlan
<1>4. OnPlan(Tail(todo), "modelled") /\ Len(Tail(todo)) = 3
  BY <1>2, <1>3, PlanTail
<1>5. Midway(caller[c]) /\ DOMAIN caller[c] = DOMAIN Modes!Done
  BY <1>1, <1>3 DEF Midway, CallOK
<1>6. caller' = [caller EXCEPT ![c] = r] /\ verifier' = caller[c].original /\ swapped' = swapped
  BY DEF Modes!Restore, Modes!Advance
<1>7. /\ DOMAIN r = DOMAIN Modes!Done /\ r.todo = Tail(todo) /\ r.mode = caller[c].mode
      /\ r.brought = caller[c].brought /\ r.by = caller[c].by
      /\ r.passed = caller[c].passed /\ r.checked = caller[c].checked /\ r.response = caller[c].response
  BY <1>5, DoneHas
<1> HIDE DEF r
<1>8. CallOK(r) /\ ~Midway(r) /\ PassKept(r)
  <2>0. Len(r.todo) = 3 /\ OnPlan(r.todo, "modelled") /\ r.mode = "modelled"
    BY ONLY <1>3, <1>4, <1>7
  <2>1. CallOK(r)
    BY <1>7, <2>0 DEF CallOK
  <2>2. ~Midway(r)
    BY ONLY <2>0 DEF Midway
  <2>3. r.passed = "yes" => r.checked = r.response
    BY <1>1, <1>7 DEF PassKept
  <2>4. Len(r.todo) <= 4 /\ r.mode # "supervised"
    BY ONLY <2>0
  <2> QED BY <2>1, <2>2, <2>3, <2>4 DEF PassKept
<1>9. DOMAIN caller' = Threads /\ \A d \in Threads : caller'[d] = IF d = c THEN r ELSE caller[d]
  BY <1>6 DEF ModesInv
<1>10. ASSUME Restores
       PROVE  Restores'
  <2>1. \A d \in Threads : ~Midway(caller'[d])
    <3>1. \A d \in Threads : Midway(caller[d]) => d = c
      BY <1>5, <1>10 DEF Restores
    <3> QED BY <1>8, <1>9, <3>1
  <2>2. verifier' \in {"own", "none"}
    BY <1>5, <1>6, <1>10 DEF Restores
  <2>3. \A d \in Threads : caller'[d].mode = "modelled" /\ caller'[d].brought # "none" =>
           caller'[d].by \in {"", d}
    BY <1>7, <1>9, <1>10 DEF Restores
  <2> QED BY <2>1, <2>2, <2>3 DEF Restores
<1>11. \A d \in Threads : CallOK(caller'[d]) /\ PassKept(caller'[d])
  BY <1>8, <1>9 DEF ModesInv
<1> QED BY <1>6, <1>9, <1>10, <1>11 DEF ModesInv

(* A step of the harness modes keeps their invariant.                       *)
LEMMA ModesKept == ModesInv /\ [Modes!Next]_(Modes!vars) => ModesInv'
<1> SUFFICES ASSUME ModesInv, [Modes!Next]_(Modes!vars)
             PROVE  ModesInv'
  OBVIOUS
<1>1. CASE UNCHANGED Modes!vars
  <2>1. caller' = caller /\ verifier' = verifier /\ swapped' = swapped
    BY <1>1 DEF Modes!vars
  <2> QED BY <2>1 DEF ModesInv, Restores
<1> QED BY <1>1, BeginKept, PlainKept, ExpertKept, VotingKept, SwapKept, VerificationKept,
           RetryKept, RestoreKept DEF Modes!Next

(* From the invariant, what is wanted of the two modes.                     *)
LEMMA ModesHold == ModesInv => Modes!PassedIsAnswered /\ Modes!VerifierRestored
<1> SUFFICES ASSUME ModesInv
             PROVE  Modes!PassedIsAnswered /\ Modes!VerifierRestored
  OBVIOUS
<1>1. Modes!PassedIsAnswered
  BY DEF ModesInv, PassKept, Modes!PassedIsAnswered
<1>2. CASE swapped
  BY <1>1, <1>2 DEF Modes!VerifierRestored
<1>3. CASE Restores
  <2>1. ~(\E c \in Threads : Modes!Replacing(c)) => verifier \in {"own", "none"}
    BY <1>3, ReplacingIs DEF ModesInv, Restores
  <2>2. \A c \in Threads : caller[c].mode = "modelled" /\ caller[c].brought # "none" =>
           caller[c].by \in {"", c}
    BY <1>3 DEF Restores
  <2> QED BY <1>1, <2>1, <2>2 DEF Modes!VerifierRestored
<1> QED BY <1>2, <1>3 DEF ModesInv

(* Where the expert, the answer and the routing are in the two plans.       *)
LEMMA SupervisedPlace ==
    ASSUME NEW todo, EndOf(todo, Modes!Supervised, 9, 2), todo # <<>>
    PROVE  /\ Len(todo) \in 1..9
           /\ Head(todo) = "expert" <=> Len(todo) = 6
           /\ Head(todo) = "answer" <=> Len(todo) = 1
           /\ Head(todo) = "routing" <=> Len(todo) = 8
<1>1. /\ Len(todo) \in 1..9
      /\ \/ Head(todo) = Modes!Supervised[9 - Len(todo) + 1]
         \/ Len(todo) = 2 /\ Head(todo) = "retry"
  BY EndOfHead
<1> DEFINE n == Len(todo)  h == Head(todo)
<1> HIDE DEF n, h
<1>2. n \in 1..9 /\ (h = Modes!Supervised[9 - n + 1] \/ (n = 2 /\ h = "retry"))
  BY <1>1 DEF n, h
<1>3. CASE n = 9
  BY <1>2, <1>3, Plans DEF n, h
<1>4. CASE n = 8
  BY <1>2, <1>4, Plans DEF n, h
<1>5. CASE n = 7
  BY <1>2, <1>5, Plans DEF n, h
<1>6. CASE n = 6
  BY <1>2, <1>6, Plans DEF n, h
<1>7. CASE n = 5
  BY <1>2, <1>7, Plans DEF n, h
<1>8. CASE n = 4
  BY <1>2, <1>8, Plans DEF n, h
<1>9. CASE n = 3
  BY <1>2, <1>9, Plans DEF n, h
<1>10. CASE n = 2
  BY <1>2, <1>10, Plans DEF n, h
<1>11. CASE n = 1
  BY <1>2, <1>11, Plans DEF n, h
<1> QED BY <1>2, <1>3, <1>4, <1>5, <1>6, <1>7, <1>8, <1>9, <1>10, <1>11

(* The same of the call with a model of the threat.                         *)
LEMMA ModelledPlace ==
    ASSUME NEW todo, EndOf(todo, Modes!Modelled, 10, 5), todo # <<>>
    PROVE  /\ Len(todo) \in 1..10
           /\ Head(todo) = "answer" <=> Len(todo) = 3
           /\ Head(todo) # "routing" /\ Head(todo) # "expert"
<1>1. /\ Len(todo) \in 1..10
      /\ \/ Head(todo) = Modes!Modelled[10 - Len(todo) + 1]
         \/ Len(todo) = 5 /\ Head(todo) = "retry"
  BY EndOfHead
<1> DEFINE n == Len(todo)  h == Head(todo)
<1> HIDE DEF n, h
<1>2. n \in 1..10 /\ (h = Modes!Modelled[10 - n + 1] \/ (n = 5 /\ h = "retry"))
  BY <1>1 DEF n, h
<1>12. CASE n = 10
  BY <1>2, <1>12, Plans DEF n, h
<1>3. CASE n = 9
  BY <1>2, <1>3, Plans DEF n, h
<1>4. CASE n = 8
  BY <1>2, <1>4, Plans DEF n, h
<1>5. CASE n = 7
  BY <1>2, <1>5, Plans DEF n, h
<1>6. CASE n = 6
  BY <1>2, <1>6, Plans DEF n, h
<1>7. CASE n = 5
  BY <1>2, <1>7, Plans DEF n, h
<1>8. CASE n = 4
  BY <1>2, <1>8, Plans DEF n, h
<1>9. CASE n = 3
  BY <1>2, <1>9, Plans DEF n, h
<1>10. CASE n = 2
  BY <1>2, <1>10, Plans DEF n, h
<1>11. CASE n = 1
  BY <1>2, <1>11, Plans DEF n, h
<1> QED BY <1>2, <1>3, <1>4, <1>5, <1>6, <1>7, <1>8, <1>9, <1>10, <1>11, <1>12

(* A call on its way has raised nothing; one that gave up had no decision;  *)
(* past the expert there is one; and the attacker is answered when the plan *)
(* is past its answer and not before.                                       *)
StageKept(r, a) ==
    /\ r.todo # <<>> => ~r.error
    /\ r.error => r.mode = "supervised" /\ r.decision = <<>> /\ a = 0
    /\ r.mode = "supervised" /\ ~r.error =>
          (Len(r.todo) <= 5 => r.decision # <<>>) /\ a = (IF r.todo = <<>> THEN 1 ELSE 0)
    /\ r.mode = "modelled" => ~r.error /\ a = (IF Len(r.todo) <= 2 THEN 1 ELSE 0)

StagesInv ==
    /\ ModesInv
    /\ DOMAIN answered = Threads
    /\ \A c \in Threads : StageKept(caller[c], answered[c])

(* The invariant of the stages, at the start.                               *)
LEMMA StagesStart == Modes!Init => StagesInv
<1> SUFFICES ASSUME Modes!Init PROVE StagesInv
  OBVIOUS
<1>1. /\ DOMAIN answered = Threads
      /\ \A c \in Threads : caller[c] = Modes!Done
  BY DEF Modes!Init
<1>2. Modes!Done.mode = "" /\ Modes!Done.error = FALSE
  BY DEF Modes!Done
<1>3. \A c \in Threads : StageKept(caller[c], answered[c])
  BY <1>1, <1>2 DEF StageKept
<1> QED BY <1>1, <1>3, ModesStarts DEF StagesInv

(* What a step of call c leaves as answered.                                *)
Tells(c, a) ==
    /\ DOMAIN answered' = Threads
    /\ \A d \in Threads : answered'[d] = IF d = c THEN a ELSE answered[d]

(* A step of one call.                                                      *)
LEMMA StageStep ==
    ASSUME StagesInv, ModesInv', NEW c \in Threads, NEW r, NEW a,
           caller' = [caller EXCEPT ![c] = r], Tells(c, a), StageKept(r, a)
    PROVE  StagesInv'
<1>1. \A d \in Threads : caller'[d] = IF d = c THEN r ELSE caller[d]
  BY DEF StagesInv, ModesInv
<1>2. \A d \in Threads : StageKept(caller'[d], answered'[d])
  BY <1>1 DEF StagesInv, Tells
<1> QED BY <1>2 DEF StagesInv, Tells

(* A call at a stage of its plan.                                           *)
LEMMA StageStands ==
    ASSUME StagesInv, NEW c \in Threads, Modes!Stage(c) # "out"
    PROVE  /\ caller[c].todo # <<>> /\ Modes!Stage(c) = Head(caller[c].todo)
           /\ OnPlan(caller[c].todo, caller[c].mode) /\ DOMAIN caller[c] = DOMAIN Modes!Done
           /\ ~caller[c].error
           /\ caller[c].mode \in {"supervised", "modelled"}
           /\ caller[c].mode = "supervised" => EndOf(caller[c].todo, Modes!Supervised, 9, 2)
           /\ caller[c].mode = "modelled" => EndOf(caller[c].todo, Modes!Modelled, 10, 5)
           /\ StageKept(caller[c], answered[c])
<1>1. CallOK(caller[c]) /\ StageKept(caller[c], answered[c])
  BY DEF StagesInv, ModesInv
<1>2. caller[c].todo # <<>> /\ Modes!Stage(c) = Head(caller[c].todo)
  BY <1>1, StageIs
<1> QED BY <1>1, <1>2 DEF CallOK, OnPlan, StageKept

(* The effect of a stage done on what was answered.                         *)
LEMMA DoneKeeps ==
    ASSUME StagesInv, NEW c \in Threads, NEW r, NEW a,
           Modes!Stage(c) # "out",
           r.todo = Tail(caller[c].todo), r.mode = caller[c].mode, r.error = caller[c].error,
           r.decision = caller[c].decision \/ Modes!Stage(c) = "routing",
           Modes!Stage(c) = "expert" => r.decision # <<>>,
           a = IF Modes!Stage(c) = "answer" THEN answered[c] + 1 ELSE answered[c]
    PROVE  StageKept(r, a)
<1> DEFINE todo == caller[c].todo  n == Len(todo)  mode == caller[c].mode
<1>1. /\ todo # <<>> /\ Modes!Stage(c) = Head(todo) /\ OnPlan(todo, mode)
      /\ ~caller[c].error /\ mode \in {"supervised", "modelled"} /\ StageKept(caller[c], answered[c])
  BY StageStands
<1>2. Len(r.todo) = n - 1 /\ n \in Nat \ {0} /\ OnPlan(r.todo, mode)
  BY <1>1, PlanTail
<1>3. r.todo = <<>> <=> n = 1
  <2>1. r.todo \in Seq(StageNames)
    BY <1>1, <1>2 DEF OnPlan, EndOf
  <2>2. r.todo = <<>> <=> Len(r.todo) = 0
    BY <2>1, EmptySeq
  <2> DEFINE m == Len(r.todo)
  <2>3. m = n - 1 /\ n \in Nat /\ (r.todo = <<>> <=> m = 0)
    BY <1>2, <2>2
  <2> HIDE DEF n, m
  <2> QED BY <2>3
<1>4. CASE mode = "supervised"
  <2>1. /\ Head(todo) = "expert" <=> n = 6
        /\ Head(todo) = "answer" <=> n = 1
        /\ Head(todo) = "routing" <=> n = 8
    BY <1>1, <1>4, StageStands, SupervisedPlace
  <2>2. /\ n <= 5 => caller[c].decision # <<>>
        /\ answered[c] = 0
    BY <1>1, <1>4 DEF StageKept
  <2>3. /\ n = 6 => r.decision # <<>>
        /\ n # 8 => r.decision = caller[c].decision
        /\ a = IF n = 1 THEN answered[c] + 1 ELSE answered[c]
    BY <1>1, <2>1
  <2> DEFINE m == Len(r.todo)
  <2>4. m = n - 1
    BY <1>2
  <2> HIDE DEF n, m
  <2>5. m <= 5 => r.decision # <<>>
    BY <1>2, <2>2, <2>3, <2>4
  <2>6. a = IF r.todo = <<>> THEN 1 ELSE 0
    BY <1>3, <2>2, <2>3
  <2> QED BY <1>1, <1>4, <2>5, <2>6 DEF StageKept, m
<1>5. CASE mode = "modelled"
  <2>1. Head(todo) = "answer" <=> n = 3
    BY <1>1, <1>5, StageStands, ModelledPlace
  <2>2. answered[c] = IF n <= 2 THEN 1 ELSE 0
    BY <1>1, <1>5 DEF StageKept
  <2>3. a = IF n = 3 THEN answered[c] + 1 ELSE answered[c]
    BY <1>1, <2>1
  <2> DEFINE m == Len(r.todo)
  <2>4. m = n - 1
    BY <1>2
  <2> HIDE DEF n, m
  <2>5. a = IF m <= 2 THEN 1 ELSE 0
    BY <1>2, <2>2, <2>3, <2>4
  <2> QED BY <1>1, <1>5, <2>5 DEF StageKept, m
<1> QED BY <1>1, <1>4, <1>5

(* A stage done, of which nothing but the decision matters here.            *)
LEMMA StageDone ==
    ASSUME StagesInv, ModesInv', NEW c \in Threads, NEW s,
           Modes!Advance(c, s), Modes!Stage(c) # "out",
           DOMAIN s = DOMAIN Modes!Done, s.todo = caller[c].todo, s.mode = caller[c].mode,
           s.error = caller[c].error,
           s.decision = caller[c].decision \/ Modes!Stage(c) = "routing",
           Modes!Stage(c) = "expert" => s.decision # <<>>,
           Tells(c, IF Modes!Stage(c) = "answer" THEN answered[c] + 1 ELSE answered[c])
    PROVE  StagesInv'
<1> DEFINE r == [s EXCEPT !.todo = Tail(s.todo)]
           a == IF Modes!Stage(c) = "answer" THEN answered[c] + 1 ELSE answered[c]
<1>1. /\ r.todo = Tail(caller[c].todo) /\ r.mode = caller[c].mode /\ r.error = caller[c].error
      /\ r.decision = s.decision
  BY DEF Modes!Done
<1>2. caller' = [caller EXCEPT ![c] = r] /\ Tells(c, a)
  BY DEF Modes!Advance
<1>3. StageKept(r, a)
  <2> HIDE DEF r
  <2> QED BY <1>1, DoneKeeps
<1> HIDE DEF r, a
<1> QED BY <1>2, <1>3, StageStep

(* A call that stays where it is, or whose verification becomes a retry.    *)
LEMMA StageStays ==
    ASSUME StagesInv, ModesInv', NEW c \in Threads, NEW r,
           caller' = [caller EXCEPT ![c] = r], UNCHANGED answered, Modes!Stage(c) # "out",
           r.todo # <<>>, Len(r.todo) = Len(caller[c].todo), r.mode = caller[c].mode,
           r.error = caller[c].error, r.decision = caller[c].decision
    PROVE  StagesInv'
<1>1. caller[c].todo # <<>> /\ StageKept(caller[c], answered[c])
  BY StageStands
<1>2. StageKept(r, answered[c])
  BY <1>1 DEF StageKept
<1>3. Tells(c, answered[c])
  BY DEF StagesInv, Tells
<1> QED BY <1>2, <1>3, StageStep

(* A step of the harness modes keeps the invariant of the stages.           *)
LEMMA StagesKept == StagesInv /\ [Modes!Next]_(Modes!vars) => StagesInv'
<1> SUFFICES ASSUME StagesInv, [Modes!Next]_(Modes!vars)
             PROVE  StagesInv'
  OBVIOUS
<1>0. ModesInv /\ ModesInv'
  BY ModesKept DEF StagesInv
<1>d. \A c \in Threads : DOMAIN caller[c] = DOMAIN Modes!Done
  BY <1>0 DEF ModesInv, CallOK
<1>s. UNCHANGED answered => \A c \in Threads : Modes!Stage(c) # "answer" =>
          Tells(c, IF Modes!Stage(c) = "answer" THEN answered[c] + 1 ELSE answered[c])
  BY DEF StagesInv, Tells
<1>1. ASSUME NEW c \in Threads, NEW mode \in {"supervised", "modelled"}, Modes!Begin(c, mode)
      PROVE  StagesInv'
  <2>1. PICK v : caller' = [caller EXCEPT ![c] = [Modes!Done EXCEPT !.mode = mode, !.brought = v,
                               !.todo = IF mode = "supervised" THEN Modes!Supervised ELSE Modes!Modelled]]
    BY <1>1 DEF Modes!Begin
  <2> DEFINE r == [Modes!Done EXCEPT !.mode = mode, !.brought = v,
                      !.todo = IF mode = "supervised" THEN Modes!Supervised ELSE Modes!Modelled]
  <2>2. /\ r.mode = mode /\ r.error = FALSE
        /\ r.todo = IF mode = "supervised" THEN Modes!Supervised ELSE Modes!Modelled
    BY DEF Modes!Done
  <2>3. caller' = [caller EXCEPT ![c] = r] /\ Tells(c, 0)
    BY <1>1, <2>1 DEF Modes!Begin, StagesInv, Tells
  <2> HIDE DEF r
  <2>4. Len(r.todo) > 5 /\ r.todo # <<>>
    <3> DEFINE n == Len(r.todo)
    <3>1. n = 9 \/ n = 10
      BY <2>2, Plans
    <3>2. r.todo = <<>> => n = 0
      <4>1. Len(<<>>) = 0
        BY EmptySeq
      <4> QED BY <4>1
    <3> HIDE DEF n
    <3>3. n > 5 /\ r.todo # <<>>
      BY <3>1, <3>2
    <3> QED BY <3>3 DEF n
  <2>5. StageKept(r, 0)
    BY <2>2, <2>4 DEF StageKept
  <2> QED BY <1>0, <2>3, <2>5, StageStep
<1>2. ASSUME NEW c \in Threads, Modes!Lookup(c) \/ Modes!EnhancedReview(c)
      PROVE  StagesInv'
  <2>1. /\ Modes!Advance(c, caller[c]) /\ UNCHANGED answered
        /\ Modes!Stage(c) \in {"classification", "cti", "threat", "review"}
    BY <1>2 DEF Modes!Lookup, Modes!EnhancedReview, Modes!On
  <2> QED BY <1>0, <1>d, <1>s, <2>1, StageDone
<1>3. ASSUME NEW c \in Threads, Modes!Conclude(c)
      PROVE  StagesInv'
  <2>1. /\ Modes!Advance(c, caller[c])
        /\ Tells(c, IF Modes!Stage(c) = "answer" THEN answered[c] + 1 ELSE answered[c])
        /\ Modes!Stage(c) \in {"answer", "chain", "finding"}
    BY <1>3 DEF Modes!Conclude, Modes!On, StagesInv, Tells
  <2> QED BY <1>0, <1>d, <2>1, StageDone
<1>4. ASSUME NEW c \in Threads, Modes!Routing(c)
      PROVE  StagesInv'
  <2>1. UNCHANGED answered /\ Modes!Stage(c) = "routing"
    BY <1>4 DEF Modes!Routing, Modes!On
  <2>2. ASSUME NEW v, Modes!Advance(c, [caller[c] EXCEPT !.decision = v])
        PROVE  StagesInv'
    <3> DEFINE s == [caller[c] EXCEPT !.decision = v]
    <3>1. /\ DOMAIN s = DOMAIN Modes!Done /\ s.todo = caller[c].todo /\ s.mode = caller[c].mode
          /\ s.error = caller[c].error
      BY <1>d DEF Modes!Done
    <3>2. Modes!Advance(c, s)
      BY <2>2
    <3> HIDE DEF s
    <3> QED BY <1>0, <1>s, <2>1, <3>1, <3>2, StageDone
  <2>3. CASE Modes!Advance(c, caller[c])
    BY <1>0, <1>d, <1>s, <2>1, <2>3, StageDone
  <2> QED BY <1>4, <2>2, <2>3 DEF Modes!Routing
<1>5. ASSUME NEW c \in Threads, Modes!Expert(c)
      PROVE  StagesInv'
  <2>1. UNCHANGED answered /\ Modes!Stage(c) = "expert"
    BY <1>5 DEF Modes!Expert, Modes!On
  <2>2. CASE caller[c].decision = <<>>
    <3> DEFINE r == [caller[c] EXCEPT !.todo = <<>>, !.error = TRUE]
    <3>1. r.todo = <<>> /\ r.mode = caller[c].mode /\ r.decision = caller[c].decision /\ r.error = TRUE
      BY <1>d DEF Modes!Done
    <3>2. caller' = [caller EXCEPT ![c] = r]
      BY <1>5, <2>2 DEF Modes!Expert, Modes!GiveUp
    <3> HIDE DEF r
    <3>3. caller[c].mode = "supervised" /\ answered[c] = 0
      <4>1. /\ Head(caller[c].todo) = "expert" /\ caller[c].mode \in {"supervised", "modelled"}
            /\ caller[c].mode = "modelled" => EndOf(caller[c].todo, Modes!Modelled, 10, 5)
            /\ caller[c].todo # <<>> /\ ~caller[c].error /\ StageKept(caller[c], answered[c])
        BY <2>1, StageStands
      <4>2. caller[c].mode = "supervised"
        BY <4>1, ModelledPlace
      <4> QED BY <4>1, <4>2 DEF StageKept
    <3>4. StageKept(r, 0)
      <4>1. r.mode = "supervised" /\ r.decision = <<>> /\ r.todo = <<>> /\ r.error = TRUE
        BY <2>2, <3>1, <3>3
      <4> QED BY <4>1 DEF StageKept
    <3>5. Tells(c, 0)
      BY <2>1, <3>3 DEF StagesInv, Tells
    <3> QED BY <1>0, <3>2, <3>4, <3>5, StageStep
  <2>3. CASE caller[c].decision # <<>>
    <3>1. ASSUME NEW v, Modes!Advance(c, [caller[c] EXCEPT !.expert = v])
          PROVE  StagesInv'
      <4> DEFINE s == [caller[c] EXCEPT !.expert = v]
      <4>1. /\ DOMAIN s = DOMAIN Modes!Done /\ s.todo = caller[c].todo /\ s.mode = caller[c].mode
            /\ s.error = caller[c].error /\ s.decision = caller[c].decision
        BY <1>d DEF Modes!Done
      <4>2. Modes!Advance(c, s)
        BY <3>1
      <4> HIDE DEF s
      <4> QED BY <1>0, <1>s, <2>1, <2>3, <4>1, <4>2, StageDone
    <3>2. CASE Modes!Advance(c, caller[c])
      BY <1>0, <1>d, <1>s, <2>1, <2>3, <3>2, StageDone
    <3>3. Modes!Advance(c, caller[c]) \/ \E v : Modes!Advance(c, [caller[c] EXCEPT !.expert = v])
      BY <1>5, <2>3 DEF Modes!Expert
    <3> QED BY <3>1, <3>2, <3>3
  <2> QED BY <2>2, <2>3
<1>6. ASSUME NEW c \in Threads, Modes!Generation(c) \/ Modes!Voting(c)
      PROVE  StagesInv'
  <2>1. UNCHANGED answered /\ Modes!Stage(c) \in {"generation", "voting"}
    BY <1>6 DEF Modes!Generation, Modes!Voting, Modes!On
  <2>2. ASSUME NEW v, NEW w, Modes!Advance(c, [caller[c] EXCEPT !.response = v, !.made = w])
        PROVE  StagesInv'
    <3> DEFINE s == [caller[c] EXCEPT !.response = v, !.made = w]
    <3>1. /\ DOMAIN s = DOMAIN Modes!Done /\ s.todo = caller[c].todo /\ s.mode = caller[c].mode
          /\ s.error = caller[c].error /\ s.decision = caller[c].decision
      BY <1>d DEF Modes!Done
    <3>2. Modes!Advance(c, s)
      BY <2>2
    <3> HIDE DEF s
    <3> QED BY <1>0, <1>s, <2>1, <3>1, <3>2, StageDone
  <2>3. ASSUME NEW v, NEW w, Modes!Advance(c, [caller[c] EXCEPT !.response = v, !.vetoed = w])
        PROVE  StagesInv'
    <3> DEFINE s == [caller[c] EXCEPT !.response = v, !.vetoed = w]
    <3>1. /\ DOMAIN s = DOMAIN Modes!Done /\ s.todo = caller[c].todo /\ s.mode = caller[c].mode
          /\ s.error = caller[c].error /\ s.decision = caller[c].decision
      BY <1>d DEF Modes!Done
    <3>2. Modes!Advance(c, s)
      BY <2>3
    <3> HIDE DEF s
    <3> QED BY <1>0, <1>s, <2>1, <3>1, <3>2, StageDone
  <2>4. CASE Modes!Advance(c, caller[c])
    BY <1>0, <1>d, <1>s, <2>1, <2>4, StageDone
  <2>5. \/ Modes!Advance(c, caller[c])
        \/ \E v, w : Modes!Advance(c, [caller[c] EXCEPT !.response = v, !.made = w])
        \/ \E v, w : Modes!Advance(c, [caller[c] EXCEPT !.response = v, !.vetoed = w])
    BY <1>6 DEF Modes!Generation, Modes!Voting
  <2> QED BY <2>2, <2>3, <2>4, <2>5
<1>7. ASSUME NEW c \in Threads, Modes!Swap(c)
      PROVE  StagesInv'
  <2> DEFINE todo == caller[c].todo
  <2>1. UNCHANGED answered /\ Modes!Stage(c) = "swap"
    BY <1>7 DEF Modes!Swap, Modes!On
  <2>2. /\ todo # <<>> /\ Head(todo) = "swap" /\ StageKept(caller[c], answered[c])
        /\ ~caller[c].error /\ OnPlan(todo, caller[c].mode)
    BY <2>1, StageStands
  <2>3. caller[c].mode = "modelled" /\ Len(todo) = 6
    BY <2>2, SupervisedStage, ModelledStage DEF OnPlan
  <2>4. CASE Modes!Advance(c, [caller[c] EXCEPT !.original = verifier])
    <3> DEFINE s == [caller[c] EXCEPT !.original = verifier]
    <3>1. /\ DOMAIN s = DOMAIN Modes!Done /\ s.todo = caller[c].todo /\ s.mode = caller[c].mode
          /\ s.error = caller[c].error /\ s.decision = caller[c].decision
      BY <1>d DEF Modes!Done
    <3>2. Modes!Advance(c, s)
      BY <2>4
    <3> HIDE DEF s
    <3> QED BY <1>0, <1>s, <2>1, <3>1, <3>2, StageDone
  <2>5. CASE caller' = [caller EXCEPT ![c].todo = Tail(Tail(Tail(@)))]
    <3> DEFINE t == Tail(Tail(Tail(todo)))  r == [caller[c] EXCEPT !.todo = t]
    <3>1. r.todo = t /\ r.mode = caller[c].mode /\ r.error = caller[c].error
      BY <1>d DEF Modes!Done
    <3>2. caller' = [caller EXCEPT ![c] = r]
      BY <2>5
    <3>3. Len(t) = 3 /\ t # <<>>
      <4> DEFINE t1 == Tail(todo)  t2 == Tail(t1)
      <4>0. \A s : OnPlan(s, "modelled") /\ Len(s) \in {4, 5, 6} =>
               OnPlan(Tail(s), "modelled") /\ Len(Tail(s)) = Len(s) - 1
        <5>1. {4, 5, 6} \subseteq Nat \ {0}
          OBVIOUS
        <5> QED BY <5>1, TailAt
      <4>a. OnPlan(todo, "modelled") /\ Len(todo) = 6
        BY <2>2, <2>3
      <4> HIDE DEF todo
      <4>1. OnPlan(t1, "modelled") /\ Len(t1) = 5
        BY <4>a, <4>0
      <4> HIDE DEF t1
      <4>2. OnPlan(t2, "modelled") /\ Len(t2) = 4
        BY <4>0, <4>1
      <4> HIDE DEF t2
      <4>3. Len(Tail(t2)) = 3
        BY <4>0, <4>2
      <4>4. Len(<<>>) = 0 /\ t = Tail(t2)
        BY EmptySeq DEF t1, t2
      <4> HIDE DEF t
      <4> QED BY <4>3, <4>4
    <3> HIDE DEF r, t
    <3>4. answered[c] = 0
      BY <2>2, <2>3 DEF StageKept
    <3>5. StageKept(r, 0)
      BY <2>2, <2>3, <3>1, <3>3 DEF StageKept
    <3>6. Tells(c, 0)
      BY <2>1, <3>4 DEF StagesInv, Tells
    <3> QED BY <1>0, <3>2, <3>5, <3>6, StageStep
  <2> QED BY <1>7, <2>4, <2>5 DEF Modes!Swap
<1>8. ASSUME NEW c \in Threads, Modes!Restore(c)
      PROVE  StagesInv'
  <2>1. /\ Modes!Advance(c, caller[c]) /\ UNCHANGED answered /\ Modes!Stage(c) = "restore"
    BY <1>8 DEF Modes!Restore, Modes!On
  <2> QED BY <1>0, <1>d, <1>s, <2>1, StageDone
<1>9. ASSUME NEW c \in Threads, Modes!Verification(c)
      PROVE  StagesInv'
  <2>1. UNCHANGED answered /\ Modes!Stage(c) = "verification"
    BY <1>9 DEF Modes!Verification, Modes!On
  <2>2. ASSUME NEW u, NEW v, NEW w, Modes!Advance(c, [caller[c] EXCEPT !.passed = u, !.by = v, !.checked = w])
        PROVE  StagesInv'
    <3> DEFINE s == [caller[c] EXCEPT !.passed = u, !.by = v, !.checked = w]
    <3>1. /\ DOMAIN s = DOMAIN Modes!Done /\ s.todo = caller[c].todo /\ s.mode = caller[c].mode
          /\ s.error = caller[c].error /\ s.decision = caller[c].decision
      BY <1>d DEF Modes!Done
    <3>2. Modes!Advance(c, s)
      BY <2>2
    <3> HIDE DEF s
    <3> QED BY <1>0, <1>s, <2>1, <3>1, <3>2, StageDone
  <2>3. ASSUME NEW u, NEW v, Modes!Advance(c, [caller[c] EXCEPT !.passed = u, !.by = v])
        PROVE  StagesInv'
    <3> DEFINE s == [caller[c] EXCEPT !.passed = u, !.by = v]
    <3>1. /\ DOMAIN s = DOMAIN Modes!Done /\ s.todo = caller[c].todo /\ s.mode = caller[c].mode
          /\ s.error = caller[c].error /\ s.decision = caller[c].decision
      BY <1>d DEF Modes!Done
    <3>2. Modes!Advance(c, s)
      BY <2>3
    <3> HIDE DEF s
    <3> QED BY <1>0, <1>s, <2>1, <3>1, <3>2, StageDone
  <2>4. CASE Modes!Advance(c, caller[c])
    BY <1>0, <1>d, <1>s, <2>1, <2>4, StageDone
  <2>5. CASE caller' = [caller EXCEPT ![c] = [caller[c] EXCEPT !.passed = "no", !.by = verifier,
                           !.todo = IF MaxRetries = 0 THEN Tail(@) ELSE <<"retry">> \o Tail(@)]]
    <3> DEFINE todo == caller[c].todo
               t == IF MaxRetries = 0 THEN Tail(todo) ELSE <<"retry">> \o Tail(todo)
               r == [caller[c] EXCEPT !.passed = "no", !.by = verifier, !.todo = t]
    <3>1. /\ r.todo = t /\ r.mode = caller[c].mode /\ r.error = caller[c].error
          /\ r.decision = caller[c].decision
      BY <1>d DEF Modes!Done
    <3>2. caller' = [caller EXCEPT ![c] = r]
      BY <1>d, <2>5 DEF Modes!Done
    <3>3. /\ todo # <<>> /\ Head(todo) = "verification" /\ OnPlan(todo, caller[c].mode)
      BY <2>1, StageStands
    <3> HIDE DEF r
    <3>4. CASE MaxRetries = 0
      <4>1. t = Tail(todo)
        BY <3>4
      <4> DEFINE a == IF Modes!Stage(c) = "answer" THEN answered[c] + 1 ELSE answered[c]
      <4>2. a = answered[c]
        BY <2>1
      <4>3. StageKept(r, a)
        BY <2>1, <3>1, <4>1, DoneKeeps
      <4>4. Tells(c, a)
        BY <2>1, <4>2 DEF StagesInv, Tells
      <4> HIDE DEF a
      <4> QED BY <1>0, <3>2, <4>3, <4>4, StageStep
    <3>5. CASE MaxRetries # 0
      <4>1. t = <<"retry">> \o Tail(todo)
        BY <3>5
      <4>2. Len(t) = Len(todo)
        BY <3>3, <4>1, RetryPlan
      <4>3. t # <<>>
        <5>1. Len(todo) \in Nat \ {0} /\ Len(<<>>) = 0
          BY <3>3, PlanTail, EmptySeq
        <5> HIDE DEF t
        <5> QED BY <4>2, <5>1
      <4> HIDE DEF t
      <4> QED BY <1>0, <2>1, <3>1, <3>2, <4>2, <4>3, StageStays
    <3> QED BY <3>4, <3>5
  <2>6. \/ Modes!Advance(c, caller[c])
        \/ \E u, v, w : Modes!Advance(c, [caller[c] EXCEPT !.passed = u, !.by = v, !.checked = w])
        \/ \E u, v : Modes!Advance(c, [caller[c] EXCEPT !.passed = u, !.by = v])
        \/ caller' = [caller EXCEPT ![c] = [caller[c] EXCEPT !.passed = "no", !.by = verifier,
                         !.todo = IF MaxRetries = 0 THEN Tail(@) ELSE <<"retry">> \o Tail(@)]]
    BY <1>9 DEF Modes!Verification
  <2> QED BY <2>2, <2>3, <2>4, <2>5, <2>6
<1>10. ASSUME NEW c \in Threads, Modes!Retry(c)
       PROVE  StagesInv'
  <2>1. UNCHANGED answered /\ Modes!Stage(c) = "retry"
    BY <1>10 DEF Modes!Retry, Modes!On
  <2>2. ASSUME NEW v, NEW w, Modes!Advance(c, [caller[c] EXCEPT !.response = v, !.made = w, !.vetoed = FALSE])
        PROVE  StagesInv'
    <3> DEFINE s == [caller[c] EXCEPT !.response = v, !.made = w, !.vetoed = FALSE]
    <3>1. /\ DOMAIN s = DOMAIN Modes!Done /\ s.todo = caller[c].todo /\ s.mode = caller[c].mode
          /\ s.error = caller[c].error /\ s.decision = caller[c].decision
      BY <1>d DEF Modes!Done
    <3>2. Modes!Advance(c, s)
      BY <2>2
    <3> HIDE DEF s
    <3> QED BY <1>0, <1>s, <2>1, <3>1, <3>2, StageDone
  <2>3. CASE Modes!Advance(c, caller[c])
    BY <1>0, <1>d, <1>s, <2>1, <2>3, StageDone
  <2>4. ASSUME NEW v, caller' = [caller EXCEPT ![c] = [caller[c] EXCEPT !.tries = v]]
        PROVE  StagesInv'
    <3> DEFINE r == [caller[c] EXCEPT !.tries = v]
    <3>1. /\ r.todo = caller[c].todo /\ r.mode = caller[c].mode
          /\ r.error = caller[c].error /\ r.decision = caller[c].decision
      BY <1>d DEF Modes!Done
    <3>2. caller' = [caller EXCEPT ![c] = r]
      BY <2>4
    <3>3. caller[c].todo # <<>>
      BY <2>1, StageStands
    <3> HIDE DEF r
    <3> QED BY <1>0, <2>1, <3>1, <3>2, <3>3, StageStays
  <2>5. \/ Modes!Advance(c, caller[c])
        \/ \E v, w : Modes!Advance(c, [caller[c] EXCEPT !.response = v, !.made = w, !.vetoed = FALSE])
        \/ \E v : caller' = [caller EXCEPT ![c] = [caller[c] EXCEPT !.tries = v]]
    <3>1. caller' = [caller EXCEPT ![c].tries = @ + 1] =>
              caller' = [caller EXCEPT ![c] = [caller[c] EXCEPT !.tries = caller[c].tries + 1]]
      OBVIOUS
    <3> QED BY <1>10, <3>1 DEF Modes!Retry
  <2> QED BY <2>2, <2>3, <2>4, <2>5
<1>11. CASE UNCHANGED Modes!vars
  <2>1. caller' = caller /\ answered' = answered
    BY <1>11 DEF Modes!vars
  <2> QED BY <1>0, <2>1 DEF StagesInv
<1> QED BY <1>1, <1>2, <1>3, <1>4, <1>5, <1>6, <1>7, <1>8, <1>9, <1>10, <1>11 DEF Modes!Next

(* From it, that no stage but the routing costs the attacker his answer.    *)
LEMMA StagesHold == StagesInv => Modes!StagesContained
<1> SUFFICES ASSUME StagesInv, NEW c \in Threads, Modes!Stage(c) = "out", caller[c].mode # ""
             PROVE  /\ caller[c].error <=> (caller[c].mode = "supervised" /\ caller[c].decision = <<>>)
                    /\ answered[c] = (IF caller[c].error THEN 0 ELSE 1)
  BY DEF Modes!StagesContained
<1>1. CallOK(caller[c]) /\ StageKept(caller[c], answered[c])
  BY DEF StagesInv, ModesInv
<1>2. caller[c].todo = <<>> /\ Len(<<>>) = 0
  BY <1>1, StageIs, EmptySeq
<1>3. caller[c].mode \in {"supervised", "modelled"}
  BY <1>1 DEF CallOK, OnPlan
<1>4. CASE caller[c].mode = "supervised" /\ caller[c].error
  BY <1>1, <1>4 DEF StageKept
<1>5. CASE caller[c].mode = "supervised" /\ ~caller[c].error
  BY <1>1, <1>2, <1>5 DEF StageKept
<1>6. CASE caller[c].mode = "modelled"
  BY <1>1, <1>2, <1>6 DEF StageKept
<1> QED BY <1>3, <1>4, <1>5, <1>6
=============================================================================
