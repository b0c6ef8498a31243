----------------------------- MODULE FoldProofs -----------------------------
(***************************************************************************)
(* Folds over finite sets and over sequences, without an operator for a    *)
(* parameter.  A set of numbers that is not empty has a least one, a set   *)
(* that has 0 and with each number the next has all, and what holds of a   *)
(* part of a finite set if it holds of every smaller part holds of the     *)
(* set.  By these a fold that takes the elements in some order exists, and *)
(* there is no other.                                                      *)
(***************************************************************************)
EXTENDS Integers, FiniteSets, FiniteSetTheorems, WellFoundedInduction, TLAPS

-----------------------------------------------------------------------------
(* A set of naturals that is not empty has a least element: the sets 0..m   *)
(* of its elements are finite, and one of them has none of the others in it.*)
LEMMA FirstNumber ==
    ASSUME NEW T \in SUBSET Nat, T # {}
    PROVE  \E m \in T : \A y \in T : m <= y
<1> DEFINE R == StrictSubsetOrdering(Nat)
           F == FiniteSubsetsOf(Nat)
           Below == {0..m : m \in T}
<1>1. IsWellFoundedOn(R, F)
  BY FS_StrictSubsetOrderingWellFounded
<1>2. Below \subseteq F
  <2>1. ASSUME NEW m \in T
        PROVE  0..m \in F
    <3>1. m \in Int /\ 0 \in Int /\ 0..m \subseteq Nat
      OBVIOUS
    <3>2. IsFiniteSet(0..m)
      BY <3>1, FS_Interval
    <3> QED BY <3>1, <3>2 DEF FiniteSubsetsOf
  <2> QED BY <2>1
<1>3. Below # {}
  OBVIOUS
<1>4. PICK x \in Below : \A y \in Below : ~ (<<y, x>> \in R)
  <2> HIDE DEF R, F, Below
  <2> QED BY <1>1, <1>2, <1>3, WFMin
<1>5. PICK m \in T : x = 0..m
  OBVIOUS
<1>6. ASSUME NEW y \in T
      PROVE  m <= y
  <2>1. <<0..y, x>> \notin R
    BY <1>4
  <2>2. m \in Nat /\ y \in Nat
    OBVIOUS
  <2>3. CASE y < m
    <3>1. 0..y \subseteq 0..m /\ 0..y # 0..m /\ 0..y \in SUBSET Nat /\ 0..m \in SUBSET Nat
      <4>1. m \in 0..m /\ m \notin 0..y
        BY <2>2, <2>3
      <4>2. \A z \in 0..y : z \in 0..m
        BY <2>2, <2>3
      <4> QED BY <2>2, <4>1, <4>2
    <3>2. <<0..y, 0..m>> \in R
      BY <3>1 DEF StrictSubsetOrdering
    <3> QED BY <1>5, <2>1, <3>2
  <2> QED BY <2>2, <2>3
<1> QED BY <1>6

(* A set that has 0, and with a number the next, has all numbers.           *)
LEMMA AllNumbers ==
    ASSUME NEW T \in SUBSET Nat, 0 \in T, \A n \in T : n + 1 \in T
    PROVE  T = Nat
<1> SUFFICES ASSUME T # Nat PROVE FALSE
  OBVIOUS
<1>1. Nat \ T \in SUBSET Nat /\ Nat \ T # {}
  OBVIOUS
<1>2. PICK m \in Nat \ T : \A y \in Nat \ T : m <= y
  BY <1>1, FirstNumber
<1>3. m # 0 /\ m - 1 \in Nat /\ ~(m <= m - 1)
  BY <1>2
<1>4. m - 1 \in T /\ m - 1 + 1 = m
  BY <1>2, <1>3
<1> QED BY <1>2, <1>4

(* What holds of a part of a finite set if it holds of every smaller part   *)
(* of it holds of the set.                                                  *)
LEMMA AllParts ==
    ASSUME NEW S, IsFiniteSet(S), NEW C \in SUBSET SUBSET S,
           \A T \in SUBSET S : (\A R \in SUBSET T : R # T => R \in C) => T \in C
    PROVE  \A T \in SUBSET S : T \in C
<1> SUFFICES ASSUME NEW Q \in SUBSET S, Q \notin C PROVE FALSE
  OBVIOUS
<1> DEFINE B == (SUBSET S) \ C
<1>1. B \subseteq FiniteSubsetsOf(S) /\ B # {}
  BY FS_Subset DEF FiniteSubsetsOf
<1>2. IsWellFoundedOn(StrictSubsetOrdering(S), FiniteSubsetsOf(S))
  BY FS_StrictSubsetOrderingWellFounded
<1>3. PICK T \in B : \A R \in B : <<R, T>> \notin StrictSubsetOrdering(S)
  <2> HIDE DEF B
  <2> QED BY <1>1, <1>2, WFMin
<1>4. T \in SUBSET S /\ T \notin C
  BY <1>3
<1>5. ASSUME NEW R \in SUBSET T, R # T PROVE R \in C
  <2>1. <<R, T>> \in StrictSubsetOrdering(S)
    BY <1>4, <1>5 DEF StrictSubsetOrdering
  <2> QED BY <1>3, <1>4, <2>1
<1> QED BY <1>4, <1>5

(* A fold over a finite set that takes its elements in the order of c.      *)
Folds(h, T, base, G, c) ==
    \A s \in SUBSET T : h[s] = IF s = {} THEN base ELSE G[c[s]][h[s \ {c[s]}]]
Follows(k, T, V, base, G, c) ==
    \A s \in SUBSET T :
        /\ s = {} => k[s] = base
        /\ s # {} /\ k[s \ {c[s]}] \in V => k[s] = G[c[s]][k[s \ {c[s]}]]
Choosing(c, T) == \A s \in SUBSET T : s # {} => c[s] \in s

(* There is one.                                                            *)
LEMMA FoldExists ==
    ASSUME NEW S, IsFiniteSet(S), NEW V, NEW base \in V, NEW G \in [S -> [V -> V]], NEW c, Choosing(c, S)
    PROVE  \E h \in [SUBSET S -> V] : Folds(h, S, base, G, c)
<1> DEFINE D(n) == {s \in SUBSET S : Cardinality(s) <= n}
           Eq(h, s) == h[s] = IF s = {} THEN base ELSE G[c[s]][h[s \ {c[s]}]]
           T == {n \in Nat : \E h \in [D(n) -> V] : \A s \in D(n) : Eq(h, s)}
<1>1. \A s \in SUBSET S : IsFiniteSet(s) /\ Cardinality(s) \in Nat /\ (Cardinality(s) = 0 <=> s = {})
                          /\ Cardinality(s) <= Cardinality(S)
  BY FS_Subset, FS_CardinalityType, FS_EmptySet
<1>2. \A s \in SUBSET S : s # {} => /\ c[s] \in s /\ s \ {c[s]} \in SUBSET S
                                    /\ Cardinality(s \ {c[s]}) = Cardinality(s) - 1
  BY <1>1, FS_RemoveElement DEF Choosing
<1>3. 0 \in T
  <2> DEFINE h == [s \in D(0) |-> base]
  <2>1. \A s \in D(0) : s = {}
    BY <1>1
  <2>2. h \in [D(0) -> V] /\ \A s \in D(0) : Eq(h, s)
    BY <2>1
  <2> QED BY <2>2
<1>4. ASSUME NEW n \in T PROVE n + 1 \in T
  <2>1. PICK h \in [D(n) -> V] : \A s \in D(n) : Eq(h, s)
    OBVIOUS
  <2> DEFINE k == [s \in D(n + 1) |-> IF s \in D(n) THEN h[s] ELSE G[c[s]][h[s \ {c[s]}]]]
  <2>2. n \in Nat
    OBVIOUS
  <2>3. \A s \in D(n + 1) : s # {} => /\ s \ {c[s]} \in D(n) /\ c[s] \in S /\ h[s \ {c[s]}] \in V
    BY <1>1, <1>2, <2>1, <2>2
  <2>4. \A s \in D(n + 1) : s \notin D(n) => s # {}
    BY <1>1, <2>2
  <2>5. \A s \in D(n) : s \in D(n + 1)
    BY <1>1, <2>2
  <2>6. k \in [D(n + 1) -> V]
    <3> SUFFICES ASSUME NEW s \in D(n + 1)
                 PROVE  (IF s \in D(n) THEN h[s] ELSE G[c[s]][h[s \ {c[s]}]]) \in V
      OBVIOUS
    <3>1. CASE s \in D(n)
      BY <2>1, <3>1
    <3>2. CASE s \notin D(n)
      BY <2>3, <2>4, <3>2
    <3> QED BY <3>1, <3>2
  <2>7. ASSUME NEW s \in D(n + 1) PROVE Eq(k, s)
    <3>1. s # {} => k[s \ {c[s]}] = h[s \ {c[s]}]
      BY <2>3, <2>5
    <3>2. CASE s \in D(n)
      <4>1. k[s] = h[s]
        BY <2>5, <3>2
      <4> QED BY <2>1, <3>1, <3>2, <4>1
    <3>3. CASE s \notin D(n)
      <4>1. k[s] = G[c[s]][h[s \ {c[s]}]] /\ s # {}
        BY <2>4, <3>3
      <4> QED BY <3>1, <4>1
    <3> QED BY <3>2, <3>3
  <2>8. n + 1 \in Nat
    BY <2>2
  <2> HIDE DEF k
  <2> QED BY <2>6, <2>7, <2>8
<1>5. T = Nat
  <2> T \in SUBSET Nat
    OBVIOUS
  <2> HIDE DEF T
  <2> QED BY <1>3, <1>4, AllNumbers
<1>6. Cardinality(S) \in T /\ D(Cardinality(S)) = SUBSET S
  BY <1>1, <1>5
<1>7. PICK h \in [D(Cardinality(S)) -> V] : \A s \in D(Cardinality(S)) : Eq(h, s)
  BY <1>6
<1>8. h \in [SUBSET S -> V] /\ \A s \in SUBSET S : Eq(h, s)
  BY <1>6, <1>7
<1> QED BY <1>8 DEF Folds

(* And only one.                                                            *)
LEMMA FoldUnique ==
    \A S, V, base, G, c, h, k :
        /\ IsFiniteSet(S) /\ base \in V /\ Choosing(c, S)
        /\ h \in [SUBSET S -> V] /\ Folds(h, S, base, G, c) /\ Follows(k, S, V, base, G, c)
        => \A s \in SUBSET S : h[s] = k[s]
<1> TAKE S, V, base, G, c, h, k
<1> HAVE /\ IsFiniteSet(S) /\ base \in V /\ Choosing(c, S)
         /\ h \in [SUBSET S -> V] /\ Folds(h, S, base, G, c) /\ Follows(k, S, V, base, G, c)
<1> DEFINE C == {s \in SUBSET S : h[s] = k[s]}
<1>1. ASSUME NEW T \in SUBSET S, \A R \in SUBSET T : R # T => R \in C
      PROVE  T \in C
  <2>1. CASE T = {}
    BY <2>1 DEF Folds, Follows
  <2>2. CASE T # {}
    <3>1. c[T] \in T /\ T \ {c[T]} \in SUBSET T /\ T \ {c[T]} # T
      BY <2>2 DEF Choosing
    <3>2. h[T \ {c[T]}] = k[T \ {c[T]}] /\ h[T \ {c[T]}] \in V
      BY <1>1, <3>1
    <3>3. h[T] = G[c[T]][h[T \ {c[T]}]] /\ k[T] = G[c[T]][k[T \ {c[T]}]]
      BY <2>2, <3>2 DEF Folds, Follows
    <3> QED BY <3>2, <3>3
  <2> QED BY <2>1, <2>2
<1>2. C \in SUBSET SUBSET S
  OBVIOUS
<1> HIDE DEF C
<1>3. \A T \in SUBSET S : T \in C
  BY <1>1, <1>2, AllParts
<1> QED BY <1>3 DEF C

-----------------------------------------------------------------------------
(* A fold over a sequence takes the last place first; its results from the  *)
(* first place on are a run.                                                *)
Topmost(s) == CHOOSE x \in s : \A y \in s : x >= y
Downward(n) == [s \in SUBSET (1 .. n) |-> Topmost(s)]
Runs(r, n, base, G) == r[0] = base /\ \A i \in 1 .. n : r[i] = G[i][r[i - 1]]

(* A set of numbers up to n that is not empty has a greatest.               *)
LEMMA LastNumber ==
    ASSUME NEW n \in Nat, NEW s \in SUBSET (0 .. n), s # {}
    PROVE  Topmost(s) \in s /\ \A y \in s : Topmost(s) >= y
<1> DEFINE T == {n - x : x \in s}
<1>1. T \in SUBSET Nat /\ T # {}
  <2>1. \A x \in s : n - x \in Nat
    OBVIOUS
  <2> QED BY <2>1
<1>2. PICK m \in T : \A y \in T : m <= y
  <2> HIDE DEF T
  <2> QED BY <1>1, FirstNumber
<1>3. PICK x \in s : m = n - x
  BY <1>2
<1>4. \A y \in s : x >= y
  <2> SUFFICES ASSUME NEW y \in s PROVE x >= y
    OBVIOUS
  <2>1. n - y \in T /\ x \in 0 .. n /\ y \in 0 .. n
    BY <1>3
  <2>2. n - x <= n - y
    BY <1>2, <1>3, <2>1
  <2> QED BY <2>1, <2>2
<1> QED BY <1>3, <1>4 DEF Topmost

LEMMA DownwardChooses ==
    ASSUME NEW n \in Nat
    PROVE  /\ Choosing(Downward(n), 1 .. n)
           /\ \A i \in 1 .. n : Downward(n)[1 .. i] = i
<1>1. ASSUME NEW s \in SUBSET (1 .. n), s # {}
      PROVE  Downward(n)[s] \in s /\ \A y \in s : Downward(n)[s] >= y
  <2>1. s \in SUBSET (0 .. n) /\ Downward(n)[s] = Topmost(s)
    BY DEF Downward
  <2> QED BY <1>1, <2>1, LastNumber
<1>2. ASSUME NEW i \in 1 .. n
      PROVE  Downward(n)[1 .. i] = i
  <2>1. 1 .. i \in SUBSET (1 .. n) /\ i \in 1 .. i
    OBVIOUS
  <2>2. Downward(n)[1 .. i] \in 1 .. i /\ Downward(n)[1 .. i] >= i
    BY <1>1, <2>1
  <2> QED BY <2>2
<1> QED BY <1>1, <1>2 DEF Choosing

(* What a fold over the places of a sequence comes to.                      *)
Stepping(G, n, V) == G \in [1 .. n -> [V -> V]]
RunOf(h, r, n, V, base, G) ==
    /\ h \in [SUBSET (1 .. n) -> V] /\ Folds(h, 1 .. n, base, G, Downward(n))
    /\ r \in [0 .. n -> V] /\ Runs(r, n, base, G)
    /\ \A k : Follows(k, 1 .. n, V, base, G, Downward(n)) => k[1 .. n] = r[n]

LEMMA FoldRuns ==
    \A n, V, base, G : n \in Nat /\ base \in V /\ Stepping(G, n, V) => \E h, r : RunOf(h, r, n, V, base, G)
<1> SUFFICES ASSUME NEW n \in Nat, NEW V, NEW base \in V, NEW G, Stepping(G, n, V)
             PROVE  \E h, r : RunOf(h, r, n, V, base, G)
  OBVIOUS
<1>0. G \in [1 .. n -> [V -> V]]
  BY DEF Stepping
<1> DEFINE S == 1 .. n  c == Downward(n)
<1>1. IsFiniteSet(S)
  BY FS_Interval
<1>2. Choosing(c, S) /\ \A i \in S : c[1 .. i] = i
  BY DownwardChooses
<1> HIDE DEF c
<1>3. PICK h \in [SUBSET S -> V] : Folds(h, S, base, G, c)
  BY <1>0, <1>1, <1>2, FoldExists
<1> DEFINE r == [i \in 0 .. n |-> h[1 .. i]]
<1>4. r \in [0 .. n -> V]
  OBVIOUS
<1>5. Runs(r, n, base, G)
  <2>1. r[0] = base
    <3>1. 1 .. 0 = {} /\ {} \in SUBSET S /\ 0 \in 0 .. n
      OBVIOUS
    <3> QED BY <1>3, <3>1 DEF Folds
  <2>2. ASSUME NEW i \in 1 .. n
        PROVE  r[i] = G[i][r[i - 1]]
    <3>1. i \in Nat /\ 1 <= i /\ i <= n /\ i \in 0 .. n /\ i - 1 \in 0 .. n /\ i \in 1 .. i
      OBVIOUS
    <3>a. 1 .. i \in SUBSET S /\ 1 .. i # {}
      <4>1. \A x \in 1 .. i : x \in 1 .. n
        BY <3>1
      <4> QED BY <3>1, <4>1
    <3>b. (1 .. i) \ {i} = 1 .. i - 1
      BY <3>1
    <3>2. h[1 .. i] = G[i][h[(1 .. i) \ {i}]]
      BY <1>2, <1>3, <3>a DEF Folds
    <3> QED BY <3>1, <3>b, <3>2
  <2> HIDE DEF r
  <2> QED BY <2>1, <2>2 DEF Runs
<1>6. ASSUME NEW k, Follows(k, S, V, base, G, c)
      PROVE  k[1 .. n] = r[n]
  <2>1. \A s \in SUBSET S : h[s] = k[s]
    <3> HIDE DEF r
    <3>1. /\ IsFiniteSet(S) /\ base \in V /\ Choosing(c, S)
          /\ h \in [SUBSET S -> V] /\ Folds(h, S, base, G, c) /\ Follows(k, S, V, base, G, c)
      BY <1>1, <1>2, <1>3, <1>6
    <3> DEFINE Agree(T, W, b, F, d, g, q) ==
                   /\ IsFiniteSet(T) /\ b \in W /\ Choosing(d, T)
                   /\ g \in [SUBSET T -> W] /\ Folds(g, T, b, F, d) /\ Follows(q, T, W, b, F, d)
    <3>2. Agree(S, V, base, G, c, h, k)
      BY <3>1
    <3>3. \A T, W, b, F, d, g, q : Agree(T, W, b, F, d, g, q) => \A s \in SUBSET T : g[s] = q[s]
      BY FoldUnique
    <3> HIDE DEF S, Agree
    <3> QED BY ONLY <3>2, <3>3
  <2> QED BY <2>1
<1> HIDE DEF r
<1>7. RunOf(h, r, n, V, base, G)
  BY <1>3, <1>4, <1>5, <1>6 DEF c, RunOf
<1> QED BY <1>7

(* Runs that take the same steps come to the same.                          *)
SameSteps(r, n, G, H) == \A i \in 1 .. n : G[i][r[i - 1]] = H[i][r[i - 1]]

LEMMA RunsAgree ==
    \A n, base, G, H, r, q :
        n \in Nat /\ Runs(r, n, base, G) /\ Runs(q, n, base, H) /\ SameSteps(r, n, G, H) =>
            \A i \in 0 .. n : r[i] = q[i]
<1> SUFFICES ASSUME NEW n \in Nat, NEW base, NEW G, NEW H, NEW r, NEW q,
                    Runs(r, n, base, G), Runs(q, n, base, H), SameSteps(r, n, G, H)
             PROVE  \A i \in 0 .. n : r[i] = q[i]
  OBVIOUS
<1> DEFINE T == {i \in Nat : i <= n => r[i] = q[i]}
<1>1. T \in SUBSET Nat /\ 0 \in T
  BY DEF Runs
<1>2. ASSUME NEW i \in T
      PROVE  i + 1 \in T
  <2>1. i + 1 \in Nat /\ i \in Nat /\ i + 1 - 1 = i
    BY <1>1
  <2>2. ASSUME i + 1 <= n
        PROVE  r[i + 1] = q[i + 1]
    <3>1. i + 1 \in 1 .. n /\ r[i] = q[i]
      BY <2>1, <2>2
    <3>2. r[i + 1] = G[i + 1][r[i]] /\ q[i + 1] = H[i + 1][q[i]] /\ G[i + 1][r[i]] = H[i + 1][r[i]]
      BY <2>1, <3>1 DEF Runs, SameSteps
    <3> QED BY <3>1, <3>2
  <2> QED BY <2>1, <2>2
<1> HIDE DEF T
<1>3. T = Nat
  BY <1>1, <1>2, AllNumbers
<1> QED BY <1>3 DEF T
=============================================================================
