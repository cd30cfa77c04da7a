------------------------- MODULE SequenceInduction -------------------------
(***************************************************************************)
(* Induction over sequences.  The loops of the program over a string, an   *)
(* array or a list are folds (FoldLeft) and recursive functions of an      *)
(* index in the model; op is the body of the loop, and a module that       *)
(* proves about a loop instantiates this one with it.                      *)
(*                                                                         *)
(* Such a definition chooses the function that satisfies its recursion     *)
(* equation: that there is one is shown first, then that what holds when   *)
(* the loop begins, and is kept by each round, holds when it ends.         *)
(***************************************************************************)
EXTENDS Naturals, SequencesExt, WellFoundedInduction, TLAPS

CONSTANT op(_, _)

\* Induction on the natural numbers, for a set.
LEMMA SetInduction ==
  ASSUME NEW S, 0 \in S, \A n \in Nat : n \in S => n + 1 \in S
  PROVE  Nat \subseteq S
  <1> SUFFICES ASSUME Nat \ S # {} PROVE FALSE
    OBVIOUS
  <1>1. PICK n \in Nat \ S : \A m \in Nat \ S : ~ (<<m, n>> \in OpToRel(<, Nat))
    <2>1. Nat \ S \subseteq Nat
      OBVIOUS
    <2> QED BY <2>1, NatLessThanWellFounded, WFMin
  <1>2. n # 0
    OBVIOUS
  <1>3. n - 1 \in Nat /\ n - 1 \notin S
    BY <1>2
  <1>4. <<n - 1, n>> \in OpToRel(<, Nat)
    BY <1>3 DEF OpToRel
  <1> QED BY <1>1, <1>3, <1>4

-----------------------------------------------------------------------------
(* Recursive functions of an index *)

\* g is the function of the rounds m .. n: g[i] is the value behind round i.
Iterates(g, base, seq, m, n) ==
    g = [i \in m .. n |-> IF i = m THEN base ELSE op(g[i - 1], seq[i])]

LEMMA IterationExists ==
  ASSUME NEW base, NEW seq, NEW m \in Nat, NEW n \in Nat, m <= n
  PROVE  \E g : Iterates(g, base, seq, m, n)
  <1> DEFINE S == {k \in Nat : \E g : Iterates(g, base, seq, m, m + k)}
  <1>1. 0 \in S
    <2>1. Iterates([i \in m .. m + 0 |-> base], base, seq, m, m + 0)
      BY DEF Iterates
    <2> QED BY <2>1
  <1>2. \A k \in Nat : k \in S => k + 1 \in S
    <2> SUFFICES ASSUME NEW k \in Nat, k \in S PROVE k + 1 \in S
      OBVIOUS
    <2>1. PICK g : Iterates(g, base, seq, m, m + k)
      OBVIOUS
    <2> DEFINE h == [i \in m .. m + (k + 1) |->
                       IF i = m + (k + 1) THEN op(g[m + k], seq[i]) ELSE g[i]]
               r == [i \in m .. m + (k + 1) |->
                       IF i = m THEN base ELSE op(h[i - 1], seq[i])]
    <2>2. ASSUME NEW i \in m .. m + (k + 1)
          PROVE  h[i] = r[i]
      <3>1. CASE i = m + (k + 1)
        <4>1. i - 1 = m + k /\ i - 1 \in m .. m + (k + 1) /\ i # m
          BY <3>1
        <4>2. h[i - 1] = g[m + k]
          BY <4>1
        <4>3. h[i] = op(g[m + k], seq[i])
          BY <3>1
        <4>4. r[i] = op(h[i - 1], seq[i])
          <5> HIDE DEF h
          <5> QED BY <4>1
        <4> QED BY <4>2, <4>3, <4>4
      <3>2. CASE i \in m .. m + k /\ i # m
        <4>1. i - 1 \in m .. m + k /\ i - 1 \in m .. m + (k + 1) /\ i # m + (k + 1)
          BY <3>2
        <4>2. h[i] = g[i] /\ h[i - 1] = g[i - 1]
          <5>1. i - 1 # m + (k + 1)
            BY <4>1
          <5> QED BY <4>1, <5>1
        <4>3. g[i] = op(g[i - 1], seq[i])
          <5> HIDE DEF h, r
          <5> QED BY <2>1, <3>2 DEF Iterates
        <4>4. r[i] = op(h[i - 1], seq[i])
          <5> HIDE DEF h
          <5> QED BY <3>2
        <4> QED BY <4>2, <4>3, <4>4
      <3>3. CASE i = m
        <4>1. h[i] = g[i] /\ r[i] = base
          BY <3>3
        <4>2. g[i] = base
          <5> HIDE DEF h, r
          <5> QED BY <2>1, <3>3 DEF Iterates
        <4> QED BY <4>1, <4>2
      <3> QED BY <3>1, <3>2, <3>3
    <2>3. h = r
      <3>1. h = [i \in m .. m + (k + 1) |-> h[i]] /\ r = [i \in m .. m + (k + 1) |-> r[i]]
        OBVIOUS
      <3> HIDE DEF h, r
      <3> QED BY <2>2, <3>1
    <2>4. Iterates(h, base, seq, m, m + (k + 1))
      BY <2>3 DEF Iterates
    <2> HIDE DEF h
    <2> QED BY <2>4
  <1> HIDE DEF S
  <1>3. n - m \in S
    BY <1>1, <1>2, SetInduction
  <1>4. m + (n - m) = n
    OBVIOUS
  <1> QED BY <1>3, <1>4 DEF S

\* A function of an index satisfies its recursion equation.
LEMMA IterationEquation ==
  ASSUME NEW base, NEW seq, NEW m \in Nat, NEW n \in Nat, m <= n,
         NEW g, Iterates(g, base, seq, m, n)
  PROVE  /\ g[m] = base
         /\ \A i \in m + 1 .. n : g[i] = op(g[i - 1], seq[i])
  <1>1. g[m] = base
    <2>1. m \in m .. n
      OBVIOUS
    <2> QED BY <2>1 DEF Iterates
  <1>2. ASSUME NEW i \in m + 1 .. n PROVE g[i] = op(g[i - 1], seq[i])
    <2>1. i \in m .. n /\ i # m
      OBVIOUS
    <2> QED BY <2>1 DEF Iterates
  <1> QED BY <1>1, <1>2

\* What holds at the start and is kept by every round holds at the end.
LEMMA IterationKeeps ==
  ASSUME NEW T, NEW base \in T, NEW seq, NEW m \in Nat, NEW n \in Nat, m <= n,
         \A x \in T, i \in m + 1 .. n : op(x, seq[i]) \in T,
         NEW g, Iterates(g, base, seq, m, n)
  PROVE  g[n] \in T
  <1>1. /\ g[m] = base
        /\ \A i \in m + 1 .. n : g[i] = op(g[i - 1], seq[i])
    BY ONLY IterationEquation, m \in Nat, n \in Nat, m <= n, Iterates(g, base, seq, m, n)
  <1> DEFINE S == {k \in Nat : m + k <= n => g[m + k] \in T}
  <1>2. 0 \in S
    BY <1>1
  <1>3. \A k \in Nat : k \in S => k + 1 \in S
    <2> SUFFICES ASSUME NEW k \in Nat, k \in S, m + (k + 1) <= n
                 PROVE  g[m + (k + 1)] \in T
      OBVIOUS
    <2>1. g[m + k] \in T /\ m + (k + 1) \in m + 1 .. n /\ (m + (k + 1)) - 1 = m + k
      OBVIOUS
    <2> QED BY <1>1, <2>1
  <1> HIDE DEF S
  <1>4. n - m \in S
    BY <1>2, <1>3, SetInduction
  <1>5. m + (n - m) = n
    OBVIOUS
  <1> QED BY <1>4, <1>5 DEF S

\* The same for the rounds a + 1 .. b among them, with an invariant that counts: T[k]
\* has what there may be behind the round k.
LEMMA IterationReaches ==
  ASSUME NEW T, NEW base, NEW seq, NEW m \in Nat, NEW n \in Nat, m <= n,
         NEW g, Iterates(g, base, seq, m, n),
         NEW a \in m .. n, NEW b \in a .. n, g[a] \in T[a],
         \A k \in a + 1 .. b : \A x \in T[k - 1] : op(x, seq[k]) \in T[k]
  PROVE  g[b] \in T[b]
  <1>1. \A i \in m + 1 .. n : g[i] = op(g[i - 1], seq[i])
    BY ONLY IterationEquation, m \in Nat, n \in Nat, m <= n, Iterates(g, base, seq, m, n)
  <1> DEFINE S == {k \in Nat : a + k <= b => g[a + k] \in T[a + k]}
  <1>2. 0 \in S
    OBVIOUS
  <1>3. \A k \in Nat : k \in S => k + 1 \in S
    <2> SUFFICES ASSUME NEW k \in Nat, k \in S, a + (k + 1) <= b
                 PROVE  g[a + (k + 1)] \in T[a + (k + 1)]
      OBVIOUS
    <2> DEFINE i == a + (k + 1)
    <2>1. g[a + k] \in T[a + k] /\ i \in a + 1 .. b /\ i \in m + 1 .. n /\ i - 1 = a + k
      OBVIOUS
    <2> HIDE DEF i
    <2>2. g[i] = op(g[i - 1], seq[i]) /\ g[i - 1] \in T[i - 1]
      BY <1>1, <2>1
    <2>3. g[i] \in T[i]
      BY <2>1, <2>2
    <2> QED BY <2>3 DEF i
  <1> HIDE DEF S
  <1>4. b - a \in S /\ a + (b - a) = b
    BY <1>2, <1>3, SetInduction
  <1> QED BY <1>4 DEF S

-----------------------------------------------------------------------------
(* FoldLeft *)

\* g is the function that FoldLeft chooses, of the sets of indices up to k.
Folds(g, base, seq, k) ==
    g = [s \in SUBSET (1 .. k) |->
           IF s = {} THEN base ELSE op(g[s \ {Max(s)}], seq[Max(s)])]

LEMMA FoldExists ==
  ASSUME NEW base, NEW seq
  PROVE  \A k \in Nat : \E g : Folds(g, base, seq, k)
  <1> DEFINE S == {k \in Nat : \E g : Folds(g, base, seq, k)}
  <1>1. 0 \in S
    <2>1. Folds([s \in SUBSET (1 .. 0) |-> base], base, seq, 0)
      BY DEF Folds
    <2> QED BY <2>1
  <1>2. \A k \in Nat : k \in S => k + 1 \in S
    <2> SUFFICES ASSUME NEW k \in Nat, k \in S PROVE k + 1 \in S
      OBVIOUS
    <2>1. PICK g : Folds(g, base, seq, k)
      OBVIOUS
    <2> DEFINE h == [s \in SUBSET (1 .. k + 1) |->
                       IF k + 1 \in s THEN op(g[s \ {k + 1}], seq[k + 1]) ELSE g[s]]
    <2>2. ASSUME NEW s \in SUBSET (1 .. k + 1)
          PROVE  h[s] = IF s = {} THEN base ELSE op(h[s \ {Max(s)}], seq[Max(s)])
      <3>1. CASE k + 1 \in s
        <4>1. Max(s) = k + 1
          <5>1. \A x \in s : x \in Int /\ k + 1 >= x
            OBVIOUS
          <5>2. \A x \in s : (\A y \in s : x >= y) <=> x = k + 1
            BY <3>1, <5>1
          <5> QED BY <3>1, <5>2 DEF Max
        <4>2. h[s \ {k + 1}] = g[s \ {k + 1}]
          OBVIOUS
        <4> QED BY <3>1, <4>1, <4>2
      <3>2. CASE k + 1 \notin s
        <4>1. s \in SUBSET (1 .. k) /\ s \ {Max(s)} \in SUBSET (1 .. k)
          <5>1. \A x \in s : x \in 1 .. k
            BY <3>2
          <5> QED BY <5>1
        <4>2. g[s] = IF s = {} THEN base ELSE op(g[s \ {Max(s)}], seq[Max(s)])
          <5> HIDE DEF h
          <5> QED BY <2>1, <4>1 DEF Folds
        <4>3. h[s] = g[s] /\ h[s \ {Max(s)}] = g[s \ {Max(s)}]
          BY <3>2, <4>1
        <4> QED BY <4>2, <4>3
      <3> QED BY <3>1, <3>2
    <2>3. Folds(h, base, seq, k + 1)
      <3> DEFINE r == [s \in SUBSET (1 .. k + 1) |->
                         IF s = {} THEN base ELSE op(h[s \ {Max(s)}], seq[Max(s)])]
      <3>1. \A s \in SUBSET (1 .. k + 1) : h[s] = r[s]
        <4> HIDE DEF h
        <4> QED BY <2>2
      <3>2. h = r
        <4>1. DOMAIN h = SUBSET (1 .. k + 1) /\ DOMAIN r = SUBSET (1 .. k + 1)
          OBVIOUS
        <4>2. h = [s \in DOMAIN h |-> h[s]] /\ r = [s \in DOMAIN r |-> r[s]]
          OBVIOUS
        <4> HIDE DEF h, r
        <4> QED BY <3>1, <4>1, <4>2
      <3> QED BY <3>2 DEF Folds
    <2> QED BY <2>3
  <1> HIDE DEF S
  <1>3. Nat \subseteq S
    BY <1>1, <1>2, SetInduction
  <1> QED BY <1>3 DEF S

LEMMA FoldStep ==
  ASSUME NEW base, NEW seq, NEW g, NEW k \in Nat, Folds(g, base, seq, k)
  PROVE  /\ g[{}] = base
         /\ \A i \in 1 .. k : g[1 .. i] = op(g[1 .. i - 1], seq[i])
  <1>1. g[{}] = base
    BY DEF Folds
  <1>2. ASSUME NEW i \in 1 .. k
        PROVE  g[1 .. i] = op(g[1 .. i - 1], seq[i])
    <2>1. 1 .. i \in SUBSET (1 .. k) /\ 1 .. i # {}
      OBVIOUS
    <2>2. Max(1 .. i) = i
      BY DEF Max
    <2>3. (1 .. i) \ {i} = 1 .. i - 1
      OBVIOUS
    <2> QED BY <2>1, <2>2, <2>3 DEF Folds
  <1> QED BY <1>1, <1>2

\* What holds at the start and is kept by every round holds of the fold, and the
\* fold of a sequence that is not empty ends in a round.
LEMMA FoldKeeps ==
  ASSUME NEW E, NEW seq \in Seq(E), NEW T, NEW base \in T,
         \A x \in T, i \in 1 .. Len(seq) : op(x, seq[i]) \in T
  PROVE  /\ FoldLeft(op, base, seq) \in T
         /\ Len(seq) > 0 => \E x \in T : FoldLeft(op, base, seq) = op(x, seq[Len(seq)])
  <1> DEFINE n == Len(seq)
             g == CHOOSE h : Folds(h, base, seq, n)
  <1>1. n \in Nat /\ DOMAIN seq = 1 .. n
    OBVIOUS
  <1>2. Folds(g, base, seq, n)
    BY <1>1, FoldExists
  <1>3. FoldLeft(op, base, seq) = g[1 .. n]
    BY <1>1 DEF FoldLeft, MapThenFoldSet, Folds
  <1> HIDE DEF g
  <1> DEFINE S == {k \in Nat : k <= n => g[1 .. k] \in T}
  <1>4. 0 \in S
    <2>1. 1 .. 0 = {}
      OBVIOUS
    <2> QED BY <1>1, <1>2, <2>1, FoldStep
  <1>5. \A k \in Nat : k \in S => k + 1 \in S
    <2> SUFFICES ASSUME NEW k \in Nat, k \in S, k + 1 <= n PROVE g[1 .. k + 1] \in T
      OBVIOUS
    <2>1. g[1 .. k] \in T /\ k + 1 \in 1 .. n /\ (k + 1) - 1 = k
      BY <1>1
    <2> QED BY <1>1, <1>2, <2>1, FoldStep
  <1> HIDE DEF S
  <1>6. \A k \in 0 .. n : g[1 .. k] \in T
    <2>1. Nat \subseteq S
      BY <1>4, <1>5, SetInduction
    <2> QED BY <1>1, <2>1 DEF S
  <1>7. ASSUME n > 0 PROVE g[1 .. n - 1] \in T /\ g[1 .. n] = op(g[1 .. n - 1], seq[n])
    <2>1. n \in 1 .. n /\ n - 1 \in 0 .. n
      BY <1>1, <1>7
    <2> QED BY <1>1, <1>2, <1>6, <2>1, FoldStep
  <1>8. g[1 .. n] \in T
    BY <1>1, <1>6
  <1> QED BY <1>3, <1>7, <1>8

\* The same with an invariant that counts the rounds: T[k] has what there may be behind
\* the round k.
LEMMA FoldReaches ==
  ASSUME NEW E, NEW seq \in Seq(E), NEW T, NEW base \in T[0],
         \A k \in 1 .. Len(seq) : \A x \in T[k - 1] : op(x, seq[k]) \in T[k]
  PROVE  FoldLeft(op, base, seq) \in T[Len(seq)]
  <1> DEFINE n == Len(seq)
             g == CHOOSE h : Folds(h, base, seq, n)
  <1>1. n \in Nat /\ DOMAIN seq = 1 .. n
    OBVIOUS
  <1>2. Folds(g, base, seq, n)
    BY <1>1, FoldExists
  <1>3. FoldLeft(op, base, seq) = g[1 .. n]
    BY <1>1 DEF FoldLeft, MapThenFoldSet, Folds
  <1> HIDE DEF g
  <1> DEFINE S == {k \in Nat : k <= n => g[1 .. k] \in T[k]}
  <1>4. 0 \in S
    <2>1. 1 .. 0 = {}
      OBVIOUS
    <2> QED BY <1>1, <1>2, <2>1, FoldStep
  <1>5. \A k \in Nat : k \in S => k + 1 \in S
    <2> SUFFICES ASSUME NEW k \in Nat, k \in S, k + 1 <= n PROVE g[1 .. k + 1] \in T[k + 1]
      OBVIOUS
    <2>1. g[1 .. k] \in T[k] /\ k + 1 \in 1 .. n /\ (k + 1) - 1 = k
      BY <1>1
    <2>2. g[1 .. k + 1] = op(g[1 .. k], seq[k + 1])
      BY <1>1, <1>2, <2>1, FoldStep
    <2> QED BY <2>1, <2>2
  <1> HIDE DEF S
  <1>6. n \in S
    BY <1>1, <1>4, <1>5, SetInduction
  <1> QED BY <1>3, <1>6 DEF S

-----------------------------------------------------------------------------
(* Least elements *)

\* Nonempty sets of natural numbers have a least element.
LEMMA LeastExists ==
  ASSUME NEW S \in SUBSET Nat, S # {}
  PROVE  Min(S) \in S /\ \A y \in S : Min(S) <= y
  <1>1. PICK n \in S : \A m \in S : ~ (<<m, n>> \in OpToRel(<, Nat))
    BY NatLessThanWellFounded, WFMin
  <1>2. \A m \in S : n <= m
    <2> SUFFICES ASSUME NEW m \in S, ~ (n <= m) PROVE FALSE
      OBVIOUS
    <2>1. m \in Nat /\ n \in Nat /\ m < n
      OBVIOUS
    <2>2. <<m, n>> \in OpToRel(<, Nat)
      BY <2>1 DEF OpToRel
    <2> QED BY <1>1, <2>2
  <1> QED BY <1>2 DEF Min

=============================================================================
