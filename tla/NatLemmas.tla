----------------------------- MODULE NatLemmas -----------------------------
(***************************************************************************)
(* What the proofs of several components need of the natural numbers:      *)
(* least elements, induction over a set of naturals, functions that are    *)
(* defined step by step, division.  Induction is stated with a set instead *)
(* of a predicate: to show P(n) for every n, cite it for {n \in Nat : P(n)}.*)
(***************************************************************************)
EXTENDS Integers, WellFoundedInduction, TLAPS

\* A nonempty set of naturals has a least element.
LEMMA LeastNat ==
  ASSUME NEW S, S \subseteq Nat, S # {}
  PROVE  \E x \in S : \A y \in S : x <= y
<1> DEFINE R == OpToRel(<, Nat)
<1>1. IsWellFoundedOn(R, Nat)
  BY NatLessThanWellFounded
<1>2. \A x, y \in Nat : x < y => <<x, y>> \in R
  BY DEF OpToRel
<1> HIDE DEF R
<1>3. \E x \in S : \A y \in S : ~ (<<y, x>> \in R)
  BY <1>1, WFMin, Zenon
<1>4. PICK x \in S : \A y \in S : ~ (<<y, x>> \in R)
  BY <1>3
<1>5. \A y \in S : ~(y < x)
  BY <1>2, <1>4
<1> QED BY <1>5

\* A set that has 0, and n + 1 whenever it has n, has every natural.
LEMMA Induction ==
  ASSUME NEW S, 0 \in S, \A n \in Nat : n \in S => n + 1 \in S
  PROVE  \A n \in Nat : n \in S
<1> SUFFICES ASSUME NEW m \in Nat, m \notin S PROVE FALSE
  OBVIOUS
<1> DEFINE Out == {n \in Nat : n \notin S}
<1>1. PICK x \in Out : \A y \in Out : x <= y
  <2>1. Out \subseteq Nat /\ Out # {}
    OBVIOUS
  <2> HIDE DEF Out
  <2> QED BY <2>1, LeastNat
<1>2. x # 0 /\ x \in Nat
  BY <1>1
<1>3. x - 1 \in Nat /\ ~(x <= x - 1) /\ x - 1 + 1 = x
  BY <1>2
<1>4. x - 1 \in S
  BY <1>1, <1>3
<1> QED BY <1>1, <1>3, <1>4

\* A function can be defined by its value at 0 and a step from each value to the next.
LEMMA Iterate ==
  ASSUME NEW S, NEW a \in S, NEW step \in [Nat -> [S -> S]]
  PROVE  \E f \in [Nat -> S] : f[0] = a /\ \A n \in Nat : f[n + 1] = step[n][f[n]]
<1> DEFINE Approx(n) ==
             {g \in [0 .. n -> S] : g[0] = a /\ \A m \in 0 .. n - 1 : g[m + 1] = step[m][g[m]]}
<1>1. ASSUME NEW n \in Nat, NEW k \in Nat, NEW g \in Approx(n), NEW h \in Approx(k),
             NEW i \in Nat, i <= n, i <= k
      PROVE  g[i] = h[i]
  <2> DEFINE Same == {j \in Nat : j <= n /\ j <= k => g[j] = h[j]}
  <2>1. 0 \in Same
    OBVIOUS
  <2>2. ASSUME NEW j \in Nat, j \in Same PROVE j + 1 \in Same
    <3> SUFFICES ASSUME j + 1 <= n, j + 1 <= k PROVE g[j + 1] = h[j + 1]
      OBVIOUS
    <3>1. g[j] = h[j] /\ j \in 0 .. n - 1 /\ j \in 0 .. k - 1
      BY <2>2
    <3> QED BY <3>1
  <2> HIDE DEF Same
  <2>3. i \in Same
    BY <2>1, <2>2, Induction
  <2> QED BY <2>3, <1>1 DEF Same
<1>2. \A n \in Nat : Approx(n) # {}
  <2> DEFINE Have == {n \in Nat : Approx(n) # {}}
  <2>1. 0 \in Have
    <3>1. [i \in 0 .. 0 |-> a] \in Approx(0)
      OBVIOUS
    <3> QED BY <3>1
  <2>2. ASSUME NEW n \in Nat, n \in Have PROVE n + 1 \in Have
    <3>1. PICK g : g \in Approx(n)
      BY <2>2
    <3> DEFINE h == [i \in 0 .. n + 1 |-> IF i <= n THEN g[i] ELSE step[n][g[n]]]
    <3>2. g \in [0 .. n -> S] /\ g[0] = a /\ \A m \in 0 .. n - 1 : g[m + 1] = step[m][g[m]]
      BY <3>1
    <3>3. step[n][g[n]] \in S
      BY <3>2
    <3>4. h \in [0 .. n + 1 -> S] /\ h[0] = a
      BY <3>2, <3>3
    <3>5. ASSUME NEW m \in 0 .. n PROVE h[m + 1] = step[m][h[m]]
      <4>1. CASE m = n
        <5>1. h[m] = g[n] /\ h[m + 1] = step[n][g[n]]
          BY <4>1
        <5> QED BY <5>1, <4>1
      <4>2. CASE m # n
        <5>1. m \in 0 .. n - 1
          BY <4>2
        <5>2. h[m] = g[m] /\ h[m + 1] = g[m + 1]
          BY <5>1
        <5> QED BY <5>1, <5>2, <3>2
      <4> QED BY <4>1, <4>2
    <3> HIDE DEF h
    <3>6. h \in Approx(n + 1)
      BY <3>4, <3>5
    <3> QED BY <3>6
  <2> HIDE DEF Have
  <2>3. \A n \in Nat : n \in Have
    BY <2>1, <2>2, Induction
  <2> QED BY <2>3 DEF Have
<1> DEFINE best == [n \in Nat |-> CHOOSE g : g \in Approx(n)]
           f == [n \in Nat |-> best[n][n]]
<1>3. \A n \in Nat : best[n] \in Approx(n)
  <2> HIDE DEF Approx
  <2> QED BY <1>2
<1> HIDE DEF best
<1>4. \A n \in Nat : best[n][n] \in S
  BY <1>3
<1>5. f \in [Nat -> S] /\ \A n \in Nat : f[n] = best[n][n]
  BY <1>4
<1> HIDE DEF f
<1>6. f[0] = a
  BY <1>3, <1>5
<1>7. ASSUME NEW n \in Nat PROVE f[n + 1] = step[n][f[n]]
  <2>1. best[n] \in Approx(n) /\ best[n + 1] \in Approx(n + 1)
    <3> HIDE DEF Approx
    <3>1. n + 1 \in Nat
      OBVIOUS
    <3> QED BY <1>3, <3>1
  <2>2. best[n + 1][n] = best[n][n]
    <3> HIDE DEF Approx
    <3>1. n <= n /\ n <= n + 1 /\ n + 1 \in Nat
      OBVIOUS
    <3> QED BY <1>1, <2>1, <3>1
  <2>3. best[n + 1][n + 1] = step[n][best[n + 1][n]]
    <3>1. n \in 0 .. n + 1 - 1
      OBVIOUS
    <3> QED BY <2>1, <3>1
  <2> QED BY <2>2, <2>3, <1>5
<1> QED BY <1>5, <1>6, <1>7

\* The same over 0 .. N.
LEMMA Recursion ==
  ASSUME NEW S, NEW a \in S, NEW N \in Nat
  PROVE  \A step \in [1 .. N -> [S -> S]] : \E f \in [0 .. N -> S] :
           f[0] = a /\ \A n \in 1 .. N : f[n] = step[n][f[n - 1]]
<1> DEFINE T == [Nat -> [S -> S]]
<1>1. \A st \in T : \E f \in [Nat -> S] : f[0] = a /\ \A n \in Nat : f[n + 1] = st[n][f[n]]
  BY Iterate
<1> HIDE DEF T
<1> TAKE step \in [1 .. N -> [S -> S]]
<1> DEFINE on == [n \in Nat |-> IF n + 1 \in 1 .. N THEN step[n + 1] ELSE [x \in S |-> x]]
<1>2. on \in T
  BY DEF T
<1> HIDE DEF on
<1>3. PICK f \in [Nat -> S] : f[0] = a /\ \A n \in Nat : f[n + 1] = on[n][f[n]]
  BY <1>1, <1>2
<1> DEFINE g == [n \in 0 .. N |-> f[n]]
<1>4. g \in [0 .. N -> S]
  OBVIOUS
<1>5. ASSUME NEW n \in 1 .. N PROVE g[n] = step[n][g[n - 1]]
  <2>1. n - 1 \in Nat /\ n - 1 + 1 = n /\ n \in 0 .. N /\ n - 1 \in 0 .. N
    OBVIOUS
  <2>2. f[n] = on[n - 1][f[n - 1]]
    BY <1>3, <2>1
  <2>3. on[n - 1] = step[n]
    BY <2>1 DEF on
  <2> QED BY <2>1, <2>2, <2>3
<1>6. g[0] = a
  BY <1>3
<1> HIDE DEF g
<1> QED BY <1>4, <1>5, <1>6

\* What the quotient and the remainder are.
LEMMA DivMod ==
  ASSUME NEW a \in Nat, NEW b \in Nat \ {0}
  PROVE  /\ a \div b \in Nat /\ a % b \in 0 .. b - 1
         /\ a = b * (a \div b) + (a % b)
OBVIOUS

\* Quotient and remainder are unique.
LEMMA Unique ==
  ASSUME NEW b \in Nat \ {0}, NEW q \in Int, NEW p \in Int,
         NEW r \in 0 .. b - 1, NEW s \in 0 .. b - 1, b * q + r = b * p + s
  PROVE  q = p /\ r = s
<1>1. ASSUME NEW x \in Int, NEW y \in Int, x > y PROVE b * x >= b * y + b
  <2>1. PICK d \in Nat : x = y + 1 + d
    <3>1. (x - y) - 1 \in Nat /\ x = y + 1 + ((x - y) - 1)
      BY <1>1
    <3> QED BY <3>1
  <2>2. b * x = b * y + b + b * d
    BY <2>1
  <2>3. b * d >= 0
    OBVIOUS
  <2>4. b * x \in Int /\ b * y \in Int /\ b * d \in Int
    OBVIOUS
  <2> QED BY <2>2, <2>3, <2>4
<1>2. b * q \in Int /\ b * p \in Int
  OBVIOUS
<1>3. ~(q > p)
  <2>1. ASSUME q > p PROVE FALSE
    <3>1. b * q >= b * p + b
      BY <2>1, <1>1
    <3> QED BY <3>1, <1>2
  <2> QED BY <2>1
<1>4. ~(p > q)
  <2>1. ASSUME p > q PROVE FALSE
    <3>1. b * p >= b * q + b
      BY <2>1, <1>1
    <3> QED BY <3>1, <1>2
  <2> QED BY <2>1
<1>5. q = p
  BY <1>3, <1>4
<1> QED BY <1>2, <1>5
=============================================================================
