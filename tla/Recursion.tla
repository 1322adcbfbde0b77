------------------------------ MODULE Recursion ------------------------------
(***************************************************************************)
(* Induction and recursion, for the proofs about functions that are        *)
(* defined by recursion.  Induction goes through sets of numbers, and a    *)
(* step of a recursion is a function: the prover applies no theorem whose  *)
(* parameter is an operator.                                               *)
(***************************************************************************)
EXTENDS Integers, Sequences, SequenceTheorems, WellFoundedInduction, TLAPS

\* A set of naturals that is not empty has a least element.
LEMMA Least ==
    ASSUME NEW T \in SUBSET Nat, T # {}
    PROVE  \E x \in T : \A y \in T : x <= y
<1> DEFINE R == OpToRel(<, Nat)
<1>1. IsWellFoundedOn(R, Nat)  BY NatLessThanWellFounded
<1>2. PICK x \in T : \A y \in T : ~(<<y, x>> \in R)
  <2> HIDE DEF R
  <2> QED BY <1>1, WFMin, Zenon
<1>3. ASSUME NEW y \in T PROVE x <= y
  <2>1. ~(<<y, x>> \in R)  BY <1>2
  <2>2. x \in Nat /\ y \in Nat  OBVIOUS
  <2>3. ~(y < x)  BY <2>1, <2>2 DEF OpToRel
  <2> QED BY <2>2, <2>3
<1> QED BY <1>2, <1>3

\* Every natural is in a set that has one whenever it has all before it.
LEMMA Induction ==
    ASSUME NEW T,
           \A n \in Nat : (\A m \in Nat : m < n => m \in T) => n \in T
    PROVE  Nat \subseteq T
<1> SUFFICES ASSUME Nat \ T # {} PROVE FALSE  OBVIOUS
<1>1. PICK x \in Nat \ T : \A y \in Nat \ T : x <= y  BY Least
<1>2. \A m \in Nat : m < x => m \in T  BY <1>1
<1> QED BY <1>2, <1>1

\* Every natural is in a set that has 0, and has each one's successor.
LEMMA Successors ==
    ASSUME NEW T, 0 \in T, \A n \in Nat : n \in T => n + 1 \in T
    PROVE  Nat \subseteq T
<1> SUFFICES ASSUME Nat \ T # {} PROVE FALSE  OBVIOUS
<1>1. PICK x \in Nat \ T : \A y \in Nat \ T : x <= y  BY Least
<1>2. x # 0  OBVIOUS
<1>3. x - 1 \in Nat  BY <1>2
<1>4. x - 1 \in T  BY <1>1, <1>3
<1>5. (x - 1) + 1 = x  BY <1>1
<1> QED BY <1>3, <1>4, <1>5, <1>1

\* A function of the naturals may be defined from its value at a smaller
\* one: there is a function that its definition says it equals.
Solves(f, B, h, c, g) == f = [n \in Nat |-> IF n \in B THEN c[n] ELSE g[<<f[h[n]], n>>]]

LEMMA Recursion ==
    ASSUME NEW S, NEW B \in SUBSET Nat, NEW h \in [Nat -> Nat],
           NEW c \in [Nat -> S], NEW g \in [S \X Nat -> S],
           \A n \in Nat \ B : h[n] < n
    PROVE  \E f \in [Nat -> S] : Solves(f, B, h, c, g)
<1> DEFINE Step(f, n) == IF n \in B THEN c[n] ELSE g[<<f[h[n]], n>>]
           Upto(f, k) == f \in [0 .. k -> S] /\ \A n \in 0 .. k : f[n] = Step(f, n)
<1>0. ASSUME NEW k \in Nat, NEW f \in [0 .. k - 1 -> S], NEW n \in 0 .. k PROVE Step(f, n) \in S
  <2>1. CASE n \in B  BY <2>1
  <2>2. CASE n \notin B
    <3>1. h[n] \in 0 .. k - 1
      <4>1. h[n] \in Nat /\ h[n] < n  BY <2>2
      <4> QED BY <4>1
    <3>2. f[h[n]] \in S /\ n \in Nat  BY <3>1
    <3>4. <<f[h[n]], n>> \in S \X Nat  BY <3>2
    <3>3. g[<<f[h[n]], n>>] \in S  BY <3>4
    <3> QED BY <2>2, <3>3
  <2> QED BY <2>1, <2>2
<1>1. \A k \in Nat : \E f : Upto(f, k)
  <2> DEFINE T == {k \in Nat : \E f : Upto(f, k)}
  <2>1. 0 \in T
    <3>1. 0 \in B
      <4>1. h[0] \in Nat /\ ~(h[0] < 0)  OBVIOUS
      <4> QED BY <4>1
    <3> DEFINE z == [n \in 0 .. 0 |-> c[0]]
    <3>2. Upto(z, 0)  BY <3>1
    <3> QED BY <3>2
  <2>2. ASSUME NEW k \in Nat, k \in T PROVE k + 1 \in T
    <3>1. PICK f : Upto(f, k)  BY <2>2
    <3> DEFINE e == [n \in 0 .. k + 1 |-> IF n = k + 1 THEN Step(f, k + 1) ELSE f[n]]
    <3>2. Step(f, k + 1) \in S
      <4>1. f \in [0 .. (k + 1) - 1 -> S]  BY <3>1
      <4>2. k + 1 \in Nat /\ k + 1 \in 0 .. k + 1  OBVIOUS
      <4> HIDE DEF Step
      <4> QED BY <1>0, <4>1, <4>2
    <3>3. e \in [0 .. k + 1 -> S]  BY <3>1, <3>2
    <3>4. ASSUME NEW n \in 0 .. k PROVE e[n] = f[n]  OBVIOUS
    <3>5. ASSUME NEW n \in 0 .. k + 1 PROVE Step(e, n) = Step(f, n)
      <4>1. CASE n \in B  BY <4>1
      <4>2. CASE n \notin B
        <5>1. h[n] \in 0 .. k  BY <4>2
        <5>2. e[h[n]] = f[h[n]]  BY <3>4, <5>1
        <5> HIDE DEF e
        <5> QED BY <4>2, <5>2
      <4> QED BY <4>1, <4>2
    <3>6. ASSUME NEW n \in 0 .. k + 1 PROVE e[n] = Step(e, n)
      <4>1. CASE n = k + 1
        <5>1. e[n] = Step(f, n)  BY <4>1
        <5> QED BY <5>1, <3>5
      <4>2. CASE n # k + 1
        <5>1. n \in 0 .. k  BY <4>2
        <5>2. e[n] = f[n] /\ f[n] = Step(f, n)  BY <5>1, <3>1, <3>4
        <5> QED BY <5>2, <3>5
      <4> QED BY <4>1, <4>2
    <3>7. Upto(e, k + 1)
      <4> HIDE DEF e, Step
      <4> QED BY <3>3, <3>6
    <3> HIDE DEF e, Upto
    <3> QED BY <3>7
  <2> HIDE DEF T
  <2>3. Nat \subseteq T  BY <2>1, <2>2, Successors
  <2> QED BY <2>3 DEF T
<1>2. ASSUME NEW k \in Nat, NEW f, Upto(f, k), NEW j \in Nat, NEW e, Upto(e, j),
             NEW m \in Nat, m <= k, m <= j
      PROVE  e[m] = f[m]
  <2> DEFINE T == {n \in Nat : n <= k /\ n <= j /\ e[n] # f[n]}
  <2> SUFFICES ASSUME T # {} PROVE FALSE  BY <1>2
  <2>1. PICK n \in T : \A i \in T : n <= i  BY Least
  <2>2. n \in 0 .. k /\ n \in 0 .. j  OBVIOUS
  <2>3. e[n] = Step(e, n) /\ f[n] = Step(f, n)
    <3> HIDE DEF Step
    <3> QED BY <1>2, <2>2
  <2>4. CASE n \in B  BY <2>3, <2>4
  <2>5. CASE n \notin B
    <3>1. h[n] \in Nat /\ h[n] < n  BY <2>5
    <3>2. e[h[n]] = f[h[n]]  BY <3>1, <2>1, <2>2
    <3> QED BY <2>3, <2>5, <3>2
  <2> QED BY <2>4, <2>5
<1> DEFINE A(k) == CHOOSE f : Upto(f, k)
           F == [n \in Nat |-> A(n)[n]]
<1>3. ASSUME NEW k \in Nat PROVE Upto(A(k), k)
  <2> HIDE DEF Upto
  <2> QED BY <1>1, Zenon
<1>4. ASSUME NEW k \in Nat, NEW n \in Nat, n <= k PROVE A(k)[n] = F[n]
  <2>1. F[n] = A(n)[n]  OBVIOUS
  <2>2. Upto(A(k), k) /\ Upto(A(n), n)  BY <1>3
  <2>3. n <= n  OBVIOUS
  <2> HIDE DEF Upto, A, F
  <2>4. A(k)[n] = A(n)[n]  BY <1>2, <1>4, <2>2, <2>3
  <2> QED BY <2>1, <2>4
<1>5. ASSUME NEW n \in Nat PROVE F[n] \in S /\ F[n] = Step(F, n)
  <2>1. F[n] = A(n)[n]  OBVIOUS
  <2>2. A(n) \in [0 .. n -> S] /\ A(n)[n] = Step(A(n), n)
    <3>1. Upto(A(n), n)  BY <1>3
    <3>2. n \in 0 .. n  OBVIOUS
    <3> HIDE DEF A, Step
    <3> QED BY <3>1, <3>2
  <2>3. CASE n \in B
    <3> HIDE DEF A, F
    <3> QED BY <2>1, <2>2, <2>3
  <2>4. CASE n \notin B
    <3>1. h[n] \in Nat /\ h[n] <= n  BY <2>4
    <3>2. A(n)[h[n]] = F[h[n]]
      <4> HIDE DEF A, F
      <4> QED BY <1>4, <3>1
    <3> HIDE DEF A, F
    <3> QED BY <2>1, <2>2, <2>4, <3>2
  <2> QED BY <2>3, <2>4
<1>6. F = [n \in Nat |-> Step(F, n)]
  <2>1. F = [n \in Nat |-> F[n]]  OBVIOUS
  <2> HIDE DEF F, Step
  <2> QED BY <1>5, <2>1, Zenon
<1>7. F \in [Nat -> S]
  <2>1. F = [n \in Nat |-> F[n]]  OBVIOUS
  <2> HIDE DEF F, Step
  <2> QED BY <1>5, <2>1
<1> HIDE DEF F
<1> QED BY <1>6, <1>7 DEF Solves

\* The same for one defined from its value one before.
Iterates(f, lo, hi, a, g) ==
    f = [i \in lo .. hi |-> IF i = lo THEN a ELSE g[<<f[i - 1], i>>]]

LEMMA Iteration ==
    ASSUME NEW S, NEW a \in S, NEW lo \in Nat, NEW hi \in Int, NEW g \in [S \X Nat -> S]
    PROVE  \E f \in [lo .. hi -> S] : Iterates(f, lo, hi, a, g)
<1> DEFINE B == 0 .. lo
           h == [n \in Nat |-> IF n = 0 THEN 0 ELSE n - 1]
           c == [n \in Nat |-> a]
<1>1. h \in [Nat -> Nat] /\ B \in SUBSET Nat /\ c \in [Nat -> S]  OBVIOUS
<1>2. \A n \in Nat \ B : h[n] < n  OBVIOUS
<1>7. \A n \in Nat \ B : h[n] = n - 1  OBVIOUS
<1>3. PICK F \in [Nat -> S] : Solves(F, B, h, c, g)
  <2> HIDE DEF B, h, c
  <2> QED BY <1>1, <1>2, Recursion
<1> DEFINE f == [i \in lo .. hi |-> F[i]]
<1>4. f \in [lo .. hi -> S]  BY <1>3
<1>5. ASSUME NEW i \in lo .. hi
      PROVE  f[i] = IF i = lo THEN a ELSE g[<<f[i - 1], i>>]
  <2>1. i \in Nat /\ f[i] = F[i]  OBVIOUS
  <2>2. F[i] = IF i \in B THEN c[i] ELSE g[<<F[h[i]], i>>]
    <3> HIDE DEF B, h, c, f
    <3> QED BY <1>3, <2>1 DEF Solves
  <2>3. CASE i = lo
    <3>1. i \in B /\ c[i] = a  BY <2>3
    <3> QED BY <2>1, <2>2, <2>3, <3>1
  <2>4. CASE i # lo
    <3>1. i \notin B  BY <2>4
    <3>2. h[i] = i - 1  BY <2>1, <3>1, <1>7
    <3>3. f[i - 1] = F[i - 1]  BY <2>4
    <3> HIDE DEF B, h, c, f
    <3> QED BY <2>1, <2>2, <2>4, <3>1, <3>2, <3>3
  <2> QED BY <2>3, <2>4
<1>6. f = [i \in lo .. hi |-> IF i = lo THEN a ELSE g[<<f[i - 1], i>>]]
  <2>1. f = [i \in lo .. hi |-> f[i]]  OBVIOUS
  <2> HIDE DEF f
  <2> QED BY <1>5, <2>1, Zenon
<1> HIDE DEF f
<1> QED BY <1>4, <1>6 DEF Iterates

\* The same for one that goes along a sequence.
Folds(f, a, g, s) ==
    f = [i \in 0 .. Len(s) |-> IF i = 0 THEN a ELSE g[<<f[i - 1], s[i]>>]]

LEMMA Folding ==
    ASSUME NEW S, NEW T, NEW a \in S, NEW s \in Seq(T), NEW g \in [S \X T -> S]
    PROVE  \E f \in [0 .. Len(s) -> S] : Folds(f, a, g, s)
<1> DEFINE e == [p \in S \X Nat |-> IF p[2] \in 1 .. Len(s) THEN g[<<p[1], s[p[2]]>>] ELSE a]
<1>0. Len(s) \in Nat /\ \A i \in 1 .. Len(s) : s[i] \in T
  BY ElementOfSeq, LenProperties
<1>1. e \in [S \X Nat -> S]
  <2>1. ASSUME NEW p \in S \X Nat
        PROVE  (IF p[2] \in 1 .. Len(s) THEN g[<<p[1], s[p[2]]>>] ELSE a) \in S
    <3>1. CASE p[2] \in 1 .. Len(s)
      <4>1. <<p[1], s[p[2]]>> \in S \X T  BY <1>0, <3>1
      <4> QED BY <3>1, <4>1
    <3> QED BY <3>1
  <2> QED BY <2>1, Zenon
<1>2. PICK f \in [0 .. Len(s) -> S] : Iterates(f, 0, Len(s), a, e)
  <2>1. 0 \in Nat /\ Len(s) \in Int  BY <1>0
  <2> HIDE DEF e
  <2> QED BY <2>1, <1>1, Iteration
<1>3. ASSUME NEW i \in 0 .. Len(s)
      PROVE  f[i] = IF i = 0 THEN a ELSE g[<<f[i - 1], s[i]>>]
  <2>1. f[i] = IF i = 0 THEN a ELSE e[<<f[i - 1], i>>]
    <3> HIDE DEF e
    <3> QED BY <1>2 DEF Iterates
  <2>2. CASE i # 0
    <3>1. f[i - 1] \in S /\ i \in 1 .. Len(s) /\ i \in Nat  BY <1>0, <2>2
    <3>2. e[<<f[i - 1], i>>] = g[<<f[i - 1], s[i]>>]  BY <3>1
    <3> QED BY <2>1, <2>2, <3>2
  <2> QED BY <2>1, <2>2
<1>4. f = [i \in 0 .. Len(s) |-> f[i]]  OBVIOUS
<1>5. f = [i \in 0 .. Len(s) |-> IF i = 0 THEN a ELSE g[<<f[i - 1], s[i]>>]]
  <2> HIDE DEF e
  <2> QED BY <1>3, <1>4, Zenon
<1> QED BY <1>5, Zenon DEF Folds

\* Where it leads: every function that starts in S, and goes on from S by g,
\* stays there.
Follows(f, S, g, s) ==
    \A i \in 1 .. Len(s) : f[i - 1] \in S => f[i] = g[<<f[i - 1], s[i]>>]

LEMMA Folded ==
    ASSUME NEW S, NEW T, NEW s \in Seq(T), NEW g \in [S \X T -> S], NEW f,
           f[0] \in S, Follows(f, S, g, s)
    PROVE  \A i \in 0 .. Len(s) : f[i] \in S
<1>0. Len(s) \in Nat /\ \A i \in 1 .. Len(s) : s[i] \in T
  BY ElementOfSeq, LenProperties
<1> DEFINE U == {i \in Nat : i \in 0 .. Len(s) => f[i] \in S}
<1>1. 0 \in U  OBVIOUS
<1>2. ASSUME NEW i \in Nat, i \in U PROVE i + 1 \in U
  <2>1. CASE i + 1 \in 0 .. Len(s)
    <3>1. f[i] \in S /\ i + 1 \in 1 .. Len(s) /\ (i + 1) - 1 = i  BY <1>0, <1>2, <2>1
    <3>2. f[i + 1] = g[<<f[i], s[i + 1]>>]  BY <3>1 DEF Follows
    <3>3. <<f[i], s[i + 1]>> \in S \X T  BY <1>0, <3>1
    <3>4. f[i + 1] \in S  BY <3>2, <3>3
    <3> QED BY <3>4
  <2> QED BY <2>1
<1> HIDE DEF U
<1>3. Nat \subseteq U  BY <1>1, <1>2, Successors
<1> QED BY <1>0, <1>3 DEF U
=============================================================================
