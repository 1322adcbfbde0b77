---------------------------- MODULE Asn1_proofs ----------------------------
(***************************************************************************)
(* Theorems about Asn1, for any values, in any nesting, cut anywhere.      *)
(***************************************************************************)
EXTENDS Asn1, Recursion

-----------------------------------------------------------------------------
(***************************************************************************)
(* Digits and numbers.                                                     *)
(***************************************************************************)
Bases == {128, 256}

LEMMA Quotients ==
    ASSUME NEW b \in Bases, NEW n \in Nat
    PROVE  /\ n \div b \in Nat /\ n % b \in 0 .. b - 1
           /\ n = b * (n \div b) + (n % b)
           /\ n > 0 => n \div b < n
<1>1. CASE b = 128  BY <1>1
<1>2. CASE b = 256  BY <1>2
<1> QED BY <1>1, <1>2 DEF Bases

\* Digits is what its definition says.
LEMMA DigitsStep ==
    ASSUME NEW b \in Bases, NEW limit \in 0 .. b - 1, NEW n \in Nat
    PROVE  /\ Digits(b, limit, n) \in Seq(0 .. b - 1)
           /\ Digits(b, limit, n) =
                IF n > limit THEN Append(Digits(b, limit, n \div b), n % b) ELSE <<n>>
<1> DEFINE S == Seq(0 .. b - 1)
           B == 0 .. limit
           h == [k \in Nat |-> k \div b]
           c == [k \in Nat |-> IF k \in B THEN <<k>> ELSE <<0>>]
           g == [p \in S \X Nat |-> Append(p[1], p[2] % b)]
<1>0. b \in Nat /\ limit \in Nat /\ limit < b /\ b > 0  BY DEF Bases
<1>1. h \in [Nat -> Nat] /\ B \in SUBSET Nat  BY <1>0, Quotients
<1>2. c \in [Nat -> S]
  <2>1. ASSUME NEW k \in Nat PROVE c[k] \in S
    <3>1. c[k] = <<IF k \in B THEN k ELSE 0>>  OBVIOUS
    <3>2. (IF k \in B THEN k ELSE 0) \in 0 .. b - 1  BY <1>0
    <3> HIDE DEF c, B
    <3> QED BY <3>1, <3>2
  <2> QED BY <2>1
<1>3. g \in [S \X Nat -> S]
  <2>1. ASSUME NEW p \in S \X Nat PROVE Append(p[1], p[2] % b) \in S
    <3>1. p[1] \in S /\ p[2] % b \in 0 .. b - 1  BY Quotients
    <3> QED BY <3>1
  <2> QED BY <2>1
<1>4. \A k \in Nat \ B : h[k] < k
  <2>1. ASSUME NEW k \in Nat \ B PROVE h[k] < k
    <3>1. k > 0  BY <1>0
    <3> QED BY <3>1, Quotients
  <2> QED BY <2>1
<1>5. PICK f \in [Nat -> S] : Solves(f, B, h, c, g)
  <2> HIDE DEF S, B, h, c, g
  <2> QED BY <1>1, <1>2, <1>3, <1>4, Recursion
<1>6. ASSUME NEW k \in Nat
      PROVE  f[k] = IF k > limit THEN Append(f[k \div b], k % b) ELSE <<k>>
  <2>1. f[k] = IF k \in B THEN c[k] ELSE g[<<f[h[k]], k>>]
    <3> HIDE DEF S, B, h, c, g
    <3> QED BY <1>5 DEF Solves
  <2>2. CASE k > limit
    <3>1. k \notin B  BY <2>2, <1>0
    <3>2. h[k] = k \div b /\ k \div b \in Nat  BY Quotients
    <3>3. f[k \div b] \in S
      <4> HIDE DEF S
      <4> QED BY <1>5, <3>2
    <3>4. g[<<f[k \div b], k>>] = Append(f[k \div b], k % b)
      <4> HIDE DEF S
      <4>1. <<f[k \div b], k>> \in S \X Nat  BY <3>3
      <4> QED BY <4>1
    <3> HIDE DEF S, B, h, c, g
    <3> QED BY <2>1, <2>2, <3>1, <3>2, <3>4
  <2>3. CASE ~(k > limit)
    <3>1. k \in B /\ c[k] = <<k>>  BY <2>3, <1>0
    <3> HIDE DEF S, B, h, c, g
    <3> QED BY <2>1, <2>3, <3>1
  <2> QED BY <2>2, <2>3
<1>7. f = [k \in Nat |-> IF k > limit THEN Append(f[k \div b], k % b) ELSE <<k>>]
  <2>1. f = [k \in Nat |-> f[k]]
    <3> HIDE DEF S
    <3> QED BY <1>5
  <2> QED BY <1>6, <2>1, Zenon
<1> HIDE DEF B, h, c, g
<1> DEFINE d == CHOOSE e : e = [k \in Nat |-> IF k > limit THEN Append(e[k \div b], k % b)
                                                           ELSE <<k>>]
<1>8. d = [k \in Nat |-> IF k > limit THEN Append(d[k \div b], k % b) ELSE <<k>>]
  BY <1>7, Zenon
<1>9. \A k \in Nat : Digits(b, limit, k) = d[k]  BY Zenon DEF Digits
<1> HIDE DEF d
<1>10. \A k \in Nat : d[k] = IF k > limit THEN Append(d[k \div b], k % b) ELSE <<k>>
  BY <1>8, Zenon
<1>11. \A k \in Nat : d[k] \in S
  <2> DEFINE T == {k \in Nat : d[k] \in S}
  <2>1. ASSUME NEW k \in Nat, \A m \in Nat : m < k => m \in T PROVE k \in T
    <3>1. CASE k > limit
      <4>3. k > 0  BY <3>1, <1>0
      <4>0. k \div b \in Nat /\ k \div b < k  BY <4>3, Quotients
      <4>1. k \div b \in T  BY <2>1, <4>0
      <4>2. d[k \div b] \in Seq(0 .. b - 1) /\ k % b \in 0 .. b - 1  BY <4>1, Quotients
      <4>4. Append(d[k \div b], k % b) \in Seq(0 .. b - 1)  BY <4>2
      <4> QED BY <3>1, <4>4, <1>10
    <3>2. CASE ~(k > limit)
      <4>1. k \in 0 .. b - 1  BY <3>2, <1>0
      <4>2. <<k>> \in Seq(0 .. b - 1)  BY <4>1
      <4> QED BY <3>2, <4>2, <1>10
    <3> QED BY <3>1, <3>2
  <2> HIDE DEF T
  <2>2. Nat \subseteq T  BY <2>1, Induction
  <2> QED BY <2>2 DEF T
<1>12. n \div b \in Nat  BY Quotients
<1> QED BY <1>9, <1>10, <1>11, <1>12

\* What Digits has in front does not depend on what it appends: the first
\* digit is not above limit, and a second one is there only when the two
\* together are.
LEMMA DigitsTop ==
    ASSUME NEW b \in Bases, NEW limit \in 0 .. b - 1, NEW n \in Nat
    PROVE  LET s == Digits(b, limit, n)
           IN  /\ Len(s) >= 1 /\ s[1] \in 0 .. limit
               /\ Len(s) = 1 => s[1] = n
               /\ Len(s) > 1 => (b * s[1]) + s[2] > limit
<1> DEFINE D(k) == Digits(b, limit, k)
           Top(s, k) == /\ Len(s) >= 1 /\ s[1] \in 0 .. limit
                        /\ Len(s) = 1 => s[1] = k
                        /\ Len(s) > 1 => (b * s[1]) + s[2] > limit
           T == {k \in Nat : Top(D(k), k)}
<1>0. b \in Nat /\ limit \in Nat /\ limit < b /\ b > 0  BY DEF Bases
<1>1. ASSUME NEW k \in Nat, \A m \in Nat : m < k => m \in T PROVE k \in T
  <2>1. CASE k > limit
    <3>1. PICK q \in Nat, r \in 0 .. b - 1 :
             q = k \div b /\ r = k % b /\ k = (b * q) + r /\ q < k
      BY <2>1, <1>0, Quotients
    <3>2. PICK t \in Seq(0 .. b - 1) : t = D(q)  BY DigitsStep
    <3>3. D(k) = Append(t, r)  BY <2>1, <3>1, <3>2, DigitsStep
    <3>4. Top(t, q)  BY <1>1, <3>1, <3>2
    <3>5. Len(t) >= 1 /\ t[1] \in 0 .. limit  BY <3>4
    <3> DEFINE w == Append(t, r)
    <3>6. Len(w) = Len(t) + 1 /\ w[1] = t[1] /\ w[Len(t) + 1] = r
          /\ (Len(t) > 1 => w[2] = t[2])
      BY <3>5
    <3> HIDE DEF w
    <3>7. CASE Len(t) = 1
      <4>1. w[2] = r /\ t[1] = q  BY <3>4, <3>6, <3>7
      <4>2. (b * w[1]) + w[2] = k  BY <3>1, <3>6, <4>1
      <4>3. Len(w) = 2  BY <3>6, <3>7
      <4>4. Top(w, k)  BY <2>1, <3>5, <3>6, <4>2, <4>3
      <4> QED BY <3>3, <4>4 DEF w
    <3>8. CASE Len(t) > 1
      <4>1. (b * w[1]) + w[2] > limit  BY <3>4, <3>6, <3>8
      <4>2. Len(w) > 1 /\ Len(w) # 1  BY <3>6, <3>8
      <4>3. Top(w, k)  BY <3>5, <3>6, <4>1, <4>2
      <4> QED BY <3>3, <4>3 DEF w
    <3>10. Len(t) \in Nat  OBVIOUS
    <3>11. \A x \in Nat : x >= 1 => x = 1 \/ x > 1  OBVIOUS
    <3>9. Len(t) = 1 \/ Len(t) > 1  BY <3>5, <3>10, <3>11, Zenon
    <3> QED BY <3>7, <3>8, <3>9
  <2>2. CASE ~(k > limit)
    <3>1. D(k) = <<k>>  BY <2>2, DigitsStep
    <3>2. Top(<<k>>, k)  BY <2>2, <1>0
    <3> QED BY <3>1, <3>2
  <2> QED BY <2>1, <2>2
<1> HIDE DEF T
<1>2. Nat \subseteq T  BY <1>1, Induction
<1>3. Top(D(n), n)  BY <1>2 DEF T
<1> QED BY <1>3

\* Number is what its definition says, number by number.
Counts(num, b, s) ==
    /\ num \in [0 .. Len(s) -> Nat]
    /\ num[0] = 0
    /\ \A i \in 1 .. Len(s) : num[i] = (b * num[i - 1]) + (s[i] % b)

LEMMA NumberCounts ==
    ASSUME NEW b \in Bases, NEW s \in Seq(Nat)
    PROVE  \E num : Counts(num, b, s) /\ Number(b, s) = num[Len(s)]
<1>0. b \in Nat /\ b > 0 /\ Len(s) \in Nat  BY DEF Bases
<1> DEFINE g == [p \in Nat \X Nat |->
                   IF p[2] \in 1 .. Len(s) THEN (b * p[1]) + (s[p[2]] % b) ELSE 0]
<1>1. \A i \in 1 .. Len(s) : s[i] % b \in Nat
  <2>1. ASSUME NEW i \in 1 .. Len(s) PROVE s[i] % b \in Nat
    <3>1. s[i] \in Nat  OBVIOUS
    <3>2. s[i] % b \in 0 .. b - 1  BY <3>1, Quotients
    <3> QED BY <3>2, <1>0
  <2> QED BY <2>1
<1>2. g \in [Nat \X Nat -> Nat]  BY <1>0, <1>1
<1>3. PICK f \in [0 .. Len(s) -> Nat] : Iterates(f, 0, Len(s), 0, g)
  <2>1. 0 \in Nat /\ Len(s) \in Int  BY <1>0
  <2> HIDE DEF g
  <2> QED BY <2>1, <1>2, Iteration
<1>4. f = [i \in 0 .. Len(s) |-> IF i = 0 THEN 0 ELSE (b * f[i - 1]) + (s[i] % b)]
  <2>1. ASSUME NEW i \in 0 .. Len(s)
        PROVE  f[i] = IF i = 0 THEN 0 ELSE (b * f[i - 1]) + (s[i] % b)
    <3>1. f[i] = IF i = 0 THEN 0 ELSE g[<<f[i - 1], i>>]
      <4> HIDE DEF g
      <4> QED BY <1>3 DEF Iterates
    <3>2. CASE i = 0  BY <3>1, <3>2
    <3>3. CASE i # 0
      <4>1. f[i - 1] \in Nat /\ i \in 1 .. Len(s) /\ i \in Nat  BY <3>3
      <4>2. g[<<f[i - 1], i>>] = (b * f[i - 1]) + (s[i] % b)  BY <4>1
      <4> QED BY <3>1, <3>3, <4>2
    <3> QED BY <3>2, <3>3
  <2>2. f = [i \in 0 .. Len(s) |-> f[i]]  OBVIOUS
  <2> QED BY <2>1, <2>2, Zenon
<1> DEFINE num == CHOOSE e : e = [i \in 0 .. Len(s) |->
                       IF i = 0 THEN 0 ELSE (b * e[i - 1]) + (s[i] % b)]
<1>5. num = [i \in 0 .. Len(s) |-> IF i = 0 THEN 0 ELSE (b * num[i - 1]) + (s[i] % b)]
  BY <1>4, Zenon
<1>6. Number(b, s) = num[Len(s)]  BY Zenon DEF Number
<1> HIDE DEF num, g
<1>7. \A i \in 0 .. Len(s) : num[i] = IF i = 0 THEN 0 ELSE (b * num[i - 1]) + (s[i] % b)
  BY <1>5, Zenon
<1>8. \A i \in 0 .. Len(s) : num[i] \in Nat
  <2> DEFINE T == {i \in Nat : i \in 0 .. Len(s) => num[i] \in Nat}
  <2>1. 0 \in T  BY <1>0, <1>7
  <2>2. ASSUME NEW i \in Nat, i \in T PROVE i + 1 \in T
    <3>1. CASE i + 1 \in 0 .. Len(s)
      <4>1. num[i] \in Nat  BY <2>2, <3>1, <1>0
      <4>2. num[i + 1] = (b * num[i]) + (s[i + 1] % b)  BY <1>7, <3>1
      <4>3. s[i + 1] % b \in Nat  BY <1>1, <3>1
      <4>4. b * num[i] \in Nat  BY <4>1, <1>0
      <4> QED BY <4>2, <4>3, <4>4
    <3> QED BY <3>1
  <2> HIDE DEF T
  <2>3. Nat \subseteq T  BY <2>1, <2>2, Successors
  <2> QED BY <2>3, <1>0 DEF T
<1>9. Counts(num, b, s)
  <2>1. num \in [0 .. Len(s) -> Nat]  BY <1>5, <1>8
  <2> QED BY <2>1, <1>7, <1>0 DEF Counts
<1> QED BY <1>6, <1>9

LEMMA CountsAgree ==
    ASSUME NEW b \in Bases, NEW s \in Seq(Nat), NEW t \in Seq(Nat),
           Len(s) <= Len(t), \A i \in 1 .. Len(s) : s[i] = t[i],
           NEW x, Counts(x, b, s), NEW y, Counts(y, b, t)
    PROVE  x[Len(s)] = y[Len(s)]
<1> DEFINE T == {i \in Nat : i \in 0 .. Len(s) => x[i] = y[i]}
<1>0. Len(s) \in Nat /\ Len(t) \in Nat  OBVIOUS
<1>1. 0 \in T  BY DEF Counts
<1>2. ASSUME NEW i \in Nat, i \in T PROVE i + 1 \in T
  <2>1. CASE i + 1 \in 0 .. Len(s)
    <3>1. x[i] = y[i]  BY <1>2, <2>1, <1>0
    <3>2. i + 1 \in 1 .. Len(s) /\ i + 1 \in 1 .. Len(t) /\ (i + 1) - 1 = i  BY <2>1, <1>0
    <3>3. x[i + 1] = (b * x[i]) + (s[i + 1] % b)  BY <3>2 DEF Counts
    <3>4. y[i + 1] = (b * y[i]) + (t[i + 1] % b)  BY <3>2 DEF Counts
    <3>5. s[i + 1] = t[i + 1]  BY <3>2
    <3> QED BY <3>1, <3>3, <3>4, <3>5
  <2> QED BY <2>1
<1> HIDE DEF T
<1>3. Nat \subseteq T  BY <1>1, <1>2, Successors
<1> QED BY <1>0, <1>3 DEF T

LEMMA NumberEmpty ==
    ASSUME NEW b \in Bases PROVE Number(b, <<>>) = 0
<1>1. <<>> \in Seq(Nat) /\ Len(<<>>) = 0  OBVIOUS
<1> QED BY <1>1, NumberCounts DEF Counts

LEMMA NumberAppend ==
    ASSUME NEW b \in Bases, NEW s \in Seq(Nat), NEW d \in Nat
    PROVE  /\ Number(b, s) \in Nat
           /\ Number(b, Append(s, d)) = (b * Number(b, s)) + (d % b)
<1> DEFINE t == Append(s, d)
<1>1. /\ t \in Seq(Nat) /\ Len(t) = Len(s) + 1 /\ Len(s) \in Nat
      /\ t[Len(s) + 1] = d /\ \A i \in 1 .. Len(s) : s[i] = t[i]
  OBVIOUS
<1> HIDE DEF t
<1>2. PICK x : Counts(x, b, s) /\ Number(b, s) = x[Len(s)]  BY NumberCounts
<1>3. PICK y : Counts(y, b, t) /\ Number(b, t) = y[Len(t)]  BY NumberCounts, <1>1
<1>4. x[Len(s)] = y[Len(s)]  BY CountsAgree, <1>1, <1>2, <1>3
<1>5. Number(b, s) \in Nat  BY <1>1, <1>2 DEF Counts
<1>6. y[Len(s) + 1] = (b * y[Len(s)]) + (t[Len(s) + 1] % b)
  <2>1. Len(s) + 1 \in 1 .. Len(t) /\ (Len(s) + 1) - 1 = Len(s)  BY <1>1
  <2> QED BY <1>3, <2>1 DEF Counts
<1> QED BY <1>1, <1>2, <1>3, <1>4, <1>5, <1>6 DEF t

\* Reading the digits of a number gives the number.
LEMMA NumberOfDigits ==
    ASSUME NEW b \in Bases, NEW limit \in 0 .. b - 1, NEW n \in Nat
    PROVE  Number(b, Digits(b, limit, n)) = n
<1> DEFINE T == {k \in Nat : Number(b, Digits(b, limit, k)) = k}
<1>0. b \in Nat /\ limit \in Nat /\ limit < b /\ b > 0  BY DEF Bases
<1>1. ASSUME NEW k \in Nat, \A m \in Nat : m < k => m \in T PROVE k \in T
  <2>1. CASE k > limit
    <3>0. k > 0  BY <2>1, <1>0
    <3>1. k \div b \in Nat /\ k \div b < k  BY <3>0, Quotients
    <3>2. k % b \in 0 .. b - 1 /\ k = (b * (k \div b)) + (k % b)  BY Quotients
    <3>3. Number(b, Digits(b, limit, k \div b)) = k \div b  BY <1>1, <3>1
    <3>4. Digits(b, limit, k \div b) \in Seq(Nat)
      <4>1. Digits(b, limit, k \div b) \in Seq(0 .. b - 1)  BY <3>1, DigitsStep
      <4>2. 0 .. b - 1 \subseteq Nat  OBVIOUS
      <4> QED BY <4>1, <4>2, SeqMonotonic
    <3>5. Digits(b, limit, k) = Append(Digits(b, limit, k \div b), k % b)
      BY <2>1, DigitsStep
    <3>6. k % b \in Nat /\ (k % b) % b = k % b  BY <3>2, <1>0
    <3>7. Number(b, Digits(b, limit, k)) = (b * (k \div b)) + ((k % b) % b)
      BY <3>3, <3>4, <3>5, <3>6, NumberAppend
    <3> QED BY <3>2, <3>6, <3>7
  <2>2. CASE ~(k > limit)
    <3>1. Digits(b, limit, k) = <<k>>  BY <2>2, DigitsStep
    <3>2. <<k>> = Append(<<>>, k) /\ <<>> \in Seq(Nat)  OBVIOUS
    <3>3. Number(b, <<k>>) = (b * 0) + (k % b)  BY <3>2, NumberAppend, NumberEmpty
    <3>4. k % b = k /\ b * 0 = 0  BY <2>2, <1>0
    <3> QED BY <3>1, <3>3, <3>4
  <2> QED BY <2>1, <2>2
<1> HIDE DEF T
<1>2. Nat \subseteq T  BY <1>1, Induction
<1> QED BY <1>2 DEF T

Octets == 0 .. 255

\* s is t with d behind it.
Parts(s, t, d) ==
    /\ s = Append(t, d) /\ Len(s) = Len(t) + 1 /\ d = s[Len(s)]
    /\ \A i \in 1 .. Len(t) : t[i] = s[i]

\* A sequence of bytes that is not empty is one that something was appended to.
LEMMA Appended ==
    ASSUME NEW s \in Seq(Octets), s # <<>>
    PROVE  \E t \in Seq(Octets), d \in Octets : Parts(s, t, d)
<1>1. PICK n \in Nat : Len(s) = n + 1
  <2>1. Len(s) \in Nat /\ Len(s) # 0  BY EmptySeq
  <2>2. Len(s) - 1 \in Nat /\ Len(s) = (Len(s) - 1) + 1  BY <2>1
  <2> QED BY <2>2
<1> DEFINE t == SubSeq(s, 1, n)
<1>2. t \in Seq(Octets) /\ Len(t) = n /\ \A i \in 1 .. n : t[i] = s[i]
  <2>1. \A i \in 1 .. n : s[i] \in Octets  BY <1>1
  <2> QED BY <2>1, SubSeqProperties
<1>3. s[n + 1] \in Octets  BY <1>1
<1> HIDE DEF t
<1> DEFINE u == Append(t, s[n + 1])
<1>4. u \in Seq(Octets) /\ Len(u) = n + 1 /\ u[n + 1] = s[n + 1] /\ \A i \in 1 .. n : u[i] = t[i]
  BY <1>2, <1>3
<1> HIDE DEF u
<1>5. \A i \in 1 .. Len(s) : s[i] = u[i]
  <2>1. ASSUME NEW i \in 1 .. Len(s) PROVE s[i] = u[i]
    <3>1. CASE i = n + 1  BY <1>4, <3>1
    <3>2. CASE i # n + 1
      <4>1. i \in 1 .. n  BY <3>2, <1>1
      <4> QED BY <4>1, <1>2, <1>4
    <3> QED BY <3>1, <3>2
  <2> QED BY <2>1
<1>6. s = u  BY <1>1, <1>4, <1>5, SeqEqual
<1>7. Parts(s, t, s[n + 1])  BY <1>1, <1>2, <1>6 DEF Parts, u
<1> QED BY <1>2, <1>3, <1>7

\* The powers of 256.
Power[n \in Nat] == IF n = 0 THEN 1 ELSE 256 * Power[n - 1]

LEMMA Powers ==
    /\ Power[0] = 1
    /\ \A n \in Nat : Power[n] \in Nat /\ Power[n] >= 1 /\ Power[n + 1] = 256 * Power[n]
<1> DEFINE B == {0}
           h == [n \in Nat |-> IF n = 0 THEN 0 ELSE n - 1]
           c == [n \in Nat |-> 1]
           g == [p \in Nat \X Nat |-> 256 * p[1]]
<1>1. /\ B \in SUBSET Nat /\ h \in [Nat -> Nat] /\ c \in [Nat -> Nat]
      /\ g \in [Nat \X Nat -> Nat]
  OBVIOUS
<1>2. \A n \in Nat \ B : h[n] < n  OBVIOUS
<1>3. PICK f \in [Nat -> Nat] : Solves(f, B, h, c, g)
  <2> HIDE DEF B, h, c, g
  <2> QED BY <1>1, <1>2, Recursion
<1>4. ASSUME NEW n \in Nat PROVE f[n] = IF n = 0 THEN 1 ELSE 256 * f[n - 1]
  <2>1. f[n] = IF n \in B THEN c[n] ELSE g[<<f[h[n]], n>>]
    <3> HIDE DEF B, h, c, g
    <3> QED BY <1>3 DEF Solves
  <2>2. CASE n = 0  BY <2>1, <2>2
  <2>3. CASE n # 0
    <3>1. h[n] = n - 1 /\ n - 1 \in Nat /\ n \notin B  BY <2>3
    <3>2. f[n - 1] \in Nat  BY <3>1
    <3>3. g[<<f[n - 1], n>>] = 256 * f[n - 1]  BY <3>2
    <3> HIDE DEF B, h, c, g
    <3> QED BY <2>1, <2>3, <3>1, <3>3
  <2> QED BY <2>2, <2>3
<1>5. f = [n \in Nat |-> IF n = 0 THEN 1 ELSE 256 * f[n - 1]]
  <2>1. f = [n \in Nat |-> f[n]]  OBVIOUS
  <2> QED BY <1>4, <2>1, Zenon
<1>6. Power = [n \in Nat |-> IF n = 0 THEN 1 ELSE 256 * Power[n - 1]]
  BY <1>5, Zenon DEF Power
<1>7. \A n \in Nat : Power[n] = IF n = 0 THEN 1 ELSE 256 * Power[n - 1]  BY <1>6, Zenon
<1> DEFINE T == {n \in Nat : Power[n] \in Nat /\ Power[n] >= 1}
<1>8. Power[0] = 1  BY <1>7
<1>9. ASSUME NEW n \in Nat PROVE Power[n + 1] = 256 * Power[n]
  <2>1. n + 1 \in Nat /\ n + 1 # 0 /\ (n + 1) - 1 = n  OBVIOUS
  <2> QED BY <2>1, <1>7
<1>10. 0 \in T  BY <1>8
<1>11. \A n \in Nat : n \in T => n + 1 \in T  BY <1>9
<1> HIDE DEF T
<1>12. Nat \subseteq T  BY <1>10, <1>11, Successors
<1> QED BY <1>8, <1>9, <1>12 DEF T

LEMMA PowersGrow ==
    ASSUME NEW m \in Nat, NEW n \in Nat, m <= n PROVE Power[m] <= Power[n]
<1> DEFINE T == {k \in Nat : Power[m] <= Power[m + k]}
<1>1. 0 \in T  BY Powers
<1>2. ASSUME NEW k \in Nat, k \in T PROVE k + 1 \in T
  <2>1. m \in Nat /\ m + k \in Nat /\ m + (k + 1) = (m + k) + 1  OBVIOUS
  <2>2. Power[m] \in Nat /\ Power[m + k] \in Nat /\ Power[m + (k + 1)] = 256 * Power[m + k]
    BY <2>1, Powers
  <2> QED BY <1>2, <2>2
<1> HIDE DEF T
<1>3. Nat \subseteq T  BY <1>1, <1>2, Successors
<1>4. n - m \in T /\ m + (n - m) = n  BY <1>3
<1> QED BY <1>4 DEF T

LEMMA OctetRange == \A d \in Octets : d \in Nat /\ d <= 255
BY DEF Octets

LEMMA OctetFacts ==
    \A d \in Octets : /\ d \in Nat /\ d <= 255 /\ d % 256 = d
                      /\ 255 - d \in Octets
BY DEF Octets

LEMMA OctetsNat == ASSUME NEW s \in Seq(Octets) PROVE s \in Seq(Nat)
<1>1. Octets \subseteq Nat  BY DEF Octets
<1> QED BY <1>1, SeqMonotonic

LEMMA NumberOctet ==
    ASSUME NEW s \in Seq(Octets), NEW d \in Octets
    PROVE  /\ Number(256, s) \in Nat
           /\ Number(256, Append(s, d)) = (256 * Number(256, s)) + d
<1>1. 256 \in Bases  BY DEF Bases
<1>2. s \in Seq(Nat)  BY OctetsNat
<1>3. d \in Nat /\ d % 256 = d  BY OctetFacts
<1>4. /\ Number(256, s) \in Nat
      /\ Number(256, Append(s, d)) = (256 * Number(256, s)) + (d % 256)
  BY <1>1, <1>2, <1>3, NumberAppend
<1> QED BY <1>3, <1>4

\* s is p and k bytes more.
Begins(p, s, k) == Len(s) = Len(p) + k /\ \A i \in 1 .. Len(p) : s[i] = p[i]

Bounded(p, s, k) ==
    /\ Number(256, p) * Power[k] <= Number(256, s)
    /\ Number(256, s) + 1 <= (Number(256, p) + 1) * Power[k]

\* A number is between those its first digits allow.
LEMMA NumberBounds ==
    ASSUME NEW p \in Seq(Octets), NEW s \in Seq(Octets), NEW k \in Nat,
           Begins(p, s, k)
    PROVE  Bounded(p, s, k)
<1> DEFINE Within(t, j) ==
              /\ Number(256, p) * Power[j] <= Number(256, t)
              /\ Number(256, t) + 1 <= (Number(256, p) + 1) * Power[j]
           Extends(t, j) == Len(t) = Len(p) + j /\ \A i \in 1 .. Len(p) : t[i] = p[i]
           T == {j \in Nat : \A t \in Seq(Octets) : Extends(t, j) => Within(t, j)}
<1>0. Len(p) \in Nat /\ 256 \in Bases  BY DEF Bases
<1>1. \A t \in Seq(Octets) : Number(256, t) \in Nat  BY <1>0, OctetsNat, NumberAppend
<1>2. 0 \in T
  <2>1. ASSUME NEW t \in Seq(Octets), Extends(t, 0) PROVE Within(t, 0)
    <3>1. Len(t) = Len(p)  BY <2>1, <1>0
    <3>2. t = p  BY <2>1, <3>1, SeqEqual
    <3>3. PICK P \in Nat : P = Number(256, p)  BY <1>1
    <3>4. Power[0] = 1  BY Powers
    <3> QED BY <3>2, <3>3, <3>4
  <2> HIDE DEF Within, Extends
  <2> QED BY <2>1
<1>3. ASSUME NEW j \in Nat, j \in T PROVE j + 1 \in T
  <2>1. ASSUME NEW t \in Seq(Octets), Extends(t, j + 1) PROVE Within(t, j + 1)
    <3>1. Len(p) + j \in Nat /\ Len(t) = (Len(p) + j) + 1  BY <2>1, <1>0
    <3>2. PICK u \in Seq(Octets), d \in Octets :
             /\ t = Append(u, d) /\ Len(t) = Len(u) + 1
             /\ \A i \in 1 .. Len(u) : u[i] = t[i]
      <4>1. t # <<>>  BY <3>1
      <4>2. PICK u \in Seq(Octets), d \in Octets : Parts(t, u, d)
        BY <4>1, Appended
      <4> QED BY <4>2 DEF Parts
    <3>3. Extends(u, j)
      <4>1. Len(u) = Len(p) + j  BY <3>1, <3>2
      <4> QED BY <3>2, <2>1, <1>0, <4>1
    <3>4. Within(u, j)
      <4> HIDE DEF Within, Extends
      <4> QED BY <3>3, <1>3
    <3>5. PICK N \in Nat, P \in Nat, W \in Nat :
             N = Number(256, u) /\ P = Number(256, p) /\ W = Power[j]
      BY <1>1, Powers
    <3>6. Number(256, t) = (256 * N) + d  BY <3>2, <3>5, NumberOctet
    <3>7. Power[j + 1] = 256 * W  BY <3>5, Powers
    <3>8. PICK X \in Nat, Y \in Nat : X = P * W /\ Y = (P + 1) * W  OBVIOUS
    <3>9. X <= N /\ N + 1 <= Y  BY <3>4, <3>5, <3>8
    <3>10. P * (256 * W) = 256 * X /\ (P + 1) * (256 * W) = 256 * Y  BY <3>8
    <3>12. d \in Nat /\ d <= 255  BY OctetFacts
    <3>11. 256 * X <= 256 * N + d /\ (256 * N + d) + 1 <= 256 * Y  BY <3>9, <3>12
    <3> QED BY <3>5, <3>6, <3>7, <3>10, <3>11
  <2> HIDE DEF Within, Extends
  <2> QED BY <2>1
<1> HIDE DEF T
<1>4. Nat \subseteq T  BY <1>2, <1>3, Successors
<1>5. Within(s, k)
  <2>1. Extends(s, k)  BY DEF Begins
  <2> HIDE DEF Within, Extends
  <2> QED BY <1>4, <2>1 DEF T
<1> QED BY <1>5 DEF Bounded

\* A sequence of bytes and the inverted one.
LEMMA Inverted ==
    ASSUME NEW s \in Seq(Octets)
    PROVE  /\ Invert(s) \in Seq(Octets) /\ Len(Invert(s)) = Len(s)
           /\ \A i \in 1 .. Len(s) : Invert(s)[i] = 255 - s[i]
           /\ Number(256, Invert(s)) = (Power[Len(s)] - Number(256, s)) - 1
<1> DEFINE T == {n \in Nat : \A t \in Seq(Octets) : Len(t) = n =>
                    Number(256, Invert(t)) = (Power[n] - Number(256, t)) - 1}
<1>0. 256 \in Bases  BY DEF Bases
<1>1. ASSUME NEW t \in Seq(Octets)
      PROVE  /\ Invert(t) \in Seq(Octets) /\ Len(Invert(t)) = Len(t)
             /\ \A i \in 1 .. Len(t) : Invert(t)[i] = 255 - t[i]
  <2>1. \A i \in 1 .. Len(t) : t[i] \in Octets  OBVIOUS
  <2>2. \A i \in 1 .. Len(t) : 255 - t[i] \in Octets  BY <2>1, OctetFacts
  <2> QED BY <2>2 DEF Invert
<1>2. 0 \in T
  <2>1. ASSUME NEW t \in Seq(Octets), Len(t) = 0
        PROVE Number(256, Invert(t)) = (Power[0] - Number(256, t)) - 1
    <3>1. t = <<>>  BY <2>1, EmptySeq
    <3>2. Invert(t) = <<>>  BY <2>1, <1>1, EmptySeq
    <3> QED BY <3>1, <3>2, <1>0, NumberEmpty, Powers
  <2> QED BY <2>1
<1>3. ASSUME NEW n \in Nat, n \in T PROVE n + 1 \in T
  <2>1. ASSUME NEW t \in Seq(Octets), Len(t) = n + 1
        PROVE  Number(256, Invert(t)) = (Power[n + 1] - Number(256, t)) - 1
    <3>1. PICK u \in Seq(Octets), d \in Octets : t = Append(u, d) /\ Len(u) = n
      <4>1. t # <<>>  BY <2>1
      <4>2. PICK u \in Seq(Octets), d \in Octets : t = Append(u, d) /\ Len(t) = Len(u) + 1
        <5>1. PICK u \in Seq(Octets), d \in Octets : Parts(t, u, d)
          BY <4>1, Appended
        <5> QED BY <5>1 DEF Parts
      <4>3. Len(u) = n  BY <4>2, <2>1
      <4> QED BY <4>2, <4>3
    <3>2. PICK e \in Octets : e = 255 - d  BY DEF Octets
    <3>3. Invert(t) = Append(Invert(u), e)
      <4> DEFINE w == Append(Invert(u), e)
      <4>1. w \in Seq(Octets) /\ Len(w) = n + 1  BY <1>1, <3>1
      <4>2. ASSUME NEW i \in 1 .. n + 1 PROVE Invert(t)[i] = w[i]
        <5>1. Invert(t)[i] = 255 - t[i]  BY <1>1, <2>1
        <5>2. CASE i = n + 1
          <6>1. t[i] = d  BY <3>1, <5>2
          <6>2. w[i] = e  BY <3>1, <1>1, <5>2
          <6> QED BY <5>1, <6>1, <6>2, <3>2
        <5>3. CASE i # n + 1
          <6>1. i \in 1 .. n  BY <5>3
          <6>2. t[i] = u[i]  BY <6>1, <3>1
          <6>3. w[i] = Invert(u)[i]  BY <6>1, <3>1, <1>1
          <6> QED BY <5>1, <6>1, <6>2, <6>3, <3>1, <1>1
        <5> QED BY <5>2, <5>3
      <4> HIDE DEF w
      <4>3. Invert(t) \in Seq(Octets) /\ Len(Invert(t)) = n + 1  BY <1>1, <2>1
      <4>4. Invert(t) = w  BY <4>1, <4>2, <4>3, SeqEqual
      <4> QED BY <4>4 DEF w
    <3>5. PICK N \in Nat, M \in Nat, W \in Nat :
             N = Number(256, u) /\ M = Number(256, Invert(u)) /\ W = Power[n]
      <4>1. Number(256, u) \in Nat  BY NumberOctet
      <4>2. Invert(u) \in Seq(Octets)  BY <1>1
      <4>3. Number(256, Invert(u)) \in Nat  BY <4>2, NumberOctet
      <4>4. Power[n] \in Nat  BY Powers
      <4> QED BY <4>1, <4>3, <4>4, Zenon
    <3>6. Number(256, t) = (256 * N) + d /\ Number(256, Invert(t)) = (256 * M) + e
      <4>1. Number(256, Append(u, d)) = (256 * N) + d  BY <3>5, NumberOctet
      <4>2. Number(256, Append(Invert(u), e)) = (256 * M) + e  BY <3>5, <1>1, NumberOctet
      <4> QED BY <4>1, <4>2, <3>1, <3>3
    <3>7. M = (W - N) - 1  BY <1>3, <3>1, <3>5
    <3>8. Power[n + 1] = 256 * W  BY <3>5, Powers
    <3>9. 256 * M + e = (256 * W - (256 * N + d)) - 1  BY <3>7, <3>2, OctetFacts
    <3> QED BY <3>6, <3>8, <3>9
  <2> QED BY <2>1
<1> HIDE DEF T
<1>4. Nat \subseteq T  BY <1>2, <1>3, Successors
<1>5. Len(s) \in T  BY <1>4
<1> QED BY <1>1, <1>5 DEF T

-----------------------------------------------------------------------------
(***************************************************************************)
(* Integers.                                                               *)
(***************************************************************************)
LEMMA Digits256 ==
    ASSUME NEW limit \in Octets, NEW n \in Nat
    PROVE  LET s == Digits(256, limit, n)
           IN  /\ s \in Seq(Octets) /\ Number(256, s) = n
               /\ Len(s) \in Nat /\ Len(s) >= 1
               /\ s[1] \in Octets /\ s[1] <= limit
               /\ Len(s) = 1 => s[1] = n
               /\ Len(s) > 1 => s[2] \in Octets /\ (256 * s[1]) + s[2] > limit
<1>1. 256 \in Bases /\ limit \in 0 .. 256 - 1 /\ 0 .. 256 - 1 = Octets
  BY DEF Bases, Octets
<1> DEFINE s == Digits(256, limit, n)
<1>2. s \in Seq(Octets)
  <2>1. s \in Seq(0 .. 256 - 1)  BY <1>1, DigitsStep
  <2> QED BY <2>1, <1>1
<1>3. Number(256, s) = n  BY <1>1, NumberOfDigits
<1>4. /\ Len(s) >= 1 /\ s[1] \in 0 .. limit
      /\ Len(s) = 1 => s[1] = n
      /\ Len(s) > 1 => (256 * s[1]) + s[2] > limit
  BY <1>1, DigitsTop
<1> HIDE DEF s
<1>5. Len(s) \in Nat /\ s[1] \in Octets /\ (Len(s) > 1 => s[2] \in Octets)
  <2>1. Len(s) \in Nat  BY <1>2
  <2>2. ASSUME NEW i \in 1 .. Len(s) PROVE s[i] \in Octets  BY <1>2
  <2>3. 1 \in 1 .. Len(s) /\ (Len(s) > 1 => 2 \in 1 .. Len(s))  BY <2>1, <1>4
  <2> QED BY <2>1, <2>2, <2>3
<1>6. s[1] <= limit  BY <1>4, <1>1
<1>7. /\ s \in Seq(Octets) /\ Number(256, s) = n
      /\ Len(s) \in Nat /\ Len(s) >= 1
      /\ s[1] \in Octets /\ s[1] <= limit
      /\ Len(s) = 1 => s[1] = n
      /\ Len(s) > 1 => s[2] \in Octets /\ (256 * s[1]) + s[2] > limit
  BY <1>2, <1>3, <1>4, <1>5, <1>6
<1> QED BY <1>7 DEF s

LEMMA NumberNat == ASSUME NEW s \in Seq(Octets) PROVE Number(256, s) \in Nat
<1>1. 0 \in Octets  BY DEF Octets
<1> QED BY <1>1, NumberOctet

LEMMA NumberOne == ASSUME NEW d \in Octets PROVE Number(256, <<d>>) = d
<1>1. <<>> \in Seq(Octets)  OBVIOUS
<1>2. Number(256, Append(<<>>, d)) = (256 * Number(256, <<>>)) + d  BY <1>1, NumberOctet
<1>3. Number(256, <<>>) = 0  BY NumberEmpty DEF Bases
<1>4. d \in Nat  BY OctetRange
<1>5. Number(256, Append(<<>>, d)) = d  BY <1>2, <1>3, <1>4
<1>6. Append(<<>>, d) = <<d>>  OBVIOUS
<1> QED BY <1>5, <1>6, Zenon

LEMMA NumberTwo ==
    ASSUME NEW c \in Octets, NEW d \in Octets PROVE Number(256, <<c, d>>) = (256 * c) + d
<1>1. <<c>> \in Seq(Octets)  OBVIOUS
<1>2. Number(256, Append(<<c>>, d)) = (256 * Number(256, <<c>>)) + d  BY <1>1, NumberOctet
<1>3. Number(256, <<c>>) = c  BY NumberOne
<1>4. Append(<<c>>, d) = <<c, d>>
  <2> DEFINE x == Append(<<c>>, d)
             y == <<c, d>>
  <2>1. /\ x \in Seq(Octets) /\ Len(x) = 2 /\ x[1] = c /\ x[2] = d
        /\ y \in Seq(Octets) /\ Len(y) = 2 /\ y[1] = c /\ y[2] = d
    OBVIOUS
  <2>2. \A i \in 1 .. 2 : i = 1 \/ i = 2  OBVIOUS
  <2> HIDE DEF x, y
  <2>3. x = y  BY <2>1, <2>2, SeqEqual
  <2> QED BY <2>3 DEF x, y
<1> QED BY <1>2, <1>3, <1>4, Zenon

\* The bounds of a number by its first digit, and by its first two.
LEMMA FirstBounds ==
    ASSUME NEW s \in Seq(Octets), NEW L \in Nat, Len(s) = L + 1
    PROVE  /\ s[1] * Power[L] <= Number(256, s)
           /\ Number(256, s) + 1 <= (s[1] + 1) * Power[L]
           /\ Number(256, s) < Power[L + 1]
<1> DEFINE p == <<s[1]>>
<1>1. s[1] \in Octets  BY EmptySeq
<1>2. p \in Seq(Octets) /\ Len(p) = 1 /\ p[1] = s[1]  BY <1>1
<1>3. Number(256, p) = s[1]  BY <1>1, NumberOne
<1>4. Begins(p, s, L)
  <2>1. \A i \in 1 .. Len(p) : i = 1  BY <1>2
  <2>2. Len(s) = Len(p) + L  BY <1>2
  <2> QED BY <1>2, <2>1, <2>2 DEF Begins
<1> HIDE DEF p
<1>5. /\ Number(256, p) * Power[L] <= Number(256, s)
      /\ Number(256, s) + 1 <= (Number(256, p) + 1) * Power[L]
  <2>1. Bounded(p, s, L)  BY <1>2, <1>4, NumberBounds
  <2> QED BY <2>1, Zenon DEF Bounded
<1>6. Number(256, s) < Power[L + 1]
  <2>1. PICK W \in Nat, N \in Nat, a \in Nat :
           W = Power[L] /\ N = Number(256, s) /\ a = s[1] /\ a <= 255
    <3>1. Power[L] \in Nat /\ Number(256, s) \in Nat  BY Powers, NumberNat
    <3>2. s[1] \in Nat /\ s[1] <= 255  BY <1>1, OctetRange
    <3> QED BY <3>1, <3>2
  <2>2. Power[L + 1] = 256 * W  BY <2>1, Powers
  <2>3. N + 1 <= (a + 1) * W  BY <2>1, <1>3, <1>5
  <2>4. (a + 1) * W <= 256 * W  BY <2>1
  <2> QED BY <2>1, <2>2, <2>3, <2>4
<1> QED BY <1>3, <1>5, <1>6

LEMMA SecondBounds ==
    ASSUME NEW s \in Seq(Octets), NEW L \in Nat, Len(s) = L + 2
    PROVE  /\ s[1] \in Octets /\ s[2] \in Octets
           /\ ((256 * s[1]) + s[2]) * Power[L] <= Number(256, s)
<1> DEFINE p == <<s[1], s[2]>>
<1>1. s[1] \in Octets /\ s[2] \in Octets
  <2>1. \A i \in 1 .. Len(s) : s[i] \in Octets  OBVIOUS
  <2>2. 1 \in 1 .. Len(s) /\ 2 \in 1 .. Len(s)  OBVIOUS
  <2> QED BY <2>1, <2>2
<1>2. p \in Seq(Octets) /\ Len(p) = 2 /\ p[1] = s[1] /\ p[2] = s[2]  BY <1>1
<1>3. Number(256, p) = (256 * s[1]) + s[2]  BY <1>1, NumberTwo
<1>4. Begins(p, s, L)
  <2>1. \A i \in 1 .. Len(p) : i = 1 \/ i = 2  BY <1>2
  <2>2. Len(s) = Len(p) + L  BY <1>2
  <2> QED BY <1>2, <2>1, <2>2 DEF Begins
<1> HIDE DEF p
<1>5. Number(256, p) * Power[L] <= Number(256, s)
  <2>1. Bounded(p, s, L)  BY <1>2, <1>4, NumberBounds
  <2> QED BY <2>1, Zenon DEF Bounded
<1> QED BY <1>1, <1>3, <1>5

\* The two's complement of m: of the length of m itself, it stands for -m
\* as soon as its first bit is set, and is not too long for it.
LEMMA Complements ==
    ASSUME NEW m \in Nat, m > 0
    PROVE  LET c == Complement(m)
           IN  /\ c \in Seq(Octets) /\ Len(c) \in Nat /\ Len(c) >= 1
               /\ Number(256, c) = Power[Len(c)] - m
               /\ c[1] \in Octets /\ c[1] >= 127
               /\ Len(c) > 1 => c[2] \in Octets /\ (c[1] = 255 => c[2] < 128)
<1> DEFINE b == Digits(256, 128, m)
<1>1. 128 \in Octets /\ 255 \in Octets  BY DEF Octets
<1>2. /\ b \in Seq(Octets) /\ Number(256, b) = m
      /\ Len(b) \in Nat /\ Len(b) >= 1
      /\ b[1] \in Octets /\ b[1] <= 128
      /\ Len(b) = 1 => b[1] = m
      /\ Len(b) > 1 => b[2] \in Octets /\ (256 * b[1]) + b[2] > 128
  BY <1>1, Digits256
<1> DEFINE n == Number(256, Invert(b)) + 1
           c == Digits(256, 255, n)
<1>3. c = Complement(m)  BY DEF Complement
<1> HIDE DEF b
<1>4. PICK K \in Nat : Len(b) = K + 1
  <2>1. Len(b) - 1 \in Nat /\ Len(b) = (Len(b) - 1) + 1  BY <1>2
  <2> QED BY <2>1
<1>5. PICK P \in Nat : P = Power[K] /\ P >= 1 /\ Power[K + 1] = 256 * P  BY Powers
<1>6. n = 256 * P - m
  <2>1. Number(256, Invert(b)) = (Power[Len(b)] - Number(256, b)) - 1  BY <1>2, Inverted
  <2>2. Number(256, Invert(b)) = (256 * P - m) - 1  BY <2>1, <1>2, <1>4, <1>5
  <2> QED BY <2>2, <1>5
<1>7. m + 1 <= 129 * P
  <2>1. Number(256, b) + 1 <= (b[1] + 1) * Power[K]  BY <1>2, <1>4, FirstBounds
  <2>2. PICK x \in Nat : x = b[1] /\ x <= 128  BY <1>2, OctetRange
  <2>3. m + 1 <= (x + 1) * P  BY <2>1, <2>2, <1>2, <1>5
  <2>4. (x + 1) * P <= 129 * P  BY <2>2
  <2> QED BY <2>3, <2>4
<1>8. n \in Nat /\ n >= 127 * P + 1 /\ n < 256 * P  BY <1>6, <1>7
<1> HIDE DEF n
<1>9. /\ c \in Seq(Octets) /\ Number(256, c) = n
      /\ Len(c) \in Nat /\ Len(c) >= 1
      /\ c[1] \in Octets
      /\ Len(c) = 1 => c[1] = n
      /\ Len(c) > 1 => c[2] \in Octets /\ (256 * c[1]) + c[2] > 255
  BY <1>1, <1>8, Digits256
<1> HIDE DEF c
<1>10. PICK J \in Nat : Len(c) = J + 1
  <2>1. Len(c) - 1 \in Nat /\ Len(c) = (Len(c) - 1) + 1  BY <1>9
  <2> QED BY <2>1
<1>11. PICK Q \in Nat, x \in Nat : Q = Power[J] /\ Power[J + 1] = 256 * Q /\ x = c[1]
  BY <1>9, Powers, OctetRange
<1>12. x * Q <= n /\ n + 1 <= (x + 1) * Q /\ n < 256 * Q
  BY <1>9, <1>10, <1>11, FirstBounds
<1>13. x >= 1
  <2>1. CASE Len(c) = 1  BY <2>1, <1>5, <1>8, <1>9, <1>11
  <2>2. CASE Len(c) > 1
    <3>1. c[2] \in Nat /\ c[2] <= 255  BY <2>2, <1>9, OctetRange
    <3>2. (256 * x) + c[2] > 255  BY <2>2, <1>9, <1>11
    <3> QED BY <3>1, <3>2
  <2>3. Len(c) = 1 \/ Len(c) > 1  BY <1>10
  <2> QED BY <2>1, <2>2, <2>3
<1>14. Q <= n
  <2>1. PICK y \in Nat : y = x * Q  OBVIOUS
  <2>2. Q <= y  BY <2>1, <1>13
  <2>3. y <= n  BY <2>1, <1>12
  <2> QED BY <2>2, <2>3, <1>8
<1>15. J = K
  <2>1. CASE J < K
    <3>1. J + 1 \in Nat /\ J + 1 <= K  BY <2>1
    <3>2. Power[J + 1] <= Power[K]  BY <3>1, PowersGrow
    <3> QED BY <3>2, <1>5, <1>8, <1>11, <1>12
  <2>2. CASE K < J
    <3>1. K + 1 \in Nat /\ K + 1 <= J  BY <2>2
    <3>2. Power[K + 1] <= Power[J]  BY <3>1, PowersGrow
    <3> QED BY <3>2, <1>5, <1>8, <1>11, <1>14
  <2> QED BY <2>1, <2>2
<1>16. Q = P  BY <1>5, <1>11, <1>15
<1>17. x >= 127
  <2>1. 127 * P + 2 <= (x + 1) * P  BY <1>8, <1>12, <1>16
  <2>2. CASE x + 1 <= 127
    <3>1. (x + 1) * P <= 127 * P  BY <2>2
    <3> QED BY <2>1, <3>1
  <2> QED BY <2>2
<1>18. ASSUME Len(c) > 1, c[1] = 255 PROVE c[2] < 128
  <2>1. PICK I \in Nat : J = I + 1
    <3>1. J - 1 \in Nat /\ J = (J - 1) + 1  BY <1>18, <1>10
    <3> QED BY <3>1
  <2>2. PICK R \in Nat : R = Power[I] /\ P = 256 * R
    BY <2>1, <1>5, <1>15, Powers
  <2>3. Len(b) = I + 2 /\ Len(c) = I + 2  BY <2>1, <1>4, <1>10, <1>15
  <2>4. 129 * R <= m
    <3>1. PICK y \in Nat : y = (256 * b[1]) + b[2] /\ y >= 129
      <4>1. b[1] \in Nat /\ b[2] \in Nat /\ (256 * b[1]) + b[2] > 128
        BY <2>3, <1>2, OctetRange
      <4> QED BY <4>1
    <3>2. y * R <= m  BY <3>1, <2>2, <2>3, <1>2, SecondBounds
    <3>3. 129 * R <= y * R  BY <3>1
    <3> QED BY <3>2, <3>3
  <2>5. PICK z \in Nat : z = c[2]  BY <1>18, <1>9, OctetRange
  <2>6. ((256 * 255) + z) * R <= n  BY <2>2, <2>3, <2>5, <1>9, <1>18, SecondBounds
  <2>7. n = 65536 * R - m  BY <1>6, <2>2
  <2>8. CASE z >= 128
    <3>1. 65408 * R <= ((256 * 255) + z) * R  BY <2>8
    <3>2. 65408 * R <= 65407 * R  BY <3>1, <2>4, <2>6, <2>7
    <3>3. R >= 1  BY <2>2, Powers
    <3> QED BY <3>2, <3>3
  <2> QED BY <2>5, <2>8
<1>19. n = Power[Len(c)] - m  BY <1>6, <1>5, <1>10, <1>15
<1>20. /\ c \in Seq(Octets) /\ Len(c) \in Nat /\ Len(c) >= 1
       /\ Number(256, c) = Power[Len(c)] - m
       /\ c[1] \in Octets /\ c[1] >= 127
       /\ Len(c) > 1 => c[2] \in Octets /\ (c[1] = 255 => c[2] < 128)
  BY <1>9, <1>11, <1>17, <1>18, <1>19
<1> QED BY <1>3, <1>20

\* A digit 0 in front does not count.
LEMMA LeadingZero ==
    ASSUME NEW s \in Seq(Octets)
    PROVE  Number(256, <<0>> \o s) = Number(256, s)
<1> DEFINE T == {n \in Nat : \A t \in Seq(Octets) : Len(t) = n =>
                    Number(256, <<0>> \o t) = Number(256, t)}
<1>0. 0 \in Octets /\ <<0>> \in Seq(Octets)  BY DEF Octets
<1>1. 0 \in T
  <2>1. ASSUME NEW t \in Seq(Octets), Len(t) = 0
        PROVE  Number(256, <<0>> \o t) = Number(256, t)
    <3>1. t = <<>>  BY <2>1, EmptySeq
    <3>2. <<0>> \o <<>> = <<0>>  BY <1>0, ConcatEmptySeq
    <3>3. Number(256, <<0>>) = 0  BY <1>0, NumberOne
    <3>4. Number(256, <<>>) = 0  BY NumberEmpty DEF Bases
    <3> QED BY <3>1, <3>2, <3>3, <3>4
  <2> QED BY <2>1
<1>2. ASSUME NEW n \in Nat, n \in T PROVE n + 1 \in T
  <2>1. ASSUME NEW t \in Seq(Octets), Len(t) = n + 1
        PROVE  Number(256, <<0>> \o t) = Number(256, t)
    <3>1. PICK u \in Seq(Octets), d \in Octets : t = Append(u, d) /\ Len(u) = n
      <4>1. t # <<>>  BY <2>1
      <4>2. PICK u \in Seq(Octets), d \in Octets : t = Append(u, d) /\ Len(t) = Len(u) + 1
        <5>1. PICK u \in Seq(Octets), d \in Octets : Parts(t, u, d)
          BY <4>1, Appended
        <5> QED BY <5>1 DEF Parts
      <4>3. Len(u) = n  BY <4>2, <2>1
      <4> QED BY <4>2, <4>3
    <3>2. Number(256, <<0>> \o u) = Number(256, u)  BY <1>2, <3>1
    <3> DEFINE w == <<0>> \o u
    <3>3. w \in Seq(Octets) /\ <<0>> \o Append(u, d) = Append(w, d)
      <4>1. w \in Seq(Octets)  BY <1>0, ConcatProperties
      <4>2. <<d>> \in Seq(Octets) /\ Append(u, d) = u \o <<d>> /\ Append(w, d) = w \o <<d>>
        BY <4>1, AppendIsConcat
      <4>3. <<0>> \o (u \o <<d>>) = (<<0>> \o u) \o <<d>>  BY <1>0, <4>2, ConcatAssociative
      <4> QED BY <4>1, <4>2, <4>3
    <3> HIDE DEF w
    <3>4. Number(256, Append(w, d)) = (256 * Number(256, w)) + d  BY <3>3, NumberOctet
    <3>5. Number(256, Append(u, d)) = (256 * Number(256, u)) + d  BY NumberOctet
    <3> QED BY <3>1, <3>2, <3>3, <3>4, <3>5 DEF w
  <2> QED BY <2>1
<1> HIDE DEF T
<1>3. Nat \subseteq T  BY <1>1, <1>2, Successors
<1>4. Len(s) \in T  BY <1>3
<1> QED BY <1>4 DEF T

\* Every integer is encoded in a form that is accepted, and that gives the
\* integer back (asn1.py:288, 592).
THEOREM IntegersComeBack ==
    ASSUME NEW v \in Int
    PROVE  LET s == EncodeInteger(v)
           IN  /\ s \in Seq(Octets) /\ s # <<>>
               /\ Normalized(s)
               /\ DecodeInteger(s) = v
<1>1. CASE v >= 0
  <2> DEFINE s == Digits(256, 127, v)
  <2>1. EncodeInteger(v) = s  BY <1>1 DEF EncodeInteger
  <2>2. /\ s \in Seq(Octets) /\ Number(256, s) = v
        /\ Len(s) \in Nat /\ Len(s) >= 1
        /\ s[1] \in Octets /\ s[1] <= 127
        /\ Len(s) > 1 => s[2] \in Octets /\ (256 * s[1]) + s[2] > 127
    <3>1. v \in Nat  BY <1>1
    <3>2. 127 \in Octets  BY DEF Octets
    <3> QED BY <3>1, <3>2, Digits256
  <2> HIDE DEF s
  <2>3. s # <<>>  BY <2>2
  <2>4. s[1] \in Nat /\ ~(s[1] >= 128) /\ s[1] # 255  BY <2>2, OctetRange
  <2>5. Normalized(s)
    <3>1. ASSUME Len(s) > 1, s[1] = 0 PROVE s[2] >= 128
      <4>1. s[2] \in Nat /\ (256 * s[1]) + s[2] > 127  BY <3>1, <2>2, OctetRange
      <4> QED BY <4>1, <3>1
    <3> QED BY <3>1, <2>4 DEF Normalized
  <2>6. DecodeInteger(s) = v  BY <2>2, <2>4 DEF DecodeInteger
  <2> QED BY <2>1, <2>2, <2>3, <2>5, <2>6
<1>2. CASE v < 0
  <2>1. PICK m \in Nat : m = -v /\ m > 0 /\ v = -m  BY <1>2
  <2> DEFINE c == Complement(m)
  <2>2. /\ c \in Seq(Octets) /\ Len(c) \in Nat /\ Len(c) >= 1
        /\ Number(256, c) = Power[Len(c)] - m
        /\ c[1] \in Octets /\ c[1] >= 127
        /\ Len(c) > 1 => c[2] \in Octets /\ (c[1] = 255 => c[2] < 128)
    BY <2>1, Complements
  <2>3. EncodeInteger(v) = IF c[1] = 127 THEN <<255>> \o c ELSE c
    BY <1>2, <2>1 DEF EncodeInteger
  <2> HIDE DEF c
  <2>4. c[1] \in Nat  BY <2>2, OctetRange
  <2>5. PICK W \in Nat : W = Power[Len(c)]  BY <2>2, Powers
  <2>6. /\ Invert(c) \in Seq(Octets)
        /\ Number(256, Invert(c)) = m - 1
    <3>1. Number(256, Invert(c)) = (W - Number(256, c)) - 1 /\ Number(256, c) = W - m
      BY <2>2, <2>5, Inverted
    <3>2. Invert(c) \in Seq(Octets)  BY <2>2, Inverted
    <3>3. Number(256, Invert(c)) = (W - (W - m)) - 1  BY <3>1
    <3>4. (W - (W - m)) - 1 = m - 1  OBVIOUS
    <3> QED BY <3>2, <3>3, <3>4
  <2>7. CASE c[1] = 127
    <3> DEFINE s == <<255>> \o c
    <3>1. 255 \in Octets /\ <<255>> \in Seq(Octets) /\ Len(<<255>>) = 1  BY DEF Octets
    <3>2. /\ s \in Seq(Octets) /\ Len(s) = Len(c) + 1 /\ s[1] = 255
          /\ \A i \in 1 .. Len(c) : s[i + 1] = c[i]
      <4>1. /\ s \in Seq(Octets) /\ Len(s) = Len(<<255>>) + Len(c)
            /\ \A i \in 1 .. Len(<<255>>) + Len(c) :
                 s[i] = IF i <= Len(<<255>>) THEN <<255>>[i] ELSE c[i - Len(<<255>>)]
        BY <2>2, <3>1, ConcatProperties
      <4> HIDE DEF s
      <4>2. Len(s) = Len(c) + 1  BY <4>1, <3>1, <2>2
      <4>3. \A i \in 1 .. Len(c) + 1 : s[i] = IF i <= 1 THEN <<255>>[i] ELSE c[i - 1]
        BY <4>1, <3>1, <2>2
      <4>4. s[1] = 255  BY <4>3, <2>2
      <4>5. ASSUME NEW i \in 1 .. Len(c) PROVE s[i + 1] = c[i]
        <5>1. i + 1 \in 1 .. Len(c) + 1 /\ ~(i + 1 <= 1) /\ (i + 1) - 1 = i  BY <2>2
        <5> QED BY <4>3, <5>1
      <4> QED BY <4>1, <4>2, <4>4, <4>5
    <3> HIDE DEF s
    <3>3. s[2] = 127  BY <3>2, <2>2, <2>7
    <3>4. Invert(s) = <<0>> \o Invert(c)
      <4> DEFINE x == Invert(s)
                 y == <<0>> \o Invert(c)
      <4>1. /\ x \in Seq(Octets) /\ Len(x) = Len(c) + 1
            /\ \A i \in 1 .. Len(c) + 1 : x[i] = 255 - s[i]
        BY <3>2, Inverted
      <4>2. <<0>> \in Seq(Octets) /\ Len(<<0>>) = 1 /\ Len(Invert(c)) = Len(c)
        BY <2>2, Inverted DEF Octets
      <4>3. /\ y \in Seq(Octets) /\ Len(y) = Len(c) + 1
            /\ \A i \in 1 .. Len(c) + 1 :
                 y[i] = IF i <= 1 THEN <<0>>[i] ELSE Invert(c)[i - 1]
        <5>1. /\ y \in Seq(Octets) /\ Len(y) = Len(<<0>>) + Len(Invert(c))
              /\ \A i \in 1 .. Len(<<0>>) + Len(Invert(c)) :
                   y[i] = IF i <= Len(<<0>>) THEN <<0>>[i] ELSE Invert(c)[i - Len(<<0>>)]
          BY <2>6, <4>2, ConcatProperties
        <5> HIDE DEF y
        <5> QED BY <5>1, <4>2, <2>2
      <4>4. \A i \in 1 .. Len(c) : Invert(c)[i] = 255 - c[i]  BY <2>2, Inverted
      <4> HIDE DEF x, y
      <4>5. ASSUME NEW i \in 1 .. Len(c) + 1 PROVE x[i] = y[i]
        <5>1. CASE i = 1
          <6>1. x[i] = 255 - 255  BY <4>1, <3>2, <5>1
          <6>2. y[i] = 0  BY <4>3, <5>1
          <6> QED BY <6>1, <6>2
        <5>2. CASE i # 1
          <6>1. i - 1 \in 1 .. Len(c) /\ (i - 1) + 1 = i /\ ~(i <= 1)  BY <2>2, <5>2
          <6>2. s[i] = c[i - 1]  BY <3>2, <6>1
          <6> QED BY <4>1, <4>3, <4>4, <6>1, <6>2
        <5> QED BY <5>1, <5>2
      <4>6. x = y  BY <4>1, <4>3, <4>5, SeqEqual
      <4> QED BY <4>6 DEF x, y
    <3>5. Number(256, Invert(s)) = m - 1  BY <3>4, <2>6, LeadingZero
    <3>6. DecodeInteger(s) = v  BY <3>2, <3>5, <2>1 DEF DecodeInteger
    <3>7. Normalized(s)  BY <3>2, <3>3 DEF Normalized
    <3>8. EncodeInteger(v) = s  BY <2>3, <2>7 DEF s
    <3>9. s # <<>>  BY <3>2, <2>2
    <3> QED BY <3>2, <3>6, <3>7, <3>8, <3>9
  <2>8. CASE c[1] # 127
    <3>1. c[1] >= 128 /\ c[1] # 0  BY <2>2, <2>4, <2>8
    <3>2. DecodeInteger(c) = v  BY <3>1, <2>1, <2>6 DEF DecodeInteger
    <3>3. Normalized(c)  BY <3>1, <2>2 DEF Normalized
    <3>4. EncodeInteger(v) = c  BY <2>3, <2>8
    <3>5. c # <<>>  BY <2>2
    <3> QED BY <2>2, <3>2, <3>3, <3>4, <3>5
  <2> QED BY <2>7, <2>8
<1> QED BY <1>1, <1>2

-----------------------------------------------------------------------------
(***************************************************************************)
(* Tags and lengths, in data that may end before they do.                  *)
(***************************************************************************)

\* As far as d goes, it has w after its first i bytes.
Shows(d, i, w) == \A j \in 1 .. Len(w) : i + j <= Len(d) => d[i + j] = w[j]

LEMMA ShowsSub ==
    ASSUME NEW d \in Seq(Octets), NEW i \in Nat, NEW w \in Seq(Octets),
           Shows(d, i, w), i + Len(w) <= Len(d)
    PROVE  SubSeq(d, i + 1, i + Len(w)) = w
<1> DEFINE s == SubSeq(d, i + 1, i + Len(w))
<1>0. Len(w) \in Nat /\ Len(d) \in Nat  OBVIOUS
<1>1. \A j \in i + 1 .. i + Len(w) : d[j] \in Octets  BY <1>0
<1>2. /\ s \in Seq(Octets)
      /\ Len(s) = IF i + 1 <= i + Len(w) THEN ((i + Len(w)) - (i + 1)) + 1 ELSE 0
      /\ \A j \in 1 .. ((i + Len(w)) - (i + 1)) + 1 : s[j] = d[((i + 1) + j) - 1]
  <2>1. i + 1 \in Int /\ i + Len(w) \in Int  BY <1>0
  <2> QED BY <1>1, <2>1, SubSeqProperties
<1> HIDE DEF s
<1>3. Len(s) = Len(w)  BY <1>0, <1>2
<1>4. ASSUME NEW j \in 1 .. Len(w) PROVE s[j] = w[j]
  <2>1. j \in 1 .. ((i + Len(w)) - (i + 1)) + 1 /\ ((i + 1) + j) - 1 = i + j  BY <1>0
  <2>2. s[j] = d[i + j]  BY <1>2, <2>1
  <2>3. i + j <= Len(d)  BY <1>0
  <2> QED BY <2>2, <2>3 DEF Shows
<1>5. s = w  BY <1>2, <1>3, <1>4, SeqEqual
<1> QED BY <1>5 DEF s

LEMMA ShowsConcat ==
    ASSUME NEW d \in Seq(Octets), NEW i \in Nat, NEW u \in Seq(Octets), NEW w \in Seq(Octets)
    PROVE  /\ u \o w \in Seq(Octets) /\ Len(u \o w) = Len(u) + Len(w)
           /\ Shows(d, i, u \o w) <=> Shows(d, i, u) /\ Shows(d, i + Len(u), w)
<1> DEFINE x == u \o w
<1>0. Len(u) \in Nat /\ Len(w) \in Nat /\ Len(d) \in Nat  OBVIOUS
<1>1. /\ x \in Seq(Octets) /\ Len(x) = Len(u) + Len(w)
      /\ \A j \in 1 .. Len(u) + Len(w) : x[j] = IF j <= Len(u) THEN u[j] ELSE w[j - Len(u)]
  BY ConcatProperties
<1> HIDE DEF x
<1>2. ASSUME Shows(d, i, x) PROVE Shows(d, i, u) /\ Shows(d, i + Len(u), w)
  <2>1. ASSUME NEW j \in 1 .. Len(u), i + j <= Len(d) PROVE d[i + j] = u[j]
    <3>1. j \in 1 .. Len(x) /\ x[j] = u[j]  BY <1>0, <1>1
    <3> QED BY <1>2, <2>1, <3>1 DEF Shows
  <2>2. ASSUME NEW j \in 1 .. Len(w), (i + Len(u)) + j <= Len(d)
        PROVE  d[(i + Len(u)) + j] = w[j]
    <3>1. /\ Len(u) + j \in 1 .. Len(u) + Len(w) /\ ~(Len(u) + j <= Len(u))
          /\ (Len(u) + j) - Len(u) = j /\ i + (Len(u) + j) = (i + Len(u)) + j
      BY <1>0
    <3>2. Len(u) + j \in 1 .. Len(x) /\ x[Len(u) + j] = w[j]  BY <1>1, <3>1
    <3>3. i + (Len(u) + j) <= Len(d) => d[i + (Len(u) + j)] = x[Len(u) + j]
      BY <1>2, <3>2 DEF Shows
    <3> QED BY <2>2, <3>1, <3>2, <3>3
  <2> QED BY <2>1, <2>2 DEF Shows
<1>3. ASSUME Shows(d, i, u), Shows(d, i + Len(u), w) PROVE Shows(d, i, x)
  <2>1. ASSUME NEW j \in 1 .. Len(x), i + j <= Len(d) PROVE d[i + j] = x[j]
    <3>1. CASE j <= Len(u)
      <4>1. j \in 1 .. Len(u) /\ x[j] = u[j]  BY <3>1, <1>0, <1>1
      <4> QED BY <4>1, <1>3, <2>1 DEF Shows
    <3>2. CASE ~(j <= Len(u))
      <4>1. PICK k \in 1 .. Len(w) : k = j - Len(u) /\ i + j = (i + Len(u)) + k
        BY <3>2, <1>0, <1>1
      <4>2. x[j] = w[k]  BY <3>2, <1>0, <1>1, <4>1
      <4>3. (i + Len(u)) + k <= Len(d) => d[(i + Len(u)) + k] = w[k]  BY <1>3 DEF Shows
      <4> QED BY <2>1, <4>1, <4>2, <4>3
    <3> QED BY <3>1, <3>2
  <2> QED BY <2>1 DEF Shows
<1> QED BY <1>1, <1>2, <1>3 DEF x

\* The digits of n in base 128, each with its high bit set.
High(n) == [i \in 1 .. Len(Digits(128, 127, n)) |-> Digits(128, 127, n)[i] + 128]

LEMMA HighStep ==
    ASSUME NEW n \in Nat
    PROVE  /\ High(n) \in Seq(Octets) /\ \A i \in 1 .. Len(High(n)) : High(n)[i] >= 128
           /\ n < 128 => High(n) = <<n + 128>>
           /\ n >= 128 => High(n) = Append(High(n \div 128), (n % 128) + 128)
<1>0. 128 \in Bases /\ 127 \in 0 .. 128 - 1 /\ 0 .. 128 - 1 = 0 .. 127  BY DEF Bases
<1>1. ASSUME NEW k \in Nat
      PROVE  \E t \in Seq(0 .. 127) :
                /\ t = Digits(128, 127, k) /\ Len(t) \in Nat
                /\ High(k) \in Seq(Octets) /\ Len(High(k)) = Len(t)
                /\ \A i \in 1 .. Len(t) : High(k)[i] = t[i] + 128 /\ High(k)[i] >= 128
  <2>1. Digits(128, 127, k) \in Seq(0 .. 127)  BY <1>0, DigitsStep
  <2>2. PICK t \in Seq(0 .. 127) : t = Digits(128, 127, k)  BY <2>1
  <2>3. Len(t) \in Nat /\ \A i \in 1 .. Len(t) : t[i] \in 0 .. 127
    BY ElementOfSeq, LenProperties
  <2>4. \A i \in 1 .. Len(t) : t[i] + 128 \in Octets /\ t[i] + 128 >= 128
    <3>1. \A d \in 0 .. 127 : d + 128 \in Octets /\ d + 128 >= 128  BY DEF Octets
    <3> QED BY <2>3, <3>1
  <2>5. High(k) = [i \in 1 .. Len(t) |-> t[i] + 128]  BY <2>2 DEF High
  <2>6. High(k) \in Seq(Octets) /\ Len(High(k)) = Len(t)  BY <2>3, <2>4, <2>5
  <2> QED BY <2>2, <2>3, <2>4, <2>5, <2>6
<1>2. ASSUME n < 128 PROVE High(n) = <<n + 128>>
  <2>1. Digits(128, 127, n) = <<n>>
    <3>1. n <= 127  BY <1>2
    <3> QED BY <1>0, <3>1, DigitsStep
  <2>2. Len(<<n>>) = 1 /\ <<n>>[1] = n  OBVIOUS
  <2>3. PICK t \in Seq(0 .. 127) :
          /\ t = <<n>> /\ High(n) \in Seq(Octets) /\ Len(High(n)) = Len(t)
          /\ \A i \in 1 .. Len(t) : High(n)[i] = t[i] + 128
    BY <1>1, <2>1
  <2>4. High(n) \in Seq(Octets) /\ Len(High(n)) = 1 /\ High(n)[1] = n + 128  BY <2>2, <2>3
  <2> DEFINE x == High(n)
             y == <<n + 128>>
  <2>5. y \in Seq(Octets) /\ Len(y) = 1 /\ y[1] = n + 128
    BY <1>2 DEF Octets
  <2>6. x \in Seq(Octets) /\ Len(x) = 1 /\ x[1] = n + 128  BY <2>4
  <2> HIDE DEF x, y
  <2>7. \A i \in 1 .. 1 : x[i] = y[i]  BY <2>5, <2>6
  <2>8. x = y  BY <2>5, <2>6, <2>7, SeqEqual
  <2> QED BY <2>8 DEF x, y
<1>3. ASSUME n >= 128 PROVE High(n) = Append(High(n \div 128), (n % 128) + 128)
  <2>1. PICK q \in Nat, r \in 0 .. 127 : q = n \div 128 /\ r = n % 128  BY <1>3
  <2>2. Digits(128, 127, n) = Append(Digits(128, 127, q), r)
    <3>1. ~(n <= 127)  BY <1>3
    <3> QED BY <1>0, <3>1, <2>1, DigitsStep
  <2> DEFINE x == High(n)
             h == High(q)
             y == Append(h, r + 128)
  <2>4. PICK t \in Seq(0 .. 127) :
          /\ t = Digits(128, 127, q) /\ Len(t) \in Nat /\ h \in Seq(Octets) /\ Len(h) = Len(t)
          /\ \A i \in 1 .. Len(t) : h[i] = t[i] + 128
    BY <1>1
  <2>5. /\ Len(Append(t, r)) = Len(t) + 1 /\ Append(t, r)[Len(t) + 1] = r
        /\ \A i \in 1 .. Len(t) : Append(t, r)[i] = t[i]
    BY <2>4, AppendProperties
  <2>6. /\ x \in Seq(Octets) /\ Len(x) = Len(Append(t, r))
        /\ \A i \in 1 .. Len(Append(t, r)) : x[i] = Append(t, r)[i] + 128
    <3>1. PICK u \in Seq(0 .. 127) :
            /\ u = Digits(128, 127, n) /\ Len(u) \in Nat
            /\ High(n) \in Seq(Octets) /\ Len(High(n)) = Len(u)
            /\ \A i \in 1 .. Len(u) : High(n)[i] = u[i] + 128 /\ High(n)[i] >= 128
      BY <1>1, Zenon
    <3>2. u = Append(t, r)  BY <2>2, <2>4, <3>1
    <3> QED BY <3>1, <3>2, Zenon
  <2> HIDE DEF x, h
  <2>7. Len(t) + 1 \in 1 .. Len(t) + 1 /\ \A i \in 1 .. Len(t) : i \in 1 .. Len(t) + 1  BY <2>4
  <2>8. r + 128 \in Octets  BY DEF Octets
  <2>9. /\ y \in Seq(Octets) /\ Len(y) = Len(t) + 1 /\ y[Len(t) + 1] = r + 128
        /\ \A i \in 1 .. Len(t) : y[i] = h[i]
    BY <2>4, <2>8, AppendProperties
  <2> HIDE DEF y
  <2>10. ASSUME NEW i \in 1 .. Len(t) + 1 PROVE x[i] = y[i]
    <3>1. CASE i = Len(t) + 1  BY <2>5, <2>6, <2>7, <2>9, <3>1
    <3>2. CASE i # Len(t) + 1
      <4>1. i \in 1 .. Len(t)  BY <2>4, <3>2
      <4>2. x[i] = t[i] + 128  BY <4>1, <2>5, <2>6, <2>7
      <4> QED BY <4>1, <4>2, <2>4, <2>9
    <3> QED BY <3>1, <3>2
  <2>11. x = y  BY <2>5, <2>6, <2>9, <2>10, SeqEqual
  <2> QED BY <2>1, <2>11 DEF x, y, h
<1>4. High(n) \in Seq(Octets) /\ \A i \in 1 .. Len(High(n)) : High(n)[i] >= 128  BY <1>1
<1> QED BY <1>2, <1>3, <1>4

LEMMA SeptetsStep ==
    ASSUME NEW n \in Nat
    PROVE  /\ n < 128 => Septets(n) = <<n>>
           /\ n >= 128 => Septets(n) = Append(High(n \div 128), n % 128)
<1>0. 128 \in Bases /\ 127 \in 0 .. 128 - 1 /\ 0 .. 128 - 1 = 0 .. 127  BY DEF Bases
<1>1. PICK u \in Seq(0 .. 127) : u = Digits(128, 127, n)
  <2>1. Digits(128, 127, n) \in Seq(0 .. 127)  BY <1>0, DigitsStep
  <2> QED BY <2>1
<1>2. Len(u) \in Nat /\ \A i \in 1 .. Len(u) : u[i] \in 0 .. 127
  BY ElementOfSeq, LenProperties
<1>3. Septets(n) = [i \in 1 .. Len(u) |-> IF i < Len(u) THEN u[i] + 128 ELSE u[i]]
  BY <1>1 DEF Septets
<1>4. Septets(n) \in Seq(Octets) /\ Len(Septets(n)) = Len(u)
  <2>1. \A d \in 0 .. 127 : d + 128 \in Octets /\ d \in Octets  BY DEF Octets
  <2>2. \A i \in 1 .. Len(u) : (IF i < Len(u) THEN u[i] + 128 ELSE u[i]) \in Octets
    BY <1>2, <2>1
  <2> QED BY <1>2, <1>3, <2>2
<1>5. ASSUME n < 128 PROVE Septets(n) = <<n>>
  <2>1. u = <<n>>
    <3>1. n <= 127  BY <1>5
    <3> QED BY <1>0, <1>1, <3>1, DigitsStep
  <2>2. Len(u) = 1 /\ u[1] = n  BY <2>1
  <2> DEFINE x == Septets(n)
             y == <<n>>
  <2>3. y \in Seq(Octets) /\ Len(y) = 1 /\ y[1] = n  BY <1>5 DEF Octets
  <2>4. x \in Seq(Octets) /\ Len(x) = 1 /\ x[1] = n  BY <1>3, <1>4, <2>2
  <2> HIDE DEF x, y
  <2>5. \A i \in 1 .. 1 : x[i] = y[i]  BY <2>3, <2>4
  <2>6. x = y  BY <2>3, <2>4, <2>5, SeqEqual
  <2> QED BY <2>6 DEF x, y
<1>6. ASSUME n >= 128 PROVE Septets(n) = Append(High(n \div 128), n % 128)
  <2>1. PICK q \in Nat, r \in 0 .. 127 : q = n \div 128 /\ r = n % 128
    <3>1. n \div 128 \in Nat /\ n % 128 \in 0 .. 127  BY <1>0, Quotients
    <3> QED BY <3>1, Zenon
  <2>2. PICK t \in Seq(0 .. 127) : t = Digits(128, 127, q)
    <3>1. Digits(128, 127, q) \in Seq(0 .. 127)  BY <1>0, DigitsStep
    <3> QED BY <3>1
  <2>3. u = Append(t, r)
    <3>1. n > 127  BY <1>6
    <3>2. Digits(128, 127, n) = Append(Digits(128, 127, n \div 128), n % 128)
      BY <1>0, <3>1, DigitsStep
    <3> QED BY <3>2, <1>1, <2>1, <2>2, Zenon
  <2>4. Len(t) \in Nat  BY LenProperties
  <2>5. Len(u) = Len(t) + 1 /\ u[Len(t) + 1] = r /\ \A i \in 1 .. Len(t) : u[i] = t[i]
    BY <2>3, AppendProperties
  <2> DEFINE x == Septets(n)
             h == High(q)
             y == Append(h, r)
  <2>6. h \in Seq(Octets)  BY HighStep
  <2>7. h = [i \in 1 .. Len(t) |-> t[i] + 128]  BY <2>2 DEF High
  <2>8. Len(h) = Len(t) /\ \A i \in 1 .. Len(t) : h[i] = t[i] + 128  BY <2>4, <2>6, <2>7
  <2>9. /\ x \in Seq(Octets) /\ Len(x) = Len(t) + 1 /\ x[Len(t) + 1] = r
        /\ \A i \in 1 .. Len(t) : x[i] = t[i] + 128
    <3>1. Len(t) + 1 \in 1 .. Len(u) /\ ~(Len(t) + 1 < Len(u))  BY <2>4, <2>5
    <3>2. \A i \in 1 .. Len(t) : i \in 1 .. Len(u) /\ i < Len(u)  BY <2>4, <2>5
    <3> QED BY <1>3, <1>4, <2>5, <3>1, <3>2
  <2> HIDE DEF x, h
  <2>10. r \in Octets  BY DEF Octets
  <2>11. /\ y \in Seq(Octets) /\ Len(y) = Len(t) + 1 /\ y[Len(t) + 1] = r
         /\ \A i \in 1 .. Len(t) : y[i] = h[i]
    BY <2>6, <2>8, <2>10, AppendProperties
  <2> HIDE DEF y
  <2>12. ASSUME NEW i \in 1 .. Len(t) + 1 PROVE x[i] = y[i]
    <3>1. CASE i = Len(t) + 1  BY <2>9, <2>11, <3>1
    <3>2. CASE i # Len(t) + 1
      <4>1. i \in 1 .. Len(t)  BY <2>4, <3>2
      <4> QED BY <4>1, <2>8, <2>9, <2>11
    <3> QED BY <3>1, <3>2
  <2>13. x = y  BY <2>9, <2>11, <2>12, SeqEqual
  <2> QED BY <2>1, <2>13 DEF x, y, h
<1> QED BY <1>5, <1>6

\* The high bits are not part of the number.
LEMMA HighNumber ==
    ASSUME NEW n \in Nat PROVE Number(128, High(n)) = n
<1> DEFINE T == {k \in Nat : Number(128, High(k)) = k}
<1>0. 128 \in Bases  BY DEF Bases
<1>1. ASSUME NEW k \in Nat, \A m \in Nat : m < k => m \in T PROVE k \in T
  <2>1. CASE k < 128
    <3>1. High(k) = <<k + 128>>  BY <2>1, HighStep
    <3>2. <<k + 128>> = Append(<<>>, k + 128) /\ <<>> \in Seq(Nat) /\ k + 128 \in Nat  OBVIOUS
    <3>3. Number(128, Append(<<>>, k + 128)) = (128 * Number(128, <<>>)) + ((k + 128) % 128)
      BY <1>0, <3>2, NumberAppend
    <3>4. Number(128, <<>>) = 0  BY <1>0, NumberEmpty
    <3>5. (128 * 0) + ((k + 128) % 128) = k  BY <2>1
    <3>6. Number(128, High(k)) = k  BY <3>1, <3>2, <3>3, <3>4, <3>5, Zenon
    <3> QED BY <3>6
  <2>2. CASE ~(k < 128)
    <3>1. PICK q \in Nat, r \in 0 .. 127 :
            q = k \div 128 /\ r = k % 128 /\ k = (128 * q) + r /\ q < k
      BY <2>2
    <3>2. High(k) = Append(High(q), r + 128)
      <4>1. k >= 128  BY <2>2
      <4> QED BY <4>1, <3>1, HighStep
    <3>3. High(q) \in Seq(Nat)
      <4>1. High(q) \in Seq(Octets)  BY HighStep
      <4> QED BY <4>1, OctetsNat
    <3>4. Number(128, High(q)) = q  BY <1>1, <3>1
    <3>5. r + 128 \in Nat /\ (r + 128) % 128 = r  OBVIOUS
    <3>6. Number(128, High(k)) = (128 * q) + r
      <4>1. Number(128, Append(High(q), r + 128)) = (128 * Number(128, High(q))) + ((r + 128) % 128)
        BY <1>0, <3>3, <3>5, NumberAppend
      <4> QED BY <4>1, <3>2, <3>4, <3>5, Zenon
    <3>7. Number(128, High(k)) = k  BY <3>1, <3>6
    <3> QED BY <3>7
  <2> QED BY <2>1, <2>2
<1> HIDE DEF T
<1>2. Nat \subseteq T  BY <1>1, Induction
<1> QED BY <1>2 DEF T

\* The last byte, and no other, has its high bit clear.
LEMMA SeptetsNumber ==
    ASSUME NEW n \in Nat
    PROVE  \E L \in Nat :
              /\ Septets(n) \in Seq(Octets) /\ Len(Septets(n)) = L + 1
              /\ Septets(n)[L + 1] < 128 /\ \A i \in 1 .. L : Septets(n)[i] >= 128
              /\ Number(128, Septets(n)) = n
<1>0. 128 \in Bases  BY DEF Bases
<1>1. CASE n < 128
  <2>1. Septets(n) = <<n>>  BY <1>1, SeptetsStep
  <2>2. /\ <<n>> = Append(<<>>, n) /\ <<>> \in Seq(Nat) /\ <<n>> \in Seq(Octets)
        /\ Len(<<n>>) = 0 + 1 /\ <<n>>[0 + 1] = n
    BY <1>1 DEF Octets
  <2>3. Number(128, Append(<<>>, n)) = (128 * Number(128, <<>>)) + (n % 128)
    BY <1>0, <2>2, NumberAppend
  <2>4. Number(128, <<>>) = 0  BY <1>0, NumberEmpty
  <2>5. (128 * 0) + (n % 128) = n  BY <1>1
  <2>6. Number(128, <<n>>) = n  BY <2>2, <2>3, <2>4, <2>5, Zenon
  <2>7. <<n>>[0 + 1] < 128 /\ \A i \in 1 .. 0 : <<n>>[i] >= 128  BY <1>1, <2>2
  <2>8. 0 \in Nat  OBVIOUS
  <2> QED BY <2>1, <2>2, <2>6, <2>7, <2>8, Zenon
<1>2. CASE ~(n < 128)
  <2>1. PICK q \in Nat, r \in 0 .. 127 :
          q = n \div 128 /\ r = n % 128 /\ n = (128 * q) + r
    BY <1>2
  <2> DEFINE h == High(q)
             y == Append(h, r)
  <2>2. Septets(n) = y
    <3>1. n >= 128  BY <1>2
    <3> QED BY <3>1, <2>1, SeptetsStep
  <2>3. h \in Seq(Octets) /\ \A i \in 1 .. Len(h) : h[i] >= 128  BY HighStep
  <2>4. Number(128, h) = q  BY HighNumber
  <2> HIDE DEF h
  <2>5. r \in Octets /\ r \in Nat /\ r % 128 = r /\ r < 128  BY DEF Octets
  <2>6. h \in Seq(Nat)  BY <2>3, OctetsNat
  <2>7. Number(128, y) = n
    <3>1. Number(128, y) = (128 * Number(128, h)) + (r % 128)
      BY <1>0, <2>5, <2>6, NumberAppend
    <3>2. Number(128, y) = (128 * q) + r  BY <3>1, <2>4, <2>5, Zenon
    <3> QED BY <3>2, <2>1
  <2>8. /\ y \in Seq(Octets) /\ Len(y) = Len(h) + 1 /\ y[Len(h) + 1] = r
        /\ \A i \in 1 .. Len(h) : y[i] = h[i]
    BY <2>3, <2>5, AppendProperties
  <2>9. Len(h) \in Nat  BY <2>3, LenProperties
  <2> HIDE DEF y
  <2>10. /\ y \in Seq(Octets) /\ Len(y) = Len(h) + 1 /\ y[Len(h) + 1] < 128
         /\ \A i \in 1 .. Len(h) : y[i] >= 128
         /\ Number(128, y) = n
    BY <2>3, <2>5, <2>7, <2>8
  <2> QED BY <2>2, <2>9, <2>10, Zenon
<1> QED BY <1>1, <1>2

LEMMA FirstByte ==
    ASSUME NEW k \in 0 .. 31, NEW typ \in {Primitive, Constructed}, NEW cls \in Classes
    PROVE  LET f == k + typ + cls
           IN  /\ f \in Octets /\ f % 32 = k /\ 64 * (f \div 64) = cls
               /\ typ = IF (f \div 32) % 2 = 1 THEN Constructed ELSE Primitive
<1>1. cls \in {0, 64, 128, 192} /\ typ \in {0, 32}  BY DEF Classes, Primitive, Constructed
<1>2. CASE typ = 0
  <2>1. CASE cls = 0  BY <1>2, <2>1 DEF Octets, Primitive, Constructed
  <2>2. CASE cls = 64  BY <1>2, <2>2 DEF Octets, Primitive, Constructed
  <2>3. CASE cls = 128  BY <1>2, <2>3 DEF Octets, Primitive, Constructed
  <2>4. CASE cls = 192  BY <1>2, <2>4 DEF Octets, Primitive, Constructed
  <2> QED BY <1>1, <2>1, <2>2, <2>3, <2>4
<1>3. CASE typ = 32
  <2>1. CASE cls = 0  BY <1>3, <2>1 DEF Octets, Primitive, Constructed
  <2>2. CASE cls = 64  BY <1>3, <2>2 DEF Octets, Primitive, Constructed
  <2>3. CASE cls = 128  BY <1>3, <2>3 DEF Octets, Primitive, Constructed
  <2>4. CASE cls = 192  BY <1>3, <2>4 DEF Octets, Primitive, Constructed
  <2> QED BY <1>1, <2>1, <2>2, <2>3, <2>4
<1> QED BY <1>1, <1>2, <1>3

LEMMA Lowest ==
    ASSUME NEW S \in SUBSET Int, NEW m \in S, \A y \in S : m <= y
    PROVE  Min(S) = m
<1>1. \E x \in S : \A y \in S : x <= y  OBVIOUS
<1>2. Min(S) \in S /\ \A y \in S : Min(S) <= y  BY <1>1, Zenon DEF Min
<1>3. Min(S) <= m /\ m <= Min(S)  BY <1>2
<1>4. Min(S) \in Int /\ m \in Int  BY <1>2
<1> QED BY <1>3, <1>4

TagOf(t) == TagBytes(t.nr, t.typ, t.cls)
Levels   == [at : Nat, data : Seq(Octets)]

LEMMA TagForm ==
    ASSUME NEW t \in Tags
    PROVE  LET k == IF t.nr < 31 THEN t.nr ELSE 31
               f == k + t.typ + t.cls
               u == IF t.nr < 31 THEN <<>> ELSE Septets(t.nr)
           IN  /\ k \in 0 .. 31 /\ f \in Octets /\ f % 32 = k /\ 64 * (f \div 64) = t.cls
               /\ t.typ = IF (f \div 32) % 2 = 1 THEN Constructed ELSE Primitive
               /\ u \in Seq(Octets) /\ Len(u) \in Nat
               /\ TagOf(t) = <<f>> \o u /\ TagOf(t) \in Seq(Octets)
               /\ Len(TagOf(t)) = 1 + Len(u)
<1> DEFINE k == IF t.nr < 31 THEN t.nr ELSE 31
           f == k + t.typ + t.cls
           u == IF t.nr < 31 THEN <<>> ELSE Septets(t.nr)
<1>1. t.nr \in Nat /\ t.typ \in {Primitive, Constructed} /\ t.cls \in Classes  BY DEF Tags
<1>2. k \in 0 .. 31  BY <1>1
<1>3. TagOf(t) = IF t.nr < 31 THEN <<f>> ELSE <<f>> \o Septets(t.nr)
  BY DEF TagOf, TagBytes
<1>4. /\ f \in Octets /\ f % 32 = k /\ 64 * (f \div 64) = t.cls
      /\ t.typ = IF (f \div 32) % 2 = 1 THEN Constructed ELSE Primitive
  <2> HIDE DEF k
  <2> QED BY <1>1, <1>2, FirstByte
<1>5. u \in Seq(Octets)
  <2>1. Septets(t.nr) \in Seq(Octets)  BY <1>1, SeptetsNumber
  <2>2. <<>> \in Seq(Octets)  OBVIOUS
  <2> QED BY <2>1, <2>2, Zenon
<1>6. Len(u) \in Nat  BY <1>5, LenProperties
<1>7. TagOf(t) = <<f>> \o u
  <2>1. CASE t.nr < 31
    <3>1. u = <<>> /\ TagOf(t) = <<f>>  BY <2>1, <1>3
    <3>2. <<f>> \in Seq(Octets)  BY <1>4
    <3> HIDE DEF f, u
    <3>3. <<f>> \o <<>> = <<f>>  BY <3>2, ConcatEmptySeq
    <3> QED BY <3>1, <3>3, Zenon
  <2>2. CASE ~(t.nr < 31)  BY <2>2, <1>3
  <2> QED BY <2>1, <2>2
<1> HIDE DEF f, u, k
<1>8. <<f>> \in Seq(Octets) /\ Len(<<f>>) = 1  BY <1>4
<1>9. <<f>> \o u \in Seq(Octets) /\ Len(<<f>> \o u) = 1 + Len(u)
  BY <1>5, <1>8, ConcatProperties
<1>10. /\ k \in 0 .. 31 /\ f \in Octets /\ f % 32 = k /\ 64 * (f \div 64) = t.cls
       /\ t.typ = IF (f \div 32) % 2 = 1 THEN Constructed ELSE Primitive
       /\ u \in Seq(Octets) /\ Len(u) \in Nat
       /\ TagOf(t) = <<f>> \o u /\ TagOf(t) \in Seq(Octets)
       /\ Len(TagOf(t)) = 1 + Len(u)
  BY <1>2, <1>4, <1>5, <1>6, <1>7, <1>9
<1> QED BY <1>10 DEF f, k, u

\* A tag that is all there is read as it was written; what is read is all
\* there.
LEMMA TagRead ==
    ASSUME NEW l \in Levels, NEW t \in Tags,
           l.at <= Len(l.data), Shows(l.data, l.at, TagOf(t))
    PROVE  LET e == l.at + Len(TagOf(t))
           IN  /\ TagReadable(l) => e <= Len(l.data)
               /\ e <= Len(l.data) => /\ ReadTag(l) = t /\ TagEnd(l) = e
                                      /\ (t.typ = Primitive => t.nr <= 30) => TagReadable(l)
<1>0. (IF t.nr < 31 THEN t.nr ELSE 31) \in 0 .. 31
  BY TagForm
<1>1. PICK i \in Nat, d \in Seq(Octets) : i = l.at /\ d = l.data  BY DEF Levels
<1>2. /\ t.nr \in Nat /\ t.typ \in {Primitive, Constructed} /\ t.cls \in Classes
      /\ t = [nr |-> t.nr, typ |-> t.typ, cls |-> t.cls]
  BY DEF Tags
<1>3. PICK k \in 0 .. 31, f \in Octets, u \in Seq(Octets) :
        /\ k = (IF t.nr < 31 THEN t.nr ELSE 31)
        /\ u = (IF t.nr < 31 THEN <<>> ELSE Septets(t.nr))
        /\ f % 32 = k /\ 64 * (f \div 64) = t.cls
        /\ t.typ = (IF (f \div 32) % 2 = 1 THEN Constructed ELSE Primitive)
        /\ Len(u) \in Nat
        /\ TagOf(t) = <<f>> \o u
        /\ Len(TagOf(t)) = 1 + Len(u)
  <2> DEFINE K == IF t.nr < 31 THEN t.nr ELSE 31
             F == K + t.typ + t.cls
             U == IF t.nr < 31 THEN <<>> ELSE Septets(t.nr)
  <2>1. K \in 0 .. 31  BY <1>0, Zenon
  <2>2. /\ F \in Octets /\ F % 32 = K /\ 64 * (F \div 64) = t.cls
        /\ t.typ = (IF (F \div 32) % 2 = 1 THEN Constructed ELSE Primitive)
        /\ U \in Seq(Octets) /\ Len(U) \in Nat
        /\ TagOf(t) = <<F>> \o U
        /\ Len(TagOf(t)) = 1 + Len(U)
    BY TagForm
  <2> HIDE DEF F
  <2> QED BY <2>1, <2>2, Zenon
<1>4. Len(d) \in Nat /\ i <= Len(d)  BY <1>1, LenProperties
<1>5. Shows(d, i, <<f>>) /\ Shows(d, i + 1, u)
  <2>1. Shows(d, i, <<f>> \o u)  BY <1>1, <1>3
  <2>2. <<f>> \in Seq(Octets) /\ Len(<<f>>) = 1  OBVIOUS
  <2> QED BY <2>1, <2>2, ShowsConcat
<1>6. i + 1 <= Len(d) => d[i + 1] = f
  <2>1. Len(<<f>>) = 1 /\ <<f>>[1] = f /\ 1 \in 1 .. 1  OBVIOUS
  <2> QED BY <1>5, <2>1 DEF Shows
<1>7. AtEnd(l) <=> ~(i + 1 <= Len(d))  BY <1>1, <1>4 DEF AtEnd
<1>8. \A j \in 1 .. Len(u) : i + 1 + j <= Len(d) => d[i + 1 + j] = u[j]  BY <1>5 DEF Shows
<1>9. f % 32 = 31 <=> t.nr >= 31  BY <1>2, <1>3
<1>10. IsLong(l) <=> d[i + 1] % 32 = 31  BY <1>1 DEF IsLong
<1>11. CASE t.nr < 31
  <2>1. Len(TagOf(t)) = 1
    <3>1. u = <<>> /\ Len(<<>>) = 0  BY <1>3, <1>11
    <3>2. Len(u) = 0  BY <3>1, Zenon
    <3> QED BY <1>3, <3>2
  <2>2. ASSUME TagReadable(l) PROVE i + 1 <= Len(d)  BY <2>2, <1>7 DEF TagReadable
  <2>3. ASSUME i + 1 <= Len(d)
        PROVE  /\ ReadTag(l) = t /\ TagEnd(l) = i + 1
               /\ (t.typ = Primitive => t.nr <= 30) => TagReadable(l)
    <3>1. d[i + 1] = f  BY <2>3, <1>6
    <3>2. ~IsLong(l)  BY <1>9, <1>10, <1>11, <1>2, <3>1
    <3>3. TagEnd(l) = i + 1  BY <1>1, <3>2 DEF TagEnd
    <3>4. ReadTag(l) = [nr |-> f % 32, typ |-> IF (f \div 32) % 2 = 1 THEN Constructed ELSE Primitive,
                        cls |-> 64 * (f \div 64)]
      BY <1>1, <3>1, <3>2 DEF ReadTag
    <3>5. f % 32 = t.nr  BY <1>3, <1>11
    <3>6. ReadTag(l) = t  BY <3>4, <3>5, <1>2, <1>3, Zenon
    <3>7. (t.typ = Primitive => t.nr <= 30) => TagReadable(l)
      BY <3>2, <3>6, <2>3, <1>7 DEF TagReadable
    <3> QED BY <3>3, <3>6, <3>7
  <2> QED BY <1>1, <2>1, <2>2, <2>3
<1>12. CASE ~(t.nr < 31)
  <2>1. PICK L \in Nat :
          /\ u = Septets(t.nr) /\ Len(u) = L + 1
          /\ u[L + 1] < 128 /\ \A j \in 1 .. L : u[j] >= 128
          /\ Number(128, u) = t.nr
    <3>1. u = Septets(t.nr)  BY <1>3, <1>12
    <3>2. PICK L \in Nat :
            /\ Len(Septets(t.nr)) = L + 1
            /\ Septets(t.nr)[L + 1] < 128 /\ \A j \in 1 .. L : Septets(t.nr)[j] >= 128
            /\ Number(128, Septets(t.nr)) = t.nr
      BY <1>2, SeptetsNumber
    <3> QED BY <3>1, <3>2, Zenon
  <2> DEFINE e == i + 2 + L
  <2>2. Len(TagOf(t)) = 2 + L /\ i + Len(TagOf(t)) = e /\ e \in Nat  BY <1>3, <2>1
  <2>3. LongEnds(l) = {j \in i + 2 .. Len(d) : d[j] < 128}  BY <1>1 DEF LongEnds
  <2>4. ASSUME NEW j \in LongEnds(l) PROVE e <= j /\ j <= Len(d) /\ j \in Int
    <3>1. j \in i + 2 .. Len(d) /\ d[j] < 128  BY <2>3
    <3>2. SUFFICES ASSUME ~(e <= j) PROVE FALSE  BY <3>1, <1>4
    <3>3. PICK m \in 1 .. L : m = (j - i) - 1 /\ i + 1 + m = j
      BY <3>1, <3>2, <1>4
    <3>4. m \in 1 .. Len(u)  BY <2>1
    <3>5. d[j] = u[m]  BY <3>1, <3>3, <3>4, <1>4, <1>8
    <3>6. d[j] >= 128  BY <2>1, <3>5
    <3>7. d[j] \in Nat
      <4>1. j \in 1 .. Len(d)  BY <3>1, <1>4
      <4>2. d[j] \in Octets  BY <4>1, ElementOfSeq
      <4> QED BY <4>2, OctetRange
    <3> QED BY <3>1, <3>6, <3>7
  <2>5. ASSUME TagReadable(l) PROVE e <= Len(d)
    <3>1. i + 1 <= Len(d)  BY <2>5, <1>7 DEF TagReadable
    <3>2. IsLong(l)  BY <3>1, <1>6, <1>9, <1>10, <1>12, <1>2
    <3>3. PICK j \in LongEnds(l) : TRUE  BY <2>5, <3>2 DEF TagReadable
    <3>4. e <= j /\ j <= Len(d) /\ j \in Int  BY <2>4
    <3> QED BY <3>4, <2>2, <1>4
  <2>6. ASSUME e <= Len(d)
        PROVE  /\ ReadTag(l) = t /\ TagEnd(l) = e
               /\ (t.typ = Primitive => t.nr <= 30) => TagReadable(l)
    <3>1. d[i + 1] = f
      <4>1. i + 1 <= Len(d)  BY <2>6, <1>4
      <4> QED BY <4>1, <1>6
    <3>2. IsLong(l)  BY <1>9, <1>10, <1>12, <1>2, <3>1
    <3>3. e \in LongEnds(l)
      <4>1. L + 1 \in 1 .. Len(u) /\ i + 1 + (L + 1) = e  BY <2>1
      <4>2. d[e] = u[L + 1]  BY <4>1, <1>8, <2>6
      <4>3. e \in i + 2 .. Len(d)  BY <2>6, <1>4, <2>2
      <4> QED BY <4>2, <4>3, <2>1, <2>3
    <3>4. TagEnd(l) = e
      <4>1. LongEnds(l) \in SUBSET Int  BY <2>3, <1>4
      <4>2. Min(LongEnds(l)) = e  BY <4>1, <3>3, <2>4, Lowest
      <4> QED BY <4>2, <3>2 DEF TagEnd
    <3>5. SubSeq(d, i + 2, e) = u
      <4>1. (i + 1) + Len(u) = e /\ (i + 1) + 1 = i + 2 /\ i + 1 \in Nat  BY <2>1
      <4>2. SubSeq(d, (i + 1) + 1, (i + 1) + Len(u)) = u
        BY <4>1, <1>5, <2>6, ShowsSub
      <4> QED BY <4>1, <4>2
    <3>6. ReadTag(l) = [nr |-> Number(128, u),
                        typ |-> IF (f \div 32) % 2 = 1 THEN Constructed ELSE Primitive,
                        cls |-> 64 * (f \div 64)]
      BY <1>1, <3>1, <3>2, <3>4, <3>5 DEF ReadTag
    <3>7. ReadTag(l) = t
      <4>1. /\ Number(128, u) = t.nr /\ 64 * (f \div 64) = t.cls
            /\ t.typ = (IF (f \div 32) % 2 = 1 THEN Constructed ELSE Primitive)
        BY <1>3, <2>1
      <4>2. t = [nr |-> t.nr, typ |-> t.typ, cls |-> t.cls]  BY <1>2
      <4> QED BY <3>6, <4>1, <4>2, Zenon
    <3>8. ~AtEnd(l)  BY <1>7, <2>6, <1>4
    <3>9. (t.typ = Primitive => t.nr <= 30) => TagReadable(l)
      BY <3>3, <3>7, <3>8 DEF TagReadable
    <3> QED BY <3>4, <3>7, <3>9
  <2> QED BY <1>1, <2>2, <2>5, <2>6
<1> QED BY <1>11, <1>12

LEMMA LengthForm ==
    ASSUME NEW n \in Nat, Writable(n)
    PROVE  \E f \in Octets, u \in Seq(Octets) :
              /\ LengthBytes(n) = <<f>> \o u /\ Len(u) \in Nat
              /\ f < 128 => Len(u) = 0 /\ f = n
              /\ ~(f < 128) => Len(u) = f - 128 /\ Len(u) < 127 /\ Number(256, u) = n
<1>1. CASE n < 128
  <2>1. LengthBytes(n) = <<n>>  BY <1>1 DEF LengthBytes
  <2>2. n \in Octets /\ <<>> \in Seq(Octets) /\ Len(<<>>) = 0  BY <1>1 DEF Octets
  <2>3. <<n>> \o <<>> = <<n>>
    <3>1. <<n>> \in Seq(Octets)  BY <2>2
    <3> QED BY <3>1, ConcatEmptySeq
  <2>4. Len(<<>>) \in Nat  OBVIOUS
  <2> QED BY <1>1, <2>1, <2>2, <2>3, <2>4, Zenon
<1>2. CASE ~(n < 128)
  <2> DEFINE u == Digits(256, 255, n)
  <2>1. u \in Seq(Octets) /\ Number(256, u) = n /\ Len(u) \in Nat
    <3>1. 255 \in Octets  BY DEF Octets
    <3> QED BY <3>1, Digits256
  <2>2. Len(u) < 127
    <3>1. n >= 128  BY <1>2
    <3> QED BY <3>1 DEF Writable
  <2>3. LengthBytes(n) = <<128 + Len(u)>> \o u  BY <1>2 DEF LengthBytes
  <2> HIDE DEF u
  <2>4. PICK f \in Octets : f = 128 + Len(u)
    <3>1. \A m \in Nat : m < 127 => 128 + m \in 0 .. 255  OBVIOUS
    <3>2. 128 + Len(u) \in Octets  BY <3>1, <2>1, <2>2, Zenon DEF Octets
    <3> QED BY <3>2
  <2>5. ~(f < 128) /\ Len(u) = f - 128  BY <2>1, <2>4
  <2> QED BY <2>1, <2>2, <2>3, <2>4, <2>5, Zenon
<1> QED BY <1>1, <1>2

\* The same of a length and what it is the length of.
LEMMA LengthRead ==
    ASSUME NEW d \in Seq(Octets), NEW i \in Nat, NEW c \in Seq(Octets), Writable(Len(c)),
           Shows(d, i, LengthBytes(Len(c)) \o c)
    PROVE  LET w == LengthBytes(Len(c)) \o c
           IN  /\ w \in Seq(Octets)
               /\ ValueReadable(d, i) => i + Len(w) <= Len(d)
               /\ i + Len(w) <= Len(d) =>
                    /\ ValueReadable(d, i) /\ ValueAt(d, i) = c
                    /\ ValueFrom(d, i) + LengthAt(d, i) = i + Len(w)
<1> DEFINE n == Len(c)
           w == LengthBytes(n) \o c
<1>0. n \in Nat /\ Len(d) \in Nat  BY LenProperties
<1>1. PICK f \in Octets, u \in Seq(Octets) :
        /\ LengthBytes(n) = <<f>> \o u /\ Len(u) \in Nat
        /\ f < 128 => Len(u) = 0 /\ f = n
        /\ ~(f < 128) => Len(u) = f - 128 /\ Len(u) < 127 /\ Number(256, u) = n
  <2> HIDE DEF n
  <2>1. Writable(n)  BY DEF n
  <2> QED BY <1>0, <2>1, LengthForm, Zenon
<1>2. <<f>> \in Seq(Octets) /\ Len(<<f>>) = 1 /\ <<f>>[1] = f  OBVIOUS
<1>3. <<f>> \o u \in Seq(Octets) /\ Len(<<f>> \o u) = 1 + Len(u)
  BY <1>2, ShowsConcat
<1>4. w \in Seq(Octets) /\ Len(w) = 1 + Len(u) + n
  <2>1. (<<f>> \o u) \o c \in Seq(Octets) /\ Len((<<f>> \o u) \o c) = Len(<<f>> \o u) + Len(c)
    BY <1>3, ConcatProperties
  <2>2. w = (<<f>> \o u) \o c  BY <1>1
  <2> HIDE DEF w
  <2> QED BY <1>3, <2>1, <2>2, <1>0
<1>5. Shows(d, i, <<f>>) /\ Shows(d, i + 1, u) /\ Shows(d, i + 1 + Len(u), c)
  <2>1. Shows(d, i, (<<f>> \o u) \o c)  BY <1>1
  <2>2. Shows(d, i, <<f>> \o u) /\ Shows(d, i + Len(<<f>> \o u), c)
    BY <1>3, <2>1, ShowsConcat
  <2>3. Shows(d, i, <<f>>) /\ Shows(d, i + Len(<<f>>), u)  BY <1>2, <2>2, ShowsConcat
  <2>4. i + Len(<<f>> \o u) = i + 1 + Len(u) /\ i + Len(<<f>>) = i + 1  BY <1>1, <1>2, <1>3
  <2> QED BY <2>2, <2>3, <2>4
<1>6. i < Len(d) => d[i + 1] = f
  <2>1. i < Len(d) => i + 1 <= Len(d)  BY <1>0
  <2>2. 1 \in 1 .. Len(<<f>>)  BY <1>2
  <2> QED BY <1>2, <1>5, <2>1, <2>2 DEF Shows
<1>7. f \in Nat  BY OctetRange
<1> HIDE DEF w
<1>8. ASSUME i < Len(d)
      PROVE  CountAt(d, i) = Len(u) /\ ValueFrom(d, i) = i + 1 + Len(u) /\ CountAt(d, i) # 127
  <2>1. CountAt(d, i) = IF f < 128 THEN 0 ELSE f - 128  BY <1>6, <1>8 DEF CountAt
  <2>2. CountAt(d, i) = Len(u) /\ Len(u) # 127
    <3>1. f < 128 => Len(u) = 0  BY <1>1, Zenon
    <3>2. ~(f < 128) => Len(u) = f - 128 /\ Len(u) < 127  BY <1>1, Zenon
    <3>3. CASE f < 128
      <4>1. CountAt(d, i) = 0 /\ Len(u) = 0  BY <2>1, <3>1, <3>3
      <4> QED BY <4>1
    <3>4. CASE ~(f < 128)
      <4>1. CountAt(d, i) = Len(u) /\ Len(u) < 127 /\ Len(u) \in Nat
        BY <1>1, <2>1, <3>2, <3>4
      <4>2. \A m \in Nat : m < 127 => m # 127  OBVIOUS
      <4> QED BY <4>1, <4>2, Zenon
    <3> QED BY <3>3, <3>4
  <2> QED BY <2>2 DEF ValueFrom
<1>9. ASSUME i < Len(d), i + 1 + Len(u) <= Len(d) PROVE LengthAt(d, i) = n
  <2>1. CASE f < 128
    <3>1. LengthAt(d, i) = f  BY <1>6, <1>9, <2>1 DEF LengthAt
    <3> QED BY <3>1, <1>1, <2>1
  <2>2. CASE ~(f < 128)
    <3>1. i + 1 \in Nat /\ (i + 1) + 1 = i + 2 /\ (i + 1) + Len(u) = i + 1 + Len(u)
      BY <1>1
    <3>2. SubSeq(d, (i + 1) + 1, (i + 1) + Len(u)) = u  BY <1>5, <1>9, <3>1, ShowsSub
    <3>3. SubSeq(d, i + 2, i + 1 + CountAt(d, i)) = u  BY <3>1, <3>2, <1>8, <1>9
    <3>4. LengthAt(d, i) = Number(256, u)  BY <1>6, <1>9, <2>2, <3>3 DEF LengthAt
    <3> QED BY <3>4, <1>1, <2>2
  <2> QED BY <2>1, <2>2
<1>10. ASSUME ValueReadable(d, i) PROVE i + Len(w) <= Len(d)
  <2>1. i < Len(d) /\ ValueFrom(d, i) <= Len(d) /\ ValueFrom(d, i) + LengthAt(d, i) <= Len(d)
    BY <1>10 DEF ValueReadable
  <2>2. ValueFrom(d, i) = i + 1 + Len(u)  BY <1>8, <2>1
  <2>3. LengthAt(d, i) = n  BY <1>9, <2>1, <2>2
  <2> QED BY <2>1, <2>2, <2>3, <1>0, <1>1, <1>4
<1>11. ASSUME i + Len(w) <= Len(d)
       PROVE  /\ ValueReadable(d, i) /\ ValueAt(d, i) = c
              /\ ValueFrom(d, i) + LengthAt(d, i) = i + Len(w)
  <2>1. i < Len(d) /\ i + 1 + Len(u) <= Len(d) /\ (i + 1 + Len(u)) + n <= Len(d)
    BY <1>11, <1>0, <1>1, <1>4
  <2>2. CountAt(d, i) # 127 /\ ValueFrom(d, i) = i + 1 + Len(u) /\ LengthAt(d, i) = n
    BY <1>8, <1>9, <2>1
  <2>3. ValueReadable(d, i)  BY <2>1, <2>2 DEF ValueReadable
  <2>4. ValueAt(d, i) = c
    <3> DEFINE k == i + 1 + Len(u)
    <3>1. k \in Nat  BY <1>1
    <3>2. Shows(d, k, c) /\ k + Len(c) <= Len(d)  BY <1>5, <2>1
    <3> HIDE DEF k
    <3>3. SubSeq(d, k + 1, k + Len(c)) = c  BY <3>1, <3>2, ShowsSub
    <3>4. ValueFrom(d, i) = k /\ LengthAt(d, i) = Len(c)  BY <2>2 DEF k
    <3> QED BY <3>3, <3>4 DEF ValueAt
  <2>5. ValueFrom(d, i) + LengthAt(d, i) = i + Len(w)  BY <2>2, <1>0, <1>1, <1>4
  <2> QED BY <2>3, <2>4, <2>5
<1>12. /\ w \in Seq(Octets)
       /\ ValueReadable(d, i) => i + Len(w) <= Len(d)
       /\ i + Len(w) <= Len(d) =>
            /\ ValueReadable(d, i) /\ ValueAt(d, i) = c
            /\ ValueFrom(d, i) + LengthAt(d, i) = i + Len(w)
  BY <1>4, <1>10, <1>11
<1> QED BY <1>12 DEF w

-----------------------------------------------------------------------------
(***************************************************************************)
(* Object identifiers.                                                     *)
(***************************************************************************)
Reads(p, d) ==
    IF d < 128 THEN [ids |-> Append(p.ids, (128 * p.value) + (d % 128)), value |-> 0]
               ELSE [ids |-> p.ids, value |-> (128 * p.value) + (d % 128)]

Finds == [ids : Seq(Nat), value : Nat]
None  == [ids |-> <<>>, value |-> 0]

LEMMA ReadsFind ==
    ASSUME NEW p \in Finds, NEW d \in Octets PROVE Reads(p, d) \in Finds
<1>1. d \in Nat  BY OctetRange
<1>2. p.ids \in Seq(Nat) /\ p.value \in Nat  BY DEF Finds
<1>3. PICK v \in Nat : v = (128 * p.value) + (d % 128)
  <2>1. d % 128 \in Nat /\ 128 * p.value \in Nat  BY <1>1, <1>2
  <2> QED BY <2>1
<1>4. Append(p.ids, v) \in Seq(Nat)  BY <1>2
<1> QED BY <1>2, <1>3, <1>4 DEF Reads, Finds

\* Found is what its definition says, byte by byte.
LEMMA FoundStep ==
    ASSUME NEW s \in Seq(Octets)
    PROVE  /\ Found(s)[0] = None
           /\ \A i \in 1 .. Len(s) : Found(s)[i] = Reads(Found(s)[i - 1], s[i])
           /\ \A i \in 0 .. Len(s) : Found(s)[i] \in Finds
<1>0. Len(s) \in Nat /\ \A i \in 1 .. Len(s) : s[i] \in Octets
  BY ElementOfSeq, LenProperties
<1>1. None \in Finds  BY DEF None, Finds
<1> DEFINE g == [p \in Finds \X Nat |-> IF p[2] \in 1 .. Len(s) THEN Reads(p[1], s[p[2]]) ELSE None]
<1>2. g \in [Finds \X Nat -> Finds]
  <2>1. ASSUME NEW p \in Finds \X Nat
        PROVE  (IF p[2] \in 1 .. Len(s) THEN Reads(p[1], s[p[2]]) ELSE None) \in Finds
    <3>1. p[1] \in Finds  OBVIOUS
    <3>2. CASE p[2] \in 1 .. Len(s)
      <4>1. s[p[2]] \in Octets  BY <1>0, <3>2
      <4> QED BY <3>1, <3>2, <4>1, ReadsFind
    <3>3. CASE ~(p[2] \in 1 .. Len(s))  BY <3>3, <1>1
    <3> QED BY <3>2, <3>3
  <2> QED BY <2>1, Zenon
<1>3. PICK f \in [0 .. Len(s) -> Finds] : Iterates(f, 0, Len(s), None, g)
  <2>1. 0 \in Nat /\ Len(s) \in Int  BY <1>0
  <2> HIDE DEF g
  <2> QED BY <2>1, <1>1, <1>2, Iteration
<1> DEFINE Is(e) == e = [i \in 0 .. Len(s) |->
                           IF i = 0 THEN [ids |-> <<>>, value |-> 0]
                           ELSE LET v == (128 * e[i - 1].value) + (s[i] % 128)
                                IN  IF s[i] < 128 THEN [ids |-> Append(e[i - 1].ids, v), value |-> 0]
                                                  ELSE [ids |-> e[i - 1].ids, value |-> v]]
<1>4. Is(f)
  <2>1. ASSUME NEW i \in 0 .. Len(s)
        PROVE  f[i] = IF i = 0 THEN None ELSE Reads(f[i - 1], s[i])
    <3>1. f[i] = IF i = 0 THEN None ELSE g[<<f[i - 1], i>>]
      <4> HIDE DEF g
      <4> QED BY <1>3 DEF Iterates
    <3>2. CASE i = 0  BY <3>1, <3>2
    <3>3. CASE i # 0
      <4>1. f[i - 1] \in Finds /\ i \in 1 .. Len(s) /\ i \in Nat  BY <3>3, <1>0
      <4>2. g[<<f[i - 1], i>>] = Reads(f[i - 1], s[i])  BY <4>1
      <4> QED BY <3>1, <3>3, <4>2
    <3> QED BY <3>2, <3>3
  <2>2. f = [i \in 0 .. Len(s) |-> f[i]]  OBVIOUS
  <2>3. f = [i \in 0 .. Len(s) |-> IF i = 0 THEN None ELSE Reads(f[i - 1], s[i])]
    <3> HIDE DEF Is, g
    <3> QED BY <2>1, <2>2, Zenon
  <2> QED BY <2>3, Zenon DEF None, Reads
<1> DEFINE h == CHOOSE e : Is(e)
<1>5. Is(h)
  <2> HIDE DEF Is
  <2> QED BY <1>4, Zenon
<1>6. Found(s) = h  BY Zenon DEF Found
<1>7. h = [i \in 0 .. Len(s) |-> IF i = 0 THEN None ELSE Reads(h[i - 1], s[i])]
  <2> HIDE DEF h
  <2> QED BY <1>5, Zenon DEF None, Reads
<1> HIDE DEF h, g, Is
<1>8. \A i \in 0 .. Len(s) : h[i] = IF i = 0 THEN None ELSE Reads(h[i - 1], s[i])
  BY <1>7, Zenon
<1>9. h[0] = None
  <2>1. 0 \in 0 .. Len(s)  BY <1>0
  <2> QED BY <1>8, <2>1, Zenon
<1>10. \A i \in 1 .. Len(s) : h[i] = Reads(h[i - 1], s[i])
  <2>1. \A i \in 1 .. Len(s) : i \in 0 .. Len(s) /\ i # 0  BY <1>0
  <2> QED BY <1>8, <2>1, Zenon
<1>11. \A i \in 0 .. Len(s) : h[i] \in Finds
  <2> DEFINE T == {i \in Nat : i \in 0 .. Len(s) => h[i] \in Finds}
  <2>1. 0 \in T  BY <1>1, <1>9
  <2>2. ASSUME NEW i \in Nat, i \in T PROVE i + 1 \in T
    <3>1. CASE i + 1 \in 0 .. Len(s)
      <4>1. h[i] \in Finds  BY <2>2, <3>1, <1>0
      <4>2. i + 1 \in 1 .. Len(s) /\ (i + 1) - 1 = i  BY <3>1
      <4>3. h[i + 1] = Reads(h[i], s[i + 1])  BY <1>10, <4>2
      <4>4. h[i + 1] \in Finds  BY <1>0, <4>1, <4>2, <4>3, ReadsFind
      <4> QED BY <4>4
    <3> QED BY <3>1
  <2> HIDE DEF T
  <2>3. Nat \subseteq T  BY <2>1, <2>2, Successors
  <2> QED BY <2>3, <1>0 DEF T
<1> QED BY <1>6, <1>9, <1>10, <1>11, Zenon

\* What has been found after all of s, and that no number began with 128.
Reached(s) == Found(s)[Len(s)]
Legal(s)   == \A i \in 1 .. Len(s) : s[i] = 128 => Found(s)[i - 1].value # 0

LEMMA ReachedEmpty == Reached(<<>>) = None /\ Legal(<<>>)
<1>1. <<>> \in Seq(Octets) /\ Len(<<>>) = 0  OBVIOUS
<1>2. Found(<<>>)[0] = None  BY <1>1, FoundStep
<1>3. 1 .. 0 = {}  OBVIOUS
<1> QED BY <1>1, <1>2, <1>3, Zenon DEF Reached, Legal

LEMMA ReachedAppend ==
    ASSUME NEW s \in Seq(Octets), NEW d \in Octets
    PROVE  /\ Reached(s) \in Finds
           /\ Reached(Append(s, d)) = Reads(Reached(s), d)
           /\ Legal(s) /\ (d = 128 => Reached(s).value # 0) => Legal(Append(s, d))
<1> DEFINE t == Append(s, d)
<1>1. /\ t \in Seq(Octets) /\ Len(t) = Len(s) + 1 /\ t[Len(s) + 1] = d
      /\ \A i \in 1 .. Len(s) : t[i] = s[i]
  BY AppendProperties
<1>2. Len(s) \in Nat  BY LenProperties
<1> HIDE DEF t
<1>3. \A i \in 0 .. Len(s) : Found(t)[i] = Found(s)[i]
  <2> DEFINE T == {i \in Nat : i \in 0 .. Len(s) => Found(t)[i] = Found(s)[i]}
  <2>1. 0 \in T
    <3>1. Found(t)[0] = None /\ Found(s)[0] = None  BY <1>1, FoundStep
    <3> QED BY <3>1
  <2>2. ASSUME NEW i \in Nat, i \in T PROVE i + 1 \in T
    <3>1. CASE i + 1 \in 0 .. Len(s)
      <4>1. Found(t)[i] = Found(s)[i]  BY <2>2, <3>1, <1>2
      <4>2. i + 1 \in 1 .. Len(s) /\ i + 1 \in 1 .. Len(t) /\ (i + 1) - 1 = i
        BY <3>1, <1>1, <1>2
      <4>3. Found(s)[i + 1] = Reads(Found(s)[i], s[i + 1])  BY <4>2, FoundStep
      <4>4. Found(t)[i + 1] = Reads(Found(t)[i], t[i + 1])  BY <4>2, <1>1, FoundStep
      <4>5. t[i + 1] = s[i + 1]  BY <1>1, <4>2
      <4>6. Found(t)[i + 1] = Found(s)[i + 1]  BY <4>1, <4>3, <4>4, <4>5, Zenon
      <4> QED BY <4>6
    <3> QED BY <3>1
  <2> HIDE DEF T
  <2>3. Nat \subseteq T  BY <2>1, <2>2, Successors
  <2> QED BY <2>3, <1>2 DEF T
<1>4. Found(t)[Len(s)] = Reached(s) /\ Reached(s) \in Finds
  <2>1. Len(s) \in 0 .. Len(s)  BY <1>2
  <2>2. Found(s)[Len(s)] \in Finds  BY <2>1, FoundStep
  <2> QED BY <1>3, <2>1, <2>2 DEF Reached
<1>5. Reached(t) = Reads(Reached(s), d)
  <2>1. Len(s) + 1 \in 1 .. Len(t) /\ (Len(s) + 1) - 1 = Len(s)  BY <1>1, <1>2
  <2>2. Found(t)[Len(s) + 1] = Reads(Found(t)[Len(s)], t[Len(s) + 1])
    BY <1>1, <2>1, FoundStep
  <2> QED BY <1>1, <1>4, <2>2, Zenon DEF Reached
<1>6. ASSUME Legal(s), d = 128 => Reached(s).value # 0 PROVE Legal(t)
  <2>1. ASSUME NEW i \in 1 .. Len(t), t[i] = 128 PROVE Found(t)[i - 1].value # 0
    <3>1. CASE i = Len(s) + 1
      <4>1. i - 1 = Len(s) /\ t[i] = d  BY <3>1, <1>1, <1>2
      <4> QED BY <1>4, <1>6, <2>1, <4>1
    <3>2. CASE i # Len(s) + 1
      <4>1. i \in 1 .. Len(s) /\ i - 1 \in 0 .. Len(s)  BY <3>2, <1>1, <1>2
      <4>2. s[i] = 128 /\ Found(t)[i - 1] = Found(s)[i - 1]  BY <1>1, <1>3, <2>1, <4>1
      <4> QED BY <1>6, <4>1, <4>2 DEF Legal
    <3> QED BY <3>1, <3>2
  <2> QED BY <2>1 DEF Legal
<1> QED BY <1>4, <1>5, <1>6 DEF t

LEMMA AppendConcat ==
    ASSUME NEW S, NEW x \in Seq(S), NEW y \in Seq(S), NEW d \in S
    PROVE  x \o Append(y, d) = Append(x \o y, d) /\ x \o <<d>> = Append(x, d)
<1>1. <<d>> \in Seq(S) /\ x \o y \in Seq(S)  BY ConcatProperties
<1>2. Append(y, d) = y \o <<d>>  BY AppendIsConcat
<1>3. Append(x \o y, d) = (x \o y) \o <<d>>  BY <1>1, AppendIsConcat
<1>4. (x \o y) \o <<d>> = x \o (y \o <<d>>)  BY <1>1, ConcatAssociative
<1>5. x \o <<d>> = Append(x, d)  BY AppendIsConcat
<1> QED BY <1>2, <1>3, <1>4, <1>5, Zenon

\* Reading the beginning of a number, which is not 0, and a whole number.
LEMMA HighReached ==
    ASSUME NEW x \in Seq(Octets), Legal(x), Reached(x).value = 0, NEW n \in Nat, n > 0
    PROVE  Reached(x \o High(n)) = [ids |-> Reached(x).ids, value |-> n] /\ Legal(x \o High(n))
<1> DEFINE P(k) == Reached(x \o High(k)) = [ids |-> Reached(x).ids, value |-> k]
                     /\ Legal(x \o High(k))
           T == {k \in Nat : k > 0 => P(k)}
<1>0. \A k \in 1 .. 127 : /\ k + 128 \in Octets /\ ~(k + 128 < 128) /\ k + 128 # 128
                          /\ (128 * 0) + ((k + 128) % 128) = k
  BY DEF Octets
<1>1. ASSUME NEW k \in Nat, \A m \in Nat : m < k => m \in T, k > 0 PROVE P(k)
  <2>1. CASE k < 128
    <3>1. k + 128 \in Octets /\ ~(k + 128 < 128) /\ k + 128 # 128 /\ (128 * 0) + ((k + 128) % 128) = k
      <4>0. k > 0  BY <1>1, Zenon
      <4>1. k \in 1 .. 127  BY <2>1, <4>0
      <4> QED BY <1>0, <4>1, Zenon
    <3>2. x \o High(k) = Append(x, k + 128)
      <4>1. High(k) = <<k + 128>>  BY <2>1, HighStep
      <4>2. <<>> \in Seq(Octets)  OBVIOUS
      <4> QED BY <3>1, <4>1, <4>2, AppendConcat
    <3>3. Reached(x \o High(k)) = Reads(Reached(x), k + 128)  BY <3>1, <3>2, ReachedAppend
    <3>4. Reads(Reached(x), k + 128) = [ids |-> Reached(x).ids, value |-> k]
      BY <3>1, Zenon DEF Reads
    <3>5. Legal(x \o High(k))  BY <3>1, <3>2, ReachedAppend
    <3> QED BY <3>3, <3>4, <3>5
  <2>2. CASE ~(k < 128)
    <3>1. PICK q \in Nat, r \in 0 .. 127 :
            q = k \div 128 /\ r = k % 128 /\ k = (128 * q) + r /\ q < k /\ q > 0
      <4>1. 128 \in Bases /\ 0 .. 128 - 1 = 0 .. 127  BY DEF Bases
      <4>2. k \div 128 \in Nat /\ k % 128 \in 0 .. 127 /\ k = (128 * (k \div 128)) + (k % 128)
            /\ k \div 128 < k
        BY <1>1, <4>1, Quotients
      <4>3. k \div 128 > 0  BY <2>2
      <4> QED BY <4>2, <4>3
    <3> DEFINE h == x \o High(q)
    <3>2. h \in Seq(Octets) /\ High(q) \in Seq(Octets)
      <4>1. High(q) \in Seq(Octets)  BY HighStep
      <4> QED BY <4>1, ConcatProperties
    <3>3. Reached(h) = [ids |-> Reached(x).ids, value |-> q] /\ Legal(h)  BY <1>1, <3>1
    <3>4. r + 128 \in Octets /\ ~(r + 128 < 128) /\ (r + 128) % 128 = r  BY DEF Octets
    <3>5. x \o High(k) = Append(h, r + 128)
      <4>1. k >= 128  BY <2>2
      <4>2. High(k) = Append(High(q), r + 128)  BY <3>1, <4>1, HighStep
      <4> QED BY <3>2, <3>4, <4>2, AppendConcat
    <3> HIDE DEF h
    <3>6. Reached(h).value = q /\ Reached(h).ids = Reached(x).ids  BY <3>3
    <3>7. Reached(x \o High(k)) = Reads(Reached(h), r + 128)
      BY <3>2, <3>4, <3>5, ReachedAppend
    <3>8. Reads(Reached(h), r + 128) = [ids |-> Reached(x).ids, value |-> (128 * q) + r]
      BY <3>4, <3>6, Zenon DEF Reads
    <3>9. Legal(x \o High(k))
      <4>1. Reached(h).value # 0  BY <3>1, <3>6
      <4> QED BY <3>2, <3>3, <3>4, <3>5, <4>1, ReachedAppend
    <3> QED BY <3>1, <3>7, <3>8, <3>9, Zenon
  <2> QED BY <2>1, <2>2
<1>2. ASSUME NEW k \in Nat, \A m \in Nat : m < k => m \in T PROVE k \in T
  <2>1. k > 0 => P(k)  BY <1>1, <1>2
  <2> QED BY <2>1
<1> HIDE DEF T
<1>3. Nat \subseteq T  BY <1>2, Induction
<1> QED BY <1>3 DEF T

LEMMA SeptetsReached ==
    ASSUME NEW x \in Seq(Octets), Legal(x), Reached(x).value = 0, NEW n \in Nat
    PROVE  /\ Reached(x \o Septets(n)) = [ids |-> Append(Reached(x).ids, n), value |-> 0]
           /\ Legal(x \o Septets(n))
<1>1. CASE n < 128
  <2>1. n \in Octets /\ n # 128 /\ (128 * 0) + (n % 128) = n  BY <1>1 DEF Octets
  <2>2. x \o Septets(n) = Append(x, n)
    <3>1. Septets(n) = <<n>>  BY <1>1, SeptetsStep
    <3>2. <<>> \in Seq(Octets)  OBVIOUS
    <3> QED BY <2>1, <3>1, <3>2, AppendConcat
  <2>3. Reached(x \o Septets(n)) = Reads(Reached(x), n)  BY <2>1, <2>2, ReachedAppend
  <2>4. Reads(Reached(x), n) = [ids |-> Append(Reached(x).ids, n), value |-> 0]
    BY <1>1, <2>1, Zenon DEF Reads
  <2>5. Legal(x \o Septets(n))  BY <2>1, <2>2, ReachedAppend
  <2> QED BY <2>3, <2>4, <2>5
<1>2. CASE ~(n < 128)
  <2>1. PICK q \in Nat, r \in 0 .. 127 :
          q = n \div 128 /\ r = n % 128 /\ n = (128 * q) + r /\ q > 0
    <3>1. 128 \in Bases /\ 0 .. 128 - 1 = 0 .. 127  BY DEF Bases
    <3>2. n \div 128 \in Nat /\ n % 128 \in 0 .. 127 /\ n = (128 * (n \div 128)) + (n % 128)
      BY <3>1, Quotients
    <3>3. n \div 128 > 0  BY <1>2
    <3> QED BY <3>2, <3>3
  <2> DEFINE h == x \o High(q)
  <2>2. h \in Seq(Octets) /\ High(q) \in Seq(Octets)
    <3>1. High(q) \in Seq(Octets)  BY HighStep
    <3> QED BY <3>1, ConcatProperties
  <2>3. Reached(h) = [ids |-> Reached(x).ids, value |-> q] /\ Legal(h)
    BY <2>1, HighReached
  <2>4. r \in Octets /\ r < 128 /\ r # 128 /\ r % 128 = r  BY DEF Octets
  <2>5. x \o Septets(n) = Append(h, r)
    <3>1. n >= 128  BY <1>2
    <3>2. Septets(n) = Append(High(q), r)  BY <2>1, <3>1, SeptetsStep
    <3> QED BY <2>2, <2>4, <3>2, AppendConcat
  <2> HIDE DEF h
  <2>6. Reached(h).value = q /\ Reached(h).ids = Reached(x).ids  BY <2>3
  <2>7. Reached(x \o Septets(n)) = Reads(Reached(h), r)  BY <2>2, <2>4, <2>5, ReachedAppend
  <2>8. Reads(Reached(h), r) = [ids |-> Append(Reached(x).ids, (128 * q) + r), value |-> 0]
    BY <2>4, <2>6, Zenon DEF Reads
  <2>9. Legal(x \o Septets(n))  BY <2>2, <2>3, <2>4, <2>5, ReachedAppend
  <2> QED BY <2>1, <2>7, <2>8, <2>9, Zenon
<1> QED BY <1>1, <1>2

\* The numbers that the first i components are written as.
Idents(c, i) == [j \in 1 .. i - 1 |-> IF j = 1 THEN (40 * c[1]) + c[2] ELSE c[j + 1]]

LEMMA IdentsStep ==
    ASSUME NEW c \in Seq(Nat), NEW i \in 2 .. Len(c)
    PROVE  /\ Idents(c, i) \in Seq(Nat) /\ Len(Idents(c, i)) = i - 1
           /\ \A j \in 1 .. i - 1 :
                Idents(c, i)[j] = IF j = 1 THEN (40 * c[1]) + c[2] ELSE c[j + 1]
           /\ i = 2 => Idents(c, i) = Append(<<>>, (40 * c[1]) + c[2])
           /\ i < Len(c) => Idents(c, i + 1) = Append(Idents(c, i), c[i + 1])
<1>0. Len(c) \in Nat /\ \A j \in 1 .. Len(c) : c[j] \in Nat
  BY ElementOfSeq, LenProperties
<1>1. PICK a \in Nat : a = (40 * c[1]) + c[2]
  <2>1. c[1] \in Nat /\ c[2] \in Nat  BY <1>0
  <2>2. (40 * c[1]) + c[2] \in Nat  BY <2>1
  <2> QED BY <2>2
<1>2. ASSUME NEW k \in 2 .. Len(c)
      PROVE  /\ Idents(c, k) \in Seq(Nat) /\ Len(Idents(c, k)) = k - 1
             /\ \A j \in 1 .. k - 1 : Idents(c, k)[j] = IF j = 1 THEN a ELSE c[j + 1]
  <2>1. Idents(c, k) = [j \in 1 .. k - 1 |-> IF j = 1 THEN a ELSE c[j + 1]]
    BY <1>1 DEF Idents
  <2>2. \A j \in 1 .. k - 1 : (IF j = 1 THEN a ELSE c[j + 1]) \in Nat  BY <1>0
  <2>3. k - 1 \in Nat  OBVIOUS
  <2> QED BY <2>1, <2>2, <2>3
<1>3. ASSUME i = 2 PROVE Idents(c, i) = Append(<<>>, a)
  <2> DEFINE x == Idents(c, i)
             y == Append(<<>>, a)
  <2>1. x \in Seq(Nat) /\ Len(x) = 1 /\ x[1] = a
    <3>1. 1 \in 1 .. i - 1 /\ i - 1 = 1  BY <1>3
    <3> QED BY <1>2, <3>1
  <2>2. y \in Seq(Nat) /\ Len(y) = 1 /\ y[1] = a  OBVIOUS
  <2> HIDE DEF x, y
  <2>3. x = y  BY <2>1, <2>2, SeqEqual
  <2> QED BY <2>3 DEF x, y
<1>4. ASSUME i < Len(c) PROVE Idents(c, i + 1) = Append(Idents(c, i), c[i + 1])
  <2> DEFINE x == Idents(c, i + 1)
             h == Idents(c, i)
             y == Append(h, c[i + 1])
  <2>1. i + 1 \in 2 .. Len(c) /\ (i + 1) - 1 = i /\ i \in Nat  BY <1>4, <1>0
  <2>2. /\ x \in Seq(Nat) /\ Len(x) = i
        /\ \A j \in 1 .. i : x[j] = IF j = 1 THEN a ELSE c[j + 1]
    BY <1>2, <2>1
  <2>3. /\ h \in Seq(Nat) /\ Len(h) = i - 1
        /\ \A j \in 1 .. i - 1 : h[j] = IF j = 1 THEN a ELSE c[j + 1]
    BY <1>2
  <2>4. c[i + 1] \in Nat  BY <1>0, <2>1
  <2> HIDE DEF x, h
  <2>5. /\ y \in Seq(Nat) /\ Len(y) = Len(h) + 1 /\ y[Len(h) + 1] = c[i + 1]
        /\ \A j \in 1 .. Len(h) : y[j] = h[j]
    BY <2>3, <2>4, AppendProperties
  <2> HIDE DEF y
  <2>6. Len(y) = i /\ y[i] = c[i + 1] /\ \A j \in 1 .. i - 1 : y[j] = h[j]
    <3>1. Len(h) + 1 = i  BY <2>1, <2>3
    <3> QED BY <2>3, <2>5, <3>1
  <2>7. ASSUME NEW j \in 1 .. i PROVE x[j] = y[j]
    <3>1. CASE j = i  BY <2>2, <2>6, <3>1
    <3>2. CASE j # i
      <4>1. j \in 1 .. i - 1  BY <3>2
      <4> QED BY <4>1, <2>2, <2>3, <2>6
    <3> QED BY <3>1, <3>2
  <2>8. x = y  BY <2>2, <2>5, <2>6, <2>7, SeqEqual
  <2> QED BY <2>8 DEF x, y, h
<1> QED BY <1>1, <1>2, <1>3, <1>4

LEMMA EncodedIdentifier ==
    ASSUME NEW c \in Seq(Nat), Len(c) > 1
    PROVE  LET s == EncodeObjectIdentifier(c)
           IN  /\ s \in Seq(Octets) /\ Legal(s)
               /\ Reached(s) = [ids |-> Idents(c, Len(c)), value |-> 0]
<1>0. Len(c) \in Nat /\ \A i \in 1 .. Len(c) : c[i] \in Nat
  BY ElementOfSeq, LenProperties
<1>1. PICK a \in Nat : a = (40 * c[1]) + c[2]
  <2>1. c[1] \in Nat /\ c[2] \in Nat  BY <1>0
  <2>2. (40 * c[1]) + c[2] \in Nat  BY <2>1
  <2> QED BY <2>2
<1>2. ASSUME NEW n \in Nat PROVE Septets(n) \in Seq(Octets)  BY SeptetsNumber
<1> DEFINE g == [p \in Seq(Octets) \X Nat |->
                   IF p[2] \in 2 .. Len(c) THEN p[1] \o Septets(c[p[2]]) ELSE <<>>]
<1>3. g \in [Seq(Octets) \X Nat -> Seq(Octets)]
  <2>1. ASSUME NEW p \in Seq(Octets) \X Nat
        PROVE  (IF p[2] \in 2 .. Len(c) THEN p[1] \o Septets(c[p[2]]) ELSE <<>>) \in Seq(Octets)
    <3>1. p[1] \in Seq(Octets) /\ <<>> \in Seq(Octets)  OBVIOUS
    <3>2. CASE p[2] \in 2 .. Len(c)
      <4>1. c[p[2]] \in Nat  BY <1>0, <3>2
      <4>2. Septets(c[p[2]]) \in Seq(Octets)  BY <4>1, <1>2
      <4>3. p[1] \o Septets(c[p[2]]) \in Seq(Octets)  BY <3>1, <4>2, ConcatProperties
      <4> QED BY <3>2, <4>3
    <3>3. CASE ~(p[2] \in 2 .. Len(c))  BY <3>1, <3>3
    <3> QED BY <3>2, <3>3
  <2> QED BY <2>1, Zenon
<1>4. PICK f \in [2 .. Len(c) -> Seq(Octets)] : Iterates(f, 2, Len(c), Septets(a), g)
  <2>1. 2 \in Nat /\ Len(c) \in Int  BY <1>0
  <2>2. Septets(a) \in Seq(Octets)  BY <1>2
  <2> HIDE DEF g
  <2> QED BY <2>1, <2>2, <1>3, Iteration
<1> DEFINE Is(e) == e = [i \in 2 .. Len(c) |-> IF i = 2 THEN Septets(40 * c[1] + c[2])
                                                       ELSE e[i - 1] \o Septets(c[i])]
<1>5. Is(f)
  <2>1. ASSUME NEW i \in 2 .. Len(c)
        PROVE  f[i] = IF i = 2 THEN Septets(a) ELSE f[i - 1] \o Septets(c[i])
    <3>1. f[i] = IF i = 2 THEN Septets(a) ELSE g[<<f[i - 1], i>>]
      <4> HIDE DEF g
      <4> QED BY <1>4 DEF Iterates
    <3>2. CASE i = 2  BY <3>1, <3>2
    <3>3. CASE i # 2
      <4>0. i - 1 \in 2 .. Len(c) /\ i \in Nat  BY <3>3, <1>0
      <4>1. f[i - 1] \in Seq(Octets) /\ i \in Nat  BY <4>0, Zenon
      <4>2. g[<<f[i - 1], i>>] = f[i - 1] \o Septets(c[i])  BY <4>1
      <4> QED BY <3>1, <3>3, <4>2
    <3> QED BY <3>2, <3>3
  <2>2. f = [i \in 2 .. Len(c) |-> f[i]]  OBVIOUS
  <2>3. f = [i \in 2 .. Len(c) |-> IF i = 2 THEN Septets(a) ELSE f[i - 1] \o Septets(c[i])]
    <3> HIDE DEF Is, g
    <3> QED BY <2>1, <2>2, Zenon
  <2> QED BY <2>3, <1>1, Zenon
<1> DEFINE h == CHOOSE e : Is(e)
<1>6. Is(h)
  <2> HIDE DEF Is
  <2> QED BY <1>5, Zenon
<1>7. EncodeObjectIdentifier(c) = h[Len(c)]  BY Zenon DEF EncodeObjectIdentifier
<1>8. h = [i \in 2 .. Len(c) |-> IF i = 2 THEN Septets(a) ELSE h[i - 1] \o Septets(c[i])]
  <2> HIDE DEF h
  <2> QED BY <1>6, <1>1, Zenon
<1> HIDE DEF h, g, Is
<1>9. \A i \in 2 .. Len(c) : h[i] = IF i = 2 THEN Septets(a) ELSE h[i - 1] \o Septets(c[i])
  BY <1>8, Zenon
<1> DEFINE P(i) == /\ h[i] \in Seq(Octets) /\ Legal(h[i])
                   /\ Reached(h[i]) = [ids |-> Idents(c, i), value |-> 0]
           T == {i \in Nat : i \in 2 .. Len(c) => P(i)}
<1>10. ASSUME NEW i \in Nat, i \in T, i + 1 \in 2 .. Len(c) PROVE P(i + 1)
  <2>1. CASE i + 1 = 2
    <3>1. h[i + 1] = Septets(a)
      <4>1. 2 \in 2 .. Len(c)  BY <1>10, <2>1
      <4>2. h[2] = Septets(a)  BY <1>9, <4>1
      <4> QED BY <2>1, <4>2, Zenon
    <3>2. Septets(a) \in Seq(Octets)  BY <1>2
    <3>3. <<>> \o Septets(a) = Septets(a) /\ <<>> \in Seq(Octets)  BY <3>2, ConcatEmptySeq
    <3>4. Reached(<<>>).value = 0 /\ Reached(<<>>).ids = <<>> /\ Legal(<<>>)
      BY ReachedEmpty DEF None
    <3>5. /\ Reached(<<>> \o Septets(a)) = [ids |-> Append(Reached(<<>>).ids, a), value |-> 0]
          /\ Legal(<<>> \o Septets(a))
      BY <3>3, <3>4, SeptetsReached
    <3>6. Idents(c, i + 1) = Append(<<>>, a)  BY <1>1, <1>10, <2>1, IdentsStep
    <3> QED BY <3>1, <3>2, <3>3, <3>4, <3>5, <3>6, Zenon
  <2>2. CASE i + 1 # 2
    <3>1. i \in 2 .. Len(c) /\ i < Len(c) /\ (i + 1) - 1 = i /\ i + 1 \in 1 .. Len(c)
      BY <1>10, <2>2, <1>0
    <3>2. P(i)  BY <1>10, <3>1
    <3>3. c[i + 1] \in Nat  BY <1>0, <3>1
    <3> DEFINE x == h[i]
    <3>4. h[i + 1] = x \o Septets(c[i + 1])
      <4>1. h[i + 1] = IF i + 1 = 2 THEN Septets(a) ELSE h[(i + 1) - 1] \o Septets(c[i + 1])
        BY <1>9, <1>10
      <4> QED BY <4>1, <2>2, <3>1
    <3>5. /\ x \in Seq(Octets) /\ Legal(x) /\ Reached(x).value = 0
          /\ Reached(x).ids = Idents(c, i)
      BY <3>2
    <3> HIDE DEF x
    <3>6. /\ Reached(x \o Septets(c[i + 1])) =
               [ids |-> Append(Reached(x).ids, c[i + 1]), value |-> 0]
          /\ Legal(x \o Septets(c[i + 1]))
      BY <3>3, <3>5, SeptetsReached
    <3>7. x \o Septets(c[i + 1]) \in Seq(Octets)
      <4>1. Septets(c[i + 1]) \in Seq(Octets)  BY <3>3, <1>2
      <4> QED BY <3>5, <4>1, ConcatProperties
    <3>8. Idents(c, i + 1) = Append(Idents(c, i), c[i + 1])  BY <3>1, IdentsStep
    <3> QED BY <3>4, <3>5, <3>6, <3>7, <3>8, Zenon
  <2> QED BY <2>1, <2>2
<1>11. Nat \subseteq T
  <2>1. 0 \in T  OBVIOUS
  <2>2. ASSUME NEW i \in Nat, i \in T PROVE i + 1 \in T
    <3>1. i + 1 \in 2 .. Len(c) => P(i + 1)  BY <1>10, <2>2
    <3> HIDE DEF P
    <3> QED BY <3>1
  <2> HIDE DEF T
  <2> QED BY <2>1, <2>2, Successors
<1>12. P(Len(c))
  <2>1. Len(c) \in T /\ Len(c) \in 2 .. Len(c)  BY <1>0, <1>11
  <2> HIDE DEF P
  <2> QED BY <2>1
<1> QED BY <1>7, <1>12, Zenon

\* Every object identifier comes back (asn1.py:334, 633).
THEOREM IdentifiersComeBack ==
    ASSUME NEW c, IsValue("oid", c)
    PROVE  LET s == EncodeObjectIdentifier(c)
           IN  /\ s \in Seq(Octets) /\ IdentifierReadable(s)
               /\ <<Components(s)[1] \div 40, Components(s)[1] % 40>> \o Tail(Components(s)) = c
<1> DEFINE s == EncodeObjectIdentifier(c)
           C == Components(s)
<1>1. c \in Seq(Nat) /\ Len(c) > 1 /\ c[1] <= 39 /\ c[2] <= 39
  BY DEF IsValue
<1>2. Len(c) \in Nat /\ \A i \in 1 .. Len(c) : c[i] \in Nat
  BY <1>1, ElementOfSeq, LenProperties
<1>3. s \in Seq(Octets) /\ Legal(s) /\ Reached(s) = [ids |-> Idents(c, Len(c)), value |-> 0]
  BY <1>1, EncodedIdentifier
<1>4. C = Idents(c, Len(c))
  <2> HIDE DEF s
  <2> QED BY <1>3 DEF Reached, Components
<1>5. /\ C \in Seq(Nat) /\ Len(C) = Len(c) - 1
      /\ \A j \in 1 .. Len(c) - 1 : C[j] = IF j = 1 THEN (40 * c[1]) + c[2] ELSE c[j + 1]
  <2>1. Len(c) \in 2 .. Len(c)  BY <1>1, <1>2
  <2> DEFINE n == Len(c)
             I == Idents(c, n)
  <2>2. n \in 2 .. Len(c)  BY <2>1
  <2>3. I = C  BY <1>4
  <2> HIDE DEF n, C
  <2>4. /\ I \in Seq(Nat) /\ Len(I) = n - 1
        /\ \A j \in 1 .. n - 1 : I[j] = IF j = 1 THEN (40 * c[1]) + c[2] ELSE c[j + 1]
    BY <1>1, <2>2, IdentsStep
  <2> HIDE DEF I
  <2> QED BY <2>3, <2>4, Zenon DEF n
<1>6. PICK a \in 0 .. 39, b \in 0 .. 39 : a = c[1] /\ b = c[2]
  <2>1. c[1] \in Nat /\ c[2] \in Nat  BY <1>1, <1>2
  <2>2. \A x \in Nat : x <= 39 => x \in 0 .. 39  OBVIOUS
  <2>3. c[1] \in 0 .. 39 /\ c[2] \in 0 .. 39  BY <1>1, <2>1, <2>2, Zenon
  <2> QED BY <2>3
<1>7. C[1] = (40 * a) + b
  <2>1. 1 \in 1 .. Len(c) - 1  BY <1>1, <1>2
  <2> QED BY <1>5, <1>6, <2>1
<1>8. C[1] \div 40 = a /\ C[1] % 40 = b /\ C[1] <= 1599  BY <1>7
<1> HIDE DEF C, s
<1>9. C # <<>>
  <2>1. Len(C) >= 1  BY <1>1, <1>2, <1>5
  <2>2. Len(<<>>) = 0  OBVIOUS
  <2> QED BY <2>1, <2>2
<1>10. IdentifierReadable(s)
  <2>1. C = Components(s)  BY DEF C
  <2> QED BY <1>3, <1>8, <1>9, <2>1 DEF IdentifierReadable, Legal
<1>11. <<C[1] \div 40, C[1] % 40>> \o Tail(C) = c
  <2> DEFINE p == <<a, b>>
             t == Tail(C)
             y == p \o t
  <2>1. p \in Seq(Nat) /\ Len(p) = 2 /\ p[1] = a /\ p[2] = b  OBVIOUS
  <2>2. t \in Seq(Nat) /\ Len(t) = Len(C) - 1 /\ \A j \in 1 .. Len(C) - 1 : t[j] = C[j + 1]
    BY <1>5, <1>9, HeadTailProperties
  <2> HIDE DEF p, t
  <2>3. /\ y \in Seq(Nat) /\ Len(y) = Len(p) + Len(t)
        /\ \A j \in 1 .. Len(p) + Len(t) : y[j] = IF j <= Len(p) THEN p[j] ELSE t[j - Len(p)]
    BY <2>1, <2>2, ConcatProperties
  <2> HIDE DEF y
  <2>4. Len(y) = Len(c)  BY <1>2, <1>5, <2>1, <2>2, <2>3
  <2>5. ASSUME NEW j \in 1 .. Len(c) PROVE y[j] = c[j]
    <3>0. j \in 1 .. Len(p) + Len(t)  BY <2>3, <2>4
    <3>1. CASE j = 1
      <4>1. y[1] = p[1]  BY <2>1, <2>3, <3>0, <3>1
      <4> QED BY <4>1, <3>1, <1>6, <2>1
    <3>2. CASE j = 2
      <4>1. y[2] = p[2]  BY <2>1, <2>3, <3>0, <3>2
      <4> QED BY <4>1, <3>2, <1>6, <2>1
    <3>3. CASE j # 1 /\ j # 2
      <4>1. ~(j <= Len(p)) /\ j - Len(p) = j - 2 /\ j - 2 \in 1 .. Len(C) - 1
            /\ (j - 2) + 1 = j - 1 /\ j - 1 \in 1 .. Len(c) - 1 /\ j - 1 # 1 /\ (j - 1) + 1 = j
        BY <1>2, <1>5, <2>1, <3>3
      <4>2. y[j] = t[j - 2]  BY <2>3, <3>0, <4>1
      <4>3. t[j - 2] = C[j - 1]  BY <2>2, <4>1
      <4>4. C[j - 1] = c[j]  BY <1>5, <4>1
      <4> QED BY <4>2, <4>3, <4>4
    <3> QED BY <3>1, <3>2, <3>3
  <2>6. y = c  BY <1>1, <2>3, <2>4, <2>5, SeqEqual
  <2> QED BY <1>8, <2>6 DEF y, p, t
<1>12. s \in Seq(Octets) /\ IdentifierReadable(s) /\ <<C[1] \div 40, C[1] % 40>> \o Tail(C) = c
  BY <1>3, <1>10, <1>11
<1> QED BY <1>12 DEF C, s

-----------------------------------------------------------------------------
(***************************************************************************)
(* Values.                                                                 *)
(***************************************************************************)
\* Which CASE a number is.
Apart(nr) ==
    /\ nr \in IntegerNumbers =>
         nr # Boolean /\ nr # Null /\ nr # ObjectIdentifier /\ nr \notin StringNumbers
           /\ nr \notin {OctetString, PrintableString}
    /\ nr = Boolean =>
         nr \notin IntegerNumbers /\ nr # Null /\ nr # ObjectIdentifier /\ nr \notin StringNumbers
           /\ nr \notin {OctetString, PrintableString}
    /\ nr = Null =>
         nr \notin IntegerNumbers /\ nr # Boolean /\ nr # ObjectIdentifier
           /\ nr \notin StringNumbers /\ nr \notin {OctetString, PrintableString}
    /\ nr = ObjectIdentifier =>
         nr \notin IntegerNumbers /\ nr # Boolean /\ nr # Null /\ nr \notin StringNumbers
           /\ nr \notin {OctetString, PrintableString}
    /\ nr \in {OctetString, PrintableString} =>
         nr \notin IntegerNumbers /\ nr # Boolean /\ nr # Null /\ nr # ObjectIdentifier

LEMMA NumbersApart == ASSUME NEW nr PROVE Apart(nr)
BY DEF Apart, Boolean, Integer, OctetString, Null, ObjectIdentifier, Enumerated,
       PrintableString, IA5String, UTCTime, IntegerNumbers, StringNumbers

LEMMA WriteFits ==
    ASSUME NEW c \in Calls
    PROVE  /\ WriteNr(c) \in Nat /\ Fits(WriteNr(c), c.kind)
           /\ IsValue(c.kind, c.v) /\ c.cls \in Classes
           /\ c.kind \in {"int", "bool", "oid", "none", "bytes", "str"}
<1>1. /\ c.cls \in Classes /\ IsValue(c.kind, c.v)
      /\ \/ c.nr = NotGiven /\ c.kind # "oid"
         \/ c.nr \in Nat /\ Fits(c.nr, c.kind)
  BY Asn1Constants
<1>2. c.kind \in {"int", "bool", "oid", "none", "bytes", "str"}
  BY <1>1 DEF IsValue
<1>3. CASE c.nr = NotGiven /\ c.kind # "oid"
  <2>1. WriteNr(c) = CASE c.kind \in {"int", "bool"} -> Integer
                       [] c.kind \in {"bytes", "str"} -> OctetString
                       [] c.kind = "none" -> Null
    BY <1>3 DEF WriteNr
  <2>2. CASE c.kind \in {"int", "bool"}
    <3>1. WriteNr(c) = 2  BY <2>1, <2>2 DEF Integer
    <3>2. 2 \in IntegerNumbers  BY DEF IntegerNumbers, Integer
    <3>3. Apart(2)  BY NumbersApart
    <3>4. Fits(2, c.kind)  BY <2>2, <3>2, <3>3 DEF Apart, Fits
    <3> QED BY <1>1, <1>2, <3>1, <3>4
  <2>3. CASE c.kind \in {"bytes", "str"}
    <3>1. WriteNr(c) = 4  BY <2>1, <2>3 DEF OctetString
    <3>2. 4 \in {OctetString, PrintableString}  BY DEF OctetString
    <3>3. Apart(4)  BY NumbersApart
    <3>4. Fits(4, c.kind)  BY <2>3, <3>2, <3>3 DEF Apart, Fits
    <3> QED BY <1>1, <1>2, <3>1, <3>4
  <2>4. CASE c.kind = "none"
    <3>1. WriteNr(c) = 5  BY <2>1, <2>4 DEF Null
    <3>2. 5 = Null  BY DEF Null
    <3>3. Apart(5)  BY NumbersApart
    <3>4. Fits(5, c.kind)  BY <3>2, <3>3 DEF Apart, Fits
    <3> QED BY <1>1, <1>2, <3>1, <3>4
  <2> QED BY <1>2, <1>3, <2>2, <2>3, <2>4
<1>4. CASE c.nr \in Nat /\ Fits(c.nr, c.kind)
  <2>1. c.nr # NotGiven  BY <1>4, Asn1Constants
  <2>2. WriteNr(c) = c.nr  BY <2>1 DEF WriteNr
  <2> QED BY <1>1, <1>2, <1>4, <2>2
<1> QED BY <1>1, <1>3, <1>4

\* What write encodes, under the number it is given or finds, is accepted
\* under that number and gives the value back (asn1.py:268, 534).
THEOREM ValuesComeBack ==
    ASSUME NEW c \in Calls
    PROVE  LET nr == WriteNr(c)
               s  == EncodeValue(nr, c)
           IN  s \in Seq(Octets) /\ Decodable(nr, s) /\ Decode(nr, s) = Promised(nr, c)
<1> DEFINE nr == WriteNr(c)
           s  == EncodeValue(nr, c)
<1>1. /\ nr \in Nat /\ Fits(nr, c.kind) /\ IsValue(c.kind, c.v)
      /\ c.kind \in {"int", "bool", "oid", "none", "bytes", "str"}
  BY WriteFits
<1> HIDE DEF nr
<1>0. Apart(nr)  BY NumbersApart
<1>2. CASE nr \in IntegerNumbers
  <2>1. c.kind \in {"int", "bool"}  BY <1>0, <1>1, <1>2 DEF Apart, Fits
  <2>2. c.v[1] \in Int /\ c.v = <<c.v[1]>>
    <3>1. CASE c.kind = "int"
      <4>1. c.v \in Seq(Int) /\ Len(c.v) = 1  BY <1>1, <3>1 DEF IsValue
      <4>2. c.v[1] \in Int  BY <4>1
      <4> DEFINE x == c.v
                 y == <<c.v[1]>>
      <4>3. y \in Seq(Int) /\ Len(y) = 1 /\ y[1] = x[1] /\ x \in Seq(Int) /\ Len(x) = 1
        BY <4>1, <4>2
      <4> HIDE DEF x, y
      <4>4. \A i \in 1 .. 1 : x[i] = y[i]  BY <4>3
      <4>5. x = y  BY <4>3, <4>4, SeqEqual
      <4> QED BY <4>2, <4>5 DEF x, y
    <3>2. CASE c.kind = "bool"
      <4>1. c.v \in {<<0>>, <<1>>}  BY <1>1, <3>2 DEF IsValue
      <4>2. <<0>>[1] = 0 /\ <<1>>[1] = 1 /\ 0 \in Int /\ 1 \in Int  OBVIOUS
      <4> QED BY <4>1, <4>2, Zenon
    <3> QED BY <2>1, <3>1, <3>2
  <2>3. s = EncodeInteger(c.v[1])  BY <1>0, <1>2 DEF Apart, EncodeValue
  <2>4. s \in Seq(Octets) /\ s # <<>> /\ Normalized(s) /\ DecodeInteger(s) = c.v[1]
    <3> HIDE DEF s
    <3> QED BY <2>2, <2>3, IntegersComeBack
  <2> HIDE DEF s
  <2>6. Decodable(nr, s)  BY <1>0, <1>2, <2>4 DEF Apart, Decodable
  <2>7. Decode(nr, s) = Value("int", <<c.v[1]>>)  BY <1>0, <1>2, <2>4 DEF Apart, Decode
  <2>8. Promised(nr, c) = Value("int", c.v)  BY <1>0, <1>2 DEF Apart, Promised
  <2>9. Decode(nr, s) = Promised(nr, c)  BY <2>2, <2>7, <2>8
  <2> QED BY <2>4, <2>6, <2>9 DEF s, nr
<1>3. CASE nr = Boolean
  <2>1. s = IF c.v[1] # 0 THEN <<255>> ELSE <<0>>  BY <1>0, <1>3 DEF Apart, EncodeValue
  <2>2. Promised(nr, c) = Value("bool", <<IF c.v[1] # 0 THEN 1 ELSE 0>>)
    BY <1>0, <1>3 DEF Apart, Promised
  <2> HIDE DEF s
  <2>3. s \in Seq(Octets) /\ s # <<>> /\ (s[1] = 0 <=> c.v[1] = 0)
    <3>1. /\ <<255>> \in Seq(Octets) /\ <<255>> # <<>> /\ <<255>>[1] # 0
          /\ <<0>> \in Seq(Octets) /\ <<0>> # <<>> /\ <<0>>[1] = 0
      BY DEF Octets
    <3> QED BY <2>1, <3>1, Zenon
  <2>4. Decodable(nr, s)  BY <1>0, <1>3, <2>3 DEF Apart, Decodable
  <2>5. Decode(nr, s) = Value("bool", <<IF s[1] = 0 THEN 0 ELSE 1>>)  BY <1>0, <1>3 DEF Apart, Decode
  <2>6. Decode(nr, s) = Promised(nr, c)  BY <2>2, <2>3, <2>5
  <2> QED BY <2>3, <2>4, <2>6 DEF s, nr
<1>4. CASE nr = Null
  <2>1. s = <<>>  BY <1>0, <1>4 DEF Apart, EncodeValue
  <2>2. Promised(nr, c) = Value("none", <<>>)  BY <1>0, <1>4 DEF Apart, Promised
  <2> HIDE DEF s
  <2>3. s \in Seq(Octets)  BY <2>1
  <2>4. Decodable(nr, s)  BY <1>0, <1>4, <2>1 DEF Apart, Decodable
  <2>5. Decode(nr, s) = Value("none", <<>>)  BY <1>0, <1>4 DEF Apart, Decode
  <2> QED BY <2>2, <2>3, <2>4, <2>5 DEF s, nr
<1>5. CASE nr = ObjectIdentifier
  <2>1. c.kind = "oid"  BY <1>0, <1>1, <1>5 DEF Apart, Fits
  <2>2. IsValue("oid", c.v)  BY <1>1, <2>1, Zenon
  <2>3. s = EncodeObjectIdentifier(c.v)  BY <1>0, <1>5 DEF Apart, EncodeValue
  <2> DEFINE C == Components(s)
  <2>4. /\ s \in Seq(Octets) /\ IdentifierReadable(s)
        /\ <<C[1] \div 40, C[1] % 40>> \o Tail(C) = c.v
    <3> HIDE DEF s
    <3> QED BY <2>2, <2>3, IdentifiersComeBack, Zenon
  <2> HIDE DEF s
  <2>5. Promised(nr, c) = Value("oid", c.v)  BY <1>0, <1>5 DEF Apart, Promised
  <2>6. Decodable(nr, s)  BY <1>0, <1>5, <2>4 DEF Apart, Decodable
  <2>7. Decode(nr, s) = Value("oid", <<C[1] \div 40, C[1] % 40>> \o Tail(C))
    BY <1>0, <1>5 DEF Apart, Decode
  <2>8. Decode(nr, s) = Promised(nr, c)  BY <2>4, <2>5, <2>7, Zenon
  <2> QED BY <2>4, <2>6, <2>8 DEF s, nr
<1>6. CASE /\ nr \notin IntegerNumbers /\ nr # Boolean /\ nr # Null
           /\ nr # ObjectIdentifier
  <2>1. c.kind \in {"bytes", "str"}
    <3>1. Fits(nr, c.kind) = IF nr \in {OctetString, PrintableString} THEN c.kind \in {"bytes", "str"}
                             ELSE c.kind = "bytes"
      BY <1>0, <1>6 DEF Apart, Fits
    <3> QED BY <1>1, <3>1
  <2>2. s = c.v  BY <1>0, <1>6 DEF Apart, EncodeValue
  <2>3. c.v \in Seq(0 .. 255)  BY <1>1, <2>1 DEF IsValue
  <2>4. Promised(nr, c) = IF nr \in StringNumbers THEN Value("str", c.v) ELSE Value("bytes", c.v)
    BY <1>0, <1>6 DEF Apart, Promised
  <2> HIDE DEF s
  <2>5. s \in Seq(Octets)  BY <2>2, <2>3 DEF Octets
  <2>6. Decodable(nr, s)  BY <1>0, <1>6 DEF Apart, Decodable
  <2>7. Decode(nr, s) = IF nr \in StringNumbers THEN Value("str", s) ELSE Value("bytes", s)
    BY <1>0, <1>6 DEF Apart, Decode
  <2>8. Decode(nr, s) = Promised(nr, c)  BY <2>2, <2>4, <2>7
  <2> QED BY <2>5, <2>6, <2>8 DEF s, nr
<1> QED BY <1>2, <1>3, <1>4, <1>5, <1>6

-----------------------------------------------------------------------------
(***************************************************************************)
(* The invariant.  It says how the items lie in the bytes: of each level   *)
(* of the Encoder, of what the Decoder was given, and of the contents of   *)
(* every constructed item, to any depth.  G holds those contents, with     *)
(* the items in them, and I the items.                                     *)
(***************************************************************************)
Bytes == Seq(Octets)

Whole(t, c) == TagOf(t) \o (LengthBytes(Len(c)) \o c)

Item(d, from, it, G) ==
    \E c \in Bytes :
       /\ it.tag \in Tags /\ Writable(Len(c))
       /\ Shows(d, from, Whole(it.tag, c))
       /\ it.end = from + Len(Whole(it.tag, c))
       /\ Decodable(it.tag.nr, c) /\ it.val = Decode(it.tag.nr, c)
       /\ it.tag.typ = Constructed => <<c, it.items>> \in G

\* Where the item after the nth begins.
From(items, n) == IF n = 0 THEN 0 ELSE items[n].end

Laid(d, items, G) == \A n \in 1 .. Len(items) : Item(d, From(items, n - 1), items[n], G)
Lengthy(d, items) == \A n \in 1 .. Len(items) : items[n].end <= Len(d)
Closed(G) ==
    \A p \in G : Laid(p[1], p[2], G) /\ Len(p[1]) = From(p[2], Len(p[2]))

\* Where the Decoder is in a level, and the tag it has read there.
Placed(l, p, tg, G) ==
    /\ p.done <= Len(p.items) /\ l.at <= Len(l.data)
    /\ Laid(l.data, p.items, G) /\ Len(l.data) <= From(p.items, Len(p.items))
    /\ tg = NoTag => l.at = From(p.items, p.done)
    /\ tg # NoTag => /\ p.done < Len(p.items) /\ tg = p.items[p.done + 1].tag
                     /\ l.at = From(p.items, p.done) + Len(TagOf(tg))

LEMMA WholeForm ==
    ASSUME NEW t \in Tags, NEW c \in Bytes, Writable(Len(c))
    PROVE  LET u == TagOf(t)
               w == LengthBytes(Len(c)) \o c
           IN  /\ u \in Bytes /\ Len(u) \in Nat /\ Len(u) > 0
               /\ w \in Bytes /\ Len(w) \in Nat /\ Len(w) > 0
               /\ Whole(t, c) = u \o w /\ Whole(t, c) \in Bytes
               /\ Len(Whole(t, c)) = Len(u) + Len(w)
               /\ Whole(t, c) = u \o LengthBytes(Len(c)) \o c
<1> DEFINE u == TagOf(t)
           b == LengthBytes(Len(c))
           w == b \o c
<1>1. c \in Seq(Octets) /\ Len(c) \in Nat  BY LenProperties DEF Bytes
<1>2. u \in Seq(Octets) /\ Len(u) \in Nat /\ Len(u) > 0
  <2>1. \E n \in Nat : u \in Seq(Octets) /\ Len(u) = 1 + n  BY TagForm
  <2> HIDE DEF u
  <2> QED BY <2>1
<1>3. b \in Seq(Octets) /\ Len(b) \in Nat /\ Len(b) > 0
  <2>1. PICK f \in Octets, v \in Seq(Octets) : b = <<f>> \o v /\ Len(v) \in Nat
    <3>1. \A n \in Nat : Writable(n) =>
            \E f \in Octets, v \in Seq(Octets) : LengthBytes(n) = <<f>> \o v /\ Len(v) \in Nat
      BY LengthForm
    <3> QED BY <1>1, <3>1
  <2>2. <<f>> \in Seq(Octets) /\ Len(<<f>>) = 1  OBVIOUS
  <2> HIDE DEF b
  <2>3. b \in Seq(Octets) /\ Len(b) = 1 + Len(v)  BY <2>1, <2>2, ConcatProperties
  <2> QED BY <2>1, <2>3
<1> HIDE DEF u, b
<1>4. w \in Seq(Octets) /\ Len(w) = Len(b) + Len(c)  BY <1>1, <1>3, ConcatProperties
<1>5. (u \o b) \o c = u \o w  BY <1>1, <1>2, <1>3, ConcatAssociative
<1> HIDE DEF w
<1>6. u \o w \in Seq(Octets) /\ Len(u \o w) = Len(u) + Len(w)  BY <1>2, <1>4, ConcatProperties
<1>7. Whole(t, c) = u \o w  BY DEF Whole, u, w, b
<1>8. Len(w) \in Nat /\ Len(w) > 0  BY <1>1, <1>3, <1>4
<1>9. /\ u \in Bytes /\ Len(u) \in Nat /\ Len(u) > 0
      /\ w \in Bytes /\ Len(w) \in Nat /\ Len(w) > 0
      /\ Whole(t, c) = u \o w /\ Whole(t, c) \in Bytes
      /\ Len(Whole(t, c)) = Len(u) + Len(w)
      /\ Whole(t, c) = u \o b \o c
  BY <1>2, <1>4, <1>5, <1>6, <1>7, <1>8 DEF Bytes
<1> QED BY <1>9 DEF u, w, b

\* An item is read as it was written, if it is all there, and only then.
LEMMA ItemRead ==
    ASSUME NEW G, NEW d \in Bytes, NEW from \in Nat, from <= Len(d),
           NEW it, Item(d, from, it, G)
    PROVE  LET a == from + Len(TagOf(it.tag))
               l == [at |-> from, data |-> d]
               v == ValueAt(d, a)
           IN  /\ it.tag \in Tags /\ it.end \in Nat /\ a \in Nat /\ from < a /\ a < it.end
               /\ TagReadable(l) => a <= Len(d)
               /\ a <= Len(d) => /\ ReadTag(l) = it.tag /\ TagEnd(l) = a
                                 /\ (it.tag.typ = Primitive => it.tag.nr <= 30) => TagReadable(l)
               /\ ValueReadable(d, a) <=> it.end <= Len(d)
               /\ ValueReadable(d, a) =>
                    /\ v \in Bytes /\ ValueFrom(d, a) + LengthAt(d, a) = it.end
                    /\ Decodable(it.tag.nr, v) /\ it.val = Decode(it.tag.nr, v)
                    /\ it.tag.typ = Constructed => <<v, it.items>> \in G
<1> DEFINE t == it.tag
           u == TagOf(t)
           a == from + Len(u)
           l == [at |-> from, data |-> d]
           v == ValueAt(d, a)
<1>1. PICK c \in Bytes :
       /\ t \in Tags /\ Writable(Len(c))
       /\ Shows(d, from, Whole(t, c))
       /\ it.end = from + Len(Whole(t, c))
       /\ Decodable(t.nr, c) /\ it.val = Decode(t.nr, c)
       /\ t.typ = Constructed => <<c, it.items>> \in G
  BY DEF Item
<1> DEFINE w == LengthBytes(Len(c)) \o c
<1> HIDE DEF t, u, w
<1>2. /\ u \in Bytes /\ Len(u) \in Nat /\ Len(u) > 0
      /\ w \in Bytes /\ Len(w) \in Nat /\ Len(w) > 0
      /\ Whole(t, c) = u \o w /\ Len(Whole(t, c)) = Len(u) + Len(w)
  BY <1>1, WholeForm DEF u, w
<1>3. d \in Seq(Octets) /\ c \in Seq(Octets) /\ Len(d) \in Nat  BY LenProperties DEF Bytes
<1>4. Shows(d, from, u) /\ Shows(d, a, w)
  <2>1. Shows(d, from, u \o w)  BY <1>1, <1>2
  <2> QED BY <1>2, <1>3, <2>1, ShowsConcat DEF Bytes
<1>5. /\ it.end = a + Len(w) /\ it.end \in Nat /\ a \in Nat /\ from < a /\ a < it.end
  BY <1>1, <1>2
<1>6. /\ TagReadable(l) => a <= Len(d)
      /\ a <= Len(d) => /\ ReadTag(l) = t /\ TagEnd(l) = a
                        /\ (t.typ = Primitive => t.nr <= 30) => TagReadable(l)
  <2>1. l \in Levels /\ l.at = from /\ l.data = d  BY <1>3 DEF Levels
  <2> HIDE DEF l
  <2>2. Shows(l.data, l.at, TagOf(t)) /\ l.at <= Len(l.data)  BY <1>4, <2>1 DEF u
  <2>3. LET e == l.at + Len(TagOf(t))
        IN  /\ TagReadable(l) => e <= Len(l.data)
            /\ e <= Len(l.data) => /\ ReadTag(l) = t /\ TagEnd(l) = e
                                   /\ (t.typ = Primitive => t.nr <= 30) => TagReadable(l)
    BY <1>1, <2>1, <2>2, TagRead, Zenon
  <2> QED BY <2>1, <2>3, Zenon DEF u
<1>7. /\ ValueReadable(d, a) => a + Len(w) <= Len(d)
      /\ a + Len(w) <= Len(d) => /\ ValueReadable(d, a) /\ v = c
                                 /\ ValueFrom(d, a) + LengthAt(d, a) = a + Len(w)
  <2>1. Shows(d, a, LengthBytes(Len(c)) \o c)  BY <1>4 DEF w
  <2> HIDE DEF a
  <2> QED BY <1>1, <1>3, <1>5, <2>1, LengthRead DEF w
<1> HIDE DEF a, l, v
<1>8. ValueReadable(d, a) <=> it.end <= Len(d)  BY <1>5, <1>7
<1>9. ValueReadable(d, a) =>
        /\ v \in Bytes /\ ValueFrom(d, a) + LengthAt(d, a) = it.end
        /\ Decodable(t.nr, v) /\ it.val = Decode(t.nr, v)
        /\ t.typ = Constructed => <<v, it.items>> \in G
  BY <1>1, <1>5, <1>7
<1>10. t \in Tags  BY <1>1
<1> QED BY <1>5, <1>6, <1>8, <1>9, <1>10 DEF a, l, v, u, t

Places(I) == [items : Seq(I), done : Nat]
Ends(I)   == \A it \in I : it.end \in Nat

LEMMA FromNat ==
    ASSUME NEW I, Ends(I), NEW items \in Seq(I), NEW n \in 0 .. Len(items)
    PROVE  From(items, n) \in Nat
<1>1. CASE n = 0  BY <1>1 DEF From
<1>2. CASE n # 0
  <2>1. n \in 1 .. Len(items)  BY <1>2
  <2>2. items[n] \in I  BY <2>1, ElementOfSeq
  <2> QED BY <1>2, <2>2 DEF From, Ends
<1> QED BY <1>1, <1>2

\* What the Decoder finds at its place.
LEMMA PlacedItem ==
    ASSUME NEW G, NEW I, Ends(I), NEW l \in Levels, NEW p \in Places(I), NEW tg,
           Placed(l, p, tg, G), p.done < Len(p.items)
    PROVE  LET it   == p.items[p.done + 1]
               from == From(p.items, p.done)
           IN  /\ it \in I /\ from \in Nat /\ from <= Len(l.data) /\ l.data \in Bytes
               /\ Item(l.data, from, it, G)
<1> DEFINE it   == p.items[p.done + 1]
           from == From(p.items, p.done)
<1>1. /\ l.data \in Bytes /\ l.at \in Nat /\ Len(l.data) \in Nat
      /\ p.items \in Seq(I) /\ p.done \in Nat /\ Len(p.items) \in Nat
  BY LenProperties DEF Levels, Places, Bytes
<1>2. p.done + 1 \in 1 .. Len(p.items) /\ p.done \in 0 .. Len(p.items)
      /\ (p.done + 1) - 1 = p.done
  BY <1>1
<1>3. it \in I  BY <1>1, <1>2, ElementOfSeq
<1>4. from \in Nat  BY <1>1, <1>2, FromNat
<1>5. Item(l.data, from, it, G)
  <2>1. Item(l.data, From(p.items, (p.done + 1) - 1), p.items[p.done + 1], G)
    BY <1>2 DEF Placed, Laid
  <2> QED BY <2>1, <1>2, Zenon
<1> HIDE DEF from, it
<1>6. from <= l.at
  <2>1. CASE tg = NoTag
    <3>1. l.at = from  BY <2>1 DEF Placed, from
    <3> QED BY <3>1, <1>1
  <2>2. CASE tg # NoTag
    <3>1. l.at = from + Len(TagOf(tg)) /\ tg = it.tag  BY <2>2 DEF Placed, from, it
    <3>2. it.tag \in Tags  BY <1>5 DEF Item
    <3>3. Len(TagOf(tg)) \in Nat
      <4>1. TagOf(tg) \in Seq(Octets)  BY <3>1, <3>2, TagForm
      <4> QED BY <4>1, LenProperties
    <3> QED BY <3>1, <3>3, <1>4
  <2> QED BY <2>1, <2>2
<1>7. l.at <= Len(l.data)  BY DEF Placed
<1>8. from <= Len(l.data)  BY <1>1, <1>4, <1>6, <1>7
<1>9. /\ it \in I /\ from \in Nat /\ from <= Len(l.data) /\ l.data \in Bytes
      /\ Item(l.data, from, it, G)
  BY <1>1, <1>3, <1>4, <1>5, <1>8
<1> QED BY <1>9 DEF it, from

LEMMA NotAtEnd ==
    ASSUME NEW G, NEW I, Ends(I), NEW l \in Levels, NEW p \in Places(I), NEW tg,
           Placed(l, p, tg, G), ~AtEnd(l)
    PROVE  p.done < Len(p.items)
<1>1. /\ l.data \in Bytes /\ l.at \in Nat /\ Len(l.data) \in Nat
      /\ p.items \in Seq(I) /\ p.done \in Nat /\ Len(p.items) \in Nat
  BY LenProperties DEF Levels, Places, Bytes
<1>2. l.at < Len(l.data)
  <2>1. l.at <= Len(l.data) /\ l.at # Len(l.data)  BY DEF Placed, AtEnd
  <2> QED BY <1>1, <2>1
<1>3. CASE tg = NoTag
  <2>1. SUFFICES ASSUME ~(p.done < Len(p.items)) PROVE FALSE  OBVIOUS
  <2>2. p.done <= Len(p.items)  BY DEF Placed
  <2>3. p.done = Len(p.items)  BY <1>1, <2>1, <2>2
  <2>4. l.at = From(p.items, Len(p.items)) /\ Len(l.data) <= From(p.items, Len(p.items))
    BY <1>3, <2>3 DEF Placed
  <2>5. Len(l.data) <= l.at  BY <2>4, Zenon
  <2> QED BY <1>1, <1>2, <2>5
<1>4. CASE tg # NoTag  BY <1>4 DEF Placed
<1> QED BY <1>3, <1>4

\* The tag it gets: read before, or read now.
TagNow(l, tg) == IF tg # NoTag THEN tg ELSE ReadTag(l)
EndNow(l, tg) == IF tg # NoTag THEN l.at ELSE TagEnd(l)

LEMMA NextTag ==
    ASSUME NEW G, NEW I, Ends(I), NEW l \in Levels, NEW p \in Places(I), NEW tg,
           Placed(l, p, tg, G), p.done < Len(p.items), tg # NoTag \/ TagReadable(l)
    PROVE  LET it == p.items[p.done + 1]
               a  == From(p.items, p.done) + Len(TagOf(it.tag))
           IN  /\ TagNow(l, tg) = it.tag /\ EndNow(l, tg) = a /\ a \in Nat /\ it.tag # NoTag
               /\ [l EXCEPT !.at = a] \in Levels
               /\ Placed([l EXCEPT !.at = a], p, it.tag, G)
<1> DEFINE it   == p.items[p.done + 1]
           from == From(p.items, p.done)
           a    == from + Len(TagOf(it.tag))
<1>1. /\ it \in I /\ from \in Nat /\ from <= Len(l.data) /\ l.data \in Bytes
      /\ Item(l.data, from, it, G)
  BY PlacedItem
<1>2. l = [at |-> l.at, data |-> l.data] /\ l.at \in Nat /\ l.at <= Len(l.data)
  BY DEF Levels, Placed
<1> HIDE DEF it, from
<1>3. it.tag \in Tags /\ a \in Nat  BY <1>1, ItemRead
<1>4. it.tag # NoTag  BY <1>3, Asn1Constants
<1>5. TagNow(l, tg) = it.tag /\ EndNow(l, tg) = a /\ a <= Len(l.data)
  <2>1. CASE tg # NoTag
    <3>1. tg = it.tag /\ l.at = from + Len(TagOf(tg))  BY <2>1 DEF Placed, it, from
    <3>2. l.at = a  BY <3>1
    <3> QED BY <2>1, <3>1, <3>2, <1>2 DEF TagNow, EndNow
  <2>2. CASE tg = NoTag
    <3>1. l.at = from  BY <2>2 DEF Placed, from
    <3>2. l = [at |-> from, data |-> l.data] /\ TagReadable(l)  BY <1>2, <2>2, <3>1
    <3> DEFINE m == [at |-> from, data |-> l.data]
    <3>3. /\ TagReadable(m) => a <= Len(l.data)
          /\ a <= Len(l.data) => ReadTag(m) = it.tag /\ TagEnd(m) = a
      BY <1>1, ItemRead
    <3>4. m = l  BY <3>2
    <3> HIDE DEF m, a
    <3>5. a <= Len(l.data) /\ ReadTag(l) = it.tag /\ TagEnd(l) = a  BY <3>2, <3>3, <3>4, Zenon
    <3> QED BY <2>2, <3>5 DEF TagNow, EndNow
  <2> QED BY <2>1, <2>2
<1> HIDE DEF a
<1> DEFINE m == [l EXCEPT !.at = a]
<1>6. m \in Levels /\ m.at = a /\ m.data = l.data  BY <1>3 DEF Levels
<1> HIDE DEF m
<1>7. Placed(m, p, it.tag, G)
  <2>1. /\ p.done <= Len(p.items) /\ Laid(m.data, p.items, G)
        /\ Len(m.data) <= From(p.items, Len(p.items))
    BY <1>6 DEF Placed
  <2>2. m.at <= Len(m.data)  BY <1>5, <1>6
  <2>3. m.at = From(p.items, p.done) + Len(TagOf(it.tag))  BY <1>6 DEF a, from
  <2>4. it.tag = p.items[p.done + 1].tag  BY DEF it
  <2> QED BY <1>4, <2>1, <2>2, <2>3, <2>4 DEF Placed
<1> QED BY <1>3, <1>4, <1>5, <1>6, <1>7 DEF m, a, it, from

\* The value after it.
Valued(l, p, tg, I, G) ==
    LET it == p.items[p.done + 1]
        a  == From(p.items, p.done) + Len(TagOf(it.tag))
        v  == ValueAt(l.data, a)
        m  == [l EXCEPT !.at = it.end]
        q  == [p EXCEPT !.done = @ + 1]
    IN  /\ it \in I
        /\ ValueReadable(l.data, a) =>
             /\ v \in Bytes /\ ValueFrom(l.data, a) + LengthAt(l.data, a) = it.end
             /\ Decodable(it.tag.nr, v) /\ it.val = Decode(it.tag.nr, v)
             /\ it.tag.typ = Constructed => <<v, it.items>> \in G
             /\ m \in Levels /\ q \in Places(I) /\ Placed(m, q, NoTag, G)
             /\ q.done = p.done + 1 /\ q.items = p.items
        /\ it.end <= Len(l.data) =>
             /\ ~AtEnd(l) /\ ValueReadable(l.data, a) /\ Decodable(it.tag.nr, v)
             /\ tg # NoTag \/ TagReadable(l) \/ (it.tag.typ = Primitive /\ it.tag.nr > 30)

LEMMA NextValue ==
    ASSUME NEW G, NEW I, Ends(I), NEW l \in Levels, NEW p \in Places(I), NEW tg,
           Placed(l, p, tg, G), p.done < Len(p.items)
    PROVE  Valued(l, p, tg, I, G)
<1> DEFINE it   == p.items[p.done + 1]
           from == From(p.items, p.done)
           a    == from + Len(TagOf(it.tag))
           v    == ValueAt(l.data, a)
           m    == [l EXCEPT !.at = it.end]
           q    == [p EXCEPT !.done = @ + 1]
<1>1. /\ it \in I /\ from \in Nat /\ from <= Len(l.data) /\ l.data \in Bytes
      /\ Item(l.data, from, it, G)
  BY PlacedItem
<1>2. /\ l = [at |-> l.at, data |-> l.data] /\ l.at \in Nat /\ l.at <= Len(l.data)
      /\ p.items \in Seq(I) /\ p.done \in Nat /\ Len(p.items) \in Nat /\ Len(l.data) \in Nat
  BY LenProperties DEF Levels, Places, Placed, Bytes
<1> HIDE DEF it, from
<1>3. /\ it.tag \in Tags /\ it.end \in Nat /\ a \in Nat /\ from < a /\ a < it.end
      /\ a <= Len(l.data) =>
           ((it.tag.typ = Primitive => it.tag.nr <= 30) => TagReadable([at |-> from, data |-> l.data]))
      /\ ValueReadable(l.data, a) <=> it.end <= Len(l.data)
      /\ ValueReadable(l.data, a) =>
           /\ v \in Bytes /\ ValueFrom(l.data, a) + LengthAt(l.data, a) = it.end
           /\ Decodable(it.tag.nr, v) /\ it.val = Decode(it.tag.nr, v)
           /\ it.tag.typ = Constructed => <<v, it.items>> \in G
  BY <1>1, ItemRead
<1>4. l.at = from \/ l.at = a
  <2>1. CASE tg = NoTag  BY <2>1 DEF Placed, from
  <2>2. CASE tg # NoTag
    <3>1. tg = it.tag /\ l.at = from + Len(TagOf(tg))  BY <2>2 DEF Placed, it, from
    <3> QED BY <3>1
  <2> QED BY <2>1, <2>2
<1> HIDE DEF a, v
<1>5. ASSUME it.end <= Len(l.data)
      PROVE  /\ ~AtEnd(l)
             /\ tg # NoTag \/ TagReadable(l) \/ (it.tag.typ = Primitive /\ it.tag.nr > 30)
  <2>1. l.at < Len(l.data) /\ a <= Len(l.data)  BY <1>1, <1>2, <1>3, <1>4, <1>5
  <2>2. ~AtEnd(l)  BY <1>2, <2>1 DEF AtEnd
  <2>3. ASSUME tg = NoTag, ~(it.tag.typ = Primitive /\ it.tag.nr > 30) PROVE TagReadable(l)
    <3>1. l.at = from  BY <2>3 DEF Placed, from
    <3>2. it.tag.nr \in Nat  BY <1>3 DEF Tags
    <3>3. it.tag.typ = Primitive => it.tag.nr <= 30  BY <2>3, <3>2
    <3>4. TagReadable([at |-> from, data |-> l.data])  BY <1>3, <2>1, <3>3
    <3>5. l = [at |-> from, data |-> l.data]  BY <1>2, <3>1
    <3> QED BY <3>4, <3>5, Zenon
  <2> QED BY <2>2, <2>3
<1>6. /\ m \in Levels /\ m.at = it.end /\ m.data = l.data
      /\ q \in Places(I) /\ q.done = p.done + 1 /\ q.items = p.items
  <2>1. PICK e \in Nat : e = it.end  BY <1>3
  <2>2. m = [l EXCEPT !.at = e]  BY <2>1
  <2>3. m \in Levels /\ m.at = e /\ m.data = l.data  BY <2>2 DEF Levels
  <2>4. p.done + 1 \in Nat  BY <1>2
  <2>5. q \in Places(I) /\ q.done = p.done + 1 /\ q.items = p.items  BY <2>4 DEF Places
  <2> QED BY <2>1, <2>3, <2>5, Zenon
<1> HIDE DEF m, q
<1>7. ASSUME ValueReadable(l.data, a) PROVE Placed(m, q, NoTag, G)
  <2>1. q.done <= Len(q.items)  BY <1>2, <1>6
  <2>2. m.at <= Len(m.data)  BY <1>3, <1>6, <1>7
  <2>3. Laid(m.data, q.items, G) /\ Len(m.data) <= From(q.items, Len(q.items))
    BY <1>6 DEF Placed
  <2>4. m.at = From(q.items, q.done)
    <3>1. q.done # 0  BY <1>2, <1>6
    <3>2. From(q.items, q.done) = q.items[q.done].end  BY <3>1 DEF From
    <3> QED BY <1>6, <3>2 DEF it
  <2> QED BY <2>1, <2>2, <2>3, <2>4 DEF Placed
<1>8. /\ it \in I
      /\ ValueReadable(l.data, a) =>
           /\ v \in Bytes /\ ValueFrom(l.data, a) + LengthAt(l.data, a) = it.end
           /\ Decodable(it.tag.nr, v) /\ it.val = Decode(it.tag.nr, v)
           /\ it.tag.typ = Constructed => <<v, it.items>> \in G
           /\ m \in Levels /\ q \in Places(I) /\ Placed(m, q, NoTag, G)
           /\ q.done = p.done + 1 /\ q.items = p.items
      /\ it.end <= Len(l.data) =>
           /\ ~AtEnd(l) /\ ValueReadable(l.data, a) /\ Decodable(it.tag.nr, v)
           /\ tg # NoTag \/ TagReadable(l) \/ (it.tag.typ = Primitive /\ it.tag.nr > 30)
  BY <1>1, <1>3, <1>5, <1>6, <1>7
<1> QED BY <1>8 DEF v, a, it, from, m, q, Valued

LEMMA ShowsGrows ==
    ASSUME NEW d \in Bytes, NEW e \in Bytes, NEW i \in Nat, NEW w \in Bytes,
           Shows(d, i, w), i + Len(w) <= Len(d)
    PROVE  Shows(d \o e, i, w)
<1>0. Len(d) \in Nat /\ Len(w) \in Nat /\ Len(e) \in Nat  BY LenProperties DEF Bytes
<1>1. \A j \in 1 .. Len(d) + Len(e) : (d \o e)[j] = IF j <= Len(d) THEN d[j] ELSE e[j - Len(d)]
  BY ConcatProperties DEF Bytes
<1>2. ASSUME NEW j \in 1 .. Len(w) PROVE (d \o e)[i + j] = w[j]
  <2>1. i + j \in 1 .. Len(d) + Len(e) /\ i + j <= Len(d)  BY <1>0
  <2>2. (d \o e)[i + j] = d[i + j]  BY <1>1, <2>1
  <2>3. d[i + j] = w[j]  BY <2>1 DEF Shows
  <2> QED BY <2>2, <2>3
<1> QED BY <1>2 DEF Shows

LEMMA ShowsEnd ==
    ASSUME NEW d \in Bytes, NEW e \in Bytes
    PROVE  /\ Shows(d \o e, Len(d), e) /\ d \o e \in Bytes
           /\ Len(d \o e) = Len(d) + Len(e)
<1>0. Len(d) \in Nat /\ Len(e) \in Nat  BY LenProperties DEF Bytes
<1>1. /\ d \o e \in Bytes /\ Len(d \o e) = Len(d) + Len(e)
      /\ \A j \in 1 .. Len(d) + Len(e) : (d \o e)[j] = IF j <= Len(d) THEN d[j] ELSE e[j - Len(d)]
  BY ConcatProperties DEF Bytes
<1>2. ASSUME NEW j \in 1 .. Len(e) PROVE (d \o e)[Len(d) + j] = e[j]
  <2>1. Len(d) + j \in 1 .. Len(d) + Len(e) /\ ~(Len(d) + j <= Len(d)) /\ (Len(d) + j) - Len(d) = j
    BY <1>0
  <2> QED BY <1>1, <2>1
<1> QED BY <1>1, <1>2 DEF Shows

\* Items stay where they are when bytes follow them, and when the end is
\* cut off.
LEMMA ItemGrows ==
    ASSUME NEW G, NEW H, G \subseteq H, NEW d \in Bytes, NEW e \in Bytes, NEW from \in Nat,
           NEW it, Item(d, from, it, G), it.end <= Len(d)
    PROVE  Item(d \o e, from, it, H)
<1>1. PICK c \in Bytes :
       /\ it.tag \in Tags /\ Writable(Len(c))
       /\ Shows(d, from, Whole(it.tag, c))
       /\ it.end = from + Len(Whole(it.tag, c))
       /\ Decodable(it.tag.nr, c) /\ it.val = Decode(it.tag.nr, c)
       /\ it.tag.typ = Constructed => <<c, it.items>> \in G
  BY DEF Item
<1>2. Whole(it.tag, c) \in Bytes  BY <1>1, WholeForm
<1>3. from + Len(Whole(it.tag, c)) <= Len(d)  BY <1>1
<1>4. Shows(d \o e, from, Whole(it.tag, c))  BY <1>1, <1>2, <1>3, ShowsGrows
<1>5. it.tag.typ = Constructed => <<c, it.items>> \in H  BY <1>1
<1> QED BY <1>1, <1>4, <1>5, Zenon DEF Item

LEMMA LaidGrows ==
    ASSUME NEW G, NEW H, G \subseteq H, NEW I, Ends(I), NEW items \in Seq(I),
           NEW d \in Bytes, NEW e \in Bytes, Laid(d, items, G), Lengthy(d, items)
    PROVE  Laid(d \o e, items, H) /\ Lengthy(d \o e, items)
<1>0. Len(d) \in Nat /\ Len(e) \in Nat /\ Len(items) \in Nat  BY LenProperties DEF Bytes
<1>1. Len(d \o e) = Len(d) + Len(e)  BY ShowsEnd
<1>2. ASSUME NEW n \in 1 .. Len(items)
      PROVE  /\ Item(d \o e, From(items, n - 1), items[n], H)
             /\ items[n].end <= Len(d \o e)
  <2>1. Item(d, From(items, n - 1), items[n], G) /\ items[n].end <= Len(d)
    BY DEF Laid, Lengthy
  <2>2. From(items, n - 1) \in Nat
    <3>1. n - 1 \in 0 .. Len(items)  BY <1>0
    <3> QED BY <3>1, FromNat
  <2>3. items[n].end \in Nat
    <3>1. items[n] \in I  BY ElementOfSeq
    <3> QED BY <3>1 DEF Ends
  <2> QED BY <1>0, <1>1, <2>1, <2>2, <2>3, ItemGrows
<1> QED BY <1>2 DEF Laid, Lengthy

LEMMA LaidCut ==
    ASSUME NEW G, NEW I, NEW items \in Seq(I), NEW d \in Bytes, NEW k \in 0 .. Len(d),
           Ends(I), Laid(d, items, G)
    PROVE  /\ SubSeq(d, 1, k) \in Bytes /\ Len(SubSeq(d, 1, k)) = k
           /\ Laid(SubSeq(d, 1, k), items, G)
<1> DEFINE s == SubSeq(d, 1, k)
<1>0. Len(d) \in Nat /\ d \in Seq(Octets) /\ Len(items) \in Nat  BY LenProperties DEF Bytes
<1>1. /\ s \in Bytes /\ Len(s) = k /\ \A j \in 1 .. k : s[j] = d[j]
  <2>1. 1 \in Int /\ k \in Int  BY <1>0
  <2>2. \A i \in 1 .. k : d[i] \in Octets
    <3>1. \A i \in 1 .. k : i \in 1 .. Len(d)  BY <1>0
    <3> QED BY <1>0, <3>1, ElementOfSeq
  <2>3. /\ s \in Seq(Octets)
        /\ Len(s) = IF 1 <= k THEN (k - 1) + 1 ELSE 0
        /\ \A j \in 1 .. (k - 1) + 1 : s[j] = d[(1 + j) - 1]
    BY <2>1, <2>2, SubSeqProperties
  <2> HIDE DEF s
  <2>4. Len(s) = k /\ (k - 1) + 1 = k /\ \A j \in 1 .. k : (1 + j) - 1 = j  BY <1>0, <2>3
  <2> QED BY <2>3, <2>4 DEF Bytes
<1> HIDE DEF s
<1>2. ASSUME NEW n \in 1 .. Len(items) PROVE Item(s, From(items, n - 1), items[n], G)
  <2> DEFINE it == items[n]
             from == From(items, n - 1)
  <2>1. Item(d, from, it, G)  BY DEF Laid
  <2>2. from \in Nat
    <3>1. n - 1 \in 0 .. Len(items)  BY <1>0
    <3> QED BY <3>1, FromNat
  <2> HIDE DEF it, from
  <2>3. PICK c \in Bytes :
         /\ it.tag \in Tags /\ Writable(Len(c))
         /\ Shows(d, from, Whole(it.tag, c))
         /\ it.end = from + Len(Whole(it.tag, c))
         /\ Decodable(it.tag.nr, c) /\ it.val = Decode(it.tag.nr, c)
         /\ it.tag.typ = Constructed => <<c, it.items>> \in G
    BY <2>1 DEF Item
  <2> DEFINE w == Whole(it.tag, c)
  <2>4. Len(w) \in Nat
    <3>1. w \in Bytes  BY <2>3, WholeForm
    <3> HIDE DEF w
    <3> QED BY <3>1, LenProperties DEF Bytes
  <2> HIDE DEF w
  <2>5. Shows(s, from, w)
    <3>1. Shows(d, from, w)  BY <2>3 DEF w
    <3>2. ASSUME NEW j \in 1 .. Len(w), from + j <= Len(s) PROVE s[from + j] = w[j]
      <4>1. from + j \in 1 .. k /\ from + j <= Len(d)  BY <1>0, <1>1, <2>2, <2>4, <3>2
      <4>2. s[from + j] = d[from + j]  BY <1>1, <4>1
      <4>3. d[from + j] = w[j]  BY <3>1, <4>1 DEF Shows
      <4> QED BY <4>2, <4>3
    <3> QED BY <3>2 DEF Shows
  <2> QED BY <2>3, <2>5, Zenon DEF Item, w, it, from
<1>3. Laid(s, items, G)  BY <1>2 DEF Laid
<1> QED BY <1>1, <1>3 DEF s

\* One more item, which is the end of d.
Finishes(d, items, it, G) ==
    /\ Laid(d, items, G) /\ Lengthy(d, items)
    /\ Item(d, From(items, Len(items)), it, G) /\ it.end = Len(d)

LEMMA LaidMore ==
    ASSUME NEW G, NEW I, Ends(I), NEW items \in Seq(I), NEW it,
           NEW d \in Bytes, Finishes(d, items, it, G)
    PROVE  LET more == Append(items, it)
           IN  /\ Ends(I \cup {it}) /\ more \in Seq(I \cup {it})
               /\ Laid(d, more, G) /\ Lengthy(d, more)
               /\ Len(d) = From(more, Len(more))
<1> DEFINE J == I \cup {it}
           more == Append(items, it)
<1>0. /\ Laid(d, items, G) /\ Lengthy(d, items)
      /\ Item(d, From(items, Len(items)), it, G) /\ it.end = Len(d)
      /\ Len(d) \in Nat /\ Len(items) \in Nat
  BY LenProperties DEF Bytes, Finishes
<1>1. Ends(J)  BY <1>0 DEF Ends
<1>2. items \in Seq(J)
  <2>1. I \subseteq J  OBVIOUS
  <2> HIDE DEF J
  <2> QED BY <2>1, SeqMonotonic
<1>3. it \in J  OBVIOUS
<1> HIDE DEF J
<1>4. /\ more \in Seq(J) /\ Len(more) = Len(items) + 1 /\ more[Len(items) + 1] = it
      /\ \A n \in 1 .. Len(items) : more[n] = items[n]
  BY <1>2, <1>3, AppendProperties
<1> HIDE DEF more
<1>5. \A n \in 0 .. Len(items) : From(more, n) = From(items, n)
  <2>1. ASSUME NEW n \in 0 .. Len(items) PROVE From(more, n) = From(items, n)
    <3>1. CASE n = 0  BY <3>1 DEF From
    <3>2. CASE n # 0
      <4>1. more[n] = items[n]  BY <1>4, <3>2
      <4> QED BY <3>2, <4>1 DEF From
    <3> QED BY <3>1, <3>2
  <2> QED BY <2>1
<1>6. ASSUME NEW n \in 1 .. Len(more)
      PROVE  Item(d, From(more, n - 1), more[n], G) /\ more[n].end <= Len(d)
  <2>1. n - 1 \in 0 .. Len(items)  BY <1>0, <1>4
  <2>2. From(more, n - 1) = From(items, n - 1)  BY <1>5, <2>1
  <2>3. CASE n = Len(items) + 1
    <3>1. more[n] = it /\ n - 1 = Len(items)  BY <1>0, <1>4, <2>3
    <3>2. it.end <= Len(d)  BY <1>0
    <3> QED BY <1>0, <2>2, <3>1, <3>2
  <2>4. CASE n # Len(items) + 1
    <3>1. n \in 1 .. Len(items)  BY <1>0, <1>4, <2>4
    <3>2. more[n] = items[n]  BY <1>4, <3>1
    <3>3. Item(d, From(items, n - 1), items[n], G) /\ items[n].end <= Len(d)
      BY <1>0, <3>1 DEF Laid, Lengthy
    <3> QED BY <2>2, <3>2, <3>3
  <2> QED BY <2>3, <2>4
<1>7. Laid(d, more, G) /\ Lengthy(d, more)  BY <1>6 DEF Laid, Lengthy
<1>8. Len(d) = From(more, Len(more))  BY <1>0, <1>4 DEF From
<1> QED BY <1>1, <1>4, <1>7, <1>8 DEF J, more

\* A level of the Encoder: whole items, and in an outer one the tag of the
\* item that is being written a level further in.
Mades(I) == [tag : Tags \cup {NoTag}, items : Seq(I)]
Filled(b, m, next, G) ==
    /\ Laid(b, m.items, G) /\ Lengthy(b, m.items)
    /\ next = NoTag => Len(b) = From(m.items, Len(m.items))
    /\ next # NoTag =>
         /\ next \in Tags /\ next.nr \notin Decoded
         /\ Shows(b, From(m.items, Len(m.items)), TagOf(next))
         /\ Len(b) = From(m.items, Len(m.items)) + Len(TagOf(next))

\* What becomes of it when the item is complete.
Completes(d, m, c, it, G) ==
    /\ Laid(d, m.items, G) /\ Lengthy(d, m.items)
    /\ it.tag \in Tags /\ Writable(Len(c))
    /\ Decodable(it.tag.nr, c) /\ it.val = Decode(it.tag.nr, c)
    /\ it.tag.typ = Constructed => <<c, it.items>> \in G
    /\ Shows(d, From(m.items, Len(m.items)), Whole(it.tag, c))
    /\ Len(d) = From(m.items, Len(m.items)) + Len(Whole(it.tag, c))
    /\ it.end = Len(d)

LEMMA FillsMore ==
    ASSUME NEW G, NEW I, Ends(I), NEW d \in Bytes, NEW m \in Mades(I),
           NEW c \in Bytes, NEW it, Completes(d, m, c, it, G)
    PROVE  LET n == [m EXCEPT !.items = Append(@, it)]
           IN  /\ Ends(I \cup {it}) /\ n \in Mades(I \cup {it}) /\ n.tag = m.tag
               /\ Filled(d, n, NoTag, G)
<1> DEFINE from == From(m.items, Len(m.items))
           more == Append(m.items, it)
           n == [m EXCEPT !.items = Append(@, it)]
<1>1. m.items \in Seq(I) /\ m.tag \in Tags \cup {NoTag}  BY DEF Mades
<1>2. Item(d, from, it, G)
  <2>1. /\ it.tag \in Tags /\ Writable(Len(c))
        /\ Shows(d, from, Whole(it.tag, c))
        /\ it.end = from + Len(Whole(it.tag, c))
        /\ Decodable(it.tag.nr, c) /\ it.val = Decode(it.tag.nr, c)
        /\ it.tag.typ = Constructed => <<c, it.items>> \in G
    BY DEF Completes
  <2> HIDE DEF from
  <2> QED BY <2>1, Zenon DEF Item
<1>3. Finishes(d, m.items, it, G)  BY <1>2 DEF Completes, Finishes
<1>4. /\ Ends(I \cup {it}) /\ more \in Seq(I \cup {it})
      /\ Laid(d, more, G) /\ Lengthy(d, more)
      /\ Len(d) = From(more, Len(more))
  <2>1. Ends(I \cup {it})  BY <1>1, <1>3, LaidMore
  <2>2. more \in Seq(I \cup {it})  BY <1>1, <1>3, LaidMore
  <2>3. Laid(d, more, G)  BY <1>1, <1>3, LaidMore
  <2>4. Lengthy(d, more)  BY <1>1, <1>3, LaidMore
  <2>5. Len(d) = From(more, Len(more))
    <3>1. /\ Len(more) = Len(m.items) + 1 /\ more[Len(m.items) + 1] = it /\ Len(m.items) \in Nat
      <4>1. m.items \in Seq(I \cup {it}) /\ it \in I \cup {it}
        <5>1. I \subseteq I \cup {it}  OBVIOUS
        <5> QED BY <1>1, <5>1, SeqMonotonic
      <4> QED BY <4>1, AppendProperties, LenProperties
    <3> HIDE DEF more
    <3>2. Len(more) # 0 /\ more[Len(more)] = it  BY <3>1
    <3>3. it.end = Len(d)  BY DEF Completes
    <3> QED BY <3>2, <3>3 DEF From
  <2> QED BY <2>1, <2>2, <2>3, <2>4, <2>5
<1> HIDE DEF more
<1>5. n \in Mades(I \cup {it}) /\ n.tag = m.tag /\ n.items = more
  <2>1. n = [m EXCEPT !.items = more]  BY DEF more
  <2> HIDE DEF n
  <2>2. [m EXCEPT !.items = more] = [tag |-> m.tag, items |-> more]  BY DEF Mades
  <2>3. n = [tag |-> m.tag, items |-> more]  BY <2>1, <2>2
  <2> QED BY <1>1, <1>4, <2>3 DEF Mades
<1> HIDE DEF n
<1>6. Filled(d, n, NoTag, G)  BY <1>4, <1>5 DEF Filled
<1> QED BY <1>4, <1>5, <1>6 DEF n

\* write: the tag, the length and the value.
Writes(b, m, c, it, d, o) ==
    /\ o = [m EXCEPT !.items = Append(@, it)]
    /\ it.tag \in Tags /\ Writable(Len(c)) /\ it.tag.typ # Constructed
    /\ Decodable(it.tag.nr, c) /\ it.val = Decode(it.tag.nr, c)
    /\ d = b \o (TagOf(it.tag) \o LengthBytes(Len(c)) \o c) /\ it.end = Len(d)

LEMMA WriteFills ==
    ASSUME NEW G, NEW I, Ends(I), NEW b \in Bytes, NEW m \in Mades(I), Filled(b, m, NoTag, G),
           NEW c \in Bytes, NEW it, NEW d, NEW o, Writes(b, m, c, it, d, o)
    PROVE  /\ Ends(I \cup {it}) /\ o \in Mades(I \cup {it}) /\ o.tag = m.tag
           /\ d \in Bytes /\ Filled(d, o, NoTag, G)
<1>0. /\ o = [m EXCEPT !.items = Append(@, it)]
      /\ it.tag \in Tags /\ Writable(Len(c)) /\ it.tag.typ # Constructed
      /\ Decodable(it.tag.nr, c) /\ it.val = Decode(it.tag.nr, c)
      /\ d = b \o (TagOf(it.tag) \o LengthBytes(Len(c)) \o c) /\ it.end = Len(d)
  BY DEF Writes
<1> DEFINE w == Whole(it.tag, c)
           from == From(m.items, Len(m.items))
<1>1. w \in Bytes /\ w = TagOf(it.tag) \o LengthBytes(Len(c)) \o c  BY <1>0, WholeForm
<1>2. d = b \o w  BY <1>0, <1>1
<1>3. m.items \in Seq(I) /\ Len(b) = from /\ Laid(b, m.items, G) /\ Lengthy(b, m.items)
  BY DEF Mades, Filled
<1> HIDE DEF w, from
<1>4. Shows(d, from, w) /\ d \in Bytes /\ Len(d) = from + Len(w)
  BY <1>1, <1>2, <1>3, ShowsEnd
<1>5. Laid(d, m.items, G) /\ Lengthy(d, m.items)  BY <1>1, <1>2, <1>3, LaidGrows
<1>6. /\ Shows(d, From(m.items, Len(m.items)), Whole(it.tag, c))
      /\ Len(d) = From(m.items, Len(m.items)) + Len(Whole(it.tag, c))
  BY <1>4 DEF w, from
<1>7. Completes(d, m, c, it, G)  BY <1>0, <1>5, <1>6 DEF Completes
<1>8. Ends(I \cup {it})  BY <1>0, <1>4, <1>7, FillsMore
<1>9. o \in Mades(I \cup {it})  BY <1>0, <1>4, <1>7, FillsMore
<1>10. o.tag = m.tag  BY <1>0, <1>4, <1>7, FillsMore
<1>11. Filled(d, o, NoTag, G)  BY <1>0, <1>4, <1>7, FillsMore
<1> QED BY <1>4, <1>8, <1>9, <1>10, <1>11

\* enter: the tag.
LEMMA EnterFills ==
    ASSUME NEW G, NEW I, Ends(I), NEW b \in Bytes, NEW m \in Mades(I), Filled(b, m, NoTag, G),
           NEW t \in Tags, t.nr \notin Decoded
    PROVE  b \o TagOf(t) \in Bytes /\ Filled(b \o TagOf(t), m, t, G)
<1> DEFINE u == TagOf(t)
           d == b \o u
<1>1. u \in Bytes  BY TagForm DEF Bytes
<1>2. m.items \in Seq(I) /\ Len(b) = From(m.items, Len(m.items))
      /\ Laid(b, m.items, G) /\ Lengthy(b, m.items)
  BY DEF Mades, Filled
<1>3. t # NoTag  BY Asn1Constants
<1> HIDE DEF u
<1>4. Shows(d, Len(b), u) /\ d \in Bytes /\ Len(d) = Len(b) + Len(u)  BY <1>1, ShowsEnd
<1>5. Laid(d, m.items, G) /\ Lengthy(d, m.items)  BY <1>1, <1>2, LaidGrows
<1> HIDE DEF d
<1>6. Filled(d, m, t, G)  BY <1>2, <1>3, <1>4, <1>5 DEF Filled, u
<1> QED BY <1>4, <1>6 DEF d, u

\* leave: the length and the contents, behind the tag.
Leaves(b, m, t, c, it, d, o, G) ==
    /\ o = [m EXCEPT !.items = Append(@, it)]
    /\ t # NoTag /\ it.tag = t /\ Writable(Len(c))
    /\ it.val = Value("bytes", c) /\ <<c, it.items>> \in G
    /\ d = b \o (LengthBytes(Len(c)) \o c) /\ it.end = Len(d)

LEMMA LeaveFills ==
    ASSUME NEW G, NEW I, Ends(I), NEW b \in Bytes, NEW m \in Mades(I), NEW t,
           Filled(b, m, t, G), NEW c \in Bytes, NEW it, NEW d, NEW o, Leaves(b, m, t, c, it, d, o, G)
    PROVE  /\ Ends(I \cup {it}) /\ o \in Mades(I \cup {it}) /\ o.tag = m.tag
           /\ d \in Bytes /\ Filled(d, o, NoTag, G)
<1>0. /\ o = [m EXCEPT !.items = Append(@, it)]
      /\ t # NoTag /\ it.tag = t /\ Writable(Len(c))
      /\ it.val = Value("bytes", c) /\ <<c, it.items>> \in G
      /\ d = b \o (LengthBytes(Len(c)) \o c) /\ it.end = Len(d)
  BY DEF Leaves
<1> DEFINE u == TagOf(t)
           w == LengthBytes(Len(c)) \o c
           from == From(m.items, Len(m.items))
<1>1. /\ t \in Tags /\ t.nr \notin Decoded
      /\ Shows(b, from, u) /\ Len(b) = from + Len(u)
      /\ Laid(b, m.items, G) /\ Lengthy(b, m.items) /\ m.items \in Seq(I)
  BY <1>0 DEF Filled, Mades
<1>2. /\ u \in Bytes /\ Len(u) \in Nat /\ w \in Bytes /\ Len(w) \in Nat
      /\ Whole(t, c) = u \o w /\ Len(Whole(t, c)) = Len(u) + Len(w)
  BY <1>0, <1>1, WholeForm
<1>3. from \in Nat
  <2>1. Len(m.items) \in 0 .. Len(m.items)
    <3>1. Len(m.items) \in Nat  BY <1>1, LenProperties
    <3> QED BY <3>1
  <2> QED BY <1>1, <2>1, FromNat
<1> HIDE DEF u, w, from
<1>4. d = b \o w  BY <1>0 DEF w
<1>5. Shows(d, Len(b), w) /\ d \in Bytes /\ Len(d) = Len(b) + Len(w)  BY <1>2, <1>4, ShowsEnd
<1>6. Shows(d, from, u)
  <2>1. from + Len(u) <= Len(b)  BY <1>1, <1>2, <1>3
  <2> QED BY <1>1, <1>2, <1>3, <1>4, <2>1, ShowsGrows
<1>7. Shows(d, from, Whole(t, c))
  <2>1. Shows(d, from, u \o w) <=> Shows(d, from, u) /\ Shows(d, from + Len(u), w)
    BY <1>2, <1>3, <1>5, ShowsConcat DEF Bytes
  <2> QED BY <1>1, <1>2, <1>5, <1>6, <2>1
<1>8. Len(d) = from + Len(Whole(t, c))  BY <1>1, <1>2, <1>3, <1>5
<1>9. Laid(d, m.items, G) /\ Lengthy(d, m.items)  BY <1>1, <1>2, <1>4, LaidGrows
<1>10. Decodable(t.nr, c) /\ Decode(t.nr, c) = Value("bytes", c)
  <2>1. /\ t.nr \notin IntegerNumbers /\ t.nr # Boolean /\ t.nr # Null
        /\ t.nr # ObjectIdentifier /\ t.nr \notin StringNumbers
    BY <1>1 DEF Decoded
  <2> QED BY <2>1 DEF Decodable, Decode
<1>11. /\ it.tag \in Tags /\ Decodable(it.tag.nr, c) /\ it.val = Decode(it.tag.nr, c)
       /\ it.tag.typ = Constructed => <<c, it.items>> \in G
       /\ Shows(d, From(m.items, Len(m.items)), Whole(it.tag, c))
       /\ Len(d) = From(m.items, Len(m.items)) + Len(Whole(it.tag, c))
  BY <1>0, <1>1, <1>7, <1>8, <1>10 DEF from
<1>12. Completes(d, m, c, it, G)  BY <1>0, <1>9, <1>11 DEF Completes
<1>13. Ends(I \cup {it})  BY <1>0, <1>5, <1>12, FillsMore
<1>14. o \in Mades(I \cup {it})  BY <1>0, <1>5, <1>12, FillsMore
<1>15. o.tag = m.tag  BY <1>0, <1>5, <1>12, FillsMore
<1>16. Filled(d, o, NoTag, G)  BY <1>0, <1>5, <1>12, FillsMore
<1> QED BY <1>5, <1>13, <1>14, <1>15, <1>16

\* The levels.
LEMMA FrontLast ==
    ASSUME NEW S, NEW s \in Seq(S), Len(s) >= 1
    PROVE  /\ Front(s) \in Seq(S) /\ Len(Front(s)) = Len(s) - 1
           /\ \A j \in 1 .. Len(s) - 1 : Front(s)[j] = s[j]
           /\ Last(s) = s[Len(s)] /\ Last(s) \in S /\ Len(s) \in Nat
<1>1. Len(s) \in Nat  BY LenProperties
<1>2. \A i \in 1 .. Len(s) - 1 : s[i] \in S
  <2>1. \A i \in 1 .. Len(s) - 1 : i \in 1 .. Len(s)  BY <1>1
  <2> QED BY <2>1, ElementOfSeq
<1> DEFINE f == SubSeq(s, 1, Len(s) - 1)
<1>3. /\ f \in Seq(S)
      /\ Len(f) = IF 1 <= Len(s) - 1 THEN ((Len(s) - 1) - 1) + 1 ELSE 0
      /\ \A j \in 1 .. ((Len(s) - 1) - 1) + 1 : f[j] = s[(1 + j) - 1]
  <2>1. 1 \in Int /\ Len(s) - 1 \in Int  BY <1>1
  <2> QED BY <1>2, <2>1, SubSeqProperties
<1>4. f = Front(s)  BY DEF Front
<1> HIDE DEF f
<1>5. /\ Len(f) = Len(s) - 1 /\ ((Len(s) - 1) - 1) + 1 = Len(s) - 1
      /\ \A j \in 1 .. Len(s) - 1 : (1 + j) - 1 = j
  <2>1. \A n \in Nat : n >= 1 =>
          /\ (IF 1 <= n - 1 THEN ((n - 1) - 1) + 1 ELSE 0) = n - 1
          /\ ((n - 1) - 1) + 1 = n - 1
          /\ \A j \in 1 .. n - 1 : (1 + j) - 1 = j
    OBVIOUS
  <2>2. Len(f) = IF 1 <= Len(s) - 1 THEN ((Len(s) - 1) - 1) + 1 ELSE 0  BY <1>3
  <2> QED BY <1>1, <2>1, <2>2, Zenon
<1>6. \A j \in 1 .. Len(s) - 1 : f[j] = s[j]  BY <1>3, <1>5
<1>7. Last(s) = s[Len(s)] /\ s[Len(s)] \in S
  <2>1. Len(s) \in 1 .. Len(s)  BY <1>1
  <2> QED BY <2>1, ElementOfSeq DEF Last
<1> QED BY <1>1, <1>3, <1>4, <1>5, <1>6, <1>7

LEMMA LastReplaced ==
    ASSUME NEW S, NEW s \in Seq(S), Len(s) >= 1, NEW x \in S
    PROVE  LET r == Append(Front(s), x)
           IN  /\ r \in Seq(S) /\ Len(r) = Len(s) /\ r[Len(s)] = x /\ Last(r) = x
               /\ \A j \in 1 .. Len(s) - 1 : r[j] = s[j]
<1> DEFINE f == Front(s)
           r == Append(f, x)
<1>1. /\ f \in Seq(S) /\ Len(f) = Len(s) - 1 /\ Len(s) \in Nat
      /\ \A j \in 1 .. Len(s) - 1 : f[j] = s[j]
  BY FrontLast
<1> HIDE DEF f
<1>2. /\ r \in Seq(S) /\ Len(r) = Len(f) + 1 /\ r[Len(f) + 1] = x
      /\ \A j \in 1 .. Len(f) : r[j] = f[j]
  BY <1>1, AppendProperties
<1> HIDE DEF r
<1>3. Len(f) + 1 = Len(s)  BY <1>1
<1>4. /\ r \in Seq(S) /\ Len(r) = Len(s) /\ r[Len(s)] = x /\ Last(r) = x
      /\ \A j \in 1 .. Len(s) - 1 : r[j] = s[j]
  BY <1>1, <1>2, <1>3 DEF Last
<1> QED BY <1>4 DEF r, f

Sound(I, G) == Ends(I) /\ G \in SUBSET (Bytes \X Seq(I)) /\ Closed(G)

\* The tag of the item that is being written in the level above the kth.
Above(m, k) == IF k = Len(m) THEN NoTag ELSE m[k + 1].tag

Stacked(e, m, I, G) ==
    /\ e \in Seq(Bytes) /\ m \in Seq(Mades(I)) /\ Len(m) = Len(e) /\ Len(e) >= 1
    /\ \A k \in 1 .. Len(e) : Filled(e[k], m[k], Above(m, k), G)
    /\ \A k \in 2 .. Len(e) : m[k].tag # NoTag

Standing(d, p, tg, I, G) ==
    /\ d \in Seq(Levels) /\ p \in Seq(Places(I)) /\ Len(p) = Len(d)
    /\ \A k \in 1 .. Len(d) : Placed(d[k], p[k], IF k = Len(d) THEN tg ELSE NoTag, G)

LEMMA LaidWider ==
    ASSUME NEW G, NEW H, G \subseteq H, NEW d, NEW items, Laid(d, items, G)
    PROVE  Laid(d, items, H)
<1>1. ASSUME NEW n \in 1 .. Len(items) PROVE Item(d, From(items, n - 1), items[n], H)
  <2> DEFINE it == items[n]
             from == From(items, n - 1)
  <2>1. Item(d, from, it, G)  BY DEF Laid
  <2> HIDE DEF it, from
  <2>2. PICK c \in Bytes :
         /\ it.tag \in Tags /\ Writable(Len(c))
         /\ Shows(d, from, Whole(it.tag, c))
         /\ it.end = from + Len(Whole(it.tag, c))
         /\ Decodable(it.tag.nr, c) /\ it.val = Decode(it.tag.nr, c)
         /\ it.tag.typ = Constructed => <<c, it.items>> \in G
    BY <2>1 DEF Item
  <2>3. it.tag.typ = Constructed => <<c, it.items>> \in H  BY <2>2
  <2> QED BY <2>2, <2>3, Zenon DEF Item, it, from
<1> QED BY <1>1 DEF Laid

LEMMA FilledWider ==
    ASSUME NEW G, NEW H, G \subseteq H, NEW b, NEW m, NEW t, Filled(b, m, t, G)
    PROVE  Filled(b, m, t, H)
<1>1. Laid(b, m.items, G)  BY DEF Filled
<1>2. Laid(b, m.items, H)  BY <1>1, LaidWider
<1> QED BY <1>2 DEF Filled

\* One more item in the nth level, which is then the innermost.
Topped(e, m, f, o, n, H) ==
    /\ Len(f) = n /\ \A k \in 1 .. n - 1 : f[k] = e[k]
    /\ Len(o) = n /\ \A k \in 1 .. n - 1 : o[k] = m[k]
    /\ o[n].tag = m[n].tag /\ Filled(f[n], o[n], NoTag, H)

LEMMA StackTopped ==
    ASSUME NEW G, NEW H, G \subseteq H, NEW I, NEW J, NEW e, NEW m,
           Stacked(e, m, I, G), NEW n \in 1 .. Len(e),
           NEW f \in Seq(Bytes), NEW o \in Seq(Mades(J)), Topped(e, m, f, o, n, H)
    PROVE  Stacked(f, o, J, H)
<1>0. /\ Len(f) = n /\ \A k \in 1 .. n - 1 : f[k] = e[k]
      /\ Len(o) = n /\ \A k \in 1 .. n - 1 : o[k] = m[k]
      /\ o[n].tag = m[n].tag /\ Filled(f[n], o[n], NoTag, H)
  BY DEF Topped
<1>1. /\ e \in Seq(Bytes) /\ m \in Seq(Mades(I)) /\ Len(m) = Len(e) /\ Len(e) >= 1
      /\ \A k \in 1 .. Len(e) : Filled(e[k], m[k], Above(m, k), G)
      /\ \A k \in 2 .. Len(e) : m[k].tag # NoTag
  BY DEF Stacked
<1>2. Len(e) \in Nat /\ n \in Nat /\ n >= 1 /\ n <= Len(e)  BY <1>1, LenProperties
<1>3. ASSUME NEW k \in 1 .. n PROVE o[k].tag = m[k].tag
  <2>1. CASE k = n  BY <1>0, <2>1
  <2>2. CASE k # n
    <3>1. k \in 1 .. n - 1  BY <1>2, <2>2
    <3>2. o[k] = m[k]  BY <1>0, <3>1
    <3> QED BY <3>2
  <2> QED BY <2>1, <2>2
<1>4. ASSUME NEW k \in 1 .. n PROVE Filled(f[k], o[k], Above(o, k), H)
  <2>1. CASE k = n
    <3>1. Above(o, k) = NoTag  BY <1>0, <2>1 DEF Above
    <3> QED BY <1>0, <2>1, <3>1
  <2>2. CASE k # n
    <3>1. k \in 1 .. n - 1 /\ k + 1 \in 1 .. n /\ k \in 1 .. Len(e) /\ k # Len(m)
      BY <1>1, <1>2, <2>2
    <3>2. f[k] = e[k] /\ o[k] = m[k]  BY <1>0, <3>1
    <3>3. Above(o, k) = o[k + 1].tag /\ Above(m, k) = m[k + 1].tag  BY <1>0, <2>2, <3>1 DEF Above
    <3>4. Above(o, k) = Above(m, k)  BY <1>3, <3>1, <3>3
    <3>5. Filled(e[k], m[k], Above(m, k), G)  BY <1>1, <3>1
    <3>6. Filled(e[k], m[k], Above(m, k), H)  BY <3>5, FilledWider
    <3> QED BY <3>2, <3>4, <3>6
  <2> QED BY <2>1, <2>2
<1>5. ASSUME NEW k \in 2 .. n PROVE o[k].tag # NoTag
  <2>1. k \in 1 .. n /\ k \in 2 .. Len(e)  BY <1>2
  <2> QED BY <1>1, <1>3, <2>1
<1>6. Len(o) = Len(f) /\ Len(f) >= 1  BY <1>0, <1>2
<1> QED BY <1>0, <1>4, <1>5, <1>6 DEF Stacked

\* One more level.
Grown(e, m, t, f, o, G) ==
    /\ t # NoTag /\ Filled(f[Len(e)], Last(m), t, G)
    /\ Len(f) = Len(e) + 1 /\ f[Len(e) + 1] = <<>>
    /\ \A k \in 1 .. Len(e) - 1 : f[k] = e[k]
    /\ Len(o) = Len(m) + 1 /\ o[Len(m) + 1].tag = t
    /\ Filled(<<>>, o[Len(m) + 1], NoTag, G)
    /\ \A k \in 1 .. Len(m) : o[k] = m[k]

LEMMA StackGrown ==
    ASSUME NEW G, NEW I, NEW e, NEW m, Stacked(e, m, I, G), NEW t,
           NEW f \in Seq(Bytes), NEW o \in Seq(Mades(I)), Grown(e, m, t, f, o, G)
    PROVE  Stacked(f, o, I, G)
<1>0. /\ t # NoTag /\ Filled(f[Len(e)], Last(m), t, G)
      /\ Len(f) = Len(e) + 1 /\ f[Len(e) + 1] = <<>>
      /\ \A k \in 1 .. Len(e) - 1 : f[k] = e[k]
      /\ Len(o) = Len(m) + 1 /\ o[Len(m) + 1].tag = t
      /\ Filled(<<>>, o[Len(m) + 1], NoTag, G)
      /\ \A k \in 1 .. Len(m) : o[k] = m[k]
  BY DEF Grown
<1>1. /\ e \in Seq(Bytes) /\ m \in Seq(Mades(I)) /\ Len(m) = Len(e) /\ Len(e) >= 1
      /\ \A k \in 1 .. Len(e) : Filled(e[k], m[k], Above(m, k), G)
      /\ \A k \in 2 .. Len(e) : m[k].tag # NoTag
  BY DEF Stacked
<1> DEFINE n == Len(e)
<1>2. n \in Nat /\ n >= 1 /\ Len(e) = n /\ Len(m) = n  BY <1>1, LenProperties
<1>3. Len(f) = n + 1 /\ Len(o) = n + 1  BY <1>0, <1>2
<1>4. Last(m) = m[n]  BY <1>2 DEF Last
<1>5. /\ Filled(f[n], Last(m), t, G) /\ f[n + 1] = <<>> /\ \A k \in 1 .. n - 1 : f[k] = e[k]
      /\ Filled(<<>>, o[n + 1], NoTag, G) /\ o[n + 1].tag = t /\ t # NoTag
      /\ \A k \in 1 .. n : o[k] = m[k]
      /\ \A k \in 1 .. n : Filled(e[k], m[k], Above(m, k), G)
      /\ \A k \in 2 .. n : m[k].tag # NoTag
  BY <1>0, <1>1, <1>2
<1> HIDE DEF n
<1>6. ASSUME NEW k \in 1 .. n + 1 PROVE Filled(f[k], o[k], Above(o, k), G)
  <2>1. CASE k = n + 1
    <3>1. Above(o, k) = NoTag  BY <1>3, <2>1 DEF Above
    <3> QED BY <1>5, <2>1, <3>1
  <2>2. CASE k = n
    <3>1. k \in 1 .. n /\ k # n + 1  BY <1>2, <2>2
    <3>2. Above(o, k) = o[n + 1].tag  BY <1>3, <2>2, <3>1 DEF Above
    <3>3. o[k] = Last(m)  BY <1>4, <1>5, <2>2, <3>1
    <3>4. Above(o, k) = t /\ f[k] = f[n]  BY <1>5, <2>2, <3>2
    <3> QED BY <1>5, <3>3, <3>4
  <2>3. CASE k # n /\ k # n + 1
    <3>1. k \in 1 .. n - 1 /\ k \in 1 .. n /\ k + 1 \in 1 .. n
      BY <1>2, <2>3
    <3>2. f[k] = e[k] /\ o[k] = m[k] /\ o[k + 1] = m[k + 1]  BY <1>5, <3>1
    <3>3. Above(o, k) = o[k + 1].tag /\ Above(m, k) = m[k + 1].tag
      BY <1>2, <1>3, <2>3 DEF Above
    <3>4. Above(o, k) = Above(m, k)  BY <3>2, <3>3
    <3>5. Filled(e[k], m[k], Above(m, k), G)  BY <1>5, <3>1
    <3> QED BY <3>2, <3>4, <3>5
  <2> QED BY <2>1, <2>2, <2>3
<1>7. ASSUME NEW k \in 2 .. n + 1 PROVE o[k].tag # NoTag
  <2>1. CASE k = n + 1  BY <1>5, <2>1
  <2>2. CASE k # n + 1
    <3>1. k \in 1 .. n /\ k \in 2 .. n  BY <1>2, <2>2
    <3> QED BY <1>5, <3>1
  <2> QED BY <2>1, <2>2
<1>8. Len(o) = Len(f) /\ Len(f) >= 1 /\ Len(f) = n + 1  BY <1>2, <1>3
<1> QED BY <1>6, <1>7, <1>8 DEF Stacked

LEMMA MadesWider ==
    ASSUME NEW I, NEW J, I \subseteq J
    PROVE  Seq(Mades(I)) \subseteq Seq(Mades(J)) /\ Seq(I) \subseteq Seq(J)
<1>1. Seq(I) \subseteq Seq(J)  BY SeqMonotonic
<1>2. Mades(I) \subseteq Mades(J)  BY <1>1 DEF Mades
<1>3. Seq(Mades(I)) \subseteq Seq(Mades(J))  BY <1>2, SeqMonotonic
<1> QED BY <1>1, <1>3

LEMMA SoundMore ==
    ASSUME NEW I, NEW G, Sound(I, G), NEW c \in Bytes, NEW items \in Seq(I),
           Laid(c, items, G), Len(c) = From(items, Len(items))
    PROVE  Sound(I, G \cup {<<c, items>>})
<1> DEFINE H == G \cup {<<c, items>>}
<1>1. G \subseteq H  OBVIOUS
<1>2. H \in SUBSET (Bytes \X Seq(I))  BY DEF Sound
<1>3. ASSUME NEW p \in H PROVE Laid(p[1], p[2], H) /\ Len(p[1]) = From(p[2], Len(p[2]))
  <2>1. CASE p \in G
    <3>1. Laid(p[1], p[2], G) /\ Len(p[1]) = From(p[2], Len(p[2]))  BY <2>1 DEF Sound, Closed
    <3> HIDE DEF H
    <3> QED BY <1>1, <3>1, LaidWider
  <2>2. CASE p = <<c, items>>
    <3>1. p[1] = c /\ p[2] = items  BY <2>2
    <3> HIDE DEF H
    <3>2. Laid(c, items, H)  BY <1>1, LaidWider
    <3> QED BY <3>1, <3>2
  <2> QED BY <2>1, <2>2
<1> HIDE DEF H
<1>4. Closed(H)  BY <1>3 DEF Closed
<1>5. Sound(I, H)  BY <1>2, <1>4 DEF Sound
<1> QED BY <1>5 DEF H

LEMMA SoundWider ==
    ASSUME NEW I, NEW J, I \subseteq J, NEW G, Sound(I, G), Ends(J)
    PROVE  Sound(J, G)
<1>1. Seq(I) \subseteq Seq(J)  BY SeqMonotonic
<1>2. G \in SUBSET (Bytes \X Seq(J))  BY <1>1 DEF Sound
<1> QED BY <1>2 DEF Sound

LEMMA NotStanding ==
    ASSUME NEW I, NEW G, NEW tg
    PROVE  Standing(<<>>, <<>>, tg, I, G)
<1>1. <<>> \in Seq(Levels) /\ <<>> \in Seq(Places(I)) /\ Len(<<>>) = 0  OBVIOUS
<1> QED BY <1>1 DEF Standing

\* The bytes and the items of the Encoder agree, and so do the levels of the
\* Decoder and its place in the items.
Arranged ==
    \E I, G : Sound(I, G) /\ Stacked(enc, made, I, G) /\ Standing(dec, place, tag, I, G)

Inv ==
    /\ Arranged
    /\ dec = <<>> => place = <<>> /\ last = [op |-> "start"]
    /\ ReadsWritten
    /\ WholeItemsAreRead

LEMMA Started ==
    ASSUME NEW r, r = [op |-> "start"]
    PROVE  r.op # "peek" /\ r.op # "read" /\ r.op # "end" /\ r.op # "raised"
OBVIOUS

\* As long as nothing is decoded.
LEMMA Idling ==
    ASSUME Inv, Idle, UNCHANGED <<dec, tag, last, place>>,
           NEW I, NEW G, Sound(I, G), Stacked(enc', made', I, G)
    PROVE  Inv'
<1>1. /\ dec = <<>> /\ dec' = <<>> /\ place' = <<>>
      /\ last' = [op |-> "start"] /\ tag' = tag
  BY DEF Inv, Idle
<1>2. Standing(dec', place', tag', I, G)  BY <1>1, NotStanding
<1>3. Arranged'  BY <1>2 DEF Arranged
<1>4. ReadsWritten'
  <2>1. last'.op # "peek" /\ last'.op # "read"  BY <1>1, Started
  <2> QED BY <2>1 DEF ReadsWritten
<1>5. WholeItemsAreRead'
  <2>1. ~NextWhole'  BY <1>1 DEF NextWhole
  <2> QED BY <2>1 DEF WholeItemsAreRead
<1> QED BY <1>1, <1>3, <1>4, <1>5 DEF Inv

LEMMA InitArranged == Init => Inv
<1> SUFFICES ASSUME Init PROVE Inv  OBVIOUS
<1>1. /\ enc = <<<<>>>> /\ made = <<[tag |-> NoTag, items |-> <<>>]>>
      /\ dec = <<>> /\ place = <<>> /\ last = [op |-> "start"]
  BY DEF Init
<1> DEFINE m == [tag |-> NoTag, items |-> <<>>]
<1>2. Sound({}, {})
  <2>1. Ends({})  BY DEF Ends
  <2>2. Closed({})  BY DEF Closed
  <2> QED BY <2>1, <2>2 DEF Sound
<1>3. Filled(<<>>, m, NoTag, {})
  <2>1. m.items = <<>> /\ Len(<<>>) = 0  OBVIOUS
  <2> HIDE DEF m
  <2>2. Laid(<<>>, m.items, {}) /\ Lengthy(<<>>, m.items)  BY <2>1 DEF Laid, Lengthy
  <2>3. From(m.items, 0) = 0  BY DEF From
  <2> QED BY <2>1, <2>2, <2>3 DEF Filled
<1>4. m \in Mades({})  BY DEF Mades
<1> HIDE DEF m
<1>5. Stacked(<<<<>>>>, <<m>>, {}, {})
  <2> DEFINE e == <<<<>>>>
             o == <<m>>
  <2>1. e \in Seq(Bytes) /\ Len(e) = 1 /\ e[1] = <<>>
    <3>1. <<>> \in Bytes  BY DEF Bytes
    <3> QED BY <3>1
  <2>2. o \in Seq(Mades({})) /\ Len(o) = 1 /\ o[1] = m  BY <1>4
  <2> HIDE DEF e, o
  <2>3. Above(o, 1) = NoTag  BY <2>2 DEF Above
  <2>4. \A k \in 1 .. 1 : Filled(e[k], o[k], Above(o, k), {})  BY <1>3, <2>1, <2>2, <2>3
  <2>5. Stacked(e, o, {}, {})  BY <2>1, <2>2, <2>4 DEF Stacked
  <2> QED BY <2>5 DEF e, o
<1>6. Standing(dec, place, tag, {}, {})  BY <1>1, NotStanding
<1>7. Arranged
  <2>1. Stacked(enc, made, {}, {})  BY <1>1, <1>5 DEF m
  <2> QED BY <1>2, <1>6, <2>1 DEF Arranged
<1>8. ReadsWritten
  <2>1. last.op # "peek" /\ last.op # "read"  BY <1>1, Started
  <2> QED BY <2>1 DEF ReadsWritten
<1>9. WholeItemsAreRead
  <2>1. ~NextWhole  BY <1>1 DEF NextWhole
  <2> QED BY <2>1 DEF WholeItemsAreRead
<1> QED BY <1>1, <1>7, <1>8, <1>9 DEF Inv

\* The innermost level.
LEMMA Innermost ==
    ASSUME NEW e, NEW m, NEW I, NEW G, Stacked(e, m, I, G)
    PROVE  /\ Len(e) \in Nat /\ Len(e) >= 1 /\ Len(m) = Len(e)
           /\ Last(e) \in Bytes /\ Last(e) = e[Len(e)]
           /\ Last(m) \in Mades(I) /\ Last(m) = m[Len(m)]
           /\ Filled(Last(e), Last(m), NoTag, G)
<1>1. /\ e \in Seq(Bytes) /\ m \in Seq(Mades(I)) /\ Len(m) = Len(e) /\ Len(e) >= 1
      /\ \A k \in 1 .. Len(e) : Filled(e[k], m[k], Above(m, k), G)
  BY DEF Stacked
<1>2. Last(e) \in Bytes /\ Last(e) = e[Len(e)] /\ Len(e) \in Nat  BY <1>1, FrontLast
<1>3. Last(m) \in Mades(I) /\ Last(m) = m[Len(m)]
  <2>1. Len(m) >= 1  BY <1>1
  <2> QED BY <1>1, <2>1, FrontLast
<1>4. Len(e) \in 1 .. Len(e)  BY <1>1, <1>2
<1>5. Above(m, Len(e)) = NoTag  BY <1>1 DEF Above
<1>6. Filled(e[Len(e)], m[Len(m)], NoTag, G)  BY <1>1, <1>4, <1>5
<1> QED BY <1>1, <1>2, <1>3, <1>6

\* What the top of a stack becomes when an item is added.
LEMMA TopReplaced ==
    ASSUME NEW I, NEW G, NEW J, NEW H, I \subseteq J, G \subseteq H,
           NEW e, NEW m, Stacked(e, m, I, G),
           NEW d \in Bytes, NEW o \in Mades(J), o.tag = Last(m).tag, Filled(d, o, NoTag, H)
    PROVE  /\ Stacked(Append(Front(e), d), Append(Front(m), o), J, H)
           /\ Last(Append(Front(e), d)) = d
<1>1. /\ e \in Seq(Bytes) /\ m \in Seq(Mades(I)) /\ Len(m) = Len(e) /\ Len(e) >= 1
      /\ Len(e) \in Nat /\ Last(m) = m[Len(m)]
  BY Innermost DEF Stacked
<1> DEFINE f == Append(Front(e), d)
           r == Append(Front(m), o)
<1>2. /\ f \in Seq(Bytes) /\ Len(f) = Len(e) /\ f[Len(e)] = d /\ Last(f) = d
      /\ \A j \in 1 .. Len(e) - 1 : f[j] = e[j]
  BY <1>1, LastReplaced
<1>3. m \in Seq(Mades(J))  BY <1>1, MadesWider
<1>4. /\ r \in Seq(Mades(J)) /\ Len(r) = Len(m) /\ r[Len(m)] = o
      /\ \A j \in 1 .. Len(m) - 1 : r[j] = m[j]
  <2>1. Len(m) >= 1  BY <1>1
  <2> QED BY <1>3, <2>1, LastReplaced
<1> HIDE DEF f, r
<1>5. PICK n \in 1 .. Len(e) : n = Len(e)  BY <1>1
<1>6. /\ Len(f) = n /\ Len(r) = n /\ f[n] = d /\ r[n] = o /\ m[n] = Last(m)
      /\ \A j \in 1 .. n - 1 : f[j] = e[j]
      /\ \A j \in 1 .. n - 1 : r[j] = m[j]
  BY <1>1, <1>2, <1>4, <1>5
<1>7. Topped(e, m, f, r, n, H)  BY <1>6 DEF Topped
<1>8. Stacked(f, r, J, H)  BY <1>2, <1>4, <1>7, StackTopped
<1> QED BY <1>2, <1>8 DEF f, r

LEMMA WriteStep ==
    ASSUME Inv, NEW c \in Calls, Write(c)
    PROVE  Inv'
<1>1. PICK I, G : Sound(I, G) /\ Stacked(enc, made, I, G)  BY DEF Inv, Arranged
<1>2. PICK nr, s, b, m : nr = WriteNr(c) /\ s = EncodeValue(nr, c) /\ b = Last(enc) /\ m = Last(made)
  OBVIOUS
<1>3. PICK t : t = [nr |-> nr, typ |-> Primitive, cls |-> c.cls]  OBVIOUS
<1>4. PICK d : d = b \o (TagOf(t) \o LengthBytes(Len(s)) \o s)  OBVIOUS
<1>5. PICK it : it = [tag |-> t, val |-> Promised(nr, c), items |-> <<>>, end |-> Len(d)]  OBVIOUS
<1>6. t \in Tags /\ t.nr = nr /\ t.typ = Primitive /\ t.typ # Constructed
  BY <1>2, <1>3, WriteFits DEF Tags, Primitive, Constructed
<1>7. TagOf(t) = TagBytes(nr, Primitive, c.cls)  BY <1>3 DEF TagOf
<1>8. /\ Idle /\ Writable(Len(s)) /\ enc' = EmitTo(enc, TagOf(t) \o LengthBytes(Len(s)) \o s)
      /\ made' = Made(made, [tag |-> t, val |-> Promised(nr, c), items |-> <<>>,
                             end |-> Len(Last(enc'))])
      /\ UNCHANGED <<dec, tag, last, place>>
  BY <1>2, <1>3, <1>7 DEF Write, Called
<1>9. enc' = Append(Front(enc), d)  BY <1>2, <1>4, <1>8 DEF EmitTo
<1>10. /\ b \in Bytes /\ m \in Mades(I) /\ Filled(b, m, NoTag, G)  BY <1>1, <1>2, Innermost
<1>11. s \in Bytes /\ Decodable(nr, s) /\ Decode(nr, s) = Promised(nr, c)
  BY <1>2, ValuesComeBack DEF Bytes
<1>12. /\ it.tag = t /\ it.val = Decode(nr, s) /\ it.end = Len(d)
  BY <1>5, <1>11
<1>13. Ends(I)  BY <1>1 DEF Sound
<1>14. PICK o : o = [m EXCEPT !.items = Append(@, it)]  OBVIOUS
<1>15. Writes(b, m, s, it, d, o)
  BY <1>4, <1>6, <1>8, <1>11, <1>12, <1>14 DEF Writes
<1>16. /\ Ends(I \cup {it}) /\ o \in Mades(I \cup {it}) /\ o.tag = m.tag
       /\ d \in Bytes /\ Filled(d, o, NoTag, G)
  BY <1>10, <1>11, <1>13, <1>15, WriteFills, Zenon
<1>17. o.tag = Last(made).tag  BY <1>2, <1>16
<1>18. I \subseteq I \cup {it} /\ G \subseteq G  OBVIOUS
<1>19. /\ Stacked(Append(Front(enc), d), Append(Front(made), o), I \cup {it}, G)
       /\ Last(Append(Front(enc), d)) = d
  BY <1>1, <1>16, <1>17, <1>18, TopReplaced
<1>20. made' = Append(Front(made), o)
  <2>1. Last(enc') = d  BY <1>9, <1>19
  <2>2. made' = Made(made, it)  BY <1>5, <1>8, <2>1
  <2> QED BY <1>2, <1>14, <2>2 DEF Made
<1>21. Stacked(enc', made', I \cup {it}, G)  BY <1>9, <1>19, <1>20
<1>22. Sound(I \cup {it}, G)  BY <1>1, <1>16, <1>18, SoundWider
<1> QED BY <1>8, <1>21, <1>22, Idling

LEMMA EnterStep ==
    ASSUME Inv, NEW e \in Enters, Enter(e)
    PROVE  Inv'
<1>1. PICK I, G : Sound(I, G) /\ Stacked(enc, made, I, G)  BY DEF Inv, Arranged
<1>2. PICK t, b, m : /\ t = [nr |-> e.nr, typ |-> Constructed, cls |-> e.cls]
                     /\ b = Last(enc) /\ m = Last(made)
  OBVIOUS
<1>3. PICK d, l : d = b \o TagOf(t) /\ l = [tag |-> t, items |-> <<>>]  OBVIOUS
<1>4. t \in Tags /\ t.nr \notin Decoded /\ t # NoTag
  <2>1. e.nr \in Nat \ Decoded /\ e.cls \in Classes /\ NoTag \notin Tags  BY Asn1Constants
  <2> QED BY <1>2, <2>1 DEF Tags
<1>5. TagOf(t) = TagBytes(e.nr, Constructed, e.cls)  BY <1>2 DEF TagOf
<1>6. /\ Idle /\ enc' = Append(EmitTo(enc, TagOf(t)), <<>>) /\ made' = Append(made, l)
      /\ UNCHANGED <<dec, tag, last, place>>
  BY <1>2, <1>3, <1>5 DEF Enter, Called
<1>7. PICK g, f, o : g = Append(Front(enc), d) /\ f = Append(g, <<>>) /\ o = Append(made, l)
  OBVIOUS
<1>8. enc' = f /\ made' = o  BY <1>2, <1>3, <1>6, <1>7 DEF EmitTo
<1>9. b \in Bytes /\ m \in Mades(I) /\ Filled(b, m, NoTag, G) /\ Ends(I)
  BY <1>1, <1>2, Innermost DEF Sound
<1>10. d \in Bytes /\ Filled(d, m, t, G)  BY <1>3, <1>4, <1>9, EnterFills
<1>11. /\ enc \in Seq(Bytes) /\ made \in Seq(Mades(I)) /\ Len(made) = Len(enc)
       /\ Len(enc) >= 1 /\ Len(enc) \in Nat
  BY <1>1, Innermost DEF Stacked
<1>12. /\ g \in Seq(Bytes) /\ Len(g) = Len(enc) /\ g[Len(enc)] = d
       /\ \A k \in 1 .. Len(enc) - 1 : g[k] = enc[k]
  BY <1>7, <1>10, <1>11, LastReplaced
<1>13. /\ f \in Seq(Bytes) /\ Len(f) = Len(g) + 1 /\ f[Len(g) + 1] = <<>>
       /\ \A k \in 1 .. Len(g) : f[k] = g[k]
  <2>1. <<>> \in Bytes  BY DEF Bytes
  <2> QED BY <1>7, <1>12, <2>1, AppendProperties
<1>14. f[Len(enc)] = d /\ \A k \in 1 .. Len(enc) - 1 : f[k] = enc[k]
  <2>1. Len(enc) \in 1 .. Len(g)  BY <1>11, <1>12
  <2>2. \A k \in 1 .. Len(enc) - 1 : k \in 1 .. Len(g)  BY <1>11, <1>12
  <2> QED BY <1>12, <1>13, <2>1, <2>2
<1>15. l \in Mades(I) /\ l.tag = t /\ l.items = <<>>  BY <1>3, <1>4 DEF Mades
<1>16. Filled(<<>>, l, NoTag, G)
  <2>1. Len(<<>>) = 0  OBVIOUS
  <2>2. Laid(<<>>, l.items, G) /\ Lengthy(<<>>, l.items)  BY <1>15, <2>1 DEF Laid, Lengthy
  <2>3. From(l.items, 0) = 0  BY DEF From
  <2> QED BY <1>15, <2>1, <2>2, <2>3 DEF Filled
<1>17. /\ o \in Seq(Mades(I)) /\ Len(o) = Len(made) + 1 /\ o[Len(made) + 1] = l
       /\ \A k \in 1 .. Len(made) : o[k] = made[k]
  BY <1>7, <1>11, <1>15, AppendProperties
<1>18. Grown(enc, made, t, f, o, G)
  BY <1>2, <1>4, <1>10, <1>12, <1>13, <1>14, <1>15, <1>16, <1>17 DEF Grown
<1>19. Stacked(enc', made', I, G)  BY <1>1, <1>8, <1>13, <1>17, <1>18, StackGrown
<1> QED BY <1>1, <1>6, <1>19, Idling

LEMMA LeaveStep ==
    ASSUME Inv, Leave
    PROVE  Inv'
<1>1. PICK I, G : Sound(I, G) /\ Stacked(enc, made, I, G)  BY DEF Inv, Arranged
<1>2. PICK c, l, p, q : /\ c = Last(enc) /\ l = Last(made)
                        /\ p = Front(enc) /\ q = Front(made)
  OBVIOUS
<1>3. PICK b, m, t : b = Last(p) /\ m = Last(q) /\ t = l.tag  OBVIOUS
<1>4. PICK d : d = b \o (LengthBytes(Len(c)) \o c)  OBVIOUS
<1>5. PICK it : it = [tag |-> t, val |-> Value("bytes", c), items |-> l.items, end |-> Len(d)]
  OBVIOUS
<1>6. PICK o : o = [m EXCEPT !.items = Append(@, it)]  OBVIOUS
<1>7. PICK f, r : f = Append(Front(p), d) /\ r = Append(Front(q), o)  OBVIOUS
<1>8. /\ Idle /\ Len(enc) > 1 /\ Writable(Len(c))
      /\ enc' = EmitTo(p, LengthBytes(Len(c)) \o c)
      /\ made' = Made(q, [tag |-> t, val |-> Value("bytes", c), items |-> l.items,
                          end |-> Len(Last(enc'))])
      /\ UNCHANGED <<dec, tag, last, place>>
  BY <1>2, <1>3 DEF Leave
<1>9. enc' = f  BY <1>3, <1>4, <1>7, <1>8 DEF EmitTo
<1>10. /\ enc \in Seq(Bytes) /\ made \in Seq(Mades(I)) /\ Len(made) = Len(enc)
       /\ Len(enc) \in Nat /\ c \in Bytes /\ l \in Mades(I)
       /\ c = enc[Len(enc)] /\ l = made[Len(made)] /\ Filled(c, l, NoTag, G)
  BY <1>1, <1>2, Innermost DEF Stacked
<1>11. PICK n \in Nat : /\ Len(enc) = n + 1 /\ Len(made) = n + 1 /\ n >= 1
                        /\ Len(enc) \in Nat /\ Len(made) \in Nat
  <2>1. \A k \in Nat : k > 1 => \E j \in Nat : k = j + 1 /\ j >= 1
    <3>1. \A k \in Nat : k > 1 => k - 1 \in Nat /\ k = (k - 1) + 1 /\ k - 1 >= 1
      OBVIOUS
    <3> QED BY <3>1, Zenon
  <2>2. Len(enc) \in Nat /\ Len(enc) > 1 /\ Len(made) = Len(enc)  BY <1>8, <1>10, Zenon
  <2>3. PICK n \in Nat : Len(enc) = n + 1 /\ n >= 1  BY <2>1, <2>2, Zenon
  <2> QED BY <2>2, <2>3
<1>12. p \in Seq(Bytes) /\ Len(p) = n /\ \A k \in 1 .. n : p[k] = enc[k]
  <2>1. Len(enc) >= 1  BY <1>11
  <2>2. enc \in Seq(Bytes) /\ p = Front(enc)  BY <1>2, <1>10
  <2>3. /\ Front(enc) \in Seq(Bytes) /\ Len(Front(enc)) = Len(enc) - 1
        /\ \A j \in 1 .. Len(enc) - 1 : Front(enc)[j] = enc[j]
    BY <2>1, <2>2, FrontLast
  <2>4. Len(enc) - 1 = n  BY <1>11
  <2> QED BY <2>2, <2>3, <2>4
<1>13. q \in Seq(Mades(I)) /\ Len(q) = n /\ \A k \in 1 .. n : q[k] = made[k]
  <2>1. Len(made) >= 1 /\ Len(made) - 1 = n /\ n \in Nat  BY <1>11
  <2>2. made \in Seq(Mades(I)) /\ q = Front(made)  BY <1>2, <1>10
  <2>3. /\ Front(made) \in Seq(Mades(I)) /\ Len(Front(made)) = Len(made) - 1
        /\ \A j \in 1 .. Len(made) - 1 : Front(made)[j] = made[j]
    BY <2>1, <2>2, FrontLast
  <2> QED BY <2>1, <2>2, <2>3
<1>14. b = enc[n] /\ b \in Bytes
  <2>1. Len(p) >= 1 /\ n \in 1 .. n  BY <1>11, <1>12
  <2>2. p \in Seq(Bytes) /\ Len(p) = n  BY <1>12
  <2>3. Last(p) = p[Len(p)] /\ Last(p) \in Bytes  BY <2>1, <2>2, FrontLast
  <2>4. p[n] = enc[n]  BY <1>12, <2>1
  <2>5. b = Last(p)  BY <1>3
  <2> QED BY <2>2, <2>3, <2>4, <2>5
<1>15. m = made[n] /\ m \in Mades(I)
  <2>1. Len(q) >= 1 /\ n \in 1 .. n  BY <1>11, <1>13
  <2>2. q \in Seq(Mades(I)) /\ Len(q) = n  BY <1>13
  <2>3. Last(q) = q[Len(q)] /\ Last(q) \in Mades(I)  BY <2>1, <2>2, FrontLast
  <2>4. q[n] = made[n]  BY <1>13, <2>1
  <2>5. m = Last(q)  BY <1>3
  <2> QED BY <2>2, <2>3, <2>4, <2>5
<1>16. Filled(b, m, t, G) /\ t # NoTag
  <2>1. Above(made, n) = made[n + 1].tag  BY <1>11 DEF Above
  <2>2. Above(made, n) = t
    <3>1. l = made[Len(made)] /\ Len(made) = n + 1  BY <1>10, <1>11
    <3> QED BY <1>3, <2>1, <3>1
  <2>3. Filled(enc[n], made[n], Above(made, n), G)  BY <1>1, <1>11 DEF Stacked
  <2>4. n + 1 \in 2 .. Len(enc)  BY <1>11
  <2>5. made[n + 1].tag # NoTag  BY <1>1, <2>4 DEF Stacked
  <2> QED BY <1>14, <1>15, <2>1, <2>2, <2>3, <2>5
<1>17. PICK H : H = G \cup {<<c, l.items>>}  OBVIOUS
<1>18. Sound(I, H)
  <2>1. l.items \in Seq(I)  BY <1>10 DEF Mades
  <2>2. Laid(c, l.items, G) /\ Len(c) = From(l.items, Len(l.items))  BY <1>10 DEF Filled
  <2> QED BY <1>1, <1>10, <1>17, <2>1, <2>2, SoundMore
<1>19. Filled(b, m, t, H)
  <2>1. G \subseteq H  BY <1>17
  <2> QED BY <1>16, <2>1, FilledWider
<1>20. Leaves(b, m, t, c, it, d, o, H)
  <2>1. it.tag = t /\ it.val = Value("bytes", c) /\ it.items = l.items /\ it.end = Len(d)
    BY <1>5
  <2>2. <<c, it.items>> \in H  BY <1>17, <2>1
  <2> QED BY <1>4, <1>6, <1>8, <1>16, <2>1, <2>2 DEF Leaves
<1>21. /\ Ends(I \cup {it}) /\ o \in Mades(I \cup {it}) /\ o.tag = m.tag
       /\ d \in Bytes /\ Filled(d, o, NoTag, H)
  <2>1. Ends(I)  BY <1>1 DEF Sound
  <2>2. c \in Bytes  BY <1>10
  <2>3. b \in Bytes /\ m \in Mades(I)  BY <1>14, <1>15
  <2> QED BY <1>19, <1>20, <2>1, <2>2, <2>3, LeaveFills, Zenon
<1>22. /\ f \in Seq(Bytes) /\ Len(f) = n /\ f[n] = d /\ Last(f) = d
       /\ \A k \in 1 .. n - 1 : f[k] = p[k]
  <2>1. Len(p) >= 1  BY <1>11, <1>12
  <2>2. p \in Seq(Bytes) /\ Len(p) = n /\ d \in Bytes  BY <1>12, <1>21
  <2> DEFINE x == Append(Front(p), d)
  <2>3. /\ x \in Seq(Bytes) /\ Len(x) = Len(p) /\ x[Len(p)] = d /\ Last(x) = d
        /\ \A k \in 1 .. Len(p) - 1 : x[k] = p[k]
    BY <2>1, <2>2, LastReplaced
  <2>4. f = x  BY <1>7
  <2> HIDE DEF x
  <2> QED BY <2>2, <2>3, <2>4
<1>23. /\ r \in Seq(Mades(I \cup {it})) /\ Len(r) = n /\ r[n] = o
       /\ \A k \in 1 .. n - 1 : r[k] = q[k]
  <2>1. Len(q) >= 1  BY <1>11, <1>13
  <2>2. I \subseteq I \cup {it}  OBVIOUS
  <2>3. q \in Seq(Mades(I \cup {it}))  BY <1>13, <2>2, MadesWider
  <2>4. Len(q) = n /\ o \in Mades(I \cup {it})  BY <1>13, <1>21
  <2> DEFINE x == Append(Front(q), o)
             J == I \cup {it}
  <2>5. /\ x \in Seq(Mades(J)) /\ Len(x) = Len(q) /\ x[Len(q)] = o
        /\ \A k \in 1 .. Len(q) - 1 : x[k] = q[k]
    <3> HIDE DEF J
    <3>1. q \in Seq(Mades(J)) /\ o \in Mades(J)  BY <2>3, <2>4 DEF J
    <3> QED BY <2>1, <3>1, LastReplaced
  <2>6. r = x  BY <1>7
  <2> HIDE DEF x
  <2> QED BY <2>4, <2>5, <2>6
<1>24. made' = r
  <2>1. Last(enc') = d  BY <1>9, <1>22
  <2>2. made' = Made(q, it)  BY <1>5, <1>8, <2>1
  <2>3. Last(q) = m  BY <1>3
  <2>4. Made(q, it) = Append(Front(q), o)  BY <1>6, <2>3 DEF Made
  <2> QED BY <1>7, <2>2, <2>4
<1>25. Topped(enc, made, f, r, n, H)
  <2>1. \A k \in 1 .. n - 1 : k \in 1 .. n  BY <1>11
  <2>2. \A k \in 1 .. n - 1 : f[k] = enc[k] /\ r[k] = made[k]
    BY <1>12, <1>13, <1>22, <1>23, <2>1
  <2> QED BY <1>15, <1>21, <1>22, <1>23, <2>2 DEF Topped
<1>26. Stacked(f, r, I \cup {it}, H)
  <2>1. G \subseteq H  BY <1>17
  <2> QED BY <1>1, <1>11, <1>22, <1>23, <1>25, <2>1, StackTopped
<1>27. Stacked(enc', made', I \cup {it}, H)  BY <1>9, <1>24, <1>26
<1>28. Sound(I \cup {it}, H)
  <2>1. I \subseteq I \cup {it}  OBVIOUS
  <2> QED BY <1>18, <1>21, <2>1, SoundWider
<1> QED BY <1>8, <1>27, <1>28, Idling

\* The Decoder's level.
LEMMA Position ==
    ASSUME NEW d, NEW p, NEW tg, NEW I, NEW G, Standing(d, p, tg, I, G), d # <<>>
    PROVE  /\ Len(d) \in Nat /\ Len(d) >= 1 /\ Len(p) = Len(d)
           /\ Last(d) \in Levels /\ Last(d) = d[Len(d)]
           /\ Last(p) \in Places(I) /\ Last(p) = p[Len(p)]
           /\ Placed(Last(d), Last(p), tg, G)
<1>1. /\ d \in Seq(Levels) /\ p \in Seq(Places(I)) /\ Len(p) = Len(d)
      /\ \A k \in 1 .. Len(d) : Placed(d[k], p[k], IF k = Len(d) THEN tg ELSE NoTag, G)
  BY DEF Standing
<1>2. Len(d) \in Nat /\ Len(d) >= 1
  <2>1. Len(d) \in Nat /\ Len(d) # 0  BY <1>1, LenProperties, EmptySeq
  <2> QED BY <2>1
<1>3. Last(d) \in Levels /\ Last(d) = d[Len(d)]  BY <1>1, <1>2, FrontLast
<1>4. Last(p) \in Places(I) /\ Last(p) = p[Len(p)]
  <2>1. Len(p) >= 1  BY <1>1, <1>2
  <2> QED BY <1>1, <2>1, FrontLast
<1>5. Len(d) \in 1 .. Len(d)  BY <1>2
<1>6. Placed(d[Len(d)], p[Len(d)], tg, G)  BY <1>1, <1>5
<1>7. Placed(Last(d), Last(p), tg, G)  BY <1>1, <1>3, <1>4, <1>6
<1> QED BY <1>1, <1>2, <1>3, <1>4, <1>7

LEMMA LastChanged ==
    ASSUME NEW S, NEW s \in Seq(S), Len(s) >= 1, NEW x \in S
    PROVE  LET r == [s EXCEPT ![Len(s)] = x]
           IN  /\ r \in Seq(S) /\ Len(r) = Len(s) /\ Last(r) = x
               /\ \A k \in 1 .. Len(s) - 1 : r[k] = s[k]
<1> DEFINE r == [s EXCEPT ![Len(s)] = x]
<1>1. PICK n \in Nat : n = Len(s) /\ n >= 1  BY LenProperties
<1>2. n \in 1 .. Len(s)  BY <1>1
<1>3. /\ r \in Seq(S) /\ Len(r) = Len(s)
      /\ \A k \in 1 .. Len(s) : r[k] = IF k = n THEN x ELSE s[k]
  <2>1. r = [s EXCEPT ![n] = x]  BY <1>1
  <2> HIDE DEF r
  <2> QED BY <1>2, <2>1, ExceptSeq
<1> HIDE DEF r
<1>4. Last(r) = x  BY <1>1, <1>2, <1>3 DEF Last
<1>5. \A k \in 1 .. Len(s) - 1 : r[k] = s[k]
  <2>1. \A k \in 1 .. n - 1 : k \in 1 .. n /\ k # n  BY <1>1
  <2> QED BY <1>1, <1>3, <2>1
<1> QED BY <1>3, <1>4, <1>5 DEF r

\* A step in the level.
Shifted(d, p, e, q, tg, G) ==
    /\ Len(e) = Len(d) /\ \A k \in 1 .. Len(d) - 1 : e[k] = d[k]
    /\ Len(q) = Len(p) /\ \A k \in 1 .. Len(p) - 1 : q[k] = p[k]
    /\ Placed(Last(e), Last(q), tg, G)

LEMMA StandingShifted ==
    ASSUME NEW I, NEW G, NEW d, NEW p, NEW tg, Standing(d, p, tg, I, G), d # <<>>,
           NEW e \in Seq(Levels), NEW q \in Seq(Places(I)), NEW ug, Shifted(d, p, e, q, ug, G)
    PROVE  Standing(e, q, ug, I, G) /\ e # <<>>
<1>1. /\ d \in Seq(Levels) /\ p \in Seq(Places(I)) /\ Len(p) = Len(d)
      /\ \A k \in 1 .. Len(d) : Placed(d[k], p[k], IF k = Len(d) THEN tg ELSE NoTag, G)
  BY DEF Standing
<1>2. PICK n \in Nat : n = Len(d) /\ n >= 1  BY Position
<1>3. /\ Len(e) = n /\ \A k \in 1 .. n - 1 : e[k] = d[k]
      /\ Len(q) = n /\ \A k \in 1 .. n - 1 : q[k] = p[k]
      /\ Placed(e[n], q[n], ug, G)
  BY <1>1, <1>2 DEF Shifted, Last
<1>4. ASSUME NEW k \in 1 .. n PROVE Placed(e[k], q[k], IF k = n THEN ug ELSE NoTag, G)
  <2>1. CASE k = n  BY <1>3, <2>1
  <2>2. CASE k # n
    <3>1. k \in 1 .. n - 1  BY <1>2, <2>2
    <3>2. e[k] = d[k] /\ q[k] = p[k]  BY <1>3, <3>1
    <3>3. Placed(d[k], p[k], IF k = n THEN tg ELSE NoTag, G)  BY <1>1, <1>2
    <3>4. Placed(d[k], p[k], NoTag, G)  BY <2>2, <3>3
    <3> QED BY <2>2, <3>2, <3>4
  <2> QED BY <2>1, <2>2
<1>5. Len(q) = Len(e)  BY <1>3
<1>6. Standing(e, q, ug, I, G)  BY <1>3, <1>4, <1>5 DEF Standing
<1>7. e # <<>>
  <2>1. Len(<<>>) = 0 /\ n # 0  BY <1>2
  <2> QED BY <1>3, <2>1
<1> QED BY <1>6, <1>7

\* One level down, at its beginning.
LEMMA StandingDeeper ==
    ASSUME NEW I, NEW G, NEW d, NEW p, Standing(d, p, NoTag, I, G),
           NEW l \in Levels, NEW h \in Places(I), Placed(l, h, NoTag, G)
    PROVE  Standing(Append(d, l), Append(p, h), NoTag, I, G) /\ Append(d, l) # <<>>
<1> DEFINE e == Append(d, l)
           q == Append(p, h)
<1>1. /\ d \in Seq(Levels) /\ p \in Seq(Places(I)) /\ Len(p) = Len(d)
      /\ \A k \in 1 .. Len(d) : Placed(d[k], p[k], IF k = Len(d) THEN NoTag ELSE NoTag, G)
  BY DEF Standing
<1>2. PICK n \in Nat : n = Len(d)  BY <1>1, LenProperties
<1>3. /\ e \in Seq(Levels) /\ Len(e) = Len(d) + 1 /\ e[Len(d) + 1] = l
      /\ \A k \in 1 .. Len(d) : e[k] = d[k]
  BY <1>1, AppendProperties
<1>4. /\ q \in Seq(Places(I)) /\ Len(q) = Len(p) + 1 /\ q[Len(p) + 1] = h
      /\ \A k \in 1 .. Len(p) : q[k] = p[k]
  BY <1>1, AppendProperties
<1> HIDE DEF e, q
<1>5. /\ Len(e) = n + 1 /\ Len(q) = n + 1 /\ e[n + 1] = l /\ q[n + 1] = h
      /\ \A k \in 1 .. n : e[k] = d[k]
      /\ \A k \in 1 .. n : q[k] = p[k]
      /\ \A k \in 1 .. n : Placed(d[k], p[k], NoTag, G)
  BY <1>1, <1>2, <1>3, <1>4
<1>6. ASSUME NEW k \in 1 .. n + 1
      PROVE  Placed(e[k], q[k], IF k = Len(e) THEN NoTag ELSE NoTag, G)
  <2>1. Placed(e[k], q[k], NoTag, G)
    <3>1. CASE k = n + 1  BY <1>5, <3>1
    <3>2. CASE k # n + 1
      <4>1. k \in 1 .. n  BY <1>2, <3>2
      <4> QED BY <1>5, <4>1
    <3> QED BY <3>1, <3>2
  <2> QED BY <2>1
<1>7. Standing(e, q, NoTag, I, G)  BY <1>3, <1>4, <1>5, <1>6 DEF Standing
<1>8. e # <<>>
  <2>1. Len(<<>>) = 0 /\ n + 1 # 0  BY <1>2
  <2> QED BY <1>5, <2>1
<1> QED BY <1>7, <1>8 DEF e, q

\* Back up, whatever was read or peeked below.
LEMMA StandingHigher ==
    ASSUME NEW I, NEW G, NEW d, NEW p, NEW tg, Standing(d, p, tg, I, G), Len(d) > 1
    PROVE  Standing(Front(d), Front(p), NoTag, I, G) /\ Front(d) # <<>>
<1>1. /\ d \in Seq(Levels) /\ p \in Seq(Places(I)) /\ Len(p) = Len(d)
      /\ \A k \in 1 .. Len(d) : Placed(d[k], p[k], IF k = Len(d) THEN tg ELSE NoTag, G)
  BY DEF Standing
<1>2. PICK n \in Nat : Len(d) = n + 1 /\ Len(p) = n + 1 /\ n >= 1
  <2>1. \A k \in Nat : k > 1 => k - 1 \in Nat /\ k = (k - 1) + 1 /\ k - 1 >= 1  OBVIOUS
  <2>2. Len(d) \in Nat  BY <1>1, LenProperties
  <2>3. PICK n \in Nat : Len(d) = n + 1 /\ n >= 1  BY <2>1, <2>2, Zenon
  <2> QED BY <1>1, <2>3
<1>3. Len(d) >= 1 /\ Len(p) >= 1 /\ Len(d) - 1 = n /\ Len(p) - 1 = n  BY <1>2
<1>4. Front(d) \in Seq(Levels) /\ Len(Front(d)) = n /\ \A k \in 1 .. n : Front(d)[k] = d[k]
  <2>1. /\ Front(d) \in Seq(Levels) /\ Len(Front(d)) = Len(d) - 1
        /\ \A k \in 1 .. Len(d) - 1 : Front(d)[k] = d[k]
    BY <1>1, <1>3, FrontLast
  <2> QED BY <1>3, <2>1
<1>5. Front(p) \in Seq(Places(I)) /\ Len(Front(p)) = n /\ \A k \in 1 .. n : Front(p)[k] = p[k]
  <2>1. /\ Front(p) \in Seq(Places(I)) /\ Len(Front(p)) = Len(p) - 1
        /\ \A k \in 1 .. Len(p) - 1 : Front(p)[k] = p[k]
    BY <1>1, <1>3, FrontLast
  <2> QED BY <1>3, <2>1
<1>6. ASSUME NEW k \in 1 .. n
      PROVE  Placed(Front(d)[k], Front(p)[k], IF k = n THEN NoTag ELSE NoTag, G)
  <2>1. k \in 1 .. Len(d) /\ k # Len(d)  BY <1>2
  <2>2. Placed(d[k], p[k], NoTag, G)  BY <1>1, <2>1
  <2> QED BY <1>4, <1>5, <2>2
<1>7. Standing(Front(d), Front(p), NoTag, I, G)  BY <1>4, <1>5, <1>6 DEF Standing
<1>8. Front(d) # <<>>
  <2>1. Len(<<>>) = 0 /\ n # 0  BY <1>2
  <2> QED BY <1>4, <2>1
<1> QED BY <1>7, <1>8

LEMMA StartStep ==
    ASSUME Inv, NEW cut \in 0 .. MaxCut, Start(cut)
    PROVE  Inv'
<1>1. PICK I, G : Sound(I, G) /\ Stacked(enc, made, I, G)  BY DEF Inv, Arranged
<1>2. PICK b, m : b = enc[1] /\ m = made[1]  OBVIOUS
<1>3. PICK k : k = Len(b) - cut  OBVIOUS
<1>4. PICK l, q : l = [at |-> 0, data |-> SubSeq(b, 1, k)] /\ q = [items |-> m.items, done |-> 0]
  OBVIOUS
<1>5. /\ Len(enc) = 1 /\ cut <= Len(b)
      /\ dec' = <<l>> /\ tag' = NoTag /\ place' = <<q>> /\ last' = [op |-> "start"]
      /\ enc' = enc /\ made' = made
  BY <1>2, <1>3, <1>4 DEF Start, Give
<1>6. /\ b \in Bytes /\ m \in Mades(I) /\ Filled(b, m, NoTag, G)
  <2>1. /\ Len(made) = Len(enc) /\ Last(enc) \in Bytes /\ Last(enc) = enc[Len(enc)]
        /\ Last(made) \in Mades(I) /\ Last(made) = made[Len(made)]
        /\ Filled(Last(enc), Last(made), NoTag, G)
    BY <1>1, Innermost
  <2>2. Last(enc) = b /\ Last(made) = m  BY <1>2, <1>5, <2>1
  <2> QED BY <2>1, <2>2
<1>7. m.items \in Seq(I) /\ Laid(b, m.items, G) /\ Len(b) = From(m.items, Len(m.items))
  BY <1>6 DEF Mades, Filled
<1>8. k \in 0 .. Len(b) /\ k <= Len(b) /\ k \in Nat
  <2>1. Len(b) \in Nat /\ cut \in Nat  BY <1>6, LenProperties DEF Bytes
  <2> QED BY <1>3, <1>5, <2>1
<1>9. /\ SubSeq(b, 1, k) \in Bytes /\ Len(SubSeq(b, 1, k)) = k
      /\ Laid(SubSeq(b, 1, k), m.items, G)
  <2>1. Ends(I)  BY <1>1 DEF Sound
  <2> QED BY <1>6, <1>7, <1>8, <2>1, LaidCut
<1>10. /\ l \in Levels /\ l.at = 0 /\ l.data = SubSeq(b, 1, k)
       /\ q \in Places(I) /\ q.items = m.items /\ q.done = 0
  BY <1>4, <1>7, <1>9 DEF Levels, Places, Bytes
<1>11. Placed(l, q, NoTag, G)
  <2>1. From(q.items, 0) = 0  BY DEF From
  <2>2. Len(q.items) \in Nat  BY <1>7, <1>10, LenProperties
  <2>3. q.done <= Len(q.items) /\ l.at <= Len(l.data)  BY <1>8, <1>9, <1>10, <2>2
  <2>4. Laid(l.data, q.items, G) /\ Len(l.data) <= From(q.items, Len(q.items))
    BY <1>7, <1>8, <1>9, <1>10
  <2>5. l.at = From(q.items, q.done)  BY <1>10, <2>1
  <2> QED BY <2>3, <2>4, <2>5 DEF Placed
<1>12. Standing(<<l>>, <<q>>, NoTag, I, G)
  <2> DEFINE e == <<l>>
             h == <<q>>
  <2>1. e \in Seq(Levels) /\ Len(e) = 1 /\ e[1] = l  BY <1>10
  <2>2. h \in Seq(Places(I)) /\ Len(h) = 1 /\ h[1] = q  BY <1>10
  <2> HIDE DEF e, h
  <2>3. \A n \in 1 .. 1 : Placed(e[n], h[n], IF n = 1 THEN NoTag ELSE NoTag, G)
    BY <1>11, <2>1, <2>2
  <2>4. Standing(e, h, NoTag, I, G)  BY <2>1, <2>2, <2>3 DEF Standing
  <2> QED BY <2>4 DEF e, h
<1>13. Arranged'  BY <1>1, <1>5, <1>12 DEF Arranged
<1>14. ReadsWritten'
  <2>1. last'.op # "peek" /\ last'.op # "read"  BY <1>5, Started
  <2> QED BY <2>1 DEF ReadsWritten
<1>15. WholeItemsAreRead'
  <2>1. last'.op # "end" /\ last'.op # "raised"  BY <1>5, Started
  <2> QED BY <2>1 DEF WholeItemsAreRead
<1>16. dec' # <<>>  BY <1>5
<1> QED BY <1>13, <1>14, <1>15, <1>16 DEF Inv

\* What the steps of the Decoder find.
At(l, p, I, G) ==
    /\ Sound(I, G) /\ Stacked(enc, made, I, G) /\ Standing(dec, place, tag, I, G)
    /\ dec # <<>> /\ l = Level /\ p = Here
    /\ l \in Levels /\ p \in Places(I) /\ Placed(l, p, tag, G)

LEMMA Located ==
    ASSUME Inv, Reading
    PROVE  \E I, G, l, p : At(l, p, I, G)
<1>1. PICK I, G : Sound(I, G) /\ Stacked(enc, made, I, G) /\ Standing(dec, place, tag, I, G)
  BY DEF Inv, Arranged
<1>2. PICK l, p : l = Level /\ p = Here  OBVIOUS
<1>3. dec # <<>>  BY DEF Reading
<1>4. l \in Levels /\ p \in Places(I) /\ Placed(l, p, tag, G)
  BY <1>1, <1>2, <1>3, Position DEF Level, Here
<1>5. At(l, p, I, G)  BY <1>1, <1>2, <1>3, <1>4 DEF At
<1> QED BY <1>5

\* What they have to leave.
LEMMA Advanced ==
    ASSUME NEW I, NEW G, Sound(I, G), Stacked(enc, made, I, G), UNCHANGED <<enc, made, calls>>,
           Standing(dec', place', tag', I, G), dec' # <<>>, ReadsWritten', WholeItemsAreRead'
    PROVE  Inv'
<1>1. enc' = enc /\ made' = made  OBVIOUS
<1>2. Arranged'  BY <1>1 DEF Arranged
<1> QED BY <1>2 DEF Inv

LEMMA MovedTo ==
    ASSUME NEW I, NEW G, NEW l, NEW p, At(l, p, I, G), NEW i,
           NEW k, k = [l EXCEPT !.at = i], k \in Levels
    PROVE  /\ MoveTo(i) \in Seq(Levels) /\ Len(MoveTo(i)) = Len(dec) /\ Last(MoveTo(i)) = k
           /\ \A j \in 1 .. Len(dec) - 1 : MoveTo(i)[j] = dec[j]
<1>1. dec \in Seq(Levels) /\ Len(dec) \in Nat /\ Len(dec) >= 1 /\ l = dec[Len(dec)]
  <2>1. Standing(dec, place, tag, I, G) /\ dec # <<>> /\ l = Last(dec)  BY DEF At, Level
  <2>2. dec \in Seq(Levels)  BY <2>1 DEF Standing
  <2>3. Len(dec) \in Nat /\ Len(dec) >= 1 /\ Last(dec) = dec[Len(dec)]  BY <2>1, Position
  <2> QED BY <2>1, <2>2, <2>3
<1>2. MoveTo(i) = [dec EXCEPT ![Len(dec)] = k]  BY <1>1 DEF MoveTo
<1> DEFINE r == [dec EXCEPT ![Len(dec)] = k]
<1>3. /\ r \in Seq(Levels) /\ Len(r) = Len(dec) /\ Last(r) = k
      /\ \A j \in 1 .. Len(dec) - 1 : r[j] = dec[j]
  BY <1>1, LastChanged
<1> HIDE DEF r
<1>4. MoveTo(i) = r  BY <1>2 DEF r
<1> QED BY <1>3, <1>4

\* The tag that is next.
LEMMA Peeks ==
    ASSUME NEW I, NEW G, NEW l, NEW p, At(l, p, I, G), ~AtEnd(Level), Peekable
    PROVE  LET it == p.items[p.done + 1]
               a  == From(p.items, p.done) + Len(TagOf(it.tag))
           IN  /\ p.done < Len(p.items) /\ it.tag \in Tags
               /\ Peeked = it.tag /\ After = a /\ it.tag # NoTag
               /\ [l EXCEPT !.at = a] \in Levels
               /\ Placed([l EXCEPT !.at = a], p, it.tag, G)
<1>1. /\ Ends(I) /\ l = Level /\ l \in Levels /\ p \in Places(I) /\ Placed(l, p, tag, G)
  BY DEF At, Sound
<1>2. ~AtEnd(l) /\ (tag # NoTag \/ TagReadable(l))  BY <1>1 DEF Peekable
<1>3. p.done < Len(p.items)  BY <1>1, <1>2, NotAtEnd
<1> DEFINE it == p.items[p.done + 1]
           a  == From(p.items, p.done) + Len(TagOf(it.tag))
<1>4. /\ TagNow(l, tag) = it.tag /\ EndNow(l, tag) = a /\ a \in Nat /\ it.tag # NoTag
      /\ [l EXCEPT !.at = a] \in Levels
      /\ Placed([l EXCEPT !.at = a], p, it.tag, G)
  BY <1>1, <1>2, <1>3, NextTag
<1>5. it.tag \in Tags
  <2>1. Item(l.data, From(p.items, p.done), it, G)  BY <1>1, <1>3, PlacedItem
  <2> HIDE DEF it
  <2> QED BY <2>1 DEF Item
<1>6. Peeked = TagNow(l, tag) /\ After = EndNow(l, tag)
  BY <1>1 DEF Peeked, After, TagNow, EndNow
<1> HIDE DEF it, a
<1>7. /\ p.done < Len(p.items) /\ it.tag \in Tags
      /\ Peeked = it.tag /\ After = a /\ it.tag # NoTag
      /\ [l EXCEPT !.at = a] \in Levels
      /\ Placed([l EXCEPT !.at = a], p, it.tag, G)
  BY <1>3, <1>4, <1>5, <1>6
<1> QED BY <1>7 DEF it, a

\* The value behind it.
ValueHere(l, p, I, G) ==
    LET it == p.items[p.done + 1]
        v  == ValueAt(Level.data, After)
        m  == [l EXCEPT !.at = PastValue]
        q  == [p EXCEPT !.done = @ + 1]
    IN  /\ it \in I /\ v \in Bytes
        /\ Decodable(it.tag.nr, v) /\ it.val = Decode(it.tag.nr, v)
        /\ it.tag.typ = Constructed => <<v, it.items>> \in G
        /\ m \in Levels /\ q \in Places(I) /\ Placed(m, q, NoTag, G)
        /\ q.done = p.done + 1 /\ q.items = p.items

LEMMA ReadsOn ==
    ASSUME NEW I, NEW G, NEW l, NEW p, At(l, p, I, G), ~AtEnd(Level), Peekable,
           ValueReadable(Level.data, After)
    PROVE  ValueHere(l, p, I, G)
<1> DEFINE it == p.items[p.done + 1]
           a  == From(p.items, p.done) + Len(TagOf(it.tag))
           v  == ValueAt(l.data, a)
           m  == [l EXCEPT !.at = it.end]
           q  == [p EXCEPT !.done = @ + 1]
<1>1. /\ Ends(I) /\ l = Level /\ l \in Levels /\ p \in Places(I) /\ Placed(l, p, tag, G)
  BY DEF At, Sound
<1>2. p.done < Len(p.items) /\ After = a  BY Peeks
<1>3. ValueReadable(l.data, a)  BY <1>1, <1>2
<1>4. /\ it \in I
      /\ v \in Bytes /\ ValueFrom(l.data, a) + LengthAt(l.data, a) = it.end
      /\ Decodable(it.tag.nr, v) /\ it.val = Decode(it.tag.nr, v)
      /\ it.tag.typ = Constructed => <<v, it.items>> \in G
      /\ m \in Levels /\ q \in Places(I) /\ Placed(m, q, NoTag, G)
      /\ q.done = p.done + 1 /\ q.items = p.items
  <2>1. Valued(l, p, tag, I, G)  BY <1>1, <1>2, NextValue
  <2> QED BY <1>3, <2>1 DEF Valued
<1>5. v = ValueAt(Level.data, After)  BY <1>1, <1>2
<1>6. PastValue = it.end
  <2>1. ValueFrom(l.data, a) + LengthAt(l.data, a) = it.end  BY <1>4
  <2> QED BY <1>1, <1>2, <2>1 DEF PastValue
<1>7. m = [l EXCEPT !.at = PastValue]  BY <1>6
<1> HIDE DEF it, a, v, m, q
<1>8. /\ it \in I /\ v \in Bytes
      /\ Decodable(it.tag.nr, v) /\ it.val = Decode(it.tag.nr, v)
      /\ it.tag.typ = Constructed => <<v, it.items>> \in G
      /\ m \in Levels /\ q \in Places(I) /\ Placed(m, q, NoTag, G)
      /\ q.done = p.done + 1 /\ q.items = p.items
  BY <1>4
<1> QED BY <1>5, <1>7, <1>8 DEF it, q, ValueHere

\* An item that is all there.
LEMMA WholeNext ==
    ASSUME NEW I, NEW G, NEW l, NEW p, At(l, p, I, G), NextWhole
    PROVE  LET t == Here.items[Here.done + 1].tag
           IN  /\ ~AtEnd(Level)
               /\ Peekable => ReadOk /\ Peeked = t /\ t \in Tags
               /\ ~Peekable => t.typ = Primitive /\ t.nr > 30
<1> DEFINE it == p.items[p.done + 1]
           a  == From(p.items, p.done) + Len(TagOf(it.tag))
           v  == ValueAt(l.data, a)
<1>1. /\ Ends(I) /\ l = Level /\ p = Here /\ l \in Levels /\ p \in Places(I) /\ Placed(l, p, tag, G)
  BY DEF At, Sound
<1>2. p.done < Len(p.items) /\ it.end <= Len(l.data)  BY <1>1 DEF NextWhole
<1>3. /\ ~AtEnd(l) /\ ValueReadable(l.data, a) /\ Decodable(it.tag.nr, v)
      /\ tag # NoTag \/ TagReadable(l) \/ (it.tag.typ = Primitive /\ it.tag.nr > 30)
  <2>1. Valued(l, p, tag, I, G)  BY <1>1, <1>2, NextValue
  <2> QED BY <1>2, <2>1 DEF Valued
<1>4. ~AtEnd(Level)  BY <1>1, <1>3
<1>5. ASSUME Peekable PROVE ReadOk /\ Peeked = it.tag /\ it.tag \in Tags
  <2>1. Peeked = it.tag /\ After = a /\ it.tag \in Tags  BY <1>4, <1>5, Peeks
  <2> HIDE DEF it, a
  <2> QED BY <1>1, <1>3, <1>5, <2>1 DEF ReadOk
<1>6. ASSUME ~Peekable PROVE it.tag.typ = Primitive /\ it.tag.nr > 30
  BY <1>1, <1>3, <1>6 DEF Peekable
<1>7. it = Here.items[Here.done + 1]  BY <1>1
<1> HIDE DEF it
<1> QED BY <1>4, <1>5, <1>6, <1>7

LEMMA MovedOn ==
    ASSUME NEW I, NEW G, NEW l, NEW p, At(l, p, I, G), [p EXCEPT !.done = @ + 1] \in Places(I)
    PROVE  LET r == [place EXCEPT ![Len(place)].done = @ + 1]
           IN  /\ r \in Seq(Places(I)) /\ Len(r) = Len(place)
               /\ Last(r) = [p EXCEPT !.done = @ + 1]
               /\ \A j \in 1 .. Len(place) - 1 : r[j] = place[j]
<1>1. place \in Seq(Places(I)) /\ Len(place) >= 1 /\ p = place[Len(place)]
  <2>1. Standing(dec, place, tag, I, G) /\ dec # <<>> /\ p = Last(place)  BY DEF At, Here
  <2>2. place \in Seq(Places(I))  BY <2>1 DEF Standing
  <2>3. Len(dec) >= 1 /\ Len(place) = Len(dec) /\ Last(place) = place[Len(place)]
    BY <2>1, Position
  <2> QED BY <2>1, <2>2, <2>3
<1> DEFINE q == [p EXCEPT !.done = @ + 1]
           r == [place EXCEPT ![Len(place)] = q]
<1>2. q \in Places(I)  OBVIOUS
<1>3. [place EXCEPT ![Len(place)].done = @ + 1] = r  BY <1>1
<1> HIDE DEF q
<1>4. /\ r \in Seq(Places(I)) /\ Len(r) = Len(place) /\ Last(r) = q
      /\ \A j \in 1 .. Len(place) - 1 : r[j] = place[j]
  BY <1>1, <1>2, LastChanged
<1> HIDE DEF r
<1> QED BY <1>3, <1>4 DEF q

\* The end of the level, and exceptions.
LEMMA Stopped ==
    ASSUME NEW I, NEW G, NEW l, NEW p, At(l, p, I, G),
           UNCHANGED <<enc, made, calls>>, UNCHANGED <<dec, tag, place>>,
           NEW x \in {"end", "raised"}, last' = [op |-> x],
           NextWhole => /\ x = "raised"
                        /\ Here.items[Here.done + 1].tag.typ = Primitive
                        /\ Here.items[Here.done + 1].tag.nr > 30
    PROVE  Inv'
<1>1. /\ Sound(I, G) /\ Stacked(enc, made, I, G) /\ Standing(dec, place, tag, I, G)
      /\ dec # <<>>
  BY DEF At
<1>2. dec' = dec /\ tag' = tag /\ place' = place  OBVIOUS
<1>3. Standing(dec', place', tag', I, G) /\ dec' # <<>>  BY <1>1, <1>2
<1>4. last'.op = x /\ x # "peek" /\ x # "read"  OBVIOUS
<1>5. ReadsWritten'  BY <1>4 DEF ReadsWritten
<1>6. Here' = Here /\ Level' = Level  BY <1>2 DEF Here, Level
<1>7. NextWhole' => NextWhole  BY <1>2, <1>6 DEF NextWhole
<1>8. WholeItemsAreRead'
  <2>1. ASSUME NextWhole'
        PROVE  /\ last'.op # "end"
               /\ Here'.items[Here'.done + 1].tag.typ = Primitive
               /\ Here'.items[Here'.done + 1].tag.nr > 30
    <3>1. /\ x = "raised"
          /\ Here.items[Here.done + 1].tag.typ = Primitive
          /\ Here.items[Here.done + 1].tag.nr > 30
      BY <1>7, <2>1
    <3>2. last'.op # "end"  BY <1>4, <3>1
    <3> QED BY <1>6, <3>1, <3>2
  <2> QED BY <2>1 DEF WholeItemsAreRead
<1> QED BY <1>1, <1>3, <1>5, <1>8, Advanced

\* A tag that is peeked, on the way to refusing an item, too.
LEMMA TagTaken ==
    ASSUME NEW I, NEW G, NEW l, NEW p, At(l, p, I, G), ~AtEnd(Level), Peekable,
           UNCHANGED <<enc, made, calls>>, tag' = Peeked, dec' = MoveTo(After), place' = place
    PROVE  /\ Standing(dec', place', tag', I, G) /\ dec' # <<>>
           /\ Peeked = Here'.items[Here'.done + 1].tag
<1> DEFINE it == p.items[p.done + 1]
           a  == From(p.items, p.done) + Len(TagOf(it.tag))
           k  == [l EXCEPT !.at = a]
<1>1. /\ Peeked = it.tag /\ After = a
      /\ k \in Levels /\ Placed(k, p, it.tag, G)
  BY Peeks
<1>2. dec' = MoveTo(a)  BY <1>1
<1>3. tag' = it.tag  BY <1>1
<1>4. /\ MoveTo(a) \in Seq(Levels) /\ Len(MoveTo(a)) = Len(dec) /\ Last(MoveTo(a)) = k
      /\ \A j \in 1 .. Len(dec) - 1 : MoveTo(a)[j] = dec[j]
  BY <1>1, MovedTo
<1>5. Standing(dec, place, tag, I, G) /\ dec # <<>> /\ p = Last(place)  BY DEF At, Here
<1>6. place \in Seq(Places(I))  BY <1>5 DEF Standing
<1> HIDE DEF it, a, k
<1>7. Shifted(dec, place, MoveTo(a), place, it.tag, G)  BY <1>1, <1>4, <1>5 DEF Shifted
<1>8. Standing(MoveTo(a), place, it.tag, I, G) /\ MoveTo(a) # <<>>
  BY <1>4, <1>5, <1>6, <1>7, StandingShifted
<1>9. Here' = p  BY <1>5 DEF Here
<1>10. Peeked = Here'.items[Here'.done + 1].tag  BY <1>1, <1>9 DEF it
<1> QED BY <1>2, <1>3, <1>8, <1>10

LEMMA PeekStep ==
    ASSUME Inv, Peek
    PROVE  Inv'
<1>1. Reading /\ UNCHANGED <<enc, made, calls>>  BY DEF Peek
<1>2. PICK I, G, l, p : At(l, p, I, G)  BY <1>1, Located
<1>3. CASE AtEnd(Level) /\ Give("end") /\ UNCHANGED <<dec, tag, place>>
  <2>1. ~NextWhole  BY <1>2, <1>3, WholeNext
  <2>2. last' = [op |-> "end"]  BY <1>3 DEF Give
  <2>3. UNCHANGED <<dec, tag, place>>  BY <1>3
  <2> QED BY <1>1, <1>2, <2>1, <2>2, <2>3, Stopped
<1>4. CASE /\ ~AtEnd(Level) /\ Peekable
           /\ tag' = Peeked
           /\ dec' = MoveTo(After)
           /\ last' = [op |-> "peek", tag |-> Peeked]
           /\ UNCHANGED place
  <2>1. /\ Standing(dec', place', tag', I, G) /\ dec' # <<>>
        /\ Peeked = Here'.items[Here'.done + 1].tag
    BY <1>1, <1>2, <1>4, TagTaken
  <2>2. last'.op = "peek" /\ last'.tag = Peeked  BY <1>4
  <2>3. ReadsWritten'  BY <2>1, <2>2 DEF ReadsWritten
  <2>4. WholeItemsAreRead'  BY <2>2 DEF WholeItemsAreRead
  <2>5. Sound(I, G) /\ Stacked(enc, made, I, G)  BY <1>2 DEF At
  <2> QED BY <1>1, <2>1, <2>3, <2>4, <2>5, Advanced
<1>5. CASE ~AtEnd(Level) /\ ~Peekable /\ Raise
  <2>1. NextWhole => /\ Here.items[Here.done + 1].tag.typ = Primitive
                     /\ Here.items[Here.done + 1].tag.nr > 30
    BY <1>2, <1>5, WholeNext
  <2>2. last' = [op |-> "raised"] /\ UNCHANGED <<dec, tag, place>>  BY <1>5 DEF Raise, Give
  <2> QED BY <1>1, <1>2, <2>1, <2>2, Stopped
<1> QED BY <1>3, <1>4, <1>5 DEF Peek

\* The level, once the value is read.
LEMMA ValueTaken ==
    ASSUME NEW I, NEW G, NEW l, NEW p, At(l, p, I, G), ~AtEnd(Level), Peekable,
           ValueReadable(Level.data, After)
    PROVE  LET q == [place EXCEPT ![Len(place)].done = @ + 1]
           IN  /\ Standing(MoveTo(PastValue), q, NoTag, I, G) /\ MoveTo(PastValue) # <<>>
               /\ Last(q).items = p.items /\ Last(q).done = p.done + 1
<1> DEFINE q == [place EXCEPT ![Len(place)].done = @ + 1]
           m == [l EXCEPT !.at = PastValue]
           h == [p EXCEPT !.done = @ + 1]
<1>1. /\ m \in Levels /\ h \in Places(I) /\ Placed(m, h, NoTag, G)
      /\ h.done = p.done + 1 /\ h.items = p.items
  <2>1. ValueHere(l, p, I, G)  BY ReadsOn
  <2> QED BY <2>1 DEF ValueHere
<1>2. /\ MoveTo(PastValue) \in Seq(Levels) /\ Len(MoveTo(PastValue)) = Len(dec)
      /\ Last(MoveTo(PastValue)) = m
      /\ \A j \in 1 .. Len(dec) - 1 : MoveTo(PastValue)[j] = dec[j]
  BY <1>1, MovedTo
<1>3. /\ q \in Seq(Places(I)) /\ Len(q) = Len(place) /\ Last(q) = h
      /\ \A j \in 1 .. Len(place) - 1 : q[j] = place[j]
  BY <1>1, MovedOn
<1> HIDE DEF q, m, h
<1>4. Standing(dec, place, tag, I, G) /\ dec # <<>>  BY DEF At
<1>5. Shifted(dec, place, MoveTo(PastValue), q, NoTag, G)  BY <1>1, <1>2, <1>3 DEF Shifted
<1>6. Standing(MoveTo(PastValue), q, NoTag, I, G) /\ MoveTo(PastValue) # <<>>
  BY <1>2, <1>3, <1>4, <1>5, StandingShifted
<1>7. Last(q).items = p.items /\ Last(q).done = p.done + 1  BY <1>1, <1>3
<1> QED BY <1>6, <1>7 DEF q

LEMMA ReadStep ==
    ASSUME Inv, Read
    PROVE  Inv'
<1>1. Reading /\ UNCHANGED <<enc, made, calls>>  BY DEF Read
<1>2. PICK I, G, l, p : At(l, p, I, G)  BY <1>1, Located
<1>3. CASE AtEnd(Level) /\ Give("end") /\ UNCHANGED <<dec, tag, place>>
  <2>1. ~NextWhole  BY <1>2, <1>3, WholeNext
  <2>2. last' = [op |-> "end"]  BY <1>3 DEF Give
  <2>3. UNCHANGED <<dec, tag, place>>  BY <1>3
  <2> QED BY <1>1, <1>2, <2>1, <2>2, <2>3, Stopped
<1>4. CASE /\ ~AtEnd(Level) /\ ReadOk
           /\ last' = [op |-> "read", tag |-> Peeked,
                       val |-> Decode(Peeked.nr, ValueAt(Level.data, After))]
           /\ dec' = MoveTo(PastValue)
           /\ tag' = NoTag
           /\ place' = [place EXCEPT ![Len(place)].done = @ + 1]
  <2> DEFINE it == p.items[p.done + 1]
             q  == [place EXCEPT ![Len(place)].done = @ + 1]
             v  == ValueAt(Level.data, After)
  <2>1. Peekable /\ ValueReadable(Level.data, After)  BY <1>4 DEF ReadOk
  <2>2. /\ Standing(MoveTo(PastValue), q, NoTag, I, G) /\ MoveTo(PastValue) # <<>>
        /\ Last(q).items = p.items /\ Last(q).done = p.done + 1
    BY <1>2, <1>4, <2>1, ValueTaken
  <2>3. it.val = Decode(it.tag.nr, v)
    <3>1. ValueHere(l, p, I, G)  BY <1>2, <1>4, <2>1, ReadsOn
    <3> QED BY <3>1 DEF ValueHere
  <2>4. Peeked = it.tag  BY <1>2, <1>4, <2>1, Peeks
  <2>5. dec' = MoveTo(PastValue) /\ tag' = NoTag /\ place' = q  BY <1>4
  <2>6. last'.op = "read" /\ last'.tag = Peeked /\ last'.val = Decode(Peeked.nr, v)  BY <1>4
  <2>7. it = Last(q).items[Last(q).done]  BY <2>2
  <2> HIDE DEF it, q, v
  <2>8. Standing(dec', place', tag', I, G) /\ dec' # <<>>  BY <2>2, <2>5
  <2>9. Here' = Last(q)  BY <2>5 DEF Here
  <2>10. last'.tag = it.tag /\ last'.val = it.val /\ it = Here'.items[Here'.done]
    BY <2>3, <2>4, <2>6, <2>7, <2>9
  <2>11. ReadsWritten'  BY <2>6, <2>10 DEF ReadsWritten
  <2>12. WholeItemsAreRead'  BY <2>6 DEF WholeItemsAreRead
  <2>13. Sound(I, G) /\ Stacked(enc, made, I, G)  BY <1>2 DEF At
  <2> QED BY <1>1, <2>8, <2>11, <2>12, <2>13, Advanced
<1>5. CASE ~AtEnd(Level) /\ ~ReadOk /\ Raise
  <2>1. NextWhole => /\ Here.items[Here.done + 1].tag.typ = Primitive
                     /\ Here.items[Here.done + 1].tag.nr > 30
    BY <1>2, <1>5, WholeNext
  <2>2. last' = [op |-> "raised"] /\ UNCHANGED <<dec, tag, place>>  BY <1>5 DEF Raise, Give
  <2> QED BY <1>1, <1>2, <2>1, <2>2, Stopped
<1> QED BY <1>3, <1>4, <1>5 DEF Read

LEMMA EnterItemStep ==
    ASSUME Inv, EnterItem
    PROVE  Inv'
<1>1. Reading /\ UNCHANGED <<enc, made, calls>>  BY DEF EnterItem
<1>2. PICK I, G, l, p : At(l, p, I, G)  BY <1>1, Located
<1>3. Sound(I, G) /\ Stacked(enc, made, I, G) /\ p = Here  BY <1>2 DEF At
<1>4. CASE /\ EnterOk
           /\ dec' = Append(MoveTo(PastValue),
                            [at |-> 0, data |-> ValueAt(Level.data, After)])
           /\ tag' = NoTag
           /\ place' = Append([place EXCEPT ![Len(place)].done = @ + 1],
                              [items |-> Here.items[Here.done + 1].items, done |-> 0])
           /\ Give("enter")
  <2> DEFINE it == p.items[p.done + 1]
             q  == [place EXCEPT ![Len(place)].done = @ + 1]
             v  == ValueAt(Level.data, After)
             e  == [at |-> 0, data |-> v]
             h  == [items |-> it.items, done |-> 0]
  <2>1. ~AtEnd(Level) /\ Peekable /\ ValueReadable(Level.data, After) /\ Peeked.typ = Constructed
    BY <1>4 DEF EnterOk
  <2>2. Standing(MoveTo(PastValue), q, NoTag, I, G)  BY <1>2, <2>1, ValueTaken
  <2>3. it.tag.typ = Constructed
    <3>1. Peeked = it.tag  BY <1>2, <2>1, Peeks
    <3> QED BY <2>1, <3>1
  <2>4. v \in Bytes /\ <<v, it.items>> \in G
    <3>1. ValueHere(l, p, I, G)  BY <1>2, <2>1, ReadsOn
    <3> QED BY <2>3, <3>1 DEF ValueHere
  <2>5. last' = [op |-> "enter"]  BY <1>4 DEF Give
  <2>6. dec' = Append(MoveTo(PastValue), e) /\ place' = Append(q, h) /\ tag' = NoTag
    BY <1>3, <1>4
  <2>7. e.at = 0 /\ e.data = v /\ h.items = it.items /\ h.done = 0  OBVIOUS
  <2>8. e \in Levels  BY <2>4 DEF Levels, Bytes
  <2> HIDE DEF q, v, e
  <2>9. /\ it.items \in Seq(I) /\ Laid(v, it.items, G)
        /\ Len(v) = From(it.items, Len(it.items))
    <3> DEFINE its == it.items
    <3>1. <<v, its>> \in G  BY <2>4
    <3> HIDE DEF its
    <3>2. <<v, its>> \in Bytes \X Seq(I)  BY <1>3, <3>1 DEF Sound
    <3>3. <<v, its>>[1] = v /\ <<v, its>>[2] = its  OBVIOUS
    <3>4. Laid(v, its, G) /\ Len(v) = From(its, Len(its))
      BY <1>3, <3>1, <3>3 DEF Sound, Closed
    <3> QED BY <3>2, <3>4 DEF its
  <2>10. h \in Places(I)  BY <2>9 DEF Places
  <2> HIDE DEF it, h
  <2>11. Placed(e, h, NoTag, G)
    <3>1. From(h.items, 0) = 0  BY DEF From
    <3>2. Len(h.items) \in Nat /\ Len(v) \in Nat  BY <2>4, <2>7, <2>9, LenProperties DEF Bytes
    <3>3. h.done <= Len(h.items) /\ e.at <= Len(e.data)  BY <2>7, <3>2
    <3>4. Laid(e.data, h.items, G) /\ Len(e.data) <= From(h.items, Len(h.items))
      BY <2>7, <2>9, <3>2
    <3>5. e.at = From(h.items, h.done)  BY <2>7, <3>1
    <3> QED BY <3>3, <3>4, <3>5 DEF Placed
  <2>12. /\ Standing(Append(MoveTo(PastValue), e), Append(q, h), NoTag, I, G)
         /\ Append(MoveTo(PastValue), e) # <<>>
    BY <2>2, <2>8, <2>10, <2>11, StandingDeeper
  <2>13. Standing(dec', place', tag', I, G) /\ dec' # <<>>  BY <2>6, <2>12
  <2>14. last'.op = "enter"  BY <2>5
  <2>15. ReadsWritten' /\ WholeItemsAreRead'  BY <2>14 DEF ReadsWritten, WholeItemsAreRead
  <2> QED BY <1>1, <1>3, <2>13, <2>15, Advanced
<1>5. CASE /\ IsPrimitive
           /\ dec' = MoveTo(After)
           /\ tag' = Peeked
           /\ Give("refused")
           /\ UNCHANGED place
  <2>1. ~AtEnd(Level) /\ Peekable  BY <1>5 DEF IsPrimitive
  <2>2. Standing(dec', place', tag', I, G) /\ dec' # <<>>
    BY <1>1, <1>2, <1>5, <2>1, TagTaken
  <2>3. last'.op = "refused"  BY <1>5 DEF Give
  <2>4. ReadsWritten' /\ WholeItemsAreRead'  BY <2>3 DEF ReadsWritten, WholeItemsAreRead
  <2> QED BY <1>1, <1>3, <2>2, <2>4, Advanced
<1>6. CASE ~EnterOk /\ ~IsPrimitive /\ Raise
  <2>1. ASSUME NextWhole
        PROVE  /\ Here.items[Here.done + 1].tag.typ = Primitive
               /\ Here.items[Here.done + 1].tag.nr > 30
    <3> DEFINE t == Here.items[Here.done + 1].tag
    <3>1. /\ ~AtEnd(Level)
          /\ Peekable => ReadOk /\ Peeked = t /\ t \in Tags
          /\ ~Peekable => t.typ = Primitive /\ t.nr > 30
      BY <1>2, <2>1, WholeNext
    <3> HIDE DEF t
    <3>2. ASSUME Peekable PROVE FALSE
      <4>1. Peeked.typ \in {Primitive, Constructed}  BY <3>1, <3>2 DEF Tags
      <4>2. CASE Peeked.typ = Primitive
        <5>1. IsPrimitive  BY <3>1, <3>2, <4>2 DEF IsPrimitive
        <5> QED BY <1>6, <5>1
      <4>3. CASE Peeked.typ = Constructed
        <5>1. EnterOk  BY <3>1, <3>2, <4>3 DEF EnterOk, ReadOk
        <5> QED BY <1>6, <5>1
      <4> QED BY <4>1, <4>2, <4>3
    <3> QED BY <3>1, <3>2 DEF t
  <2>2. last' = [op |-> "raised"] /\ UNCHANGED <<dec, tag, place>>  BY <1>6 DEF Raise, Give
  <2> QED BY <1>1, <1>2, <2>1, <2>2, Stopped
<1> QED BY <1>4, <1>5, <1>6 DEF EnterItem

LEMMA LeaveItemStep ==
    ASSUME Inv, LeaveItem
    PROVE  Inv'
<1>1. Reading /\ UNCHANGED <<enc, made, calls>>  BY DEF LeaveItem
<1>2. PICK I, G, l, p : At(l, p, I, G)  BY <1>1, Located
<1>3. /\ Sound(I, G) /\ Stacked(enc, made, I, G)
      /\ Standing(dec, place, tag, I, G)
  BY <1>2 DEF At
<1>4. /\ Len(dec) > 1 /\ dec' = Front(dec) /\ place' = Front(place) /\ tag' = NoTag
      /\ last' = [op |-> "leave"]
  BY DEF LeaveItem, Give
<1>5. Standing(Front(dec), Front(place), NoTag, I, G) /\ Front(dec) # <<>>
  BY <1>3, <1>4, StandingHigher
<1>6. Standing(dec', place', tag', I, G) /\ dec' # <<>>  BY <1>4, <1>5
<1>7. last'.op = "leave"  BY <1>4
<1>8. ReadsWritten' /\ WholeItemsAreRead'  BY <1>7 DEF ReadsWritten, WholeItemsAreRead
<1> QED BY <1>1, <1>3, <1>6, <1>8, Advanced

LEMMA StutterStep ==
    ASSUME Inv, UNCHANGED vars
    PROVE  Inv'
<1>1. /\ enc' = enc /\ dec' = dec /\ tag' = tag /\ last' = last /\ made' = made
      /\ place' = place
  BY DEF vars
<1>2. Arranged'  BY <1>1 DEF Inv, Arranged
<1>3. Here' = Here /\ Level' = Level  BY <1>1 DEF Here, Level
<1>4. ReadsWritten'  BY <1>1, <1>3 DEF Inv, ReadsWritten
<1>5. NextWhole' <=> NextWhole  BY <1>1, <1>3 DEF NextWhole
<1>6. WholeItemsAreRead'  BY <1>1, <1>3, <1>5 DEF Inv, WholeItemsAreRead
<1> QED BY <1>1, <1>2, <1>4, <1>6 DEF Inv

LEMMA Step == Inv /\ [Next]_vars => Inv'
<1> SUFFICES ASSUME Inv, [Next]_vars PROVE Inv'  OBVIOUS
<1>1. ASSUME NEW c \in Calls, Write(c) PROVE Inv'  BY <1>1, WriteStep
<1>2. ASSUME NEW e \in Enters, Enter(e) PROVE Inv'  BY <1>2, EnterStep
<1>3. CASE Leave  BY <1>3, LeaveStep
<1>4. ASSUME NEW cut \in 0 .. MaxCut, Start(cut) PROVE Inv'  BY <1>4, StartStep
<1>5. CASE Peek  BY <1>5, PeekStep
<1>6. CASE Read  BY <1>6, ReadStep
<1>7. CASE EnterItem  BY <1>7, EnterItemStep
<1>8. CASE LeaveItem  BY <1>8, LeaveItemStep
<1>9. CASE UNCHANGED vars  BY <1>9, StutterStep
<1> QED BY <1>1, <1>2, <1>3, <1>4, <1>5, <1>6, <1>7, <1>8, <1>9 DEF Next

\* The bytes and the items stay arranged, whatever is called.
THEOREM Arrangement == Spec => []Inv
BY InitArranged, Step, PTL DEF Spec

\* Peek and read give the tag and the value of the item they are at, for any
\* calls of the two codecs, at any depth and with the data cut off anywhere
\* (asn1.py:413, 442, 473, 491).
THEOREM ReadsAreWritten == Spec => []ReadsWritten
<1>1. Inv => ReadsWritten  BY DEF Inv
<1> QED BY <1>1, Arrangement, PTL

\* An item that is all there is read: it is never taken for the end, and never
\* raises, but for a primitive type without a name (asn1.py:508).
THEOREM WholeItemsRead == Spec => []WholeItemsAreRead
<1>1. Inv => WholeItemsAreRead  BY DEF Inv
<1> QED BY <1>1, Arrangement, PTL
=============================================================================
