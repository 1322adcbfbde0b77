---------------------- MODULE StreamTerminator_proofs ----------------------
(***************************************************************************)
(* Theorems about StreamTerminator, for any feeds, records, session        *)
(* builders and calls of connectSB.                                        *)
(***************************************************************************)
EXTENDS StreamTerminator, SequenceTheorems, FiniteSetTheorems, TLAPS

\* What is on its way from a feed to the record loop.
Queue(f) == inbuf[f] \o wire[f]

\* No two session builders share a connection, and one that nobody has made
\* yet carries nothing.
SocketsApart ==
    /\ \A m, n \in Keys : m # n /\ sbs[m].sock # NoSock => sbs[m].sock # sbs[n].sock
    /\ \A n \in Keys : sbs[n].sock # NoSock => sock[sbs[n].sock] # "free"
    /\ \A k \in Socks : sock[k] = "free" => routed[k] = <<>> /\ stream[k] = <<>>

\* A loop visits keys; its size is right until connectSB adds a name.
LoopsOverKeys ==
    /\ left \subseteq Keys
    /\ pc = "deliver" => raw \in Records
    /\ pc \in {"deliver", "send", "call", "sending", "store"} /\ ~grown => SizeSame

\* What is on its way is the feed's, and of records in the order it sent
\* them: two units that are not next to each other are of two records.
QueuesInOrder ==
    \A f \in Feeds : \A i \in 1 .. Len(Queue(f)) :
        /\ Queue(f)[i].rec.feed = f
        /\ Queue(f)[i].rec.n <= sent[f]
        /\ \A j \in 1 .. Len(Queue(f)) :
             i + 1 < j => Queue(f)[i].rec.n < Queue(f)[j].rec.n

\* A record that has left the buffers: f's queue is of later ones.
Passed(r) ==
    /\ r.n <= sent[r.feed]
    /\ \A i \in 1 .. Len(Queue(r.feed)) : r.n < Queue(r.feed)[i].rec.n

\* The connections got records that were passed, and the one being delivered
\* is later than those of the session builders the loop has still to visit.
RoutedArePassed ==
    /\ pc = "deliver" => Passed(raw)
    /\ \A k \in Socks : \A i \in 1 .. Len(routed[k]) :
         /\ Passed(routed[k][i])
         /\ pc = "deliver" /\ (\E n \in left : sbs[n].sock = k)
              /\ routed[k][i].feed = raw.feed => routed[k][i].n < raw.n

\* feedsChanged has the feeds with something in their buffer; those with a
\* complete record are still to be looked at, each once.
BuffersKnown ==
    /\ IsFiniteSet(feeds)
    /\ \A f \in Feeds \ feeds : inbuf[f] = <<>>
    /\ \A f \in feeds : f \in feedsChanged <=> inbuf[f] # <<>>
    /\ pc \in {"route", "deliver"} =>
         /\ \A i \in 1 .. Len(todo) : todo[i] \in feeds
         /\ \A i, j \in 1 .. Len(todo) : todo[i] = todo[j] => i = j
         /\ \A f \in feeds : Len(inbuf[f]) >= 2 => \E i \in 1 .. Len(todo) : todo[i] = f
    /\ pc \in {"send", "call", "sending", "store"} => \A f \in feeds : Len(inbuf[f]) < 2

\* An entry that nothing was put on yet.
Fresh(n) ==
    /\ sbs[n].outBuf = <<>> /\ stray[n] = <<>>
    /\ sbs[n].sock # NoSock => stream[sbs[n].sock] = <<>> /\ routed[sbs[n].sock] = <<>>

\* A send is to a key; once it has its socket no other entry has that one, and
\* if connectSB has replaced the entry, nothing was put on the new one.
SendUnderWay ==
    /\ pc \in {"call", "sending", "store"} => out \in Sends /\ out.name \in Keys
    /\ pc \in {"sending", "store"} =>
         /\ out.sock \in Socks /\ sock[out.sock] # "free"
         /\ \A m \in Keys : sbs[m].sock = out.sock => m = out.name
         /\ sbs[out.name].sock # out.sock => Fresh(out.name)
    /\ pc = "sending" /\ sbs[out.name].sock = out.sock => sbs[out.name].outBuf = out.buf

Broken == \E k \in Socks : sock[k] \in {"closed", "gone"}

\* connectSB replaces a connection after it has closed it: a send that finds its
\* entry replaced, or without a socket, is one that a closed connection explains.
ClosedFirst ==
    /\ call # None /\ call.name \in Keys /\ sbs[call.name].sock # NoSock => Broken
    /\ \A n \in Names : stray[n] # <<>> => Broken
    /\ pc = "call" /\ sbs[out.name].sock = NoSock => Broken
    /\ pc \in {"sending", "store"} /\ sbs[out.name].sock # out.sock => Broken

Inv ==
    /\ TypeOK /\ LoopsOverKeys
    /\ SocketsApart /\ StreamsWhole /\ SendUnderWay /\ ClosedFirst
    /\ QueuesInOrder /\ RoutedArePassed
    /\ InFeedOrder
    /\ BuffersKnown /\ FeedsCannotKill

-----------------------------------------------------------------------------
\* What the operators of the model give.
LEMMA Constants ==
    /\ NumSocks \in Nat /\ MaxRecs \in Nat /\ MaxCalls \in Nat
    /\ NodeLists \subseteq SUBSET Nodes
    /\ NoSock \notin Socks /\ NoEntry \notin Entries
    /\ IsFiniteSet(Names)
  BY TerminatorConstants

LEMMA UnitsType ==
    ASSUME NEW r \in Records
    PROVE  /\ Units(r) \in Seq(UnitSet)
           /\ Len(Units(r)) = 2
           /\ Units(r)[1] = Unit(r, 1) /\ Units(r)[2] = Unit(r, 2)
  <1>1. Unit(r, 1) \in UnitSet /\ Unit(r, 2) \in UnitSet
    BY DEF Unit, UnitSet
  <1>2. QED
    BY <1>1 DEF Units

\* A sequence cut in two.
LEMMA CutInTwo ==
    ASSUME NEW S, NEW s \in Seq(S), NEW i \in 0 .. Len(s)
    PROVE  /\ SubSeq(s, 1, i) \in Seq(S)
           /\ SubSeq(s, i + 1, Len(s)) \in Seq(S)
           /\ Len(SubSeq(s, 1, i)) = i
           /\ Len(SubSeq(s, i + 1, Len(s))) = Len(s) - i
           /\ \A j \in 1 .. i : SubSeq(s, 1, i)[j] = s[j]
           /\ \A j \in 1 .. Len(s) - i : SubSeq(s, i + 1, Len(s))[j] = s[i + j]
           /\ SubSeq(s, 1, i) \o SubSeq(s, i + 1, Len(s)) = s
  <1>1. Len(s) \in Nat /\ i \in Nat /\ i <= Len(s)
    BY LenProperties
  <1>2. \A j \in 1 .. Len(s) : s[j] \in S
    BY ElementOfSeq
  <1>3. /\ SubSeq(s, 1, i) \in Seq(S)
        /\ Len(SubSeq(s, 1, i)) = IF 1 <= i THEN i - 1 + 1 ELSE 0
        /\ \A j \in 1 .. i - 1 + 1 : SubSeq(s, 1, i)[j] = s[1 + j - 1]
    <2>1. \A j \in 1 .. i : s[j] \in S
      BY <1>1, <1>2
    <2>2. 1 \in Int /\ i \in Int
      BY <1>1
    <2>3. QED
      BY <2>1, <2>2, SubSeqProperties
  <1>4. /\ SubSeq(s, i + 1, Len(s)) \in Seq(S)
        /\ Len(SubSeq(s, i + 1, Len(s))) =
              IF i + 1 <= Len(s) THEN Len(s) - (i + 1) + 1 ELSE 0
        /\ \A j \in 1 .. Len(s) - (i + 1) + 1 :
              SubSeq(s, i + 1, Len(s))[j] = s[i + 1 + j - 1]
    <2>1. \A j \in i + 1 .. Len(s) : s[j] \in S
      BY <1>1, <1>2
    <2>2. i + 1 \in Int /\ Len(s) \in Int
      BY <1>1
    <2>3. QED
      BY <2>1, <2>2, SubSeqProperties
  <1>5. SubSeq(s, 1, i) \o SubSeq(s, i + 1, Len(s)) = s
    <2>1. /\ 1 \in 1 .. Len(s) + 1 /\ i \in 1 - 1 .. Len(s)
          /\ Len(s) \in i .. Len(s)
      BY <1>1
    <2>2. SubSeq(s, 1, i) \o SubSeq(s, i + 1, Len(s)) = SubSeq(s, 1, Len(s))
      BY <2>1, ConcatAdjacentSubSeq
    <2>3. QED
      BY <2>2, SubSeqFull
  <1>6. Len(SubSeq(s, 1, i)) = i
    BY <1>1, <1>3
  <1>7. Len(SubSeq(s, i + 1, Len(s))) = Len(s) - i
    BY <1>1, <1>4
  <1>8. \A j \in 1 .. i : SubSeq(s, 1, i)[j] = s[j]
    BY <1>1, <1>3
  <1>9. \A j \in 1 .. Len(s) - i : SubSeq(s, i + 1, Len(s))[j] = s[i + j]
    <2>1. SUFFICES ASSUME NEW j \in 1 .. Len(s) - i
                   PROVE  SubSeq(s, i + 1, Len(s))[j] = s[i + j]
      OBVIOUS
    <2>2. j \in 1 .. Len(s) - (i + 1) + 1 /\ i + 1 + j - 1 = i + j
      BY <1>1
    <2>3. QED
      BY <1>4, <2>2
  <1>10. QED
    BY <1>3, <1>4, <1>5, <1>6, <1>7, <1>8, <1>9

\* The two parts of a concatenation.
LEMMA ConcatParts ==
    ASSUME NEW S, NEW s \in Seq(S), NEW t \in Seq(S)
    PROVE  /\ s \o t \in Seq(S)
           /\ Len(s) \in Nat /\ Len(t) \in Nat
           /\ Len(s \o t) = Len(s) + Len(t)
           /\ \A i \in 1 .. Len(s) : (s \o t)[i] = s[i]
           /\ \A i \in 1 .. Len(t) : (s \o t)[Len(s) + i] = t[i]
  <1>1. Len(s) \in Nat /\ Len(t) \in Nat
    BY LenProperties
  <1>2. /\ s \o t \in Seq(S) /\ Len(s \o t) = Len(s) + Len(t)
        /\ \A i \in 1 .. Len(s) + Len(t) : (s \o t)[i] =
              IF i <= Len(s) THEN s[i] ELSE t[i - Len(s)]
    BY ConcatProperties
  <1>3. \A i \in 1 .. Len(s) : (s \o t)[i] = s[i]
    BY <1>1, <1>2
  <1>4. ASSUME NEW i \in 1 .. Len(t) PROVE (s \o t)[Len(s) + i] = t[i]
    <2>1. /\ Len(s) + i \in 1 .. Len(s) + Len(t)
          /\ ~(Len(s) + i <= Len(s)) /\ Len(s) + i - Len(s) = i
      BY <1>1
    <2>2. QED
      BY <1>2, <2>1
  <1>5. QED
    BY <1>1, <1>2, <1>3, <1>4

LEMMA DropTwo ==
    ASSUME NEW S, NEW s \in Seq(S), NEW t \in Seq(S), Len(s) >= 2
    PROVE  LET q == SubSeq(s, 3, Len(s)) \o t IN
           /\ Len(q) + 2 = Len(s \o t)
           /\ \A i \in 1 .. Len(q) : q[i] = (s \o t)[i + 2]
  <1>1. Len(s) \in Nat /\ Len(t) \in Nat /\ Len(s \o t) = Len(s) + Len(t)
    BY ConcatParts
  <1>2. PICK rest \in Seq(S) :
          /\ rest = SubSeq(s, 3, Len(s)) /\ Len(rest) = Len(s) - 2
          /\ \A j \in 1 .. Len(s) - 2 : rest[j] = s[2 + j]
    <2>1. 2 \in 0 .. Len(s) /\ 2 + 1 = 3
      BY <1>1
    <2>2. /\ SubSeq(s, 2 + 1, Len(s)) \in Seq(S)
          /\ Len(SubSeq(s, 2 + 1, Len(s))) = Len(s) - 2
          /\ \A j \in 1 .. Len(s) - 2 : SubSeq(s, 2 + 1, Len(s))[j] = s[2 + j]
      BY <2>1, CutInTwo, Zenon
    <2>3. QED
      BY <2>1, <2>2, Zenon
  <1>3. /\ rest \in Seq(S) /\ Len(rest) = Len(s) - 2
        /\ \A j \in 1 .. Len(s) - 2 : rest[j] = s[2 + j]
    BY <1>2
  <1>4. /\ Len(rest \o t) = Len(rest) + Len(t)
        /\ \A i \in 1 .. Len(rest) : (rest \o t)[i] = rest[i]
        /\ \A i \in 1 .. Len(t) : (rest \o t)[Len(rest) + i] = t[i]
    BY ConcatParts
  <1>5. Len(rest \o t) + 2 = Len(s \o t)
    BY <1>1, <1>3, <1>4
  <1>6. ASSUME NEW i \in 1 .. Len(rest \o t) PROVE (rest \o t)[i] = (s \o t)[i + 2]
    <2>1. CASE i <= Len(rest)
      <3>1. i \in 1 .. Len(rest) /\ i \in 1 .. Len(s) - 2 /\ 2 + i \in 1 .. Len(s)
            /\ i + 2 = 2 + i
        BY <1>1, <1>3, <2>1
      <3>2. (s \o t)[2 + i] = s[2 + i]
        BY <3>1, ConcatParts
      <3>3. QED
        BY <1>3, <1>4, <3>1, <3>2
    <2>2. CASE i > Len(rest)
      <3> DEFINE j == i - Len(rest)
      <3>1. j \in 1 .. Len(t) /\ i = Len(rest) + j /\ i + 2 = Len(s) + j
        BY <1>1, <1>3, <1>4, <2>2
      <3> HIDE DEF j
      <3>2. (s \o t)[Len(s) + j] = t[j]
        BY <3>1, ConcatParts
      <3>3. QED
        BY <1>4, <3>1, <3>2
    <2>3. QED
      BY <1>1, <1>3, <2>1, <2>2
  <1>7. QED
    BY <1>2, <1>5, <1>6

LEMMA UnitConcat ==
    \A s, t, u \in Seq(UnitSet) : (s \o t) \o u = s \o (t \o u)
  BY ConcatAssociative

\* What is left of a sequence, however much is taken.
LEMMA RestType ==
    ASSUME NEW S, NEW s \in Seq(S), NEW i \in Nat
    PROVE  SubSeq(s, i + 1, Len(s)) \in Seq(S)
  <1>1. Len(s) \in Nat
    BY LenProperties
  <1>2. \A j \in i + 1 .. Len(s) : s[j] \in S
    BY <1>1, ElementOfSeq
  <1>3. i + 1 \in Int /\ Len(s) \in Int
    BY <1>1
  <1>4. QED
    BY <1>2, <1>3, SubSeqProperties

LEMMA UnitsOfType ==
    ASSUME NEW rs \in Seq(Records)
    PROVE  UnitsOf(rs) \in Seq(UnitSet)
  <1>1. Len(rs) \in Nat /\ 2 * Len(rs) \in Nat
    BY LenProperties
  <1>2. ASSUME NEW i \in 1 .. 2 * Len(rs)
        PROVE  Unit(rs[(i + 1) \div 2], IF i % 2 = 1 THEN 1 ELSE 2) \in UnitSet
    <2>1. (i + 1) \div 2 \in 1 .. Len(rs)
      BY <1>1
    <2>2. rs[(i + 1) \div 2] \in Records
      BY <2>1, ElementOfSeq
    <2>3. QED
      BY <2>2 DEF Unit, UnitSet
  <1>3. UnitsOf(rs) \in [1 .. 2 * Len(rs) -> UnitSet]
    BY <1>2 DEF UnitsOf
  <1>4. QED
    BY <1>1, <1>3

LEMMA UnitsOfNone == UnitsOf(<<>>) = <<>> /\ <<>> \o <<>> = <<>>
  <1>1. UnitsOf(<<>>) \in [1 .. 0 -> UnitSet]
    BY DEF UnitsOf
  <1>2. QED
    BY <1>1

LEMMA KeysFinite ==
    /\ IsFiniteSet(Keys)
    /\ Cardinality(Keys) \in 0 .. Cardinality(Names)
  <1>1. Keys \in SUBSET Names
    BY DEF Keys
  <1>2. IsFiniteSet(Keys) /\ Cardinality(Keys) <= Cardinality(Names)
    BY <1>1, Constants, FS_Subset
  <1>3. Cardinality(Keys) \in Nat /\ Cardinality(Names) \in Nat
    BY <1>2, Constants, FS_CardinalityType
  <1>4. QED
    BY <1>2, <1>3

\* list(S) has every element of S, once.
LEMMA OrdersOnce ==
    ASSUME NEW S, IsFiniteSet(S), NEW s \in Orders(S)
    PROVE  /\ s \in Seq(S)
           /\ \A f \in S : \E i \in 1 .. Len(s) : s[i] = f
           /\ \A i, j \in 1 .. Len(s) : s[i] = s[j] => i = j
  <1> DEFINE c == Cardinality(S)
  <1>1. c \in Nat
    BY FS_CardinalityType
  <1>2. s \in [1 .. c -> S] /\ \A f \in S : \E i \in 1 .. c : s[i] = f
    BY DEF Orders
  <1>3. s \in Seq(S) /\ Len(s) = c
    BY <1>1, <1>2
  <1>4. IsFiniteSet(1 .. c) /\ Cardinality(1 .. c) = c
    <2>1. IsFiniteSet(1 .. c) /\ Cardinality(1 .. c) = IF 1 > c THEN 0 ELSE c - 1 + 1
      BY <1>1, FS_Interval
    <2>2. QED
      BY <1>1, <2>1
  <1>5. s \in Surjection(1 .. c, S)
    BY <1>2 DEF Surjection
  <1>6. s \in Injection(1 .. c, S)
    BY <1>4, <1>5, FS_SurjSameCardinalityImpliesInj
  <1>7. \A i, j \in 1 .. c : s[i] = s[j] => i = j
    BY <1>6 DEF Injection, IsInjective
  <1>8. QED
    BY <1>2, <1>3, <1>7

\* A record more is two units more.
LEMMA UnitsOfAppend ==
    ASSUME NEW rs \in Seq(Records), NEW r \in Records
    PROVE  UnitsOf(Append(rs, r)) = UnitsOf(rs) \o Units(r)
  <1> DEFINE rs2 == Append(rs, r)
             u == UnitsOf(rs)
             w == UnitsOf(rs2)
             half(i) == (i + 1) \div 2
             part(i) == IF i % 2 = 1 THEN 1 ELSE 2
  <1>1. /\ Len(rs) \in Nat /\ Len(rs2) = Len(rs) + 1
        /\ rs2 \in Seq(Records)
        /\ \A i \in 1 .. Len(rs) : rs2[i] = rs[i]
        /\ rs2[Len(rs) + 1] = r
    BY AppendProperties, LenProperties
  <1>2. \A m \in Nat : \A i \in 1 .. 2 * m : half(i) \in 1 .. m /\ part(i) \in {1, 2}
    OBVIOUS
  <1>3. ASSUME NEW t \in Seq(Records)
        PROVE  /\ UnitsOf(t) \in Seq(UnitSet) /\ Len(UnitsOf(t)) = 2 * Len(t)
               /\ \A i \in 1 .. 2 * Len(t) :
                    UnitsOf(t)[i] = Unit(t[half(i)], part(i))
    <2>1. Len(t) \in Nat /\ 2 * Len(t) \in Nat
      BY LenProperties
    <2>2. ASSUME NEW i \in 1 .. 2 * Len(t)
          PROVE  Unit(t[half(i)], part(i)) \in UnitSet
      <3>1. half(i) \in 1 .. Len(t) /\ part(i) \in {1, 2}
        BY <1>2, <2>1
      <3>2. t[half(i)] \in Records
        BY <3>1, ElementOfSeq
      <3>3. QED
        BY <3>1, <3>2 DEF Unit, UnitSet
    <2>3. UnitsOf(t) \in [1 .. 2 * Len(t) -> UnitSet]
      BY <2>2 DEF UnitsOf
    <2>4. UnitsOf(t) \in Seq(UnitSet) /\ Len(UnitsOf(t)) = 2 * Len(t)
      BY <2>1, <2>3
    <2>5. QED
      BY <2>4 DEF UnitsOf
  <1>4. /\ u \in Seq(UnitSet) /\ Len(u) = 2 * Len(rs)
        /\ \A i \in 1 .. 2 * Len(rs) : u[i] = Unit(rs[half(i)], part(i))
    BY <1>3
  <1>5. /\ w \in Seq(UnitSet) /\ Len(w) = 2 * Len(rs) + 2
        /\ \A i \in 1 .. 2 * Len(rs) + 2 : w[i] = Unit(rs2[half(i)], part(i))
    <2>1. 2 * Len(rs2) = 2 * Len(rs) + 2
      BY <1>1
    <2>2. QED
      BY <1>1, <1>3, <2>1
  <1> HIDE DEF u, w, rs2
  <1>6. /\ u \o Units(r) \in Seq(UnitSet) /\ Len(u \o Units(r)) = 2 * Len(rs) + 2
        /\ \A i \in 1 .. 2 * Len(rs) + 2 : (u \o Units(r))[i] =
              IF i <= 2 * Len(rs) THEN u[i] ELSE Units(r)[i - 2 * Len(rs)]
    <2>1. Units(r) \in Seq(UnitSet) /\ Len(Units(r)) = 2
      BY UnitsType
    <2>2. /\ u \o Units(r) \in Seq(UnitSet)
          /\ Len(u \o Units(r)) = Len(u) + Len(Units(r))
          /\ \A i \in 1 .. Len(u) + Len(Units(r)) : (u \o Units(r))[i] =
                IF i <= Len(u) THEN u[i] ELSE Units(r)[i - Len(u)]
      BY <1>4, <2>1, ConcatProperties, Zenon
    <2>3. QED
      BY <1>4, <2>1, <2>2
  <1>7. ASSUME NEW i \in 1 .. 2 * Len(rs) + 2
        PROVE  w[i] = (u \o Units(r))[i]
    <2>1. CASE i <= 2 * Len(rs)
      <3>1. i \in 1 .. 2 * Len(rs) /\ half(i) \in 1 .. Len(rs)
        BY <1>1, <1>2, <2>1
      <3>2. rs2[half(i)] = rs[half(i)]
        BY <1>1, <3>1
      <3>3. QED
        BY <1>4, <1>5, <1>6, <2>1, <3>1, <3>2
    <2>2. CASE i = 2 * Len(rs) + 1
      <3>1. half(i) = Len(rs) + 1 /\ part(i) = 1 /\ i - 2 * Len(rs) = 1
        BY <1>1, <2>2
      <3>2. w[i] = Unit(r, 1)
        BY <1>1, <1>5, <3>1
      <3>3. ~(i <= 2 * Len(rs))
        BY <1>1, <2>2
      <3>4. QED
        BY <1>6, <3>1, <3>2, <3>3, UnitsType
    <2>3. CASE i = 2 * Len(rs) + 2
      <3>1. half(i) = Len(rs) + 1 /\ part(i) = 2 /\ i - 2 * Len(rs) = 2
        BY <1>1, <2>3
      <3>2. w[i] = Unit(r, 2)
        BY <1>1, <1>5, <3>1
      <3>3. ~(i <= 2 * Len(rs))
        BY <1>1, <2>3
      <3>4. QED
        BY <1>6, <3>1, <3>2, <3>3, UnitsType
    <2>4. i <= 2 * Len(rs) \/ i = 2 * Len(rs) + 1 \/ i = 2 * Len(rs) + 2
      BY <1>1
    <2>5. QED
      BY <2>1, <2>2, <2>3, <2>4
  <1>8. w = u \o Units(r)
    BY <1>5, <1>6, <1>7, SeqEqual
  <1>9. QED
    BY <1>8 DEF w, u, rs2

-----------------------------------------------------------------------------
\* The types, for the initial state and for each action.
LEMMA TypeInit == Init => TypeOK
  <1> SUFFICES ASSUME Init PROVE TypeOK
    OBVIOUS
  <1>1. \A S : <<>> \in Seq(S)
    BY EmptySeq
  <1>2. 0 \in 0 .. Cardinality(Names) /\ 0 \in 0 .. MaxCalls /\ 0 \in 0 .. MaxRecs
    BY Constants, FS_CardinalityType
  <1>3. sbs \in [Names -> Entries \cup {NoEntry}]
    BY TerminatorConstants DEF Init
  <1>4. sock \in [Socks -> {"free", "open", "closed", "gone"}]
    BY DEF Init
  <1>5. QED
    BY <1>1, <1>2, <1>3, <1>4 DEF Init, TypeOK, FeedStates, Stages

LEMMA TypeFeeds ==
    ASSUME TypeOK, NEW f \in Feeds,
           \/ FeedClose(f) \/ OnAccept(f) \/ OnRead(f) \/ OnEnd(f)
           \/ \E k \in Kinds : FeedSend(f, k)
    PROVE  TypeOK'
  <1> USE DEF feedVars, inVars, loopVars, mainVars, outVars
  <1>0. \A S : <<>> \in Seq(S)
    BY EmptySeq
  <1>1. CASE FeedClose(f)
    <2>1. <<>> \in Seq(UnitSet)
      BY <1>0
    <2>2. feed' \in [Feeds -> FeedStates] /\ wire' \in [Feeds -> Seq(UnitSet)]
      BY <1>1, <2>1 DEF FeedClose, TypeOK, FeedStates
    <2>3. UNCHANGED <<sent, inVars, loopVars, mainVars, outVars>>
      BY <1>1 DEF FeedClose
    <2>4. QED
      BY <2>2, <2>3 DEF TypeOK
  <1>2. CASE OnAccept(f)
    BY <1>2 DEF OnAccept, TypeOK, Die, Stages
  <1>3. CASE OnRead(f)
    <2>1. PICK i \in 1 .. Len(wire[f]) :
            /\ inbuf' = [inbuf EXCEPT ![f] = @ \o SubSeq(wire[f], 1, i)]
            /\ wire' = [wire EXCEPT ![f] = SubSeq(@, i + 1, Len(@))]
      BY <1>3 DEF OnRead
    <2>2. inbuf[f] \in Seq(UnitSet) /\ wire[f] \in Seq(UnitSet)
      BY DEF TypeOK
    <2>3. i \in 0 .. Len(wire[f])
      OBVIOUS
    <2>4. /\ SubSeq(wire[f], 1, i) \in Seq(UnitSet)
          /\ SubSeq(wire[f], i + 1, Len(wire[f])) \in Seq(UnitSet)
      BY <2>2, <2>3, CutInTwo
    <2>5. inbuf[f] \o SubSeq(wire[f], 1, i) \in Seq(UnitSet)
      BY <2>2, <2>4, ConcatProperties
    <2>6. inbuf' \in [Feeds -> Seq(UnitSet)] /\ wire' \in [Feeds -> Seq(UnitSet)]
      BY <2>1, <2>4, <2>5 DEF TypeOK
    <2>7. feedsChanged' \subseteq feeds /\ feeds' = feeds
      BY <1>3 DEF OnRead, TypeOK
    <2>8. QED
      BY <1>3, <2>6, <2>7 DEF OnRead, TypeOK
  <1>4. CASE OnEnd(f)
    BY <1>0, <1>4 DEF OnEnd, CloseConnection, TypeOK, FeedStates
  <1>5. ASSUME NEW k \in Kinds, FeedSend(f, k) PROVE TypeOK'
    <2>1. MaxRecs \in Nat /\ sent[f] \in 0 .. MaxRecs /\ sent[f] < MaxRecs
      BY <1>5, Constants DEF FeedSend, TypeOK
    <2>2. sent[f] + 1 \in 1 .. MaxRecs
      BY <2>1
    <2> DEFINE r == [feed |-> f, n |-> sent[f] + 1, kind |-> k]
    <2>3. r \in Records
      BY <2>2 DEF Records
    <2>4. wire[f] \o Units(r) \in Seq(UnitSet)
      <3>1. wire[f] \in Seq(UnitSet)
        BY DEF TypeOK
      <3>2. Units(r) \in Seq(UnitSet)
        BY <2>3, UnitsType
      <3>3. QED
        BY <3>1, <3>2, ConcatProperties
    <2>5. wire' \in [Feeds -> Seq(UnitSet)]
      BY <1>5, <2>4 DEF FeedSend, TypeOK
    <2>6. sent' \in [Feeds -> 0 .. MaxRecs]
      BY <1>5, <2>2 DEF FeedSend, TypeOK
    <2>7. QED
      BY <1>5, <2>5, <2>6 DEF FeedSend, TypeOK
  <1>6. QED
    BY <1>1, <1>2, <1>3, <1>4, <1>5

\* The feed the record loop is looking at.
LEMMA RouteFeed ==
    ASSUME TypeOK, Route
    PROVE  \E f \in Feeds :
             /\ todo # <<>> /\ f = Head(todo) /\ Tail(todo) \in Seq(Feeds)
             /\ RouteMore(f) \/ RouteBad(f) \/ RouteRecord(f) \/ RouteLost(f)
             /\ UNCHANGED <<mainVars, outVars>> /\ pc = "route"
  <1>1. Head(todo) \in Feeds /\ Tail(todo) \in Seq(Feeds) /\ todo # <<>>
    BY HeadTailProperties DEF Route, TypeOK
  <1>2. PICK f \in Feeds : f = Head(todo)
    BY <1>1
  <1>3. RouteMore(f) \/ RouteBad(f) \/ RouteRecord(f) \/ RouteLost(f)
    BY <1>2 DEF Route
  <1>4. QED
    BY <1>1, <1>2, <1>3 DEF Route

LEMMA TypeRoute == ASSUME TypeOK, Route PROVE TypeOK'
  <1> USE DEF feedVars, inVars, loopVars, mainVars, outVars
  <1>0. \A S : <<>> \in Seq(S)
    BY EmptySeq
  <1>1. PICK f \in Feeds :
          /\ Tail(todo) \in Seq(Feeds)
          /\ RouteMore(f) \/ RouteBad(f) \/ RouteRecord(f) \/ RouteLost(f)
          /\ UNCHANGED <<mainVars, outVars>>
    BY RouteFeed
  <1>2. UNCHANGED <<mainVars, outVars>>
    BY <1>1
  <1>3. RouteMore(f) \/ RouteBad(f) \/ RouteRecord(f) \/ RouteLost(f)
    BY <1>1
  <1>4. CASE RouteMore(f)
    BY <1>1, <1>2, <1>4 DEF RouteMore, TypeOK
  <1>5. CASE RouteBad(f)
    BY <1>0, <1>1, <1>2, <1>5 DEF RouteBad, CloseConnection, TypeOK, FeedStates
  <1>6. CASE RouteRecord(f)
    <2> DEFINE r == inbuf[f][1].rec
               rest == SubSeq(inbuf[f], 3, Len(inbuf[f]))
    <2>1. inbuf[f] \in Seq(UnitSet) /\ Len(inbuf[f]) >= 2 /\ Len(inbuf[f]) \in Nat
      BY <1>1, <1>6, LenProperties DEF RouteRecord, TypeOK
    <2>2. inbuf[f][1] \in UnitSet
      BY <2>1, ElementOfSeq
    <2>3. r \in Records
      BY <2>2 DEF UnitSet
    <2>4. rest \in Seq(UnitSet)
      <3>1. 2 \in 0 .. Len(inbuf[f]) /\ 2 + 1 = 3
        BY <2>1
      <3>2. QED
        BY <2>1, <3>1, CutInTwo
    <2> HIDE DEF r, rest
    <2>5. /\ inbuf' = [inbuf EXCEPT ![f] = rest]
          /\ UNCHANGED <<feed, sent, wire, feeds>>
          /\ feedsChanged' \subseteq feedsChanged
      BY <1>6 DEF RouteRecord, rest
    <2>6. inbuf' \in [Feeds -> Seq(UnitSet)]
      BY <2>4, <2>5 DEF TypeOK
    <2>7. \/ Die \/ UNCHANGED loopVars
          \/ raw' = r /\ LoopOver("deliver") /\ UNCHANGED <<todo, out>>
      BY <1>6 DEF RouteRecord, r
    <2>8. /\ pc' \in Stages /\ out' = out
          /\ todo' \in Seq(Feeds) /\ raw' \in Records \cup {None}
          /\ left' \subseteq Names /\ size' \in 0 .. Cardinality(Names)
      <3>1. CASE Die
        BY <3>1 DEF Die, TypeOK, Stages
      <3>2. CASE UNCHANGED loopVars
        BY <3>2 DEF TypeOK
      <3>3. CASE raw' = r /\ LoopOver("deliver") /\ UNCHANGED <<todo, out>>
        <4>1. Keys \subseteq Names
          BY DEF Keys
        <4>2. QED
          BY <2>3, <3>3, <4>1, KeysFinite DEF LoopOver, TypeOK, Stages
      <3>4. QED
        BY <2>7, <3>1, <3>2, <3>3
    <2>9. QED
      BY <1>2, <2>5, <2>6, <2>8 DEF TypeOK
  <1>7. CASE RouteLost(f)
    BY <1>2, <1>7 DEF RouteLost, Die, TypeOK, Stages
  <1>8. QED
    BY <1>3, <1>4, <1>5, <1>6, <1>7

\* What Deliver and SendStore do to the entry of a session builder.
LEMMA DeliverEntry ==
    ASSUME TypeOK, LoopsOverKeys, NEW n \in Names, Deliver(n)
    PROVE  LET e == sbs[n] IN
           /\ n \in Keys /\ e \in Entries /\ raw \in Records
           /\ \/ UNCHANGED <<sbs, routed>>
              \/ /\ e.sock \in Socks
                 /\ e.outBuf \o Units(raw) \in Seq(UnitSet)
                 /\ Append(routed[e.sock], raw) \in Seq(Records)
                 /\ sbs' = [sbs EXCEPT ![n] =
                              [e EXCEPT !.outBuf = e.outBuf \o Units(raw)]]
                 /\ routed' = [routed EXCEPT ![e.sock] = Append(routed[e.sock], raw)]
  <1> DEFINE e == sbs[n]
  <1>1. n \in Keys /\ raw \in Records
    BY DEF Deliver, LoopsOverKeys
  <1>2. e \in Entries
    BY <1>1 DEF Keys, TypeOK
  <1>3. CASE UNCHANGED <<sbs, routed>>
    BY <1>1, <1>2, <1>3
  <1>4. CASE ~UNCHANGED <<sbs, routed>>
    <2>1. /\ sbs[n].sock # NoSock
          /\ sbs' = [sbs EXCEPT ![n].outBuf = @ \o Units(raw)]
          /\ routed' = [routed EXCEPT ![sbs[n].sock] = Append(@, raw)]
      BY <1>4 DEF Deliver
    <2>2. e.sock \in Socks /\ e.outBuf \in Seq(UnitSet)
      BY <1>2, <2>1 DEF Entries
    <2>3. Units(raw) \in Seq(UnitSet)
      BY <1>1, UnitsType
    <2>4. e.outBuf \o Units(raw) \in Seq(UnitSet)
      BY <2>2, <2>3, ConcatProperties
    <2>5. routed[e.sock] \in Seq(Records)
      BY <2>2 DEF TypeOK
    <2>6. Append(routed[e.sock], raw) \in Seq(Records)
      BY <1>1, <2>5, AppendProperties
    <2>7. QED
      BY <1>1, <1>2, <2>1, <2>2, <2>4, <2>6
  <1>5. QED
    BY <1>3, <1>4

LEMMA StoreEntry ==
    ASSUME TypeOK, SendUnderWay, SendStore
    PROVE  LET n == out.name
               e == sbs[n]
           IN  /\ n \in Keys /\ n \in Names /\ e \in Entries
               /\ out \in Sends /\ out.buf \in Seq(UnitSet) /\ out.sock \in Socks
               /\ [e EXCEPT !.outBuf = out.buf] \in Entries
               /\ sbs' = [sbs EXCEPT ![n] = [e EXCEPT !.outBuf = out.buf]]
  <1> DEFINE e == sbs[out.name]
  <1>1. out \in Sends /\ out.name \in Keys /\ out.sock \in Socks
    BY DEF SendStore, SendUnderWay
  <1>2. out.name \in Names /\ e \in Entries
    BY <1>1 DEF Keys, TypeOK
  <1>3. out.buf \in Seq(UnitSet)
    BY <1>1 DEF Sends
  <1>4. [e EXCEPT !.outBuf = out.buf] \in Entries
    BY <1>2, <1>3 DEF Entries
  <1>5. sbs' = [sbs EXCEPT ![out.name] = [e EXCEPT !.outBuf = out.buf]]
    BY DEF SendStore
  <1>6. QED
    BY <1>1, <1>2, <1>3, <1>4, <1>5

\* What a send takes, and what it leaves.
LEMMA ReturnCut ==
    ASSUME TypeOK, SendUnderWay, SendReturns
    PROVE  LET k == out.sock
               waiting == sbs[out.name].outBuf
           IN  /\ out \in Sends /\ out.name \in Keys /\ k \in Socks
               /\ out.buf \in Seq(UnitSet) /\ waiting \in Seq(UnitSet)
               /\ \E i \in 0 .. Len(out.buf) :
                    /\ stream' = [stream EXCEPT ![k] =
                                     stream[k] \o SubSeq(out.buf, 1, i)]
                    /\ out' = [out EXCEPT !.buf = SubSeq(waiting, i + 1, Len(waiting))]
                    /\ stream[k] \o SubSeq(out.buf, 1, i) \in Seq(UnitSet)
                    /\ SubSeq(waiting, i + 1, Len(waiting)) \in Seq(UnitSet)
  <1> DEFINE k == out.sock
             waiting == sbs[out.name].outBuf
  <1>1. out \in Sends /\ out.name \in Keys /\ k \in Socks
    BY DEF SendReturns, SendUnderWay
  <1>2. out.buf \in Seq(UnitSet)
    BY <1>1 DEF Sends
  <1>3. waiting \in Seq(UnitSet)
    BY <1>1 DEF Keys, TypeOK, Entries
  <1>4. PICK i \in 0 .. Len(out.buf) :
          /\ stream' = [stream EXCEPT ![k] = stream[k] \o SubSeq(out.buf, 1, i)]
          /\ out' = [out EXCEPT !.buf = SubSeq(waiting, i + 1, Len(waiting))]
    BY DEF SendReturns
  <1>5. SubSeq(out.buf, 1, i) \in Seq(UnitSet)
    BY <1>2, CutInTwo
  <1>6. stream[k] \in Seq(UnitSet)
    BY <1>1 DEF TypeOK
  <1>7. stream[k] \o SubSeq(out.buf, 1, i) \in Seq(UnitSet)
    BY <1>5, <1>6, ConcatProperties
  <1>8. SubSeq(waiting, i + 1, Len(waiting)) \in Seq(UnitSet)
    BY <1>3, RestType
  <1>9. QED
    BY <1>1, <1>2, <1>3, <1>4, <1>7, <1>8

\* The entry connectSB makes.
LEMMA ConnectEntry ==
    ASSUME TypeOK, Connect
    PROVE  \E e \in Entries :
             /\ call.name \in Names /\ e.outBuf = <<>>
             /\ e.sock # NoSock => sock[e.sock] = "free"
             /\ sbs' = [sbs EXCEPT ![call.name] = e]
             /\ sock' = IF e.sock = NoSock THEN sock
                                          ELSE [sock EXCEPT ![e.sock] = "open"]
  <1>1. call \in [name : Names, addr : Addrs, nodes : SUBSET Nodes]
    BY DEF Connect, TypeOK
  <1>2. PICK k \in Socks \cup {NoSock} :
          /\ k # NoSock => sock[k] = "free"
          /\ sock' = IF k = NoSock THEN sock ELSE [sock EXCEPT ![k] = "open"]
          /\ sbs' = [sbs EXCEPT ![call.name] =
                      [addr |-> call.addr, nodes |-> call.nodes, sock |-> k,
                       outBuf |-> <<>>]]
    BY DEF Connect
  <1> DEFINE e == [addr |-> call.addr, nodes |-> call.nodes, sock |-> k, outBuf |-> <<>>]
  <1>3. <<>> \in Seq(UnitSet)
    BY EmptySeq
  <1>4. e \in Entries
    BY <1>1, <1>3 DEF Entries
  <1>5. QED
    BY <1>1, <1>2, <1>4

LEMMA TypeSend ==
    ASSUME TypeOK, LoopsOverKeys, SendUnderWay, Send PROVE TypeOK'
  <1> USE DEF feedVars, inVars, loopVars, mainVars, outVars
  <1>1. ASSUME NEW n \in Names, SendTest(n) PROVE TypeOK'
    <2>1. pc' \in Stages
      BY <1>1 DEF SendTest, TypeOK, Stages
    <2>2. out' \in Sends \cup {None}
      <3>1. <<>> \in Seq(UnitSet)
        BY EmptySeq
      <3>2. [name |-> n, sock |-> NoSock, buf |-> <<>>] \in Sends
        BY <3>1 DEF Sends
      <3>3. QED
        BY <1>1, <3>2 DEF SendTest, TypeOK
    <2>3. left' \subseteq Names
      BY <1>1 DEF SendTest, TypeOK
    <2>4. UNCHANGED <<feedVars, inVars, todo, raw, size, mainVars, outVars>>
      BY <1>1 DEF SendTest
    <2>5. QED
      BY <2>1, <2>2, <2>3, <2>4 DEF TypeOK
  <1>2. CASE SendCall
    <2>1. pc' \in Stages /\ UNCHANGED <<todo, raw, left, size>>
      BY <1>2 DEF SendCall, Die, Stages
    <2>2. out' \in Sends \cup {None}
      <3>1. out \in Sends /\ out.name \in Keys
        BY <1>2 DEF SendCall, SendUnderWay
      <3>2. sbs[out.name].sock \in Socks \cup {NoSock}
            /\ sbs[out.name].outBuf \in Seq(UnitSet)
        BY <3>1 DEF Keys, TypeOK, Entries
      <3>3. [out EXCEPT !.sock = sbs[out.name].sock, !.buf = sbs[out.name].outBuf] \in Sends
        BY <3>1, <3>2 DEF Sends
      <3>4. QED
        BY <1>2, <3>1, <3>3 DEF SendCall, Die
    <2>3. UNCHANGED <<feedVars, inVars, mainVars, outVars>>
      BY <1>2 DEF SendCall
    <2>4. QED
      BY <2>1, <2>2, <2>3 DEF TypeOK
  <1>3. CASE SendReturns
    <2> DEFINE k == out.sock
               waiting == sbs[out.name].outBuf
    <2>1. out \in Sends /\ k \in Socks
      BY <1>3, ReturnCut
    <2>2. PICK i \in 0 .. Len(out.buf) :
            /\ stream' = [stream EXCEPT ![k] = stream[k] \o SubSeq(out.buf, 1, i)]
            /\ out' = [out EXCEPT !.buf = SubSeq(waiting, i + 1, Len(waiting))]
            /\ stream[k] \o SubSeq(out.buf, 1, i) \in Seq(UnitSet)
            /\ SubSeq(waiting, i + 1, Len(waiting)) \in Seq(UnitSet)
      BY <1>3, ReturnCut
    <2>3. stream' \in [Socks -> Seq(UnitSet)]
      BY <2>1, <2>2 DEF TypeOK
    <2>4. out' \in Sends
      BY <2>1, <2>2 DEF Sends
    <2>5. pc' \in Stages
      BY <1>3 DEF SendReturns, Stages
    <2>6. UNCHANGED <<feedVars, inVars, todo, raw, left, size, mainVars, sbs, sock, stalled,
                      routed, stray>>
      BY <1>3 DEF SendReturns
    <2>7. QED
      BY <2>3, <2>4, <2>5, <2>6 DEF TypeOK
  <1>4. CASE SendRaises
    BY <1>4 DEF SendRaises, Die, TypeOK, Stages
  <1>5. CASE SendStore
    <2>1. /\ out.name \in Names /\ out.buf \in Seq(UnitSet)
          /\ [sbs[out.name] EXCEPT !.outBuf = out.buf] \in Entries
          /\ sbs' = [sbs EXCEPT ![out.name] = [sbs[out.name] EXCEPT !.outBuf = out.buf]]
      BY <1>5, StoreEntry
    <2>2. sbs' \in [Names -> Entries \cup {NoEntry}]
      BY <2>1 DEF TypeOK
    <2>3. stray' \in [Names -> Seq(UnitSet)]
      BY <1>5, <2>1 DEF SendStore, TypeOK
    <2>4. pc' \in Stages /\ out' \in Sends \cup {None}
      BY <1>5 DEF SendStore, Stages
    <2>5. UNCHANGED <<feedVars, inVars, todo, raw, left, size, mainVars, sock, stalled,
                      routed, stream>>
      BY <1>5 DEF SendStore
    <2>6. QED
      BY <2>2, <2>3, <2>4, <2>5 DEF TypeOK
  <1>6. QED
    BY <1>1, <1>2, <1>3, <1>4, <1>5 DEF Send

LEMMA TypeThread ==
    ASSUME TypeOK, LoopsOverKeys, BuffersKnown, SendUnderWay, Thread PROVE TypeOK'
  <1> USE DEF feedVars, inVars, loopVars, mainVars, outVars
  <1>0. \A S : <<>> \in Seq(S)
    BY EmptySeq
  <1>1. Keys \subseteq Names
    BY DEF Keys
  <1>2. CASE DoStuff
    <2>1. feedsChanged \in SUBSET feeds /\ IsFiniteSet(feeds) /\ feedsChanged \subseteq Feeds
      BY DEF TypeOK, BuffersKnown
    <2>2. IsFiniteSet(feedsChanged)
      BY <2>1, FS_Subset
    <2>3. todo' \in Seq(feedsChanged)
      BY <1>2, <2>2, OrdersOnce DEF DoStuff
    <2>4. todo' \in Seq(Feeds)
      BY <2>1, <2>3, SeqMonotonic
    <2>5. QED
      BY <1>2, <2>4 DEF DoStuff, TypeOK, Stages
  <1>3. CASE Route
    BY <1>3, TypeRoute
  <1>4. CASE RouteDone
    BY <1>1, <1>4, KeysFinite DEF RouteDone, LoopOver, TypeOK, Stages
  <1>5. CASE LoopRaises
    BY <1>5 DEF LoopRaises, Die, TypeOK, Stages
  <1>6. CASE DeliverDone
    BY <1>6 DEF DeliverDone, TypeOK, Stages
  <1>7. CASE SendDone
    BY <1>0, <1>7 DEF SendDone, TypeOK, FeedStates, Stages
  <1>8. ASSUME NEW n \in Names, Deliver(n) PROVE TypeOK'
    <2> DEFINE e == sbs[n]
    <2>1. sbs' \in [Names -> Entries \cup {NoEntry}] /\ routed' \in [Socks -> Seq(Records)]
      <3>1. CASE UNCHANGED <<sbs, routed>>
        BY <3>1 DEF TypeOK
      <3>2. CASE ~UNCHANGED <<sbs, routed>>
        <4>1. /\ e \in Entries /\ e.sock \in Socks
              /\ e.outBuf \o Units(raw) \in Seq(UnitSet)
              /\ Append(routed[e.sock], raw) \in Seq(Records)
              /\ sbs' = [sbs EXCEPT ![n] = [e EXCEPT !.outBuf = e.outBuf \o Units(raw)]]
              /\ routed' = [routed EXCEPT ![e.sock] = Append(routed[e.sock], raw)]
          BY <1>8, <3>2, DeliverEntry
        <4>2. [e EXCEPT !.outBuf = e.outBuf \o Units(raw)] \in Entries
          BY <4>1 DEF Entries
        <4>3. QED
          BY <4>1, <4>2 DEF TypeOK
      <3>3. QED
        BY <3>1, <3>2
    <2>2. QED
      BY <1>8, <2>1 DEF Deliver, TypeOK
  <1>9. CASE Send
    BY <1>9, TypeSend
  <1>10. QED
    BY <1>2, <1>3, <1>4, <1>5, <1>6, <1>7, <1>8, <1>9 DEF Thread

LEMMA TypeMain ==
    ASSUME TypeOK,
           \/ \E n \in Names, a \in Addrs, nl \in NodeLists :
                Renode(n, nl) \/ Rehost(n, a, nl) \/ AddSB(n, a, nl)
           \/ Connect \/ Shutdown
    PROVE  TypeOK'
  <1> USE DEF feedVars, inVars, loopVars, mainVars, outVars
  <1> DEFINE Calls == [name : Names, addr : Addrs, nodes : SUBSET Nodes] \cup {None}
  <1>2. CASE Connect
    <2>1. PICK e \in Entries : /\ call.name \in Names
                               /\ e.sock # NoSock => sock[e.sock] = "free"
                               /\ sbs' = [sbs EXCEPT ![call.name] = e]
                               /\ sock' = IF e.sock = NoSock THEN sock
                                          ELSE [sock EXCEPT ![e.sock] = "open"]
      BY <1>2, ConnectEntry
    <2>2. sbs' \in [Names -> Entries \cup {NoEntry}]
      BY <2>1 DEF TypeOK
    <2>3. sock' \in [Socks -> {"free", "open", "closed", "gone"}]
      BY <2>1 DEF TypeOK
    <2>4. grown' \in BOOLEAN /\ call' = None
      BY <1>2 DEF Connect
    <2>5. UNCHANGED <<feedVars, inVars, loopVars, keepalive, calls, stalled, routed, stream>>
      BY <1>2 DEF Connect
    <2>6. stray' \in [Names -> Seq(UnitSet)]
      <3>1. <<>> \in Seq(UnitSet)
        BY EmptySeq
      <3>2. QED
        BY <1>2, <3>1 DEF Connect, TypeOK
    <2>7. QED
      BY <2>2, <2>3, <2>4, <2>5, <2>6 DEF TypeOK
  <1>3. CASE Shutdown
    BY <1>3 DEF Shutdown, TypeOK
  <1>4. ASSUME NEW n \in Names, NEW a \in Addrs, NEW nl \in NodeLists,
               Renode(n, nl) \/ Rehost(n, a, nl) \/ AddSB(n, a, nl)
        PROVE  TypeOK'
    <2>1. nl \in SUBSET Nodes
      BY Constants
    <2>2. calls' \in 0 .. MaxCalls
      <3>1. calls \in 0 .. MaxCalls /\ MaxCalls \in Nat
        BY Constants DEF TypeOK
      <3>2. calls < MaxCalls /\ calls' = calls + 1
        BY <1>4 DEF Renode, Rehost, AddSB, Call
      <3>3. QED
        BY <3>1, <3>2
    <2>3. CASE Renode(n, nl)
      <3>1. sbs[n] \in Entries
        BY <2>3 DEF Renode, TypeOK
      <3>2. [sbs[n] EXCEPT !.nodes = nl] \in Entries /\ sbs[n].addr \in Addrs
        BY <2>1, <3>1 DEF Entries
      <3>3. sbs' = [sbs EXCEPT ![n] = [sbs[n] EXCEPT !.nodes = nl]]
        BY <2>3 DEF Renode
      <3>4. sbs' \in [Names -> Entries \cup {NoEntry}]
        BY <3>2, <3>3 DEF TypeOK
      <3>5. call' \in Calls
        BY <2>1, <2>3, <3>2 DEF Renode, New
      <3>6. UNCHANGED <<feedVars, inVars, loopVars, keepalive, grown, sock, stalled,
                        routed, stream, stray>>
        BY <2>3 DEF Renode
      <3>7. QED
        BY <2>2, <3>4, <3>5, <3>6 DEF TypeOK
    <2>4. CASE Rehost(n, a, nl)
      <3>1. sbs[n] \in Entries
        BY <2>4 DEF Rehost, TypeOK
      <3>2. sock' \in [Socks -> {"free", "open", "closed", "gone"}]
        BY <2>4, <3>1 DEF Rehost, TypeOK, Entries
      <3>3. call' \in Calls
        BY <2>1, <2>4 DEF Rehost, New
      <3>4. UNCHANGED <<feedVars, inVars, loopVars, keepalive, grown, sbs, stalled,
                        routed, stream, stray>>
        BY <2>4 DEF Rehost
      <3>5. QED
        BY <2>2, <3>2, <3>3, <3>4 DEF TypeOK
    <2>5. CASE AddSB(n, a, nl)
      <3>1. call' \in Calls
        BY <2>1, <2>5 DEF AddSB, New
      <3>2. UNCHANGED <<feedVars, inVars, loopVars, keepalive, grown, outVars>>
        BY <2>5 DEF AddSB
      <3>3. QED
        BY <2>2, <3>1, <3>2 DEF TypeOK
    <2>6. QED
      BY <1>4, <2>3, <2>4, <2>5
  <1>5. QED
    BY <1>2, <1>3, <1>4

LEMMA TypeStep ==
    ASSUME TypeOK, LoopsOverKeys, BuffersKnown, SendUnderWay, [Next]_vars PROVE TypeOK'
  <1>1. CASE UNCHANGED vars
    BY <1>1 DEF TypeOK, vars, feedVars, inVars, loopVars, mainVars, outVars
  <1>2. ASSUME NEW k \in Socks, SBGoes(k) \/ SBStalls(k) PROVE TypeOK'
    BY <1>2 DEF SBGoes, SBStalls, TypeOK, feedVars, inVars, loopVars, mainVars
  <1>3. QED
    BY <1>1, <1>2, TypeFeeds, TypeThread, TypeMain DEF Next

-----------------------------------------------------------------------------
\* No send is in progress.
Idle == pc \notin {"call", "sending", "store"}
SameSend == UNCHANGED <<pc, out>> \/ (Idle /\ Idle')

\* The steps that touch sessionBuilders, a connection or a send.
LEMMA OutSteps ==
    ASSUME [Next]_vars
    PROVE  \/ UNCHANGED outVars /\ (grown => grown') /\ SameSend
           \/ \E n \in Names : Deliver(n)
           \/ Send
           \/ \E n \in Names, nl \in NodeLists : Renode(n, nl)
           \/ \E n \in Names, a \in Addrs, nl \in NodeLists : Rehost(n, a, nl)
           \/ Connect
           \/ \E k \in Socks : SBGoes(k) \/ SBStalls(k)
  <1> USE DEF feedVars, inVars, loopVars, mainVars, outVars
  <1>1. CASE UNCHANGED vars
    BY <1>1 DEF vars, SameSend
  <1>2. ASSUME NEW f \in Feeds,
               \/ FeedClose(f) \/ OnAccept(f) \/ OnRead(f) \/ OnEnd(f)
               \/ \E k \in Kinds : FeedSend(f, k)
        PROVE  UNCHANGED outVars /\ UNCHANGED grown /\ SameSend
    BY <1>2 DEF FeedClose, OnAccept, OnRead, OnEnd, FeedSend, Die, Idle, SameSend
  <1>3. ASSUME DoStuff \/ RouteDone \/ LoopRaises \/ DeliverDone \/ SendDone
        PROVE  UNCHANGED outVars /\ UNCHANGED grown /\ Idle /\ Idle'
    BY <1>3 DEF DoStuff, RouteDone, LoopRaises, DeliverDone, SendDone, Die, LoopOver, Idle
  <1>4. ASSUME Route
        PROVE  UNCHANGED outVars /\ UNCHANGED grown /\ Idle /\ Idle'
    <2>1. RouteMore(Head(todo)) \/ RouteBad(Head(todo)) \/ RouteRecord(Head(todo))
            \/ RouteLost(Head(todo))
      BY <1>4 DEF Route
    <2>2. pc = "route" /\ UNCHANGED <<mainVars, outVars>>
      BY <1>4 DEF Route
    <2>3. pc' = pc \/ pc' \in {"dead", "deliver"}
      BY <2>1 DEF RouteMore, RouteBad, RouteRecord, RouteLost, Die, LoopOver
    <2>4. QED
      BY <2>2, <2>3 DEF Idle
  <1>5. ASSUME \/ Shutdown
               \/ \E n \in Names, a \in Addrs, nl \in NodeLists : AddSB(n, a, nl)
        PROVE  UNCHANGED outVars /\ UNCHANGED grown /\ UNCHANGED <<pc, out>>
    BY <1>5 DEF Shutdown, AddSB
  <1>6. QED
    BY <1>1, <1>2, <1>3, <1>4, <1>5 DEF Next, Thread, SameSend

\* The steps of a send that leave sessionBuilders as it is.
LEMMA SendSteps ==
    ASSUME Send
    PROVE  UNCHANGED <<mainVars, sock, stalled, routed>> /\ (SendStore \/ UNCHANGED sbs)
  BY DEF Send, SendTest, SendCall, SendReturns, SendRaises, SendStore, outVars

LEMMA SendLeaves ==
    ASSUME Send
    PROVE  /\ UNCHANGED <<feedVars, inVars, todo, raw, size>>
           /\ left' \subseteq left
           /\ pc \in {"send", "call", "sending", "store"}
           /\ pc' \in {"send", "call", "sending", "store", "dead"}
  BY DEF Send, SendTest, SendCall, SendReturns, SendRaises, SendStore, Die

\* No name is ever taken out of sessionBuilders, and one is added by
\* connectSB only.
LEMMA KeysStep ==
    ASSUME TypeOK, LoopsOverKeys, SendUnderWay, [Next]_vars
    PROVE  /\ Keys \subseteq Keys'
           /\ grown => grown'
           /\ Keys' = Keys \/ grown'
  <1> USE DEF mainVars, outVars
  <1>0. \A e \in Entries : e # NoEntry
    BY Constants
  <1>1. CASE UNCHANGED outVars /\ (grown => grown')
    BY <1>1 DEF Keys
  <1>2. ASSUME NEW n \in Names, NEW e \in Entries, n \in Keys,
               sbs' = sbs \/ sbs' = [sbs EXCEPT ![n] = e], UNCHANGED grown
        PROVE  Keys' = Keys /\ (grown => grown')
    BY <1>0, <1>2 DEF Keys, TypeOK
  <1>3. ASSUME NEW n \in Names, Deliver(n) PROVE Keys' = Keys /\ (grown => grown')
    <2> DEFINE e == sbs[n]
               e2 == [e EXCEPT !.outBuf = e.outBuf \o Units(raw)]
    <2>1. n \in Keys /\ e \in Entries
      BY <1>3, DeliverEntry
    <2>2. CASE UNCHANGED sbs
      BY <1>2, <1>3, <2>1, <2>2 DEF Deliver
    <2>3. CASE ~UNCHANGED sbs
      <3>1. e.outBuf \o Units(raw) \in Seq(UnitSet) /\ sbs' = [sbs EXCEPT ![n] = e2]
        BY <1>3, <2>3, DeliverEntry
      <3>2. e2 \in Entries
        BY <2>1, <3>1 DEF Entries
      <3>3. QED
        BY <1>2, <1>3, <2>1, <3>1, <3>2 DEF Deliver
    <2>4. QED
      BY <2>2, <2>3
  <1>4. ASSUME Send PROVE Keys' = Keys /\ (grown => grown')
    <2>1. UNCHANGED grown /\ (SendStore \/ UNCHANGED sbs)
      BY <1>4, SendSteps
    <2>2. CASE UNCHANGED sbs
      BY <2>1, <2>2 DEF Keys
    <2>3. CASE SendStore
      <3> DEFINE n == out.name
                 e2 == [sbs[n] EXCEPT !.outBuf = out.buf]
      <3>1. n \in Keys /\ n \in Names /\ e2 \in Entries /\ sbs' = [sbs EXCEPT ![n] = e2]
        BY <2>3, StoreEntry
      <3> HIDE DEF n, e2
      <3>2. QED
        BY <1>2, <2>1, <3>1
    <2>4. QED
      BY <2>1, <2>2, <2>3
  <1>5. ASSUME NEW n \in Names, NEW nl \in NodeLists, Renode(n, nl)
        PROVE  Keys' = Keys /\ (grown => grown')
    <2>1. n \in Keys /\ sbs[n] \in Entries /\ nl \in SUBSET Nodes
      BY <1>5, Constants DEF Renode, Keys, TypeOK
    <2>2. [sbs[n] EXCEPT !.nodes = nl] \in Entries
      BY <2>1 DEF Entries
    <2>3. sbs' = [sbs EXCEPT ![n] = [sbs[n] EXCEPT !.nodes = nl]] /\ UNCHANGED grown
      BY <1>5 DEF Renode
    <2>4. QED
      BY <1>2, <2>1, <2>2, <2>3
  <1>6. ASSUME NEW n \in Names, NEW a \in Addrs, NEW nl \in NodeLists, Rehost(n, a, nl)
        PROVE  Keys' = Keys /\ (grown => grown')
    BY <1>6 DEF Rehost, Keys
  <1>7. ASSUME Connect
        PROVE  Keys \subseteq Keys' /\ (grown => grown') /\ (Keys' = Keys \/ grown')
    <2>1. PICK e \in Entries : call.name \in Names /\ sbs' = [sbs EXCEPT ![call.name] = e]
      BY <1>7, ConnectEntry
    <2>2. Keys' = Keys \cup {call.name}
      BY <1>0, <2>1 DEF Keys, TypeOK
    <2>3. (grown => grown') /\ (call.name \notin Keys => grown')
      BY <1>7, <2>1 DEF Connect, Keys
    <2>4. QED
      BY <2>2, <2>3
  <1>8. ASSUME NEW k \in Socks, SBGoes(k) \/ SBStalls(k)
        PROVE  Keys' = Keys /\ (grown => grown')
    BY <1>8 DEF SBGoes, SBStalls, Keys
  <1>9. QED
    BY <1>1, <1>3, <1>4, <1>5, <1>6, <1>7, <1>8, OutSteps

LEMMA LoopsStep ==
    ASSUME TypeOK, LoopsOverKeys, SendUnderWay, [Next]_vars PROVE LoopsOverKeys'
  <1> USE DEF feedVars, inVars, loopVars, mainVars, outVars
  <1>1. Keys \subseteq Keys' /\ (grown => grown') /\ (Keys' = Keys \/ grown')
    BY KeysStep
  \* The loop variables stay, or the loop ends, or it is one step further.
  <1>2. ASSUME left' \subseteq left, pc' = pc \/ pc' \in {"select", "route", "done", "dead"},
               raw' = raw, size' = size
        PROVE  LoopsOverKeys'
    BY <1>1, <1>2 DEF LoopsOverKeys, SizeSame
  <1>3. ASSUME NEW next, LoopOver(next), next = "deliver" => raw' \in Records,
               UNCHANGED sbs
        PROVE  LoopsOverKeys'
    BY <1>3 DEF LoopsOverKeys, LoopOver, SizeSame, Keys
  <1>4. CASE UNCHANGED vars
    BY <1>2, <1>4 DEF vars
  <1>5. ASSUME NEW f \in Feeds,
               \/ FeedClose(f) \/ OnAccept(f) \/ OnRead(f) \/ OnEnd(f)
               \/ \E k \in Kinds : FeedSend(f, k)
        PROVE  LoopsOverKeys'
    <2>1. left' = left /\ (pc' = pc \/ pc' = "dead") /\ raw' = raw /\ size' = size
      BY <1>5 DEF FeedClose, OnAccept, OnRead, OnEnd, FeedSend, Die
    <2>2. QED
      BY <1>2, <2>1
  <1>6. CASE Route
    <2>1. UNCHANGED sbs
      BY <1>6 DEF Route
    <2>2. PICK f \in Feeds : RouteMore(f) \/ RouteBad(f) \/ RouteRecord(f) \/ RouteLost(f)
      BY <1>6, RouteFeed
    <2>3. RouteMore(f) \/ RouteBad(f) \/ RouteRecord(f) \/ RouteLost(f)
      BY <2>2
    <2>4. CASE RouteMore(f) \/ RouteBad(f) \/ RouteLost(f)
      <3>1. left' = left /\ (pc' = pc \/ pc' = "dead") /\ raw' = raw /\ size' = size
        BY <2>4 DEF RouteMore, RouteBad, RouteLost, Die
      <3>2. QED
        BY <1>2, <3>1
    <2>5. CASE RouteRecord(f)
      <3>1. /\ Len(inbuf[f]) >= 2
            /\ \/ Die \/ UNCHANGED loopVars
               \/ raw' = inbuf[f][1].rec /\ LoopOver("deliver")
        BY <2>5 DEF RouteRecord
      <3>2. inbuf[f] \in Seq(UnitSet) /\ Len(inbuf[f]) \in Nat
        BY <2>2, LenProperties DEF TypeOK
      <3>3. inbuf[f][1] \in UnitSet
        BY <3>1, <3>2, ElementOfSeq
      <3>4. inbuf[f][1].rec \in Records
        BY <3>3 DEF UnitSet
      <3>5. CASE Die \/ UNCHANGED loopVars
        BY <1>2, <3>5 DEF Die
      <3>6. QED
        BY <1>3, <2>1, <3>1, <3>4, <3>5
    <2>6. QED
      BY <2>3, <2>4, <2>5
  <1>7. CASE RouteDone
    BY <1>3, <1>7 DEF RouteDone
  <1>8. CASE DoStuff \/ LoopRaises \/ SendDone
    <2>1. /\ left' = left /\ raw' = raw /\ size' = size
          /\ pc' \in {"route", "dead", "select", "done"}
      BY <1>8 DEF DoStuff, LoopRaises, SendDone, Die
    <2>2. QED
      BY <1>2, <2>1
  <1>9. CASE DeliverDone
    BY <1>1, <1>9 DEF DeliverDone, LoopsOverKeys
  <1>10. ASSUME NEW n \in Names, Deliver(n) PROVE LoopsOverKeys'
    <2>1. left' \subseteq left /\ pc' = pc /\ raw' = raw /\ size' = size
      BY <1>10 DEF Deliver
    <2>2. QED
      BY <1>2, <2>1
  <1>13. CASE Send
    <2>1. /\ left' \subseteq left /\ size' = size
          /\ pc \in {"send", "call", "sending", "store"}
          /\ pc' \in {"send", "call", "sending", "store", "dead"}
      BY <1>13, SendLeaves
    <2>2. Keys \subseteq Keys' /\ (~grown' => Keys' = Keys /\ ~grown)
      BY <1>1
    <2>3. QED
      BY <2>1, <2>2 DEF LoopsOverKeys, SizeSame
  <1>11. ASSUME \/ Connect \/ Shutdown \/ \E k \in Socks : SBGoes(k) \/ SBStalls(k)
                \/ \E n \in Names, a \in Addrs, nl \in NodeLists :
                     Renode(n, nl) \/ Rehost(n, a, nl) \/ AddSB(n, a, nl)
         PROVE  LoopsOverKeys'
    <2>1. UNCHANGED loopVars
      BY <1>11 DEF Connect, Shutdown, SBGoes, SBStalls, Renode, Rehost, AddSB
    <2>2. QED
      BY <1>2, <2>1
  <1>12. QED
    BY <1>4, <1>5, <1>6, <1>7, <1>8, <1>9, <1>10, <1>11, <1>13 DEF Next, Thread

-----------------------------------------------------------------------------
\* Sockets and what they carry.

\* StreamsWhole, for one entry.
Whole(n) ==
    IF sbs[n].sock = NoSock THEN sbs[n].outBuf = stray[n]
    ELSE stream[sbs[n].sock] \o Waiting(n) = stray[n] \o UnitsOf(routed[sbs[n].sock])

LEMMA OutInit == Init => SocketsApart /\ StreamsWhole /\ SendUnderWay
  <1> SUFFICES ASSUME Init PROVE SocketsApart /\ StreamsWhole /\ SendUnderWay
    OBVIOUS
  <1>1. sbs = Initial /\ routed = [k \in Socks |-> <<>>] /\ stream = [k \in Socks |-> <<>>]
        /\ stray = [n \in Names |-> <<>>] /\ pc = "select"
    BY DEF Init
  <1>2. \A n \in Keys : /\ n \in Names /\ sbs[n] # NoEntry /\ sbs[n] \in Entries
                       /\ sbs[n].outBuf = <<>> /\ sbs[n].sock \in Socks \cup {NoSock}
    BY <1>1, TerminatorConstants DEF Keys, Entries
  <1>3. \A m, n \in Keys : m # n /\ sbs[m].sock # NoSock => sbs[m].sock # sbs[n].sock
    BY <1>1, <1>2, TerminatorConstants
  <1>4. \A n \in Keys : sbs[n].sock # NoSock => sock[sbs[n].sock] = "open"
    BY <1>1, <1>2 DEF Init
  <1>5. SocketsApart
    BY <1>1, <1>3, <1>4 DEF SocketsApart
  <1>6. ASSUME NEW n \in Keys PROVE Whole(n)
    <2>1. stray[n] = <<>> /\ Waiting(n) = <<>> /\ sbs[n].outBuf = <<>>
      BY <1>1, <1>2 DEF Waiting
    <2>2. sbs[n].sock # NoSock =>
             stream[sbs[n].sock] = <<>> /\ routed[sbs[n].sock] = <<>>
      BY <1>1, <1>2
    <2>3. QED
      BY <2>1, <2>2, UnitsOfNone DEF Whole
  <1>7. StreamsWhole
    BY <1>6 DEF StreamsWhole, Whole
  <1>8. SendUnderWay
    BY <1>1 DEF SendUnderWay
  <1>9. QED
    BY <1>5, <1>7, <1>8

\* The types of what an entry's equation is about.
LEMMA KeyTypes ==
    ASSUME TypeOK
    PROVE  \A n \in Keys :
             /\ n \in Names /\ sbs[n] \in Entries
             /\ sbs[n].sock \in Socks \cup {NoSock}
             /\ sbs[n].outBuf \in Seq(UnitSet) /\ stray[n] \in Seq(UnitSet)
             /\ sbs[n].sock # NoSock =>
                  /\ stream[sbs[n].sock] \in Seq(UnitSet)
                  /\ routed[sbs[n].sock] \in Seq(Records)
  BY DEF Keys, TypeOK, Entries

LEMMA OutDeliver ==
    ASSUME TypeOK, LoopsOverKeys, SocketsApart, \A n \in Keys : Whole(n),
           NEW n \in Names, Deliver(n)
    PROVE  SocketsApart' /\ (\A m \in Keys' : Whole(m)') /\ SendUnderWay'
  <1> DEFINE e == sbs[n]
             k == e.sock
  <1>1. /\ n \in Keys /\ raw \in Records /\ UNCHANGED <<sock, stream, stray>>
        /\ pc = "deliver" /\ pc' = "deliver"
    BY DeliverEntry DEF Deliver
  <1>2. \A m \in Names : Waiting(m) = sbs[m].outBuf /\ Waiting(m)' = sbs'[m].outBuf
    BY <1>1 DEF Waiting
  <1>3. SendUnderWay'
    BY <1>1 DEF SendUnderWay
  <1>4. CASE UNCHANGED <<sbs, routed>>
    <2>1. Keys' = Keys
      BY <1>4 DEF Keys
    <2>2. \A m \in Keys : m \in Names
      BY DEF Keys
    <2>3. SocketsApart'
      BY <1>1, <1>4, <2>1 DEF SocketsApart
    <2>4. \A m \in Keys : Whole(m)'
      BY <1>1, <1>2, <1>4, <2>2 DEF Whole
    <2>5. QED
      BY <1>3, <2>1, <2>3, <2>4
  <1>5. CASE ~UNCHANGED <<sbs, routed>>
    <2>1. /\ k \in Socks
          /\ sbs' = [sbs EXCEPT ![n] = [e EXCEPT !.outBuf = e.outBuf \o Units(raw)]]
          /\ routed' = [routed EXCEPT ![k] = Append(routed[k], raw)]
      BY <1>5, DeliverEntry
    <2>2. /\ Keys' \subseteq Keys
          /\ \A m \in Keys' : sbs'[m].sock = sbs[m].sock
          /\ \A m \in Keys' : m # n => sbs'[m] = sbs[m]
      BY <1>1, <2>1, KeyTypes DEF Keys, TypeOK, Entries
    <2>3. k # NoSock /\ sock[k] # "free"
      BY <1>1, <2>1, Constants DEF SocketsApart
    <2>4. \A j \in Socks : j # k => routed'[j] = routed[j]
      BY <2>1 DEF TypeOK
    <2>5. SocketsApart'
      BY <1>1, <2>2, <2>3, <2>4 DEF SocketsApart
    <2>6. stream[k] \o (e.outBuf \o Units(raw)) = stray[n] \o UnitsOf(Append(routed[k], raw))
      <3>1. /\ stream[k] \in Seq(UnitSet) /\ e.outBuf \in Seq(UnitSet)
            /\ stray[n] \in Seq(UnitSet) /\ routed[k] \in Seq(Records)
        BY <1>1, <2>3, KeyTypes
      <3>2. Units(raw) \in Seq(UnitSet)
        BY <1>1, UnitsType
      <3>3. UnitsOf(routed[k]) \in Seq(UnitSet)
        BY <3>1, UnitsOfType
      <3>4. stream[k] \o (e.outBuf \o Units(raw)) = (stream[k] \o e.outBuf) \o Units(raw)
        BY <3>1, <3>2, UnitConcat, Zenon
      <3>5. stray[n] \o (UnitsOf(routed[k]) \o Units(raw))
              = (stray[n] \o UnitsOf(routed[k])) \o Units(raw)
        BY <3>1, <3>2, <3>3, UnitConcat, Zenon
      <3>6. stream[k] \o e.outBuf = stray[n] \o UnitsOf(routed[k])
        BY <1>1, <1>2, <2>3 DEF Whole
      <3>7. UnitsOf(Append(routed[k], raw)) = UnitsOf(routed[k]) \o Units(raw)
        BY <1>1, <3>1, UnitsOfAppend
      <3>8. QED
        BY <3>4, <3>5, <3>6, <3>7
    <2>7. /\ sbs'[n].outBuf = e.outBuf \o Units(raw)
          /\ routed'[k] = Append(routed[k], raw)
      BY <1>1, <2>1 DEF TypeOK, Entries
    <2>8. ASSUME NEW m \in Keys' PROVE Whole(m)'
      <3>0. m \in Keys /\ m \in Names /\ sbs'[m].sock = sbs[m].sock /\ stray'[m] = stray[m]
            /\ Waiting(m)' = sbs'[m].outBuf
        BY <1>1, <1>2, <2>2 DEF Keys
      <3>1. CASE m = n
        BY <1>1, <2>3, <2>6, <2>7, <3>0, <3>1 DEF Whole
      <3>2. CASE m # n
        <4>1. sbs'[m] = sbs[m] /\ sbs[m].sock # k
          BY <1>1, <2>2, <2>3, <3>0, <3>2 DEF SocketsApart
        <4>2. sbs[m].sock # NoSock => routed'[sbs[m].sock] = routed[sbs[m].sock]
          BY <2>4, <3>0, <4>1, KeyTypes
        <4>3. Waiting(m)' = Waiting(m) /\ Whole(m)
          BY <1>2, <3>0, <4>1
        <4>4. QED
          BY <1>1, <3>0, <4>1, <4>2, <4>3 DEF Whole
      <3>3. QED
        BY <3>1, <3>2
    <2>9. QED
      BY <1>3, <2>5, <2>8
  <1>6. QED
    BY <1>4, <1>5

\* The steps of a send.  The equation of an entry moves from outBuf to what the
\* send has left, and back.
LEMMA OutReturns ==
    ASSUME TypeOK, SocketsApart, \A n \in Keys : Whole(n), SendUnderWay, SendReturns
    PROVE  SocketsApart' /\ (\A m \in Keys' : Whole(m)') /\ SendUnderWay'
  <1>0. PICK n \in Names, k \in Socks : n = out.name /\ k = out.sock
    BY ReturnCut DEF Keys
  <1> DEFINE waiting == sbs[n].outBuf
  <1>1. /\ out \in Sends /\ n \in Keys /\ k \in Socks
        /\ out.buf \in Seq(UnitSet) /\ waiting \in Seq(UnitSet)
    BY <1>0, ReturnCut
  <1>2. PICK i \in 0 .. Len(out.buf) :
          /\ stream' = [stream EXCEPT ![k] = stream[k] \o SubSeq(out.buf, 1, i)]
          /\ out' = [out EXCEPT !.buf = SubSeq(waiting, i + 1, Len(waiting))]
          /\ SubSeq(waiting, i + 1, Len(waiting)) \in Seq(UnitSet)
    BY <1>0, ReturnCut
  <1>3. UNCHANGED <<sbs, sock, routed, stray>> /\ pc = "sending" /\ pc' = "store"
    BY DEF SendReturns
  <1>4. Keys' = Keys
    BY <1>3 DEF Keys
  <1>5. /\ out'.name = n /\ out'.sock = k /\ out' \in Sends
        /\ out'.buf = SubSeq(waiting, i + 1, Len(waiting))
    BY <1>0, <1>1, <1>2 DEF Sends
  <1>6. /\ sock[k] # "free"
        /\ \A m \in Keys : sbs[m].sock = k => m = n
        /\ sbs[n].sock # k => Fresh(n)
        /\ sbs[n].sock = k => waiting = out.buf
    BY <1>0, <1>3 DEF SendUnderWay
  <1>7. \A j \in Socks : j # k => stream'[j] = stream[j]
    BY <1>1, <1>2 DEF TypeOK
  <1>8. stream'[k] = stream[k] \o SubSeq(out.buf, 1, i) /\ stream[k] \in Seq(UnitSet)
    BY <1>1, <1>2 DEF TypeOK
  <1> HIDE DEF waiting
  <1>9. SocketsApart'
    BY <1>3, <1>4, <1>6, <1>7 DEF SocketsApart
  <1>10. SendUnderWay'
    <2>1. sbs[n].sock # k => Fresh(n)'
      <3>1. SUFFICES ASSUME sbs[n].sock # k PROVE Fresh(n)'
        OBVIOUS
      <3>2. sbs[n].sock # NoSock => stream'[sbs[n].sock] = stream[sbs[n].sock]
        BY <1>1, <1>7, <3>1, KeyTypes
      <3>3. QED
        BY <1>3, <1>6, <3>1, <3>2 DEF Fresh
    <2>2. QED
      BY <1>1, <1>3, <1>4, <1>5, <1>6, <2>1 DEF SendUnderWay
  <1>11. ASSUME NEW m \in Keys PROVE Whole(m)'
    <2>1. Whole(m) /\ m \in Names
      BY DEF Keys
    <2>2. Waiting(m) = sbs[m].outBuf
      BY <1>3 DEF Waiting
    <2>3. CASE m = n /\ sbs[n].sock = k
      <3>1. Waiting(m)' = SubSeq(out.buf, i + 1, Len(out.buf))
        BY <1>3, <1>5, <1>6, <2>3 DEF Waiting
      <3>2. k # NoSock
        BY <1>1, Constants
      <3>3. stream[k] \o out.buf = stray[n] \o UnitsOf(routed[k])
        BY <1>6, <2>1, <2>2, <2>3, <3>2 DEF Whole, waiting
      <3>4. stream'[k] \o SubSeq(out.buf, i + 1, Len(out.buf)) = stream[k] \o out.buf
        <4>1. /\ SubSeq(out.buf, 1, i) \in Seq(UnitSet)
              /\ SubSeq(out.buf, i + 1, Len(out.buf)) \in Seq(UnitSet)
              /\ SubSeq(out.buf, 1, i) \o SubSeq(out.buf, i + 1, Len(out.buf)) = out.buf
          BY <1>1, CutInTwo
        <4>2. (stream[k] \o SubSeq(out.buf, 1, i)) \o SubSeq(out.buf, i + 1, Len(out.buf))
                = stream[k] \o (SubSeq(out.buf, 1, i)
                                 \o SubSeq(out.buf, i + 1, Len(out.buf)))
          BY <1>8, <4>1, UnitConcat, Zenon
        <4>3. QED
          BY <1>8, <4>1, <4>2
      <3>5. stray'[m] = stray[n] /\ sbs'[m].sock = k /\ routed'[k] = routed[k]
        BY <1>3, <2>3
      <3>6. QED
        BY <3>1, <3>2, <3>3, <3>4, <3>5 DEF Whole
    <2>4. CASE ~(m = n /\ sbs[n].sock = k)
      <3>1. sbs[m].sock # k
        BY <1>6, <2>4
      <3>2. Waiting(m)' = sbs[m].outBuf
        BY <1>3, <1>5, <3>1 DEF Waiting
      <3>3. sbs[m].sock # NoSock => stream'[sbs[m].sock] = stream[sbs[m].sock]
        BY <1>7, <3>1, KeyTypes
      <3>4. QED
        BY <1>3, <2>1, <2>2, <3>2, <3>3 DEF Whole
    <2>5. QED
      BY <2>3, <2>4
  <1>12. QED
    BY <1>4, <1>9, <1>10, <1>11

LEMMA OutStore ==
    ASSUME TypeOK, SocketsApart, \A n \in Keys : Whole(n), SendUnderWay, SendStore
    PROVE  SocketsApart' /\ (\A m \in Keys' : Whole(m)') /\ SendUnderWay'
  <1> DEFINE n == out.name
             k == out.sock
             e == sbs[n]
  <1>1. /\ n \in Keys /\ n \in Names /\ e \in Entries /\ k \in Socks
        /\ out.buf \in Seq(UnitSet)
        /\ sbs' = [sbs EXCEPT ![n] = [e EXCEPT !.outBuf = out.buf]]
    BY StoreEntry
  <1>2. /\ UNCHANGED <<sock, routed, stream>> /\ pc = "store" /\ pc' = "send"
        /\ stray' = [stray EXCEPT ![n] = IF e.sock = k THEN stray[n] ELSE out.buf]
    BY DEF SendStore
  <1>3. e.sock # k => Fresh(n)
    BY <1>2 DEF SendUnderWay
  <1>4. /\ Keys' \subseteq Keys
        /\ \A m \in Keys' : sbs'[m].sock = sbs[m].sock
        /\ \A m \in Keys' : m # n => sbs'[m] = sbs[m]
        /\ sbs'[n].outBuf = out.buf
    BY <1>1, KeyTypes DEF Keys, TypeOK, Entries
  <1>5. /\ stray'[n] = IF e.sock = k THEN stray[n] ELSE out.buf
        /\ \A m \in Names : m # n => stray'[m] = stray[m]
    BY <1>1, <1>2 DEF TypeOK
  <1>6. SendUnderWay'
    BY <1>2 DEF SendUnderWay
  <1>7. SocketsApart'
    BY <1>2, <1>4 DEF SocketsApart
  <1>8. ASSUME NEW m \in Keys' PROVE Whole(m)'
    <2>1. m \in Keys /\ m \in Names /\ Whole(m) /\ sbs'[m].sock = sbs[m].sock
      BY <1>4 DEF Keys
    <2>2. Waiting(m)' = sbs'[m].outBuf
      BY <1>2 DEF Waiting
    <2>3. CASE m = n /\ e.sock = k
      <3>1. Waiting(m) = out.buf /\ k # NoSock
        BY <1>1, <1>2, <2>3, Constants DEF Waiting
      <3>2. stray'[m] = stray[m] /\ sbs'[m].outBuf = out.buf
        BY <1>4, <1>5, <2>3
      <3>3. QED
        BY <1>2, <2>1, <2>2, <2>3, <3>1, <3>2 DEF Whole
    <2>4. CASE m = n /\ e.sock # k
      <3>1. stray'[m] = out.buf /\ sbs'[m].outBuf = out.buf /\ Fresh(m)
        BY <1>3, <1>4, <1>5, <2>4
      <3>2. out.buf \o <<>> = out.buf /\ <<>> \o out.buf = out.buf
        BY <1>1, ConcatEmptySeq
      <3>3. sbs[m].sock # NoSock =>
               stream'[sbs[m].sock] = <<>> /\ UnitsOf(routed'[sbs[m].sock]) = <<>>
        BY <1>2, <3>1, UnitsOfNone DEF Fresh
      <3>4. QED
        BY <2>1, <2>2, <3>1, <3>2, <3>3 DEF Whole
    <2>5. CASE m # n
      <3>1. Waiting(m) = sbs[m].outBuf /\ sbs'[m] = sbs[m] /\ stray'[m] = stray[m]
        BY <1>4, <1>5, <2>1, <2>5 DEF Waiting
      <3>2. QED
        BY <1>2, <2>1, <2>2, <3>1 DEF Whole
    <2>6. QED
      BY <2>3, <2>4, <2>5
  <1>9. QED
    BY <1>6, <1>7, <1>8

LEMMA OutSend ==
    ASSUME TypeOK, LoopsOverKeys, SocketsApart, \A n \in Keys : Whole(n), SendUnderWay, Send
    PROVE  SocketsApart' /\ (\A m \in Keys' : Whole(m)') /\ SendUnderWay'
  <1> USE DEF mainVars, outVars
  <1>1. ASSUME UNCHANGED outVars, pc # "store", pc' # "store"
        PROVE  SocketsApart' /\ (\A m \in Keys' : Whole(m)') /\ Keys' = Keys
    <2>1. Keys' = Keys
      BY <1>1 DEF Keys
    <2>2. \A m \in Keys : Waiting(m)' = Waiting(m)
      BY <1>1 DEF Waiting
    <2>3. SocketsApart'
      BY <1>1, <2>1 DEF SocketsApart
    <2>4. ASSUME NEW m \in Keys PROVE Whole(m)'
      <3>1. Whole(m)
        OBVIOUS
      <3>2. QED
        BY <1>1, <2>2, <3>1 DEF Whole
    <2>5. QED
      BY <2>1, <2>3, <2>4
  <1>2. ASSUME NEW n \in Names, SendTest(n)
        PROVE  SocketsApart' /\ (\A m \in Keys' : Whole(m)') /\ SendUnderWay'
    <2>1. /\ UNCHANGED outVars /\ pc = "send"
          /\ \/ pc' = "send"
             \/ pc' = "call" /\ out' = [name |-> n, sock |-> NoSock, buf |-> <<>>]
      BY <1>2 DEF SendTest
    <2>2. n \in Keys
      BY <1>2 DEF SendTest, LoopsOverKeys
    <2>3. [name |-> n, sock |-> NoSock, buf |-> <<>>] \in Sends
      <3>1. <<>> \in Seq(UnitSet)
        BY EmptySeq
      <3>2. QED
        BY <3>1 DEF Sends
    <2>4. pc' = "call" => out' \in Sends /\ out'.name = n
      BY <2>1, <2>3
    <2>5. SocketsApart' /\ (\A m \in Keys' : Whole(m)') /\ Keys' = Keys
      BY <1>1, <2>1
    <2>6. SendUnderWay'
      BY <2>1, <2>2, <2>4, <2>5 DEF SendUnderWay
    <2>7. QED
      BY <2>5, <2>6
  <1>3. ASSUME SendCall
        PROVE  SocketsApart' /\ (\A m \in Keys' : Whole(m)') /\ SendUnderWay'
    <2> DEFINE n == out.name
               e == sbs[n]
    <2>1. UNCHANGED outVars /\ pc = "call"
      BY <1>3 DEF SendCall
    <2>2. out \in Sends /\ n \in Keys
      BY <2>1 DEF SendUnderWay
    <2>3. \/ pc' = "dead"
          \/ /\ e.sock # NoSock /\ pc' = "sending"
             /\ out' = [out EXCEPT !.sock = e.sock, !.buf = e.outBuf]
      BY <1>3 DEF SendCall, Die
    <2>4. SocketsApart' /\ (\A m \in Keys' : Whole(m)') /\ Keys' = Keys
      BY <1>1, <2>1, <2>3
    <2>5. CASE pc' = "dead"
      BY <2>4, <2>5 DEF SendUnderWay
    <2>6. CASE pc' # "dead"
      <3>1. e.sock \in Socks /\ e.outBuf \in Seq(UnitSet)
        BY <2>2, <2>3, <2>6, KeyTypes
      <3>2. /\ out' \in Sends /\ out'.name = n /\ out'.sock = e.sock
            /\ out'.buf = e.outBuf
        BY <2>2, <2>3, <2>6, <3>1 DEF Sends
      <3>3. sock[e.sock] # "free" /\ \A m \in Keys : sbs[m].sock = e.sock => m = n
        BY <2>2, <2>3, <2>6 DEF SocketsApart
      <3>4. pc' = "sending" /\ UNCHANGED <<sbs, sock>>
        BY <2>1, <2>3, <2>6
      <3> HIDE DEF n, e
      <3>5. SendUnderWay'
        BY <2>2, <2>4, <3>1, <3>2, <3>3, <3>4 DEF SendUnderWay, n, e
      <3>6. QED
        BY <2>4, <3>5
    <2>7. QED
      BY <2>5, <2>6
  <1>4. ASSUME SendRaises
        PROVE  SocketsApart' /\ (\A m \in Keys' : Whole(m)') /\ SendUnderWay'
    <2>1. UNCHANGED outVars /\ pc = "sending" /\ pc' = "dead"
      BY <1>4 DEF SendRaises, Die
    <2>2. QED
      BY <1>1, <2>1 DEF SendUnderWay
  <1>5. QED
    BY <1>2, <1>3, <1>4, OutReturns, OutStore DEF Send

LEMMA OutConnect ==
    ASSUME TypeOK, SocketsApart, \A n \in Keys : Whole(n), SendUnderWay, Connect
    PROVE  SocketsApart' /\ (\A m \in Keys' : Whole(m)') /\ SendUnderWay'
  <1>0. PICK n \in Names : n = call.name
    BY ConnectEntry
  <1>1. UNCHANGED <<routed, stream, pc, out>>
    BY DEF Connect, loopVars
  <1>2. PICK e \in Entries : /\ n \in Names /\ e.outBuf = <<>>
                             /\ e.sock # NoSock => sock[e.sock] = "free"
                             /\ sbs' = [sbs EXCEPT ![n] = e]
                             /\ sock' = IF e.sock = NoSock THEN sock
                                        ELSE [sock EXCEPT ![e.sock] = "open"]
    BY <1>0, ConnectEntry
  <1>3. e.sock \in Socks \cup {NoSock}
    BY DEF Entries
  <1>4. /\ \A m \in Keys' : m # n => m \in Keys /\ sbs'[m] = sbs[m]
        /\ sbs'[n] = e
        /\ Keys \subseteq Keys'
    <2>1. e # NoEntry
      BY Constants
    <2>2. QED
      BY <1>2, <2>1 DEF Keys, TypeOK
  <1>5. \A m \in Keys' : m # n /\ e.sock # NoSock => sbs'[m].sock # e.sock
    BY <1>2, <1>4 DEF SocketsApart
  <1>6. \A k \in Socks : (sock'[k] = "free" => sock[k] = "free")
                        /\ (sock[k] # "free" => sock'[k] # "free")
    BY <1>2 DEF TypeOK
  <1>7. e.sock # NoSock => sock'[e.sock] # "free"
    BY <1>2, <1>3 DEF TypeOK
  <1>8. e.sock # NoSock => stream[e.sock] = <<>> /\ routed[e.sock] = <<>>
    BY <1>2, <1>3 DEF SocketsApart
  <1>9. stray'[n] = <<>> /\ \A m \in Names : m # n => stray'[m] = stray[m]
    BY <1>0, <1>2 DEF Connect, TypeOK
  <1>10. SocketsApart'
    <2>1. ASSUME NEW m1 \in Keys', NEW m2 \in Keys', m1 # m2, sbs'[m1].sock # NoSock
          PROVE  sbs'[m1].sock # sbs'[m2].sock
      BY <1>4, <1>5, <2>1 DEF SocketsApart
    <2>2. ASSUME NEW m \in Keys', sbs'[m].sock # NoSock
          PROVE  sock'[sbs'[m].sock] # "free"
      <3>1. CASE m = n
        BY <1>4, <1>7, <2>2, <3>1
      <3>2. CASE m # n
        BY <1>4, <1>6, <2>2, <3>2, KeyTypes DEF SocketsApart
      <3>3. QED
        BY <3>1, <3>2
    <2>3. QED
      BY <1>1, <1>6, <2>1, <2>2 DEF SocketsApart
  \* A send in progress has another socket than the new entry.
  <1>11. pc \in {"sending", "store"} => e.sock # out.sock /\ out.sock \in Socks
    <2>1. pc \in {"sending", "store"} => out.sock \in Socks /\ sock[out.sock] # "free"
      BY DEF SendUnderWay
    <2>2. QED
      BY <1>2, <2>1, Constants
  <1>12. ASSUME NEW m \in Keys' PROVE Whole(m)'
    <2>1. CASE m = n
      <3>1. Waiting(m)' = <<>>
        BY <1>1, <1>2, <1>4, <1>11, <2>1 DEF Waiting
      <3>2. sbs'[m] = e /\ stray'[m] = <<>> /\ e.outBuf = <<>>
        BY <1>2, <1>4, <1>9, <2>1
      <3>3. e.sock # NoSock =>
              stream'[e.sock] = <<>> /\ UnitsOf(routed'[e.sock]) = <<>>
        BY <1>1, <1>8, UnitsOfNone
      <3>4. QED
        BY <3>1, <3>2, <3>3, UnitsOfNone DEF Whole
    <2>2. CASE m # n
      <3>1. m \in Keys /\ m \in Names /\ sbs'[m] = sbs[m] /\ stray'[m] = stray[m]
        BY <1>4, <1>9, <2>2 DEF Keys
      <3>2. Waiting(m)' = Waiting(m)
        BY <1>1, <3>1 DEF Waiting
      <3>3. Whole(m)
        BY <3>1
      <3>4. QED
        BY <1>1, <3>1, <3>2, <3>3 DEF Whole
    <2>3. QED
      BY <2>1, <2>2
  <1>13. SendUnderWay'
    <2>1. pc \in {"call", "sending", "store"} =>
            out \in Sends /\ out.name \in Keys /\ out.name \in Keys'
      BY <1>4 DEF SendUnderWay
    <2>2. ASSUME pc \in {"sending", "store"}
          PROVE  /\ sock'[out.sock] # "free"
                 /\ \A m \in Keys' : sbs'[m].sock = out.sock => m = out.name
                 /\ sbs'[out.name].sock # out.sock => Fresh(out.name)'
                 /\ pc = "sending" /\ sbs'[out.name].sock = out.sock
                       => sbs'[out.name].outBuf = out.buf
      <3>1. /\ out.sock \in Socks /\ sock[out.sock] # "free"
            /\ \A m \in Keys : sbs[m].sock = out.sock => m = out.name
            /\ sbs[out.name].sock # out.sock => Fresh(out.name)
            /\ pc = "sending" /\ sbs[out.name].sock = out.sock
                   => sbs[out.name].outBuf = out.buf
        BY <2>2 DEF SendUnderWay
      <3>2. \A m \in Keys' : sbs'[m].sock = out.sock => m = out.name
        BY <1>4, <1>11, <2>2, <3>1
      <3>3. CASE out.name = n
        <4>1. sbs'[out.name].sock # out.sock
          BY <1>4, <1>11, <2>2, <3>3
        <4>2. Fresh(out.name)'
          BY <1>1, <1>2, <1>4, <1>8, <1>9, <3>3 DEF Fresh
        <4>3. QED
          BY <1>6, <3>1, <3>2, <4>1, <4>2
      <3>4. CASE out.name # n
        <4>1. sbs'[out.name] = sbs[out.name] /\ stray'[out.name] = stray[out.name]
          BY <1>4, <1>9, <2>1, <2>2, <3>4 DEF Keys
        <4>2. Fresh(out.name) => Fresh(out.name)'
          BY <1>1, <4>1 DEF Fresh
        <4>3. QED
          BY <1>6, <3>1, <3>2, <4>1, <4>2
      <3>5. QED
        BY <3>3, <3>4
    <2>3. pc \in {"sending", "store"} => out.sock \in Socks
      BY <1>11
    <2>4. QED
      BY <1>1, <2>1, <2>2, <2>3 DEF SendUnderWay
  <1>14. QED
    BY <1>10, <1>12, <1>13

LEMMA OutStep ==
    ASSUME TypeOK, LoopsOverKeys, SocketsApart, StreamsWhole, SendUnderWay, [Next]_vars
    PROVE  SocketsApart' /\ StreamsWhole' /\ SendUnderWay'
  <1> USE DEF mainVars, outVars
  <1>0. \A n \in Keys : Whole(n)
    BY DEF StreamsWhole, Whole
  \* A step that leaves alone what the equations and the sends are about.
  <1>1. ASSUME UNCHANGED <<routed, stream, stray>>, Keys' = Keys,
               SameSend,
               \A n \in Keys : sbs'[n].sock = sbs[n].sock /\ sbs'[n].outBuf = sbs[n].outBuf,
               \A k \in Socks : sock'[k] = "free" <=> sock[k] = "free"
        PROVE  SocketsApart' /\ (\A n \in Keys' : Whole(n)') /\ SendUnderWay'
    <2>1. SocketsApart'
      BY <1>1, KeyTypes DEF SocketsApart
    <2>2. ASSUME NEW n \in Keys PROVE Whole(n)'
      <3>1. Waiting(n)' = Waiting(n) /\ Whole(n)
        BY <1>0, <1>1 DEF Waiting, Idle, SameSend
      <3>2. QED
        BY <1>1, <3>1 DEF Whole
    <2>3. \A n \in Keys : Fresh(n) => Fresh(n)'
      BY <1>1 DEF Fresh
    <2>4. CASE Idle'
      BY <1>1, <2>1, <2>2, <2>4 DEF SendUnderWay, Idle
    <2>5. CASE UNCHANGED <<pc, out>>
      <3>1. SendUnderWay'
        BY <1>1, <2>3, <2>5 DEF SendUnderWay
      <3>2. QED
        BY <1>1, <2>1, <2>2, <3>1
    <2>6. QED
      BY <1>1, <2>4, <2>5 DEF SameSend
  <1>2. ASSUME UNCHANGED outVars, SameSend
        PROVE  SocketsApart' /\ (\A n \in Keys' : Whole(n)') /\ SendUnderWay'
    <2>1. Keys' = Keys
      BY <1>2 DEF Keys
    <2>2. QED
      BY <1>1, <1>2, <2>1
  <1>3. ASSUME NEW n \in Names, NEW nl \in NodeLists, Renode(n, nl)
        PROVE  SocketsApart' /\ (\A m \in Keys' : Whole(m)') /\ SendUnderWay'
    <2>1. n \in Keys /\ sbs' = [sbs EXCEPT ![n] = [sbs[n] EXCEPT !.nodes = nl]]
          /\ UNCHANGED <<sock, routed, stream, stray, pc, out>>
      BY <1>3 DEF Renode, Keys, loopVars
    <2>2. sbs[n] \in Entries /\ nl \in SUBSET Nodes
      BY <2>1, KeyTypes, Constants
    <2>3. [sbs[n] EXCEPT !.nodes = nl] \in Entries
      BY <2>2 DEF Entries
    <2>4. [sbs[n] EXCEPT !.nodes = nl] # NoEntry
      BY <2>3, Constants
    <2>5. Keys' = Keys
      BY <2>1, <2>4 DEF Keys, TypeOK
    <2>6. \A m \in Keys : sbs'[m].sock = sbs[m].sock /\ sbs'[m].outBuf = sbs[m].outBuf
      BY <2>1, <2>2, KeyTypes DEF TypeOK, Entries
    <2>7. QED
      BY <1>1, <2>1, <2>5, <2>6 DEF SameSend
  <1>4. ASSUME \/ \E n \in Names, a \in Addrs, nl \in NodeLists : Rehost(n, a, nl)
               \/ \E k \in Socks : SBGoes(k) \/ SBStalls(k)
        PROVE  SocketsApart' /\ (\A m \in Keys' : Whole(m)') /\ SendUnderWay'
    <2>1. UNCHANGED <<sbs, routed, stream, stray, pc, out>>
      BY <1>4 DEF Rehost, SBGoes, SBStalls, loopVars
    <2>2. \A k \in Socks : sock'[k] = "free" <=> sock[k] = "free"
      <3>1. ASSUME NEW n \in Names, NEW a \in Addrs, NEW nl \in NodeLists, Rehost(n, a, nl)
            PROVE  \A k \in Socks : sock'[k] = "free" <=> sock[k] = "free"
        <4>1. n \in Keys
          BY <3>1 DEF Rehost, Keys
        <4>2. sbs[n].sock # NoSock => sock[sbs[n].sock] # "free"
          BY <4>1 DEF SocketsApart
        <4>3. QED
          BY <3>1, <4>2 DEF Rehost, TypeOK
      <3>2. ASSUME NEW j \in Socks, SBGoes(j) \/ SBStalls(j)
            PROVE  \A k \in Socks : sock'[k] = "free" <=> sock[k] = "free"
        BY <3>2 DEF SBGoes, SBStalls, TypeOK
      <3>3. QED
        BY <1>4, <3>1, <3>2
    <2>3. Keys' = Keys
      BY <2>1 DEF Keys
    <2>4. QED
      BY <1>1, <2>1, <2>2, <2>3 DEF SameSend
  <1>5. SocketsApart' /\ (\A n \in Keys' : Whole(n)') /\ SendUnderWay'
    BY <1>0, <1>2, <1>3, <1>4, OutSteps, OutDeliver, OutSend, OutConnect
  <1>6. StreamsWhole'
    BY <1>5 DEF StreamsWhole, Whole
  <1>7. QED
    BY <1>5, <1>6

-----------------------------------------------------------------------------
\* The feeds' queues: a step takes units off either end, or a feed sends.

\* The first d units of f's queue go, and some of its end may be lost.
QueueCut(f, d) ==
    /\ sent'[f] = sent[f]
    /\ Len(Queue(f)') + d <= Len(Queue(f))
    /\ \A i \in 1 .. Len(Queue(f)') : Queue(f)'[i] = Queue(f)[i + d]

LEMMA QueueType ==
    ASSUME TypeOK, NEW f \in Feeds
    PROVE  /\ Queue(f) \in Seq(UnitSet)
           /\ inbuf[f] \in Seq(UnitSet) /\ wire[f] \in Seq(UnitSet)
           /\ Len(inbuf[f]) \in Nat /\ Len(wire[f]) \in Nat /\ Len(Queue(f)) \in Nat
           /\ Len(Queue(f)) = Len(inbuf[f]) + Len(wire[f])
           /\ \A i \in 1 .. Len(inbuf[f]) : Queue(f)[i] = inbuf[f][i]
           /\ \A i \in 1 .. Len(wire[f]) : Queue(f)[Len(inbuf[f]) + i] = wire[f][i]
           /\ \A i \in 1 .. Len(Queue(f)) : Queue(f)[i].rec \in Records
  <1>1. inbuf[f] \in Seq(UnitSet) /\ wire[f] \in Seq(UnitSet)
    BY DEF TypeOK
  <1>2. /\ Queue(f) \in Seq(UnitSet)
        /\ Len(inbuf[f]) \in Nat /\ Len(wire[f]) \in Nat
        /\ Len(Queue(f)) = Len(inbuf[f]) + Len(wire[f])
        /\ \A i \in 1 .. Len(inbuf[f]) : Queue(f)[i] = inbuf[f][i]
        /\ \A i \in 1 .. Len(wire[f]) : Queue(f)[Len(inbuf[f]) + i] = wire[f][i]
    <2>1. PICK s \in Seq(UnitSet), t \in Seq(UnitSet) : s = inbuf[f] /\ t = wire[f]
      BY <1>1
    <2>2. /\ s \o t \in Seq(UnitSet)
          /\ Len(s) \in Nat /\ Len(t) \in Nat
          /\ Len(s \o t) = Len(s) + Len(t)
          /\ \A i \in 1 .. Len(s) : (s \o t)[i] = s[i]
          /\ \A i \in 1 .. Len(t) : (s \o t)[Len(s) + i] = t[i]
      BY ConcatParts
    <2>3. QED
      BY <2>1, <2>2, Zenon DEF Queue
  <1>3. \A i \in 1 .. Len(Queue(f)) : Queue(f)[i] \in UnitSet
    BY <1>2, ElementOfSeq
  <1>4. \A i \in 1 .. Len(Queue(f)) : Queue(f)[i].rec \in Records
    BY <1>3 DEF UnitSet
  <1>5. Len(Queue(f)) \in Nat
    BY <1>2, LenProperties
  <1>6. QED
    BY <1>1, <1>2, <1>4, <1>5, Zenon

\* f sends one record, of two units.
SentOne(f) ==
    LET a == Len(Queue(f))
    IN  /\ sent'[f] = sent[f] + 1
        /\ Len(Queue(f)') = a + 2
        /\ \A i \in 1 .. a : Queue(f)'[i] = Queue(f)[i]
        /\ \A i \in {a + 1, a + 2} : /\ Queue(f)'[i].rec.feed = f
                                     /\ Queue(f)'[i].rec.n = sent[f] + 1

LEMMA SendAppends ==
    ASSUME TypeOK, NEW f \in Feeds, NEW k \in Kinds, FeedSend(f, k)
    PROVE  SentOne(f)
  <1> DEFINE r == [feed |-> f, n |-> sent[f] + 1, kind |-> k]
  <1>1. PICK m \in Nat : m = sent[f] /\ m < MaxRecs /\ MaxRecs \in Nat
    BY Constants DEF FeedSend, TypeOK
  <1>2. r \in Records
    BY <1>1 DEF Records
  <1>3. /\ sent'[f] = sent[f] + 1 /\ inbuf'[f] = inbuf[f]
        /\ wire'[f] = wire[f] \o Units(r)
    BY DEF FeedSend, TypeOK, inVars
  <1>4. PICK u \in Seq(UnitSet) :
          /\ u = Units(r) /\ Len(u) = 2
          /\ u[1] = Unit(r, 1) /\ u[2] = Unit(r, 2)
    BY <1>2, UnitsType
  <1>5. PICK s \in Seq(UnitSet), t \in Seq(UnitSet) : s = inbuf[f] /\ t = wire[f]
    BY DEF TypeOK
  <1>6. PICK q \in Seq(UnitSet) : q = s \o t /\ q = Queue(f)
    BY <1>5, ConcatParts DEF Queue
  <1>7. (s \o t) \o u = s \o (t \o u)
    BY UnitConcat, Zenon
  <1>8. Queue(f)' = q \o u
    <2>1. Queue(f)' = s \o (t \o u)
      BY <1>3, <1>4, <1>5 DEF Queue
    <2>2. QED
      BY <1>6, <1>7, <2>1
  <1>9. /\ Len(q) \in Nat /\ Len(q \o u) = Len(q) + 2
        /\ \A i \in 1 .. Len(q) : (q \o u)[i] = q[i]
        /\ (q \o u)[Len(q) + 1] = u[1] /\ (q \o u)[Len(q) + 2] = u[2]
    <2>1. /\ Len(q) \in Nat /\ Len(q \o u) = Len(q) + Len(u)
          /\ \A i \in 1 .. Len(q) : (q \o u)[i] = q[i]
          /\ \A i \in 1 .. Len(u) : (q \o u)[Len(q) + i] = u[i]
      BY ConcatParts
    <2>2. 1 \in 1 .. 2 /\ 2 \in 1 .. 2
      OBVIOUS
    <2>3. QED
      BY <1>4, <2>1, <2>2, Zenon
  <1>10. /\ u[1].rec.feed = f /\ u[1].rec.n = sent[f] + 1
         /\ u[2].rec.feed = f /\ u[2].rec.n = sent[f] + 1
    BY <1>4 DEF Unit
  <1>11. QED
    BY <1>3, <1>6, <1>8, <1>9, <1>10, Zenon DEF SentOne

LEMMA QueueNext ==
    ASSUME TypeOK', NEW f \in Feeds PROVE Len(Queue(f)') \in Nat
  <1>1. PICK s \in Seq(UnitSet), t \in Seq(UnitSet) : s = inbuf'[f] /\ t = wire'[f]
    BY DEF TypeOK
  <1>2. Queue(f)' = s \o t
    BY <1>1 DEF Queue
  <1>3. s \o t \in Seq(UnitSet)
    BY ConcatParts
  <1>4. QED
    BY <1>2, <1>3, LenProperties

LEMMA SameQueue ==
    ASSUME TypeOK, NEW f \in Feeds,
           inbuf'[f] \o wire'[f] = Queue(f), sent'[f] = sent[f]
    PROVE  QueueCut(f, 0)
  <1>1. Queue(f)' = Queue(f) /\ Len(Queue(f)) \in Nat
    BY QueueType DEF Queue
  <1>2. QED
    BY <1>1 DEF QueueCut

LEMMA ClosedQueue ==
    ASSUME TypeOK, NEW f \in Feeds,
           inbuf'[f] = <<>>, wire'[f] = <<>>, sent'[f] = sent[f]
    PROVE  QueueCut(f, 0)
  <1>1. Queue(f)' = <<>>
    BY DEF Queue
  <1>2. Len(Queue(f)') = 0 /\ Len(Queue(f)) \in Nat
    BY <1>1, QueueType
  <1>3. QED
    BY <1>2 DEF QueueCut

\* A complete record is cut off.
LEMMA RecordCut ==
    ASSUME TypeOK, NEW f \in Feeds, RouteRecord(f)
    PROVE  /\ QueueCut(f, 2)
           /\ Len(Queue(f)) >= 2 /\ Queue(f)[1].rec = inbuf[f][1].rec
           /\ \A g \in Feeds : g # f => inbuf'[g] = inbuf[g]
           /\ UNCHANGED <<wire, sent>>
  <1> DEFINE rest == SubSeq(inbuf[f], 3, Len(inbuf[f]))
  <1>1. /\ Len(inbuf[f]) >= 2 /\ inbuf' = [inbuf EXCEPT ![f] = rest]
        /\ UNCHANGED <<wire, sent>>
    BY DEF RouteRecord, feedVars
  <1>2. inbuf'[f] = rest /\ \A g \in Feeds : g # f => inbuf'[g] = inbuf[g]
    BY <1>1 DEF TypeOK
  <1>3. inbuf[f] \in Seq(UnitSet) /\ wire[f] \in Seq(UnitSet)
    BY DEF TypeOK
  <1>4. /\ Len(rest \o wire[f]) + 2 = Len(inbuf[f] \o wire[f])
        /\ \A i \in 1 .. Len(rest \o wire[f]) :
             (rest \o wire[f])[i] = (inbuf[f] \o wire[f])[i + 2]
    BY <1>1, <1>3, DropTwo
  <1>5. Queue(f)' = rest \o wire[f] /\ Queue(f) = inbuf[f] \o wire[f]
    BY <1>1, <1>2 DEF Queue
  <1> HIDE DEF rest
  <1>6. Len(Queue(f)) \in Nat
    BY QueueType
  <1>7. QueueCut(f, 2)
    <2>1. Len(Queue(f)') + 2 <= Len(Queue(f))
      <3>1. PICK m \in Nat : m = Len(Queue(f))
        BY <1>6
      <3>2. Len(Queue(f)') + 2 = m
        BY <1>4, <1>5, <3>1
      <3>3. m <= m
        OBVIOUS
      <3>4. QED
        BY <3>1, <3>2, <3>3, Zenon
    <2>2. \A i \in 1 .. Len(Queue(f)') : Queue(f)'[i] = Queue(f)[i + 2]
      BY <1>4, <1>5
    <2>3. sent'[f] = sent[f]
      BY <1>1
    <2>4. QED
      BY <2>1, <2>2, <2>3 DEF QueueCut
  <1>8. Len(Queue(f)) >= 2 /\ Queue(f)[1].rec = inbuf[f][1].rec
    <2>1. /\ Len(Queue(f)) = Len(inbuf[f]) + Len(wire[f])
          /\ Len(inbuf[f]) \in Nat /\ Len(wire[f]) \in Nat
          /\ \A i \in 1 .. Len(inbuf[f]) : Queue(f)[i] = inbuf[f][i]
      BY QueueType
    <2>2. 1 \in 1 .. Len(inbuf[f])
      BY <1>1, <2>1
    <2>3. Len(Queue(f)) >= 2
      <3>1. PICK a \in Nat, b \in Nat : a = Len(inbuf[f]) /\ b = Len(wire[f])
        BY <2>1
      <3>2. a >= 2 /\ Len(Queue(f)) = a + b
        BY <1>1, <2>1, <3>1, Zenon
      <3>3. a + b >= 2
        BY <3>2
      <3>4. QED
        BY <3>2, <3>3, Zenon
    <2>4. QED
      BY <2>1, <2>2, <2>3
  <1>9. QED
    BY <1>1, <1>2, <1>7, <1>8

LEMMA QueueSteps ==
    ASSUME TypeOK, TypeOK', [Next]_vars, NEW f \in Feeds
    PROVE  \/ \E d \in Nat : QueueCut(f, d)
           \/ \E k \in Kinds : FeedSend(f, k)
  <1> USE DEF feedVars, inVars, loopVars, mainVars, outVars
  <1>0. /\ inbuf[f] \in Seq(UnitSet) /\ wire[f] \in Seq(UnitSet)
        /\ Len(inbuf[f]) \in Nat /\ Len(Queue(f)) \in Nat
    BY QueueType
  <1>1. ASSUME inbuf'[f] = inbuf[f], wire'[f] = wire[f], sent'[f] = sent[f]
        PROVE  QueueCut(f, 0)
    BY <1>1, SameQueue DEF Queue
  <1>2. CASE UNCHANGED vars
    BY <1>1, <1>2 DEF vars
  <1>3. ASSUME NEW g \in Feeds, FeedClose(g) PROVE QueueCut(f, 0)
    <2>1. CASE wire' = wire
      BY <1>1, <1>3, <2>1 DEF FeedClose
    <2>2. CASE wire' = [wire EXCEPT ![g] = <<>>]
      <3>1. CASE f # g
        BY <1>1, <1>3, <2>2, <3>1 DEF FeedClose, TypeOK
      <3>2. CASE f = g
        <4>1. wire'[f] = <<>> /\ inbuf'[f] = inbuf[f] /\ sent'[f] = sent[f]
          BY <1>3, <2>2, <3>2 DEF FeedClose, TypeOK
        <4>2. Queue(f)' = inbuf[f]
          BY <1>0, <4>1, ConcatEmptySeq DEF Queue
        <4>3. \A i \in 1 .. Len(inbuf[f]) : inbuf[f][i] = Queue(f)[i]
          BY QueueType
        <4>4. Len(inbuf[f]) + 0 <= Len(Queue(f))
          <5>1. /\ Len(Queue(f)) = Len(inbuf[f]) + Len(wire[f])
                /\ Len(inbuf[f]) \in Nat /\ Len(wire[f]) \in Nat
            BY QueueType
          <5>2. PICK a \in Nat, b \in Nat : a = Len(inbuf[f]) /\ b = Len(wire[f])
            BY <5>1
          <5>3. a + 0 <= a + b
            OBVIOUS
          <5>4. QED
            BY <5>1, <5>2, <5>3, Zenon
        <4>5. \A i \in 1 .. Len(inbuf[f]) : i + 0 = i
          OBVIOUS
        <4>6. QED
          BY <4>1, <4>2, <4>3, <4>4, <4>5 DEF QueueCut
      <3>3. QED
        BY <3>1, <3>2
    <2>3. QED
      BY <1>3, <2>1, <2>2 DEF FeedClose
  <1>4. ASSUME NEW g \in Feeds, OnAccept(g) PROVE QueueCut(f, 0)
    BY <1>1, <1>4 DEF OnAccept
  <1>5. ASSUME NEW g \in Feeds, OnRead(g) PROVE QueueCut(f, 0)
    <2>1. PICK i \in 1 .. Len(wire[g]) :
            /\ inbuf' = [inbuf EXCEPT ![g] = @ \o SubSeq(wire[g], 1, i)]
            /\ wire' = [wire EXCEPT ![g] = SubSeq(@, i + 1, Len(@))]
      BY <1>5 DEF OnRead
    <2>2. CASE f # g
      BY <1>1, <1>5, <2>1, <2>2 DEF OnRead, TypeOK
    <2>3. CASE f = g
      <3>1. /\ inbuf'[f] = inbuf[f] \o SubSeq(wire[f], 1, i)
            /\ wire'[f] = SubSeq(wire[f], i + 1, Len(wire[f]))
            /\ sent'[f] = sent[f]
        BY <1>5, <2>1, <2>3 DEF OnRead, TypeOK
      <3>2. i \in 0 .. Len(wire[f])
        BY <2>3
      <3>3. /\ SubSeq(wire[f], 1, i) \in Seq(UnitSet)
            /\ SubSeq(wire[f], i + 1, Len(wire[f])) \in Seq(UnitSet)
            /\ SubSeq(wire[f], 1, i) \o SubSeq(wire[f], i + 1, Len(wire[f])) = wire[f]
        BY <1>0, <3>2, CutInTwo
      <3>4. (inbuf[f] \o SubSeq(wire[f], 1, i)) \o SubSeq(wire[f], i + 1, Len(wire[f]))
              = inbuf[f] \o (SubSeq(wire[f], 1, i) \o SubSeq(wire[f], i + 1, Len(wire[f])))
        BY <1>0, <3>3, UnitConcat, Zenon
      <3>5. inbuf'[f] \o wire'[f] = Queue(f)
        BY <3>1, <3>3, <3>4 DEF Queue
      <3>6. QED
        BY <3>1, <3>5, SameQueue
    <2>4. QED
      BY <2>2, <2>3
  <1>6. ASSUME NEW g \in Feeds, CloseConnection(g) PROVE QueueCut(f, 0)
    <2>1. CASE f # g
      BY <1>1, <1>6, <2>1 DEF CloseConnection, TypeOK
    <2>2. CASE f = g
      <3>1. inbuf'[f] = <<>> /\ wire'[f] = <<>> /\ sent'[f] = sent[f]
        BY <1>6, <2>2 DEF CloseConnection, TypeOK
      <3>2. QED
        BY <3>1, ClosedQueue
    <2>3. QED
      BY <2>1, <2>2
  <1>7. ASSUME NEW g \in Feeds, OnEnd(g) PROVE QueueCut(f, 0)
    BY <1>6, <1>7 DEF OnEnd
  <1>8. ASSUME NEW g \in Feeds, NEW k \in Kinds, FeedSend(g, k), f # g
        PROVE  QueueCut(f, 0)
    BY <1>1, <1>8 DEF FeedSend, TypeOK
  <1>9. CASE Route
    <2>1. PICK g \in Feeds : RouteMore(g) \/ RouteBad(g) \/ RouteRecord(g) \/ RouteLost(g)
      BY <1>9, RouteFeed
    <2>2. RouteMore(g) \/ RouteBad(g) \/ RouteRecord(g) \/ RouteLost(g)
      BY <2>1
    <2>3. CASE RouteMore(g) \/ RouteLost(g)
      <3>1. inbuf' = inbuf /\ wire' = wire /\ sent' = sent
        BY <2>3 DEF RouteMore, RouteLost
      <3>2. QED
        BY <1>1, <3>1
    <2>4. CASE RouteBad(g)
      BY <1>6, <2>1, <2>4 DEF RouteBad
    <2>5. CASE RouteRecord(g)
      <3>1. CASE f = g
        BY <2>5, <3>1, RecordCut
      <3>2. CASE f # g
        <4>1. inbuf'[f] = inbuf[f] /\ UNCHANGED <<wire, sent>>
          BY <2>1, <2>5, <3>2, RecordCut
        <4>2. QED
          BY <1>1, <4>1
      <3>3. QED
        BY <3>1, <3>2
    <2>6. QED
      BY <2>2, <2>3, <2>4, <2>5
  <1>10. CASE SendDone
    <2>1. CASE keepalive
      BY <1>1, <1>10, <2>1 DEF SendDone
    <2>2. CASE ~keepalive
      <3>1. inbuf'[f] = <<>> /\ wire'[f] = wire[f] /\ sent'[f] = sent[f]
        BY <1>10, <2>2 DEF SendDone
      <3>2. Queue(f)' = wire[f]
        BY <1>0, <3>1, ConcatEmptySeq DEF Queue
      <3>3. /\ \A i \in 1 .. Len(wire[f]) : wire[f][i] = Queue(f)[Len(inbuf[f]) + i]
            /\ Len(Queue(f)) = Len(inbuf[f]) + Len(wire[f]) /\ Len(wire[f]) \in Nat
        BY QueueType
      <3>4. \A i \in 1 .. Len(wire[f]) : i + Len(inbuf[f]) = Len(inbuf[f]) + i
        BY <1>0
      <3>5. Len(wire[f]) + Len(inbuf[f]) <= Len(Queue(f))
        BY <1>0, <3>3
      <3>6. QueueCut(f, Len(inbuf[f]))
        BY <3>1, <3>2, <3>3, <3>4, <3>5 DEF QueueCut
      <3>7. QED
        BY <1>0, <3>6
    <2>3. QED
      BY <2>1, <2>2
  <1>11. ASSUME \/ DoStuff \/ RouteDone \/ LoopRaises \/ DeliverDone
                \/ Send \/ \E n \in Names : Deliver(n)
         PROVE  QueueCut(f, 0)
    <2>1. inbuf' = inbuf /\ wire' = wire /\ sent' = sent
      BY <1>11, SendLeaves DEF DoStuff, RouteDone, LoopRaises, DeliverDone, Deliver
    <2>2. QED
      BY <1>1, <2>1
  <1>12. ASSUME \/ Connect \/ Shutdown \/ \E k \in Socks : SBGoes(k) \/ SBStalls(k)
                \/ \E n \in Names, a \in Addrs, nl \in NodeLists :
                     Renode(n, nl) \/ Rehost(n, a, nl) \/ AddSB(n, a, nl)
         PROVE  QueueCut(f, 0)
    <2>1. inbuf' = inbuf /\ wire' = wire /\ sent' = sent
      BY <1>12 DEF Connect, Shutdown, SBGoes, SBStalls, Renode, Rehost, AddSB
    <2>2. QED
      BY <1>1, <2>1
  <1>13. QED
    BY <1>2, <1>3, <1>4, <1>5, <1>7, <1>8, <1>9, <1>10, <1>11, <1>12 DEF Next, Thread

\* What has left the queues stays behind them.
LEMMA PassedStep ==
    ASSUME TypeOK, TypeOK', [Next]_vars, NEW r \in Records, Passed(r)
    PROVE  Passed(r)'
  <1> DEFINE f == r.feed
  <1>1. f \in Feeds /\ r.n \in Nat
    BY DEF Records
  <1>2. sent[f] \in Nat /\ sent'[f] \in Nat
    BY <1>1 DEF TypeOK
  <1>3. r.n <= sent[f] /\ \A i \in 1 .. Len(Queue(f)) : r.n < Queue(f)[i].rec.n
    BY DEF Passed
  <1>4. ASSUME NEW d \in Nat, QueueCut(f, d) PROVE Passed(r)'
    <2>1. PICK a \in Nat, b \in Nat : a = Len(Queue(f)) /\ b = Len(Queue(f)')
      <3>1. Len(Queue(f)) \in Nat
        BY <1>1, QueueType
      <3>2. Len(Queue(f)') \in Nat
        BY <1>1, QueueNext
      <3>3. QED
        BY <3>1, <3>2
    <2>2. b + d <= a /\ \A i \in 1 .. b : Queue(f)'[i] = Queue(f)[i + d]
      BY <1>4, <2>1, Zenon DEF QueueCut
    <2>3. \A i \in 1 .. b : i + d \in 1 .. a
      BY <2>2
    <2>4. \A i \in 1 .. b : r.n < Queue(f)'[i].rec.n
      BY <1>3, <2>1, <2>2, <2>3, Zenon
    <2>5. r.n <= sent'[f]
      BY <1>3, <1>4 DEF QueueCut
    <2>6. QED
      BY <2>1, <2>4, <2>5, Zenon DEF Passed
  <1>5. ASSUME NEW k \in Kinds, FeedSend(f, k) PROVE Passed(r)'
    <2>1. SentOne(f)
      BY <1>1, <1>5, SendAppends
    <2>2. PICK a \in Nat : a = Len(Queue(f))
      BY <1>1, QueueType
    <2>3. /\ sent'[f] = sent[f] + 1 /\ Len(Queue(f)') = a + 2
          /\ \A i \in 1 .. a : Queue(f)'[i] = Queue(f)[i]
          /\ Queue(f)'[a + 1].rec.n = sent[f] + 1
          /\ Queue(f)'[a + 2].rec.n = sent[f] + 1
      BY <2>1, <2>2, Zenon DEF SentOne
    <2>4. r.n < sent[f] + 1 /\ r.n <= sent[f] + 1
      BY <1>1, <1>2, <1>3
    <2>5. ASSUME NEW i \in 1 .. a + 2 PROVE r.n < Queue(f)'[i].rec.n
      <3>1. i \in 1 .. a \/ i = a + 1 \/ i = a + 2
        OBVIOUS
      <3>2. QED
        BY <1>3, <2>2, <2>3, <2>4, <3>1, Zenon
    <2>6. QED
      BY <2>3, <2>4, <2>5, Zenon DEF Passed
  <1>6. QED
    BY <1>1, <1>4, <1>5, QueueSteps

LEMMA QueuesStep ==
    ASSUME TypeOK, TypeOK', QueuesInOrder, [Next]_vars
    PROVE  QueuesInOrder'
  <1> SUFFICES ASSUME NEW f \in Feeds
               PROVE  \A i \in 1 .. Len(Queue(f)') :
                        /\ Queue(f)'[i].rec.feed = f
                        /\ Queue(f)'[i].rec.n <= sent'[f]
                        /\ \A j \in 1 .. Len(Queue(f)') :
                             i + 1 < j => Queue(f)'[i].rec.n < Queue(f)'[j].rec.n
    BY DEF QueuesInOrder
  <1>1. PICK a \in Nat : a = Len(Queue(f))
    BY QueueType
  <1>2. \A i \in 1 .. a : /\ Queue(f)[i].rec.feed = f
                          /\ Queue(f)[i].rec.n <= sent[f]
                          /\ Queue(f)[i].rec.n \in Nat
                          /\ \A j \in 1 .. a :
                               i + 1 < j => Queue(f)[i].rec.n < Queue(f)[j].rec.n
    <2>1. \A i \in 1 .. a : Queue(f)[i].rec.n \in Nat
      <3>1. \A i \in 1 .. a : Queue(f)[i].rec \in Records
        BY <1>1, QueueType
      <3>2. \A r \in Records : r.n \in Nat
        BY DEF Records
      <3>3. QED
        BY <3>1, <3>2
    <2>2. QED
      BY <1>1, <2>1, Zenon DEF QueuesInOrder
  <1>3. ASSUME NEW d \in Nat, QueueCut(f, d)
        PROVE  \A i \in 1 .. Len(Queue(f)') :
                        /\ Queue(f)'[i].rec.feed = f
                        /\ Queue(f)'[i].rec.n <= sent'[f]
                        /\ \A j \in 1 .. Len(Queue(f)') :
                             i + 1 < j => Queue(f)'[i].rec.n < Queue(f)'[j].rec.n
    <2>1. PICK b \in Nat : b = Len(Queue(f)')
      BY QueueNext
    <2>2. /\ b + d <= a /\ sent'[f] = sent[f]
          /\ \A i \in 1 .. b : Queue(f)'[i] = Queue(f)[i + d]
      BY <1>1, <1>3, <2>1, Zenon DEF QueueCut
    <2>3. ASSUME NEW i \in 1 .. b
          PROVE  /\ Queue(f)'[i].rec.feed = f
                 /\ Queue(f)'[i].rec.n <= sent'[f]
                 /\ \A j \in 1 .. b :
                      i + 1 < j => Queue(f)'[i].rec.n < Queue(f)'[j].rec.n
      <3>1. i + d \in 1 .. a
        BY <2>2
      <3>2. \A j \in 1 .. b : i + 1 < j => j + d \in 1 .. a /\ i + d + 1 < j + d
        BY <2>2
      <3>3. QED
        BY <1>2, <2>2, <3>1, <3>2, Zenon
    <2>4. QED
      BY <2>1, <2>3, Zenon
  <1>4. ASSUME NEW k \in Kinds, FeedSend(f, k)
        PROVE  \A i \in 1 .. Len(Queue(f)') :
                        /\ Queue(f)'[i].rec.feed = f
                        /\ Queue(f)'[i].rec.n <= sent'[f]
                        /\ \A j \in 1 .. Len(Queue(f)') :
                             i + 1 < j => Queue(f)'[i].rec.n < Queue(f)'[j].rec.n
    <2>1. SentOne(f)
      BY <1>4, SendAppends
    <2>2. PICK m \in Nat : m = sent[f]
      BY DEF TypeOK
    <2>3. /\ sent'[f] = m + 1 /\ Len(Queue(f)') = a + 2
          /\ \A i \in 1 .. a : Queue(f)'[i] = Queue(f)[i]
          /\ Queue(f)'[a + 1].rec.n = m + 1 /\ Queue(f)'[a + 1].rec.feed = f
          /\ Queue(f)'[a + 2].rec.n = m + 1 /\ Queue(f)'[a + 2].rec.feed = f
      BY <1>1, <2>1, <2>2, Zenon DEF SentOne
    <2>4. \A i \in 1 .. a : Queue(f)[i].rec.n <= m + 1 /\ Queue(f)[i].rec.n < m + 1
      <3>1. \A i \in 1 .. a : Queue(f)[i].rec.n \in Nat /\ Queue(f)[i].rec.n <= m
        BY <1>2, <2>2, Zenon
      <3>2. \A x \in Nat : x <= m => x <= m + 1 /\ x < m + 1
        OBVIOUS
      <3>3. QED
        BY <3>1, <3>2, Zenon
    <2>5. m + 1 <= m + 1
      OBVIOUS
    <2>6. \A i \in 1 .. a + 2 : i \in 1 .. a \/ i = a + 1 \/ i = a + 2
      OBVIOUS
    <2>7. ASSUME NEW i \in 1 .. a + 2
          PROVE  Queue(f)'[i].rec.feed = f /\ Queue(f)'[i].rec.n <= sent'[f]
      BY <1>2, <2>3, <2>4, <2>5, <2>6, Zenon
    <2>8. ASSUME NEW i \in 1 .. a + 2, NEW j \in 1 .. a + 2, i + 1 < j
          PROVE  Queue(f)'[i].rec.n < Queue(f)'[j].rec.n
      <3>1. i \in 1 .. a /\ (j \in 1 .. a \/ j = a + 1 \/ j = a + 2)
        BY <2>8
      <3>2. QED
        BY <1>2, <2>3, <2>4, <2>8, <3>1, Zenon
    <2>9. QED
      BY <2>3, <2>7, <2>8, Zenon
  <1>5. QED
    BY <1>3, <1>4, QueueSteps

-----------------------------------------------------------------------------
\* The order of what is routed.
LEMMA RoutedStep ==
    ASSUME TypeOK, TypeOK', LoopsOverKeys, SocketsApart, QueuesInOrder,
           RoutedArePassed, InFeedOrder, [Next]_vars
    PROVE  RoutedArePassed' /\ InFeedOrder'
  <1> USE DEF feedVars, inVars, loopVars, mainVars, outVars
  <1>0. ASSUME NEW k \in Socks, NEW i \in 1 .. Len(routed[k])
        PROVE  routed[k][i] \in Records /\ Passed(routed[k][i])
    BY <1>0, ElementOfSeq DEF TypeOK, RoutedArePassed
  \* The same records are routed, the loop goes on, if at all, with the record
  \* it had and over connections it had or fresh ones.
  <1>1. ASSUME routed' = routed,
               pc' = "deliver" =>
                 /\ pc = "deliver" /\ raw' = raw
                 /\ \A k \in Socks : (\E n \in left' : sbs'[n].sock = k) =>
                      (\E n \in left : sbs[n].sock = k) \/ routed[k] = <<>>
        PROVE  RoutedArePassed' /\ InFeedOrder'
    <2>1. InFeedOrder'
      BY <1>1 DEF InFeedOrder
    <2>2. ASSUME pc' = "deliver" PROVE Passed(raw)'
      <3>1. PICK r \in Records : r = raw
        BY <1>1, <2>2 DEF LoopsOverKeys
      <3>2. Passed(r)
        BY <1>1, <2>2, <3>1 DEF RoutedArePassed
      <3>3. Passed(r)'
        BY <3>2, PassedStep
      <3>4. raw' = r
        BY <1>1, <2>2, <3>1
      <3>5. QED
        BY <3>3, <3>4 DEF Passed
    <2>3. ASSUME NEW k \in Socks, NEW i \in 1 .. Len(routed[k])
          PROVE  Passed(routed[k][i])'
      <3>1. PICK r \in Records : r = routed[k][i] /\ Passed(r)
        BY <1>0
      <3>2. Passed(r)' /\ routed'[k][i] = r
        BY <1>1, <3>1, PassedStep
      <3>3. QED
        BY <3>2 DEF Passed
    <2>4. ASSUME NEW k \in Socks, NEW i \in 1 .. Len(routed[k]), pc' = "deliver",
                 \E n \in left' : sbs'[n].sock = k, routed[k][i].feed = raw.feed
          PROVE  routed[k][i].n < raw.n
      <3>1. routed[k] # <<>>
        <4>1. routed[k] \in Seq(Records)
          BY DEF TypeOK
        <4>2. QED
          BY <4>1
      <3>2. pc = "deliver" /\ \E n \in left : sbs[n].sock = k
        BY <1>1, <2>4, <3>1
      <3>3. QED
        BY <2>4, <3>2 DEF RoutedArePassed
    <2>5. RoutedArePassed'
      BY <1>1, <2>2, <2>3, <2>4 DEF RoutedArePassed
    <2>6. QED
      BY <2>1, <2>5
  <1>2. CASE UNCHANGED vars
    BY <1>1, <1>2 DEF vars
  <1>3. ASSUME NEW f \in Feeds,
               \/ FeedClose(f) \/ OnAccept(f) \/ OnRead(f) \/ OnEnd(f)
               \/ \E k \in Kinds : FeedSend(f, k)
        PROVE  RoutedArePassed' /\ InFeedOrder'
    <2>1. UNCHANGED <<outVars, raw, left>> /\ (pc' = pc \/ pc' = "dead")
      BY <1>3 DEF FeedClose, OnAccept, OnRead, OnEnd, FeedSend, Die
    <2>2. QED
      BY <1>1, <2>1
  <1>4. CASE Route
    <2>1. PICK f \in Feeds : RouteMore(f) \/ RouteBad(f) \/ RouteRecord(f) \/ RouteLost(f)
      BY <1>4, RouteFeed
    <2>2. RouteMore(f) \/ RouteBad(f) \/ RouteRecord(f) \/ RouteLost(f)
      BY <2>1
    <2>3. UNCHANGED outVars /\ pc = "route"
      BY <1>4 DEF Route
    <2>4. CASE RouteMore(f) \/ RouteBad(f) \/ RouteLost(f)
      <3>1. pc' = pc \/ pc' = "dead"
        BY <2>4 DEF RouteMore, RouteBad, RouteLost, Die
      <3>2. QED
        BY <1>1, <2>3, <3>1
    <2>5. CASE RouteRecord(f)
      <3>1. \/ pc' \in {"route", "dead"}
            \/ pc' = "deliver" /\ raw' = inbuf[f][1].rec
        BY <2>3, <2>5 DEF RouteRecord, Die, LoopOver
      <3>2. CASE pc' \in {"route", "dead"}
        BY <1>1, <2>3, <3>2
      <3>3. CASE pc' = "deliver" /\ raw' = inbuf[f][1].rec
        <4>1. /\ QueueCut(f, 2) /\ sent' = sent
              /\ Len(Queue(f)) >= 2 /\ Queue(f)[1].rec = inbuf[f][1].rec
          BY <2>1, <2>5, RecordCut
        <4>2. PICK a \in Nat : a = Len(Queue(f)) /\ a >= 2
          BY <2>1, <4>1, QueueType
        <4>3. PICK r \in Records : r = Queue(f)[1].rec /\ r.feed = f /\ r.n <= sent[f]
          <5>1. 1 \in 1 .. a
            BY <4>2
          <5>2. Queue(f)[1].rec \in Records
            BY <2>1, <4>2, <5>1, QueueType
          <5>3. QED
            BY <2>1, <4>2, <5>1, <5>2 DEF QueuesInOrder
        <4>4. raw' = r
          BY <3>3, <4>1, <4>3
        <4>5. Passed(raw)'
          <5>1. PICK b \in Nat : b = Len(Queue(f)')
            BY <2>1, QueueNext
          <5>2. b + 2 <= a /\ \A i \in 1 .. b : Queue(f)'[i] = Queue(f)[i + 2]
            BY <4>1, <4>2, <5>1, Zenon DEF QueueCut
          <5>3. \A i \in 1 .. b : i + 2 \in 1 .. a /\ 1 + 1 < i + 2
            BY <5>2
          <5>4. \A j \in 1 .. a : 1 + 1 < j => r.n < Queue(f)[j].rec.n
            <6>1. 1 \in 1 .. a
              BY <4>2
            <6>2. QED
              BY <2>1, <4>2, <4>3, <6>1, Zenon DEF QueuesInOrder
          <5>5. \A i \in 1 .. b : r.n < Queue(f)'[i].rec.n
            BY <5>2, <5>3, <5>4, Zenon
          <5>6. r.n <= sent'[f]
            BY <4>1, <4>3
          <5>7. Passed(r)'
            <6>1. Queue(r.feed)' = Queue(f)' /\ r.n <= sent'[r.feed]
              BY <4>3, <5>6 DEF Queue
            <6>2. \A i \in 1 .. Len(Queue(r.feed)') : r.n < Queue(r.feed)'[i].rec.n
              BY <5>1, <5>5, <6>1, Zenon
            <6>3. QED
              BY <6>1, <6>2, Zenon DEF Passed
          <5>8. QED
            BY <4>4, <5>7 DEF Passed
        <4>6. ASSUME NEW k \in Socks, NEW i \in 1 .. Len(routed[k])
              PROVE  /\ Passed(routed[k][i])'
                     /\ routed[k][i].feed = r.feed => routed[k][i].n < r.n
          <5>1. PICK p \in Records : p = routed[k][i] /\ Passed(p)
            BY <1>0
          <5>2. Passed(p)' /\ routed'[k][i] = p
            BY <2>3, <5>1, PassedStep
          <5>3. Passed(routed[k][i])'
            BY <5>2 DEF Passed
          <5>4. ASSUME p.feed = r.feed PROVE p.n < r.n
            <6>1. 1 \in 1 .. Len(Queue(f)) /\ p.feed = f
              BY <4>2, <4>3, <5>4
            <6>2. QED
              BY <4>3, <5>1, <6>1 DEF Passed
          <5>5. QED
            BY <5>1, <5>3, <5>4
        <4>7. RoutedArePassed'
          BY <2>3, <4>4, <4>5, <4>6 DEF RoutedArePassed
        <4>8. InFeedOrder'
          BY <2>3 DEF InFeedOrder
        <4>9. QED
          BY <4>7, <4>8
      <3>4. QED
        BY <3>1, <3>2, <3>3
    <2>6. QED
      BY <2>2, <2>4, <2>5
  <1>5. CASE DoStuff \/ RouteDone \/ LoopRaises \/ DeliverDone \/ SendDone
    <2>1. UNCHANGED outVars /\ pc' # "deliver"
      BY <1>5 DEF DoStuff, RouteDone, LoopOver, LoopRaises, Die, DeliverDone, SendDone
    <2>2. QED
      BY <1>1, <2>1
  <1>6. CASE Send
    <2>1. routed' = routed /\ pc' # "deliver"
      BY <1>6, SendSteps, SendLeaves
    <2>2. QED
      BY <1>1, <2>1
  <1>7. ASSUME NEW n \in Names, Deliver(n) PROVE RoutedArePassed' /\ InFeedOrder'
    <2> DEFINE e == sbs[n]
               s == e.sock
    <2>1. /\ pc = "deliver" /\ pc' = "deliver" /\ raw' = raw
          /\ n \in left /\ left' = left \ {n}
      BY <1>7 DEF Deliver
    <2>2. n \in Keys /\ raw \in Records
      BY <1>7, DeliverEntry
    <2>3. CASE UNCHANGED <<sbs, routed>>
      BY <1>1, <2>1, <2>3
    <2>4. CASE ~UNCHANGED <<sbs, routed>>
      <3>1. /\ e \in Entries /\ s \in Socks
            /\ sbs' = [sbs EXCEPT ![n] = [e EXCEPT !.outBuf = e.outBuf \o Units(raw)]]
            /\ routed' = [routed EXCEPT ![s] = Append(routed[s], raw)]
        BY <1>7, <2>4, DeliverEntry
      <3>2. \A m \in left' : m \in Keys /\ m # n /\ m \in Names /\ sbs'[m] = sbs[m]
        BY <2>1, <3>1 DEF LoopsOverKeys, Keys, TypeOK
      <3>3. \A m \in left' : sbs'[m].sock # s
        <4>1. s # NoSock
          BY <3>1, Constants
        <4>2. QED
          BY <2>2, <3>2, <4>1 DEF SocketsApart
      <3>4. PICK r \in Records : r = raw /\ Passed(r)
        BY <2>1, <2>2 DEF RoutedArePassed
      <3>5. Passed(r)' /\ raw' = r
        BY <2>1, <3>4, PassedStep
      <3>6. PICK len \in Nat :
              /\ len = Len(routed[s])
              /\ Len(routed'[s]) = len + 1
              /\ \A i \in 1 .. len : routed'[s][i] = routed[s][i]
              /\ routed'[s][len + 1] = r
        <4>1. routed[s] \in Seq(Records) /\ routed'[s] = Append(routed[s], r)
          BY <3>1, <3>4 DEF TypeOK
        <4>2. PICK rs \in Seq(Records) : rs = routed[s]
          BY <4>1
        <4>3. /\ Len(rs) \in Nat /\ Len(Append(rs, r)) = Len(rs) + 1
              /\ \A i \in 1 .. Len(rs) : Append(rs, r)[i] = rs[i]
              /\ Append(rs, r)[Len(rs) + 1] = r
          BY AppendProperties, LenProperties
        <4>4. QED
          BY <4>1, <4>2, <4>3
      <3>7. \A k \in Socks : k # s => routed'[k] = routed[k]
        BY <3>1 DEF TypeOK
      <3>8. ASSUME NEW k \in Socks, NEW i \in 1 .. Len(routed[k])
            PROVE  /\ \E p \in Records : p = routed[k][i] /\ Passed(p)'
                   /\ \A m \in left : sbs[m].sock = k /\ routed[k][i].feed = r.feed
                        => routed[k][i].n < r.n
        <4>1. PICK p \in Records : p = routed[k][i] /\ Passed(p)
          BY <1>0
        <4>2. Passed(p)'
          BY <4>1, PassedStep
        <4>3. \A m \in left : sbs[m].sock = k /\ routed[k][i].feed = r.feed
                        => routed[k][i].n < r.n
          BY <2>1, <3>4 DEF RoutedArePassed
        <4>4. QED
          BY <4>1, <4>2, <4>3
      <3>9. ASSUME NEW k \in Socks, NEW i \in 1 .. Len(routed'[k])
            PROVE  Passed(routed[k][i])'
        <4>1. CASE k # s \/ i <= len
          <5>1. i \in 1 .. Len(routed[k]) /\ routed'[k][i] = routed[k][i]
            BY <3>6, <3>7, <4>1
          <5>2. PICK p \in Records : p = routed[k][i] /\ Passed(p)'
            BY <3>8, <5>1
          <5>3. QED
            BY <5>1, <5>2 DEF Passed
        <4>2. CASE k = s /\ i = len + 1
          <5>1. routed'[k][i] = r
            BY <3>6, <4>2
          <5>2. QED
            BY <3>5, <5>1 DEF Passed
        <4>3. QED
          BY <3>6, <4>1, <4>2
      <3>10. ASSUME NEW k \in Socks, NEW i \in 1 .. Len(routed'[k]), NEW m \in left',
                    sbs'[m].sock = k, routed'[k][i].feed = raw'.feed
             PROVE  routed'[k][i].n < raw'.n
        <4>1. k # s /\ m \in left /\ sbs[m].sock = k
          BY <2>1, <3>2, <3>3, <3>10
        <4>2. QED
          BY <3>5, <3>7, <3>8, <3>10, <4>1
      <3>11. RoutedArePassed'
        <4>1. Passed(raw)'
          BY <3>5 DEF Passed
        <4>2. QED
          BY <3>9, <3>10, <4>1 DEF RoutedArePassed
      <3>12. ASSUME NEW k \in Socks, NEW i \in DOMAIN routed'[k], NEW j \in DOMAIN routed'[k],
                    i < j, routed'[k][i].feed = routed'[k][j].feed
             PROVE  routed'[k][i].n < routed'[k][j].n
        <4>1. CASE k # s
          BY <3>7, <3>12, <4>1 DEF InFeedOrder
        <4>2. CASE k = s
          <5>1. routed[s] \in Seq(Records) /\ routed'[s] \in Seq(Records)
            BY <3>1 DEF TypeOK
          <5>2. i \in 1 .. len + 1 /\ j \in 1 .. len + 1 /\ DOMAIN routed[s] = 1 .. len
            BY <3>6, <4>2, <5>1, LenProperties
          <5>3. CASE j <= len
            <6>1. i \in 1 .. len /\ j \in 1 .. len
              BY <3>12, <5>2, <5>3
            <6>2. QED
              BY <3>6, <3>12, <4>2, <5>2, <6>1 DEF InFeedOrder
          <5>4. CASE j = len + 1
            <6>1. i \in 1 .. len
              BY <3>12, <5>2, <5>4
            <6>2. QED
              BY <2>1, <3>6, <3>8, <3>12, <4>2, <5>4, <6>1
          <5>5. QED
            BY <5>2, <5>3, <5>4
        <4>3. QED
          BY <4>1, <4>2
      <3>13. InFeedOrder'
        BY <3>12 DEF InFeedOrder
      <3>14. QED
        BY <3>11, <3>13
    <2>5. QED
      BY <2>3, <2>4
  <1>8. CASE Connect
    <2>1. routed' = routed /\ UNCHANGED loopVars
      BY <1>8 DEF Connect
    <2>2. PICK e \in Entries : /\ call.name \in Names
                               /\ e.sock # NoSock => sock[e.sock] = "free"
                               /\ sbs' = [sbs EXCEPT ![call.name] = e]
      BY <1>8, ConnectEntry
    <2>3. ASSUME NEW k \in Socks, NEW n \in left', sbs'[n].sock = k
          PROVE  (\E m \in left : sbs[m].sock = k) \/ routed[k] = <<>>
      <3>1. n \in left /\ n \in Names
        BY <2>1 DEF TypeOK
      <3>2. CASE n # call.name
        BY <2>2, <2>3, <3>1, <3>2 DEF TypeOK
      <3>3. CASE n = call.name
        <4>1. e.sock = k /\ k # NoSock
          BY <2>2, <2>3, <3>1, <3>3, Constants DEF TypeOK
        <4>2. QED
          BY <2>2, <4>1 DEF SocketsApart
      <3>4. QED
        BY <3>2, <3>3
    <2>4. QED
      BY <1>1, <2>1, <2>3
  <1>9. ASSUME NEW n \in Names, NEW nl \in NodeLists, Renode(n, nl)
        PROVE  RoutedArePassed' /\ InFeedOrder'
    <2>1. routed' = routed /\ UNCHANGED loopVars
      BY <1>9 DEF Renode
    <2>2. \A m \in left' : sbs'[m].sock = sbs[m].sock
      BY <1>9, <2>1 DEF Renode, TypeOK, Entries
    <2>3. QED
      BY <1>1, <2>1, <2>2
  <1>10. ASSUME \/ Shutdown \/ \E k \in Socks : SBGoes(k) \/ SBStalls(k)
                \/ \E n \in Names, a \in Addrs, nl \in NodeLists :
                     Rehost(n, a, nl) \/ AddSB(n, a, nl)
         PROVE  RoutedArePassed' /\ InFeedOrder'
    <2>1. UNCHANGED <<routed, loopVars, sbs>>
      BY <1>10 DEF Shutdown, SBGoes, SBStalls, Rehost, AddSB
    <2>2. QED
      BY <1>1, <2>1
  <1>11. QED
    BY <1>2, <1>3, <1>4, <1>5, <1>6, <1>7, <1>8, <1>9, <1>10 DEF Next, Thread

-----------------------------------------------------------------------------
\* The buffers and what the record loop has still to look at.

\* A complete record leaves a feed whose buffer feedsChanged knows of: the
\* set's remove cannot raise.
LEMMA RecordTaken ==
    ASSUME TypeOK, BuffersKnown, NEW f \in Feeds, RouteRecord(f), pc = "route"
    PROVE  /\ f \in feeds /\ UNCHANGED <<feeds, todo>> /\ pc' \in {"route", "deliver"}
           /\ Len(inbuf[f]) >= 2
           /\ \A g \in Feeds : g # f => inbuf'[g] = inbuf[g]
           /\ \A g \in Feeds : g # f => (g \in feedsChanged' <=> g \in feedsChanged)
           /\ f \in feedsChanged' <=> inbuf'[f] # <<>>
  <1> DEFINE rest == SubSeq(inbuf[f], 3, Len(inbuf[f]))
  <1>1. f \in feeds /\ Len(inbuf[f]) >= 2 /\ inbuf' = [inbuf EXCEPT ![f] = rest]
    BY DEF RouteRecord
  <1>2. inbuf[f] # <<>>
    <2>1. Len(<<>>) = 0 /\ ~(0 >= 2)
      BY EmptySeq
    <2>2. QED
      BY <1>1, <2>1
  <1>3. f \in feedsChanged
    BY <1>1, <1>2 DEF BuffersKnown
  <1>4. inbuf'[f] = rest /\ \A g \in Feeds : g # f => inbuf'[g] = inbuf[g]
    BY <1>1 DEF TypeOK
  <1>5. /\ feedsChanged' = IF rest = <<>> THEN feedsChanged \ {f} ELSE feedsChanged
        /\ UNCHANGED loopVars \/ (raw' = inbuf[f][1].rec /\ LoopOver("deliver") /\ UNCHANGED todo)
        /\ UNCHANGED feeds
    BY <1>3 DEF RouteRecord
  <1>6. UNCHANGED todo /\ pc' \in {"route", "deliver"}
    BY <1>5 DEF loopVars, LoopOver
  <1>7. QED
    BY <1>1, <1>3, <1>4, <1>5, <1>6

LEMMA BuffersInit == Init => BuffersKnown
  BY FS_EmptySet DEF Init, BuffersKnown

LEMMA BuffersStep ==
    ASSUME TypeOK, TypeOK', BuffersKnown, [Next]_vars
    PROVE  BuffersKnown'
  <1> USE DEF feedVars, inVars, loopVars, mainVars, outVars
  <1>1. ASSUME UNCHANGED <<feeds, inbuf, feedsChanged>>,
               \/ pc' = pc /\ todo' = todo
               \/ pc' \in {"select", "done", "dead"}
               \/ pc \in {"route", "deliver"} /\ pc' \in {"route", "deliver"} /\ todo' = todo
        PROVE  BuffersKnown'
    BY <1>1 DEF BuffersKnown
  \* Outside the record loop and the sending, nothing is said about todo.
  <1>2. ASSUME pc' \in {"select", "done", "dead"}, IsFiniteSet(feeds'),
               \A f \in Feeds \ feeds' : inbuf'[f] = <<>>,
               \A f \in feeds' : f \in feedsChanged' <=> inbuf'[f] # <<>>
        PROVE  BuffersKnown'
    BY <1>2 DEF BuffersKnown
  <1>3. CASE UNCHANGED vars
    BY <1>1, <1>3 DEF vars
  <1>4. ASSUME NEW f \in Feeds, FeedClose(f) \/ \E k \in Kinds : FeedSend(f, k)
        PROVE  BuffersKnown'
    BY <1>1, <1>4 DEF FeedClose, FeedSend
  <1>5. ASSUME NEW f \in Feeds, CloseConnection(f)
        PROVE  /\ IsFiniteSet(feeds') /\ feeds' = feeds \ {f}
               /\ \A g \in Feeds \ feeds' : inbuf'[g] = <<>>
               /\ \A g \in feeds' : g \in feedsChanged' <=> inbuf'[g] # <<>>
               /\ \A g \in feeds' : inbuf'[g] = inbuf[g]
    <2>1. feeds' = feeds \ {f} /\ feedsChanged' = feedsChanged \ {f}
          /\ inbuf' = [inbuf EXCEPT ![f] = <<>>]
      BY <1>5 DEF CloseConnection
    <2>2. IsFiniteSet(feeds')
      BY <2>1, FS_RemoveElement DEF BuffersKnown
    <2>3. QED
      BY <2>1, <2>2 DEF BuffersKnown, TypeOK
  <1>6. ASSUME NEW f \in Feeds, OnAccept(f) PROVE BuffersKnown'
    <2>1. /\ pc' \in {"select", "dead"} /\ f \notin feeds
          /\ feeds' = feeds \/ feeds' = feeds \cup {f}
          /\ UNCHANGED <<inbuf, feedsChanged>>
      BY <1>6 DEF OnAccept, Die
    <2>2. IsFiniteSet(feeds')
      BY <2>1, FS_AddElement DEF BuffersKnown
    <2>3. f \notin feedsChanged /\ inbuf[f] = <<>>
      BY <2>1 DEF TypeOK, BuffersKnown
    <2>4. QED
      BY <1>2, <2>1, <2>2, <2>3 DEF BuffersKnown
  <1>7. ASSUME NEW f \in Feeds, OnRead(f) PROVE BuffersKnown'
    <2>1. PICK i \in 1 .. Len(wire[f]) :
            inbuf' = [inbuf EXCEPT ![f] = @ \o SubSeq(wire[f], 1, i)]
      BY <1>7 DEF OnRead
    <2>2. /\ f \in feeds /\ feeds' = feeds /\ feedsChanged' = feedsChanged \cup {f}
          /\ pc' = "select"
      BY <1>7 DEF OnRead
    <2>3. inbuf'[f] # <<>>
      <3>1. PICK s \in Seq(UnitSet), t \in Seq(UnitSet) : s = inbuf[f] /\ t = wire[f]
        BY DEF TypeOK
      <3>2. i \in 1 .. Len(t) /\ i \in 0 .. Len(t) /\ Len(t) \in Nat
        BY <3>1, LenProperties
      <3>3. SubSeq(t, 1, i) \in Seq(UnitSet) /\ Len(SubSeq(t, 1, i)) = i
        BY <3>2, CutInTwo
      <3>4. Len(s \o SubSeq(t, 1, i)) = Len(s) + i /\ Len(s) \in Nat
        BY <3>3, ConcatParts
      <3>5. Len(s \o SubSeq(t, 1, i)) # 0
        BY <3>2, <3>4
      <3>6. s \o SubSeq(t, 1, i) # <<>>
        BY <3>5, EmptySeq
      <3>7. QED
        BY <2>1, <3>1, <3>6 DEF TypeOK
    <2>4. \A g \in Feeds : g # f => inbuf'[g] = inbuf[g]
      BY <2>1 DEF TypeOK
    <2>5. QED
      BY <1>2, <2>2, <2>3, <2>4 DEF BuffersKnown, TypeOK
  <1>8. ASSUME NEW f \in Feeds, OnEnd(f) PROVE BuffersKnown'
    BY <1>2, <1>5, <1>8 DEF OnEnd
  <1>9. CASE DoStuff
    <2>1. feedsChanged \subseteq feeds /\ IsFiniteSet(feeds)
      BY DEF TypeOK, BuffersKnown
    <2>2. IsFiniteSet(feedsChanged)
      BY <2>1, FS_Subset
    <2>3. /\ todo' \in Seq(feedsChanged)
          /\ \A f \in feedsChanged : \E i \in 1 .. Len(todo') : todo'[i] = f
          /\ \A i, j \in 1 .. Len(todo') : todo'[i] = todo'[j] => i = j
      BY <1>9, <2>2, OrdersOnce DEF DoStuff
    <2>4. \A i \in 1 .. Len(todo') : todo'[i] \in feeds
      BY <2>1, <2>3, ElementOfSeq
    <2>5. \A f \in feeds : Len(inbuf[f]) >= 2 => f \in feedsChanged
      <3>1. Len(<<>>) = 0 /\ ~(0 >= 2)
        BY EmptySeq
      <3>2. QED
        BY <3>1 DEF BuffersKnown
    <2>6. UNCHANGED <<feeds, inbuf, feedsChanged>> /\ pc' = "route"
      BY <1>9 DEF DoStuff
    <2>7. QED
      BY <2>3, <2>4, <2>5, <2>6 DEF BuffersKnown
  <1>10. CASE Route
    <2>1. PICK f \in Feeds :
            /\ todo # <<>> /\ f = Head(todo) /\ Tail(todo) \in Seq(Feeds)
            /\ RouteMore(f) \/ RouteBad(f) \/ RouteRecord(f) \/ RouteLost(f)
            /\ pc = "route"
      BY <1>10, RouteFeed
    <2>2. PICK n \in Nat :
            /\ n = Len(todo) /\ n > 0 /\ todo[1] = f /\ Len(Tail(todo)) = n - 1
            /\ \A i \in 1 .. n - 1 : Tail(todo)[i] = todo[i + 1]
      <3>1. PICK s \in Seq(Feeds) : s = todo /\ s # <<>>
        BY <2>1 DEF TypeOK
      <3>2. /\ Len(s) \in Nat /\ Len(s) # 0 /\ Len(Tail(s)) = Len(s) - 1
            /\ \A i \in 1 .. Len(Tail(s)) : Tail(s)[i] = s[i + 1]
            /\ s[1] = Head(s)
        BY <3>1, HeadTailProperties, EmptySeq, LenProperties
      <3>3. PICK n \in Nat : n = Len(s)
        BY <3>2
      <3>4. n > 0 /\ Len(Tail(s)) = n - 1 /\ \A i \in 1 .. n - 1 : Tail(s)[i] = s[i + 1]
        BY <3>2, <3>3
      <3>5. QED
        BY <2>1, <3>1, <3>2, <3>3, <3>4
    <2>3. /\ \A i \in 1 .. n : todo[i] \in feeds
          /\ \A i, j \in 1 .. n : todo[i] = todo[j] => i = j
          /\ \A g \in feeds : Len(inbuf[g]) >= 2 => \E i \in 1 .. n : todo[i] = g
          /\ 1 \in 1 .. n /\ f \in feeds
      BY <2>1, <2>2 DEF BuffersKnown
    <2>4. /\ \A i \in 1 .. n - 1 : i + 1 \in 1 .. n /\ i + 1 # 1
          /\ \A i, j \in 1 .. n - 1 : i + 1 = j + 1 => i = j
          /\ \A i \in 1 .. n : i = 1 \/ \E j \in 1 .. n - 1 : i = j + 1
      <3>1. \A i \in 1 .. n : i = 1 \/ (i - 1 \in 1 .. n - 1 /\ i = (i - 1) + 1)
        OBVIOUS
      <3>2. QED
        BY <2>2, <3>1
    <2>5. /\ \A i \in 1 .. n - 1 : Tail(todo)[i] \in feeds /\ Tail(todo)[i] # f
          /\ \A i, j \in 1 .. n - 1 : Tail(todo)[i] = Tail(todo)[j] => i = j
          /\ \A g \in feeds : Len(inbuf[g]) >= 2 =>
                g = f \/ \E i \in 1 .. n - 1 : Tail(todo)[i] = g
      <3>1. \A i \in 1 .. n - 1 : Tail(todo)[i] \in feeds /\ Tail(todo)[i] # f
        BY <2>2, <2>3, <2>4
      <3>2. \A i, j \in 1 .. n - 1 : Tail(todo)[i] = Tail(todo)[j] => i = j
        BY <2>2, <2>3, <2>4
      <3>3. ASSUME NEW g \in feeds, Len(inbuf[g]) >= 2, g # f
            PROVE  \E i \in 1 .. n - 1 : Tail(todo)[i] = g
        <4>1. PICK i \in 1 .. n : todo[i] = g
          BY <2>3, <3>3
        <4>2. PICK j \in 1 .. n - 1 : i = j + 1
          BY <2>2, <2>4, <3>3, <4>1
        <4>3. QED
          BY <2>2, <4>1, <4>2
      <3>4. QED
        BY <3>1, <3>2, <3>3
    <2>6. CASE RouteMore(f)
      <3>1. UNCHANGED <<feeds, inbuf, feedsChanged, pc>> /\ todo' = Tail(todo)
            /\ Len(inbuf[f]) < 2
        BY <2>6 DEF RouteMore
      <3>2. ~(Len(inbuf[f]) >= 2)
        <4>1. Len(inbuf[f]) \in Nat
          BY QueueType
        <4>2. QED
          BY <3>1, <4>1
      <3>3. pc' = "route" /\ Len(todo') = n - 1
        BY <2>1, <2>2, <3>1
      <3>4. \A g \in feeds : Len(inbuf[g]) >= 2 => \E i \in 1 .. n - 1 : todo'[i] = g
        BY <2>5, <3>1, <3>2
      <3>5. QED
        BY <2>5, <3>1, <3>3, <3>4 DEF BuffersKnown
    <2>7. CASE RouteBad(f)
      <3>1. CloseConnection(f) /\ todo' = Tail(todo) /\ UNCHANGED pc
        BY <2>7 DEF RouteBad
      <3>2. /\ IsFiniteSet(feeds') /\ feeds' = feeds \ {f}
            /\ \A g \in Feeds \ feeds' : inbuf'[g] = <<>>
            /\ \A g \in feeds' : g \in feedsChanged' <=> inbuf'[g] # <<>>
            /\ \A g \in feeds' : inbuf'[g] = inbuf[g]
        BY <1>5, <3>1
      <3>3. pc' = "route" /\ Len(todo') = n - 1
        BY <2>1, <2>2, <3>1
      <3>4. \A g \in feeds' : Len(inbuf'[g]) >= 2 => \E i \in 1 .. n - 1 : todo'[i] = g
        BY <2>5, <3>1, <3>2
      <3>5. QED
        BY <2>5, <3>1, <3>2, <3>3, <3>4 DEF BuffersKnown
    <2>8. CASE RouteRecord(f)
      <3>1. /\ UNCHANGED <<feeds, todo>> /\ pc' \in {"route", "deliver"}
            /\ \A g \in Feeds : g # f => inbuf'[g] = inbuf[g]
            /\ \A g \in Feeds : g # f => (g \in feedsChanged' <=> g \in feedsChanged)
            /\ f \in feedsChanged' <=> inbuf'[f] # <<>>
        BY <2>1, <2>8, RecordTaken
      <3>2. feeds \subseteq Feeds
        BY DEF TypeOK
      <3>3. \A g \in feeds : Len(inbuf'[g]) >= 2 => \E i \in 1 .. n : todo[i] = g
        BY <2>2, <2>3, <3>1, <3>2
      <3>4. \A g \in Feeds \ feeds : inbuf'[g] = <<>>
        BY <2>3, <3>1 DEF BuffersKnown
      <3>5. \A g \in feeds : g \in feedsChanged' <=> inbuf'[g] # <<>>
        BY <3>1, <3>2 DEF BuffersKnown
      <3>6. IsFiniteSet(feeds')
        BY <3>1 DEF BuffersKnown
      <3>7. QED
        BY <2>2, <2>3, <3>1, <3>3, <3>4, <3>5, <3>6 DEF BuffersKnown
    <2>9. CASE RouteLost(f)
      BY <2>3, <2>9 DEF RouteLost
    <2>10. QED
      BY <2>1, <2>6, <2>7, <2>8, <2>9
  <1>11. CASE RouteDone
    <2>1. UNCHANGED <<feeds, inbuf, feedsChanged>> /\ pc' = "send"
          /\ pc = "route" /\ todo = <<>>
      BY <1>11 DEF RouteDone, LoopOver
    <2>2. \A f \in feeds : ~(Len(inbuf[f]) >= 2) /\ Len(inbuf[f]) \in Nat
      <3>1. \A i \in 1 .. Len(todo) : FALSE
        BY <2>1
      <3>2. feeds \subseteq Feeds
        BY DEF TypeOK
      <3>3. QED
        BY <2>1, <3>1, <3>2, QueueType DEF BuffersKnown
    <2>3. \A f \in feeds : Len(inbuf[f]) < 2
      BY <2>2
    <2>4. QED
      BY <2>1, <2>3 DEF BuffersKnown
  <1>12. CASE LoopRaises \/ DeliverDone
    BY <1>1, <1>12 DEF LoopRaises, DeliverDone, Die
  <1>13. CASE SendDone
    <2>1. CASE keepalive
      BY <1>1, <1>13, <2>1 DEF SendDone
    <2>2. CASE ~keepalive
      <3>1. pc' = "done" /\ feeds' = {} /\ \A f \in Feeds : inbuf'[f] = <<>>
        BY <1>13, <2>2 DEF SendDone
      <3>2. QED
        BY <1>2, <3>1, FS_EmptySet
    <2>3. QED
      BY <2>1, <2>2
  <1>14. ASSUME Send \/ \E n \in Names : Deliver(n) PROVE BuffersKnown'
    <2>1. ASSUME NEW n \in Names, Deliver(n)
          PROVE  UNCHANGED <<feeds, inbuf, feedsChanged, pc, todo>>
      BY <2>1 DEF Deliver
    <2>2. CASE Send
      <3>1. UNCHANGED <<feeds, inbuf, feedsChanged, todo>>
            /\ pc \in {"send", "call", "sending", "store"}
            /\ pc' \in {"send", "call", "sending", "store", "dead"}
        BY <2>2, SendLeaves
      <3>2. QED
        BY <3>1 DEF BuffersKnown
    <2>3. QED
      BY <1>1, <1>14, <2>1, <2>2
  <1>15. ASSUME \/ Connect \/ Shutdown \/ \E k \in Socks : SBGoes(k) \/ SBStalls(k)
                \/ \E n \in Names, a \in Addrs, nl \in NodeLists :
                     Renode(n, nl) \/ Rehost(n, a, nl) \/ AddSB(n, a, nl)
         PROVE  BuffersKnown'
    <2>1. UNCHANGED <<feeds, inbuf, feedsChanged, pc, todo>>
      BY <1>15 DEF Connect, Shutdown, SBGoes, SBStalls, Renode, Rehost, AddSB
    <2>2. QED
      BY <1>1, <2>1
  <1>16. QED
    BY <1>3, <1>4, <1>6, <1>7, <1>8, <1>9, <1>10, <1>11, <1>12, <1>13, <1>14, <1>15
       DEF Next, Thread

-----------------------------------------------------------------------------
\* What can end the thread.

\* A connection that has ended stays so.
LEMMA BrokenStep ==
    ASSUME TypeOK, [Next]_vars
    PROVE  \A k \in Socks : sock[k] \in {"closed", "gone"} => sock'[k] \in {"closed", "gone"}
  <1> USE DEF mainVars, outVars
  <1>1. ASSUME NEW n \in Names, NEW a \in Addrs, NEW nl \in NodeLists, Rehost(n, a, nl)
        PROVE  \A k \in Socks : sock[k] \in {"closed", "gone"} => sock'[k] \in {"closed", "gone"}
    BY <1>1 DEF Rehost, TypeOK
  <1>2. ASSUME NEW n \in Names, Deliver(n) PROVE UNCHANGED sock
    BY <1>2 DEF Deliver
  <1>3. ASSUME NEW n \in Names, NEW nl \in NodeLists, Renode(n, nl) PROVE UNCHANGED sock
    BY <1>3 DEF Renode
  <1>4. CASE Connect
    <2>1. PICK e \in Entries : /\ e.sock # NoSock => sock[e.sock] = "free"
                               /\ sock' = IF e.sock = NoSock THEN sock
                                          ELSE [sock EXCEPT ![e.sock] = "open"]
      BY <1>4, ConnectEntry
    <2>2. QED
      BY <2>1 DEF TypeOK
  <1>5. ASSUME NEW j \in Socks, SBGoes(j) \/ SBStalls(j)
        PROVE  \A k \in Socks : sock[k] \in {"closed", "gone"} => sock'[k] \in {"closed", "gone"}
    BY <1>5 DEF SBGoes, SBStalls, TypeOK
  <1>6. CASE Send
    BY <1>6, SendSteps
  <1>7. QED
    BY <1>1, <1>2, <1>3, <1>4, <1>5, <1>6, OutSteps

LEMMA ClosedStep ==
    ASSUME TypeOK, LoopsOverKeys, SocketsApart, StreamsWhole, SendUnderWay, ClosedFirst,
           [Next]_vars
    PROVE  ClosedFirst'
  <1> USE DEF mainVars, outVars
  <1>1. Broken => Broken'
    BY BrokenStep DEF Broken
  <1> DEFINE Awaited == call # None /\ call.name \in Keys /\ sbs[call.name].sock # NoSock
             Sent == \/ pc = "call" /\ sbs[out.name].sock = NoSock
                     \/ pc \in {"sending", "store"} /\ sbs[out.name].sock # out.sock
  <1>2. /\ Awaited => Broken
        /\ \A n \in Names : stray[n] # <<>> => Broken
        /\ Sent => Broken
    BY DEF ClosedFirst
  <1>3. SUFFICES ASSUME ~Broken'
                 PROVE  ~Awaited' /\ (\A n \in Names : stray'[n] = <<>>) /\ ~Sent'
    BY <1>1 DEF ClosedFirst
  <1>4. ~Awaited /\ (\A n \in Names : stray[n] = <<>>) /\ ~Sent /\ ~Broken
    BY <1>1, <1>2, <1>3
  <1>5. ASSUME UNCHANGED <<outVars, call>>, SameSend
        PROVE  ~Awaited' /\ (\A n \in Names : stray'[n] = <<>>) /\ ~Sent'
    <2>1. Keys' = Keys
      BY <1>5 DEF Keys
    <2>2. QED
      BY <1>4, <1>5, <2>1 DEF SameSend, Idle
  \* A step that leaves every entry its socket.
  <1>6. ASSUME Keys' = Keys, \A m \in Keys : sbs'[m].sock = sbs[m].sock,
               UNCHANGED <<stray, pc, out>>, call' # None => call' = call
        PROVE  ~Awaited' /\ (\A m \in Names : stray'[m] = <<>>) /\ ~Sent'
    <2>1. pc \in {"call", "sending", "store"} => out.name \in Keys
      BY DEF SendUnderWay
    <2>2. QED
      BY <1>4, <1>6, <2>1
  <1>7. ASSUME NEW n \in Names, Deliver(n)
        PROVE  ~Awaited' /\ (\A m \in Names : stray'[m] = <<>>) /\ ~Sent'
    <2>1. Keys \subseteq Keys'
      BY KeysStep
    <2>2. n \in Keys /\ sbs[n] \in Entries
      BY <1>7, DeliverEntry
    <2>3. \/ UNCHANGED sbs
          \/ sbs' = [sbs EXCEPT ![n] = [sbs[n] EXCEPT !.outBuf = sbs[n].outBuf \o Units(raw)]]
      BY <1>7, DeliverEntry
    <2>4. Keys' = Keys /\ \A m \in Keys : sbs'[m].sock = sbs[m].sock
      <3>1. CASE UNCHANGED sbs
        BY <3>1 DEF Keys
      <3>2. CASE ~UNCHANGED sbs
        <4>1. PICK b : b = sbs[n].outBuf \o Units(raw)
          OBVIOUS
        <4>2. sbs' = [sbs EXCEPT ![n] = [sbs[n] EXCEPT !.outBuf = b]]
          BY <2>3, <3>2, <4>1
        <4>3. Keys' \subseteq Keys
          BY <2>2, <4>2 DEF Keys, TypeOK
        <4>4. \A m \in Keys : sbs'[m].sock = sbs[m].sock
          BY <2>2, <4>2 DEF Keys, TypeOK, Entries
        <4>5. QED
          BY <2>1, <4>3, <4>4
      <3>3. QED
        BY <3>1, <3>2
    <2>5. UNCHANGED <<stray, pc, out, call>>
      BY <1>7 DEF Deliver
    <2>6. QED
      BY <1>6, <2>4, <2>5
  <1>8. ASSUME NEW n \in Names, NEW nl \in NodeLists, Renode(n, nl)
         PROVE  ~Awaited' /\ (\A m \in Names : stray'[m] = <<>>) /\ ~Sent'
    <2>1. Keys \subseteq Keys'
      BY KeysStep
    <2>2. /\ n \in Keys /\ UNCHANGED <<stray, pc, out>>
          /\ sbs' = [sbs EXCEPT ![n] = [sbs[n] EXCEPT !.nodes = nl]]
          /\ call' = None \/ (sbs[n].sock = NoSock /\ call'.name = n)
      BY <1>8 DEF Renode, Keys, loopVars, New
    <2>3. Keys' = Keys /\ \A m \in Keys : sbs'[m].sock = sbs[m].sock
      BY <2>1, <2>2, KeyTypes DEF Keys, TypeOK, Entries
    <2>4. CASE call' = None
      BY <1>6, <2>2, <2>3, <2>4
    <2>5. CASE call' # None
      <3>1. pc \in {"call", "sending", "store"} => out.name \in Keys
        BY DEF SendUnderWay
      <3>2. QED
        BY <1>4, <2>2, <2>3, <2>5, <3>1
    <2>6. QED
      BY <2>4, <2>5
  <1>9. ASSUME NEW n \in Names, NEW a \in Addrs, NEW nl \in NodeLists, Rehost(n, a, nl)
         PROVE  ~Awaited' /\ (\A m \in Names : stray'[m] = <<>>) /\ ~Sent'
    <2>1. /\ n \in Keys /\ UNCHANGED <<sbs, stray, pc, out>> /\ call'.name = n
          /\ sock' = IF sbs[n].sock = NoSock THEN sock
                     ELSE [sock EXCEPT ![sbs[n].sock] = "closed"]
      BY <1>9 DEF Rehost, Keys, loopVars, New
    <2>2. sbs[n].sock = NoSock
      <3>1. SUFFICES ASSUME sbs[n].sock # NoSock PROVE Broken'
        BY <1>3
      <3>2. sbs[n].sock \in Socks /\ sock'[sbs[n].sock] = "closed"
        BY <2>1, <3>1, KeyTypes DEF TypeOK
      <3>3. QED
        BY <3>2 DEF Broken
    <2>3. Keys' = Keys
      BY <2>1 DEF Keys
    <2>4. QED
      BY <1>4, <2>1, <2>2, <2>3
  <1>10. ASSUME NEW k \in Socks, SBGoes(k) \/ SBStalls(k)
         PROVE  ~Awaited' /\ (\A m \in Names : stray'[m] = <<>>) /\ ~Sent'
    <2>1. UNCHANGED <<sbs, stray, pc, out, call>>
      BY <1>10 DEF SBGoes, SBStalls, loopVars
    <2>2. Keys' = Keys
      BY <2>1 DEF Keys
    <2>3. QED
      BY <1>6, <2>1, <2>2
  <1>11. CASE Connect
    <2>1. call # None /\ call' = None /\ UNCHANGED <<pc, out>>
      BY <1>11 DEF Connect, loopVars
    <2>2. stray' = [stray EXCEPT ![call.name] = <<>>]
      BY <1>11 DEF Connect
    <2>3. \A m \in Names : stray'[m] = <<>>
      BY <1>4, <2>2 DEF TypeOK
    <2>4. PICK e \in Entries : sbs' = [sbs EXCEPT ![call.name] = e]
      BY <1>11, ConnectEntry
    <2>5. ASSUME pc \in {"call", "sending", "store"}
          PROVE  ~Sent'
      <3>1. out.name \in Keys
        BY <2>5 DEF SendUnderWay
      <3>2. sbs[out.name].sock # NoSock
        <4>1. pc \in {"sending", "store"} => out.sock \in Socks
          BY DEF SendUnderWay
        <4>2. QED
          BY <1>4, <2>5, <4>1, Constants
      <3>3. out.name # call.name
        BY <1>4, <2>1, <3>1, <3>2
      <3>4. sbs'[out.name] = sbs[out.name]
        BY <2>4, <3>1, <3>3 DEF Keys, TypeOK
      <3>5. QED
        BY <1>4, <2>1, <3>4
    <2>6. QED
      BY <2>1, <2>3, <2>5
  <1>12. ASSUME ~UNCHANGED call
         PROVE  \/ Connect
                \/ \E n \in Names, nl \in NodeLists : Renode(n, nl)
                \/ \E n \in Names, a \in Addrs, nl \in NodeLists : Rehost(n, a, nl)
                \/ \E n \in Names, a \in Addrs, nl \in NodeLists : AddSB(n, a, nl)
    <2>1. ASSUME NEW f \in Feeds,
                 \/ FeedClose(f) \/ OnAccept(f) \/ OnRead(f) \/ OnEnd(f)
                 \/ \E k \in Kinds : FeedSend(f, k)
          PROVE  UNCHANGED call
      BY <2>1 DEF FeedClose, OnAccept, OnRead, OnEnd, FeedSend
    <2>2. ASSUME Thread PROVE UNCHANGED call
      BY <2>2, SendSteps DEF Thread, DoStuff, Route, RouteDone, LoopRaises, DeliverDone,
                             SendDone, Deliver
    <2>3. ASSUME \/ UNCHANGED vars \/ Shutdown \/ \E k \in Socks : SBGoes(k) \/ SBStalls(k)
          PROVE  UNCHANGED call
      BY <2>3 DEF vars, Shutdown, SBGoes, SBStalls
    <2>4. QED
      BY <1>12, <2>1, <2>2, <2>3 DEF Next
  <1>13. CASE UNCHANGED outVars /\ SameSend
    <2>1. ASSUME NEW n \in Names, NEW a \in Addrs, NEW nl \in NodeLists, AddSB(n, a, nl)
          PROVE  ~Awaited' /\ (\A m \in Names : stray'[m] = <<>>) /\ ~Sent'
      <3>1. call' = [name |-> n, addr |-> a, nodes |-> nl] /\ sbs[n] = NoEntry
            /\ UNCHANGED <<outVars, pc, out>>
        BY <2>1 DEF AddSB, New, loopVars
      <3>2. call'.name = n /\ n \notin Keys'
        BY <3>1 DEF Keys
      <3>3. QED
        BY <1>4, <3>1, <3>2
    <2>2. QED
      BY <1>5, <1>8, <1>9, <1>11, <1>12, <1>13, <2>1
  <1>14. CASE Send
    <2>1. UNCHANGED call
      BY <1>14, SendSteps
    <2>2. ASSUME NEW n \in Names, SendTest(n)
          PROVE  ~Awaited' /\ (\A m \in Names : stray'[m] = <<>>) /\ ~Sent'
      <3>1. n \in Keys /\ UNCHANGED outVars
        BY <2>2 DEF SendTest, LoopsOverKeys
      <3>2. Keys' = Keys
        BY <3>1 DEF Keys
      <3>3. \/ pc' = "send"
            \/ /\ pc' = "call" /\ sbs[n].outBuf # <<>>
               /\ out' = [name |-> n, sock |-> NoSock, buf |-> <<>>]
        BY <2>2 DEF SendTest
      <3>4. sbs[n].outBuf # <<>> => sbs[n].sock # NoSock
        BY <1>4, <3>1, KeyTypes DEF StreamsWhole
      <3>5. ~Sent'
        BY <3>1, <3>3, <3>4
      <3>6. QED
        BY <1>4, <2>1, <3>1, <3>2, <3>5
    <2>3. ASSUME SendCall \/ SendReturns \/ SendRaises
          PROVE  ~Awaited' /\ (\A m \in Names : stray'[m] = <<>>) /\ ~Sent'
      <3>1. UNCHANGED <<sbs, stray>> /\ pc \in {"call", "sending"}
        BY <2>3 DEF SendCall, SendReturns, SendRaises
      <3>2. Keys' = Keys
        BY <3>1 DEF Keys
      <3>3. out \in Sends
        BY <3>1 DEF SendUnderWay
      <3>4. ~Sent'
        <4>1. CASE SendCall
          <5>1. \/ pc' = "dead"
                \/ /\ pc' = "sending"
                   /\ out' = [out EXCEPT !.sock = sbs[out.name].sock,
                                         !.buf = sbs[out.name].outBuf]
            BY <4>1 DEF SendCall, Die
          <5>2. pc' = "dead" \/ (pc' = "sending" /\ out'.name = out.name
                                  /\ out'.sock = sbs[out.name].sock)
            BY <3>3, <5>1 DEF Sends
          <5>3. QED
            BY <3>1, <5>2
        <4>2. CASE SendReturns
          <5>1. /\ pc = "sending" /\ pc' = "store"
                /\ \E i \in 0 .. Len(out.buf) : out' = [out EXCEPT !.buf =
                     SubSeq(sbs[out.name].outBuf, i + 1, Len(sbs[out.name].outBuf))]
            BY <4>2 DEF SendReturns
          <5>2. out'.name = out.name /\ out'.sock = out.sock
            BY <3>3, <5>1 DEF Sends
          <5>3. QED
            BY <1>4, <3>1, <5>1, <5>2
        <4>3. CASE SendRaises
          BY <4>3 DEF SendRaises, Die
        <4>4. QED
          BY <2>3, <4>1, <4>2, <4>3
      <3>5. QED
        BY <1>4, <2>1, <3>1, <3>2, <3>4
    <2>4. ASSUME SendStore
          PROVE  ~Awaited' /\ (\A m \in Names : stray'[m] = <<>>) /\ ~Sent'
      <3>1. /\ pc = "store" /\ pc' = "send"
            /\ stray' = [stray EXCEPT ![out.name] =
                            IF sbs[out.name].sock = out.sock THEN @ ELSE out.buf]
        BY <2>4 DEF SendStore
      <3>2. \A m \in Names : stray'[m] = <<>>
        BY <1>4, <3>1 DEF TypeOK
      <3>3. out.name \in Keys
            /\ sbs' = [sbs EXCEPT ![out.name] = [sbs[out.name] EXCEPT !.outBuf = out.buf]]
        BY <2>4, StoreEntry
      <3>4. Keys \subseteq Keys'
        BY KeysStep
      <3>5. Keys' = Keys /\ \A m \in Keys : sbs'[m].sock = sbs[m].sock
        BY <3>3, <3>4, KeyTypes DEF Keys, TypeOK, Entries
      <3>6. QED
        BY <1>4, <2>1, <3>1, <3>2, <3>5
    <2>5. QED
      BY <1>14, <2>2, <2>3, <2>4 DEF Send
  <1>15. QED
    BY <1>7, <1>8, <1>9, <1>10, <1>11, <1>13, <1>14, OutSteps

LEMMA KillStep ==
    ASSUME TypeOK, TypeOK', LoopsOverKeys, SocketsApart, StreamsWhole, SendUnderWay,
           ClosedFirst, BuffersKnown, FeedsCannotKill, [Next]_vars
    PROVE  FeedsCannotKill'
  <1> USE DEF feedVars, inVars, loopVars, mainVars, outVars
  <1> SUFFICES ASSUME pc' = "dead"
               PROVE  \/ \E k \in Socks : sock'[k] \in {"closed", "gone"}
                      \/ grown'
                      \/ \E f \in Feeds \ feeds' : feed'[f] = "reset"
    BY DEF FeedsCannotKill
  <1>1. \A k \in Socks : sock[k] \in {"closed", "gone"} => sock'[k] \in {"closed", "gone"}
    BY BrokenStep
  <1>2. CASE pc = "dead"
    <2>1. grown => grown'
      BY KeysStep
    <2>2. \/ UNCHANGED vars \/ Connect \/ Shutdown \/ \E k \in Socks : SBGoes(k) \/ SBStalls(k)
          \/ \E f \in Feeds : FeedClose(f) \/ \E k \in Kinds : FeedSend(f, k)
          \/ \E n \in Names, a \in Addrs, nl \in NodeLists :
                     Renode(n, nl) \/ Rehost(n, a, nl) \/ AddSB(n, a, nl)
      BY <1>2 DEF Next, Thread, OnAccept, OnRead, OnEnd, DoStuff, Route, RouteDone,
                  LoopRaises, DeliverDone, SendDone, Deliver, Send, SendTest, SendCall,
                  SendReturns, SendRaises, SendStore
    <2>3. \A f \in Feeds \ feeds : feed[f] = "reset" => f \notin feeds' /\ feed'[f] = "reset"
      <3>1. ASSUME NEW g \in Feeds, FeedClose(g)
            PROVE  feeds' = feeds /\ \A f \in Feeds : feed[f] = "reset" => feed'[f] = "reset"
        BY <3>1 DEF FeedClose, TypeOK
      <3>2. ASSUME \/ UNCHANGED vars \/ Connect \/ Shutdown \/ \E k \in Socks : SBGoes(k) \/ SBStalls(k)
                   \/ \E f \in Feeds : \E k \in Kinds : FeedSend(f, k)
                   \/ \E n \in Names, a \in Addrs, nl \in NodeLists :
                        Renode(n, nl) \/ Rehost(n, a, nl) \/ AddSB(n, a, nl)
            PROVE  feeds' = feeds /\ feed' = feed
        BY <3>2 DEF vars, Connect, Shutdown, SBGoes, SBStalls, FeedSend, Renode, Rehost, AddSB
      <3>3. QED
        BY <2>2, <3>1, <3>2
    <2>4. QED
      BY <1>1, <1>2, <2>1, <2>3 DEF FeedsCannotKill
  <1>3. CASE pc # "dead"
    <2>1. ASSUME NEW f \in Feeds,
                 \/ FeedClose(f) \/ OnAccept(f) \/ OnRead(f) \/ OnEnd(f)
                 \/ \E k \in Kinds : FeedSend(f, k)
          PROVE  \E g \in Feeds \ feeds' : feed'[g] = "reset"
      <3>1. OnAccept(f) /\ pc' # pc
        BY <1>3, <2>1 DEF FeedClose, OnAccept, OnRead, OnEnd, FeedSend
      <3>2. f \notin feeds' /\ feed'[f] = "reset"
        BY <3>1 DEF OnAccept
      <3>3. QED
        BY <3>2
    <2>2. ASSUME Route PROVE FALSE
      <3>1. PICK f \in Feeds :
              /\ todo # <<>> /\ f = Head(todo)
              /\ RouteMore(f) \/ RouteBad(f) \/ RouteRecord(f) \/ RouteLost(f)
              /\ pc = "route"
        BY <2>2, RouteFeed
      <3>2. ~RouteLost(f)
        <4>1. PICK s \in Seq(Feeds) : s = todo /\ s # <<>>
          BY <3>1 DEF TypeOK
        <4>2. Len(s) \in Nat /\ Len(s) # 0 /\ s[1] = Head(s)
          BY <4>1, EmptySeq, LenProperties
        <4>3. 1 \in 1 .. Len(todo) /\ todo[1] = f
          BY <3>1, <4>1, <4>2
        <4>4. f \in feeds
          BY <3>1, <4>3 DEF BuffersKnown
        <4>5. QED
          BY <4>4 DEF RouteLost
      <3>3. CASE RouteMore(f) \/ RouteBad(f)
        BY <1>3, <3>3 DEF RouteMore, RouteBad
      <3>4. CASE RouteRecord(f)
        <4>1. pc' \in {"route", "deliver"}
          BY <3>1, <3>4, RecordTaken
        <4>2. QED
          BY <4>1
      <3>5. QED
        BY <3>1, <3>2, <3>3, <3>4
    <2>3. ASSUME LoopRaises PROVE grown'
      <3>1. ~SizeSame /\ pc \in {"deliver", "send"} /\ UNCHANGED grown
        BY <2>3 DEF LoopRaises
      <3>2. QED
        BY <3>1 DEF LoopsOverKeys
    <2>4. ASSUME Send
          PROVE  \E k \in Socks : sock'[k] \in {"closed", "gone"}
      <3>1. UNCHANGED sock
        BY <2>4, SendSteps
      <3>2. SendCall \/ SendRaises
        BY <1>3, <2>4 DEF Send, SendTest, SendReturns, SendStore
      <3>3. CASE SendCall
        <4>1. pc = "call" /\ sbs[out.name].sock = NoSock
          BY <1>3, <3>3 DEF SendCall
        <4>2. QED
          BY <3>1, <4>1 DEF ClosedFirst, Broken
      <3>4. CASE SendRaises
        <4>1. pc = "sending" /\ sock[out.sock] \in {"closed", "gone"}
          BY <3>4 DEF SendRaises
        <4>2. out.sock \in Socks
          BY <4>1 DEF SendUnderWay
        <4>3. QED
          BY <3>1, <4>1, <4>2
      <3>5. QED
        BY <3>2, <3>3, <3>4
    <2>5. ASSUME \/ DoStuff \/ RouteDone \/ DeliverDone \/ SendDone
                 \/ \E n \in Names : Deliver(n)
          PROVE  FALSE
      BY <1>3, <2>5 DEF DoStuff, RouteDone, LoopOver, DeliverDone, SendDone, Deliver
    <2>6. ASSUME \/ UNCHANGED vars \/ Connect \/ Shutdown \/ \E k \in Socks : SBGoes(k) \/ SBStalls(k)
                 \/ \E n \in Names, a \in Addrs, nl \in NodeLists :
                     Renode(n, nl) \/ Rehost(n, a, nl) \/ AddSB(n, a, nl)
          PROVE  FALSE
      BY <1>3, <2>6 DEF vars, Connect, Shutdown, SBGoes, SBStalls, Renode, Rehost, AddSB
    <2>7. QED
      BY <2>1, <2>2, <2>3, <2>4, <2>5, <2>6 DEF Next, Thread
  <1>4. QED
    BY <1>2, <1>3

-----------------------------------------------------------------------------
LEMMA InvInit == Init => Inv
  <1> SUFFICES ASSUME Init PROVE Inv
    OBVIOUS
  <1>1. TypeOK /\ SocketsApart /\ StreamsWhole /\ SendUnderWay /\ BuffersKnown
    BY TypeInit, OutInit, BuffersInit
  <1>10. ClosedFirst
    BY DEF Init, ClosedFirst
  <1>2. LoopsOverKeys
    BY DEF Init, LoopsOverKeys
  <1>3. \A f \in Feeds : Len(Queue(f)) = 0
    <2>1. \A f \in Feeds : Queue(f) = <<>> \o <<>>
      BY DEF Init, Queue
    <2>2. <<>> \o <<>> = <<>> /\ Len(<<>>) = 0
      BY EmptySeq
    <2>3. QED
      BY <2>1, <2>2
  <1>4. QueuesInOrder
    BY <1>3 DEF QueuesInOrder
  <1>5. \A k \in Socks : routed[k] = <<>> /\ Len(routed[k]) = 0
    BY EmptySeq DEF Init
  <1>6. RoutedArePassed
    BY <1>5 DEF Init, RoutedArePassed
  <1>7. InFeedOrder
    BY <1>5 DEF InFeedOrder
  <1>8. FeedsCannotKill
    BY DEF Init, FeedsCannotKill
  <1>9. QED
    BY <1>1, <1>2, <1>4, <1>6, <1>7, <1>8, <1>10 DEF Inv

LEMMA InvStep == Inv /\ [Next]_vars => Inv'
  <1> SUFFICES ASSUME Inv, [Next]_vars PROVE Inv'
    OBVIOUS
  <1>1. /\ TypeOK /\ LoopsOverKeys /\ SocketsApart /\ StreamsWhole
        /\ SendUnderWay /\ ClosedFirst
        /\ QueuesInOrder /\ RoutedArePassed /\ InFeedOrder
        /\ BuffersKnown /\ FeedsCannotKill
    BY DEF Inv
  <1>2. TypeOK'
    BY <1>1, TypeStep
  <1>3. LoopsOverKeys'
    BY <1>1, LoopsStep
  <1>4. SocketsApart' /\ StreamsWhole' /\ SendUnderWay'
    BY <1>1, OutStep
  <1>10. ClosedFirst'
    BY <1>1, ClosedStep
  <1>5. QueuesInOrder'
    BY <1>1, <1>2, QueuesStep
  <1>6. RoutedArePassed' /\ InFeedOrder'
    BY <1>1, <1>2, RoutedStep
  <1>7. BuffersKnown'
    BY <1>1, <1>2, BuffersStep
  <1>8. FeedsCannotKill'
    BY <1>1, <1>2, KillStep
  <1>9. QED
    BY <1>2, <1>3, <1>4, <1>5, <1>6, <1>7, <1>8, <1>10 DEF Inv

LEMMA Invariant == Spec => []Inv
  BY InvInit, InvStep, PTL DEF Spec

\* Every variable has its type: an entry of sessionBuilders always has an
\* address, nodes, a socket or None, and a buffer of whole units.
THEOREM TypeCorrect == Spec => []TypeOK
  <1>1. Inv => TypeOK
    BY DEF Inv
  <1>2. QED
    BY <1>1, Invariant, PTL

\* What a session builder's connection has carried and what waits for it are
\* the records routed to it, whole and in order, however reads and sends cut
\* them and however often connectSB replaces the connection, at any step of a
\* send; only what a send has left of an old connection's bytes may get in
\* front of them, once (streamTerminator.py:102, 182-186).
THEOREM StreamsAreWhole == Spec => []StreamsWhole
  <1>1. Inv => StreamsWhole
    BY DEF Inv
  <1>2. QED
    BY <1>1, Invariant, PTL

\* On every connection the records of a feed are in the order it sent them,
\* none twice (streamTerminator.py:155-178).
THEOREM FeedsStayInOrder == Spec => []InFeedOrder
  <1>1. Inv => InFeedOrder
    BY DEF Inv
  <1>2. QED
    BY <1>1, Invariant, PTL

\* When the buffers are sent, no complete record is left in a feed's, and
\* feedsChanged has the feeds that hold part of one
\* (streamTerminator.py:140-160).
THEOREM NoRecordLeftBehind == Spec => []NothingLeftBehind
  <1>1. Inv => NothingLeftBehind
    BY DEF Inv, BuffersKnown, NothingLeftBehind
  <1>2. QED
    BY <1>1, Invariant, PTL

\* The thread raises only over a session builder that has gone, was moved or
\* was added while it runs, or over a feed reset before it was accepted: no
\* key, set element or entry is missing when it is used.
THEOREM OnlyTheseKill == Spec => []FeedsCannotKill
  <1>1. Inv => FeedsCannotKill
    BY DEF Inv
  <1>2. QED
    BY <1>1, Invariant, PTL
=============================================================================
