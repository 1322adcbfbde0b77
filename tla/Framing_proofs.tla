--------------------------- MODULE Framing_proofs ---------------------------
(***************************************************************************)
(* Theorems about the readers of a stream, ServerFraming and ClientFraming,*)
(* for a header and texts of any length and reads of any size.             *)
(***************************************************************************)
EXTENDS ServerFraming, ClientFraming, SequenceTheorems, TLAPS

LEMMA Lengths ==
    /\ Lens \subseteq Nat
    /\ Hdr \in Nat /\ Hdr > 0 /\ MaxLen \in Nat
    /\ \A n \in Nat : HeaderLen(n) \in Nat /\ HeaderLen(n) >= Hdr
    /\ \A n \in Nat : n <= MaxLen => HeaderLen(n) = Hdr
    /\ \A n \in Nat : n > MaxLen => HeaderLen(n) = Hdr + 1
  BY FramingConstants DEF HeaderLen

LEMMA HdrType == Hdr \in Nat /\ Hdr > 0 /\ MaxLen \in Nat
  BY FramingConstants

\* What the types say of one message.
LEMMA Message ==
    ASSUME StreamTypeOK, NEW i \in 1 .. Len(sent)
    PROVE  /\ Len(sent) \in Nat /\ total \in Nat /\ received \in Nat
           /\ sent[i] \in Nat
           /\ starts[i] \in Nat /\ starts[i] > 0
           /\ HeaderLen(sent[i]) \in Nat /\ HeaderLen(sent[i]) >= Hdr
           /\ EndOf(i) \in Nat /\ EndOf(i) > starts[i]
  <1>1. sent[i] \in Lens /\ starts[i] \in Nat \ {0}
    BY DEF StreamTypeOK
  <1>2. sent[i] \in Nat
    BY <1>1, Lengths
  <1>3. HeaderLen(sent[i]) \in Nat /\ HeaderLen(sent[i]) >= Hdr
    BY <1>2, Lengths
  <1>4. Len(sent) \in Nat /\ total \in Nat /\ received \in Nat
    BY DEF StreamTypeOK
  <1> DEFINE h == HeaderLen(sent[i])
  <1>5. h \in Nat /\ h > 0 /\ EndOf(i) = starts[i] + h + sent[i]
    BY <1>3, Lengths DEF EndOf
  <1> HIDE DEF h
  <1>6. EndOf(i) \in Nat /\ EndOf(i) > starts[i]
    BY <1>1, <1>2, <1>5
  <1>7. QED
    BY <1>1, <1>2, <1>3, <1>4, <1>6 DEF h

\* Only one message starts at a position.
LEMMA OneStart ==
    ASSUME StreamTypeOK, Layout,
           NEW i \in 1 .. Len(sent), NEW j \in 1 .. Len(sent),
           starts[j] >= starts[i], starts[j] < EndOf(i)
    PROVE  j = i
  <1>1. /\ EndOf(i) \in Nat /\ starts[i] \in Nat
        /\ EndOf(j) \in Nat /\ starts[j] \in Nat /\ EndOf(j) > starts[j]
    BY Message
  <1>2. i < j => EndOf(i) <= starts[j]
    BY DEF Layout
  <1>3. j < i => EndOf(j) <= starts[i]
    BY DEF Layout
  <1>4. QED
    BY <1>1, <1>2, <1>3

\* A message that is sent is laid behind the others, which stay.
LEMMA Sending ==
    ASSUME StreamTypeOK, Layout, NEW n \in Lens, Send(n),
           UNCHANGED <<received, got, lost>>
    PROVE  /\ StreamTypeOK' /\ Layout' /\ total' >= total
           /\ Len(sent) \in Nat /\ Len(sent') = Len(sent) + 1
           /\ \A i \in 1 .. Len(sent) :
                /\ sent'[i] = sent[i] /\ starts'[i] = starts[i]
                /\ TextOf(i)' = TextOf(i)
           /\ \A i \in 1 .. Len(sent) + 1 : StartOf(i)' = StartOf(i)
  <1>0. PICK k \in Nat : k = Len(sent)
    BY DEF StreamTypeOK
  <1>1. /\ sent \in Seq(Lens) /\ starts \in Seq(Nat \ {0})
        /\ k = Len(sent) /\ Len(starts) = k
        /\ total \in Nat /\ n \in Nat /\ HeaderLen(n) \in Nat
    BY <1>0, Lengths DEF StreamTypeOK
  <1>2. /\ sent' = Append(sent, n)
        /\ starts' = Append(starts, total + 1)
        /\ total' = total + HeaderLen(n) + n
        /\ UNCHANGED <<received, got, lost>>
    BY DEF Send
  <1>3. /\ Len(sent') = k + 1 /\ Len(starts') = k + 1
        /\ \A i \in 1 .. k : sent'[i] = sent[i] /\ starts'[i] = starts[i]
        /\ sent'[k + 1] = n /\ starts'[k + 1] = total + 1
    BY <1>1, <1>2
  <1>4. StreamTypeOK'
    <2>1. sent' \in Seq(Lens) /\ starts' \in Seq(Nat \ {0})
      BY <1>1, <1>2
    <2>2. total' \in Nat /\ total' >= total
      BY <1>1, <1>2
    <2>3. QED
      BY <1>2, <1>3, <2>1, <2>2 DEF StreamTypeOK
  <1>5. /\ \A i \in 1 .. k : EndOf(i)' = EndOf(i)
        /\ EndOf(k + 1)' = total' + 1
    <2>1. \A i \in 1 .. k : EndOf(i)' = EndOf(i)
      BY <1>1, <1>3 DEF EndOf
    <2>2. EndOf(k + 1)' = total + 1 + HeaderLen(n) + n
      BY <1>1, <1>3 DEF EndOf
    <2>3. QED
      BY <1>1, <1>2, <2>1, <2>2
  <1>6. \A i \in 1 .. k + 1 : StartOf(i)' = StartOf(i)
    <2>1. ASSUME NEW i \in 1 .. k
          PROVE  StartOf(i)' = StartOf(i)
      <3>1. i <= Len(sent) /\ i <= Len(sent')
        BY <1>1, <1>3
      <3>2. QED
        BY <1>3, <3>1 DEF StartOf
    <2>2. StartOf(k + 1)' = StartOf(k + 1)
      <3>1. ~(k + 1 <= Len(sent)) /\ k + 1 <= Len(sent')
        BY <1>1, <1>3
      <3>2. StartOf(k + 1) = total + 1 /\ StartOf(k + 1)' = starts'[k + 1]
        BY <3>1 DEF StartOf
      <3>3. QED
        BY <1>3, <3>2
    <2>3. QED
      BY <1>1, <2>1, <2>2
  <1>7. Layout'
    <2>1. StartOf(1)' = 1
      BY <1>1, <1>6 DEF Layout
    <2>2. ASSUME NEW i \in 1 .. k + 1
          PROVE  StartOf(i + 1)' = EndOf(i)'
      <3>1. CASE i \in 1 .. k
        BY <1>1, <1>5, <1>6, <3>1 DEF Layout
      <3>2. CASE i = k + 1
        <4>1. ~(i + 1 <= Len(sent'))
          BY <1>1, <1>3, <3>2
        <4>2. StartOf(i + 1)' = total' + 1
          BY <4>1 DEF StartOf
        <4>3. EndOf(i)' = total + 1 + HeaderLen(n) + n
          BY <1>3, <3>2 DEF EndOf
        <4>4. QED
          BY <1>1, <1>2, <4>2, <4>3
      <3>3. QED
        BY <1>1, <3>1, <3>2
    <2>3. ASSUME NEW i \in 1 .. k + 1
          PROVE  EndOf(i)' <= total' + 1
      <3>1. CASE i \in 1 .. k
        <4>1. EndOf(i) <= total + 1 /\ EndOf(i) \in Nat
          BY <1>1, <3>1, Message DEF Layout
        <4>2. QED
          BY <1>1, <1>2, <1>5, <3>1, <4>1
      <3>2. CASE i = k + 1
        <4>1. total' \in Nat
          BY <1>1, <1>2
        <4>2. EndOf(i)' = total + 1 + HeaderLen(n) + n
          BY <1>3, <3>2 DEF EndOf
        <4>3. QED
          BY <1>1, <1>2, <4>1, <4>2
      <3>3. QED
        BY <1>1, <3>1, <3>2
    <2>4. ASSUME NEW i \in 1 .. k + 1, NEW j \in 1 .. k + 1, i < j
          PROVE  EndOf(i)' <= starts'[j]
      <3>1. i \in 1 .. k
        BY <1>1, <2>4
      <3>2. CASE j \in 1 .. k
        BY <1>1, <1>3, <1>5, <2>4, <3>1, <3>2 DEF Layout
      <3>3. CASE j = k + 1
        <4>1. EndOf(i)' = EndOf(i) /\ EndOf(i) <= total + 1
          BY <1>1, <1>5, <3>1 DEF Layout
        <4>2. starts'[j] = total + 1
          BY <1>3, <3>3
        <4>3. QED
          BY <4>1, <4>2
      <3>4. QED
        BY <1>1, <3>2, <3>3
    <2>5. QED
      BY <1>3, <2>1, <2>2, <2>3, <2>4 DEF Layout
  <1>8. total' >= total
    BY <1>1, <1>2
  <1>9. \A i \in 1 .. k : TextOf(i)' = TextOf(i)
    BY <1>3 DEF TextOf
  <1>10. QED
    BY <1>1, <1>3, <1>4, <1>6, <1>7, <1>8, <1>9

-----------------------------------------------------------------------------
(*****************************************************************************)
(* The server.                                                               *)
(*****************************************************************************)

\* As many messages have been passed on as the reader has gone through, and
\* it is at the start of the next one, or one byte in front of it for ever.
ServerPosition ==
    /\ FirstOnes
    /\ ~OutOfStep => taken + 1 = StartOf(Len(got) + 1)
    /\ OutOfStep => taken + 2 = StartOf(Len(got) + 1)
    /\ lost => OutOfStep

ServerInv == ServerTypeOK /\ Layout /\ ServerPosition

LEMMA ServerInvInit == ServerInit => ServerInv
  <1> SUFFICES ASSUME ServerInit PROVE ServerInv
    OBVIOUS
  <1>1. /\ sent = <<>> /\ starts = <<>> /\ total = 0 /\ received = 0
        /\ got = <<>> /\ lost = FALSE /\ taken = 0
    BY DEF ServerInit, StreamInit
  <1>2. ServerTypeOK
    <2>1. /\ sent \in Seq(Lens) /\ starts \in Seq(Nat \ {0})
          /\ got \in Seq([from : Nat, len : Nat])
          /\ Len(starts) = Len(sent)
      BY <1>1, EmptySeq
    <2>2. total \in Nat /\ received \in 0 .. total /\ taken \in 0 .. received
      BY <1>1
    <2>3. QED
      BY <1>1, <2>1, <2>2 DEF ServerTypeOK, StreamTypeOK
  <1>3. Layout
    BY <1>1 DEF Layout, StartOf
  <1>4. ServerPosition
    BY <1>1 DEF ServerPosition, FirstOnes, OutOfStep, StartOf
  <1>5. QED
    BY <1>2, <1>3, <1>4 DEF ServerInv

LEMMA ServerSendStep ==
    ASSUME ServerInv, NEW n \in Lens, PeerSends(n)
    PROVE  ServerInv'
  <1>1. Send(n) /\ UNCHANGED <<received, got, lost, taken>>
    BY DEF PeerSends
  <1>2. StreamTypeOK /\ Layout
    BY DEF ServerInv, ServerTypeOK
  <1>3. /\ StreamTypeOK' /\ Layout' /\ total' >= total
        /\ Len(sent) \in Nat /\ Len(sent') = Len(sent) + 1
        /\ \A i \in 1 .. Len(sent) :
             /\ sent'[i] = sent[i] /\ starts'[i] = starts[i]
             /\ TextOf(i)' = TextOf(i)
        /\ \A i \in 1 .. Len(sent) + 1 : StartOf(i)' = StartOf(i)
    BY <1>1, <1>2, Sending
  <1>4. ServerTypeOK'
    BY <1>1, <1>3 DEF ServerInv, ServerTypeOK
  <1>5. ServerPosition'
    <2>1. Len(got) \in Nat /\ Len(got) <= Len(sent)
      BY DEF ServerInv, ServerTypeOK, StreamTypeOK, ServerPosition, FirstOnes
    <2>2. \A i \in 1 .. Len(got) :
            sent'[i] = sent[i] /\ TextOf(i)' = TextOf(i)
      BY <1>3, <2>1
    <2>3. OutOfStep' <=> OutOfStep
      <3>1. Len(got) > 0 => sent'[Len(got)] = sent[Len(got)]
        BY <2>1, <2>2
      <3>2. QED
        BY <1>1, <3>1 DEF OutOfStep
    <2>4. StartOf(Len(got) + 1)' = StartOf(Len(got) + 1)
      BY <1>1, <1>3, <2>1
    <2>5. FirstOnes'
      BY <1>1, <1>3, <2>1, <2>2 DEF ServerInv, ServerPosition, FirstOnes
    <2>6. QED
      BY <1>1, <2>3, <2>4, <2>5 DEF ServerInv, ServerPosition
  <1>6. QED
    BY <1>3, <1>4, <1>5 DEF ServerInv

\* The message _do_stuff takes is the next one, and it is in step.
LEMMA ServerNextMessage ==
    ASSUME ServerInv, NEW j \in 1 .. Len(sent), IsHeader(taken + 1, j)
    PROVE  j = Len(got) + 1 /\ ~OutOfStep
  <1> DEFINE g == Len(got)
  <1>1. /\ g \in Nat /\ g <= Len(sent) /\ Len(sent) \in Nat
        /\ taken \in Nat /\ total \in Nat
    BY DEF ServerInv, ServerTypeOK, StreamTypeOK, ServerPosition, FirstOnes
  <1>2. /\ starts[j] = taken + 1 /\ starts[j] \in Nat
        /\ EndOf(j) <= total + 1 /\ EndOf(j) > starts[j] /\ EndOf(j) \in Nat
    BY Message DEF ServerInv, ServerTypeOK, Layout, IsHeader
  <1>3. ~OutOfStep
    <2> SUFFICES ASSUME OutOfStep PROVE FALSE
      OBVIOUS
    <2>1. g \in 1 .. Len(sent) /\ taken + 2 = StartOf(g + 1)
      BY <1>1 DEF OutOfStep, ServerInv, ServerPosition, FirstOnes
    <2>2. EndOf(g) = taken + 2
      BY <2>1 DEF ServerInv, Layout
    <2>3. /\ HeaderLen(sent[g]) \in Nat /\ HeaderLen(sent[g]) = Hdr + 1
          /\ starts[g] \in Nat /\ sent[g] \in Nat
      BY <2>1, Message, Lengths DEF OutOfStep, ServerInv, ServerTypeOK
    <2>4. starts[g] < taken + 1
      <3>1. starts[g] + (Hdr + 1) + sent[g] = taken + 2
        BY <2>2, <2>3 DEF EndOf
      <3>2. QED
        BY <1>1, <2>3, <3>1, HdrType
    <2>5. j = g
      BY <1>1, <1>2, <2>1, <2>2, <2>3, <2>4, OneStart DEF ServerInv,
         ServerTypeOK
    <2>6. QED
      BY <1>2, <2>4, <2>5
  <1>4. taken + 1 = StartOf(g + 1)
    BY <1>3 DEF ServerInv, ServerPosition, FirstOnes
  <1>5. g < Len(sent)
    BY <1>1, <1>2, <1>4 DEF StartOf
  <1>6. g + 1 \in 1 .. Len(sent) /\ starts[g + 1] = starts[j]
    BY <1>1, <1>2, <1>4, <1>5 DEF StartOf
  <1>7. EndOf(g + 1) > starts[j] /\ starts[j] >= starts[g + 1]
    BY <1>2, <1>6, Message DEF ServerInv, ServerTypeOK
  <1>8. j = g + 1
    BY <1>1, <1>6, <1>7, OneStart DEF ServerInv, ServerTypeOK
  <1>9. QED
    BY <1>3, <1>8

LEMMA DoStuffStep ==
    ASSUME ServerInv, DoStuff
    PROVE  /\ ServerInv'
           /\ Len(got) < Len(sent)
           /\ Len(got') = Len(got) + 1
           /\ \A i \in 1 .. Len(got) : got'[i] = got[i]
           /\ UNCHANGED streamVars
  <1> DEFINE g == Len(got)
  <1>1. PICK j \in 1 .. Len(sent) :
          /\ IsHeader(taken + 1, j)
          /\ sent[j] <= PendingIn - Hdr
          /\ got' = Append(got, Text(taken + Hdr + 1, sent[j]))
          /\ taken' = taken + Hdr + sent[j]
    BY DEF DoStuff
  <1>2. UNCHANGED streamVars /\ UNCHANGED <<received, lost>> /\ ~lost
    BY DEF DoStuff
  <1>3. j = g + 1 /\ ~OutOfStep
    BY <1>1, ServerNextMessage
  <1>4. /\ g \in Nat /\ Len(sent) \in Nat /\ taken \in Nat /\ received \in Nat
        /\ got \in Seq([from : Nat, len : Nat])
        /\ sent[j] \in Nat /\ starts[j] \in Nat /\ starts[j] = taken + 1
    BY <1>1, Message DEF ServerInv, ServerTypeOK, StreamTypeOK, IsHeader
  <1>5. Text(taken + Hdr + 1, sent[j]) \in [from : Nat, len : Nat]
    BY <1>4, Lengths DEF Text
  <1>6. /\ got' \in Seq([from : Nat, len : Nat])
        /\ Len(got') = g + 1
        /\ \A i \in 1 .. g : got'[i] = got[i]
        /\ got'[g + 1] = Text(taken + Hdr + 1, sent[j])
    BY <1>1, <1>4, <1>5
  <1>7. ServerTypeOK'
    <2>1. taken' \in 0 .. received
      <3>1. sent[j] <= (received - taken) - Hdr /\ taken' = taken + Hdr + sent[j]
        BY <1>1 DEF PendingIn
      <3>2. QED
        BY <1>4, <3>1, HdrType
    <2>2. QED
      BY <1>2, <1>6, <2>1 DEF ServerInv, ServerTypeOK, StreamTypeOK, streamVars
  <1>8. Layout' /\ (\A i : StartOf(i)' = StartOf(i) /\ EndOf(i)' = EndOf(i))
    BY <1>2 DEF ServerInv, Layout, StartOf, EndOf, streamVars
  <1>9. ServerPosition'
    <2>1. \A i : TextOf(i)' = TextOf(i)
      BY <1>2 DEF TextOf, streamVars
    <2>2. ASSUME sent[j] <= MaxLen PROVE got'[j] = TextOf(j)
      <3>1. HeaderLen(sent[j]) = Hdr
        BY <1>4, <2>2, Lengths
      <3>2. taken + Hdr + 1 = starts[j] + Hdr
        BY <1>4, HdrType
      <3>3. QED
        BY <1>3, <1>6, <3>1, <3>2 DEF TextOf
    <2>3. \A i \in 1 .. g : sent[i] <= MaxLen
      <3>1. ASSUME g > 0 PROVE sent[g] <= MaxLen
        <4>1. g \in 1 .. Len(sent)
          BY <1>3, <1>4, <3>1
        <4>2. sent[g] \in Nat
          BY <4>1, Message DEF ServerInv, ServerTypeOK
        <4>3. ~(sent[g] > MaxLen)
          BY <1>3, <3>1 DEF OutOfStep
        <4>4. QED
          BY <4>2, <4>3, HdrType
      <3>2. \A i \in 1 .. g - 1 : sent[i] <= MaxLen
        BY DEF ServerInv, ServerPosition, FirstOnes
      <3>3. QED
        BY <1>4, <3>1, <3>2
    <2>4. \A i \in 1 .. g : got[i] = TextOf(i)
      BY <2>3 DEF ServerInv, ServerPosition, FirstOnes
    <2>5. StartOf(g + 2) = EndOf(j) /\ EndOf(j) \in Nat
      <3>1. StartOf(j + 1) = EndOf(j)
        BY DEF ServerInv, Layout
      <3>2. j + 1 = g + 2
        BY <1>3, <1>4
      <3>3. QED
        BY <3>1, <3>2, Message DEF ServerInv, ServerTypeOK
    <2>6. ASSUME sent[j] <= MaxLen PROVE taken' + 1 = EndOf(j)
      <3>1. EndOf(j) = (taken + 1) + Hdr + sent[j]
        BY <1>4, <2>6, Lengths DEF EndOf
      <3>2. QED
        BY <1>1, <1>4, <3>1, HdrType
    <2>7. ASSUME sent[j] > MaxLen PROVE taken' + 2 = EndOf(j)
      <3>1. EndOf(j) = (taken + 1) + (Hdr + 1) + sent[j]
        BY <1>4, <2>7, Lengths DEF EndOf
      <3>2. QED
        BY <1>1, <1>4, <3>1, HdrType
    <2>8. OutOfStep' <=> sent[j] > MaxLen
      <3>1. sent' = sent /\ Len(got') = j /\ j > 0
        BY <1>2, <1>3, <1>4, <1>6 DEF streamVars
      <3>2. QED
        BY <3>1 DEF OutOfStep
    <2>9. StartOf(Len(got) + 1)' = StartOf(g + 2)
      BY <1>4, <1>6, <1>8
    <2>10. Len(got') <= Len(sent') /\ sent' = sent
      <3>1. sent' = sent
        BY <1>2 DEF streamVars
      <3>2. QED
        BY <1>3, <1>4, <1>6, <3>1
    <2>11. ASSUME NEW i \in 1 .. Len(got'), sent'[i] <= MaxLen
           PROVE  got'[i] = TextOf(i)'
      <3>1. CASE i \in 1 .. g
        BY <1>6, <2>1, <2>4, <3>1
      <3>2. CASE i = j
        BY <2>1, <2>2, <2>10, <2>11, <3>2
      <3>3. QED
        BY <1>3, <1>4, <1>6, <3>1, <3>2
    <2>12. \A i \in 1 .. Len(got') - 1 : sent'[i] <= MaxLen
      BY <1>4, <1>6, <2>3, <2>10
    <2>13. ~OutOfStep' => taken' + 1 = StartOf(Len(got) + 1)'
      <3>1. sent[j] <= MaxLen \/ sent[j] > MaxLen
        BY <1>4, HdrType
      <3>2. QED
        BY <2>5, <2>6, <2>8, <2>9, <3>1
    <2>14. OutOfStep' => taken' + 2 = StartOf(Len(got) + 1)'
      BY <2>5, <2>7, <2>8, <2>9
    <2>15. QED
      BY <1>2, <2>10, <2>11, <2>12, <2>13, <2>14 DEF ServerPosition, FirstOnes
  <1>10. QED
    BY <1>2, <1>3, <1>4, <1>6, <1>7, <1>8, <1>9 DEF ServerInv

LEMMA ReadStep ==
    ASSUME ServerInv, NEW r \in received + 1 .. total, OnIO(r)
    PROVE  ServerInv'
  <1>1. received' = r /\ UNCHANGED <<streamVars, got, lost, taken>>
    BY DEF OnIO
  <1>2. ServerTypeOK'
    BY <1>1 DEF ServerInv, ServerTypeOK, StreamTypeOK, streamVars
  <1>3. Layout' /\ ServerPosition'
    BY <1>1 DEF ServerInv, Layout, ServerPosition, FirstOnes, OutOfStep,
       StartOf, EndOf, TextOf, streamVars
  <1>4. QED
    BY <1>2, <1>3 DEF ServerInv

\* Where no message starts is where the reader is out of step.
LEMMA LostStep ==
    ASSUME ServerInv, LoseStep
    PROVE  ServerInv'
  <1>1. /\ lost' = TRUE /\ UNCHANGED <<streamVars, received, got, taken>>
        /\ PendingIn >= Hdr
        /\ \A j \in 1 .. Len(sent) : ~IsHeader(taken + 1, j)
    BY DEF LoseStep
  <1>2. OutOfStep
    <2> SUFFICES ASSUME ~OutOfStep PROVE FALSE
      OBVIOUS
    <2>1. taken + 1 = StartOf(Len(got) + 1)
      BY DEF ServerInv, ServerPosition, FirstOnes
    <2>2. /\ Len(got) \in Nat /\ Len(sent) \in Nat /\ Len(got) <= Len(sent)
          /\ taken \in Nat /\ received \in Nat /\ total \in Nat
          /\ received <= total /\ received - taken >= Hdr
      BY <1>1 DEF ServerInv, ServerTypeOK, StreamTypeOK, ServerPosition,
         FirstOnes, PendingIn
    <2>3. Len(got) < Len(sent)
      BY <2>1, <2>2, Lengths DEF StartOf
    <2>4. starts[Len(got) + 1] = taken + 1
      BY <2>1, <2>2, <2>3 DEF StartOf
    <2>5. QED
      BY <1>1, <2>2, <2>3, <2>4 DEF IsHeader
  <1>3. ServerTypeOK'
    BY <1>1 DEF ServerInv, ServerTypeOK, StreamTypeOK, streamVars
  <1>4. Layout'
    BY <1>1 DEF ServerInv, Layout, StartOf, EndOf, streamVars
  <1>5. ServerPosition'
    BY <1>1, <1>2 DEF ServerInv, ServerPosition, FirstOnes, OutOfStep, StartOf,
       TextOf, streamVars
  <1>6. QED
    BY <1>3, <1>4, <1>5 DEF ServerInv

LEMMA ServerIdleStep == ServerInv /\ UNCHANGED serverVars => ServerInv'
  BY DEF ServerInv, ServerTypeOK, StreamTypeOK, Layout, ServerPosition,
     FirstOnes, OutOfStep, StartOf, EndOf, TextOf, serverVars, streamVars

LEMMA ServerInvStep == ServerInv /\ [ServerNext]_serverVars => ServerInv'
  BY ServerSendStep, ReadStep, DoStuffStep, LostStep, ServerIdleStep DEF
     ServerNext

\* The layout of the stream and the reader's position in it, which the next
\* theorems rest on (msgTypes.py:48-53, controlServer.py:150-159).
THEOREM ServerInvariant == ServerSpec => []ServerInv
  BY ServerInvInit, ServerInvStep, PTL DEF ServerSpec

\* Every variable keeps its type; in particular the server never takes from
\* pending_in what it has not received (controlServer.py:154-158).
THEOREM ServerTypesHold == ServerSpec => []ServerTypeOK
  <1>1. ServerInv => ServerTypeOK
    BY DEF ServerInv
  <1>2. QED
    BY <1>1, ServerInvariant, PTL

\* Seen from Fifo, what is passed on is what was sent.
LEMMA ServerPassedSent ==
    ASSUME ServerInv
    PROVE  /\ Len(got) \in Nat /\ Len(sent) \in Nat /\ sent \in Seq(Lens)
           /\ Len(got) <= Len(sent)
           /\ PassedIsSent
  <1>1. /\ Len(got) \in Nat /\ Len(sent) \in Nat /\ Len(got) <= Len(sent)
        /\ sent \in Seq(Lens)
    BY DEF ServerInv, ServerTypeOK, StreamTypeOK, ServerPosition, FirstOnes
  <1>2. ASSUME NEW i \in 1 .. Len(got)
        PROVE  Right(i) \/ BehindLong(i)
    <2>1. i \in 1 .. i /\ i <= Len(sent)
      BY <1>1
    <2>2. CASE sent[i] > MaxLen
      BY <2>1, <2>2 DEF BehindLong
    <2>3. CASE ~(sent[i] > MaxLen)
      <3>1. sent[i] \in Nat
        BY <1>1, <2>1, Message DEF ServerInv, ServerTypeOK
      <3>2. sent[i] <= MaxLen
        BY <2>3, <3>1, HdrType
      <3>3. QED
        BY <2>1, <3>2 DEF Right, ServerInv, ServerPosition, FirstOnes
    <2>4. QED
      BY <2>2, <2>3
  <1>3. PassedIsSent
    BY <1>2 DEF Passed, PassedIsSent
  <1>4. QED
    BY <1>1, <1>3

\* Up to the first text that is too long, the server's end of a connection is
\* a Fifo (controlServer.py:150-159): every step is one of it, or none.
THEOREM ServerIsFifo == ServerSpec => ServerDeliversInOrder
  <1>1. ServerInit => ServerFifo!Init
    BY DEF ServerInit, StreamInit, ServerFifo!Init, Passed
  <1>2. ServerInv => PassedIsSent
    BY ServerPassedSent
  <1>3. ASSUME ServerInv, PassedIsSent', [ServerNext]_serverVars
        PROVE  [ServerFifo!Next]_<<sent, Passed>>
    <2>1. /\ Passed = [i \in 1 .. Len(got) |-> sent[i]]
          /\ Passed' = [i \in 1 .. Len(got') |-> sent'[i]]
          /\ Len(got) \in Nat /\ Len(sent) \in Nat /\ Len(got) <= Len(sent)
          /\ sent \in Seq(Lens)
      BY <1>3, ServerPassedSent DEF PassedIsSent
    <2>2. ASSUME got' = got, sent' = sent
          PROVE  UNCHANGED <<sent, Passed>>
      BY <2>1, <2>2
    <2>3. ASSUME NEW n \in Lens, PeerSends(n)
          PROVE  ServerFifo!Send(n)
      <3>1. sent' = Append(sent, n) /\ got' = got
        BY <2>3 DEF PeerSends, Send
      <3>2. \A i \in 1 .. Len(got) : sent'[i] = sent[i]
        BY <2>1, <3>1
      <3>3. Passed' = Passed
        BY <2>1, <3>1, <3>2
      <3>4. QED
        BY <3>1, <3>3 DEF ServerFifo!Send
    <2>4. ASSUME DoStuff
          PROVE  ServerFifo!Deliver
      <3>1. /\ Len(got) < Len(sent) /\ Len(got') = Len(got) + 1 /\ sent' = sent
        BY <1>3, <2>4, DoStuffStep DEF streamVars
      <3>2. Len(Passed) = Len(got)
        BY <2>1
      <3>3. Passed' = Append(Passed, sent[Len(Passed) + 1])
        <4>1. Passed' = [i \in 1 .. Len(got) + 1 |-> sent[i]]
          BY <2>1, <3>1
        <4>2. Append(Passed, sent[Len(got) + 1])
                = [i \in 1 .. Len(got) + 1 |-> sent[i]]
          BY <2>1, <3>1, <3>2
        <4>3. QED
          BY <3>2, <4>1, <4>2
      <3>4. QED
        BY <3>1, <3>2, <3>3 DEF ServerFifo!Deliver
    <2>5. ASSUME NEW r \in received + 1 .. total, OnIO(r)
          PROVE  UNCHANGED <<sent, Passed>>
      BY <2>2, <2>5 DEF OnIO, streamVars
    <2>6. ASSUME LoseStep
          PROVE  UNCHANGED <<sent, Passed>>
      BY <2>2, <2>6 DEF LoseStep, streamVars
    <2>7. ASSUME UNCHANGED serverVars
          PROVE  UNCHANGED <<sent, Passed>>
      BY <2>2, <2>7 DEF serverVars, streamVars
    <2>8. QED
      BY <1>3, <2>3, <2>4, <2>5, <2>6, <2>7 DEF ServerNext, ServerFifo!Next
  <1>4. QED
    BY <1>1, <1>2, <1>3, ServerInvariant, PTL DEF ServerSpec,
       ServerDeliversInOrder, ServerFifo!Spec

-----------------------------------------------------------------------------
(*****************************************************************************)
(* A unit: until an item comes in three parts, get_data knows where in the   *)
(* stream it is.                                                             *)
(*****************************************************************************)

\* The length of the item that is waited for.
ItemLen == IF pendingHdr THEN Hdr ELSE msgLen

\* Where the item starts in the stream.
ItemAt == received - pending + 1

\* What is there and what is asked for make up the item, which has come in
\* at most one part so far.
Item ==
    /\ pending + pendingLen = ItemLen
    /\ cuts \in 0 .. 1
    /\ cuts = 0 => pending = 0

\* The item is the next message's header, or its text; after a text that was
\* too long, it is one byte in front of that header, and what is read of it
\* is not a header.
ClientPosition ==
    /\ FirstOnes
    /\ pendingHdr /\ ~OutOfStep => ItemAt = StartOf(Len(got) + 1)
    /\ pendingHdr /\ OutOfStep /\ ~lost => ItemAt + 1 = StartOf(Len(got) + 1)
    /\ ~pendingHdr =>
         /\ Len(got) < Len(sent)
         /\ ~OutOfStep
         /\ msgLen = sent[Len(got) + 1]
         /\ ItemAt = starts[Len(got) + 1] + Hdr
    /\ lost => OutOfStep

ClientInv == ClientTypeOK /\ Layout /\ (~thirds => Item /\ ClientPosition)

\* What the types say of the reader.
LEMMA Reader ==
    ASSUME ClientTypeOK
    PROVE  /\ received \in Nat /\ total \in Nat /\ received <= total
           /\ pending \in Nat /\ pending <= received
           /\ pendingLen \in Nat /\ pendingLen > 0
           /\ msgLen \in Nat /\ cuts \in Nat /\ cuts <= MaxCuts
           /\ Len(got) \in Nat /\ Len(sent) \in Nat
  <1>1. MaxCuts \in Nat
    BY CutsAssumption
  <1>2. /\ total \in Nat /\ received \in 0 .. total /\ pending \in 0 .. received
        /\ pendingLen \in Nat \ {0} /\ msgLen \in Nat /\ cuts \in 0 .. MaxCuts
    BY DEF ClientTypeOK, StreamTypeOK
  <1>3. Len(got) \in Nat /\ Len(sent) \in Nat
    BY DEF ClientTypeOK, StreamTypeOK
  <1>4. QED
    BY <1>1, <1>2, <1>3

LEMMA ClientInvInit == ClientInit => ClientInv
  <1> SUFFICES ASSUME ClientInit PROVE ClientInv
    OBVIOUS
  <1>1. /\ sent = <<>> /\ starts = <<>> /\ total = 0 /\ received = 0
        /\ got = <<>> /\ lost = FALSE
        /\ pending = 0 /\ pendingLen = Hdr /\ pendingHdr = TRUE /\ msgLen = 0
        /\ cuts = 0 /\ thirds = FALSE
    BY DEF ClientInit, StreamInit
  <1>2. ClientTypeOK
    <2>1. /\ sent \in Seq(Lens) /\ starts \in Seq(Nat \ {0})
          /\ got \in Seq([from : Nat, len : Nat])
          /\ Len(starts) = Len(sent)
      BY <1>1, EmptySeq
    <2>2. /\ total \in Nat /\ received \in 0 .. total
          /\ pending \in 0 .. received /\ pendingLen \in Nat \ {0}
          /\ cuts \in 0 .. MaxCuts
      BY <1>1, HdrType, CutsAssumption
    <2>3. QED
      BY <1>1, <2>1, <2>2 DEF ClientTypeOK, StreamTypeOK
  <1>3. Layout
    BY <1>1 DEF Layout, StartOf
  <1>4. Item
    BY <1>1, HdrType DEF Item, ItemLen
  <1>5. ClientPosition
    BY <1>1 DEF ClientPosition, FirstOnes, OutOfStep, StartOf, ItemAt
  <1>6. QED
    BY <1>2, <1>3, <1>4, <1>5 DEF ClientInv

LEMMA ClientSendStep ==
    ASSUME ClientInv, NEW n \in Lens, CcmSends(n)
    PROVE  ClientInv'
  <1>1. /\ Send(n)
        /\ UNCHANGED <<received, got, lost>>
        /\ UNCHANGED <<pending, pendingLen, pendingHdr, msgLen, cuts, thirds>>
    BY DEF CcmSends, itemVars
  <1>2. StreamTypeOK /\ Layout
    BY DEF ClientInv, ClientTypeOK
  <1>3. /\ StreamTypeOK' /\ Layout' /\ total' >= total
        /\ Len(sent) \in Nat /\ Len(sent') = Len(sent) + 1
        /\ \A i \in 1 .. Len(sent) :
             /\ sent'[i] = sent[i] /\ starts'[i] = starts[i]
             /\ TextOf(i)' = TextOf(i)
        /\ \A i \in 1 .. Len(sent) + 1 : StartOf(i)' = StartOf(i)
    BY <1>1, <1>2, Sending
  <1>4. ClientTypeOK'
    BY <1>1, <1>3 DEF ClientInv, ClientTypeOK
  <1>5. ASSUME ~thirds' PROVE Item' /\ ClientPosition'
    <2>1. Item /\ ClientPosition
      BY <1>1, <1>5 DEF ClientInv
    <2>2. Item'
      BY <1>1, <2>1 DEF Item, ItemLen
    <2>3. Len(got) \in Nat /\ Len(got) <= Len(sent)
      BY <2>1, Reader DEF ClientInv, ClientPosition, FirstOnes
    <2>4. \A i \in 1 .. Len(got) :
            sent'[i] = sent[i] /\ TextOf(i)' = TextOf(i)
      BY <1>3, <2>3
    <2>5. OutOfStep' <=> OutOfStep
      <3>1. Len(got) > 0 => sent'[Len(got)] = sent[Len(got)]
        BY <2>3, <2>4
      <3>2. QED
        BY <1>1, <3>1 DEF OutOfStep
    <2>6. FirstOnes'
      BY <1>1, <1>3, <2>1, <2>3, <2>4 DEF ClientPosition, FirstOnes
    <2>7. StartOf(Len(got) + 1)' = StartOf(Len(got) + 1)
      BY <1>1, <1>3, <2>3
    <2>8. Len(got) < Len(sent)
            => /\ sent'[Len(got) + 1] = sent[Len(got) + 1]
               /\ starts'[Len(got) + 1] = starts[Len(got) + 1]
      BY <1>3, <2>3
    <2>9. ItemAt' = ItemAt
      BY <1>1 DEF ItemAt
    <2>10. Len(got) < Len(sent) => Len(got) < Len(sent')
      BY <1>3, <2>3
    <2>11. QED
      BY <1>1, <2>1, <2>2, <2>5, <2>6, <2>7, <2>8, <2>9, <2>10 DEF
         ClientPosition
  <1>6. QED
    BY <1>3, <1>4, <1>5 DEF ClientInv

\* What a read brings, and when an item that it completes has come in no more
\* than two parts.
LEMMA Reading ==
    ASSUME ClientTypeOK, NEW d \in 1 .. pendingLen, Recv(d)
    PROVE  /\ d \in Nat /\ d > 0 /\ d <= pendingLen
           /\ received' = received + d /\ received' <= total
           /\ ~lost /\ thirds' \in BOOLEAN /\ (thirds => thirds')
           /\ d < pendingLen => cuts < MaxCuts
           /\ ~thirds' => ~thirds /\ (d = pendingLen \/ cuts = 0)
  <1>1. pendingLen \in Nat /\ cuts \in Nat /\ received \in Nat /\ total \in Nat
    BY Reader
  <1>2. /\ ~lost /\ d <= total - received /\ received' = received + d
        /\ (d < pendingLen => cuts < MaxCuts)
        /\ thirds' = (thirds \/ (d < pendingLen /\ cuts > 0))
    BY DEF Recv
  <1>3. thirds \in BOOLEAN
    BY DEF ClientTypeOK
  <1>4. d \in Nat /\ d > 0 /\ d <= pendingLen /\ received + d <= total
    BY <1>1, <1>2
  <1>5. ~(d < pendingLen) => d = pendingLen
    BY <1>1, <1>4
  <1>6. ~(cuts > 0) => cuts = 0
    BY <1>1
  <1>7. QED
    BY <1>2, <1>3, <1>4, <1>5, <1>6

LEMMA InTwo ==
    ASSUME ClientInv, NEW d \in 1 .. pendingLen, Recv(d), ~thirds'
    PROVE  /\ Item /\ ClientPosition
           /\ pending + d < pendingLen => pending = 0
           /\ pending + d >= pendingLen => pending + d = ItemLen
  <1>1. ClientTypeOK
    BY DEF ClientInv
  <1>2. ~thirds /\ (d = pendingLen \/ cuts = 0) /\ d \in Nat /\ d <= pendingLen
    BY <1>1, Reading
  <1>3. Item /\ ClientPosition
    BY <1>2 DEF ClientInv
  <1>4. pending + pendingLen = ItemLen /\ (cuts = 0 => pending = 0)
    BY <1>3 DEF Item
  <1>5. pending \in Nat /\ pendingLen \in Nat
    BY <1>1, Reader
  <1>6. pending + d < pendingLen => pending = 0
    BY <1>2, <1>4, <1>5
  <1>7. pending + d >= pendingLen => d = pendingLen
    BY <1>2, <1>4, <1>5
  <1>8. QED
    BY <1>3, <1>4, <1>6, <1>7

\* The stream stays as it is beside a read.
LEMMA StreamStays ==
    ASSUME UNCHANGED streamVars
    PROVE  /\ sent' = sent /\ starts' = starts /\ total' = total
           /\ Layout => Layout'
           /\ \A i : /\ StartOf(i)' = StartOf(i) /\ EndOf(i)' = EndOf(i)
                     /\ TextOf(i)' = TextOf(i)
  BY DEF streamVars, Layout, StartOf, EndOf, TextOf

\* Appended to a sequence.
LEMMA OneMore ==
    ASSUME NEW S, NEW s \in Seq(S), NEW x \in S
    PROVE  /\ Append(s, x) \in Seq(S) /\ Len(Append(s, x)) = Len(s) + 1
           /\ \A i \in 1 .. Len(s) : Append(s, x)[i] = s[i]
           /\ Append(s, x)[Len(s) + 1] = x
  OBVIOUS

\* The header at ItemAt is that of the next message, and it is in step.
LEMMA ClientNextMessage ==
    ASSUME ClientTypeOK, Layout, ClientPosition, pendingHdr, ~lost,
           NEW j \in 1 .. Len(sent), IsHeader(ItemAt, j)
    PROVE  j = Len(got) + 1 /\ ~OutOfStep /\ starts[j] = ItemAt
  <1> DEFINE g == Len(got)
             at == ItemAt
  <1>1. /\ g \in Nat /\ g <= Len(sent) /\ Len(sent) \in Nat
        /\ at \in Nat /\ total \in Nat
    <2>1. pending \in Nat /\ received \in Nat /\ pending <= received
      BY Reader
    <2>2. at \in Nat
      BY <2>1 DEF ItemAt
    <2>3. QED
      BY <2>2, Reader DEF ClientPosition, FirstOnes
  <1>2. /\ starts[j] = at /\ starts[j] \in Nat
        /\ EndOf(j) <= total + 1 /\ EndOf(j) > starts[j] /\ EndOf(j) \in Nat
    BY Message DEF ClientTypeOK, Layout, IsHeader
  <1>3. /\ ~OutOfStep => at = StartOf(g + 1)
        /\ OutOfStep => at + 1 = StartOf(g + 1)
    BY DEF ClientPosition
  <1> HIDE DEF at
  <1>4. ~OutOfStep
    <2> SUFFICES ASSUME OutOfStep PROVE FALSE
      OBVIOUS
    <2>1. g \in 1 .. Len(sent) /\ at + 1 = StartOf(g + 1)
      BY <1>1, <1>3 DEF OutOfStep
    <2>2. EndOf(g) = at + 1
      BY <2>1 DEF Layout
    <2>3. /\ HeaderLen(sent[g]) \in Nat /\ HeaderLen(sent[g]) = Hdr + 1
          /\ starts[g] \in Nat /\ sent[g] \in Nat
      BY <2>1, Message, Lengths DEF OutOfStep, ClientTypeOK
    <2>4. starts[g] < at
      <3>1. starts[g] + (Hdr + 1) + sent[g] = at + 1
        BY <2>2, <2>3 DEF EndOf
      <3>2. QED
        BY <1>1, <2>3, <3>1, HdrType
    <2>5. j = g
      BY <1>1, <1>2, <2>1, <2>2, <2>3, <2>4, OneStart DEF ClientTypeOK
    <2>6. QED
      BY <1>2, <2>4, <2>5
  <1>5. at = StartOf(g + 1)
    BY <1>3, <1>4
  <1>6. g < Len(sent)
    BY <1>1, <1>2, <1>5 DEF StartOf
  <1>7. g + 1 \in 1 .. Len(sent) /\ starts[g + 1] = starts[j]
    BY <1>1, <1>2, <1>5, <1>6 DEF StartOf
  <1>8. EndOf(g + 1) > starts[j] /\ starts[j] >= starts[g + 1]
    BY <1>2, <1>7, Message DEF ClientTypeOK
  <1>9. j = g + 1
    BY <1>1, <1>7, <1>8, OneStart DEF ClientTypeOK
  <1>10. QED
    BY <1>2, <1>4, <1>9 DEF at

\* The next text is passed on, as it was sent unless it is too long.
LEMMA PassedOn ==
    ASSUME ClientTypeOK, Layout, FirstOnes, ~OutOfStep,
           NEW j \in 1 .. Len(sent), j = Len(got) + 1,
           NEW t \in [from : Nat, len : Nat],
           sent[j] <= MaxLen => t = TextOf(j),
           got' = Append(got, t), UNCHANGED streamVars
    PROVE  /\ FirstOnes' /\ got' \in Seq([from : Nat, len : Nat])
           /\ Len(got') = j
           /\ OutOfStep' <=> sent[j] > MaxLen
           /\ StartOf(Len(got) + 1)' = EndOf(j)
  <1> DEFINE g == Len(got)
  <1>1. /\ g \in Nat /\ Len(sent) \in Nat /\ g < Len(sent) /\ j = g + 1
        /\ got \in Seq([from : Nat, len : Nat])
    BY Reader DEF ClientTypeOK, StreamTypeOK
  <1>2. /\ got' \in Seq([from : Nat, len : Nat]) /\ Len(got') = j
        /\ \A i \in 1 .. g : got'[i] = got[i]
        /\ got'[j] = t
    BY <1>1, OneMore
  <1>3. /\ sent' = sent
        /\ \A i : StartOf(i)' = StartOf(i) /\ TextOf(i)' = TextOf(i)
    BY StreamStays
  <1>4. OutOfStep' <=> sent[j] > MaxLen
    <2>1. sent' = sent /\ Len(got') = j /\ j > 0
      BY <1>1, <1>2, <1>3
    <2>2. QED
      BY <2>1 DEF OutOfStep
  <1>5. \A i \in 1 .. g : sent[i] <= MaxLen
    <2>1. ASSUME g > 0 PROVE sent[g] <= MaxLen
      <3>1. g \in 1 .. Len(sent)
        BY <1>1, <2>1
      <3>2. sent[g] \in Nat
        BY <3>1, Message DEF ClientTypeOK
      <3>3. ~(sent[g] > MaxLen)
        BY <2>1 DEF OutOfStep
      <3>4. QED
        BY <3>2, <3>3, HdrType
    <2>2. \A i \in 1 .. g - 1 : sent[i] <= MaxLen
      BY DEF FirstOnes
    <2>3. QED
      BY <1>1, <2>1, <2>2
  <1>6. \A i \in 1 .. g : got[i] = TextOf(i)
    BY <1>5 DEF FirstOnes
  <1>7. FirstOnes'
    <2>1. Len(got') <= Len(sent')
      BY <1>1, <1>2, <1>3
    <2>2. ASSUME NEW i \in 1 .. Len(got'), sent'[i] <= MaxLen
          PROVE  got'[i] = TextOf(i)'
      <3>1. CASE i \in 1 .. g
        BY <1>2, <1>3, <1>6, <3>1
      <3>2. CASE i = j
        BY <1>2, <1>3, <2>2, <3>2
      <3>3. QED
        BY <1>1, <1>2, <3>1, <3>2
    <2>3. \A i \in 1 .. Len(got') - 1 : sent'[i] <= MaxLen
      BY <1>1, <1>2, <1>3, <1>5
    <2>4. QED
      BY <2>1, <2>2, <2>3 DEF FirstOnes
  <1>8. StartOf(Len(got) + 1)' = EndOf(j)
    <2>1. StartOf(Len(got) + 1)' = StartOf(j + 1)
      BY <1>2, <1>3
    <2>2. StartOf(j + 1) = EndOf(j)
      BY DEF Layout
    <2>3. QED
      BY <2>1, <2>2
  <1>9. QED
    BY <1>2, <1>4, <1>7, <1>8

\* A part of an item: what is still to come is asked for.
LEMMA SomeStep ==
    ASSUME ClientInv, NEW d \in 1 .. pendingLen, GetSome(d)
    PROVE  ClientInv' /\ (thirds => thirds') /\ UNCHANGED <<sent, got>>
  <1>1. /\ Recv(d) /\ pending + d < pendingLen
        /\ pending' = pending + d /\ pendingLen' = pendingLen - d
        /\ cuts' = cuts + 1
        /\ UNCHANGED streamVars /\ UNCHANGED <<got, lost, pendingHdr, msgLen>>
    BY DEF GetSome
  <1>2. /\ d \in Nat /\ d > 0 /\ d <= pendingLen
        /\ received' = received + d /\ received' <= total
        /\ thirds' \in BOOLEAN /\ (thirds => thirds')
        /\ d < pendingLen => cuts < MaxCuts
        /\ ~thirds' => ~thirds /\ (d = pendingLen \/ cuts = 0)
    BY <1>1, Reading DEF ClientInv
  <1>3. /\ received \in Nat /\ total \in Nat /\ pending \in Nat
        /\ pending <= received /\ pendingLen \in Nat /\ cuts \in Nat
        /\ MaxCuts \in Nat
    BY Reader, CutsAssumption DEF ClientInv
  <1>4. /\ sent' = sent /\ starts' = starts /\ total' = total
        /\ (Layout => Layout')
        /\ \A i : StartOf(i)' = StartOf(i) /\ TextOf(i)' = TextOf(i)
    BY <1>1, StreamStays
  <1>5. ClientTypeOK'
    <2>1. /\ received' \in 0 .. total /\ pending' \in 0 .. received'
          /\ pendingLen' \in Nat \ {0} /\ cuts' \in 0 .. MaxCuts
      BY <1>1, <1>2, <1>3
    <2>2. StreamTypeOK'
      BY <1>1, <1>4, <2>1 DEF ClientInv, ClientTypeOK, StreamTypeOK
    <2>3. QED
      BY <1>1, <1>2, <2>1, <2>2 DEF ClientInv, ClientTypeOK
  <1>6. ASSUME ~thirds' PROVE Item' /\ ClientPosition'
    <2>1. Item /\ ClientPosition /\ pending = 0
      BY <1>1, <1>6, InTwo
    <2>2. cuts = 0
      <3>1. pending + d < pendingLen
        BY <1>1
      <3>2. d # pendingLen
        BY <1>2, <1>3, <3>1
      <3>3. QED
        BY <1>2, <1>6, <3>2
    <2>3. Item'
      <3>1. ItemLen' = ItemLen
        BY <1>1 DEF ItemLen
      <3>2. pending + pendingLen = ItemLen
        BY <2>1 DEF Item
      <3>3. (pending + d) + (pendingLen - d) = pending + pendingLen
        BY <1>2, <1>3
      <3>4. cuts' = 1
        BY <1>1, <2>2
      <3>5. QED
        BY <1>1, <3>1, <3>2, <3>3, <3>4 DEF Item
    <2>4. ItemAt' = ItemAt
      <3>1. (received + d) - (pending + d) + 1 = received - pending + 1
        BY <1>2, <1>3
      <3>2. QED
        BY <1>1, <1>2, <3>1 DEF ItemAt
    <2>5. FirstOnes' /\ (OutOfStep' <=> OutOfStep)
      BY <1>1, <1>4, <2>1 DEF ClientPosition, FirstOnes, OutOfStep
    <2>6. StartOf(Len(got) + 1)' = StartOf(Len(got) + 1)
      BY <1>1, <1>4
    <2>7. (pendingHdr' <=> pendingHdr) /\ (lost' <=> lost)
      BY <1>1
    <2>8. ASSUME ~pendingHdr
          PROVE  /\ Len(got') < Len(sent') /\ msgLen' = sent'[Len(got') + 1]
                 /\ ItemAt' = starts'[Len(got') + 1] + Hdr
      BY <1>1, <1>4, <2>1, <2>4, <2>8 DEF ClientPosition
    <2>9. QED
      BY <2>1, <2>3, <2>4, <2>5, <2>6, <2>7, <2>8 DEF ClientPosition
  <1>7. QED
    BY <1>1, <1>2, <1>4, <1>5, <1>6 DEF ClientInv

\* Bytes taken for a header that are none: the reader was out of step.
LEMMA NoHeaderStep ==
    ASSUME ClientInv, NEW d \in 1 .. pendingLen, GetNoHeader(d)
    PROVE  ClientInv' /\ (thirds => thirds') /\ UNCHANGED <<sent, got>>
  <1>1. /\ Recv(d) /\ pending + d >= pendingLen /\ pendingHdr
        /\ (\/ pending + d # Hdr
            \/ \A j \in 1 .. Len(sent) : ~IsHeader(ItemAt, j))
        /\ lost' = TRUE
        /\ UNCHANGED streamVars /\ UNCHANGED <<got, cuts>>
        /\ UNCHANGED <<pending, pendingLen, pendingHdr, msgLen>>
    BY DEF GetNoHeader, itemVars, ItemAt
  <1>2. /\ d \in Nat /\ d > 0 /\ d <= pendingLen
        /\ received' = received + d /\ received' <= total
        /\ ~lost /\ thirds' \in BOOLEAN /\ (thirds => thirds')
        /\ ~thirds' => ~thirds
    BY <1>1, Reading DEF ClientInv
  <1>3. /\ received \in Nat /\ total \in Nat /\ pending \in Nat
        /\ pending <= received /\ pendingLen \in Nat
        /\ Len(got) \in Nat /\ Len(sent) \in Nat
    BY Reader DEF ClientInv
  <1>4. /\ sent' = sent /\ starts' = starts /\ total' = total
        /\ (Layout => Layout')
        /\ \A i : StartOf(i)' = StartOf(i) /\ TextOf(i)' = TextOf(i)
    BY <1>1, StreamStays
  <1>5. ClientTypeOK'
    <2>1. received' \in 0 .. total /\ pending' \in 0 .. received'
      BY <1>1, <1>2, <1>3
    <2>2. StreamTypeOK'
      BY <1>1, <1>4, <2>1 DEF ClientInv, ClientTypeOK, StreamTypeOK
    <2>3. QED
      BY <1>1, <1>2, <2>1, <2>2 DEF ClientInv, ClientTypeOK
  <1>6. ASSUME ~thirds' PROVE Item' /\ ClientPosition'
    <2>1. Item /\ ClientPosition /\ pending + d = Hdr
      BY <1>1, <1>6, InTwo DEF ItemLen
    <2>2. OutOfStep
      <3> SUFFICES ASSUME ~OutOfStep PROVE FALSE
        OBVIOUS
      <3>1. ItemAt = StartOf(Len(got) + 1) /\ Len(got) <= Len(sent)
        BY <1>1, <2>1 DEF ClientPosition, FirstOnes
      <3>2. ItemAt <= total
        <4>1. received + d <= total
          BY <1>2
        <4>2. received - pending + 1 <= total
          BY <1>2, <1>3, <4>1
        <4>3. QED
          BY <4>2 DEF ItemAt
      <3>3. Len(got) + 1 <= Len(sent)
        <4>1. ASSUME ~(Len(got) + 1 <= Len(sent)) PROVE FALSE
          <5>1. ItemAt = total + 1
            BY <3>1, <4>1 DEF StartOf
          <5>2. QED
            BY <1>3, <3>2, <5>1
        <4>2. QED
          BY <4>1
      <3>4. Len(got) + 1 \in 1 .. Len(sent)
        BY <1>3, <3>3
      <3>5. IsHeader(ItemAt, Len(got) + 1)
        BY <3>1, <3>3 DEF StartOf, IsHeader
      <3>6. QED
        BY <1>1, <2>1, <3>4, <3>5
    <2>3. Item'
      BY <1>1, <2>1 DEF Item, ItemLen
    <2>4. FirstOnes' /\ OutOfStep'
      BY <1>1, <1>4, <2>1, <2>2 DEF ClientPosition, FirstOnes, OutOfStep
    <2>5. pendingHdr' /\ lost'
      BY <1>1
    <2>6. QED
      BY <2>3, <2>4, <2>5 DEF ClientPosition
  <1>7. QED
    BY <1>1, <1>2, <1>4, <1>5, <1>6 DEF ClientInv

\* A header is that of the next message: a message without text is passed on,
\* the text of another is waited for.
LEMMA HeaderStep ==
    ASSUME ClientInv, NEW d \in 1 .. pendingLen, GetHeader(d)
    PROVE  /\ ClientInv' /\ (thirds => thirds') /\ sent' = sent
           /\ ~thirds' => \/ got' = got
                          \/ /\ Len(got) < Len(sent)
                             /\ Len(got') = Len(got) + 1
  <1>1. /\ Recv(d) /\ pending + d >= pendingLen /\ pendingHdr
        /\ pending + d = Hdr
        /\ UNCHANGED streamVars /\ lost' = lost
    BY DEF GetHeader
  <1>2. PICK j \in 1 .. Len(sent) :
          /\ IsHeader(ItemAt, j)
          /\ msgLen' = sent[j]
          /\ IF sent[j] = 0
               THEN /\ got' = Append(got, Text(received' + 1, 0))
                    /\ WaitForHeader
               ELSE /\ pending' = 0
                    /\ pendingLen' = sent[j]
                    /\ pendingHdr' = FALSE
                    /\ cuts' = 0
                    /\ UNCHANGED got
    BY DEF GetHeader, ItemAt
  <1>3. /\ d \in Nat /\ d > 0 /\ d <= pendingLen
        /\ received' = received + d /\ received' <= total
        /\ ~lost /\ thirds' \in BOOLEAN /\ (thirds => thirds')
        /\ ~thirds' => ~thirds
    BY <1>1, Reading DEF ClientInv
  <1>4. /\ received \in Nat /\ total \in Nat /\ pending \in Nat
        /\ pending <= received /\ Len(got) \in Nat /\ Len(sent) \in Nat
        /\ MaxCuts \in Nat
    BY Reader, CutsAssumption DEF ClientInv
  <1>5. /\ sent' = sent /\ starts' = starts /\ total' = total
        /\ (Layout => Layout')
        /\ \A i : StartOf(i)' = StartOf(i) /\ TextOf(i)' = TextOf(i)
    BY <1>1, StreamStays
  <1>6. sent[j] \in Nat
    BY Message DEF ClientInv, ClientTypeOK
  <1>7. /\ pending' = 0 /\ cuts' = 0
        /\ IF sent[j] = 0
             THEN /\ got' = Append(got, Text(received' + 1, 0))
                  /\ pendingLen' = Hdr /\ pendingHdr' = TRUE
             ELSE /\ got' = got
                  /\ pendingLen' = sent[j] /\ pendingHdr' = FALSE
    BY <1>2 DEF WaitForHeader
  <1>8. ItemAt' = received' + 1 /\ received' + 1 = ItemAt + Hdr
    <2>1. received' - 0 + 1 = received' + 1
      BY <1>3, <1>4
    <2>2. received' + 1 = (received - pending + 1) + Hdr
      BY <1>1, <1>3, <1>4
    <2>3. QED
      BY <1>7, <2>1, <2>2 DEF ItemAt
  <1>9. Text(received' + 1, 0) \in [from : Nat, len : Nat]
    BY <1>3, <1>4 DEF Text
  <1>10. ClientTypeOK'
    <2>1. got' \in Seq([from : Nat, len : Nat])
      <3>1. got \in Seq([from : Nat, len : Nat])
        BY DEF ClientInv, ClientTypeOK, StreamTypeOK
      <3>2. CASE sent[j] = 0
        <4> DEFINE t == Text(received' + 1, 0)
        <4>1. got' = Append(got, t) /\ t \in [from : Nat, len : Nat]
          BY <1>7, <1>9, <3>2
        <4> HIDE DEF t
        <4>2. QED
          BY <3>1, <4>1, OneMore
      <3>3. CASE sent[j] # 0
        BY <1>7, <3>1, <3>3
      <3>4. QED
        BY <3>2, <3>3
    <2>2. /\ received' \in 0 .. total /\ pending' \in 0 .. received'
          /\ cuts' \in 0 .. MaxCuts
      BY <1>3, <1>4, <1>7
    <2>3. pendingLen' \in Nat \ {0} /\ pendingHdr' \in BOOLEAN
      <3>1. CASE sent[j] = 0
        BY <1>7, <3>1, HdrType
      <3>2. CASE sent[j] # 0
        BY <1>6, <1>7, <3>2
      <3>3. QED
        BY <3>1, <3>2
    <2>4. StreamTypeOK'
      BY <1>1, <1>5, <2>1, <2>2 DEF ClientInv, ClientTypeOK, StreamTypeOK
    <2>5. QED
      BY <1>2, <1>3, <1>6, <2>2, <2>3, <2>4 DEF ClientTypeOK
  <1>11. ASSUME ~thirds'
         PROVE  /\ Item' /\ ClientPosition'
                /\ \/ got' = got
                   \/ Len(got) < Len(sent) /\ Len(got') = Len(got) + 1
    <2>1. Item /\ ClientPosition
      BY <1>1, <1>11, InTwo
    <2>2. j = Len(got) + 1 /\ ~OutOfStep /\ starts[j] = ItemAt
      BY <1>1, <1>2, <1>3, <2>1, ClientNextMessage DEF ClientInv
    <2>3. Item'
      <3>1. CASE sent[j] = 0
        BY <1>7, <3>1, HdrType DEF Item, ItemLen
      <3>2. CASE sent[j] # 0
        BY <1>2, <1>6, <1>7, <3>2 DEF Item, ItemLen
      <3>3. QED
        BY <3>1, <3>2
    <2>4. CASE sent[j] = 0
      <3> DEFINE t == Text(received' + 1, 0)
      <3>1. HeaderLen(sent[j]) = Hdr /\ sent[j] <= MaxLen
        BY <2>4, Lengths, HdrType
      <3>2. t = TextOf(j)
        BY <1>8, <2>2, <2>4, <3>1 DEF TextOf
      <3>3. got' = Append(got, t) /\ pendingHdr'
        BY <1>7, <2>4
      <3>4. t \in [from : Nat, len : Nat] /\ FirstOnes
        BY <1>9, <2>1 DEF ClientPosition
      <3> HIDE DEF t
      <3>5. /\ FirstOnes' /\ Len(got') = j
            /\ OutOfStep' <=> sent[j] > MaxLen
            /\ StartOf(Len(got) + 1)' = EndOf(j)
        BY <1>1, <2>2, <3>2, <3>3, <3>4, PassedOn DEF ClientInv
      <3>6. ~OutOfStep'
        BY <2>4, <3>1, <3>5, HdrType
      <3>7. ItemAt' = EndOf(j)
        <4>1. EndOf(j) = ItemAt + Hdr + 0
          BY <2>2, <2>4, <3>1 DEF EndOf
        <4>2. ItemAt \in Nat
          BY <1>4 DEF ItemAt
        <4>3. QED
          BY <1>8, <4>1, <4>2, HdrType
      <3>8. ClientPosition'
        BY <1>1, <1>3, <3>3, <3>5, <3>6, <3>7 DEF ClientPosition
      <3>9. Len(got) < Len(sent) /\ Len(got') = Len(got) + 1
        BY <1>4, <2>2, <3>5
      <3>10. QED
        BY <2>3, <3>8, <3>9
    <2>5. CASE sent[j] # 0
      <3>1. got' = got /\ ~pendingHdr' /\ msgLen' = sent'[j] /\ ~lost'
        BY <1>1, <1>2, <1>3, <1>5, <1>7, <2>5
      <3>2. FirstOnes' /\ ~OutOfStep'
        BY <1>5, <2>1, <2>2, <3>1 DEF ClientPosition, FirstOnes, OutOfStep
      <3>3. Len(got') < Len(sent') /\ j = Len(got') + 1
        BY <1>4, <1>5, <2>2, <3>1
      <3>4. ItemAt' = starts'[j] + Hdr
        BY <1>5, <1>8, <2>2
      <3>5. ClientPosition'
        BY <3>1, <3>2, <3>3, <3>4 DEF ClientPosition
      <3>6. QED
        BY <2>3, <3>1, <3>5
    <2>6. QED
      BY <2>4, <2>5
  <1>12. QED
    BY <1>3, <1>5, <1>10, <1>11 DEF ClientInv

\* A text that is complete is that of the next message.
LEMMA TextStep ==
    ASSUME ClientInv, NEW d \in 1 .. pendingLen, GetText(d)
    PROVE  /\ ClientInv' /\ (thirds => thirds') /\ sent' = sent
           /\ ~thirds' => Len(got) < Len(sent) /\ Len(got') = Len(got) + 1
  <1> DEFINE t == Text(ItemAt, pending + d)
  <1>1. /\ Recv(d) /\ pending + d >= pendingLen /\ ~pendingHdr
        /\ got' = Append(got, t)
        /\ pending' = 0 /\ pendingLen' = Hdr /\ pendingHdr' = TRUE /\ cuts' = 0
        /\ UNCHANGED streamVars /\ lost' = lost /\ msgLen' = msgLen
    BY DEF GetText, WaitForHeader, ItemAt
  <1>2. /\ d \in Nat /\ d > 0 /\ d <= pendingLen
        /\ received' = received + d /\ received' <= total
        /\ ~lost /\ thirds' \in BOOLEAN /\ (thirds => thirds')
        /\ ~thirds' => ~thirds
    BY <1>1, Reading DEF ClientInv
  <1>3. /\ received \in Nat /\ total \in Nat /\ pending \in Nat
        /\ pending <= received /\ Len(got) \in Nat /\ Len(sent) \in Nat
        /\ MaxCuts \in Nat /\ msgLen \in Nat
    BY Reader, CutsAssumption DEF ClientInv
  <1>4. /\ sent' = sent /\ starts' = starts /\ total' = total
        /\ (Layout => Layout')
    BY <1>1, StreamStays
  <1>5. ItemAt \in Nat /\ ItemAt' = received' + 1
        /\ received' + 1 = ItemAt + (pending + d)
    <2>1. /\ received - pending + 1 \in Nat
          /\ received' - 0 + 1 = received' + 1
          /\ received' + 1 = (received - pending + 1) + (pending + d)
      BY <1>2, <1>3
    <2>2. QED
      BY <1>1, <2>1 DEF ItemAt
  <1>6. t \in [from : Nat, len : Nat]
    BY <1>2, <1>3, <1>5 DEF Text
  <1> HIDE DEF t
  <1>7. ClientTypeOK'
    <2>1. got' \in Seq([from : Nat, len : Nat])
      <3>1. got \in Seq([from : Nat, len : Nat])
        BY DEF ClientInv, ClientTypeOK, StreamTypeOK
      <3>2. QED
        BY <1>1, <1>6, <3>1, OneMore
    <2>2. /\ received' \in 0 .. total /\ pending' \in 0 .. received'
          /\ cuts' \in 0 .. MaxCuts /\ pendingLen' \in Nat \ {0}
      BY <1>1, <1>2, <1>3, HdrType
    <2>3. StreamTypeOK'
      BY <1>1, <1>4, <2>1, <2>2 DEF ClientInv, ClientTypeOK, StreamTypeOK
    <2>4. QED
      BY <1>1, <1>2, <1>3, <2>2, <2>3 DEF ClientTypeOK
  <1>8. ASSUME ~thirds'
        PROVE  /\ Item' /\ ClientPosition'
               /\ Len(got) < Len(sent) /\ Len(got') = Len(got) + 1
    <2>1. ClientPosition /\ pending + d = msgLen
      BY <1>1, <1>8, InTwo DEF ItemLen
    <2>2. PICK j : j = Len(got) + 1
      OBVIOUS
    <2>3. /\ Len(got) < Len(sent) /\ ~OutOfStep /\ FirstOnes
          /\ msgLen = sent[j] /\ ItemAt = starts[j] + Hdr
      BY <1>1, <2>1, <2>2 DEF ClientPosition
    <2>4. j \in 1 .. Len(sent)
      BY <1>3, <2>2, <2>3
    <2>5. sent[j] \in Nat /\ starts[j] \in Nat
      BY <2>4, Message DEF ClientInv, ClientTypeOK
    <2>6. ASSUME sent[j] <= MaxLen PROVE t = TextOf(j)
      <3>1. HeaderLen(sent[j]) = Hdr
        BY <2>5, <2>6, Lengths
      <3>2. QED
        BY <2>1, <2>3, <3>1 DEF TextOf, t
    <2>7. /\ FirstOnes' /\ Len(got') = j
          /\ OutOfStep' <=> sent[j] > MaxLen
          /\ StartOf(Len(got) + 1)' = EndOf(j)
      BY <1>1, <1>6, <2>2, <2>3, <2>4, <2>6, PassedOn DEF ClientInv
    <2>8. ItemAt' = starts[j] + Hdr + sent[j]
      BY <1>5, <2>1, <2>3
    <2>9. ASSUME sent[j] <= MaxLen PROVE ItemAt' = EndOf(j)
      <3>1. HeaderLen(sent[j]) = Hdr
        BY <2>5, <2>9, Lengths
      <3>2. QED
        BY <2>8, <3>1 DEF EndOf
    <2>10. ASSUME sent[j] > MaxLen PROVE ItemAt' + 1 = EndOf(j)
      <3>1. EndOf(j) = starts[j] + (Hdr + 1) + sent[j]
        BY <2>5, <2>10, Lengths DEF EndOf
      <3>2. QED
        BY <2>5, <2>8, <3>1, HdrType
    <2>11. sent[j] <= MaxLen \/ sent[j] > MaxLen
      BY <2>5, HdrType
    <2>12. pendingHdr' /\ ~lost'
      BY <1>1, <1>2
    <2>13. ClientPosition'
      BY <2>7, <2>9, <2>10, <2>11, <2>12 DEF ClientPosition
    <2>14. Item'
      BY <1>1, HdrType DEF Item, ItemLen
    <2>15. QED
      BY <2>2, <2>3, <2>7, <2>13, <2>14
  <1>9. QED
    BY <1>2, <1>4, <1>7, <1>8 DEF ClientInv

LEMMA ClientIdleStep == ClientInv /\ UNCHANGED clientVars => ClientInv'
  <1> SUFFICES ASSUME ClientInv, UNCHANGED clientVars PROVE ClientInv'
    OBVIOUS
  <1>1. /\ UNCHANGED streamVars /\ UNCHANGED <<received, got, lost>>
        /\ UNCHANGED <<pending, pendingLen, pendingHdr, msgLen, cuts, thirds>>
    BY DEF clientVars, itemVars
  <1>2. /\ sent' = sent /\ starts' = starts /\ total' = total
        /\ (Layout => Layout')
        /\ \A i : StartOf(i)' = StartOf(i) /\ TextOf(i)' = TextOf(i)
    BY <1>1, StreamStays
  <1>3. ClientTypeOK'
    BY <1>1, <1>2 DEF ClientInv, ClientTypeOK, StreamTypeOK
  <1>4. Item => Item'
    BY <1>1 DEF Item, ItemLen
  <1>5. /\ FirstOnes => FirstOnes'
        /\ OutOfStep' <=> OutOfStep
        /\ ItemAt' = ItemAt
        /\ StartOf(Len(got) + 1)' = StartOf(Len(got) + 1)
    BY <1>1, <1>2 DEF FirstOnes, OutOfStep, ItemAt
  <1>6. ClientPosition => ClientPosition'
    BY <1>1, <1>2, <1>5 DEF ClientPosition
  <1>7. QED
    BY <1>1, <1>2, <1>3, <1>4, <1>6 DEF ClientInv

LEMMA ClientInvStep == ClientInv /\ [ClientNext]_clientVars => ClientInv'
  BY ClientSendStep, SomeStep, HeaderStep, NoHeaderStep, TextStep,
     ClientIdleStep
     DEF ClientNext, GetData

\* Until an item comes in three parts, the reader knows where in the stream it
\* is, and has passed on what lies in front of that (controlClient.py:97-123).
THEOREM ClientInvariant == ClientSpec => []ClientInv
  BY ClientInvInit, ClientInvStep, PTL DEF ClientSpec

\* Every variable keeps its type; in particular get_data never asks the socket
\* for no bytes, which it would take for the end of the connection
\* (controlClient.py:97-128).
THEOREM ClientTypesHold == ClientSpec => []ClientTypeOK
  <1>1. ClientInv => ClientTypeOK
    BY DEF ClientInv
  <1>2. QED
    BY <1>1, ClientInvariant, PTL

LEMMA ClientPassedSent ==
    ASSUME ClientInv, ~thirds
    PROVE  /\ Len(got) \in Nat /\ Len(sent) \in Nat /\ sent \in Seq(Lens)
           /\ Len(got) <= Len(sent)
           /\ PassedIsSent
  <1>1. /\ Len(got) \in Nat /\ Len(sent) \in Nat /\ Len(got) <= Len(sent)
        /\ sent \in Seq(Lens) /\ FirstOnes
    BY DEF ClientInv, ClientTypeOK, StreamTypeOK, ClientPosition, FirstOnes
  <1>2. ASSUME NEW i \in 1 .. Len(got)
        PROVE  Right(i) \/ BehindLong(i)
    <2>1. i \in 1 .. i /\ i \in 1 .. Len(sent)
      BY <1>1
    <2>2. CASE sent[i] > MaxLen
      BY <2>1, <2>2 DEF BehindLong
    <2>3. CASE ~(sent[i] > MaxLen)
      <3>1. sent[i] \in Nat
        BY <2>1, Message DEF ClientInv, ClientTypeOK
      <3>2. sent[i] <= MaxLen
        BY <2>3, <3>1, HdrType
      <3>3. QED
        BY <1>1, <2>1, <3>2 DEF Right, FirstOnes
    <2>4. QED
      BY <2>2, <2>3
  <1>3. PassedIsSent
    BY <1>2 DEF Passed, PassedIsSent
  <1>4. QED
    BY <1>1, <1>3

\* Until an item comes in three parts, and up to the first text that is too
\* long, the client's end of a connection is a Fifo (controlClient.py:97-123):
\* every step is one of it, or none.
THEOREM ClientIsFifo == ClientSpec => ClientDeliversInOrder
  <1>1. ClientInit => ClientFifo!Init
    BY DEF ClientInit, StreamInit, ClientFifo!Init, Passed
  <1>2. ClientInv => (thirds \/ PassedIsSent)
    BY ClientPassedSent
  <1>3. ASSUME ClientInv, (thirds \/ PassedIsSent)', [ClientNext]_clientVars
        PROVE  [thirds' \/ ClientFifo!Next]_<<sent, Passed>>
    <2>1. thirds => thirds'
      BY <1>3, SomeStep, HeaderStep, NoHeaderStep, TextStep
         DEF ClientNext, GetData, CcmSends, clientVars
    <2>2. SUFFICES ASSUME ~thirds'
                   PROVE  [ClientFifo!Next]_<<sent, Passed>>
      OBVIOUS
    <2>3. PassedIsSent
      BY <1>3, <2>1, <2>2, ClientPassedSent
    <2>4. PassedIsSent'
      BY <1>3, <2>2
    <2>5. /\ Len(got) \in Nat /\ Len(sent) \in Nat /\ Len(got) <= Len(sent)
          /\ sent \in Seq(Lens)
      BY <1>3, <2>1, <2>2, ClientPassedSent
    <2>6. /\ Passed = [i \in 1 .. Len(got) |-> sent[i]]
          /\ Passed' = [i \in 1 .. Len(got') |-> sent'[i]]
      BY <2>3, <2>4 DEF PassedIsSent
    <2>7. ASSUME got' = got, sent' = sent
          PROVE  UNCHANGED <<sent, Passed>>
      BY <2>6, <2>7
    <2>8. ASSUME Len(got) < Len(sent), Len(got') = Len(got) + 1, sent' = sent
          PROVE  ClientFifo!Deliver
      <3>1. Len(Passed) = Len(got)
        BY <2>5, <2>6
      <3>2. Passed' = [i \in 1 .. Len(got) + 1 |-> sent[i]]
        BY <2>6, <2>8
      <3>3. Append(Passed, sent[Len(got) + 1])
              = [i \in 1 .. Len(got) + 1 |-> sent[i]]
        BY <2>5, <2>6, <2>8, <3>1
      <3>4. QED
        BY <2>8, <3>1, <3>2, <3>3 DEF ClientFifo!Deliver
    <2>9. ASSUME NEW n \in Lens, CcmSends(n)
          PROVE  ClientFifo!Send(n)
      <3>1. sent' = Append(sent, n) /\ got' = got
        BY <2>9 DEF CcmSends, Send
      <3>2. \A i \in 1 .. Len(got) : sent'[i] = sent[i]
        BY <2>5, <3>1
      <3>3. Passed' = Passed
        BY <2>6, <3>1, <3>2
      <3>4. QED
        BY <3>1, <3>3 DEF ClientFifo!Send
    <2>10. ASSUME NEW d \in 1 .. pendingLen,
                  GetSome(d) \/ GetHeader(d) \/ GetNoHeader(d) \/ GetText(d)
           PROVE  \/ got' = got /\ sent' = sent
                  \/ /\ Len(got) < Len(sent) /\ Len(got') = Len(got) + 1
                     /\ sent' = sent
      BY <1>3, <2>2, <2>10, SomeStep, HeaderStep, NoHeaderStep, TextStep
    <2>11. CASE UNCHANGED clientVars
      BY <2>7, <2>11 DEF clientVars, streamVars
    <2>12. CASE \E n \in Lens : CcmSends(n)
      BY <2>9, <2>12 DEF ClientFifo!Next
    <2>13. CASE GetData
      BY <2>7, <2>8, <2>10, <2>13 DEF GetData, ClientFifo!Next
    <2>14. QED
      BY <1>3, <2>11, <2>12, <2>13 DEF ClientNext
  <1>4. QED
    BY <1>1, <1>2, <1>3, ClientInvariant, PTL DEF ClientSpec,
       ClientDeliversInOrder
=============================================================================
