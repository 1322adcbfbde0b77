------------------------ MODULE PeerTemplate_proofs ------------------------
(***************************************************************************)
(* Theorems about PeerTemplate, for any number of connections, crashes,    *)
(* late answers and messages unasked.                                      *)
(***************************************************************************)
EXTENDS PeerTemplate, SequenceTheorems, FiniteSetTheorems, TLAPS

Alive(c) == thread[c] \in {"connecting", "running"}

\* The CCM has had the unit's REGISTER_REQ on c, or closed it.
Known(c) == c \in registered \/ server[c] \in {"closed", "reset"}

\* The two ends of a connection.
EndsAgree ==
    \A c \in Conns :
        /\ c \in registered => server[c] = "open"
        /\ thread[c] \in {"none", "connecting", "refused"} =>
             server[c] = "none" /\ ~wantWrite[c] /\ up[c] = <<>>
        /\ thread[c] \in {"ending", "ended"} => server[c] = "closed"
        /\ thread[c] = "broken" => server[c] = "reset"
        /\ server[c] = "none" => down[c] = <<>>
        /\ server[c] = "none" /\ thread[c] = "running" => ccmUp

\* What comes on a connection.
OnWire(c, m) ==
    /\ m.conn = c
    /\ m.type # "DROP_PEER"
    /\ m.type = "REGISTER_ACK" => Known(c)

HasCome(m) ==
    /\ thread[m.conn] \notin {"none", "connecting", "refused"}
    /\ server[m.conn] # "none"
    /\ m.type = "DROP_PEER" => thread[m.conn] \in {"ending", "ended"}
    /\ m.type = "REGISTER_ACK" => Known(m.conn)

WireMsgs(c) == {m \in DownMsgs : OnWire(c, m)}

ComeMsgs == {m \in DownMsgs : HasCome(m)}

MessagesAgree ==
    /\ \A c \in Conns : down[c] \in Seq(WireMsgs(c))
    /\ ccmQ \in Seq(ComeMsgs)

\* Where main is.
MainKnows ==
    /\ pc = "start" => \A c \in Conns : thread[c] = "none"
    /\ inStart => /\ pc \in {"start", "wait", "dead"}
                  /\ cC = 1
                  /\ \A c \in Conns \ {1} : thread[c] = "none"
    /\ pc = "wait" => wait # "none"
    /\ pc = "wait" => (connected <=> wait # "CONNECT_ACK")
    /\ pc = "start" => ~connected /\ inStart
    /\ pc \in {"activate", "cleaned"} \/ inSend => connected
    /\ pc = "wait" /\ wait \in {"CONFIG_ACK", "CONFIG_SET"} => inStart /\ Known(cC)
    /\ pc = "start" => outgoing = <<>>
    /\ pc = "wait" /\ inStart /\ wait = "CONNECT_ACK" => outgoing = <<>>

\* Of two threads, one is a client main has given up.
OneThread == ~orphaned => \A c \in Conns \ {cC} : ~Alive(c)

Config == {"CONFIG_SET", "CONFIG_REQ"}

\* What the CCM reads on cC, then what it will read: the stack of outgoing
\* messages gives a REGISTER_REQ away before what lies under it, and until one
\* is queued on cC nothing is written.
Registers(u) == \E i \in DOMAIN u : u[i] = "REGISTER_REQ"

First(u) ==
    \A i \in DOMAIN u : u[i] \in Config =>
        \E j \in DOMAIN u : j < i /\ u[j] = "REGISTER_REQ"

Covered(o) ==
    \A i \in DOMAIN o : o[i] \in Config =>
        \E j \in DOMAIN o : i < j /\ o[j] = "REGISTER_REQ"

Unused == ~connected /\ ~wantWrite[cC] /\ up[cC] = <<>>

Pile ==
    ~orphaned /\ ~Known(cC) =>
        /\ First(up[cC])
        /\ Registers(up[cC]) \/ Covered(outgoing) \/ Unused

\* What has come on cC and not been taken.
Unread == ccmQ \o down[cC]

\* Messages of one connection, the loss of which is told last.
InTurn(q, c) ==
    \A i \in DOMAIN q : q[i].conn = c /\ (q[i].type = "DROP_PEER" => i = Len(q))

OnlyDrops(u) == \A i \in DOMAIN u : u[i].type = "DROP_PEER"

ConnectFirst(u) ==
    \A i \in DOMAIN u : u[i].type = IF i = 1 THEN "CONNECT_ACK" ELSE "DROP_PEER"

RegisterFirst(u) == u # <<>> /\ u[1].type = "REGISTER_ACK"

\* As long as no answer is late: main has read all there was before it makes a
\* new client, and a wait of _check_CCM finds the answer first or none.
Timely ==
    /\ ~orphaned
    /\ InTurn(ccmQ, cC)
    /\ pc \in {"loop", "check"} /\ ~connected => ccmQ = <<>> /\ ~Alive(cC)
    /\ pc = "wait" /\ wait = "CONNECT_ACK" =>
         /\ up[cC] = <<>> /\ ~wantWrite[cC] /\ cC \notin registered
         /\ Unread = <<>> => server[cC] \in {"none", "reset"}
         /\ ConnectFirst(Unread)
    /\ pc = "wait" /\ wait = "REGISTER_ACK" /\ ~inStart =>
         /\ server[cC] # "none"
         /\ \/ cC \notin registered /\ OnlyDrops(Unread)
            \/ RegisterFirst(Unread)

\* The sets on their way to main.
Way(c) == IF c = cC THEN Unread ELSE down[c]

SetsGoOn ==
    \A c \in Conns \ {1} :
        /\ Len(applied[c]) <= setsSent[c]
        /\ GoesOn(applied[c], Way(c), c, setsSent[c])

Inv ==
    /\ TypeOK
    /\ EndsAgree
    /\ MessagesAgree
    /\ MainKnows
    /\ OneThread
    /\ Pile
    /\ lates = 0 => Timely /\ SetsGoOn
-----------------------------------------------------------------------------
(***************************************************************************)
(* Sequences.                                                              *)
(***************************************************************************)
LEMMA Appended ==
    ASSUME NEW S, NEW q \in Seq(S), NEW x \in S
    PROVE  /\ Append(q, x) \in Seq(S) /\ Append(q, x) # <<>>
           /\ Len(q) \in Nat /\ Len(Append(q, x)) = Len(q) + 1
           /\ DOMAIN Append(q, x) = 1 .. Len(q) + 1 /\ DOMAIN q = 1 .. Len(q)
           /\ \A i \in 1 .. Len(q) : Append(q, x)[i] = q[i]
           /\ Append(q, x)[Len(q) + 1] = x
  BY AppendProperties

LEMMA Shortened ==
    ASSUME NEW S, NEW q \in Seq(S), q # <<>>
    PROVE  /\ Head(q) \in S /\ Head(q) = q[1] /\ Tail(q) \in Seq(S)
           /\ Len(q) \in Nat /\ Len(q) > 0 /\ Len(Tail(q)) = Len(q) - 1
           /\ DOMAIN q = 1 .. Len(q) /\ DOMAIN Tail(q) = 1 .. Len(q) - 1
           /\ \A i \in 1 .. Len(q) - 1 : Tail(q)[i] = q[i + 1]
           /\ Tail(q) = <<>> <=> Len(q) = 1
  <1>1. Len(q) \in Nat /\ Len(q) > 0 /\ DOMAIN q = 1 .. Len(q)
    BY EmptySeq
  <1>2. /\ Tail(q) \in Seq(S) /\ Len(Tail(q)) = Len(q) - 1 /\ Head(q) \in S /\ Head(q) = q[1]
        /\ \A i \in 1 .. Len(q) - 1 : Tail(q)[i] = q[i + 1]
    BY HeadTailProperties
  <1>3. DOMAIN Tail(q) = 1 .. Len(Tail(q)) /\ (Tail(q) = <<>> <=> Len(Tail(q)) = 0)
    BY <1>2, EmptySeq
  <1>4. QED
    BY <1>1, <1>2, <1>3

LEMMA InMore ==
    ASSUME NEW S, NEW T, S \subseteq T, NEW q \in Seq(S)
    PROVE  q \in Seq(T)
  OBVIOUS

LEMMA WithoutLast ==
    ASSUME NEW S, NEW q \in Seq(S), q # <<>>
    PROVE  /\ q[Len(q)] \in S /\ SubSeq(q, 1, Len(q) - 1) \in Seq(S)
           /\ Len(q) \in Nat /\ Len(q) > 0
           /\ DOMAIN q = 1 .. Len(q)
           /\ DOMAIN SubSeq(q, 1, Len(q) - 1) = 1 .. Len(q) - 1
           /\ \A i \in 1 .. Len(q) - 1 : SubSeq(q, 1, Len(q) - 1)[i] = q[i]
  <1>1. Len(q) \in Nat /\ Len(q) > 0 /\ DOMAIN q = 1 .. Len(q)
    BY EmptySeq
  <1>2. \A i \in 1 .. Len(q) - 1 : q[i] \in S
    BY <1>1
  <1>3. QED
    BY <1>1, <1>2, SubSeqProperties

LEMMA Joined ==
    ASSUME NEW S, NEW q \in Seq(S), NEW r \in Seq(S)
    PROVE  /\ q \o r \in Seq(S) /\ Len(q) \in Nat /\ Len(r) \in Nat
           /\ Len(q \o r) = Len(q) + Len(r)
           /\ DOMAIN (q \o r) = 1 .. Len(q) + Len(r)
           /\ DOMAIN q = 1 .. Len(q) /\ DOMAIN r = 1 .. Len(r)
           /\ \A i \in 1 .. Len(q) : (q \o r)[i] = q[i]
           /\ \A i \in 1 .. Len(r) : (q \o r)[Len(q) + i] = r[i]
  <1>1. /\ q \o r \in Seq(S) /\ Len(q) \in Nat /\ Len(r) \in Nat
        /\ Len(q \o r) = Len(q) + Len(r)
        /\ \A i \in 1 .. Len(q) + Len(r) :
             (q \o r)[i] = IF i <= Len(q) THEN q[i] ELSE r[i - Len(q)]
    BY ConcatProperties
  <1>2. DOMAIN (q \o r) = 1 .. Len(q \o r) /\ DOMAIN q = 1 .. Len(q) /\ DOMAIN r = 1 .. Len(r)
    BY <1>1
  <1>3. QED
    BY <1>1, <1>2

\* Taking from the first of two sequences, and moving from the second to the
\* first.
LEMMA TailJoined ==
    ASSUME NEW S, NEW q \in Seq(S), NEW r \in Seq(S), q # <<>>
    PROVE  Tail(q) \o r = Tail(q \o r) /\ q \o r # <<>> /\ Head(q \o r) = Head(q)
  <1>1. q \o r # <<>> /\ q \o r \in Seq(S)
    BY Joined, Shortened, EmptySeq
  <1>2. Head(q \o r) = Head(q)
    BY <1>1, Joined, Shortened
  <1>3. q = <<Head(q)>> \o Tail(q)
    BY HeadTailProperties
  <1>4. QED
    BY <1>1, <1>2, ConcatSimplifications, HeadTailProperties

LEMMA HeadMoved ==
    ASSUME NEW S, NEW q \in Seq(S), NEW r \in Seq(S), r # <<>>
    PROVE  Append(q, Head(r)) \o Tail(r) = q \o r
  <1>1. r = <<Head(r)>> \o Tail(r) /\ Head(r) \in S /\ Tail(r) \in Seq(S)
    BY HeadTailProperties
  <1>2. <<Head(r)>> \in Seq(S)
    BY <1>1
  <1>3. Append(q, Head(r)) = q \o <<Head(r)>>
    BY <1>1, AppendIsConcat
  <1>4. (q \o <<Head(r)>>) \o Tail(r) = q \o (<<Head(r)>> \o Tail(r))
    BY <1>1, <1>2, ConcatAssociative
  <1>5. QED
    BY <1>1, <1>3, <1>4

LEMMA JoinedMore ==
    ASSUME NEW S, NEW q \in Seq(S), NEW r \in Seq(S), NEW x \in S
    PROVE  /\ q \o Append(r, x) = Append(q \o r, x)
           /\ \A t \in Seq(S) : q \o (r \o t) = (q \o r) \o t
  <1>1. <<x>> \in Seq(S) /\ q \o r \in Seq(S)
    BY ConcatProperties
  <1>2. \A t \in Seq(S) : q \o (r \o t) = (q \o r) \o t
    BY ConcatAssociative
  <1>3. Append(r, x) = r \o <<x>> /\ Append(q \o r, x) = (q \o r) \o <<x>>
    BY <1>1, AppendIsConcat
  <1>4. QED
    BY <1>1, <1>2, <1>3

LEMMA JoinedTwo ==
    ASSUME NEW S, NEW q \in Seq(S), NEW r \in Seq(S), NEW x \in S, NEW y \in S
    PROVE  q \o Append(Append(r, x), y) = Append(Append(q \o r, x), y)
  <1>1. Append(r, x) \in Seq(S)
    BY Appended
  <1>2. q \o Append(Append(r, x), y) = Append(q \o Append(r, x), y)
    BY <1>1, JoinedMore
  <1>3. q \o Append(r, x) = Append(q \o r, x)
    BY JoinedMore
  <1>4. QED
    BY <1>2, <1>3

-----------------------------------------------------------------------------
(***************************************************************************)
(* The types.                                                              *)
(***************************************************************************)
TypeMain ==
    /\ pc \in {"start", "wait", "activate", "loop", "check", "cleaned", "ended", "dead"}
    /\ wait \in Answers \cup {"none"}
    /\ {inSend, inStart, connected, keepAlive, activated, orphaned} \subseteq BOOLEAN
    /\ cC \in Conns
    /\ applied \in [Conns -> Seq(Nat)]
    /\ lates \in 0 .. MaxLates

TypeThread ==
    /\ thread \in [Conns -> ThreadStates]
    /\ wantWrite \in [Conns -> BOOLEAN] /\ empty \subseteq Conns
    /\ ccmQ \in Seq(DownMsgs)
    /\ outgoing \in Seq(UpTypes)

TypeCcm ==
    /\ up \in [Conns -> Seq(UpTypes)]
    /\ down \in [Conns -> Seq(DownMsgs)]
    /\ {older, ccmUp} \subseteq BOOLEAN
    /\ server \in [Conns -> ServerStates]
    /\ registered \subseteq Conns
    /\ setsSent \in [Conns -> Nat]
    /\ unasked \in 0 .. MaxUnasked
    /\ crashes \in 0 .. MaxCrashes

LEMMA TypeParts == TypeOK <=> TypeMain /\ TypeThread /\ TypeCcm
  BY DEF TypeOK, TypeMain, TypeThread, TypeCcm

LEMMA Strings ==
    /\ \A t \in UpTypes : t # "none"
    /\ "REGISTER_REQ" \in UpTypes /\ "CONFIG_SET" \in UpTypes /\ "CONFIG_REQ" \in UpTypes
    /\ "CONFIG_ACK" \in UpTypes /\ "PROGRESS" \in UpTypes /\ "SHUTDOWN_ACK" \in UpTypes
    /\ 1 \in Conns /\ Conns \subseteq Nat
  BY UnitConstants DEF UpTypes, Conns

LEMMA MsgType ==
    ASSUME NEW c \in Conns, NEW n \in Nat
    PROVE  /\ \A t \in Answers \cup {"SHUTDOWN_REQ", "DROP_PEER"} : Msg(t, c) \in DownMsgs
           /\ SetMsg(c, n) \in DownMsgs
  BY DEF Msg, SetMsg, DownMsgs, Answers

\* ControlClient.send, whatever it sends, in its two parts.
LEMMA SendIs ==
    ASSUME TypeThread, cC \in Conns, NEW t \in UpTypes, NEW next, Send(t, next)
    PROVE  /\ pc' = next /\ inSend' \in {TRUE, inSend}
           /\ outgoing' \in {outgoing, Append(outgoing, t)}
           /\ outgoing' \in Seq(UpTypes)
           /\ outgoing' = outgoing => thread[cC] \in {"ended", "ending"}
  <1>1. Append(outgoing, t) \in Seq(UpTypes) /\ Append(outgoing, t) # outgoing
    <2>1. PICK n \in Nat : n = Len(outgoing) /\ Len(Append(outgoing, t)) = n + 1
      BY Appended DEF TypeThread
    <2>2. QED
      BY <2>1, Appended DEF TypeThread
  <1>2. QED
    BY <1>1 DEF Send, TypeThread

LEMMA ModifyIs ==
    ASSUME TypeThread, cC \in Conns, SendModify
    PROVE  /\ inSend /\ inSend' = FALSE
           /\ pc' \in {pc, "dead"}
           /\ \/ wantWrite' = wantWrite
              \/ /\ wantWrite' = [wantWrite EXCEPT ![cC] = TRUE]
                 /\ thread[cC] \in {"running", "broken", "ending"}
           /\ wantWrite' \in [Conns -> BOOLEAN]
           /\ UNCHANGED <<wait, inStart, connected, keepAlive, activated, cC, orphaned,
                          applied, thread, empty, ccmQ, outgoing, wireVars, ccmVars, lates>>
  BY DEF SendModify, TypeThread

LEMMA NewClientIs ==
    ASSUME TypeThread, NewClient
    PROVE  /\ cC' \in Conns
           /\ thread[cC'] \in {"none", "refused"}
           /\ thread' = [thread EXCEPT ![cC'] = "connecting"]
           /\ thread' \in [Conns -> ThreadStates]
           /\ \A d \in Conns : d < cC' => thread[d] \notin {"none", "refused"}
           /\ pc' = "wait" /\ wait' = "CONNECT_ACK"
           /\ orphaned' = (orphaned \/ thread[cC] \in {"connecting", "running"})
  BY DEF TypeThread, NewClient, ThreadStates

\* What main does with an answer, or without one.
Replies == AckConnect \/ AckRegister \/ SetConfigDone \/ GiveUp
             \/ \E m \in DownMsgs : wait = "CONFIG_SET" /\ ccmQ # <<>> /\ m = Head(ccmQ) /\ AckConfig(m)

LEMMA RepliesIs ==
    ASSUME TypeThread, Answered \/ Timeout
    PROVE  /\ pc = "wait" /\ ~inSend /\ Replies
           /\ UNCHANGED <<keepAlive, cC, orphaned, thread, wantWrite, empty, wireVars,
                          ccmVars>>
           /\ \/ ccmQ # <<>> /\ ccmQ' = Tail(ccmQ) /\ lates' = lates
              \/ ccmQ = <<>> /\ ccmQ' = ccmQ
  <1>1. CASE Answered
    <2>1. Head(ccmQ) \in DownMsgs
      BY <1>1, Shortened DEF Answered, TypeThread
    <2>2. Replies
      BY <1>1, <2>1 DEF Answered, Replies, AckConfig
    <2>3. QED
      BY <1>1, <2>2 DEF Answered
  <1>2. CASE Timeout
    BY <1>2 DEF Timeout, Replies
  <1>3. QED
    BY <1>1, <1>2

\* What a step of main leaves alone, and how it changes the rest.
LEMMA MainIs ==
    ASSUME TypeOK, Main
    PROVE  /\ UNCHANGED <<empty, wireVars, ccmVars>>
           /\ \/ UNCHANGED <<thread, cC, orphaned>>
              \/ NewClient /\ UNCHANGED <<wantWrite, ccmQ, outgoing>>
           /\ \/ wantWrite' = wantWrite
              \/ /\ wantWrite' = [wantWrite EXCEPT ![cC] = TRUE]
                 /\ thread[cC] \in {"running", "broken", "ending"}
           /\ wantWrite' \in [Conns -> BOOLEAN]
           /\ outgoing' \in Seq(UpTypes)
           /\ ccmQ' = ccmQ \/ (ccmQ # <<>> /\ ccmQ' = Tail(ccmQ))
  <1>0. TypeThread /\ cC \in Conns
    BY TypeParts DEF TypeMain
  <1>1. CASE Start \/ CheckReconnect
    BY <1>0, <1>1 DEF Start, CheckReconnect, TypeThread
  <1>2. CASE Answered \/ Timeout
    <2>1. \/ outgoing' = outgoing
          \/ \E t \in UpTypes, next \in {"wait", "activate"} : Send(t, next)
      BY <1>0, <1>2, RepliesIs, Strings DEF Replies, AckConnect, AckRegister,
         SetConfigDone, AckConfig, GiveUp
    <2>2. outgoing' \in Seq(UpTypes)
      BY <1>0, <2>1, SendIs DEF TypeThread
    <2>3. QED
      BY <1>0, <1>2, <2>2, RepliesIs DEF TypeThread
  <1>3. CASE Progress \/ TakeShutdown \/ AckShutdown \/ TakeConfig
    <2>1. /\ \/ outgoing' = outgoing
             \/ \E t \in UpTypes, next \in {"loop", "cleaned", "check"} : Send(t, next)
          /\ UNCHANGED <<wireVars, ccmVars, thread, wantWrite, empty, cC, orphaned>>
          /\ ccmQ' = ccmQ \/ (ccmQ # <<>> /\ ccmQ' = Tail(ccmQ))
      BY <1>3, Strings DEF Progress, TakeShutdown, AckShutdown, TakeConfig, Take
    <2>2. QED
      BY <1>0, <2>1, SendIs DEF TypeThread
  <1>4. CASE Finish \/ CheckQueue \/ CheckDone \/ TakeDrop \/ TakeOther \/ Activate
    BY <1>0, <1>4 DEF TypeThread, Finish, CheckQueue, CheckDone, TakeDrop, TakeOther,
       Take, Activate, threadVars, mainVars
  <1>5. CASE SendModify
    BY <1>0, <1>5, ModifyIs DEF TypeThread
  <1>6. QED
    BY <1>1, <1>2, <1>3, <1>4, <1>5 DEF Main

LEMMA AppliedType ==
    ASSUME TypeMain, NEW m \in DownMsgs, NEW a, a = [applied EXCEPT ![m.conn] = Append(@, m.n)]
    PROVE  a \in [Conns -> Seq(Nat)]
  <1>1. m.conn \in Conns /\ m.n \in Nat
    BY DEF DownMsgs
  <1>2. Append(applied[m.conn], m.n) \in Seq(Nat)
    BY <1>1, Appended DEF TypeMain
  <1>3. QED
    BY <1>1, <1>2 DEF TypeMain

LEMMA TypeMainStep ==
    ASSUME TypeOK, Main
    PROVE  TypeMain'
  <1>0. TypeMain /\ TypeThread /\ MaxLates \in Nat
    BY TypeParts, UnitConstants
  <1>1. CASE Start \/ CheckReconnect
    BY <1>0, <1>1, NewClientIs DEF Start, CheckReconnect, TypeMain, Answers
  <1>2. CASE Answered \/ Timeout
    <2>1. /\ UNCHANGED <<keepAlive, cC, orphaned>> /\ pc = "wait" /\ Replies
          /\ inSend = FALSE
      BY <1>0, <1>2, RepliesIs DEF TypeMain
    <2>2. lates' \in 0 .. MaxLates
      <3>1. CASE Answered
        BY <1>0, <3>1 DEF Answered, TypeMain
      <3>2. CASE Timeout
        BY <1>0, <3>2 DEF Timeout, TypeMain
      <3>3. QED
        BY <1>2, <3>1, <3>2
    <2>3. cC \in Conns
      BY <1>0 DEF TypeMain
    <2>4. CASE AckConnect
      BY <1>0, <2>1, <2>2, <2>3, <2>4, SendIs, Strings DEF AckConnect, TypeMain, Answers
    <2>5. CASE AckRegister
      BY <1>0, <2>1, <2>2, <2>3, <2>5, SendIs, Strings DEF AckRegister, TypeMain, Answers
    <2>6. CASE SetConfigDone
      BY <1>0, <2>1, <2>2, <2>3, <2>6, SendIs, Strings DEF SetConfigDone, TypeMain,
         Answers
    <2>7. CASE GiveUp
      BY <1>0, <2>1, <2>2, <2>7 DEF GiveUp, TypeMain
    <2>8. ASSUME NEW m \in DownMsgs, AckConfig(m) PROVE TypeMain'
      <3>1. applied' \in [Conns -> Seq(Nat)]
        BY <1>0, <2>8, AppliedType DEF AckConfig
      <3>2. QED
        BY <1>0, <2>1, <2>2, <2>3, <2>8, <3>1, SendIs, Strings DEF AckConfig, TypeMain
    <2>9. QED
      BY <2>1, <2>4, <2>5, <2>6, <2>7, <2>8 DEF Replies
  <1>3. CASE Progress \/ AckShutdown
    BY <1>0, <1>3, SendIs, Strings DEF Progress, AckShutdown, TypeMain
  <1>4. CASE TakeShutdown
    <2>1. pc' \in {"cleaned", "dead"} /\ inSend' \in BOOLEAN
      BY <1>0, <1>4, SendIs, Strings DEF TakeShutdown, TypeMain
    <2>2. QED
      BY <1>0, <1>4, <2>1 DEF TakeShutdown, TypeMain
  <1>5. CASE TakeConfig
    <2>1. applied' \in [Conns -> Seq(Nat)]
      BY <1>0, <1>5, AppliedType, Shortened DEF TakeConfig, Take, TypeThread
    <2>2. QED
      BY <1>0, <1>5, <2>1, SendIs, Strings DEF TakeConfig, TypeMain
  <1>6. CASE Finish \/ CheckQueue \/ CheckDone \/ TakeDrop \/ TakeOther \/ Activate
    BY <1>0, <1>6 DEF TypeMain, Finish, CheckQueue, CheckDone, TakeDrop, TakeOther,
       Activate, mainVars
  <1>7. CASE SendModify
    <2>1. cC \in Conns
      BY <1>0 DEF TypeMain
    <2>2. QED
      BY <1>0, <1>7, <2>1, ModifyIs DEF TypeMain
  <1>8. QED
    BY <1>1, <1>2, <1>3, <1>4, <1>5, <1>6, <1>7 DEF Main

\* A message goes from one list to the other.
LEMMA TypeThreadStep ==
    ASSUME TypeOK, NEW c \in Conns, Thread(c)
    PROVE  TypeOK'
  <1>0. TypeMain /\ TypeThread /\ TypeCcm
    BY TypeParts
  <1>1. CASE ThreadConnect(c) \/ ThreadEnds(c) \/ ThreadBreaks(c)
    <2>1. thread' \in [Conns -> ThreadStates]
      BY <1>0, <1>1 DEF ThreadConnect, ThreadEnds, ThreadBreaks, TypeThread, ThreadStates
    <2>2. QED
      BY <1>1, <2>1 DEF TypeOK, ThreadConnect, ThreadEnds, ThreadBreaks, mainVars,
         wireVars,
                        ccmVars
  <1>2. CASE ThreadRead(c)
    <2>1. down[c] \in Seq(DownMsgs) /\ down[c] # <<>>
      BY <1>0, <1>2 DEF ThreadRead, TypeCcm
    <2>2. Head(down[c]) \in DownMsgs /\ Tail(down[c]) \in Seq(DownMsgs)
      BY <2>1, Shortened
    <2>3. ccmQ' \in Seq(DownMsgs) /\ down' \in [Conns -> Seq(DownMsgs)]
      BY <1>0, <1>2, <2>2, Appended DEF ThreadRead, TypeThread, TypeCcm
    <2>4. QED
      BY <1>2, <2>3 DEF TypeOK, ThreadRead, mainVars, ccmVars
  <1>3. CASE ThreadEof(c)
    <2>1. ccmQ' \in Seq(DownMsgs)
      BY <1>0, <1>3, MsgType, Appended DEF ThreadEof, TypeThread
    <2>2. thread' \in [Conns -> ThreadStates]
      BY <1>0, <1>3 DEF ThreadEof, TypeThread, ThreadStates
    <2>3. QED
      BY <1>3, <2>1, <2>2 DEF TypeOK, ThreadEof, mainVars, wireVars, ccmVars
  <1>4. CASE ThreadWrite(c)
    <2>1. outgoing \in Seq(UpTypes) /\ outgoing # <<>>
      BY <1>0, <1>4 DEF ThreadWrite, TypeThread
    <2>2. outgoing' \in Seq(UpTypes) /\ outgoing[Len(outgoing)] \in UpTypes
      BY <1>4, <2>1, WithoutLast DEF ThreadWrite
    <2>3. Append(up[c], outgoing[Len(outgoing)]) \in Seq(UpTypes)
      BY <1>0, <2>2, Appended DEF TypeCcm
    <2>4. up' \in [Conns -> Seq(UpTypes)] /\ server' \in [Conns -> ServerStates]
      BY <1>0, <1>4, <2>3 DEF ThreadWrite, WriteMsg, TypeCcm, ServerStates
    <2>5. QED
      BY <1>4, <2>2, <2>4 DEF TypeOK, ThreadWrite, mainVars
  <1>5. CASE ThreadFindsNone(c) \/ ThreadReadOnly(c)
    BY <1>5 DEF TypeOK, ThreadFindsNone, ThreadReadOnly, mainVars, wireVars, ccmVars
  <1>6. QED
    BY <1>1, <1>2, <1>3, <1>4, <1>5 DEF Thread

\* What Answer does with one message, and with two.
Counts(m) == IF m.type = "CONFIG_SET" THEN 1 ELSE 0

LEMMA AnswerOne ==
    ASSUME TypeCcm, NEW c \in Conns, NEW m \in DownMsgs, Answer(c, <<m>>)
    PROVE  /\ down' = [down EXCEPT ![c] = Append(@, m)]
           /\ setsSent' = [setsSent EXCEPT ![c] = @ + Counts(m)]
           /\ down' \in [Conns -> Seq(DownMsgs)] /\ setsSent' \in [Conns -> Nat]
  <1>1. down[c] \in Seq(DownMsgs) /\ setsSent[c] \in Nat
    BY DEF TypeCcm
  <1>2. down[c] \o <<m>> = Append(down[c], m) /\ Append(down[c], m) \in Seq(DownMsgs)
    BY <1>1, AppendIsConcat, Appended
  <1>3. {i \in DOMAIN <<m>> : <<m>>[i].type = "CONFIG_SET"}
          = IF m.type = "CONFIG_SET" THEN {1} ELSE {}
    OBVIOUS
  <1>4. Cardinality({1}) = 1 /\ Cardinality({}) = 0
    BY FS_Singleton, FS_EmptySet
  <1>5. Cardinality({i \in DOMAIN <<m>> : <<m>>[i].type = "CONFIG_SET"}) = Counts(m)
    BY <1>3, <1>4 DEF Counts
  <1>6. setsSent' = [setsSent EXCEPT ![c] = @ + Counts(m)]
    BY <1>5 DEF Answer
  <1>7. setsSent' \in [Conns -> Nat]
    <2>1. setsSent[c] + Counts(m) \in Nat
      BY <1>1 DEF Counts
    <2>2. QED
      BY <1>6, <2>1 DEF TypeCcm
  <1>8. down' = [down EXCEPT ![c] = Append(@, m)]
    BY <1>2 DEF Answer, TypeCcm
  <1>9. down' \in [Conns -> Seq(DownMsgs)]
    BY <1>2, <1>8 DEF TypeCcm
  <1>10. QED
    BY <1>6, <1>7, <1>8, <1>9

LEMMA AnswerTwo ==
    ASSUME TypeCcm, NEW c \in Conns, NEW m \in DownMsgs, NEW k \in DownMsgs,
           m.type # "CONFIG_SET", k.type = "CONFIG_SET", Answer(c, <<m, k>>)
    PROVE  /\ down' = [down EXCEPT ![c] = Append(Append(@, m), k)]
           /\ setsSent' = [setsSent EXCEPT ![c] = @ + 1]
           /\ down' \in [Conns -> Seq(DownMsgs)] /\ setsSent' \in [Conns -> Nat]
  <1>1. down[c] \in Seq(DownMsgs) /\ setsSent[c] \in Nat
    BY DEF TypeCcm
  <1>2. /\ Append(down[c], m) \in Seq(DownMsgs)
        /\ Append(Append(down[c], m), k) \in Seq(DownMsgs)
    BY <1>1, Appended
  <1>3. down[c] \o <<m, k>> = Append(Append(down[c], m), k)
    <2>1. <<m>> \in Seq(DownMsgs) /\ <<m, k>> = Append(<<m>>, k)
      OBVIOUS
    <2>2. down[c] \o <<m>> = Append(down[c], m)
      BY <1>1, AppendIsConcat
    <2>3. QED
      BY <1>1, <2>1, <2>2, JoinedMore
  <1>4. {i \in DOMAIN <<m, k>> : <<m, k>>[i].type = "CONFIG_SET"} = {2}
    OBVIOUS
  <1>5. Cardinality({2}) = 1
    BY FS_Singleton
  <1>6. setsSent' = [setsSent EXCEPT ![c] = @ + 1]
    BY <1>4, <1>5 DEF Answer
  <1>7. setsSent' \in [Conns -> Nat]
    BY <1>1, <1>6 DEF TypeCcm
  <1>8. down' = [down EXCEPT ![c] = Append(Append(@, m), k)]
    BY <1>3 DEF Answer, TypeCcm
  <1>9. down' \in [Conns -> Seq(DownMsgs)]
    BY <1>2, <1>8 DEF TypeCcm
  <1>10. QED
    BY <1>6, <1>7, <1>8, <1>9

\* The messages the CCM puts on a connection.  The last is a CONFIG_SET that
\* comes with the REGISTER_ACK.
Puts(c, m) ==
    /\ m \in DownMsgs /\ m.conn = c /\ m.type # "DROP_PEER"
    /\ m.type = "CONFIG_SET" => m.n = setsSent[c] + 1
    /\ down' = [down EXCEPT ![c] = Append(@, m)]
    /\ setsSent' = [setsSent EXCEPT ![c] = @ + Counts(m)]

PutsTwo(c) ==
    /\ down' = [down EXCEPT ![c] = Append(Append(@, Msg("REGISTER_ACK", c)), NextSet(c))]
    /\ setsSent' = [setsSent EXCEPT ![c] = @ + 1]

LEMMA PutsIs ==
    ASSUME TypeCcm, NEW c \in Conns
    PROVE  /\ NextSet(c) \in DownMsgs /\ NextSet(c).conn = c
           /\ NextSet(c).type = "CONFIG_SET" /\ NextSet(c).n = setsSent[c] + 1
           /\ Answer(c, <<NextSet(c)>>) =>
                Puts(c, NextSet(c)) /\ down' \in [Conns -> Seq(DownMsgs)] /\ setsSent' \in [Conns -> Nat]
           /\ \A t \in (Answers \cup {"SHUTDOWN_REQ"}) \ {"CONFIG_SET"} :
                Answer(c, <<Msg(t, c)>>) =>
                  Puts(c, Msg(t, c)) /\ down' \in [Conns -> Seq(DownMsgs)] /\ setsSent' \in [Conns -> Nat]
           /\ Answer(c, <<Msg("REGISTER_ACK", c), NextSet(c)>>) =>
                PutsTwo(c) /\ down' \in [Conns -> Seq(DownMsgs)] /\ setsSent' \in [Conns -> Nat]
  <1>1. setsSent[c] + 1 \in Nat
    BY DEF TypeCcm
  <1>2. /\ NextSet(c) \in DownMsgs /\ NextSet(c).conn = c
        /\ NextSet(c).type = "CONFIG_SET" /\ NextSet(c).n = setsSent[c] + 1
    BY <1>1, MsgType DEF NextSet, SetMsg
  <1>3. \A t \in (Answers \cup {"SHUTDOWN_REQ"}) \ {"CONFIG_SET"} :
          Msg(t, c) \in DownMsgs /\ Msg(t, c).conn = c /\ Msg(t, c).type = t
          /\ t # "DROP_PEER" /\ t # "CONFIG_SET"
    BY MsgType DEF Msg, Answers
  <1>4. Answer(c, <<NextSet(c)>>) =>
          Puts(c, NextSet(c)) /\ down' \in [Conns -> Seq(DownMsgs)] /\ setsSent' \in [Conns -> Nat]
    BY <1>2, AnswerOne DEF Puts
  <1>5. ASSUME NEW t \in (Answers \cup {"SHUTDOWN_REQ"}) \ {"CONFIG_SET"}, Answer(c, <<Msg(t, c)>>)
        PROVE  Puts(c, Msg(t, c)) /\ down' \in [Conns -> Seq(DownMsgs)] /\ setsSent' \in [Conns -> Nat]
    BY <1>3, <1>5, AnswerOne DEF Puts
  <1>6. ASSUME Answer(c, <<Msg("REGISTER_ACK", c), NextSet(c)>>)
        PROVE  PutsTwo(c) /\ down' \in [Conns -> Seq(DownMsgs)] /\ setsSent' \in [Conns -> Nat]
    <2>1. Msg("REGISTER_ACK", c) \in DownMsgs /\ Msg("REGISTER_ACK", c).type # "CONFIG_SET"
      BY <1>3 DEF Answers
    <2>2. QED
      BY <1>2, <1>6, <2>1, AnswerTwo DEF PutsTwo
  <1>7. QED
    BY <1>2, <1>4, <1>5, <1>6

\* A crash closes what was open, and resets what was not accepted.
Crashed(c) ==
    IF server[c] = "open" THEN IF up[c] = <<>> THEN "closed" ELSE "reset"
    ELSE IF server[c] = "none" /\ thread[c] = "running" THEN "reset"
    ELSE server[c]

LEMMA CrashIs ==
    ASSUME TypeOK, CcmCrash
    PROVE  /\ server' = [c \in Conns |-> Crashed(c)]
           /\ server' \in [Conns -> ServerStates]
  <1>1. ASSUME NEW c \in Conns
        PROVE  (CASE server[c] = "open" -> IF up[c] = <<>> THEN "closed" ELSE "reset"
                  [] server[c] = "none" /\ thread[c] = "running" -> "reset"
                  [] OTHER -> server[c]) = Crashed(c)
    <2>1. CASE server[c] = "open"
      BY <2>1 DEF Crashed
    <2>2. CASE server[c] # "open" /\ server[c] = "none" /\ thread[c] = "running"
      BY <2>2 DEF Crashed
    <2>3. CASE server[c] # "open" /\ ~(server[c] = "none" /\ thread[c] = "running")
      BY <2>3 DEF Crashed
    <2>4. QED
      BY <2>1, <2>2, <2>3
  <1>2. server' = [c \in Conns |-> Crashed(c)]
    BY <1>1 DEF CcmCrash
  <1>3. QED
    BY <1>2 DEF Crashed, TypeOK, ServerStates

LEMMA TypeCcmStep ==
    ASSUME TypeOK, (\E c \in Conns : Ccm(c)) \/ CcmCrash \/ CcmStart
    PROVE  TypeOK'
  <1>0. TypeMain /\ TypeThread /\ TypeCcm /\ MaxUnasked \in Nat /\ MaxCrashes \in Nat
    BY TypeParts, UnitConstants
  <1>1. UNCHANGED <<mainVars, threadVars, lates>>
    BY DEF Ccm, CcmAccept, CcmReceive, CcmConfigures, CcmAsksShutdown, CcmSeesEof,
       CcmCrash,
           CcmStart
  <1>2. TypeMain' /\ TypeThread'
    BY <1>0, <1>1 DEF TypeMain, TypeThread, mainVars, threadVars
  <1>3. ASSUME NEW c \in Conns, CcmAccept(c) PROVE TypeCcm'
    <2>1. Append(down[c], Msg("CONNECT_ACK", c)) \in Seq(DownMsgs)
      BY <1>0, MsgType, Appended DEF TypeCcm, Answers
    <2>2. QED
      BY <1>0, <1>3, <2>1 DEF TypeCcm, CcmAccept, ServerStates
  <1>4. ASSUME NEW c \in Conns, CcmReceive(c) PROVE TypeCcm'
    <2>1. up' \in [Conns -> Seq(UpTypes)]
      BY <1>0, <1>4, Shortened DEF TypeCcm, CcmReceive
    <2>2. /\ down' \in [Conns -> Seq(DownMsgs)] /\ setsSent' \in [Conns -> Nat]
          /\ server' \in [Conns -> ServerStates] /\ registered' \subseteq Conns
      <3>1. CASE CcmRegister(c)
        BY <1>0, <3>1, PutsIs DEF TypeCcm, CcmRegister, Answers
      <3>2. CASE CcmAnswer(c)
        BY <1>0, <3>2, PutsIs DEF TypeCcm, CcmAnswer, Answers
      <3>3. CASE CcmDrop(c)
        BY <1>0, <3>3 DEF TypeCcm, CcmDrop, Close, ServerStates
      <3>4. QED
        BY <1>4, <3>1, <3>2, <3>3 DEF CcmReceive
    <2>3. QED
      BY <1>0, <1>4, <2>1, <2>2 DEF TypeCcm, CcmReceive
  <1>5. ASSUME NEW c \in Conns, CcmConfigures(c) \/ CcmAsksShutdown(c) PROVE TypeCcm'
    <2>1. down' \in [Conns -> Seq(DownMsgs)] /\ setsSent' \in [Conns -> Nat]
      BY <1>0, <1>5, PutsIs DEF CcmConfigures, CcmAsksShutdown, Answers
    <2>2. unasked' \in 0 .. MaxUnasked
      BY <1>0, <1>5 DEF CcmConfigures, CcmAsksShutdown, TypeCcm
    <2>3. QED
      BY <1>0, <1>5, <2>1, <2>2 DEF TypeCcm, CcmConfigures, CcmAsksShutdown
  <1>6. ASSUME NEW c \in Conns, CcmSeesEof(c) PROVE TypeCcm'
    BY <1>0, <1>6 DEF TypeCcm, CcmSeesEof, wireVars, ServerStates
  <1>7. ASSUME CcmCrash PROVE TypeCcm'
    <2>1. server' \in [Conns -> ServerStates]
      BY <1>7, CrashIs
    <2>2. crashes' \in 0 .. MaxCrashes
      BY <1>0, <1>7 DEF TypeCcm, CcmCrash
    <2>3. ccmUp' = FALSE /\ registered' = {} /\ UNCHANGED <<up, down, older, setsSent, unasked>>
      BY <1>7 DEF CcmCrash, wireVars
    <2>4. QED
      BY <1>0, <2>1, <2>2, <2>3 DEF TypeCcm
  <1>8. ASSUME CcmStart PROVE TypeCcm'
    <2>1. /\ ccmUp' = TRUE
          /\ UNCHANGED <<up, down, older, server, registered, setsSent, unasked, crashes>>
      BY <1>8 DEF CcmStart, wireVars
    <2>2. QED
      BY <1>0, <2>1 DEF TypeCcm
  <1>9. TypeCcm'
    BY <1>3, <1>4, <1>5, <1>6, <1>7, <1>8 DEF Ccm
  <1>10. QED
    BY <1>2, <1>9 DEF TypeOK, TypeMain, TypeThread, TypeCcm

LEMMA TypeStep == ASSUME TypeOK, Next PROVE TypeOK'
  <1>1. CASE Main
    <2>1. TypeMain'
      BY <1>1, TypeMainStep
    <2>2. TypeThread'
      <3>1. TypeThread
        BY TypeParts
      <3>2. ccmQ' \in Seq(DownMsgs)
        <4>1. CASE ccmQ' = ccmQ
          BY <3>1, <4>1 DEF TypeThread
        <4>2. CASE ccmQ # <<>> /\ ccmQ' = Tail(ccmQ)
          BY <3>1, <4>2, Shortened DEF TypeThread
        <4>3. QED
          BY <1>1, <4>1, <4>2, MainIs
      <3>3. thread' \in [Conns -> ThreadStates]
        BY <1>1, <3>1, MainIs, NewClientIs DEF TypeThread
      <3>4. QED
        BY <1>1, <3>1, <3>2, <3>3, MainIs DEF TypeThread
    <2>3. TypeCcm'
      BY <1>1, MainIs DEF TypeOK, TypeCcm, wireVars, ccmVars
    <2>4. QED
      BY <2>1, <2>2, <2>3 DEF TypeOK, TypeMain, TypeThread, TypeCcm
  <1>2. QED
    BY <1>1, TypeThreadStep, TypeCcmStep DEF Next

-----------------------------------------------------------------------------
(***************************************************************************)
(* The two ends of a connection.                                           *)
(***************************************************************************)
\* What a step of the CCM puts on a connection.
LEMMA CcmIs ==
    ASSUME TypeOK, EndsAgree, NEW c \in Conns, Ccm(c)
    PROVE  /\ UNCHANGED <<mainVars, threadVars, older, ccmUp, crashes, lates>>
           /\ server' \in [Conns -> ServerStates]
           /\ \A d \in Conns \ {c} : /\ up'[d] = up[d] /\ down'[d] = down[d]
                                     /\ server'[d] = server[d] /\ setsSent'[d] = setsSent[d]
                                     /\ d \in registered' <=> d \in registered
           /\ \/ down' = down /\ setsSent' = setsSent
              \/ \E m \in DownMsgs :
                   /\ Puts(c, m)
                   /\ \/ server[c] = "none" /\ m.type = "CONNECT_ACK"
                      \/ m.type = "REGISTER_ACK" /\ c \in registered'
                      \/ /\ m.type \in {"CONFIG_SET", "CONFIG_ACK", "SHUTDOWN_REQ"}
                         /\ c \in registered \/ (up[c] # <<>> /\ Head(up[c]) \in Config)
              \/ PutsTwo(c) /\ c \in registered'
  <1>0. TypeCcm
    BY TypeParts
  <1>1. CASE CcmAccept(c)
    <2>1. Msg("CONNECT_ACK", c) \in DownMsgs
      BY MsgType DEF Answers
    <2>2. Puts(c, Msg("CONNECT_ACK", c))
      BY <1>0, <1>1, <2>1 DEF CcmAccept, Puts, Msg, Counts, TypeCcm
    <2>3. Msg("CONNECT_ACK", c).type = "CONNECT_ACK"
      BY DEF Msg
    <2>4. QED
      BY <1>0, <1>1, <2>1, <2>2, <2>3 DEF CcmAccept, TypeCcm, ServerStates
  <1>2. CASE CcmReceive(c)
    <2>1. /\ UNCHANGED <<mainVars, threadVars, older, ccmUp, crashes, lates>>
          /\ up' = [up EXCEPT ![c] = Tail(@)] /\ up[c] # <<>>
      BY <1>2 DEF CcmReceive
    <2>2. CASE CcmRegister(c)
      <3>1. \A d \in Conns \ {c} : down'[d] = down[d] /\ setsSent'[d] = setsSent[d]
        BY <1>0, <2>2 DEF CcmRegister, Answer, TypeCcm
      <3>2. Msg("REGISTER_ACK", c) \in DownMsgs /\ Msg("REGISTER_ACK", c).type = "REGISTER_ACK"
        BY MsgType DEF Msg, Answers
      <3>3. Puts(c, Msg("REGISTER_ACK", c)) \/ PutsTwo(c)
        BY <1>0, <2>2, PutsIs DEF CcmRegister, Answers
      <3>4. registered' = registered \cup {c} /\ server' = server
        BY <2>2 DEF CcmRegister
      <3>5. QED
        BY <1>0, <2>1, <3>1, <3>2, <3>3, <3>4 DEF TypeCcm
    <2>3. CASE CcmAnswer(c)
      <3>1. \A d \in Conns \ {c} : down'[d] = down[d] /\ setsSent'[d] = setsSent[d]
        BY <1>0, <2>3 DEF CcmAnswer, Answer, TypeCcm
      <3>2. registered' = registered /\ server' = server
        BY <2>3 DEF CcmAnswer
      <3>3. \/ down' = down /\ setsSent' = setsSent
            \/ Head(up[c]) \in Config /\ Answer(c, <<NextSet(c)>>)
            \/ Head(up[c]) \in Config /\ Answer(c, <<Msg("CONFIG_ACK", c)>>)
        BY <2>3 DEF CcmAnswer, Config
      <3>4. /\ Msg("CONFIG_ACK", c) \in DownMsgs /\ Msg("CONFIG_ACK", c).type = "CONFIG_ACK"
            /\ NextSet(c) \in DownMsgs /\ NextSet(c).type = "CONFIG_SET"
        BY <1>0, MsgType, PutsIs DEF Msg, Answers
      <3>5. \/ down' = down /\ setsSent' = setsSent
            \/ Head(up[c]) \in Config /\ Puts(c, NextSet(c))
            \/ Head(up[c]) \in Config /\ Puts(c, Msg("CONFIG_ACK", c))
        BY <1>0, <3>3, PutsIs DEF Answers
      <3>6. QED
        BY <1>0, <2>1, <3>1, <3>2, <3>4, <3>5 DEF TypeCcm
    <2>4. CASE CcmDrop(c)
      BY <1>0, <2>1, <2>4 DEF CcmDrop, Close, TypeCcm, ServerStates
    <2>5. QED
      BY <1>2, <2>2, <2>3, <2>4 DEF CcmReceive
  <1>3. CASE CcmConfigures(c) \/ CcmAsksShutdown(c)
    <2>1. Answer(c, <<NextSet(c)>>) \/ Answer(c, <<Msg("SHUTDOWN_REQ", c)>>)
      BY <1>3 DEF CcmConfigures, CcmAsksShutdown
    <2>2. Puts(c, NextSet(c)) \/ Puts(c, Msg("SHUTDOWN_REQ", c))
      BY <1>0, <2>1, PutsIs DEF Answers
    <2>3. \A d \in Conns \ {c} : down'[d] = down[d] /\ setsSent'[d] = setsSent[d]
      BY <1>0, <2>1 DEF Answer, TypeCcm
    <2>4. /\ Msg("SHUTDOWN_REQ", c) \in DownMsgs /\ Msg("SHUTDOWN_REQ", c).type = "SHUTDOWN_REQ"
          /\ NextSet(c) \in DownMsgs /\ NextSet(c).type = "CONFIG_SET"
      BY <1>0, MsgType, PutsIs DEF Msg
    <2>5. /\ UNCHANGED <<mainVars, threadVars, older, ccmUp, crashes, lates>>
          /\ UNCHANGED <<up, server, registered>> /\ c \in registered
      BY <1>3 DEF CcmConfigures, CcmAsksShutdown
    <2>6. QED
      BY <1>0, <2>2, <2>3, <2>4, <2>5 DEF TypeCcm
  <1>4. CASE CcmSeesEof(c)
    BY <1>0, <1>4 DEF CcmSeesEof, TypeCcm, ServerStates, wireVars
  <1>5. QED
    BY <1>1, <1>2, <1>3, <1>4 DEF Ccm

LEMMA EndsStep ==
    ASSUME TypeOK, EndsAgree, Next
    PROVE  EndsAgree'
  <1>0. TypeThread /\ TypeCcm /\ TypeMain
    BY TypeParts
  <1>1. CASE Main
    <2>1. UNCHANGED <<up, down, server, registered, ccmUp>>
      BY <1>1, MainIs DEF wireVars, ccmVars
    <2>2. \A d \in Conns :
            /\ \/ thread'[d] = thread[d]
               \/ thread[d] \in {"none", "refused"} /\ thread'[d] = "connecting"
            /\ wantWrite'[d] = wantWrite[d] \/ thread[d] \in {"running", "broken", "ending"}
            /\ wantWrite'[d] = wantWrite[d] \/ thread'[d] = thread[d]
      <3>1. CASE UNCHANGED <<thread, cC, orphaned>>
        BY <1>0, <1>1, <3>1, MainIs DEF TypeThread, TypeMain
      <3>2. CASE NewClient /\ UNCHANGED <<wantWrite, ccmQ, outgoing>>
        BY <1>0, <3>2, NewClientIs DEF TypeThread
      <3>3. QED
        BY <1>1, <3>1, <3>2, MainIs
    <2>3. QED
      BY <2>1, <2>2 DEF EndsAgree
  <1>2. ASSUME NEW c \in Conns, Thread(c) PROVE EndsAgree'
    <2>1. CASE ThreadConnect(c)
      BY <1>0, <2>1 DEF ThreadConnect, EndsAgree, TypeThread, wireVars, ccmVars
    <2>2. CASE ThreadRead(c)
      BY <1>0, <2>2 DEF ThreadRead, EndsAgree, TypeCcm, ccmVars
    <2>3. CASE ThreadEof(c)
      BY <1>0, <2>3 DEF ThreadEof, EndsAgree, TypeThread, wireVars, ccmVars
    <2>4. CASE ThreadEnds(c)
      BY <1>0, <2>4 DEF ThreadEnds, EndsAgree, TypeThread, wireVars, ccmVars
    <2>5. CASE ThreadBreaks(c)
      BY <1>0, <2>5 DEF ThreadBreaks, EndsAgree, TypeThread, wireVars, ccmVars
    <2>6. CASE ThreadWrite(c)
      BY <1>0, <2>6 DEF ThreadWrite, Writable, WriteMsg, EndsAgree, TypeCcm
    <2>7. CASE ThreadFindsNone(c) \/ ThreadReadOnly(c)
      BY <1>0, <2>7 DEF ThreadFindsNone, ThreadReadOnly, EndsAgree, TypeThread, wireVars,
                        ccmVars
    <2>8. QED
      BY <1>2, <2>1, <2>2, <2>3, <2>4, <2>5, <2>6, <2>7 DEF Thread
  <1>3. ASSUME NEW c \in Conns, Ccm(c) PROVE EndsAgree'
    <2>1. CASE CcmAccept(c)
      BY <1>0, <2>1 DEF CcmAccept, EndsAgree, TypeCcm, threadVars
    <2>2. CASE CcmReceive(c)
      <3>1. server[c] = "open" /\ server'[c] # "none" /\ thread' = thread /\ wantWrite' = wantWrite
            /\ (c \in registered' => server'[c] = "open") /\ ccmUp' = ccmUp
        BY <1>0, <2>2 DEF CcmReceive, CcmRegister, CcmAnswer, CcmDrop, Close, TypeCcm,
           threadVars
      <3>2. thread[c] = "running"
        BY <1>0, <3>1 DEF EndsAgree, TypeThread, ThreadStates
      <3>3. QED
        BY <1>3, <3>1, <3>2, CcmIs DEF EndsAgree
    <2>3. CASE CcmConfigures(c) \/ CcmAsksShutdown(c)
      <3>1. UNCHANGED <<up, server, registered, ccmUp, thread, wantWrite>> /\ c \in registered
        BY <2>3 DEF CcmConfigures, CcmAsksShutdown, threadVars
      <3>2. QED
        BY <1>3, <3>1, CcmIs DEF EndsAgree
    <2>4. CASE CcmSeesEof(c)
      <3>1. thread[c] = "running"
        BY <1>0, <2>4 DEF CcmSeesEof, EndsAgree, TypeThread, ThreadStates
      <3>2. QED
        BY <1>0, <2>4, <3>1 DEF CcmSeesEof, EndsAgree, TypeCcm, threadVars, wireVars
    <2>5. QED
      BY <1>3, <2>1, <2>2, <2>3, <2>4 DEF Ccm
  <1>4. CASE CcmCrash
    <2>1. /\ UNCHANGED <<up, down, thread, wantWrite>> /\ registered' = {} /\ ccmUp' = FALSE
      BY <1>4 DEF CcmCrash, wireVars, threadVars
    <2>2. \A d \in Conns : server'[d] = Crashed(d)
      BY <1>4, CrashIs
    <2>3. QED
      BY <1>0, <2>1, <2>2 DEF EndsAgree, Crashed, TypeThread, TypeCcm, ThreadStates,
         ServerStates
  <1>5. CASE CcmStart
    BY <1>5 DEF CcmStart, EndsAgree, threadVars, wireVars
  <1>6. QED
    BY <1>1, <1>2, <1>3, <1>4, <1>5 DEF Next

\* What does not come back.
LEMMA Onwards ==
    ASSUME TypeOK, EndsAgree, Next, NEW c \in Conns
    PROVE  /\ Known(c) => Known(c)'
           /\ server[c] # "none" => server'[c] # "none"
           /\ thread[c] \notin {"none", "connecting", "refused"} =>
                thread'[c] \notin {"none", "connecting", "refused"}
           /\ thread[c] \in {"ending", "ended"} => thread'[c] \in {"ending", "ended"}
  <1>0. TypeThread /\ TypeCcm /\ TypeMain
    BY TypeParts
  <1>1. CASE Main
    <2>1. UNCHANGED <<server, registered>>
      BY <1>1, MainIs DEF wireVars, ccmVars
    <2>2. \/ thread'[c] = thread[c]
          \/ thread[c] \in {"none", "refused"} /\ thread'[c] = "connecting"
      BY <1>0, <1>1, MainIs, NewClientIs DEF TypeThread
    <2>3. QED
      BY <2>1, <2>2 DEF Known
  <1>2. ASSUME NEW d \in Conns, Thread(d)
        PROVE  /\ registered' = registered
               /\ server'[c] = server[c] \/ (server[c] = "closed" /\ server'[c] = "reset")
               /\ \/ thread'[c] = thread[c]
                  \/ thread[c] = "connecting" /\ thread'[c] \in {"running", "refused"}
                  \/ thread[c] = "running" /\ thread'[c] \in {"ending", "broken"}
                  \/ thread[c] = "ending" /\ thread'[c] = "ended"
    <2>1. CASE ThreadWrite(d)
      BY <1>0, <2>1 DEF ThreadWrite, WriteMsg, TypeCcm
    <2>2. CASE ThreadConnect(d) \/ ThreadRead(d) \/ ThreadEof(d) \/ ThreadEnds(d)
                 \/ ThreadBreaks(d) \/ ThreadFindsNone(d) \/ ThreadReadOnly(d)
      BY <1>0, <2>2 DEF ThreadConnect, ThreadRead, ThreadEof, ThreadEnds, ThreadBreaks,
                        ThreadFindsNone, ThreadReadOnly, TypeThread, ccmVars
    <2>3. QED
      BY <1>2, <2>1, <2>2 DEF Thread
  <1>3. ASSUME NEW d \in Conns, Ccm(d)
        PROVE  /\ Known(c) => Known(c)'
               /\ server[c] # "none" => server'[c] # "none"
               /\ thread' = thread
    <2>1. thread' = thread /\ (c # d => server'[c] = server[c] /\ (c \in registered' <=> c \in registered))
      BY <1>3, CcmIs DEF threadVars
    <2>2. CASE CcmAccept(d) \/ CcmConfigures(d) \/ CcmAsksShutdown(d)
      BY <1>0, <2>1, <2>2 DEF CcmAccept, CcmConfigures, CcmAsksShutdown, Known,
         TypeCcm, EndsAgree
    <2>3. CASE CcmReceive(d) \/ CcmSeesEof(d)
      <3>1. \/ server'[d] = server[d] /\ (d \in registered => d \in registered')
            \/ server'[d] \in {"closed", "reset"}
        BY <1>0, <2>3 DEF CcmReceive, CcmRegister, CcmAnswer, CcmDrop, Close,
           CcmSeesEof, TypeCcm
      <3>2. QED
        BY <2>1, <3>1 DEF Known
    <2>4. QED
      BY <1>3, <2>1, <2>2, <2>3 DEF Ccm
  <1>4. CASE CcmCrash
    <2>1. thread' = thread /\ server'[c] = Crashed(c)
      BY <1>4, CrashIs DEF CcmCrash, threadVars
    <2>2. QED
      BY <2>1 DEF Crashed, Known, EndsAgree
  <1>5. CASE CcmStart
    BY <1>5 DEF CcmStart, Known, threadVars
  <1>6. QED
    BY <1>1, <1>2, <1>3, <1>4, <1>5 DEF Next, Known

LEMMA MessagesStep ==
    ASSUME TypeOK, TypeOK', EndsAgree, EndsAgree', MessagesAgree, Next
    PROVE  MessagesAgree'
  <1>0. TypeThread /\ TypeCcm /\ TypeMain
    BY TypeParts
  <1>1. \A c \in Conns : down[c] \in Seq(WireMsgs(c)')
    <2>1. \A c \in Conns : WireMsgs(c) \subseteq WireMsgs(c)'
      BY Onwards DEF OnWire, WireMsgs
    <2>2. QED
      BY <2>1, InMore DEF MessagesAgree
  <1>2. ccmQ \in Seq(ComeMsgs')
    <2>1. \A m \in DownMsgs : m.conn \in Conns
      BY DEF DownMsgs
    <2>2. ComeMsgs \subseteq ComeMsgs'
      BY <2>1, Onwards DEF HasCome, ComeMsgs
    <2>3. QED
      BY <2>2, InMore DEF MessagesAgree
  <1>3. CASE Main
    <2>1. down' = down
      BY <1>3, MainIs DEF wireVars
    <2>2. ccmQ' \in Seq(ComeMsgs')
      <3>1. CASE ccmQ' = ccmQ
        BY <1>2, <3>1
      <3>2. CASE ccmQ # <<>> /\ ccmQ' = Tail(ccmQ)
        BY <1>2, <3>2, Shortened
      <3>3. QED
        BY <1>3, <3>1, <3>2, MainIs
    <2>3. QED
      BY <1>1, <2>1, <2>2 DEF MessagesAgree
  <1>4. ASSUME NEW c \in Conns, Thread(c) PROVE MessagesAgree'
    <2>1. CASE ThreadRead(c)
      <3>1. down[c] # <<>> /\ thread'[c] = "running" /\ server'[c] # "none"
        BY <1>0, <2>1 DEF ThreadRead, EndsAgree, ccmVars
      <3>2. Head(down[c]) \in WireMsgs(c)' /\ Tail(down[c]) \in Seq(WireMsgs(c)')
        BY <1>1, <3>1, Shortened
      <3>3. Head(down[c]) \in ComeMsgs'
        BY <3>1, <3>2 DEF WireMsgs, OnWire, ComeMsgs, HasCome
      <3>4. ccmQ' \in Seq(ComeMsgs')
        BY <1>2, <2>1, <3>3, Appended DEF ThreadRead
      <3>5. down'[c] = Tail(down[c]) /\ \A d \in Conns \ {c} : down'[d] = down[d]
        BY <1>0, <2>1 DEF ThreadRead, TypeCcm
      <3>6. \A d \in Conns : down'[d] \in Seq(WireMsgs(d)')
        BY <1>1, <3>2, <3>5
      <3>7. QED
        BY <3>4, <3>6 DEF MessagesAgree
    <2>2. CASE ThreadEof(c)
      <3>1. Msg("DROP_PEER", c) \in DownMsgs /\ down' = down
        BY <2>2, MsgType DEF ThreadEof, wireVars
      <3>2. thread'[c] = "ending" /\ server'[c] = "closed"
        BY <1>0, <2>2 DEF ThreadEof, TypeThread, ccmVars
      <3>3. Msg("DROP_PEER", c) \in ComeMsgs'
        BY <3>1, <3>2 DEF ComeMsgs, HasCome, Msg
      <3>4. ccmQ' \in Seq(ComeMsgs')
        BY <1>2, <2>2, <3>3, Appended DEF ThreadEof
      <3>5. QED
        BY <1>1, <3>1, <3>4 DEF MessagesAgree
    <2>3. CASE ThreadConnect(c) \/ ThreadEnds(c) \/ ThreadBreaks(c) \/ ThreadWrite(c)
                 \/ ThreadFindsNone(c) \/ ThreadReadOnly(c)
      <3>1. UNCHANGED <<ccmQ, down>>
        BY <2>3 DEF ThreadConnect, ThreadEnds, ThreadBreaks, ThreadWrite,
           ThreadFindsNone, ThreadReadOnly, wireVars
      <3>2. QED
        BY <1>1, <1>2, <3>1 DEF MessagesAgree
    <2>4. QED
      BY <1>4, <2>1, <2>2, <2>3 DEF Thread
  <1>5. ASSUME NEW c \in Conns, Ccm(c) PROVE MessagesAgree'
    <2>1. ccmQ' = ccmQ /\ \A d \in Conns \ {c} : down'[d] = down[d]
      BY <1>5, CcmIs DEF threadVars
    <2>2. ASSUME NEW m \in DownMsgs, Puts(c, m), m.type = "REGISTER_ACK" => c \in registered'
          PROVE  down'[c] \in Seq(WireMsgs(c)')
      <3>1. m \in WireMsgs(c)'
        BY <2>2 DEF WireMsgs, OnWire, Puts, Known
      <3>2. down'[c] = Append(down[c], m)
        BY <1>0, <2>2 DEF Puts, TypeCcm
      <3>3. QED
        BY <1>1, <3>1, <3>2, Appended
    <2>3. ASSUME PutsTwo(c), c \in registered'
          PROVE  down'[c] \in Seq(WireMsgs(c)')
      <3>1. /\ Msg("REGISTER_ACK", c) \in DownMsgs /\ NextSet(c) \in DownMsgs
            /\ NextSet(c).conn = c /\ NextSet(c).type = "CONFIG_SET"
        BY <1>0, MsgType, PutsIs DEF Answers
      <3>2. Msg("REGISTER_ACK", c) \in WireMsgs(c)' /\ NextSet(c) \in WireMsgs(c)'
        BY <2>3, <3>1 DEF WireMsgs, OnWire, Known, Msg
      <3>3. down'[c] = Append(Append(down[c], Msg("REGISTER_ACK", c)), NextSet(c))
        BY <1>0, <2>3 DEF PutsTwo, TypeCcm
      <3>4. Append(down[c], Msg("REGISTER_ACK", c)) \in Seq(WireMsgs(c)')
        BY <1>1, <3>2, Appended
      <3>5. QED
        BY <3>2, <3>3, <3>4, Appended
    <2>4. down'[c] \in Seq(WireMsgs(c)')
      <3>1. CASE down' = down
        BY <1>1, <3>1
      <3>2. ASSUME NEW m \in DownMsgs, Puts(c, m),
                   \/ server[c] = "none" /\ m.type = "CONNECT_ACK"
                   \/ m.type = "REGISTER_ACK" /\ c \in registered'
                   \/ m.type \in {"CONFIG_SET", "CONFIG_ACK", "SHUTDOWN_REQ"}
            PROVE  down'[c] \in Seq(WireMsgs(c)')
        BY <2>2, <3>2
      <3>3. QED
        BY <1>5, <2>3, <3>1, <3>2, CcmIs
    <2>5. \A d \in Conns : down'[d] \in Seq(WireMsgs(d)')
      BY <1>1, <2>1, <2>4
    <2>6. QED
      BY <1>2, <2>1, <2>5 DEF MessagesAgree
  <1>6. CASE CcmCrash \/ CcmStart
    <2>1. UNCHANGED <<ccmQ, down>>
      BY <1>6 DEF CcmCrash, CcmStart, threadVars, wireVars
    <2>2. QED
      BY <1>1, <1>2, <2>1 DEF MessagesAgree
  <1>7. QED
    BY <1>3, <1>4, <1>5, <1>6 DEF Next

-----------------------------------------------------------------------------
(***************************************************************************)
(* Where main is, and which thread is whose.                               *)
(***************************************************************************)
\* Without the answer it waits for, main takes one of two ways.
LEMMA ReplyIs ==
    ASSUME TypeOK, Answered \/ Timeout
    PROVE  \/ ccmQ = <<>> /\ Timeout /\ GiveUp
           \/ SetConfigDone
           \/ /\ ccmQ # <<>> /\ Head(ccmQ) \in DownMsgs /\ ccmQ' = Tail(ccmQ) /\ lates' = lates
              /\ \/ Head(ccmQ).type # wait /\ GiveUp
                 \/ /\ Head(ccmQ).type = wait
                    /\ AckConnect \/ AckRegister \/ AckConfig(Head(ccmQ))
  <1>1. CASE Answered
    <2>1. ccmQ # <<>> /\ ccmQ' = Tail(ccmQ) /\ lates' = lates
      BY <1>1 DEF Answered
    <2>2. Head(ccmQ) \in DownMsgs
      BY <2>1, Shortened DEF TypeOK
    <2>3. CASE Head(ccmQ).type = wait
      BY <1>1, <2>1, <2>2, <2>3 DEF Answered
    <2>4. CASE Head(ccmQ).type # wait
      BY <1>1, <2>1, <2>2, <2>4 DEF Answered
    <2>5. QED
      BY <2>3, <2>4
  <1>2. CASE Timeout
    BY <1>2 DEF Timeout
  <1>3. QED
    BY <1>1, <1>2

\* What the threads and the CCM leave alone.
LEMMA OthersIs ==
    ASSUME TypeOK, (\E c \in Conns : Thread(c) \/ Ccm(c)) \/ CcmCrash \/ CcmStart
    PROVE  /\ UNCHANGED mainVars /\ lates' = lates
           /\ \A c \in Conns : thread'[c] = "none" <=> thread[c] = "none"
           /\ \A c \in Conns : Alive(c)' => Alive(c)
           /\ \/ outgoing' = outgoing
              \/ outgoing # <<>> /\ outgoing' = SubSeq(outgoing, 1, Len(outgoing) - 1)
  <1>0. TypeThread
    BY TypeParts
  <1>1. ASSUME NEW c \in Conns, Thread(c)
        PROVE  /\ UNCHANGED mainVars /\ lates' = lates
               /\ \A d \in Conns : thread'[d] = "none" <=> thread[d] = "none"
               /\ \A d \in Conns : Alive(d)' => Alive(d)
               /\ \/ outgoing' = outgoing
                  \/ outgoing # <<>> /\ outgoing' = SubSeq(outgoing, 1, Len(outgoing) - 1)
    <2>1. CASE ThreadConnect(c)
      BY <1>0, <2>1 DEF ThreadConnect, TypeThread, Alive
    <2>2. CASE ThreadRead(c) \/ ThreadWrite(c) \/ ThreadFindsNone(c) \/ ThreadReadOnly(c)
      BY <1>0, <2>2 DEF ThreadRead, ThreadWrite, ThreadFindsNone, ThreadReadOnly,
         TypeThread, Alive
    <2>3. CASE ThreadEof(c) \/ ThreadEnds(c) \/ ThreadBreaks(c)
      BY <1>0, <2>3 DEF ThreadEof, ThreadEnds, ThreadBreaks, TypeThread, Alive
    <2>4. QED
      BY <1>1, <2>1, <2>2, <2>3 DEF Thread
  <1>2. ASSUME (\E c \in Conns : Ccm(c)) \/ CcmCrash \/ CcmStart
        PROVE  UNCHANGED <<mainVars, threadVars, lates>>
    BY <1>2 DEF Ccm, CcmAccept, CcmReceive, CcmConfigures, CcmAsksShutdown, CcmSeesEof,
       CcmCrash,
                CcmStart
  <1>3. QED
    BY <1>1, <1>2 DEF threadVars, Alive

LEMMA MainStep ==
    ASSUME TypeOK, EndsAgree, MessagesAgree, MainKnows, Next
    PROVE  MainKnows'
  <1>0. TypeThread /\ TypeCcm /\ TypeMain /\ 1 \in Conns /\ Conns \subseteq Nat
    BY TypeParts, Strings
  <1>1. Known(cC) => \A c \in Conns : c = cC => Known(c)'
    BY Onwards
  <1>2. CASE (\E c \in Conns : Thread(c) \/ Ccm(c)) \/ CcmCrash \/ CcmStart
    <2>1. /\ UNCHANGED mainVars
          /\ \A c \in Conns : thread'[c] = "none" <=> thread[c] = "none"
          /\ outgoing = <<>> => outgoing' = <<>>
      BY <1>2, OthersIs
    <2>2. cC' = cC /\ (Known(cC) => Known(cC)')
      BY <1>0, <1>1, <2>1 DEF mainVars, TypeMain, Known
    <2>3. QED
      BY <1>0, <2>1, <2>2 DEF MainKnows, mainVars
  <1>3. CASE Start \/ CheckReconnect
    <2>1. /\ NewClient /\ UNCHANGED <<inStart, connected, outgoing, inSend>> /\ ~inSend
          /\ pc' = "wait" /\ wait' = "CONNECT_ACK"
      BY <1>3 DEF Start, CheckReconnect, NewClient
    <2>2. CASE pc = "start"
      <3>1. cC' = 1
        BY <1>0, <2>1, <2>2, NewClientIs DEF MainKnows
      <3>2. \A c \in Conns \ {1} : thread'[c] = "none"
        BY <1>0, <2>1, <2>2, <3>1, NewClientIs DEF MainKnows, TypeThread
      <3>3. QED
        BY <2>1, <2>2, <3>1, <3>2 DEF MainKnows
    <2>3. CASE CheckReconnect
      BY <2>1, <2>3 DEF MainKnows, CheckReconnect
    <2>4. QED
      BY <1>3, <2>2, <2>3 DEF Start
  <1>4. CASE Answered \/ Timeout
    <2>1. pc = "wait" /\ ~inSend /\ UNCHANGED <<cC, thread>> /\ UNCHANGED <<server, registered>>
      BY <1>0, <1>4, RepliesIs DEF ccmVars
    <2>2. Known(cC) <=> Known(cC)'
      BY <2>1 DEF Known
    <2>3. CASE GiveUp
      BY <1>0, <2>1, <2>3 DEF GiveUp, MainKnows
    <2>4. CASE SetConfigDone
      <3>1. pc' = "wait"
        BY <1>0, <2>4, SendIs, Strings DEF SetConfigDone, TypeMain
      <3>2. QED
        BY <2>1, <2>2, <2>4, <3>1 DEF SetConfigDone, MainKnows
    <2>5. CASE AckConnect
      <3>1. pc' = "wait"
        BY <1>0, <2>5, SendIs, Strings DEF AckConnect, TypeMain
      <3>2. QED
        BY <2>1, <2>2, <2>5, <3>1 DEF AckConnect, MainKnows
    <2>6. CASE AckRegister /\ ccmQ # <<>> /\ Head(ccmQ).type = wait
      <3>1. CASE ~inStart
        BY <2>1, <2>6, <3>1 DEF AckRegister, MainKnows
      <3>2. CASE inStart
        <4>1. Head(ccmQ) \in ComeMsgs
          BY <2>6, Shortened DEF MessagesAgree
        <4>2. Head(ccmQ).conn \in Conns /\ thread[Head(ccmQ).conn] # "none" /\ Known(Head(ccmQ).conn)
          BY <2>6, <4>1 DEF ComeMsgs, HasCome, DownMsgs, AckRegister
        <4>3. Known(cC)
          BY <3>2, <4>2 DEF MainKnows
        <4>4. pc' = "wait" /\ wait' \in {"CONFIG_ACK", "CONFIG_SET"}
          BY <1>0, <2>6, <3>2, SendIs, Strings DEF AckRegister, TypeMain
        <4>5. QED
          BY <2>1, <2>2, <2>6, <3>2, <4>3, <4>4 DEF AckRegister, MainKnows
      <3>3. QED
        BY <1>0, <3>1, <3>2 DEF TypeMain
    <2>7. CASE AckConfig(Head(ccmQ))
      <3>1. pc' = "activate"
        BY <1>0, <2>7, SendIs, Strings DEF AckConfig, TypeMain
      <3>2. QED
        BY <2>1, <2>7, <3>1 DEF AckConfig, MainKnows
    <2>8. QED
      BY <1>4, <2>3, <2>4, <2>5, <2>6, <2>7, ReplyIs
  <1>5. CASE Progress \/ AckShutdown \/ TakeShutdown \/ TakeConfig
    <2>1. /\ pc \in {"loop", "cleaned", "check"} /\ UNCHANGED <<inStart, connected, cC, thread, wait>>
          /\ pc' \in {"loop", "cleaned", "check", "dead"}
          /\ pc = "cleaned" \/ connected
      BY <1>0, <1>5, SendIs, Strings DEF Progress, AckShutdown, TakeShutdown,
         TakeConfig, Take, TypeMain
    <2>2. QED
      BY <2>1 DEF MainKnows
  <1>6. CASE Finish \/ CheckQueue \/ CheckDone \/ TakeDrop \/ TakeOther \/ Activate
    <2>1. /\ pc \in {"loop", "check", "activate"} /\ pc' \in {"loop", "check", "ended"}
          /\ UNCHANGED <<inStart, inSend>> /\ ~inSend
      BY <1>6 DEF Finish, CheckQueue, CheckDone, TakeDrop, TakeOther, Take, Activate,
         mainVars
    <2>2. QED
      BY <2>1 DEF MainKnows
  <1>7. CASE SendModify
    <2>1. /\ pc' \in {pc, "dead"} /\ inSend' = FALSE
          /\ UNCHANGED <<wait, inStart, connected, cC, thread, outgoing, server, registered>>
      BY <1>0, <1>7, ModifyIs DEF TypeMain, ccmVars
    <2>2. QED
      BY <2>1 DEF MainKnows, Known
  <1>8. QED
    BY <1>2, <1>3, <1>4, <1>5, <1>6, <1>7 DEF Next, Main

LEMMA ThreadsStep ==
    ASSUME TypeOK, OneThread, Next
    PROVE  OneThread'
  <1>0. TypeThread /\ TypeMain
    BY TypeParts
  <1>1. CASE (\E c \in Conns : Thread(c) \/ Ccm(c)) \/ CcmCrash \/ CcmStart
    BY <1>1, OthersIs DEF OneThread, mainVars
  <1>2. CASE Main
    <2>1. CASE UNCHANGED <<thread, cC, orphaned>>
      BY <2>1 DEF OneThread, Alive
    <2>2. CASE NewClient
      BY <1>0, <2>2, NewClientIs DEF OneThread, Alive, TypeThread, TypeMain
    <2>3. QED
      BY <1>2, <2>1, <2>2, MainIs
  <1>3. QED
    BY <1>1, <1>2 DEF Next

-----------------------------------------------------------------------------
(***************************************************************************)
(* The stack of outgoing messages.                                         *)
(***************************************************************************)
LEMMA Pushed ==
    ASSUME NEW o \in Seq(UpTypes), NEW t \in UpTypes,
           t = "REGISTER_REQ" \/ (Covered(o) /\ t \notin Config)
    PROVE  Covered(Append(o, t))
  <1>1. /\ Len(o) \in Nat /\ DOMAIN Append(o, t) = 1 .. Len(o) + 1 /\ DOMAIN o = 1 .. Len(o)
        /\ \A i \in 1 .. Len(o) : Append(o, t)[i] = o[i]
        /\ Append(o, t)[Len(o) + 1] = t
    BY Appended
  <1>2. "REGISTER_REQ" \notin Config
    BY DEF Config
  <1>3. ASSUME NEW i \in DOMAIN Append(o, t), Append(o, t)[i] \in Config
        PROVE  \E j \in DOMAIN Append(o, t) : i < j /\ Append(o, t)[j] = "REGISTER_REQ"
    <2>1. CASE t = "REGISTER_REQ"
      <3>1. i # Len(o) + 1
        BY <1>1, <1>2, <1>3, <2>1
      <3>2. Len(o) + 1 \in DOMAIN Append(o, t) /\ i < Len(o) + 1
        BY <1>1, <1>3, <3>1
      <3>3. QED
        BY <1>1, <2>1, <3>2
    <2>2. CASE Covered(o) /\ t \notin Config
      <3>1. i \in DOMAIN o /\ o[i] \in Config
        BY <1>1, <1>3, <2>2
      <3>2. PICK j \in DOMAIN o : i < j /\ o[j] = "REGISTER_REQ"
        BY <2>2, <3>1 DEF Covered
      <3>3. j \in DOMAIN Append(o, t) /\ Append(o, t)[j] = "REGISTER_REQ"
        BY <1>1, <3>2
      <3>4. QED
        BY <3>2, <3>3
    <2>3. QED
      BY <2>1, <2>2
  <1>4. QED
    BY <1>3 DEF Covered

LEMMA Popped ==
    ASSUME NEW o \in Seq(UpTypes), NEW u \in Seq(UpTypes), o # <<>>,
           First(u), Registers(u) \/ Covered(o)
    PROVE  /\ First(Append(u, o[Len(o)]))
           /\ Registers(Append(u, o[Len(o)])) \/ Covered(SubSeq(o, 1, Len(o) - 1))
  <1> DEFINE x == o[Len(o)]
             v == Append(u, x)
             p == SubSeq(o, 1, Len(o) - 1)
  <1>1. /\ x \in UpTypes /\ Len(o) \in Nat /\ Len(o) > 0 /\ DOMAIN o = 1 .. Len(o)
        /\ DOMAIN p = 1 .. Len(o) - 1 /\ \A i \in 1 .. Len(o) - 1 : p[i] = o[i]
    BY WithoutLast
  <1>2. /\ Len(u) \in Nat /\ DOMAIN v = 1 .. Len(u) + 1 /\ DOMAIN u = 1 .. Len(u)
        /\ \A i \in 1 .. Len(u) : v[i] = u[i]
        /\ v[Len(u) + 1] = x
    BY <1>1, Appended
  <1>3. Covered(o) => x \notin Config
    BY <1>1 DEF Covered
  <1> HIDE DEF x, v, p
  <1>4. Registers(u) => Registers(v)
    BY <1>2 DEF Registers
  <1>5. x = "REGISTER_REQ" => Registers(v)
    <2>1. Len(u) + 1 \in DOMAIN v
      BY <1>2
    <2>2. QED
      BY <1>2, <2>1 DEF Registers
  <1>6. Covered(o) /\ x # "REGISTER_REQ" => Covered(p)
    <2>1. ASSUME Covered(o), x # "REGISTER_REQ", NEW i \in DOMAIN p, p[i] \in Config
          PROVE  \E j \in DOMAIN p : i < j /\ p[j] = "REGISTER_REQ"
      <3>1. i \in DOMAIN o /\ o[i] \in Config
        BY <1>1, <2>1
      <3>2. PICK j \in DOMAIN o : i < j /\ o[j] = "REGISTER_REQ"
        BY <2>1, <3>1 DEF Covered
      <3>3. j # Len(o)
        BY <2>1, <3>2 DEF x
      <3>4. j \in DOMAIN p /\ p[j] = o[j]
        BY <1>1, <3>2, <3>3
      <3>5. QED
        BY <3>2, <3>4
    <2>2. QED
      BY <2>1 DEF Covered
  <1>7. First(v)
    <2>1. ASSUME NEW i \in DOMAIN v, v[i] \in Config
          PROVE  \E j \in DOMAIN v : j < i /\ v[j] = "REGISTER_REQ"
      <3>1. CASE i \in DOMAIN u
        <4>1. PICK j \in DOMAIN u : j < i /\ u[j] = "REGISTER_REQ"
          BY <1>2, <2>1, <3>1 DEF First
        <4>2. QED
          BY <1>2, <4>1
      <3>2. CASE i \notin DOMAIN u
        <4>1. i = Len(u) + 1 /\ x \in Config
          BY <1>2, <2>1, <3>2
        <4>2. PICK j \in DOMAIN u : u[j] = "REGISTER_REQ"
          BY <1>3, <4>1 DEF Registers
        <4>3. j < i /\ j \in DOMAIN v /\ v[j] = u[j]
          BY <1>2, <4>1, <4>2
        <4>4. QED
          BY <4>2, <4>3
      <3>3. QED
        BY <3>1, <3>2
    <2>2. QED
      BY <2>1 DEF First
  <1>8. QED
    BY <1>4, <1>5, <1>6, <1>7 DEF x, v, p

LEMMA Served ==
    ASSUME NEW u \in Seq(UpTypes), u # <<>>, Head(u) # "REGISTER_REQ", First(u)
    PROVE  /\ Head(u) \notin Config
           /\ First(Tail(u)) /\ (Registers(u) => Registers(Tail(u)))
  <1> DEFINE v == Tail(u)
  <1>1. /\ Head(u) = u[1] /\ Len(u) \in Nat /\ Len(u) > 0 /\ DOMAIN u = 1 .. Len(u)
        /\ DOMAIN v = 1 .. Len(u) - 1 /\ \A i \in 1 .. Len(u) - 1 : v[i] = u[i + 1]
    BY Shortened
  <1> HIDE DEF v
  <1>2. Head(u) \notin Config
    BY <1>1 DEF First
  <1>3. \A j \in DOMAIN u : u[j] = "REGISTER_REQ" => j - 1 \in DOMAIN v /\ v[j - 1] = u[j]
    BY <1>1
  <1>4. Registers(u) => Registers(v)
    BY <1>3 DEF Registers
  <1>5. ASSUME NEW i \in DOMAIN v, v[i] \in Config
        PROVE  \E j \in DOMAIN v : j < i /\ v[j] = "REGISTER_REQ"
    <2>1. i + 1 \in DOMAIN u /\ u[i + 1] \in Config
      BY <1>1, <1>5
    <2>2. PICK j \in DOMAIN u : j < i + 1 /\ u[j] = "REGISTER_REQ"
      BY <2>1 DEF First
    <2>3. j - 1 < i
      BY <1>1, <1>5, <2>2
    <2>4. QED
      BY <1>3, <2>2, <2>3
  <1>6. First(v)
    BY <1>5 DEF First
  <1>7. QED
    BY <1>2, <1>4, <1>6 DEF v

LEMMA NoneYet == First(<<>>) /\ Covered(<<>>)
  BY DEF First, Covered

\* Before the CCM has had its REGISTER_REQ the unit's answers are few.
LEMMA BeforeKnown ==
    ASSUME TypeOK, MessagesAgree, MainKnows, Answered \/ Timeout, ~Known(cC)
    PROVE  GiveUp \/ AckConnect \/ (AckRegister /\ ~inStart)
  <1>1. pc = "wait"
    BY RepliesIs, TypeParts
  <1>2. ~SetConfigDone /\ ~AckConfig(Head(ccmQ))
    BY <1>1 DEF SetConfigDone, AckConfig, MainKnows
  <1>3. ASSUME AckRegister, inStart, ccmQ # <<>>, Head(ccmQ).type = wait PROVE FALSE
    <2>1. Head(ccmQ) \in ComeMsgs
      BY <1>3, Shortened DEF MessagesAgree
    <2>2. Head(ccmQ).conn \in Conns /\ thread[Head(ccmQ).conn] # "none" /\ Known(Head(ccmQ).conn)
      BY <1>3, <2>1 DEF ComeMsgs, HasCome, DownMsgs, AckRegister
    <2>3. QED
      BY <1>3, <2>2 DEF MainKnows
  <1>4. QED
    BY <1>2, <1>3, ReplyIs

LEMMA PileStep ==
    ASSUME TypeOK, EndsAgree, MessagesAgree, MainKnows, OneThread, Pile, Next
    PROVE  Pile'
  <1>0. TypeThread /\ TypeCcm /\ TypeMain
    BY TypeParts
  <1>1. \A c \in Conns : Known(c) => Known(c)'
    BY Onwards
  <1>2. CASE Main
    <2>1. UNCHANGED <<up, server, registered>>
      BY <1>2, MainIs DEF wireVars, ccmVars
    <2>2. CASE NewClient
      <3>1. cC' \in Conns /\ thread[cC'] \in {"none", "refused"}
        BY <1>0, <2>2, NewClientIs
      <3>2. ~wantWrite[cC'] /\ up[cC'] = <<>>
        BY <3>1 DEF EndsAgree
      <3>3. ~connected' /\ wantWrite' = wantWrite
        <4>1. CASE Start \/ CheckReconnect
          BY <4>1 DEF Start, CheckReconnect, MainKnows
        <4>2. CASE ~(Start \/ CheckReconnect)
          <5>1. pc' = "wait" /\ wait' = "CONNECT_ACK" /\ thread' # thread
            BY <1>0, <2>2, <3>1, NewClientIs DEF TypeThread
          <5>2. UNCHANGED thread
            BY <1>2, <4>2, RepliesIs, <1>0 DEF Main, Finish, Progress, CheckQueue,
               CheckDone,
               TakeShutdown, AckShutdown, TakeConfig, TakeDrop, TakeOther, SendModify,
               Activate, threadVars
          <5>3. QED
            BY <5>1, <5>2
        <4>3. QED
          BY <4>1, <4>2
      <3>4. Unused' /\ First(up[cC])'
        BY <2>1, <3>2, <3>3, NoneYet DEF Unused
      <3>5. QED
        BY <3>4 DEF Pile
    <2>3. ASSUME UNCHANGED <<thread, cC, orphaned>>, ~orphaned, ~Known(cC)
          PROVE  Registers(up[cC]) \/ Covered(outgoing') \/ Unused'
      <3>1. Registers(up[cC]) \/ Covered(outgoing) \/ Unused
        BY <2>3 DEF Pile
      <3>2. outgoing \in Seq(UpTypes) /\ cC \in Conns
        BY <1>0 DEF TypeThread, TypeMain
      <3>3. thread[cC] \notin {"ending", "ended", "broken"}
        BY <2>3, <3>2 DEF EndsAgree, Known
      <3>4. ASSUME NEW t \in UpTypes, NEW next, Send(t, next),
                   t = "REGISTER_REQ" \/ (t \notin Config /\ connected)
            PROVE  Registers(up[cC]) \/ Covered(outgoing')
        <4>1. outgoing' = Append(outgoing, t)
          BY <1>0, <3>2, <3>3, <3>4, SendIs
        <4>2. ~Unused \/ t = "REGISTER_REQ"
          BY <3>4 DEF Unused
        <4>3. Registers(up[cC]) \/ Covered(Append(outgoing, t))
          BY <3>1, <3>2, <3>4, <4>2, Pushed
        <4>4. QED
          BY <4>1, <4>3
      <3>5. CASE Start \/ CheckReconnect
        BY <2>3, <3>5, <1>0, NewClientIs DEF Start, CheckReconnect, TypeThread, TypeMain
      <3>6. CASE Answered \/ Timeout
        <4>1. GiveUp \/ AckConnect \/ (AckRegister /\ ~inStart)
          BY <2>3, <3>6, BeforeKnown
        <4>2. CASE GiveUp
          <5>1. pc = "wait" /\ UNCHANGED <<cC, wantWrite>>
            BY <1>0, <3>6, RepliesIs
          <5>2. CASE inStart /\ Unused
            BY <4>2, <5>1, <5>2, NoneYet DEF GiveUp, MainKnows, Unused
          <5>3. CASE ~inStart \/ ~Unused
            BY <1>0, <2>1, <2>3, <3>1, <4>2, <5>1, <5>3 DEF GiveUp, Unused, TypeMain
          <5>4. QED
            BY <1>0, <5>2, <5>3 DEF TypeMain
        <4>3. CASE AckConnect
          BY <3>4, <4>3, Strings DEF AckConnect
        <4>4. CASE AckRegister /\ ~inStart
          <5>1. UNCHANGED <<cC, wantWrite>>
            BY <1>0, <3>6, RepliesIs
          <5>2. QED
            BY <2>1, <2>3, <3>1, <4>4, <5>1 DEF AckRegister, Unused
        <4>5. QED
          BY <4>1, <4>2, <4>3, <4>4
      <3>7. CASE Progress \/ AckShutdown \/ TakeShutdown \/ TakeConfig
        <4>1. /\ connected /\ connected' = connected
              /\ wantWrite' = wantWrite
              /\ \/ outgoing' = outgoing
                 \/ \E t \in {"PROGRESS", "SHUTDOWN_ACK", "CONFIG_ACK"} :
                      \E next \in {"loop", "check", "cleaned"} : Send(t, next)
          BY <3>7 DEF Progress, AckShutdown, TakeShutdown, TakeConfig, Take, MainKnows
        <4>2. \A t \in {"PROGRESS", "SHUTDOWN_ACK", "CONFIG_ACK"} : t \in UpTypes /\ t \notin Config
          BY DEF UpTypes, Config
        <4>3. CASE outgoing' = outgoing
          BY <2>1, <2>3, <3>1, <4>1, <4>3 DEF Unused
        <4>4. QED
          BY <3>4, <4>1, <4>2, <4>3
      <3>8. CASE Finish \/ CheckQueue \/ CheckDone \/ TakeDrop \/ TakeOther \/ Activate
        <4>1. UNCHANGED <<outgoing, wantWrite>> /\ (~connected => ~connected')
          BY <3>8 DEF Finish, CheckQueue, CheckDone, TakeDrop, TakeOther, Take,
             Activate, mainVars, threadVars
        <4>2. QED
          BY <2>1, <2>3, <3>1, <4>1 DEF Unused
      <3>9. CASE SendModify
        <4>1. outgoing' = outgoing /\ connected
          BY <1>0, <3>2, <3>9, ModifyIs DEF MainKnows
        <4>2. QED
          BY <3>1, <4>1 DEF Unused
      <3>10. QED
        BY <1>2, <3>5, <3>6, <3>7, <3>8, <3>9 DEF Main
    <2>4. CASE UNCHANGED <<thread, cC, orphaned>>
      BY <2>1, <2>3, <2>4 DEF Pile, Known
    <2>5. QED
      BY <1>2, <2>2, <2>4, MainIs
  <1>3. ASSUME UNCHANGED mainVars,
               ~orphaned /\ ~Known(cC) /\ ~Known(cC)' =>
                   /\ First(up'[cC])
                   /\ Registers(up'[cC]) \/ Covered(outgoing') \/ (~connected /\ ~wantWrite'[cC] /\ up'[cC] = <<>>)
        PROVE  Pile'
    <2>1. cC \in Conns /\ UNCHANGED <<cC, orphaned, connected>>
      BY <1>0, <1>3 DEF TypeMain, mainVars
    <2>2. Known(cC) => Known(cC)'
      BY <1>1, <2>1 DEF Known
    <2>3. QED
      BY <1>3, <2>1, <2>2 DEF Pile, Unused
  <1>4. ASSUME NEW c \in Conns, Thread(c) PROVE Pile'
    <2>1. UNCHANGED mainVars
      BY <1>4, OthersIs
    <2>2. CASE ThreadWrite(c)
      <3>1. ASSUME ~orphaned, ~Known(cC), ~Known(cC)'
            PROVE  /\ First(up'[cC])
                   /\ Registers(up'[cC]) \/ Covered(outgoing')
        <4>1. c = cC /\ wantWrite[c]
          BY <2>2, <3>1 DEF ThreadWrite, Writable, OneThread, Alive
        <4>2. /\ up'[c] = Append(up[c], outgoing[Len(outgoing)]) /\ outgoing # <<>>
              /\ outgoing' = SubSeq(outgoing, 1, Len(outgoing) - 1)
          BY <1>0, <2>2, <3>1, <4>1 DEF ThreadWrite, WriteMsg, Known, TypeCcm
        <4>3. First(up[c]) /\ (Registers(up[c]) \/ Covered(outgoing))
          BY <3>1, <4>1 DEF Pile, Unused
        <4>4. up[c] \in Seq(UpTypes) /\ outgoing \in Seq(UpTypes)
          BY <1>0 DEF TypeCcm, TypeThread
        <4>5. QED
          BY <4>1, <4>2, <4>3, <4>4, Popped
      <3>2. QED
        BY <1>3, <2>1, <3>1
    <2>3. CASE ThreadConnect(c) \/ ThreadRead(c) \/ ThreadEof(c) \/ ThreadEnds(c)
                 \/ ThreadBreaks(c) \/ ThreadFindsNone(c) \/ ThreadReadOnly(c)
      <3>1. UNCHANGED <<up, outgoing>> /\ (~wantWrite[cC] => ~wantWrite'[cC])
        BY <1>0, <2>3 DEF ThreadConnect, ThreadRead, ThreadEof, ThreadEnds, ThreadBreaks,
                          ThreadFindsNone, ThreadReadOnly, wireVars, TypeThread, TypeMain
      <3>2. QED
        BY <1>3, <2>1, <3>1 DEF Pile, Unused
    <2>4. QED
      BY <1>4, <2>2, <2>3 DEF Thread
  <1>5. ASSUME NEW c \in Conns, Ccm(c) PROVE Pile'
    <2>1. UNCHANGED <<mainVars, outgoing, wantWrite>> /\ \A d \in Conns \ {c} : up'[d] = up[d]
      BY <1>5, CcmIs DEF threadVars
    <2>2. CASE CcmReceive(c) /\ c = cC
      <3>1. ASSUME ~orphaned, ~Known(cC), ~Known(cC)'
            PROVE  First(up'[cC]) /\ (Registers(up'[cC]) \/ Covered(outgoing'))
        <4>1. up[c] # <<>> /\ up'[c] = Tail(up[c]) /\ up[c] \in Seq(UpTypes)
          BY <1>0, <2>2 DEF CcmReceive, TypeCcm
        <4>2. Head(up[c]) # "REGISTER_REQ"
          <5>1. CASE CcmRegister(c)
            BY <2>1, <2>2, <3>1, <5>1 DEF CcmRegister, Known, mainVars
          <5>2. CASE CcmAnswer(c)
            BY <5>2 DEF CcmAnswer
          <5>3. CASE CcmDrop(c)
            BY <5>3 DEF CcmDrop
          <5>4. QED
            BY <2>2, <5>1, <5>2, <5>3 DEF CcmReceive
        <4>3. First(up[c]) /\ (Registers(up[c]) \/ Covered(outgoing))
          BY <2>2, <3>1, <4>1 DEF Pile, Unused
        <4>4. QED
          BY <2>1, <2>2, <4>1, <4>2, <4>3, Served
      <3>2. QED
        BY <1>3, <2>1, <3>1
    <2>3. CASE ~(CcmReceive(c) /\ c = cC)
      <3>1. up'[cC] = up[cC]
        BY <1>0, <1>5, <2>1, <2>3 DEF Ccm, CcmAccept, CcmConfigures, CcmAsksShutdown,
           CcmSeesEof,
                                      wireVars, TypeMain
      <3>2. QED
        BY <1>3, <2>1, <3>1 DEF Pile, Unused
    <2>4. QED
      BY <2>2, <2>3
  <1>6. CASE CcmCrash \/ CcmStart
    <2>1. UNCHANGED <<mainVars, outgoing, wantWrite, up>>
      BY <1>6 DEF CcmCrash, CcmStart, threadVars, wireVars
    <2>2. QED
      BY <1>3, <2>1 DEF Pile, Unused
  <1>7. QED
    BY <1>2, <1>4, <1>5, <1>6 DEF Next

-----------------------------------------------------------------------------
(***************************************************************************)
(* What has come and not been taken.                                       *)
(***************************************************************************)
LEMMA InTurnKept ==
    ASSUME NEW q \in Seq(DownMsgs), NEW c, InTurn(q, c)
    PROVE  /\ q # <<>> => InTurn(Tail(q), c) /\ Head(q).conn = c
           /\ q # <<>> /\ Head(q).type = "DROP_PEER" => Tail(q) = <<>>
           /\ \A m \in DownMsgs :
                /\ m.conn = c
                /\ \A i \in DOMAIN q : q[i].type # "DROP_PEER"
                => InTurn(Append(q, m), c)
  <1>1. CASE q # <<>>
    <2>1. /\ Head(q) = q[1] /\ Len(q) \in Nat /\ Len(q) > 0 /\ Len(Tail(q)) = Len(q) - 1
          /\ DOMAIN q = 1 .. Len(q) /\ DOMAIN Tail(q) = 1 .. Len(q) - 1
          /\ \A i \in 1 .. Len(q) - 1 : Tail(q)[i] = q[i + 1]
          /\ Tail(q) = <<>> <=> Len(q) = 1
      BY <1>1, Shortened
    <2>2. \A i \in 1 .. Len(q) - 1 : i + 1 \in 1 .. Len(q) /\ (i + 1 = Len(q) <=> i = Len(q) - 1)
      BY <2>1
    <2>3. InTurn(Tail(q), c)
      BY <2>1, <2>2 DEF InTurn
    <2>4. 1 \in DOMAIN q
      BY <2>1
    <2>5. QED
      BY <2>1, <2>3, <2>4 DEF InTurn
  <1>2. ASSUME NEW m \in DownMsgs, m.conn = c, \A i \in DOMAIN q : q[i].type # "DROP_PEER"
        PROVE  InTurn(Append(q, m), c)
    <2>1. /\ Len(q) \in Nat /\ Len(Append(q, m)) = Len(q) + 1
          /\ DOMAIN Append(q, m) = 1 .. Len(q) + 1 /\ DOMAIN q = 1 .. Len(q)
          /\ \A i \in 1 .. Len(q) : Append(q, m)[i] = q[i]
          /\ Append(q, m)[Len(q) + 1] = m
      BY Appended
    <2>2. ASSUME NEW i \in 1 .. Len(q) + 1, i # Len(q) + 1
          PROVE  i \in DOMAIN q /\ Append(q, m)[i] = q[i]
      BY <2>1, <2>2
    <2>3. QED
      BY <1>2, <2>1, <2>2 DEF InTurn
  <1>3. QED
    BY <1>1, <1>2

LEMMA TakenFirst ==
    ASSUME NEW u \in Seq(DownMsgs), u # <<>>
    PROVE  /\ ConnectFirst(u) => Head(u).type = "CONNECT_ACK" /\ OnlyDrops(Tail(u))
           /\ OnlyDrops(u) => Head(u).type = "DROP_PEER"
           /\ RegisterFirst(u) => Head(u).type = "REGISTER_ACK"
  <1>1. /\ Head(u) = u[1] /\ Len(u) \in Nat /\ Len(u) > 0
        /\ DOMAIN u = 1 .. Len(u) /\ DOMAIN Tail(u) = 1 .. Len(u) - 1
        /\ \A i \in 1 .. Len(u) - 1 : Tail(u)[i] = u[i + 1]
    BY Shortened
  <1>2. 1 \in DOMAIN u /\ \A i \in DOMAIN Tail(u) : i + 1 \in DOMAIN u /\ i + 1 # 1
    BY <1>1
  <1>3. QED
    BY <1>1, <1>2 DEF ConnectFirst, OnlyDrops, RegisterFirst

LEMMA OneMore ==
    ASSUME NEW u \in Seq(DownMsgs), NEW m \in DownMsgs
    PROVE  /\ u # <<>> /\ ConnectFirst(u) /\ m.type = "DROP_PEER" => ConnectFirst(Append(u, m))
           /\ u = <<>> /\ m.type = "CONNECT_ACK" => ConnectFirst(Append(u, m))
           /\ OnlyDrops(u) /\ m.type = "DROP_PEER" => OnlyDrops(Append(u, m))
           /\ u = <<>> /\ m.type = "REGISTER_ACK" => RegisterFirst(Append(u, m))
           /\ RegisterFirst(u) => RegisterFirst(Append(u, m))
  <1>1. /\ Append(u, m) # <<>> /\ Len(u) \in Nat
        /\ DOMAIN Append(u, m) = 1 .. Len(u) + 1 /\ DOMAIN u = 1 .. Len(u)
        /\ \A i \in 1 .. Len(u) : Append(u, m)[i] = u[i]
        /\ Append(u, m)[Len(u) + 1] = m
    BY Appended
  <1>2. \A i \in DOMAIN Append(u, m) : i = Len(u) + 1 \/ i \in DOMAIN u
    BY <1>1
  <1>3. CASE u = <<>>
    <2>1. Len(u) = 0
      BY <1>3
    <2>2. DOMAIN Append(u, m) = {1} /\ Append(u, m)[1] = m
      BY <1>1, <2>1
    <2>3. QED
      BY <1>1, <1>3, <2>2 DEF ConnectFirst, OnlyDrops, RegisterFirst
  <1>4. CASE u # <<>>
    <2>1. Len(u) > 0
      BY <1>1, <1>4, EmptySeq
    <2>2. 1 \in DOMAIN u /\ Append(u, m)[1] = u[1] /\ Len(u) + 1 # 1
      BY <1>1, <2>1
    <2>3. QED
      BY <1>1, <1>2, <1>4, <2>2 DEF ConnectFirst, OnlyDrops, RegisterFirst
  <1>5. QED
    BY <1>3, <1>4

LEMMA NothingYet ==
    /\ ConnectFirst(<<>>) /\ OnlyDrops(<<>>) /\ \A c \in Conns : InTurn(<<>>, c)
    /\ \A q \in Seq(DownMsgs) : q \o <<>> = q /\ <<>> \o q = q
  BY DEF ConnectFirst, OnlyDrops, InTurn

-----------------------------------------------------------------------------
(***************************************************************************)
(* The CONFIG_SETs.                                                        *)
(***************************************************************************)
IsSet(m, c) == m.type = "CONFIG_SET" /\ m.conn = c

LEMMA SameNumbers ==
    ASSUME NEW q, NEW r, NEW S, NEW T,
           \A i \in S : \E j \in T : r[i].n = q[j].n,
           \A j \in T : \E i \in S : r[i].n = q[j].n
    PROVE  {r[i].n : i \in S} = {q[j].n : j \in T}
  OBVIOUS

LEMMA OtherAdded ==
    ASSUME NEW a, NEW q \in Seq(DownMsgs), NEW c, NEW s, NEW m \in DownMsgs,
           GoesOn(a, q, c, s), ~IsSet(m, c)
    PROVE  GoesOn(a, Append(q, m), c, s)
  <1>1. /\ Len(q) \in Nat /\ DOMAIN Append(q, m) = 1 .. Len(q) + 1 /\ DOMAIN q = 1 .. Len(q)
        /\ \A i \in 1 .. Len(q) : Append(q, m)[i] = q[i]
        /\ Append(q, m)[Len(q) + 1] = m
    BY Appended
  <1>2. /\ SetsIn(Append(q, m), c) = SetsIn(q, c)
        /\ \A i \in SetsIn(q, c) : Append(q, m)[i] = q[i]
    BY <1>1 DEF SetsIn, IsSet
  <1>3. {Append(q, m)[i].n : i \in SetsIn(Append(q, m), c)} = {q[i].n : i \in SetsIn(q, c)}
    BY <1>2
  <1>4. QED
    BY <1>2, <1>3 DEF GoesOn

LEMMA SetAdded ==
    ASSUME NEW a \in Seq(Nat), NEW q \in Seq(DownMsgs), NEW c, NEW s \in Nat, NEW m \in DownMsgs,
           GoesOn(a, q, c, s), Len(a) <= s, IsSet(m, c), m.n = s + 1
    PROVE  GoesOn(a, Append(q, m), c, s + 1)
  <1>1. /\ Len(q) \in Nat /\ DOMAIN Append(q, m) = 1 .. Len(q) + 1 /\ DOMAIN q = 1 .. Len(q)
        /\ \A i \in 1 .. Len(q) : Append(q, m)[i] = q[i]
        /\ Append(q, m)[Len(q) + 1] = m
    BY Appended
  <1> DEFINE r == Append(q, m)
             e == Len(q) + 1
  <1>2. /\ e \in Nat /\ r[e] = m /\ SetsIn(r, c) = SetsIn(q, c) \cup {e}
        /\ \A i \in SetsIn(q, c) : r[i] = q[i] /\ i < e /\ i \in Nat
    BY <1>1 DEF SetsIn, IsSet
  <1> HIDE DEF r, e
  <1>3. PICK l \in Nat : l = Len(a)
    OBVIOUS
  <1>4. /\ {q[i].n : i \in SetsIn(q, c)} = l + 1 .. s
        /\ \A i, j \in SetsIn(q, c) : i < j => q[i].n < q[j].n
        /\ a = [n \in 1 .. l |-> n]
    BY <1>3 DEF GoesOn
  <1>5. {r[i].n : i \in SetsIn(r, c)} = {q[i].n : i \in SetsIn(q, c)} \cup {s + 1}
    <2>1. \A i \in SetsIn(r, c) : r[i].n = s + 1 \/ (i \in SetsIn(q, c) /\ r[i].n = q[i].n)
      BY <1>2
    <2>2. e \in SetsIn(r, c) /\ r[e].n = s + 1
      BY <1>2
    <2>3. \A i \in SetsIn(q, c) : i \in SetsIn(r, c) /\ r[i].n = q[i].n
      BY <1>2
    <2>4. QED
      BY <2>1, <2>2, <2>3
  <1>6. {r[i].n : i \in SetsIn(r, c)} = l + 1 .. s + 1
    <2>1. l <= s
      BY <1>3
    <2>2. (l + 1 .. s) \cup {s + 1} = l + 1 .. s + 1
      BY <2>1
    <2>3. QED
      BY <1>4, <1>5, <2>2
  <1>7. ASSUME NEW i \in SetsIn(r, c), NEW j \in SetsIn(r, c), i < j
        PROVE  r[i].n < r[j].n
    <2>1. i \in SetsIn(q, c) /\ r[i] = q[i]
      BY <1>2, <1>7
    <2>2. q[i].n \in l + 1 .. s
      BY <1>4, <2>1
    <2>3. CASE j = e
      BY <1>2, <2>1, <2>2, <2>3
    <2>4. CASE j # e
      <3>1. j \in SetsIn(q, c) /\ r[j] = q[j]
        BY <1>2, <2>4
      <3>2. QED
        BY <1>4, <1>7, <2>1, <3>1
    <2>5. QED
      BY <2>3, <2>4
  <1>8. QED
    BY <1>3, <1>4, <1>6, <1>7 DEF GoesOn, r

LEMMA OtherTaken ==
    ASSUME NEW a, NEW q \in Seq(DownMsgs), NEW c, NEW s, q # <<>>,
           GoesOn(a, q, c, s), ~IsSet(Head(q), c)
    PROVE  GoesOn(a, Tail(q), c, s)
  <1> DEFINE r == Tail(q)
  <1>1. /\ Head(q) = q[1] /\ Len(q) \in Nat /\ Len(q) > 0
        /\ DOMAIN q = 1 .. Len(q) /\ DOMAIN r = 1 .. Len(q) - 1
        /\ \A i \in 1 .. Len(q) - 1 : r[i] = q[i + 1]
    BY Shortened
  <1> HIDE DEF r
  <1>2. /\ \A i \in SetsIn(r, c) : i \in Nat /\ i + 1 \in SetsIn(q, c) /\ r[i] = q[i + 1]
        /\ \A i \in SetsIn(q, c) : i \in Nat /\ i - 1 \in SetsIn(r, c) /\ r[i - 1] = q[i]
    <2>1. 1 \notin SetsIn(q, c)
      BY <1>1 DEF SetsIn, IsSet
    <2>2. \A i \in SetsIn(q, c) : i \in 1 .. Len(q) /\ i # 1
      BY <1>1, <2>1 DEF SetsIn
    <2>3. \A i \in 1 .. Len(q) : i # 1 => i - 1 \in DOMAIN r /\ r[i - 1] = q[i]
      BY <1>1
    <2>4. \A i \in DOMAIN r : i \in Nat /\ i + 1 \in DOMAIN q /\ r[i] = q[i + 1]
      BY <1>1
    <2>5. QED
      BY <2>2, <2>3, <2>4 DEF SetsIn
  <1>3. {r[i].n : i \in SetsIn(r, c)} = {q[i].n : i \in SetsIn(q, c)}
    BY <1>2, SameNumbers
  <1>4. ASSUME NEW i \in SetsIn(r, c), NEW j \in SetsIn(r, c), i < j
        PROVE  r[i].n < r[j].n
    <2>1. i + 1 < j + 1 /\ i + 1 \in SetsIn(q, c) /\ j + 1 \in SetsIn(q, c)
      BY <1>2, <1>4
    <2>2. QED
      BY <1>2, <2>1 DEF GoesOn
  <1>5. QED
    BY <1>3, <1>4 DEF GoesOn, r

LEMMA SetTaken ==
    ASSUME NEW a \in Seq(Nat), NEW q \in Seq(DownMsgs), NEW c, NEW s \in Nat, q # <<>>,
           GoesOn(a, q, c, s), Len(a) <= s, IsSet(Head(q), c)
    PROVE  /\ GoesOn(Append(a, Head(q).n), Tail(q), c, s)
           /\ Len(Append(a, Head(q).n)) <= s
  <1> DEFINE r == Tail(q)
  <1>1. /\ Head(q) = q[1] /\ Len(q) \in Nat /\ Len(q) > 0
        /\ DOMAIN q = 1 .. Len(q) /\ DOMAIN r = 1 .. Len(q) - 1
        /\ \A i \in 1 .. Len(q) - 1 : r[i] = q[i + 1]
    BY Shortened
  <1>2. PICK l \in Nat : l = Len(a)
    OBVIOUS
  <1> HIDE DEF r
  <1>3. /\ {q[i].n : i \in SetsIn(q, c)} = l + 1 .. s
        /\ \A i, j \in SetsIn(q, c) : i < j => q[i].n < q[j].n
        /\ a = [n \in 1 .. l |-> n]
    BY <1>2 DEF GoesOn
  <1>4. 1 \in SetsIn(q, c)
    BY <1>1 DEF SetsIn, IsSet
  <1>5. /\ \A i \in SetsIn(r, c) : i \in Nat /\ i + 1 \in SetsIn(q, c) /\ r[i] = q[i + 1] /\ 1 < i + 1
        /\ \A i \in SetsIn(q, c) : i # 1 =>
             i \in Nat /\ 1 < i /\ i - 1 \in SetsIn(r, c) /\ r[i - 1] = q[i]
    <2>1. \A i \in SetsIn(q, c) : i \in 1 .. Len(q)
      BY <1>1 DEF SetsIn
    <2>2. \A i \in 1 .. Len(q) : i # 1 => i - 1 \in DOMAIN r /\ r[i - 1] = q[i] /\ 1 < i
      BY <1>1
    <2>3. \A i \in DOMAIN r : i \in Nat /\ i + 1 \in DOMAIN q /\ r[i] = q[i + 1] /\ 1 < i + 1
      BY <1>1
    <2>4. QED
      BY <2>1, <2>2, <2>3 DEF SetsIn
  <1>6. q[1].n \in l + 1 .. s
    BY <1>3, <1>4
  <1>7. l + 1 \in l + 1 .. s
    BY <1>2, <1>6
  <1>8. PICK k \in SetsIn(q, c) : q[k].n = l + 1
    BY <1>3, <1>7
  <1>9. q[1].n = l + 1
    <2>1. k # 1 => q[1].n < l + 1
      BY <1>3, <1>4, <1>5, <1>8
    <2>2. QED
      BY <1>2, <1>6, <1>8, <2>1
  <1>10. {r[i].n : i \in SetsIn(r, c)} = l + 2 .. s
    <2>1. ASSUME NEW i \in SetsIn(r, c) PROVE r[i].n \in l + 2 .. s
      <3>1. q[i + 1].n \in l + 1 .. s /\ l + 1 < q[i + 1].n
        BY <1>3, <1>4, <1>5, <1>9
      <3>2. QED
        BY <1>5, <3>1
    <2>2. ASSUME NEW x \in l + 2 .. s PROVE x \in {r[i].n : i \in SetsIn(r, c)}
      <3>1. x \in l + 1 .. s /\ x # l + 1
        BY <1>2
      <3>2. PICK j \in SetsIn(q, c) : q[j].n = x
        BY <1>3, <3>1
      <3>3. j # 1
        BY <1>9, <3>1, <3>2
      <3>4. QED
        BY <1>5, <3>2, <3>3
    <2>3. QED
      BY <2>1, <2>2
  <1>11. ASSUME NEW i \in SetsIn(r, c), NEW j \in SetsIn(r, c), i < j
        PROVE  r[i].n < r[j].n
    <2>1. i + 1 < j + 1 /\ i + 1 \in SetsIn(q, c) /\ j + 1 \in SetsIn(q, c)
      BY <1>5, <1>11
    <2>2. QED
      BY <1>3, <1>5, <2>1
  <1>12. /\ Append(a, l + 1) = [n \in 1 .. l + 1 |-> n]
         /\ Len(Append(a, l + 1)) = l + 1
    <2>1. /\ DOMAIN Append(a, l + 1) = 1 .. l + 1 /\ Len(Append(a, l + 1)) = l + 1
          /\ \A i \in 1 .. l : Append(a, l + 1)[i] = a[i]
          /\ Append(a, l + 1)[l + 1] = l + 1
          /\ Append(a, l + 1) \in Seq(Nat)
      BY <1>2, Appended
    <2>2. \A i \in 1 .. l + 1 : Append(a, l + 1)[i] = i
      BY <1>3, <2>1
    <2>3. Append(a, l + 1) = [i \in DOMAIN Append(a, l + 1) |-> Append(a, l + 1)[i]]
      BY <2>1
    <2>4. QED
      BY <2>1, <2>2, <2>3
  <1>13. l + 1 + 1 = l + 2 /\ l + 1 <= s
    BY <1>2, <1>6
  <1>14. Head(q).n = l + 1
    BY <1>1, <1>9
  <1>15. QED
    BY <1>10, <1>11, <1>12, <1>13, <1>14 DEF GoesOn, r

\* Messages of other connections do not matter.
LEMMA OthersBefore ==
    ASSUME NEW a, NEW q \in Seq(DownMsgs), NEW r \in Seq(DownMsgs), NEW c, NEW d, NEW s,
           c # d, InTurn(q, d), GoesOn(a, r, c, s)
    PROVE  GoesOn(a, q \o r, c, s)
  <1>1. /\ Len(q) \in Nat /\ Len(r) \in Nat
        /\ DOMAIN (q \o r) = 1 .. Len(q) + Len(r)
        /\ DOMAIN q = 1 .. Len(q) /\ DOMAIN r = 1 .. Len(r)
        /\ \A i \in 1 .. Len(q) : (q \o r)[i] = q[i]
        /\ \A i \in 1 .. Len(r) : (q \o r)[Len(q) + i] = r[i]
    BY Joined
  <1> DEFINE t == q \o r
  <1>2. PICK l \in Nat, k \in Nat : l = Len(q) /\ k = Len(r)
    BY <1>1
  <1> HIDE DEF t
  <1>3. /\ \A i \in SetsIn(r, c) : i \in Nat /\ l + i \in SetsIn(t, c) /\ r[i] = t[l + i]
        /\ \A i \in SetsIn(t, c) : i \in Nat /\ i - l \in SetsIn(r, c) /\ t[i] = r[i - l]
    <2>1. \A i \in SetsIn(t, c) : i \notin 1 .. l
      BY <1>1, <1>2 DEF SetsIn, InTurn, t
    <2>2. \A i \in DOMAIN t : i \notin 1 .. l => i - l \in 1 .. Len(r) /\ l + (i - l) = i /\ i \in Nat
      <3>1. DOMAIN t = 1 .. l + k
        BY <1>1, <1>2 DEF t
      <3>2. \A i \in 1 .. l + k : i \notin 1 .. l => i - l \in 1 .. k /\ l + (i - l) = i /\ i \in Nat
        OBVIOUS
      <3>3. QED
        BY <1>2, <3>1, <3>2
    <2>3. \A i \in 1 .. Len(r) : l + i \in DOMAIN t /\ r[i] = t[l + i] /\ i \in Nat
      BY <1>1, <1>2 DEF t
    <2>4. \A i \in SetsIn(t, c) : i \in Nat /\ i - l \in 1 .. Len(r) /\ t[i] = r[i - l]
      <3>1. ASSUME NEW i \in SetsIn(t, c)
            PROVE  i \in Nat /\ i - l \in 1 .. Len(r) /\ t[i] = r[i - l]
        <4>1. i \in DOMAIN t
          BY DEF SetsIn
        <4>2. i - l \in 1 .. Len(r) /\ l + (i - l) = i /\ i \in Nat
          BY <2>1, <2>2, <4>1
        <4>3. QED
          BY <2>3, <4>2
      <3>2. QED
        BY <3>1
    <2>5. \A i \in SetsIn(t, c) : t[i].type = "CONFIG_SET" /\ t[i].conn = c
      BY DEF SetsIn
    <2>6. \A i \in SetsIn(t, c) : i - l \in SetsIn(r, c)
      BY <1>1, <2>4, <2>5 DEF SetsIn
    <2>7. QED
      BY <1>1, <2>3, <2>4, <2>6 DEF SetsIn
  <1>4. {t[i].n : i \in SetsIn(t, c)} = {r[i].n : i \in SetsIn(r, c)}
    BY <1>3, SameNumbers
  <1>5. ASSUME NEW i \in SetsIn(t, c), NEW j \in SetsIn(t, c), i < j
        PROVE  t[i].n < t[j].n
    <2>1. i - l < j - l
      BY <1>2, <1>3, <1>5
    <2>2. QED
      BY <1>3, <2>1 DEF GoesOn
  <1>6. QED
    BY <1>4, <1>5 DEF GoesOn, t

-----------------------------------------------------------------------------
(***************************************************************************)
(* As long as no answer is late.                                           *)
(***************************************************************************)
LEMMA UnreadType ==
    ASSUME TypeOK
    PROVE  /\ cC \in Conns /\ ccmQ \in Seq(DownMsgs) /\ down[cC] \in Seq(DownMsgs)
           /\ Unread \in Seq(DownMsgs)
  BY Joined DEF TypeOK, Unread

LEMMA UnreadTaken ==
    ASSUME TypeOK, ccmQ # <<>>, ccmQ' = Tail(ccmQ), UNCHANGED <<down, cC>>
    PROVE  Unread' = Tail(Unread) /\ Unread # <<>> /\ Head(Unread) = Head(ccmQ)
  <1>1. Unread' = Tail(ccmQ) \o down[cC]
    BY DEF Unread
  <1>2. QED
    BY <1>1, UnreadType, TailJoined DEF Unread

LEMMA UnreadPut ==
    ASSUME TypeOK, NEW m \in DownMsgs, UNCHANGED <<ccmQ, cC>>, down'[cC] = Append(down[cC], m)
    PROVE  Unread' = Append(Unread, m)
  <1>1. Unread' = ccmQ \o Append(down[cC], m)
    BY DEF Unread
  <1>2. QED
    BY <1>1, UnreadType, JoinedMore DEF Unread

LEMMA UnreadPutTwo ==
    ASSUME TypeOK, UNCHANGED <<ccmQ, cC>>, PutsTwo(cC)
    PROVE  /\ Unread' = Append(Append(Unread, Msg("REGISTER_ACK", cC)), NextSet(cC))
           /\ Msg("REGISTER_ACK", cC) \in DownMsgs /\ NextSet(cC) \in DownMsgs
           /\ Append(Unread, Msg("REGISTER_ACK", cC)) \in Seq(DownMsgs)
  <1>1. TypeCcm /\ cC \in Conns
    BY TypeParts, UnreadType
  <1>2. Msg("REGISTER_ACK", cC) \in DownMsgs /\ NextSet(cC) \in DownMsgs
    BY <1>1, MsgType, PutsIs DEF Answers
  <1>3. down'[cC] = Append(Append(down[cC], Msg("REGISTER_ACK", cC)), NextSet(cC))
    BY <1>1 DEF PutsTwo, TypeCcm
  <1>4. Unread' = ccmQ \o Append(Append(down[cC], Msg("REGISTER_ACK", cC)), NextSet(cC))
    BY <1>3 DEF Unread
  <1>5. Unread' = Append(Append(ccmQ \o down[cC], Msg("REGISTER_ACK", cC)), NextSet(cC))
    <2>1. ccmQ \in Seq(DownMsgs) /\ down[cC] \in Seq(DownMsgs)
      BY UnreadType
    <2>2. ccmQ \o Append(Append(down[cC], Msg("REGISTER_ACK", cC)), NextSet(cC))
            = Append(Append(ccmQ \o down[cC], Msg("REGISTER_ACK", cC)), NextSet(cC))
      BY <1>2, <2>1, JoinedTwo
    <2>3. QED
      BY <1>4, <2>2
  <1>6. QED
    BY <1>2, <1>5, UnreadType, Appended DEF Unread

LEMMA UnreadRead ==
    ASSUME TypeOK, ThreadRead(cC)
    PROVE  Unread' = Unread /\ ccmQ' = Append(ccmQ, Head(down[cC])) /\ Head(down[cC]) \in DownMsgs
  <1>1. /\ down[cC] # <<>> /\ cC' = cC /\ ccmQ' = Append(ccmQ, Head(down[cC]))
        /\ down'[cC] = Tail(down[cC])
    BY DEF ThreadRead, TypeOK, mainVars
  <1>2. Unread' = Append(ccmQ, Head(down[cC])) \o Tail(down[cC])
    BY <1>1 DEF Unread
  <1>3. QED
    BY <1>1, <1>2, UnreadType, HeadMoved, Shortened DEF Unread

LEMMA UnreadEof ==
    ASSUME TypeOK, ThreadEof(cC)
    PROVE  /\ Unread' = Append(Unread, Msg("DROP_PEER", cC)) /\ Msg("DROP_PEER", cC) \in DownMsgs
           /\ ccmQ' = Append(ccmQ, Msg("DROP_PEER", cC))
  <1>1. /\ down[cC] = <<>> /\ cC' = cC /\ ccmQ' = Append(ccmQ, Msg("DROP_PEER", cC))
        /\ down' = down
    BY DEF ThreadEof, mainVars, wireVars
  <1>2. Msg("DROP_PEER", cC) \in DownMsgs
    BY UnreadType, MsgType
  <1>3. Unread = ccmQ
    BY <1>1, UnreadType, NothingYet DEF Unread
  <1>4. ccmQ' \in Seq(DownMsgs)
    BY <1>1, <1>2, UnreadType, Appended
  <1>5. Unread' = ccmQ'
    BY <1>1, <1>4, NothingYet DEF Unread
  <1>6. QED
    BY <1>1, <1>2, <1>3, <1>5

\* What came is of cC, whose loss is told when its thread has ended.
LEMMA Quiet ==
    ASSUME TypeOK, EndsAgree, MessagesAgree, Timely
    PROVE  /\ \A i \in DOMAIN ccmQ :
                /\ thread[cC] \notin {"none", "connecting", "refused"}
                /\ server[cC] # "none"
                /\ ccmQ[i].type = "DROP_PEER" => thread[cC] \in {"ending", "ended"}
           /\ ccmQ # <<>> => /\ thread[cC] \notin {"none", "connecting", "refused"}
                             /\ server[cC] # "none" /\ Head(ccmQ).conn = cC
           /\ server[cC] = "none" => Unread = <<>>
           /\ server[cC] \in {"none", "open"} /\ OnlyDrops(Unread) => Unread = <<>>
  <1>0. ccmQ \in Seq(ComeMsgs) /\ down[cC] \in Seq(WireMsgs(cC)) /\ InTurn(ccmQ, cC) /\ cC \in Conns
    BY UnreadType DEF MessagesAgree, Timely
  <1>1. \A i \in DOMAIN ccmQ : ccmQ[i] \in ComeMsgs
    BY <1>0
  <1>2. \A i \in DOMAIN ccmQ :
          /\ thread[cC] \notin {"none", "connecting", "refused"}
          /\ server[cC] # "none"
          /\ ccmQ[i].type = "DROP_PEER" => thread[cC] \in {"ending", "ended"}
    BY <1>0, <1>1 DEF ComeMsgs, HasCome, InTurn
  <1>3. ccmQ # <<>> => 1 \in DOMAIN ccmQ /\ Head(ccmQ).conn = cC
    BY <1>0, UnreadType, Shortened, InTurnKept
  <1>4. server[cC] = "none" => Unread = <<>>
    <2>1. ASSUME server[cC] = "none" PROVE ccmQ = <<>> /\ down[cC] = <<>>
      BY <1>0, <1>2, <1>3, <2>1 DEF EndsAgree
    <2>2. QED
      BY <2>1, NothingYet DEF Unread
  <1>5. ASSUME server[cC] = "open", OnlyDrops(Unread), Unread # <<>> PROVE FALSE
    <2>1. PICK l \in Nat, k \in Nat : l = Len(ccmQ) /\ k = Len(down[cC])
      BY UnreadType
    <2>2. /\ DOMAIN Unread = 1 .. l + k /\ DOMAIN ccmQ = 1 .. l /\ DOMAIN down[cC] = 1 .. k
          /\ \A i \in 1 .. l : Unread[i] = ccmQ[i]
          /\ \A i \in 1 .. k : Unread[l + i] = down[cC][i]
      BY <2>1, UnreadType, Joined DEF Unread
    <2>3. 1 \in 1 .. l + k
      BY <1>5, <2>2, UnreadType, Shortened
    <2>4. CASE l > 0
      <3>1. 1 \in 1 .. l /\ 1 \in DOMAIN ccmQ
        BY <2>2, <2>4
      <3>2. ccmQ[1].type = "DROP_PEER"
        BY <1>5, <2>2, <2>3, <3>1 DEF OnlyDrops
      <3>3. QED
        BY <1>0, <1>2, <1>5, <3>1, <3>2 DEF EndsAgree
    <2>5. CASE l = 0
      <3>1. 1 \in 1 .. k /\ l + 1 = 1
        BY <2>3, <2>5
      <3>2. down[cC][1].type = "DROP_PEER"
        BY <1>5, <2>2, <2>3, <3>1 DEF OnlyDrops
      <3>3. down[cC][1] \in WireMsgs(cC)
        BY <1>0, <2>2, <3>1
      <3>4. QED
        BY <3>2, <3>3 DEF WireMsgs, OnWire
    <2>6. QED
      BY <2>1, <2>4, <2>5
  <1>6. QED
    BY <1>2, <1>3, <1>4, <1>5

\* Out of a wait little has to be shown.
LEMMA OutOfWait ==
    ASSUME ~orphaned, UNCHANGED <<cC, orphaned, thread>>, InTurn(ccmQ', cC),
           pc' \in {"loop", "check"} /\ ~connected' => ccmQ' = <<>> /\ ~Alive(cC),
           pc' # "wait" \/ wait' \notin {"CONNECT_ACK", "REGISTER_ACK"} \/ (wait' = "REGISTER_ACK" /\ inStart')
    PROVE  Timely'
  BY DEF Timely, Alive

LEMMA TimelyReply ==
    ASSUME TypeOK, EndsAgree, MessagesAgree, MainKnows, Timely, Answered \/ Timeout,
           lates = 0, lates' = 0
    PROVE  Timely'
  <1>0. TypeThread /\ TypeMain /\ cC \in Conns /\ ccmQ \in Seq(DownMsgs)
    BY TypeParts, UnreadType
  <1>1. /\ pc = "wait" /\ UNCHANGED <<cC, orphaned, thread, server, registered, down, up, ccmUp>>
        /\ ccmQ' = ccmQ \/ (ccmQ # <<>> /\ ccmQ' = Tail(ccmQ))
    BY <1>0, RepliesIs DEF wireVars, ccmVars
  <1>2. InTurn(ccmQ', cC) /\ ~orphaned
    BY <1>0, <1>1, InTurnKept DEF Timely
  <1>3. CASE ccmQ = <<>> /\ Timeout /\ GiveUp
    <2>1. ~Coming
      BY <1>3 DEF Timeout
    <2>2. pc' \in {"loop", "check"} /\ ccmQ' = <<>> /\ connected' = (connected \/ inStart)
      BY <1>1, <1>3 DEF GiveUp
    <2>3. ASSUME ~connected', Alive(cC) PROVE FALSE
      <3>1. ~connected /\ wait = "CONNECT_ACK"
        BY <1>0, <1>1, <2>2, <2>3 DEF MainKnows, TypeMain
      <3>2. thread[cC] = "running" /\ down[cC] = <<>> /\ server[cC] \notin {"closed", "reset"}
        BY <2>1, <2>3 DEF Coming, Alive
      <3>3. Unread = <<>>
        BY <1>3, <3>2, NothingYet DEF Unread
      <3>4. server[cC] = "none"
        BY <1>1, <3>1, <3>2, <3>3 DEF Timely
      <3>5. ccmUp
        BY <1>0, <3>2, <3>4 DEF EndsAgree
      <3>6. QED
        BY <2>1, <3>2, <3>4, <3>5 DEF Coming
    <2>4. QED
      BY <1>1, <1>2, <2>2, <2>3, OutOfWait
  <1>4. CASE SetConfigDone
    <2>1. pc' = "wait" /\ wait' = "CONFIG_SET"
      BY <1>0, <1>4, SendIs, Strings DEF SetConfigDone
    <2>2. QED
      BY <1>1, <1>2, <2>1, OutOfWait
  <1>5. ASSUME ccmQ # <<>>, ccmQ' = Tail(ccmQ)
        PROVE  /\ Unread' = Tail(Unread) /\ Unread # <<>> /\ Head(Unread) = Head(ccmQ)
               /\ Unread \in Seq(DownMsgs) /\ server[cC] # "none"
    BY <1>1, <1>5, UnreadTaken, UnreadType, Quiet
  <1>6. CASE ccmQ # <<>> /\ ccmQ' = Tail(ccmQ) /\ Head(ccmQ).type # wait /\ GiveUp
    <2>1. pc' \in {"loop", "check"} /\ connected' = (connected \/ inStart)
      BY <1>1, <1>6 DEF GiveUp
    <2>2. ASSUME ~connected' PROVE FALSE
      <3>1. wait = "CONNECT_ACK"
        BY <1>0, <1>1, <2>1, <2>2 DEF MainKnows, TypeMain
      <3>2. QED
        BY <1>1, <1>5, <1>6, <3>1, TakenFirst DEF Timely
    <2>3. QED
      BY <1>1, <1>2, <2>1, <2>2, OutOfWait
  <1>7. CASE ccmQ # <<>> /\ ccmQ' = Tail(ccmQ) /\ AckConnect
    <2>1. wait = "CONNECT_ACK" /\ wait' = "REGISTER_ACK" /\ pc' = "wait"
      BY <1>0, <1>7, SendIs, Strings DEF AckConnect
    <2>2. ConnectFirst(Unread) /\ cC \notin registered
      BY <1>1, <2>1 DEF Timely
    <2>3. OnlyDrops(Unread')
      BY <1>5, <1>7, <2>2, TakenFirst
    <2>4. server'[cC'] # "none" /\ cC' \notin registered'
      BY <1>1, <1>5, <1>7, <2>2
    <2>5. QED
      BY <1>1, <1>2, <2>1, <2>3, <2>4 DEF Timely
  <1>8. CASE AckRegister
    <2>1. connected /\ connected' = connected
      BY <1>1, <1>8 DEF AckRegister, MainKnows
    <2>2. pc' # "wait" \/ wait' \in {"CONFIG_ACK", "CONFIG_SET"}
      BY <1>8 DEF AckRegister
    <2>3. QED
      BY <1>1, <1>2, <2>1, <2>2, OutOfWait
  <1>9. CASE AckConfig(Head(ccmQ))
    <2>1. connected /\ connected' = connected
      BY <1>1, <1>9 DEF AckConfig, MainKnows
    <2>2. wait' = "none"
      BY <1>9 DEF AckConfig
    <2>3. QED
      BY <1>1, <1>2, <2>1, <2>2, OutOfWait
  <1>10. QED
    BY <1>3, <1>4, <1>6, <1>7, <1>8, <1>9, ReplyIs

LEMMA TimelyMain ==
    ASSUME TypeOK, EndsAgree, MessagesAgree, MainKnows, Timely, Main, lates = 0, lates' = 0
    PROVE  Timely'
  <1>0. TypeThread /\ TypeMain /\ cC \in Conns /\ ccmQ \in Seq(DownMsgs)
    BY TypeParts, UnreadType
  <1>1. CASE Start \/ CheckReconnect
    <2>1. NewClient /\ UNCHANGED <<wantWrite, ccmQ, outgoing, up, down, server, registered>>
      BY <1>1 DEF Start, CheckReconnect, wireVars, ccmVars
    <2>2. ccmQ = <<>> /\ ~Alive(cC)
      <3>1. CASE Start
        BY <1>0, <3>1, Quiet DEF Start, MainKnows, Alive
      <3>2. CASE CheckReconnect
        BY <3>2 DEF CheckReconnect, Timely
      <3>3. QED
        BY <1>1, <3>1, <3>2
    <2>3. /\ cC' \in Conns /\ thread[cC'] \in {"none", "refused"} /\ ~orphaned'
          /\ pc' = "wait" /\ wait' = "CONNECT_ACK"
      BY <1>0, <2>1, <2>2, NewClientIs DEF Alive, Timely
    <2>4. server[cC'] = "none" /\ ~wantWrite[cC'] /\ up[cC'] = <<>> /\ down[cC'] = <<>>
          /\ cC' \notin registered
      BY <2>3 DEF EndsAgree
    <2>5. Unread' = <<>>
      <3>1. ccmQ' = <<>> /\ down'[cC'] = <<>>
        BY <2>1, <2>2, <2>4
      <3>2. QED
        BY <3>1, NothingYet DEF Unread
    <2>6. InTurn(ccmQ', cC') /\ ConnectFirst(Unread')
      BY <2>1, <2>2, <2>3, <2>5, NothingYet
    <2>7. QED
      BY <2>1, <2>3, <2>4, <2>6 DEF Timely
  <1>2. CASE Answered \/ Timeout
    BY <1>2, TimelyReply
  <1>3. ASSUME UNCHANGED <<cC, orphaned, thread>>
        PROVE  InTurn(ccmQ', cC) /\ ~orphaned
    <2>1. CASE ccmQ' = ccmQ
      BY <2>1 DEF Timely
    <2>2. CASE ccmQ # <<>> /\ ccmQ' = Tail(ccmQ)
      BY <1>0, <2>2, InTurnKept DEF Timely
    <2>3. QED
      BY <2>1, <2>2, MainIs DEF Timely
  <1>4. CASE Progress \/ AckShutdown \/ TakeShutdown \/ TakeConfig
    <2>1. UNCHANGED <<cC, orphaned, thread, connected>> /\ connected
      BY <1>4 DEF Progress, AckShutdown, TakeShutdown, TakeConfig, Take, MainKnows
    <2>2. pc' # "wait"
      <3>1. CASE Progress \/ AckShutdown \/ TakeConfig
        BY <3>1 DEF Progress, AckShutdown, TakeConfig, Send
      <3>2. CASE TakeShutdown
        BY <3>2 DEF TakeShutdown, Send
      <3>3. QED
        BY <1>4, <3>1, <3>2
    <2>3. QED
      BY <1>3, <2>1, <2>2, OutOfWait
  <1>5. CASE TakeDrop
    <2>1. UNCHANGED <<cC, orphaned, thread, pc>> /\ pc = "check"
      BY <1>5 DEF TakeDrop, Take
    <2>2. ccmQ # <<>> /\ Head(ccmQ).type = "DROP_PEER" /\ ccmQ' = Tail(ccmQ)
      BY <1>5 DEF TakeDrop, Take
    <2>3. Tail(ccmQ) = <<>>
      BY <1>0, <2>2, InTurnKept DEF Timely
    <2>4. ~Alive(cC)
      <3>1. 1 \in DOMAIN ccmQ /\ Head(ccmQ) = ccmQ[1]
        BY <1>0, <2>2, Shortened
      <3>2. QED
        BY <2>2, <3>1, Quiet DEF Alive
    <2>5. QED
      BY <1>3, <2>1, <2>2, <2>3, <2>4, OutOfWait
  <1>6. CASE Finish \/ CheckQueue \/ CheckDone \/ TakeOther \/ Activate
    <2>1. /\ UNCHANGED <<cC, orphaned, thread, connected>>
          /\ pc \in {"loop", "check", "activate"} /\ pc' \in {"loop", "check", "ended"}
          /\ ccmQ' = ccmQ \/ connected
      BY <1>6 DEF Finish, CheckQueue, CheckDone, TakeOther, Take, Activate, mainVars,
         threadVars
    <2>2. ~connected => ccmQ = <<>> /\ ~Alive(cC)
      BY <2>1 DEF Timely, MainKnows
    <2>3. QED
      BY <1>3, <2>1, <2>2, OutOfWait
  <1>7. CASE SendModify
    <2>1. /\ connected /\ pc' \in {pc, "dead"}
          /\ UNCHANGED <<wait, inStart, connected, cC, orphaned, thread, ccmQ, up, down, server,
                         registered>>
      BY <1>0, <1>7, ModifyIs DEF MainKnows, wireVars, ccmVars
    <2>2. Unread' = Unread
      BY <2>1 DEF Unread
    <2>3. pc = "wait" => wait # "CONNECT_ACK"
      BY <2>1 DEF MainKnows
    <2>4. QED
      BY <2>1, <2>2, <2>3 DEF Timely, Alive
  <1>8. QED
    BY <1>1, <1>2, <1>4, <1>5, <1>6, <1>7 DEF Main

LEMMA TimelyThread ==
    ASSUME TypeOK, EndsAgree, MessagesAgree, OneThread, Timely, NEW c \in Conns, Thread(c)
    PROVE  Timely'
  <1>0. TypeThread /\ TypeCcm /\ cC \in Conns /\ ccmQ \in Seq(DownMsgs) /\ Unread \in Seq(DownMsgs)
    BY TypeParts, UnreadType
  <1>1. UNCHANGED mainVars /\ ~orphaned
    BY OthersIs DEF Timely
  <1>2. \A d \in Conns : Alive(d)' => Alive(d)
    BY OthersIs
  <1>3. CASE ThreadConnect(c) \/ ThreadEnds(c) \/ ThreadFindsNone(c) \/ ThreadReadOnly(c)
    <2>1. /\ UNCHANGED <<ccmQ, up, down, server, registered>>
          /\ ~wantWrite[cC] => ~wantWrite'[cC]
      BY <1>0, <1>3 DEF ThreadConnect, ThreadEnds, ThreadFindsNone, ThreadReadOnly, wireVars,
         ccmVars, TypeThread
    <2>2. Unread' = Unread /\ cC' = cC
      BY <1>1, <2>1 DEF Unread, mainVars
    <2>3. ~Alive(cC) => ~Alive(cC)'
      BY <1>0, <1>2, <2>2 DEF Alive
    <2>4. QED
      BY <1>1, <2>1, <2>2, <2>3 DEF Timely, mainVars
  <1>4. CASE ThreadRead(c) \/ ThreadEof(c) \/ ThreadBreaks(c) \/ ThreadWrite(c)
    <2>1. c = cC /\ thread[c] = "running" /\ cC' = cC
      BY <1>1, <1>4 DEF OneThread, Alive, ThreadRead, ThreadEof, ThreadBreaks,
         ThreadWrite, Writable, mainVars
    <2>2. ~(pc \in {"loop", "check"} /\ ~connected)
      BY <2>1 DEF Timely, Alive
    <2>3. \A i \in DOMAIN ccmQ : ccmQ[i].type # "DROP_PEER"
      BY <2>1, Quiet
    <2>4. CASE ThreadRead(c)
      <3>1. /\ UNCHANGED <<up, server, registered, wantWrite>> /\ Unread' = Unread
            /\ ccmQ' = Append(ccmQ, Head(down[cC])) /\ Head(down[cC]) \in DownMsgs
        BY <2>1, <2>4, UnreadRead DEF ThreadRead, ccmVars
      <3>2. Head(down[cC]).conn = cC
        <4>1. down[cC] \in Seq(WireMsgs(cC)) /\ down[cC] # <<>>
          BY <1>0, <2>1, <2>4 DEF ThreadRead, MessagesAgree
        <4>2. Head(down[cC]) \in WireMsgs(cC)
          BY <4>1, Shortened
        <4>3. QED
          BY <4>2 DEF WireMsgs, OnWire
      <3>3. InTurn(ccmQ', cC)
        BY <1>0, <2>3, <3>1, <3>2, InTurnKept DEF Timely
      <3>4. QED
        BY <1>1, <2>1, <2>2, <3>1, <3>3 DEF Timely, mainVars
    <2>5. CASE ThreadEof(c)
      <3>1. /\ UNCHANGED <<up, server, registered, wantWrite>> /\ server[cC] = "closed"
            /\ Unread' = Append(Unread, Msg("DROP_PEER", cC))
            /\ ccmQ' = Append(ccmQ, Msg("DROP_PEER", cC)) /\ Msg("DROP_PEER", cC) \in DownMsgs
        BY <2>1, <2>5, UnreadEof DEF ThreadEof, wireVars, ccmVars
      <3>2. Msg("DROP_PEER", cC).conn = cC /\ Msg("DROP_PEER", cC).type = "DROP_PEER"
        BY DEF Msg
      <3>3. InTurn(ccmQ', cC)
        BY <1>0, <2>3, <3>1, <3>2, InTurnKept DEF Timely
      <3>4. Unread' # <<>>
        BY <1>0, <3>1, Appended
      <3>5. /\ Unread # <<>> /\ ConnectFirst(Unread) => ConnectFirst(Unread')
            /\ OnlyDrops(Unread) => OnlyDrops(Unread')
            /\ RegisterFirst(Unread) => RegisterFirst(Unread')
        BY <1>0, <3>1, <3>2, OneMore
      <3>6. pc = "wait" /\ wait = "CONNECT_ACK" => ConnectFirst(Unread')
        BY <3>1, <3>5 DEF Timely
      <3>7. QED
        BY <1>1, <2>1, <2>2, <3>1, <3>3, <3>4, <3>5, <3>6 DEF Timely, mainVars
    <2>6. CASE ThreadBreaks(c)
      <3>1. UNCHANGED <<ccmQ, up, down, server, registered, wantWrite>>
        BY <2>6 DEF ThreadBreaks, wireVars, ccmVars
      <3>2. Unread' = Unread
        BY <2>1, <3>1 DEF Unread
      <3>3. QED
        BY <1>1, <2>1, <2>2, <3>1, <3>2 DEF Timely, mainVars
    <2>7. CASE ThreadWrite(c)
      <3>1. UNCHANGED <<ccmQ, down, registered>> /\ wantWrite[cC]
        BY <2>1, <2>7 DEF ThreadWrite, Writable
      <3>2. Unread' = Unread
        BY <2>1, <3>1 DEF Unread
      <3>3. server[cC] # "none" => server'[cC] # "none"
        BY <1>0, <2>7 DEF ThreadWrite, WriteMsg, TypeCcm
      <3>4. QED
        BY <1>1, <2>1, <2>2, <3>1, <3>2, <3>3 DEF Timely, mainVars
    <2>8. QED
      BY <1>4, <2>4, <2>5, <2>6, <2>7
  <1>5. QED
    BY <1>3, <1>4 DEF Thread

LEMMA TimelyCcm ==
    ASSUME TypeOK, EndsAgree, MessagesAgree, Pile, Timely, NEW c \in Conns, Ccm(c)
    PROVE  Timely'
  <1>0. /\ TypeThread /\ TypeCcm /\ cC \in Conns /\ ccmQ \in Seq(DownMsgs)
        /\ Unread \in Seq(DownMsgs) /\ down[cC] \in Seq(DownMsgs) /\ up[cC] \in Seq(UpTypes)
    BY TypeParts, UnreadType DEF TypeCcm
  <1>1. UNCHANGED <<mainVars, thread, wantWrite, ccmQ>> /\ ~orphaned /\ cC' = cC
    BY CcmIs DEF Timely, threadVars, mainVars
  <1>2. CASE c # cC
    <2>1. /\ up'[cC] = up[cC] /\ down'[cC] = down[cC] /\ server'[cC] = server[cC]
          /\ cC \in registered' <=> cC \in registered
      BY <1>0, <1>2, CcmIs
    <2>2. Unread' = Unread
      BY <1>1, <2>1 DEF Unread
    <2>3. QED
      BY <1>1, <2>1, <2>2 DEF Timely, Alive, mainVars
  <1>3. CASE c = cC /\ pc = "wait" /\ wait = "CONNECT_ACK"
    <2>1. up[cC] = <<>> /\ cC \notin registered /\ ConnectFirst(Unread)
      BY <1>3 DEF Timely
    <2>2. CcmAccept(cC)
      BY <1>3, <2>1 DEF Ccm, CcmReceive, CcmConfigures, CcmAsksShutdown, CcmSeesEof,
         Running
    <2>3. /\ server[cC] = "none" /\ server'[cC] = "open" /\ UNCHANGED <<up, registered>>
          /\ down'[cC] = Append(down[cC], Msg("CONNECT_ACK", cC))
      BY <1>0, <2>2 DEF CcmAccept, TypeCcm
    <2>4. Unread = <<>>
      BY <2>3, Quiet
    <2>5. Msg("CONNECT_ACK", cC) \in DownMsgs /\ Msg("CONNECT_ACK", cC).type = "CONNECT_ACK"
      BY <1>0, MsgType DEF Msg, Answers
    <2>6. Unread' = Append(Unread, Msg("CONNECT_ACK", cC))
      BY <1>1, <2>3, <2>5, UnreadPut
    <2>7. Unread' # <<>> /\ ConnectFirst(Unread')
      <3>1. Append(Unread, Msg("CONNECT_ACK", cC)) # <<>>
        BY <1>0, <2>5, Appended
      <3>2. ConnectFirst(Append(Unread, Msg("CONNECT_ACK", cC)))
        BY <1>0, <2>4, <2>5, OneMore
      <3>3. QED
        BY <2>6, <3>1, <3>2
    <2>8. QED
      BY <1>1, <1>3, <2>1, <2>3, <2>7 DEF Timely, mainVars
  <1>4. CASE c = cC /\ pc = "wait" /\ wait = "REGISTER_ACK" /\ ~inStart
    <2>1. server[cC] # "none" /\ (RegisterFirst(Unread) \/ (cC \notin registered /\ OnlyDrops(Unread)))
      BY <1>4 DEF Timely
    <2>2. server'[cC] # "none"
      BY <1>0, <1>4, <2>1 DEF Ccm, CcmAccept, CcmReceive, CcmRegister, CcmAnswer,
         CcmDrop, Close,
         CcmConfigures, CcmAsksShutdown, CcmSeesEof, TypeCcm
    <2>3. ASSUME NEW m \in DownMsgs, down'[cC] = Append(down[cC], m),
                 RegisterFirst(Unread) \/ (m.type = "REGISTER_ACK" /\ Unread = <<>>)
          PROVE  RegisterFirst(Unread')
      BY <1>0, <1>1, <2>3, UnreadPut, OneMore
    <2>4. CASE RegisterFirst(Unread)
      <3>1. CASE down' = down
        <4>1. Unread' = Unread
          BY <1>1, <3>1 DEF Unread
        <4>2. QED
          BY <1>1, <1>4, <2>2, <2>4, <4>1 DEF Timely, mainVars
      <3>2. CASE \E m \in DownMsgs : Puts(cC, m)
        <4>1. RegisterFirst(Unread')
          BY <1>0, <2>3, <2>4, <3>2 DEF Puts, TypeCcm
        <4>2. QED
          BY <1>1, <1>4, <2>2, <4>1 DEF Timely, mainVars
      <3>3. CASE PutsTwo(cC)
        <4>1. RegisterFirst(Unread')
          BY <1>0, <1>1, <2>4, <3>3, UnreadPutTwo, OneMore
        <4>2. QED
          BY <1>1, <1>4, <2>2, <4>1 DEF Timely, mainVars
      <3>4. QED
        BY <1>4, <3>1, <3>2, <3>3, CcmIs
    <2>5. CASE cC \notin registered /\ OnlyDrops(Unread)
      <3>1. CASE CcmReceive(cC) /\ Head(up[cC]) = "REGISTER_REQ"
        <4>1. CcmRegister(cC) /\ server[cC] = "open"
          BY <3>1 DEF CcmReceive, CcmAnswer, CcmDrop
        <4>2. Unread = <<>>
          BY <2>5, <4>1, Quiet
        <4>3. /\ Msg("REGISTER_ACK", cC) \in DownMsgs /\ Msg("REGISTER_ACK", cC).type = "REGISTER_ACK"
              /\ NextSet(cC) \in DownMsgs
          BY <1>0, MsgType, PutsIs DEF Msg, Answers
        <4>4. Puts(cC, Msg("REGISTER_ACK", cC)) \/ PutsTwo(cC)
          BY <1>0, <4>1, PutsIs DEF CcmRegister, Answers
        <4>5. CASE Puts(cC, Msg("REGISTER_ACK", cC))
          <5>1. RegisterFirst(Unread')
            BY <1>0, <2>3, <4>2, <4>3, <4>5 DEF Puts, TypeCcm
          <5>2. QED
            BY <1>1, <1>4, <2>2, <5>1 DEF Timely, mainVars
        <4>6. CASE PutsTwo(cC)
          <5>1. RegisterFirst(Append(Unread, Msg("REGISTER_ACK", cC)))
            BY <1>0, <4>2, <4>3, OneMore
          <5>2. RegisterFirst(Unread')
            BY <1>1, <4>6, <5>1, UnreadPutTwo, OneMore
          <5>3. QED
            BY <1>1, <1>4, <2>2, <5>2 DEF Timely, mainVars
        <4>7. QED
          BY <4>4, <4>5, <4>6
      <3>2. CASE ~(CcmReceive(cC) /\ Head(up[cC]) = "REGISTER_REQ")
        <4>1. down' = down /\ cC \notin registered'
          <5>1. CASE CcmReceive(cC)
            <6>1. server[cC] = "open" /\ up[cC] # <<>> /\ Head(up[cC]) # "REGISTER_REQ"
              BY <3>2, <5>1 DEF CcmReceive
            <6>2. First(up[cC])
              BY <1>1, <2>5, <6>1 DEF Pile, Known
            <6>3. Head(up[cC]) \notin Config
              BY <1>0, <6>1, <6>2, Served
            <6>4. ~CcmRegister(cC)
              BY <6>1 DEF CcmRegister
            <6>5. CASE CcmAnswer(cC)
              BY <2>5, <6>3, <6>5 DEF CcmAnswer, Config
            <6>6. CASE CcmDrop(cC)
              BY <2>5, <6>6 DEF CcmDrop
            <6>7. QED
              BY <5>1, <6>4, <6>5, <6>6 DEF CcmReceive
          <5>2. CASE ~CcmReceive(cC)
            <6>1. CcmSeesEof(cC)
              BY <1>4, <2>1, <2>5, <5>2 DEF Ccm, CcmAccept, CcmConfigures, CcmAsksShutdown
            <6>2. QED
              BY <2>5, <6>1 DEF CcmSeesEof, wireVars
          <5>3. QED
            BY <5>1, <5>2
        <4>2. Unread' = Unread
          BY <1>1, <4>1 DEF Unread
        <4>3. QED
          BY <1>1, <1>4, <2>2, <2>5, <4>1, <4>2 DEF Timely, mainVars
      <3>3. QED
        BY <3>1, <3>2
    <2>6. QED
      BY <2>1, <2>4, <2>5
  <1>5. CASE /\ c = cC /\ ~(pc = "wait" /\ wait = "CONNECT_ACK")
             /\ ~(pc = "wait" /\ wait = "REGISTER_ACK" /\ ~inStart)
    BY <1>1, <1>5 DEF Timely, Alive, mainVars
  <1>6. QED
    BY <1>2, <1>3, <1>4, <1>5

LEMMA TimelyCrash ==
    ASSUME TypeOK, EndsAgree, MessagesAgree, Timely, CcmCrash \/ CcmStart
    PROVE  Timely'
  <1>1. UNCHANGED <<mainVars, threadVars, wireVars>> /\ cC \in Conns
    BY UnreadType DEF CcmCrash, CcmStart
  <1>2. Unread' = Unread
    BY <1>1 DEF Unread, mainVars, threadVars, wireVars
  <1>3. CASE CcmStart
    BY <1>1, <1>2, <1>3 DEF CcmStart, Timely, Alive, mainVars, threadVars, wireVars
  <1>4. CASE CcmCrash
    <2>1. registered' = {} /\ server'[cC] = Crashed(cC)
      BY <1>1, <1>4, CrashIs DEF CcmCrash
    <2>2. /\ server[cC] # "none" => server'[cC] # "none"
          /\ server[cC] \in {"none", "reset"} => server'[cC] \in {"none", "reset"}
      BY <2>1 DEF Crashed
    <2>3. QED
      BY <1>1, <1>2, <2>1, <2>2 DEF Timely, Alive, mainVars, threadVars, wireVars
  <1>5. QED
    BY <1>3, <1>4

-----------------------------------------------------------------------------
(***************************************************************************)
(* The sets on their way to main, as long as no answer is late.            *)
(***************************************************************************)
LEMMA WayType ==
    ASSUME TypeOK, NEW c \in Conns
    PROVE  /\ Way(c) \in Seq(DownMsgs) /\ applied[c] \in Seq(Nat) /\ setsSent[c] \in Nat
  BY UnreadType DEF Way, TypeOK

\* Only what is taken from, or put on, the way of a connection matters to it.
LEMMA SameWay ==
    ASSUME SetsGoOn, UNCHANGED <<applied, setsSent>>,
           \A c \in Conns \ {1} : Way(c)' = Way(c)
    PROVE  SetsGoOn'
  BY DEF SetsGoOn

LEMMA SetsCcm ==
    ASSUME TypeOK, EndsAgree, SetsGoOn, NEW c \in Conns, Ccm(c)
    PROVE  SetsGoOn'
  <1>0. TypeCcm /\ UNCHANGED <<applied, cC, ccmQ>>
    BY TypeParts, CcmIs DEF threadVars, mainVars
  <1>1. \A d \in Conns \ {c} : Way(d)' = Way(d) /\ setsSent'[d] = setsSent[d]
    BY <1>0, CcmIs DEF Way, Unread
  <1>2. ASSUME c # 1
        PROVE  Len(applied[c]) <= setsSent'[c] /\ GoesOn(applied[c], Way(c)', c, setsSent'[c])
    <2>0. /\ Way(c) \in Seq(DownMsgs) /\ applied[c] \in Seq(Nat) /\ setsSent[c] \in Nat
          /\ Len(applied[c]) <= setsSent[c] /\ GoesOn(applied[c], Way(c), c, setsSent[c])
      BY <1>2, WayType DEF SetsGoOn
    <2>1. PICK l \in Nat : l = Len(applied[c])
      BY <2>0
    <2>2. CASE down' = down /\ setsSent' = setsSent
      <3>1. Way(c)' = Way(c)
        BY <1>0, <2>2 DEF Way, Unread
      <3>2. QED
        BY <2>0, <2>2, <3>1
    <2>3. ASSUME NEW m \in DownMsgs, Puts(c, m)
          PROVE  Len(applied[c]) <= setsSent'[c] /\ GoesOn(applied[c], Way(c)', c, setsSent'[c])
      <3>1. down'[c] = Append(down[c], m) /\ setsSent'[c] = setsSent[c] + Counts(m) /\ m.conn = c
        BY <1>0, <2>3 DEF Puts, TypeCcm
      <3>2. Way(c)' = Append(Way(c), m)
        <4>1. CASE c = cC
          BY <1>0, <3>1, <4>1, UnreadPut DEF Way
        <4>2. CASE c # cC
          BY <1>0, <3>1, <4>2 DEF Way
        <4>3. QED
          BY <4>1, <4>2
      <3>3. CASE m.type = "CONFIG_SET"
        <4>1. m.n = setsSent[c] + 1 /\ setsSent'[c] = setsSent[c] + 1
          BY <2>3, <3>1, <3>3 DEF Puts, Counts
        <4>2. GoesOn(applied[c], Append(Way(c), m), c, setsSent[c] + 1)
          BY <2>0, <3>1, <3>3, <4>1, SetAdded DEF IsSet
        <4>3. l <= setsSent[c] + 1
          BY <2>0, <2>1
        <4>4. QED
          BY <2>1, <3>2, <4>1, <4>2, <4>3
      <3>4. CASE m.type # "CONFIG_SET"
        <4>1. setsSent'[c] = setsSent[c]
          BY <2>0, <3>1, <3>4 DEF Counts
        <4>2. GoesOn(applied[c], Append(Way(c), m), c, setsSent[c])
          BY <2>0, <3>4, OtherAdded DEF IsSet
        <4>3. QED
          BY <2>0, <3>2, <4>1, <4>2
      <3>5. QED
        BY <3>3, <3>4
    <2>4. CASE PutsTwo(c)
      <3>1. /\ Msg("REGISTER_ACK", c) \in DownMsgs /\ ~IsSet(Msg("REGISTER_ACK", c), c)
            /\ NextSet(c) \in DownMsgs /\ IsSet(NextSet(c), c) /\ NextSet(c).n = setsSent[c] + 1
        BY <1>0, MsgType, PutsIs DEF Answers, IsSet, Msg
      <3>2. /\ down'[c] = Append(Append(down[c], Msg("REGISTER_ACK", c)), NextSet(c))
            /\ setsSent'[c] = setsSent[c] + 1
        BY <1>0, <2>4 DEF PutsTwo, TypeCcm
      <3>3. Way(c)' = Append(Append(Way(c), Msg("REGISTER_ACK", c)), NextSet(c))
        <4>1. CASE c = cC
          BY <1>0, <2>4, <4>1, UnreadPutTwo DEF Way
        <4>2. CASE c # cC
          BY <1>0, <3>2, <4>2 DEF Way
        <4>3. QED
          BY <4>1, <4>2
      <3>4. /\ Append(Way(c), Msg("REGISTER_ACK", c)) \in Seq(DownMsgs)
            /\ GoesOn(applied[c], Append(Way(c), Msg("REGISTER_ACK", c)), c, setsSent[c])
        BY <2>0, <3>1, OtherAdded, Appended
      <3>5. GoesOn(applied[c], Append(Append(Way(c), Msg("REGISTER_ACK", c)), NextSet(c)), c,
                   setsSent[c] + 1)
        BY <2>0, <3>1, <3>4, SetAdded
      <3>6. l <= setsSent[c] + 1
        BY <2>0, <2>1
      <3>7. QED
        BY <2>1, <3>2, <3>3, <3>5, <3>6
    <2>5. QED
      BY <2>2, <2>3, <2>4, CcmIs
  <1>3. QED
    BY <1>0, <1>1, <1>2 DEF SetsGoOn

LEMMA SetsThread ==
    ASSUME TypeOK, OneThread, ~orphaned, SetsGoOn, NEW c \in Conns, Thread(c)
    PROVE  SetsGoOn'
  <1>0. TypeThread /\ TypeCcm /\ cC \in Conns /\ UNCHANGED mainVars
    BY TypeParts, UnreadType, OthersIs
  <1>1. UNCHANGED <<applied, setsSent, cC>>
    BY <1>0 DEF Thread, ThreadConnect, ThreadRead, ThreadEof, ThreadEnds, ThreadBreaks,
       ThreadWrite,
                ThreadFindsNone, ThreadReadOnly, mainVars, ccmVars
  <1>2. CASE ThreadRead(c) \/ ThreadEof(c)
    <2>1. c = cC
      BY <1>2 DEF OneThread, Alive, ThreadRead, ThreadEof
    <2>2. \A d \in Conns \ {cC} : Way(d)' = Way(d)
      BY <1>0, <1>1, <1>2, <2>1 DEF Way, ThreadRead, ThreadEof, wireVars, TypeCcm
    <2>3. CASE ThreadRead(c)
      <3>1. Way(cC)' = Way(cC)
        BY <1>1, <2>1, <2>3, UnreadRead DEF Way
      <3>2. QED
        BY <1>1, <2>2, <3>1, SameWay
    <2>4. CASE ThreadEof(c)
      <3>1. ~IsSet(Msg("DROP_PEER", cC), cC)
        BY DEF IsSet, Msg
      <3>2. Way(cC)' = Append(Way(cC), Msg("DROP_PEER", cC)) /\ Msg("DROP_PEER", cC) \in DownMsgs
        BY <1>1, <2>1, <2>4, UnreadEof DEF Way
      <3>3. cC # 1 => GoesOn(applied[cC], Append(Way(cC), Msg("DROP_PEER", cC)), cC, setsSent[cC])
        BY <1>0, <3>1, <3>2, WayType, OtherAdded DEF SetsGoOn
      <3>4. \A d \in Conns : d = cC => Way(d)' = Append(Way(cC), Msg("DROP_PEER", cC))
        BY <1>1, <3>2 DEF Way
      <3>5. QED
        BY <1>1, <2>2, <3>3, <3>4 DEF SetsGoOn
    <2>5. QED
      BY <1>2, <2>3, <2>4
  <1>3. CASE ThreadConnect(c) \/ ThreadEnds(c) \/ ThreadBreaks(c) \/ ThreadWrite(c)
               \/ ThreadFindsNone(c) \/ ThreadReadOnly(c)
    <2>1. UNCHANGED <<ccmQ, down>>
      BY <1>3 DEF ThreadConnect, ThreadEnds, ThreadBreaks, ThreadWrite, ThreadFindsNone,
         ThreadReadOnly, wireVars
    <2>2. \A d \in Conns : Way(d)' = Way(d)
      BY <1>1, <2>1 DEF Way, Unread
    <2>3. QED
      BY <1>1, <2>2, SameWay
  <1>4. QED
    BY <1>2, <1>3 DEF Thread

\* Main takes a message off the queue.  Of the set it is given it keeps the
\* number.
LEMMA SetsTaken ==
    ASSUME TypeOK, SetsGoOn, InTurn(ccmQ, cC),
           ccmQ # <<>>, ccmQ' = Tail(ccmQ), UNCHANGED <<down, cC, setsSent>>,
           \/ Head(ccmQ).type # "CONFIG_SET" /\ applied' = applied
           \/ cC = 1 /\ applied' = applied
           \/ /\ Head(ccmQ).type = "CONFIG_SET"
              /\ applied' = [applied EXCEPT ![cC] = Append(@, Head(ccmQ).n)]
    PROVE  SetsGoOn'
  <1>1. cC \in Conns /\ applied \in [Conns -> Seq(Nat)] /\ Head(ccmQ).conn = cC
    BY UnreadType, InTurnKept DEF TypeOK
  <1>2. \A d \in Conns \ {cC} : Way(d)' = Way(d) /\ applied'[d] = applied[d]
    BY <1>1 DEF Way
  <1>3. Way(cC)' = Tail(Way(cC)) /\ Way(cC) # <<>> /\ Head(Way(cC)) = Head(ccmQ)
    BY UnreadTaken DEF Way
  <1>4. ASSUME cC # 1
        PROVE  Len(applied'[cC]) <= setsSent[cC] /\ GoesOn(applied'[cC], Tail(Way(cC)), cC, setsSent[cC])
    <2>1. /\ Way(cC) \in Seq(DownMsgs) /\ applied[cC] \in Seq(Nat) /\ setsSent[cC] \in Nat
          /\ Len(applied[cC]) <= setsSent[cC] /\ GoesOn(applied[cC], Way(cC), cC, setsSent[cC])
      BY <1>1, <1>4, WayType DEF SetsGoOn
    <2>2. CASE Head(ccmQ).type # "CONFIG_SET" /\ applied' = applied
      BY <1>3, <2>1, <2>2, OtherTaken DEF IsSet
    <2>3. CASE /\ Head(ccmQ).type = "CONFIG_SET"
               /\ applied' = [applied EXCEPT ![cC] = Append(@, Head(ccmQ).n)]
      <3>1. IsSet(Head(Way(cC)), cC)
        BY <1>1, <1>3, <2>3 DEF IsSet
      <3>2. applied'[cC] = Append(applied[cC], Head(Way(cC)).n)
        BY <1>1, <1>3, <2>3
      <3>3. QED
        BY <1>3, <2>1, <3>1, <3>2, SetTaken
    <2>4. QED
      BY <1>4, <2>2, <2>3
  <1>5. \A d \in Conns : d = cC => Way(d)' = Tail(Way(cC))
    BY <1>3 DEF Way
  <1>6. QED
    BY <1>2, <1>4, <1>5 DEF SetsGoOn

LEMMA SetsReply ==
    ASSUME TypeOK, EndsAgree, MessagesAgree, MainKnows, Timely, SetsGoOn, Answered \/ Timeout
    PROVE  SetsGoOn'
  <1>0. TypeThread /\ TypeMain /\ cC \in Conns /\ ccmQ \in Seq(DownMsgs)
    BY TypeParts, UnreadType
  <1>1. /\ pc = "wait" /\ UNCHANGED <<cC, down, setsSent>> /\ InTurn(ccmQ, cC)
        /\ \/ ccmQ # <<>> /\ ccmQ' = Tail(ccmQ)
           \/ ccmQ' = ccmQ
    BY <1>0, RepliesIs DEF wireVars, ccmVars, Timely
  <1>2. CASE ccmQ' = ccmQ /\ applied' = applied
    <2>1. \A c \in Conns : Way(c)' = Way(c)
      BY <1>1, <1>2 DEF Way, Unread
    <2>2. QED
      BY <1>1, <1>2, <2>1, SameWay
  <1>3. CASE SetConfigDone
    <2>1. applied' = applied /\ cC = 1
      BY <1>1, <1>3 DEF SetConfigDone, MainKnows
    <2>2. QED
      BY <1>1, <1>2, <2>1, SetsTaken
  <1>4. CASE ccmQ = <<>> /\ Timeout /\ GiveUp
    BY <1>2, <1>4 DEF Timeout, GiveUp
  <1>5. CASE ccmQ # <<>> /\ ccmQ' = Tail(ccmQ) /\ Head(ccmQ).type # wait /\ GiveUp
    <2>1. applied' = applied
      BY <1>5 DEF GiveUp
    <2>2. ASSUME ~inStart PROVE Head(ccmQ).type # "CONFIG_SET"
      <3>1. wait \in {"CONNECT_ACK", "REGISTER_ACK"}
        BY <1>0, <1>1, <2>2 DEF MainKnows, TypeMain, Answers
      <3>2. Unread # <<>> /\ Unread \in Seq(DownMsgs) /\ Head(Unread) = Head(ccmQ)
        BY <1>1, <1>5, UnreadTaken, UnreadType
      <3>3. CASE wait = "CONNECT_ACK"
        BY <1>1, <1>5, <3>2, <3>3, TakenFirst DEF Timely
      <3>4. CASE wait = "REGISTER_ACK"
        <4>1. OnlyDrops(Unread) \/ RegisterFirst(Unread)
          BY <1>1, <2>2, <3>4 DEF Timely
        <4>2. Head(ccmQ).type \in {"DROP_PEER", "REGISTER_ACK"}
          BY <3>2, <4>1, TakenFirst
        <4>3. QED
          BY <4>2
      <3>5. QED
        BY <3>1, <3>3, <3>4
    <2>3. inStart => cC = 1
      BY DEF MainKnows
    <2>4. QED
      BY <1>0, <1>1, <1>5, <2>1, <2>2, <2>3, SetsTaken DEF TypeMain
  <1>6. CASE ccmQ # <<>> /\ ccmQ' = Tail(ccmQ) /\ Head(ccmQ).type = wait /\ (AckConnect \/ AckRegister)
    <2>1. applied' = applied /\ Head(ccmQ).type # "CONFIG_SET"
      BY <1>6 DEF AckConnect, AckRegister
    <2>2. QED
      BY <1>1, <1>6, <2>1, SetsTaken
  <1>7. CASE ccmQ # <<>> /\ ccmQ' = Tail(ccmQ) /\ Head(ccmQ).type = wait /\ AckConfig(Head(ccmQ))
    <2>1. Head(ccmQ).conn = cC /\ Head(ccmQ).type = "CONFIG_SET"
          /\ applied' = [applied EXCEPT ![Head(ccmQ).conn] = Append(@, Head(ccmQ).n)]
      BY <1>0, <1>1, <1>7, InTurnKept DEF AckConfig
    <2>2. applied' = [applied EXCEPT ![cC] = Append(@, Head(ccmQ).n)]
      BY <2>1
    <2>3. QED
      BY <1>1, <1>7, <2>1, <2>2, SetsTaken
  <1>8. QED
    BY <1>3, <1>4, <1>5, <1>6, <1>7, ReplyIs

LEMMA SetsMain ==
    ASSUME TypeOK, EndsAgree, MessagesAgree, MainKnows, Timely, SetsGoOn, Main
    PROVE  SetsGoOn'
  <1>0. /\ TypeThread /\ TypeMain /\ TypeCcm /\ cC \in Conns /\ ccmQ \in Seq(DownMsgs)
        /\ InTurn(ccmQ, cC) /\ UNCHANGED <<down, setsSent>>
    BY TypeParts, UnreadType, MainIs DEF Timely, wireVars, ccmVars
  <1>1. CASE Start \/ CheckReconnect
    <2>1. UNCHANGED <<ccmQ, applied>>
      BY <1>1 DEF Start, CheckReconnect
    <2>2. ccmQ = <<>>
      <3>1. CASE Start
        BY <1>0, <3>1, Quiet DEF Start, MainKnows
      <3>2. CASE CheckReconnect
        BY <3>2 DEF CheckReconnect, Timely
      <3>3. QED
        BY <1>1, <3>1, <3>2
    <2>3. \A c \in Conns : down[c] \in Seq(DownMsgs)
      BY <1>0 DEF TypeCcm
    <2>4. \A c \in Conns : Way(c) = down[c]
      <3>1. ASSUME NEW c \in Conns PROVE <<>> \o down[c] = down[c]
        BY <2>3, NothingYet
      <3>2. QED
        BY <2>2, <3>1 DEF Way, Unread
    <2>5. \A c \in Conns : Way(c)' = down[c]
      <3>1. ASSUME NEW c \in Conns PROVE <<>> \o down[c] = down[c]
        BY <2>3, NothingYet
      <3>2. down' = down /\ ccmQ' = <<>>
        BY <1>0, <2>1, <2>2
      <3>3. \A c \in Conns : Way(c)' = IF c = cC' THEN ccmQ' \o down'[c] ELSE down'[c]
        BY DEF Way, Unread
      <3>4. QED
        BY <3>1, <3>2, <3>3
    <2>6. QED
      BY <1>0, <2>1, <2>4, <2>5, SameWay
  <1>2. CASE Answered \/ Timeout
    BY <1>2, SetsReply
  <1>3. CASE Progress \/ AckShutdown \/ Finish \/ CheckQueue \/ CheckDone \/ SendModify
               \/ Activate
    <2>1. UNCHANGED <<ccmQ, applied, cC>>
      BY <1>3 DEF Progress, AckShutdown, Finish, CheckQueue, CheckDone, SendModify, Activate,
         threadVars
    <2>2. \A c \in Conns : Way(c)' = Way(c)
      BY <1>0, <2>1 DEF Way, Unread
    <2>3. QED
      BY <1>0, <2>1, <2>2, SameWay
  <1>4. CASE TakeShutdown \/ TakeDrop \/ TakeOther
    <2>1. /\ ccmQ # <<>> /\ ccmQ' = Tail(ccmQ) /\ UNCHANGED <<applied, cC>>
          /\ Head(ccmQ).type # "CONFIG_SET"
      BY <1>4 DEF TakeShutdown, TakeDrop, TakeOther, Take, mainVars
    <2>2. QED
      BY <1>0, <2>1, SetsTaken
  <1>5. CASE TakeConfig
    <2>1. /\ ccmQ # <<>> /\ ccmQ' = Tail(ccmQ) /\ cC' = cC /\ Head(ccmQ).type = "CONFIG_SET"
          /\ applied' = [applied EXCEPT ![Head(ccmQ).conn] = Append(@, Head(ccmQ).n)]
      BY <1>5 DEF TakeConfig, Take
    <2>2. Head(ccmQ).conn = cC
      BY <1>0, <2>1, InTurnKept
    <2>3. applied' = [applied EXCEPT ![cC] = Append(@, Head(ccmQ).n)]
      BY <2>1, <2>2
    <2>4. QED
      BY <1>0, <2>1, <2>3, SetsTaken
  <1>6. QED
    BY <1>1, <1>2, <1>3, <1>4, <1>5 DEF Main

LEMMA SetsCrash ==
    ASSUME SetsGoOn, CcmCrash \/ CcmStart
    PROVE  SetsGoOn'
  <1>1. UNCHANGED <<applied, setsSent, ccmQ, down, cC>>
    BY DEF CcmCrash, CcmStart, mainVars, threadVars, wireVars
  <1>2. \A c \in Conns : Way(c)' = Way(c)
    BY <1>1 DEF Way, Unread
  <1>3. QED
    BY <1>1, <1>2, SameWay

-----------------------------------------------------------------------------
(***************************************************************************)
(* The invariant.                                                          *)
(***************************************************************************)
LEMMA InvInit == Init => Inv
  <1> SUFFICES ASSUME Init PROVE Inv
    OBVIOUS
  <1>1. TypeOK
    <2>1. MaxUnasked \in Nat /\ MaxCrashes \in Nat /\ MaxLates \in Nat /\ 1 \in Conns
      BY UnitConstants, Strings
    <2>2. /\ pc = "start" /\ wait = "none" /\ cC = 1 /\ ccmQ = <<>> /\ outgoing = <<>>
          /\ {inSend, inStart, connected, keepAlive, activated, ccmUp, orphaned, older}
               \subseteq BOOLEAN
          /\ registered = {} /\ empty \subseteq Conns /\ unasked = 0 /\ crashes = 0 /\ lates = 0
      BY DEF Init
    <2>3. /\ applied \in [Conns -> Seq(Nat)] /\ thread \in [Conns -> ThreadStates]
          /\ wantWrite \in [Conns -> BOOLEAN] /\ up \in [Conns -> Seq(UpTypes)]
          /\ down \in [Conns -> Seq(DownMsgs)] /\ server \in [Conns -> ServerStates]
          /\ setsSent \in [Conns -> Nat]
      BY DEF Init, ThreadStates, ServerStates
    <2>4. ccmQ \in Seq(DownMsgs) /\ outgoing \in Seq(UpTypes)
      BY <2>2
    <2>5. pc \in {"start", "wait", "activate", "loop", "check", "cleaned", "ended", "dead"}
          /\ wait \in Answers \cup {"none"}
      BY <2>2
    <2>6. cC \in Conns /\ registered \subseteq Conns /\ unasked \in 0 .. MaxUnasked
          /\ crashes \in 0 .. MaxCrashes /\ lates \in 0 .. MaxLates
      BY <2>1, <2>2
    <2>7. QED
      BY <2>2, <2>3, <2>4, <2>5, <2>6 DEF TypeOK
  <1>2. EndsAgree
    BY DEF Init, EndsAgree
  <1>3. MessagesAgree
    BY DEF Init, MessagesAgree
  <1>4. MainKnows
    BY DEF Init, MainKnows
  <1>5. OneThread
    BY DEF Init, OneThread, Alive
  <1>6. Pile
    BY <1>1, UnreadType, NoneYet DEF Init, Pile
  <1>7. Unread = <<>> /\ InTurn(ccmQ, cC) /\ cC \in Conns
    BY <1>1, UnreadType, NothingYet DEF Init, Unread
  <1>8. Timely
    BY <1>7, NothingYet DEF Init, Timely
  <1>9. SetsGoOn
    <2>1. ASSUME NEW c PROVE GoesOn(<<>>, <<>>, c, 0)
      <3>1. SetsIn(<<>>, c) = {} /\ Len(<<>>) = 0
        BY DEF SetsIn
      <3>2. <<>> = [n \in 1 .. 0 |-> n] /\ 0 + 1 .. 0 = {}
        OBVIOUS
      <3>3. QED
        BY <3>1, <3>2 DEF GoesOn
    <2>2. \A c \in Conns : Way(c) = <<>> /\ applied[c] = <<>> /\ setsSent[c] = 0
      BY <1>7 DEF Init, Way
    <2>3. Len(<<>>) <= 0
      OBVIOUS
    <2>4. QED
      BY <2>1, <2>2, <2>3 DEF SetsGoOn
  <1>10. QED
    BY <1>1, <1>2, <1>3, <1>4, <1>5, <1>6, <1>8, <1>9 DEF Inv

\* An answer that was late is not forgotten.
LEMMA LateStaysLate ==
    ASSUME TypeOK, Next, lates' = 0
    PROVE  lates = 0
  <1>1. lates \in Nat
    BY UnitConstants DEF TypeOK
  <1>2. lates' = lates \/ lates' = lates + 1
    <2>1. CASE Main
      BY <2>1 DEF Main, Start, Answered, Timeout, Finish, Progress, CheckReconnect,
         CheckQueue,
                  CheckDone, TakeShutdown, AckShutdown, TakeConfig, TakeDrop, TakeOther,
                  SendModify, Activate
    <2>2. QED
      BY <2>1, OthersIs DEF Next
  <1>3. QED
    BY <1>1, <1>2

LEMMA InvNext == ASSUME Inv, Next PROVE Inv'
  <1>0. TypeOK /\ EndsAgree /\ MessagesAgree /\ MainKnows /\ OneThread /\ Pile
    BY DEF Inv
  <1>1. TypeOK'
    BY <1>0, TypeStep
  <1>2. EndsAgree'
    BY <1>0, EndsStep
  <1>3. MessagesAgree'
    BY <1>0, <1>1, <1>2, MessagesStep
  <1>4. MainKnows'
    BY <1>0, MainStep
  <1>5. OneThread'
    BY <1>0, ThreadsStep
  <1>6. Pile'
    BY <1>0, PileStep
  <1>7. ASSUME lates' = 0 PROVE Timely' /\ SetsGoOn'
    <2>1. lates = 0 /\ Timely /\ SetsGoOn /\ ~orphaned
      BY <1>0, <1>7, LateStaysLate DEF Inv, Timely
    <2>2. CASE Main
      BY <1>0, <1>7, <2>1, <2>2, TimelyMain, SetsMain
    <2>3. ASSUME NEW c \in Conns, Thread(c) PROVE Timely' /\ SetsGoOn'
      BY <1>0, <2>1, <2>3, TimelyThread, SetsThread
    <2>4. ASSUME NEW c \in Conns, Ccm(c) PROVE Timely' /\ SetsGoOn'
      BY <1>0, <2>1, <2>4, TimelyCcm, SetsCcm
    <2>5. CASE CcmCrash \/ CcmStart
      BY <1>0, <2>1, <2>5, TimelyCrash, SetsCrash
    <2>6. QED
      BY <2>2, <2>3, <2>4, <2>5 DEF Next
  <1>8. QED
    BY <1>1, <1>2, <1>3, <1>4, <1>5, <1>6, <1>7 DEF Inv

LEMMA InvStutters == ASSUME Inv, UNCHANGED vars PROVE Inv'
  BY DEF Inv, vars, mainVars, threadVars, wireVars, ccmVars, TypeOK, EndsAgree,
     MessagesAgree,
         WireMsgs, OnWire, ComeMsgs, HasCome, Known, MainKnows, OneThread, Alive, Pile, Unused,
         Timely, Unread, SetsGoOn, Way

\* What main, the threads of its clients and the CCM hold of each other agrees,
\* at every step of any of them (peerTemplate.py:49-200, controlClient.py:75-178).
THEOREM Invariant == Spec => []Inv
  <1>1. Inv /\ [Next]_vars => Inv'
    BY InvNext, InvStutters
  <1>2. QED
    BY InvInit, <1>1, PTL DEF Spec

-----------------------------------------------------------------------------
\* The variables have their types, whatever the unit, its threads and the
\* controller do: no message of a kind the other side does not know is ever
\* queued or sent (peerTemplate.py, controlClient.py).
THEOREM UnitTypesHold == Spec => []TypeOK
  <1>1. Inv => TypeOK
    BY DEF Inv
  <1>2. QED
    BY Invariant, <1>1, PTL

\* A CONFIG_SET or CONFIG_REQ reaches the CCM only from a peer it has
\* registered on that connection, so ccmModel.py:157,163 do not raise, unless
\* main has made a second client while the first lived: the messages an
\* earlier connection has left on `outgoing` stay below the new REGISTER_REQ.
THEOREM PeersAreKnown == Spec => []CcmKnowsPeer
  <1>1. Inv => CcmKnowsPeer
    <2> SUFFICES ASSUME Inv, ~orphaned, NEW c \in Conns, server[c] = "open", up[c] # <<>>,
                        Head(up[c]) \in {"CONFIG_SET", "CONFIG_REQ"}
                 PROVE  c \in registered
      BY DEF CcmKnowsPeer
    <2>1. thread[c] = "running" /\ up[c] \in Seq(UpTypes)
      BY DEF Inv, EndsAgree, TypeOK, ThreadStates
    <2>2. c = cC
      BY <2>1 DEF Inv, OneThread, Alive
    <2>3. ASSUME c \notin registered PROVE FALSE
      <3>1. First(up[c])
        BY <2>2, <2>3 DEF Inv, Pile, Known
      <3>2. Head(up[c]) # "REGISTER_REQ" /\ Head(up[c]) \in Config
        BY DEF Config
      <3>3. QED
        BY <2>1, <3>1, <3>2, Served
    <2>4. QED
      BY <2>3
  <1>2. QED
    BY Invariant, <1>1, PTL

\* As long as no answer came too late, the CCM never has one unit registered
\* on two connections (peerTemplate.py:175): the old thread has ended, and
\* the CCM seen its end, before main makes a new client.
THEOREM RegisteredOnce == Spec => []OneRegistration
  <1>1. Inv => OneRegistration
    <2> SUFFICES ASSUME Inv, lates = 0, NEW c \in registered
                 PROVE  c = cC
      BY DEF OneRegistration
    <2>1. c \in Conns /\ thread[c] = "running"
      BY DEF Inv, EndsAgree, TypeOK, ThreadStates
    <2>2. QED
      BY <2>1 DEF Inv, OneThread, Timely, Alive
  <1>2. QED
    BY Invariant, <1>1, PTL

\* A unit that reconnects applies every CONFIG_SET it is sent on the new
\* connection, in the order they were sent (peerTemplate.py:176-182): the
\* waits for the answers to its connection and its registration throw none
\* away, unless an answer is late.
THEOREM SetsAreApplied == Spec => []NoSetMissed
  <1>1. Inv => NoSetMissed
    <2> SUFFICES ASSUME Inv, lates = 0, NEW c \in Conns \ {1}
                 PROVE  GoesOn(applied[c], ccmQ \o down[c], c, setsSent[c])
      BY DEF NoSetMissed
    <2>1. /\ InTurn(ccmQ, cC) /\ GoesOn(applied[c], Way(c), c, setsSent[c])
          /\ ccmQ \in Seq(DownMsgs) /\ down[c] \in Seq(DownMsgs)
      BY DEF Inv, Timely, SetsGoOn, TypeOK
    <2>2. CASE c = cC
      BY <2>1, <2>2 DEF Way, Unread
    <2>3. CASE c # cC
      <3>1. Way(c) = down[c]
        BY <2>3 DEF Way
      <3>2. QED
        BY <2>1, <2>3, <3>1, OthersBefore
    <2>4. QED
      BY <2>2, <2>3
  <1>2. QED
    BY Invariant, <1>1, PTL
=============================================================================
