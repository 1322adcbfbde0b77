----------------------- MODULE SessionBuilder_proofs -----------------------
(***************************************************************************)
(* Theorems about SessionBuilder, for any connections, users, schemas,     *)
(* lengths of a session and of a day, and changes of the configuration.    *)
(***************************************************************************)
EXTENDS SessionBuilder, SequenceTheorems, FiniteSetTheorems, TLAPS

\* What is known in each state of the builder's thread.
ThreadKnows ==
    /\ IsFiniteSet(peersChanged)
    /\ pc = "parse" => cur \in Events \cup BrokenRecords /\ parser # NoSchema
    /\ pc \in {"open", "each"} =>
         /\ cur \in Events \cup {AtEnd}
         /\ timenow # -1
    /\ pc = "each" => ~ebsl
    /\ cur = AtEnd \/ pc = "done" => ~keepalive

\* Where the main thread is in setupProcessing, and what of the schema it has
\* set: it takes no events from a file before the parser has it too.
MainKnows ==
    /\ main # "idle" => want # None
    /\ main = "events" => parser = want.schema
    /\ ~keepalive => main = "idle"
    /\ ready => evtSet # {}
    /\ evtSet # {} => parser # NoSchema

\* The names of the files are times, and each write has a later one, until
\* the last, which has 0.
FilesAreOlder ==
    /\ \/ pc \in {"select", "route", "parse", "open"}
       \/ pc = "each" /\ cur # AtEnd
       => 0 \notin files
    /\ pc \in {"select", "route", "parse", "open"} => \A f \in files : f <= lastWrite
    /\ pc = "each" /\ cur # AtEnd => \A f \in files : f <= timenow
    /\ pc \in {"open", "each"} => IF cur = AtEnd THEN timenow = 0
                                  ELSE timenow > 0 /\ timenow > lastWrite

\* What SessionsTellTrue says of one session, with the event that closed it
\* named: the last error or the first ender.
TellsTrue(s) ==
    LET errors == {i \in DOMAIN s.evts : InError(s.evts[i])}
        enders == {i \in DOMAIN s.evts : s.evts[i].evt \in isEnder}
    IN  /\ s.failed <=> errors # {}
        /\ s.ended <=> errors \cup enders # {}
        /\ s.suspect <=> ~s.ended
        /\ IF errors # {}
             THEN \E i \in errors : s.closer = s.evts[i].evt /\ \A j \in errors : i >= j
             ELSE IF enders # {}
             THEN \E i \in enders : s.closer = s.evts[i].evt /\ \A j \in enders : i <= j
             ELSE s.closer = -1
        /\ s.ho <=> \E i \in DOMAIN s.evts : s.evts[i].evt \in isHo

\* A session without an event is left by a record too short for its time, which
\* ends the thread.
SessionsKnow ==
    \A k \in Open :
        /\ sessions[k].evts = <<>> => pc \in {"dead", "killed"}
        /\ ~ebsl => /\ TellsTrue(sessions[k])
                    /\ sessions[k].evts # <<>> => sessions[k].lastEvt = Last(k).t

\* The comparisons a write has made.
SeenWereIdle ==
    pc = "each" => \A k \in seen : k \in taken <=> Closed(k) \/ Suspect(k)

Inv ==
    /\ TypeOK
    /\ ThreadKnows
    /\ MainKnows
    /\ FilesAreOlder
    /\ SessionsKnow
    /\ SeenWereIdle
    /\ NothingLost
-----------------------------------------------------------------------------
(***************************************************************************)
(* Sessions and events.                                                    *)
(***************************************************************************)
LEMMA NoneIsNoRecord ==
    /\ \A s \in Sessions : s # NoSession
    /\ \A e \in Events : e # None /\ e # AtEnd /\ e.kind = "event"
    /\ \A e \in BrokenRecords : e # AtEnd /\ e.kind \in {"garbled", "short"}
    /\ AtEnd # None
  <1>1. \A s \in Sessions : s # NoSession
    <2>1. \A s \in Sessions : "evts" \in DOMAIN s
      BY DEF Sessions
    <2>2. DOMAIN NoSession = {}
      BY DEF NoSession
    <2>3. QED
      BY <2>1, <2>2
  <1>2. \A e \in Events : e # None /\ e # AtEnd /\ e.kind = "event"
    BY DEF Events, None, AtEnd
  <1>3. \A e \in BrokenRecords : e.kind \in {"garbled", "short"}
    BY DEF BrokenRecords
  <1>4. AtEnd.kind = "end" /\ AtEnd # None
    BY DEF AtEnd, None
  <1>5. QED
    BY <1>1, <1>2, <1>3, <1>4

LEMMA EventFields ==
    ASSUME NEW e \in Events
    PROVE  /\ e.key \in Keys /\ e.evt \in EvtIds /\ e.rc \in Codes \cup {"none"}
           /\ e.t \in 0 .. Day - 1 /\ e.real \in 0 .. MaxNow /\ e.t = e.real % Day
  BY DEF Events

LEMMA AddType ==
    ASSUME NEW s \in Sessions, NEW e \in Events
    PROVE  /\ AddEvt(s, e) \in Sessions /\ EbsAddEvt(s, e) \in Sessions
           /\ AddEvt(s, e).evts = Append(s.evts, e)
           /\ EbsAddEvt(s, e).evts = Append(s.evts, e)
           /\ AddEvt(s, e).lastEvt = e.t
  <1>1. s.evts \in Seq(Events) /\ Append(s.evts, e) \in Seq(Events)
    BY DEF Sessions
  <1>2. InError(e) \in BOOLEAN
    BY DEF InError
  <1>3. /\ EbsAddEvt(s, e) \in Sessions
        /\ EbsAddEvt(s, e).evts = Append(s.evts, e)
    BY <1>1 DEF Sessions, EbsAddEvt
  <1>4. AddEvt(s, e) \in Sessions
    BY <1>1, <1>2, EventFields DEF Sessions, AddEvt
  <1>5. QED
    BY <1>3, <1>4 DEF AddEvt

LEMMA NewTypes ==
    NewSession \in Sessions /\ NewEbs \in Sessions
    /\ NewSession.evts = <<>> /\ NewEbs.evts = <<>>
  <1>1. 0 \in 0 .. Day - 1
    BY BuilderConstants
  <1>2. NewSession \in Sessions
    BY <1>1 DEF Sessions, NewSession
  <1>3. QED
    BY <1>2 DEF Sessions, NewSession, NewEbs

\* A new session says the truth of its no events.
LEMMA NewTells == TellsTrue(NewSession)
  BY DEF TellsTrue, NewSession

\* A session that tells the truth of its events does so when one is added.
LEMMA AddTells ==
    ASSUME NEW s \in Sessions, NEW e \in Events, TellsTrue(s)
    PROVE  TellsTrue(AddEvt(s, e))
  <1> DEFINE s2 == AddEvt(s, e)
             n == Len(s.evts)
             errors == {i \in DOMAIN s.evts : InError(s.evts[i])}
             enders == {i \in DOMAIN s.evts : s.evts[i].evt \in isEnder}
             errors2 == {i \in DOMAIN s2.evts : InError(s2.evts[i])}
             enders2 == {i \in DOMAIN s2.evts : s2.evts[i].evt \in isEnder}
  <1>1. s.evts \in Seq(Events) /\ n \in Nat
    BY DEF Sessions
  <1>2. /\ s2.evts = Append(s.evts, e)
        /\ s2.closer = IF InError(e) \/ (e.evt \in isEnder /\ ~s.ended) THEN e.evt ELSE s.closer
        /\ s2.ended = (s.ended \/ e.evt \in isEnder \/ InError(e))
        /\ s2.suspect = (s.suspect /\ ~(e.evt \in isEnder) /\ ~InError(e))
        /\ s2.failed = (s.failed \/ InError(e))
        /\ s2.ho = (s.ho \/ e.evt \in isHo)
    BY DEF AddEvt
  <1>3. /\ DOMAIN s.evts = 1 .. n /\ DOMAIN s2.evts = 1 .. n + 1
        /\ \A i \in 1 .. n : s2.evts[i] = s.evts[i]
        /\ s2.evts[n + 1] = e
    BY <1>1, <1>2, AppendProperties
  <1> HIDE DEF s2, n
  <1>4. /\ errors2 = errors \cup (IF InError(e) THEN {n + 1} ELSE {})
        /\ enders2 = enders \cup (IF e.evt \in isEnder THEN {n + 1} ELSE {})
    BY <1>1, <1>3
  <1>5. errors \subseteq 1 .. n /\ enders \subseteq 1 .. n
    BY <1>3
  <1>6. /\ s.failed <=> errors # {}
        /\ s.ended <=> errors \cup enders # {}
        /\ s.suspect <=> ~s.ended
        /\ IF errors # {}
             THEN \E i \in errors : s.closer = s.evts[i].evt /\ \A j \in errors : i >= j
             ELSE IF enders # {}
             THEN \E i \in enders : s.closer = s.evts[i].evt /\ \A j \in enders : i <= j
             ELSE s.closer = -1
        /\ s.ho <=> \E i \in DOMAIN s.evts : s.evts[i].evt \in isHo
    BY DEF TellsTrue
  <1>7. s2.ho <=> \E i \in DOMAIN s2.evts : s2.evts[i].evt \in isHo
    <2>1. s.ho <=> \E i \in 1 .. n : s.evts[i].evt \in isHo
      BY <1>3, <1>6
    <2>2. (\E i \in 1 .. n + 1 : s2.evts[i].evt \in isHo)
             <=> (\E i \in 1 .. n : s.evts[i].evt \in isHo) \/ e.evt \in isHo
      <3>1. \A i \in 1 .. n + 1 : i = n + 1 \/ i \in 1 .. n
        BY <1>1
      <3>2. n + 1 \in 1 .. n + 1 /\ 1 .. n \subseteq 1 .. n + 1
        BY <1>1
      <3>3. QED
        BY <1>3, <3>1, <3>2, Zenon
    <2>3. s2.ho <=> s.ho \/ e.evt \in isHo
      BY <1>2
    <2>4. QED
      BY <1>3, <2>1, <2>2, <2>3, Zenon
  <1> HIDE DEF errors, enders, errors2, enders2
  <1>8. /\ s2.failed <=> errors2 # {}
        /\ s2.ended <=> errors2 \cup enders2 # {}
        /\ s2.suspect <=> ~s2.ended
    BY <1>2, <1>4, <1>6
  <1>9. IF errors2 # {}
          THEN \E i \in errors2 : s2.closer = s2.evts[i].evt /\ \A j \in errors2 : i >= j
          ELSE IF enders2 # {}
          THEN \E i \in enders2 : s2.closer = s2.evts[i].evt /\ \A j \in enders2 : i <= j
          ELSE s2.closer = -1
    <2>1. CASE InError(e)
      <3>1. /\ n + 1 \in errors2 /\ s2.closer = s2.evts[n + 1].evt
            /\ \A j \in errors2 : n + 1 >= j
        BY <1>1, <1>2, <1>3, <1>4, <1>5, <2>1
      <3>2. QED
        BY <3>1
    <2>2. CASE ~InError(e) /\ e.evt \in isEnder /\ ~s.ended
      <3>1. errors2 = {} /\ enders2 = {n + 1} /\ s2.closer = s2.evts[n + 1].evt
        BY <1>2, <1>3, <1>4, <1>6, <2>2
      <3>2. QED
        BY <1>1, <3>1
    <2>3. CASE ~InError(e) /\ ~(e.evt \in isEnder /\ ~s.ended)
      <3>1. errors2 = errors /\ s2.closer = s.closer
        BY <1>2, <1>4, <2>3
      <3>2. CASE errors # {}
        <4>1. PICK i \in errors : s.closer = s.evts[i].evt /\ \A j \in errors : i >= j
          BY <1>6, <3>2
        <4>2. s2.closer = s2.evts[i].evt
          BY <1>3, <1>5, <3>1, <4>1
        <4>3. QED
          BY <3>1, <3>2, <4>1, <4>2
      <3>3. CASE errors = {} /\ enders # {}
        <4>1. PICK i \in enders : s.closer = s.evts[i].evt /\ \A j \in enders : i <= j
          BY <1>6, <3>3
        <4>2. s2.closer = s2.evts[i].evt
          BY <1>3, <1>5, <3>1, <4>1
        <4>3. i \in enders2 /\ \A j \in enders2 : i <= j
          BY <1>1, <1>4, <1>5, <4>1
        <4>4. QED
          BY <3>1, <3>3, <4>2, <4>3
      <3>4. CASE errors = {} /\ enders = {}
        BY <1>4, <1>6, <2>3, <3>1, <3>4
      <3>5. QED
        BY <3>2, <3>3, <3>4
    <2>4. QED
      BY <2>1, <2>2, <2>3
  <1>10. QED
    BY <1>7, <1>8, <1>9 DEF TellsTrue, errors2, enders2, s2
-----------------------------------------------------------------------------
(***************************************************************************)
(* The types.  First what a step may touch.                                *)
(***************************************************************************)
PeerEvent(p) == PeerResets(p) \/ OnAccept(p) \/ OnEnd(p) \/ \E r \in Coming : OnRead(p, r)

LEMMA ConnSteps ==
    ASSUME Next
    PROVE  \/ \E p \in Peers : PeerEvent(p)
           \/ DoStuff \/ Route \/ RouteDone
           \/ UNCHANGED <<connVars, todo>>
  BY DEF Next, PeerEvent, HandleEvent, HandleBroken, OpenFiles, CloseFiles, DiskFails,
         WriteFails, WriteSession, Configure, SetSchema, AddInterestingEvents, SetWrite,
         Shutdown, Tick, thrVars, WriteDone

LEMMA SessSteps ==
    ASSUME Next
    PROVE  \/ HandleEvent \/ HandleBroken \/ OpenFiles \/ CloseFiles \/ WriteFails
           \/ \E k \in Keys : WriteSession(k)
           \/ RouteDone
           \/ UNCHANGED <<sessVars, fileVars>>
  BY DEF Next, PeerResets, OnAccept, OnEnd, OnRead, DoStuff, Route, Configure,
         SetSchema, AddInterestingEvents, SetWrite, Shutdown, Tick, DiskFails, sessVars, fileVars

LEMMA ConfSteps ==
    ASSUME Next
    PROVE  \/ \E s \in DOMAIN Schemas, w \in Writes : Configure(s, w)
           \/ SetSchema \/ AddInterestingEvents \/ SetWrite \/ Shutdown
           \/ UNCHANGED <<confVars, mainVars>>
  BY DEF Next, PeerResets, OnAccept, OnEnd, OnRead, DoStuff, Route, RouteDone,
         HandleEvent, HandleBroken, OpenFiles, CloseFiles, DiskFails, WriteFails,
         WriteSession, Tick, confVars, mainVars

LEMMA EnvSteps ==
    ASSUME Next
    PROVE  \/ Tick \/ DiskFails
           \/ \E p \in Peers : \E r \in Coming : OnRead(p, r)
           \/ UNCHANGED envVars
  BY DEF Next, PeerResets, OnAccept, OnEnd, DoStuff, Route, RouteDone, HandleEvent,
         HandleBroken, OpenFiles, CloseFiles, WriteFails, WriteSession, Configure,
         SetSchema, AddInterestingEvents, SetWrite, Shutdown, envVars

LEMMA EbslStays == ASSUME Next PROVE ebsl' = ebsl
  BY EnvSteps DEF Tick, DiskFails, OnRead, envVars

\* The parts of TypeOK.
ConnType ==
    /\ peer \in [Peers -> {"new", "reset", "open", "over"}]
    /\ inbuf \in [Peers -> Seq(Records)]
    /\ peersChanged = {p \in Peers : inbuf[p] # <<>>}
    /\ IsFiniteSet(peersChanged)
    /\ todo \in Seq(Peers)

SessType ==
    /\ sessions \in [Keys -> Sessions \cup {NoSession}]
    /\ {written, handled} \subseteq [Keys -> Seq(Events)]
    /\ lastWrite \in -1 .. MaxNow
    /\ timenow \in -1 .. MaxNow
    /\ files \subseteq 0 .. MaxNow
    /\ opened \subseteq Flags
    /\ taken \subseteq seen /\ seen \subseteq Open

ConfType ==
    /\ evtSet \in {Schemas[s] : s \in Good} \cup {{}}
    /\ parser \in Good \cup {NoSchema}
    /\ write \subseteq Flags
    /\ {keepalive, ready} \subseteq BOOLEAN
    /\ main \in {"idle", "schema", "events", "write"}
    /\ want \in [schema : DOMAIN Schemas, write : Writes] \cup {None}
    /\ configs \in 0 .. MaxConfigs

ThreadType ==
    /\ pc \in {"select", "route", "parse", "open", "each", "done", "dead", "killed"}
    /\ cur \in Events \cup BrokenRecords \cup {None, AtEnd}

EnvType ==
    /\ {ebsl, disk} \subseteq BOOLEAN
    /\ now \in 1 .. MaxNow
    /\ came \in 0 .. MaxEvts

LEMMA TypeParts ==
    /\ TypeOK /\ ThreadKnows => ConnType /\ SessType /\ ConfType /\ ThreadType /\ EnvType
    /\ ConnType /\ SessType /\ ConfType /\ ThreadType /\ EnvType => TypeOK
  BY DEF TypeOK, ThreadKnows, ConnType, SessType, ConfType, ThreadType, EnvType

LEMMA EnvTypeStep == ASSUME EnvType, Next PROVE EnvType'
  <1>1. MaxNow \in Nat \ {0} /\ MaxEvts \in Nat
    BY BuilderConstants
  <1>2. {ebsl', disk'} \subseteq BOOLEAN
    BY EbslStays, EnvSteps DEF EnvType, Tick, DiskFails, OnRead, envVars
  <1>3. now' \in 1 .. MaxNow /\ came' \in 0 .. MaxEvts
    <2>1. CASE Tick
      BY <1>1, <2>1 DEF EnvType, Tick
    <2>2. CASE DiskFails
      BY <2>2 DEF EnvType, DiskFails
    <2>3. ASSUME NEW p \in Peers, NEW r \in Coming, OnRead(p, r)
          PROVE  now' \in 1 .. MaxNow /\ came' \in 0 .. MaxEvts
      BY <1>1, <2>3 DEF EnvType, OnRead
    <2>4. CASE UNCHANGED envVars
      BY <2>4 DEF EnvType, envVars
    <2>5. QED
      BY <2>1, <2>2, <2>3, <2>4, EnvSteps
  <1>4. QED
    BY <1>2, <1>3 DEF EnvType

LEMMA ConfTypeStep == ASSUME ConfType, MainKnows, Next PROVE ConfType'
  <1>1. MaxConfigs \in Nat
    BY BuilderConstants
  <1>2. ASSUME NEW s \in DOMAIN Schemas, NEW w \in Writes, Configure(s, w) PROVE ConfType'
    <2>1. want' \in [schema : DOMAIN Schemas, write : Writes]
      BY <1>2 DEF Configure
    <2>2. configs' \in 0 .. MaxConfigs
      BY <1>1, <1>2 DEF ConfType, Configure
    <2>3. QED
      BY <1>2, <2>1, <2>2 DEF ConfType, Configure, confVars
  <1>3. main # "idle" => want \in [schema : DOMAIN Schemas, write : Writes]
    BY DEF ConfType, MainKnows
  <1>4. CASE SetSchema
    BY <1>3, <1>4 DEF ConfType, SetSchema, Good, Loads
  <1>5. CASE AddInterestingEvents
    <2>1. want.schema = parser /\ want.schema \in DOMAIN Schemas
      BY <1>3, <1>5 DEF AddInterestingEvents, MainKnows
    <2>2. parser \in Good
      BY <2>1, BuilderConstants DEF ConfType
    <2>3. QED
      BY <1>5, <2>1, <2>2 DEF ConfType, AddInterestingEvents
  <1>6. CASE SetWrite
    <2>1. \A i \in 1 .. 4 : FlagOrder[i] \in Flags
      BY DEF FlagOrder, Flags
    <2>2. write' \subseteq Flags
      BY <1>6, <2>1 DEF ConfType, SetWrite
    <2>3. main' \in {"idle", "write"} /\ want' \in {want, None}
      BY <1>6 DEF SetWrite
    <2>4. QED
      BY <1>6, <2>2, <2>3 DEF ConfType, SetWrite
  <1>7. CASE Shutdown
    BY <1>7 DEF ConfType, Shutdown, confVars
  <1>8. CASE UNCHANGED <<confVars, mainVars>>
    BY <1>8 DEF ConfType, confVars, mainVars
  <1>9. QED
    BY <1>2, <1>4, <1>5, <1>6, <1>7, <1>8, ConfSteps

LEMMA Appended ==
    ASSUME NEW S, NEW q \in Seq(S), NEW x \in S
    PROVE  Append(q, x) \in Seq(S) /\ Append(q, x) # <<>>
  BY AppendProperties

LEMMA Shortened ==
    ASSUME NEW S, NEW q \in Seq(S), q # <<>>
    PROVE  /\ Head(q) \in S /\ Tail(q) \in Seq(S)
           /\ Tail(q) = <<>> <=> Len(q) = 1
           /\ Len(Tail(q)) = Len(q) - 1 /\ Len(q) \in Nat
  <1>1. Len(q) \in Nat /\ Len(q) > 0
    BY EmptySeq
  <1>2. Tail(q) \in Seq(S) /\ Len(Tail(q)) = Len(q) - 1 /\ Head(q) \in S
    BY HeadTailProperties
  <1>3. Tail(q) = <<>> <=> Len(Tail(q)) = 0
    BY <1>2, EmptySeq
  <1>4. QED
    BY <1>1, <1>2, <1>3

LEMMA ComingType == ASSUME EnvType PROVE Coming \subseteq Records
  <1> SUFFICES ASSUME NEW r \in Coming PROVE r \in Records
    OBVIOUS
  <1>1. CASE r = [kind |-> "bad"] \/ r \in BrokenRecords
    BY <1>1 DEF Records
  <1>2. ASSUME NEW e \in EvtIds, NEW k \in Keys, NEW c \in Results(e),
               NEW i \in {now, IF now \in LateTimes THEN now - 1 ELSE now},
               r = [kind |-> "event", key |-> k, evt |-> e, rc |-> c, t |-> i % Day, real |-> i]
        PROVE  r \in Records
    <2>1. i \in 0 .. MaxNow /\ i \in Nat
      BY BuilderConstants DEF EnvType
    <2>2. i % Day \in 0 .. Day - 1
      <3>1. Day \in Nat /\ Day > 0
        BY BuilderConstants
      <3>2. QED
        BY <2>1, <3>1
    <2>3. c \in Codes \cup {"none"}
      BY DEF Results
    <2>4. r \in Events
      BY <1>2, <2>1, <2>2, <2>3 DEF Events
    <2>5. QED
      BY <2>4 DEF Records
  <1>3. QED
    BY <1>1, <1>2 DEF Coming

LEMMA ConnTypeStep == ASSUME ConnType, EnvType, Next PROVE ConnType'
  <1>1. ASSUME NEW p \in Peers, PeerResets(p) \/ OnAccept(p) PROVE ConnType'
    BY <1>1 DEF ConnType, PeerResets, OnAccept, thrVars
  <1>2. ASSUME NEW p \in Peers, CloseConnection(p), todo' = todo PROVE ConnType'
    <2>1. /\ peer' \in [Peers -> {"new", "reset", "open", "over"}]
          /\ inbuf' \in [Peers -> Seq(Records)]
          /\ todo' \in Seq(Peers)
      BY <1>2 DEF ConnType, CloseConnection
    <2>2. peersChanged' = {q \in Peers : inbuf'[q] # <<>>}
      BY <1>2 DEF ConnType, CloseConnection
    <2>3. IsFiniteSet(peersChanged')
      BY <1>2, FS_Subset DEF ConnType, CloseConnection
    <2>4. QED
      BY <2>1, <2>2, <2>3 DEF ConnType
  <1>3. ASSUME NEW p \in Peers, NEW r \in Coming, OnRead(p, r) PROVE ConnType'
    <2>1. r \in Records
      BY ComingType
    <2>2. Append(inbuf[p], r) \in Seq(Records) /\ Append(inbuf[p], r) # <<>>
      <3>1. inbuf[p] \in Seq(Records)
        BY DEF ConnType
      <3>2. QED
        BY <2>1, <3>1, Appended
    <2>3. /\ peer' \in [Peers -> {"new", "reset", "open", "over"}]
          /\ inbuf' \in [Peers -> Seq(Records)]
          /\ todo' \in Seq(Peers)
      BY <1>3, <2>2 DEF ConnType, OnRead, thrVars
    <2>4. peersChanged' = {q \in Peers : inbuf'[q] # <<>>}
      BY <1>3, <2>2 DEF ConnType, OnRead
    <2>5. IsFiniteSet(peersChanged')
      BY <1>3, FS_AddElement DEF ConnType, OnRead
    <2>6. QED
      BY <2>3, <2>4, <2>5 DEF ConnType
  <1>4. CASE DoStuff
    <2>1. Cardinality(peersChanged) \in Nat
      BY FS_CardinalityType DEF ConnType
    <2>2. peersChanged \subseteq Peers
      BY DEF ConnType
    <2>3. todo' \in [1 .. Cardinality(peersChanged) -> peersChanged]
      BY <1>4 DEF DoStuff, Orders
    <2>4. todo' \in Seq(Peers)
      BY <2>1, <2>2, <2>3
    <2>5. QED
      BY <1>4, <2>4 DEF ConnType, DoStuff, connVars
  <1>5. CASE Route
    <2> DEFINE p == Head(todo)
    <2>1. p \in Peers /\ Tail(todo) \in Seq(Peers)
      BY <1>5 DEF ConnType, Route
    <2>2. CASE inbuf[p] = <<>>
      BY <1>5, <2>1, <2>2 DEF ConnType, Route, connVars
    <2>3. CASE inbuf[p] # <<>> /\ Head(inbuf[p]).kind = "bad"
      <3>1. CloseConnection(p) /\ todo' = todo
        BY <1>5, <2>3 DEF Route
      <3>2. QED
        BY <1>2, <2>1, <3>1
    <2>4. CASE inbuf[p] # <<>> /\ Head(inbuf[p]).kind # "bad"
      <3>1. /\ inbuf' = [inbuf EXCEPT ![p] = Tail(inbuf[p])]
            /\ peersChanged' = IF Len(inbuf[p]) = 1 THEN peersChanged \ {p} ELSE peersChanged
            /\ peer' = peer /\ todo' = todo
        BY <1>5, <2>4 DEF Route
      <3> HIDE DEF p
      <3>2. inbuf[p] \in Seq(Records)
        BY <2>1 DEF ConnType
      <3>3. /\ Tail(inbuf[p]) \in Seq(Records)
            /\ Tail(inbuf[p]) = <<>> <=> Len(inbuf[p]) = 1
        BY <2>4, <3>2, Shortened
      <3>4. inbuf' \in [Peers -> Seq(Records)]
        BY <2>1, <3>1, <3>3 DEF ConnType
      <3>5. peersChanged' = {q \in Peers : inbuf'[q] # <<>>}
        BY <2>1, <2>4, <3>1, <3>3 DEF ConnType
      <3>6. IsFiniteSet(peersChanged')
        BY <3>1, FS_Subset DEF ConnType
      <3>7. QED
        BY <3>1, <3>4, <3>5, <3>6 DEF ConnType
    <2>5. QED
      BY <2>2, <2>3, <2>4
  <1>6. CASE RouteDone
    <2>1. CASE keepalive
      BY <1>6, <2>1 DEF ConnType, RouteDone, connVars
    <2>2. CASE ~keepalive
      <3>1. /\ peer' = [p \in Peers |-> IF peer[p] = "open" THEN "over" ELSE peer[p]]
            /\ inbuf' = [p \in Peers |-> <<>>]
            /\ peersChanged' = {} /\ todo' = todo
        BY <1>6, <2>2 DEF RouteDone
      <3>2. <<>> \in Seq(Records)
        BY EmptySeq
      <3>3. IsFiniteSet({})
        BY FS_EmptySet
      <3>4. QED
        BY <3>1, <3>2, <3>3 DEF ConnType
    <2>3. QED
      BY <2>1, <2>2
  <1>7. CASE UNCHANGED <<connVars, todo>>
    BY <1>7 DEF ConnType, connVars
  <1>8. ASSUME NEW p \in Peers, OnEnd(p) PROVE ConnType'
    BY <1>2, <1>8 DEF OnEnd, thrVars
  <1>9. QED
    BY <1>1, <1>3, <1>4, <1>5, <1>6, <1>7, <1>8, ConnSteps DEF PeerEvent

LEMMA ThreadTypeStep ==
    ASSUME ConnType, ThreadType, Next
    PROVE  ThreadType'
  <1>1. ASSUME NEW p \in Peers, PeerEvent(p)
        PROVE  ThreadType'
    BY <1>1 DEF ThreadType, PeerEvent, PeerResets, OnAccept, OnEnd, OnRead, thrVars
  <1>2. CASE DoStuff
    BY <1>2 DEF ThreadType, DoStuff
  <1>3. CASE Route
    <2> DEFINE p == Head(todo)
    <2>1. p \in Peers
      BY <1>3 DEF ConnType, Route
    <2>2. inbuf[p] # <<>> => Head(inbuf[p]) \in Records
      BY <2>1 DEF ConnType
    <2>3. inbuf[p] # <<>> /\ Head(inbuf[p]).kind # "bad"
            => Head(inbuf[p]) \in Events \cup BrokenRecords
      BY <2>2 DEF Records
    <2>4. QED
      BY <1>3, <2>3 DEF ThreadType, Route
  <1>4. CASE RouteDone
    BY <1>4 DEF ThreadType, RouteDone
  <1>5. CASE HandleEvent \/ HandleBroken
    BY <1>5 DEF ThreadType, HandleEvent, HandleBroken
  <1>6. CASE OpenFiles \/ CloseFiles \/ WriteFails
    BY <1>6 DEF ThreadType, OpenFiles, CloseFiles, WriteFails, WriteDone
  <1>7. ASSUME NEW k \in Keys, WriteSession(k) PROVE ThreadType'
    BY <1>7 DEF ThreadType, WriteSession
  <1>8. CASE SetSchema
    BY <1>8 DEF ThreadType, SetSchema
  <1>9. CASE AddInterestingEvents \/ SetWrite \/ Shutdown \/ Tick \/ DiskFails
    BY <1>9 DEF ThreadType, AddInterestingEvents, SetWrite, Shutdown, Tick, DiskFails,
                thrVars
  <1>10. ASSUME NEW s \in DOMAIN Schemas, NEW w \in Writes, Configure(s, w) PROVE ThreadType'
    BY <1>10 DEF ThreadType, Configure, thrVars
  <1>11. QED
    BY <1>1, <1>2, <1>3, <1>4, <1>5, <1>6, <1>7, <1>8, <1>9, <1>10 DEF Next, PeerEvent

LEMMA AddedIs ==
    ASSUME SessType, NEW e \in Events
    PROVE  /\ Found(e.key) \in Sessions
           /\ Added(e) = IF ebsl THEN EbsAddEvt(Found(e.key), e) ELSE AddEvt(Found(e.key), e)
           /\ Added(e) \in Sessions
           /\ Added(e).evts = Append(Found(e.key).evts, e)
  <1>1. e.key \in Keys
    BY EventFields
  <1>2. Found(e.key) \in Sessions
    BY <1>1, NewTypes DEF SessType, Found, Open
  <1>3. Added(e) = IF ebsl THEN EbsAddEvt(Found(e.key), e) ELSE AddEvt(Found(e.key), e)
    BY <1>1 DEF Added
  <1>4. QED
    BY <1>2, <1>3, AddType

\* What HandleEvent does: nothing to the sessions, or it adds the event.
LEMMA HandledIs ==
    ASSUME ThreadKnows, HandleEvent
    PROVE  \/ UNCHANGED <<sessions, handled, timenow>>
           \/ /\ cur \in Events /\ cur.key \in Keys
              /\ sessions' = [sessions EXCEPT ![cur.key] = Added(cur)]
              /\ handled' = [handled EXCEPT ![cur.key] = Append(@, cur)]
  <1>1. cur \in Events \cup BrokenRecords
    BY DEF HandleEvent, ThreadKnows
  <1>2. cur.kind = "event" => cur \in Events /\ cur.key \in Keys
    BY <1>1, NoneIsNoRecord, EventFields
  <1>3. QED
    BY <1>2 DEF HandleEvent

\* And HandleBroken: it leaves a session without an event, if any.
LEMMA BrokenIs ==
    ASSUME SessType, ThreadKnows, HandleBroken
    PROVE  \/ sessions' = sessions
           \/ \E k \in Keys : /\ sessions' = [sessions EXCEPT ![k] = Found(k)]
                              /\ Found(k) \in Sessions /\ Found(k) # NoSession
                              /\ k \in Open \/ Found(k).evts = <<>>
  <1>1. cur \in BrokenRecords
    BY NoneIsNoRecord DEF HandleBroken, ThreadKnows
  <1>2. CASE cur.kind = "garbled"
    BY <1>2 DEF HandleBroken
  <1>3. CASE cur.kind = "short"
    <2>1. cur.key \in Keys
      BY <1>1, <1>3 DEF BrokenRecords
    <2>2. Found(cur.key) \in Sessions
      BY <2>1, NewTypes DEF SessType, Found
    <2>3. cur.key \in Open \/ Found(cur.key).evts = <<>>
      BY <2>1, NewTypes DEF Found, Open
    <2>4. sessions' = [sessions EXCEPT ![cur.key] = Found(cur.key)]
      BY <1>3 DEF HandleBroken
    <2>5. QED
      BY <2>1, <2>2, <2>3, <2>4, NoneIsNoRecord
  <1>4. QED
    BY <1>1, <1>2, <1>3, NoneIsNoRecord

LEMMA WriteDoneType ==
    ASSUME SessType, NEW ks \in SUBSET Open, WriteDone(ks), handled' = handled,
           files' \subseteq 0 .. MaxNow
    PROVE  SessType'
  <1>1. \A k \in ks : k \in Keys /\ written[k] \in Seq(Events) /\ sessions[k].evts \in Seq(Events)
    BY DEF SessType, Open, Sessions
  <1>2. written' \in [Keys -> Seq(Events)]
    <2>1. \A k \in ks : written[k] \o sessions[k].evts \in Seq(Events)
      BY <1>1, ConcatProperties
    <2>2. written' = [k \in Keys |-> IF k \in ks THEN written[k] \o sessions[k].evts
                                             ELSE written[k]]
      BY DEF WriteDone
    <2>3. \A k \in Keys : written[k] \in Seq(Events)
      BY DEF SessType
    <2>4. QED
      BY <2>1, <2>2, <2>3, Zenon
  <1>3. sessions' \in [Keys -> Sessions \cup {NoSession}]
    BY DEF SessType, WriteDone
  <1>4. lastWrite' \in -1 .. MaxNow /\ timenow' \in -1 .. MaxNow
    BY BuilderConstants DEF SessType, WriteDone
  <1>5. opened' = {} /\ taken' = {} /\ seen' = {}
    BY DEF WriteDone
  <1>6. handled' \in [Keys -> Seq(Events)]
    BY DEF SessType
  <1>7. QED
    BY <1>2, <1>3, <1>4, <1>5, <1>6 DEF SessType

LEMMA SessTypeStep ==
    ASSUME SessType, ConfType, EnvType, ThreadKnows, Next
    PROVE  SessType'
  <1>0. MaxNow \in Nat
    BY BuilderConstants
  <1>1. CASE HandleEvent
    <2>1. CASE UNCHANGED <<sessions, handled, timenow>>
      BY <1>1, <2>1 DEF SessType, HandleEvent, Open
    <2>2. CASE /\ cur \in Events /\ cur.key \in Keys
               /\ sessions' = [sessions EXCEPT ![cur.key] = Added(cur)]
               /\ handled' = [handled EXCEPT ![cur.key] = Append(@, cur)]
      <3>1. cur \in Events /\ cur.key \in Keys
        BY <2>2
      <3>2. Added(cur) \in Sessions /\ Added(cur) # NoSession
        BY <3>1, AddedIs, NoneIsNoRecord
      <3>3. sessions' \in [Keys -> Sessions \cup {NoSession}] /\ Open \subseteq Open'
        BY <2>2, <3>1, <3>2 DEF SessType, Open
      <3>4. handled' \in [Keys -> Seq(Events)]
        <4>1. handled[cur.key] \in Seq(Events)
          BY <3>1 DEF SessType
        <4>2. Append(handled[cur.key], cur) \in Seq(Events)
          BY <3>1, <4>1, Appended
        <4>3. QED
          BY <2>2, <3>1, <4>2 DEF SessType
      <3>5. timenow' \in -1 .. MaxNow
        BY <1>0, <1>1, <2>2 DEF HandleEvent, SessType, EnvType
      <3>6. QED
        BY <1>1, <3>3, <3>4, <3>5 DEF SessType, HandleEvent
    <2>3. QED
      BY <1>1, <2>1, <2>2, HandledIs
  <1>8. CASE HandleBroken
    <2>1. UNCHANGED <<lastWrite, written, handled, fileVars>>
      BY <1>8 DEF HandleBroken
    <2>2. sessions' \in [Keys -> Sessions \cup {NoSession}] /\ Open \subseteq Open'
      BY <1>8, BrokenIs DEF SessType, Open
    <2>3. QED
      BY <2>1, <2>2 DEF SessType, fileVars
  <1>9. CASE WriteFails
    <2>1. files' \subseteq 0 .. MaxNow
      BY <1>0, <1>9 DEF WriteFails, SessType, ThreadKnows
    <2>2. QED
      BY <1>9, <2>1 DEF WriteFails, SessType, sessVars, Open
  <1>2. CASE OpenFiles
    <2>1. files' \subseteq 0 .. MaxNow /\ handled' = handled
      BY <1>0, <1>2 DEF OpenFiles, SessType, ThreadKnows
    <2>2. CASE ebsl
      BY <1>2, <2>1, <2>2, WriteDoneType DEF OpenFiles
    <2>3. CASE ~ebsl
      <3>1. write \in SUBSET Flags
        BY DEF ConfType
      <3>2. QED
        BY <1>2, <2>1, <2>3, <3>1 DEF OpenFiles, SessType, Open
    <2>4. QED
      BY <2>2, <2>3
  <1>3. CASE CloseFiles
    <2>1. taken \in SUBSET Open /\ files' \subseteq 0 .. MaxNow /\ handled' = handled
      BY <1>3 DEF CloseFiles, SessType
    <2>2. CASE WriteDone(taken)
      BY <2>1, <2>2, WriteDoneType
    <2>3. CASE ~WriteDone(taken)
      BY <1>3, <2>1, <2>3 DEF CloseFiles, SessType, Open
    <2>4. QED
      BY <2>2, <2>3
  <1>4. ASSUME NEW k \in Keys, WriteSession(k) PROVE SessType'
    BY <1>4 DEF WriteSession, SessType, sessVars, Open
  <1>5. CASE RouteDone
    BY <1>0, <1>5 DEF RouteDone, SessType, sessVars, Open
  <1>6. CASE UNCHANGED <<sessVars, fileVars>>
    BY <1>6 DEF SessType, sessVars, fileVars, Open
  <1>7. QED
    BY <1>1, <1>2, <1>3, <1>4, <1>5, <1>6, <1>8, <1>9, SessSteps

LEMMA TypeInit == Init => ConnType /\ SessType /\ ConfType /\ ThreadType /\ EnvType
  <1> SUFFICES ASSUME Init PROVE ConnType /\ SessType /\ ConfType /\ ThreadType /\ EnvType
    OBVIOUS
  <1>1. \E s \in Starts : parser = s.schema /\ ebsl = s.ebsl
    BY DEF Init
  <1>2. parser \in Good \cup {NoSchema} /\ ebsl \in BOOLEAN
    BY <1>1, BuilderConstants
  <1>3. <<>> \in Seq(Records) /\ <<>> \in Seq(Peers) /\ <<>> \in Seq(Events)
    BY EmptySeq
  <1>4. ConnType
    <2>1. IsFiniteSet(peersChanged)
      BY FS_EmptySet DEF Init
    <2>2. QED
      BY <1>3, <2>1 DEF Init, ConnType
  <1>5. SessType
    <2>1. MaxNow \in Nat
      BY BuilderConstants
    <2>2. QED
      BY <1>3, <2>1 DEF Init, SessType
  <1>6. ConfType
    <2>1. MaxConfigs \in Nat /\ Default \subseteq Flags
      BY BuilderConstants
    <2>2. QED
      BY <1>2, <2>1 DEF Init, ConfType
  <1>7. ThreadType
    BY DEF Init, ThreadType
  <1>8. EnvType
    <2>1. MaxNow \in Nat \ {0} /\ MaxEvts \in Nat
      BY BuilderConstants
    <2>2. QED
      BY <1>2, <2>1 DEF Init, EnvType
  <1>9. QED
    BY <1>4, <1>5, <1>6, <1>7, <1>8
-----------------------------------------------------------------------------
(***************************************************************************)
(* What the threads know.                                                  *)
(***************************************************************************)
LEMMA ThreadStep ==
    ASSUME ConnType, ThreadType, SessType, ConfType, EnvType, ThreadKnows, MainKnows,
           IsFiniteSet(peersChanged)', Next
    PROVE  ThreadKnows'
  <1>0. ebsl' = ebsl
    BY EbslStays
  <1>1. ASSUME NEW p \in Peers, PeerEvent(p)
        PROVE  ThreadKnows'
    BY <1>0, <1>1 DEF ThreadKnows, PeerEvent, PeerResets, OnAccept, OnEnd, OnRead, thrVars,
                      confVars, mainVars, fileVars
  <1>2. CASE DoStuff
    BY <1>0, <1>2 DEF ThreadKnows, DoStuff, mainVars
  <1>3. CASE Route
    <2> DEFINE p == Head(todo)
    <2>1. /\ keepalive' = keepalive /\ parser' = parser /\ evtSet' = evtSet
          /\ timenow' = timenow
      BY <1>3 DEF Route, mainVars, confVars, fileVars
    <2>2. CASE pc' = "parse"
      <3>1. inbuf[p] # <<>> /\ Head(inbuf[p]).kind # "bad" /\ cur' = Head(inbuf[p])
            /\ cur'.evt \in evtSet
        BY <1>3, <2>2 DEF Route
      <3>2. Head(inbuf[p]) \in Records
        <4>1. p \in Peers
          BY <1>3 DEF ConnType, Route
        <4>2. inbuf[p] \in Seq(Records)
          BY <4>1 DEF ConnType
        <4>3. QED
          BY <3>1, <4>2, Shortened
      <3>3. cur' \in Events \cup BrokenRecords
        BY <3>1, <3>2 DEF Records
      <3>4. cur' # AtEnd
        BY <3>3, NoneIsNoRecord
      <3>5. QED
        BY <1>0, <2>1, <2>2, <3>1, <3>3, <3>4 DEF ThreadKnows, MainKnows
    <2>3. CASE pc' # "parse"
      <3>1. pc' \in {"route", "dead"} /\ cur' = cur
        BY <1>3, <2>3 DEF Route
      <3>2. QED
        BY <1>0, <2>1, <3>1 DEF ThreadKnows
    <2>4. QED
      BY <2>2, <2>3
  <1>4. CASE RouteDone
    BY <1>0, <1>4 DEF ThreadKnows, RouteDone, mainVars, confVars
  <1>13. CASE HandleBroken \/ WriteFails
    <2>1. pc' = "dead" /\ cur' = cur /\ UNCHANGED <<keepalive, peersChanged>> /\ pc # "done"
      BY <1>13 DEF HandleBroken, WriteFails, mainVars, connVars
    <2>2. QED
      BY <1>0, <2>1 DEF ThreadKnows
  <1>5. CASE HandleEvent
    <2>1. now # -1
      BY BuilderConstants DEF EnvType
    <2>2. None # AtEnd
      BY NoneIsNoRecord
    <2>3. /\ pc = "parse" /\ keepalive' = keepalive
          /\ \/ pc' \in {"dead", "route"} /\ cur' \in {cur, None}
             \/ pc' = "open" /\ cur' = cur /\ timenow' = now
      BY <1>5 DEF HandleEvent, mainVars
    <2>4. pc' = "open" => cur \in Events
      BY <1>5, NoneIsNoRecord DEF HandleEvent, ThreadKnows
    <2>5. cur # AtEnd
      BY <2>3, NoneIsNoRecord DEF ThreadKnows
    <2>6. QED
      BY <1>0, <2>1, <2>2, <2>3, <2>4, <2>5 DEF ThreadKnows
  <1>6. CASE OpenFiles \/ CloseFiles
    <2>1. keepalive' = keepalive
      BY <1>6 DEF OpenFiles, CloseFiles, mainVars
    <2>2. ASSUME NEW ks, WriteDone(ks) PROVE ThreadKnows'
      <3>1. /\ cur' = None /\ pc' \in {"done", "route"}
            /\ pc' = "done" => cur = AtEnd
        BY <2>2 DEF WriteDone
      <3>2. QED
        BY <2>1, <3>1, NoneIsNoRecord DEF ThreadKnows
    <2>3. CASE /\ pc' \in {"each", "dead"} /\ UNCHANGED <<cur, timenow>>
               /\ pc \in {"open", "each"} /\ ~ebsl
      BY <1>0, <2>1, <2>3 DEF ThreadKnows
    <2>4. CASE OpenFiles
      BY <2>2, <2>3, <2>4 DEF OpenFiles
    <2>5. CASE CloseFiles
      <3>1. ~ebsl
        BY <2>5 DEF CloseFiles, ThreadKnows
      <3>2. QED
        BY <2>2, <2>3, <2>5, <3>1 DEF CloseFiles
    <2>6. QED
      BY <1>6, <2>4, <2>5
  <1>7. ASSUME NEW k \in Keys, WriteSession(k) PROVE ThreadKnows'
    BY <1>0, <1>7 DEF ThreadKnows, WriteSession, mainVars, confVars
  <1>8. CASE SetSchema
    <2>1. want.schema # NoSchema
      BY <1>8, BuilderConstants DEF SetSchema, MainKnows, ConfType
    <2>2. QED
      BY <1>0, <1>8, <2>1 DEF ThreadKnows, SetSchema, fileVars
  <1>9. CASE AddInterestingEvents \/ SetWrite \/ Tick \/ DiskFails
    BY <1>0, <1>9 DEF ThreadKnows, AddInterestingEvents, SetWrite, Tick, DiskFails, thrVars,
                      fileVars, confVars, mainVars
  <1>10. CASE Shutdown
    BY <1>0, <1>10 DEF ThreadKnows, Shutdown, thrVars, fileVars, confVars
  <1>11. ASSUME NEW s \in DOMAIN Schemas, NEW w \in Writes, Configure(s, w) PROVE ThreadKnows'
    BY <1>0, <1>11 DEF ThreadKnows, Configure, thrVars, fileVars, confVars
  <1>12. QED
    BY <1>1, <1>2, <1>3, <1>4, <1>5, <1>6, <1>7, <1>8, <1>9, <1>10, <1>11, <1>13
       DEF Next, PeerEvent

LEMMA MainStep ==
    ASSUME ConfType, MainKnows, Next
    PROVE  MainKnows'
  <1>1. main # "idle" => want \in [schema : DOMAIN Schemas, write : Writes]
    BY DEF ConfType, MainKnows
  <1>2. ASSUME NEW s \in DOMAIN Schemas, NEW w \in Writes, Configure(s, w) PROVE MainKnows'
    <2>1. want' # None
      BY <1>2 DEF Configure, None
    <2>2. QED
      BY <1>2, <2>1 DEF Configure, MainKnows, confVars
  <1>3. CASE SetSchema
    <2>1. want.schema # NoSchema
      BY <1>1, <1>3, BuilderConstants DEF SetSchema
    <2>2. QED
      BY <1>3, <2>1 DEF SetSchema, MainKnows
  <1>4. CASE AddInterestingEvents
    <2>1. parser \in Good /\ parser = want.schema /\ parser # NoSchema
      BY <1>1, <1>4, BuilderConstants DEF AddInterestingEvents, MainKnows, ConfType, Good
    <2>2. evtSet' # {}
      BY <1>4, <2>1 DEF AddInterestingEvents, Good, Loads
    <2>3. QED
      BY <1>4, <2>1, <2>2 DEF AddInterestingEvents, MainKnows
  <1>5. CASE SetWrite \/ Shutdown
    BY <1>5 DEF SetWrite, Shutdown, MainKnows, confVars
  <1>6. CASE UNCHANGED <<confVars, mainVars>>
    BY <1>6 DEF MainKnows, confVars, mainVars
  <1>7. QED
    BY <1>2, <1>3, <1>4, <1>5, <1>6, ConfSteps
-----------------------------------------------------------------------------
(***************************************************************************)
(* The names of the files.                                                 *)
(***************************************************************************)
LEMMA FilesStep ==
    ASSUME ThreadType, SessType, EnvType, ThreadKnows, FilesAreOlder, Next
    PROVE  FilesAreOlder'
  <1>0. MaxNow \in Nat \ {0} /\ now \in 1 .. MaxNow
    BY BuilderConstants DEF EnvType
  <1>1. ASSUME UNCHANGED <<timenow, files, lastWrite, cur>>,
               \/ pc' \in {pc, "dead", "killed"}
               \/ {pc, pc'} \subseteq {"select", "route"}
        PROVE  FilesAreOlder'
    BY <1>1 DEF FilesAreOlder
  <1>2. ASSUME NEW p \in Peers, PeerEvent(p)
        PROVE  FilesAreOlder'
    BY <1>1, <1>2 DEF PeerEvent, PeerResets, OnAccept, OnEnd, OnRead, thrVars, sessVars,
                      fileVars
  <1>3. CASE DoStuff
    BY <1>1, <1>3 DEF DoStuff, sessVars, fileVars
  <1>4. CASE Route
    <2>1. UNCHANGED <<timenow, files, lastWrite>> /\ pc = "route"
          /\ pc' \in {"route", "dead", "parse"}
      BY <1>4 DEF Route, sessVars, fileVars
    <2>2. QED
      BY <2>1 DEF FilesAreOlder
  <1>5. CASE RouteDone
    <2>1. CASE keepalive
      BY <1>1, <1>5, <2>1 DEF RouteDone, sessVars
    <2>2. CASE ~keepalive
      BY <1>5, <2>2 DEF RouteDone, sessVars, FilesAreOlder
    <2>3. QED
      BY <2>1, <2>2
  <1>15. CASE HandleBroken
    BY <1>1, <1>15 DEF HandleBroken, fileVars
  <1>16. CASE WriteFails
    BY <1>16 DEF WriteFails, FilesAreOlder
  <1>6. CASE HandleEvent
    <2>1. /\ UNCHANGED <<files, lastWrite>> /\ pc = "parse"
          /\ \/ pc' \in {"dead", "route"}
             \/ pc' = "open" /\ cur' = cur /\ timenow' = now /\ now > lastWrite
      BY <1>6 DEF HandleEvent, WriteTime
    <2>2. cur # AtEnd
      BY <2>1, NoneIsNoRecord DEF ThreadKnows
    <2>3. QED
      BY <1>0, <2>1, <2>2 DEF FilesAreOlder
  <1>7. ASSUME NEW ks, WriteDone(ks), pc \in {"open", "each"},
               files' \subseteq files \cup {timenow}
        PROVE  FilesAreOlder'
    <2>1. CASE cur = AtEnd
      BY <1>7, <2>1 DEF WriteDone, FilesAreOlder
    <2>2. CASE cur # AtEnd
      <3>1. /\ pc' = "route" /\ lastWrite' = timenow
            /\ timenow > 0 /\ timenow > lastWrite
        BY <1>7, <2>2 DEF WriteDone, FilesAreOlder
      <3>2. /\ 0 \notin files
            /\ \A f \in files : f <= lastWrite \/ f <= timenow
        <4>1. CASE pc = "open"
          BY <2>2, <4>1 DEF FilesAreOlder
        <4>2. CASE pc = "each"
          BY <2>2, <4>2 DEF FilesAreOlder
        <4>3. QED
          BY <1>7, <4>1, <4>2
      <3>3. /\ timenow \in Int /\ lastWrite \in Int
            /\ \A f \in files : f \in Int
        BY <1>0 DEF SessType
      <3>4. 0 \notin files' /\ \A f \in files' : f <= timenow
        BY <1>7, <3>1, <3>2, <3>3
      <3>5. QED
        BY <3>1, <3>4 DEF FilesAreOlder
    <2>3. QED
      BY <2>1, <2>2
  <1>8. CASE OpenFiles
    <2>1. CASE ebsl
      BY <1>7, <1>8, <2>1 DEF OpenFiles
    <2>2. CASE ~ebsl
      <3>1. /\ pc = "open" /\ pc' = "each" /\ files' = files \cup {timenow}
            /\ UNCHANGED <<cur, lastWrite, timenow>>
        BY <1>8, <2>2 DEF OpenFiles
      <3>2. /\ timenow \in Int /\ lastWrite \in Int
            /\ \A f \in files : f \in Int
        BY <1>0 DEF SessType
      <3>3. QED
        BY <3>1, <3>2 DEF FilesAreOlder
    <2>3. QED
      BY <2>1, <2>2
  <1>9. CASE CloseFiles
    <2>1. CASE WriteDone(taken)
      BY <1>7, <1>9, <2>1 DEF CloseFiles
    <2>2. CASE ~WriteDone(taken)
      BY <1>1, <1>9, <2>2 DEF CloseFiles
    <2>3. QED
      BY <2>1, <2>2
  <1>10. ASSUME NEW k \in Keys, WriteSession(k) PROVE FilesAreOlder'
    BY <1>1, <1>10 DEF WriteSession, sessVars
  <1>11. CASE SetSchema
    BY <1>1, <1>11 DEF SetSchema, sessVars, fileVars
  <1>12. CASE AddInterestingEvents \/ SetWrite \/ Shutdown \/ Tick \/ DiskFails
    BY <1>1, <1>12 DEF AddInterestingEvents, SetWrite, Shutdown, Tick, DiskFails, thrVars,
                       sessVars, fileVars
  <1>13. ASSUME NEW s \in DOMAIN Schemas, NEW w \in Writes, Configure(s, w)
         PROVE  FilesAreOlder'
    BY <1>1, <1>13 DEF Configure, thrVars, sessVars, fileVars
  <1>14. QED
    BY <1>2, <1>3, <1>4, <1>5, <1>6, <1>8, <1>9, <1>10, <1>11, <1>12, <1>13, <1>15, <1>16
    DEF Next, PeerEvent

-----------------------------------------------------------------------------
(***************************************************************************)
(* What sessions say of themselves, and what a write has seen of them.     *)
(***************************************************************************)
\* The last event of a session after one has been added.
LEMMA LastAdded ==
    ASSUME NEW q \in Seq(Events), NEW e \in Events
    PROVE  Append(q, e)[Len(Append(q, e))] = e
  BY AppendProperties

\* A thread that has raised stays so, and the process may end.
LEMMA DeadStays == ASSUME Next, pc \in {"dead", "killed"} PROVE pc' \in {"dead", "killed"}
  BY DEF Next, PeerEvent, PeerResets, OnAccept, OnEnd, OnRead, DoStuff, Route, RouteDone,
         HandleEvent, HandleBroken, OpenFiles, CloseFiles, DiskFails, WriteFails,
         WriteSession, Configure, SetSchema, AddInterestingEvents, SetWrite, Shutdown, Tick,
         thrVars

LEMMA SessionsStep ==
    ASSUME SessType, ThreadKnows, SessionsKnow, Next
    PROVE  SessionsKnow'
  <1>0. ebsl' = ebsl
    BY EbslStays
  <1>1. ASSUME \A k \in Keys : sessions'[k] \in {sessions[k], NoSession}
        PROVE  SessionsKnow'
    BY <1>0, <1>1, DeadStays DEF SessionsKnow, Open, Last
  <1>8. CASE HandleBroken
    <2>1. CASE sessions' = sessions
      BY <1>1, <2>1
    <2>2. CASE sessions' # sessions
      <3>1. PICK j \in Keys : /\ sessions' = [sessions EXCEPT ![j] = Found(j)]
                             /\ (j \in Open \/ Found(j).evts = <<>>)
        BY <1>8, <2>2, BrokenIs
      <3>2. j \notin Open
        BY <2>2, <3>1 DEF SessType, Found, Open
      <3>3. ~ebsl => TellsTrue(Found(j))
        BY <3>2, NewTells DEF Found, Open
      <3>4. pc' = "dead"
        BY <1>8 DEF HandleBroken
      <3>5. ASSUME NEW k \in Open'
            PROVE  ~ebsl => /\ TellsTrue(sessions'[k])
                            /\ sessions'[k].evts # <<>> => sessions'[k].lastEvt = Last(k)'.t
        <4>1. CASE k = j
          BY <3>1, <3>2, <3>3, <4>1 DEF SessType
        <4>2. CASE k # j
          BY <3>1, <4>2 DEF SessionsKnow, Open, Last, SessType
        <4>3. QED
          BY <4>1, <4>2
      <3>6. QED
        BY <1>0, <3>4, <3>5 DEF SessionsKnow
    <2>3. QED
      BY <2>1, <2>2
  <1>2. CASE HandleEvent
    <2>1. CASE sessions' = sessions
      BY <1>1, <2>1
    <2>2. CASE /\ cur \in Events /\ cur.key \in Keys
               /\ sessions' = [sessions EXCEPT ![cur.key] = Added(cur)]
      <3>1. cur \in Events /\ cur.key \in Keys
        BY <2>2
      <3> DEFINE b == Found(cur.key)
      <3>2. /\ b \in Sessions
            /\ Added(cur) = IF ebsl THEN EbsAddEvt(b, cur) ELSE AddEvt(b, cur)
            /\ Added(cur) \in Sessions
            /\ Added(cur).evts = Append(b.evts, cur)
        BY <3>1, AddedIs
      <3>3. b.evts \in Seq(Events)
        BY <3>2 DEF Sessions
      <3>4. /\ sessions'[cur.key] = Added(cur)
            /\ \A k \in Keys \ {cur.key} : sessions'[k] = sessions[k]
        BY <2>2, <3>1 DEF SessType
      <3>5. Added(cur).evts # <<>> /\ Added(cur).evts[Len(Added(cur).evts)] = cur
        BY <3>1, <3>2, <3>3, Appended, LastAdded
      <3>6. ASSUME ~ebsl PROVE TellsTrue(Added(cur)) /\ Added(cur).lastEvt = cur.t
        <4>1. TellsTrue(b)
          BY <3>1, <3>6, NewTells DEF SessionsKnow, Found, Open
        <4>2. QED
          BY <3>1, <3>2, <3>6, <4>1, AddTells, AddType
      <3>7. ASSUME NEW k \in Open'
            PROVE  /\ sessions'[k].evts # <<>>
                   /\ ~ebsl => TellsTrue(sessions'[k]) /\ sessions'[k].lastEvt = Last(k)'.t
        <4>1. CASE k = cur.key
          BY <3>4, <3>5, <3>6, <4>1 DEF Last
        <4>2. CASE k # cur.key
          <5>1. pc = "parse"
            BY <1>2 DEF HandleEvent
          <5>2. QED
            BY <3>4, <4>2, <5>1 DEF SessionsKnow, Open, Last
        <4>3. QED
          BY <4>1, <4>2
      <3>8. QED
        BY <1>0, <3>7 DEF SessionsKnow
    <2>3. QED
      BY <1>2, <2>1, <2>2, HandledIs
  <1>3. ASSUME NEW ks, WriteDone(ks) PROVE SessionsKnow'
    BY <1>1, <1>3 DEF WriteDone
  <1>4. CASE OpenFiles
    BY <1>1, <1>3, <1>4 DEF OpenFiles
  <1>5. CASE CloseFiles
    BY <1>1, <1>3, <1>5 DEF CloseFiles
  <1>6. CASE \/ \E k \in Keys : WriteSession(k)
             \/ RouteDone \/ WriteFails \/ UNCHANGED <<sessVars, fileVars>>
    BY <1>1, <1>6 DEF WriteSession, RouteDone, WriteFails, sessVars
  <1>7. QED
    BY <1>2, <1>4, <1>5, <1>6, <1>8, SessSteps

\* While a write runs nothing else changes the sessions, or the event it is
\* for.
LEMMA SeenStep ==
    ASSUME SessType, SeenWereIdle, Next
    PROVE  SeenWereIdle'
  <1>1. CASE OpenFiles
    <2>1. pc' = "each" => seen' = {}
      BY <1>1 DEF OpenFiles, WriteDone
    <2>2. QED
      BY <2>1 DEF SeenWereIdle
  <1>2. ASSUME NEW k \in Keys, WriteSession(k) PROVE SeenWereIdle'
    <2>1. /\ UNCHANGED <<cur, sessions>> /\ pc = "each" /\ k \notin seen
          /\ pc' = "each" => /\ seen' = seen \cup {k}
                             /\ taken' = IF Closed(k) \/ Suspect(k) THEN taken \cup {k} ELSE taken
      BY <1>2 DEF WriteSession, sessVars
    <2>2. \A j : (Closed(j)' <=> Closed(j)) /\ (Suspect(j)' <=> Suspect(j))
      BY <2>1 DEF Closed, Suspect, Idle
    <2>3. taken \subseteq seen
      BY DEF SessType
    <2>4. QED
      BY <2>1, <2>2, <2>3 DEF SeenWereIdle
  <1>3. ASSUME pc' = "each" => pc = "each" /\ UNCHANGED <<cur, sessions, seen, taken>>
        PROVE  SeenWereIdle'
    <2>1. SUFFICES ASSUME pc' = "each" PROVE SeenWereIdle'
      BY DEF SeenWereIdle
    <2>2. \A j : (Closed(j)' <=> Closed(j)) /\ (Suspect(j)' <=> Suspect(j))
      BY <1>3, <2>1 DEF Closed, Suspect, Idle
    <2>3. QED
      BY <1>3, <2>1, <2>2 DEF SeenWereIdle
  <1>4. CASE CloseFiles
    BY <1>3, <1>4 DEF CloseFiles, WriteDone
  <1>5. ASSUME NEW p \in Peers, PeerEvent(p)
        PROVE  SeenWereIdle'
    BY <1>3, <1>5 DEF PeerEvent, PeerResets, OnAccept, OnEnd, OnRead, thrVars
  <1>6. CASE DoStuff \/ Route \/ RouteDone \/ HandleEvent \/ HandleBroken \/ WriteFails
    BY <1>3, <1>6 DEF DoStuff, Route, RouteDone, HandleEvent, HandleBroken, WriteFails
  <1>7. CASE SetSchema
    BY <1>3, <1>7 DEF SetSchema, sessVars, fileVars
  <1>8. CASE AddInterestingEvents \/ SetWrite \/ Shutdown \/ Tick \/ DiskFails
    BY <1>3, <1>8 DEF AddInterestingEvents, SetWrite, Shutdown, Tick, DiskFails, thrVars,
                      sessVars, fileVars
  <1>9. ASSUME NEW s \in DOMAIN Schemas, NEW w \in Writes, Configure(s, w)
        PROVE  SeenWereIdle'
    BY <1>3, <1>9 DEF Configure, thrVars, sessVars, fileVars
  <1>10. QED
    BY <1>1, <1>2, <1>4, <1>5, <1>6, <1>7, <1>8, <1>9 DEF Next, PeerEvent
-----------------------------------------------------------------------------
(***************************************************************************)
(* The events filed.                                                       *)
(***************************************************************************)
InSession(k) == IF k \in Open THEN sessions[k].evts ELSE <<>>

LEMMA ConcatAppend ==
    ASSUME NEW a \in Seq(Events), NEW b \in Seq(Events), NEW e \in Events
    PROVE  Append(a \o b, e) = a \o Append(b, e)
  <1>1. <<e>> \in Seq(Events) /\ a \o b \in Seq(Events)
    BY ConcatProperties
  <1>2. (a \o b) \o <<e>> = a \o (b \o <<e>>)
    BY <1>1, ConcatAssociative
  <1>3. Append(a \o b, e) = (a \o b) \o <<e>> /\ Append(b, e) = b \o <<e>>
    BY <1>1, AppendIsConcat
  <1>4. QED
    BY <1>2, <1>3

LEMMA HandledStep ==
    ASSUME ThreadType, SessType, ThreadKnows, MainKnows, NothingLost, Next
    PROVE  NothingLost'
  <1> SUFFICES ASSUME pc' # "done" PROVE NothingLost'
    BY DEF NothingLost
  <1>1. ASSUME UNCHANGED <<sessions, written, handled>>, pc # "done"
        PROVE  NothingLost'
    BY <1>1 DEF NothingLost, Open
  <1>2. ASSUME NEW ks \in SUBSET Open, WriteDone(ks), handled' = handled, pc # "done"
        PROVE  NothingLost'
    <2>1. /\ sessions' = [k \in Keys |-> IF k \in ks THEN NoSession ELSE sessions[k]]
          /\ written' = [k \in Keys |-> IF k \in ks THEN written[k] \o sessions[k].evts
                                                   ELSE written[k]]
      BY <1>2 DEF WriteDone
    <2>2. SUFFICES ASSUME NEW k \in Keys PROVE (handled[k] = written[k] \o InSession(k))'
      BY DEF NothingLost, InSession
    <2>3. handled[k] = written[k] \o InSession(k)
      BY <1>2 DEF NothingLost, InSession
    <2>4. CASE k \in ks
      <3>1. written'[k] = handled[k]
        BY <2>1, <2>3, <2>4 DEF InSession
      <3>2. InSession(k)' = <<>>
        BY <2>1, <2>4 DEF InSession, Open
      <3>3. handled[k] \in Seq(Events)
        BY DEF SessType
      <3>4. QED
        BY <1>2, <3>1, <3>2, <3>3, ConcatEmptySeq
    <2>5. CASE k \notin ks
      <3>1. written'[k] = written[k] /\ sessions'[k] = sessions[k]
        BY <2>1, <2>5
      <3>2. QED
        BY <1>2, <2>3, <3>1 DEF InSession, Open
    <2>6. QED
      BY <2>4, <2>5
  <1>3. CASE HandleEvent
    <2>1. CASE sessions' = sessions /\ handled' = handled
      BY <1>1, <1>3, <2>1 DEF HandleEvent
    <2>2. CASE /\ cur \in Events /\ cur.key \in Keys
               /\ sessions' = [sessions EXCEPT ![cur.key] = Added(cur)]
               /\ handled' = [handled EXCEPT ![cur.key] = Append(@, cur)]
      <3>1. cur \in Events /\ cur.key \in Keys
        BY <2>2
      <3>2. written' = written /\ pc = "parse"
        BY <1>3 DEF HandleEvent
      <3>3. SUFFICES ASSUME NEW k \in Keys PROVE (handled[k] = written[k] \o InSession(k))'
        BY DEF NothingLost, InSession
      <3>4. handled[k] = written[k] \o InSession(k)
        BY <3>2 DEF NothingLost, InSession
      <3>5. CASE k = cur.key
        <4>1. /\ Added(cur) \in Sessions /\ Added(cur) # NoSession
              /\ Found(k) \in Sessions
              /\ Added(cur).evts = Append(Found(k).evts, cur)
          BY <3>1, <3>5, AddedIs, NoneIsNoRecord
        <4>2. Found(k).evts = InSession(k)
          BY NewTypes DEF Found, InSession, Open
        <4>3. InSession(k)' = Append(InSession(k), cur)
          BY <2>2, <3>1, <3>5, <4>1, <4>2 DEF SessType, InSession, Open
        <4>4. handled'[k] = Append(handled[k], cur)
          BY <2>2, <3>5 DEF SessType
        <4>5. InSession(k) \in Seq(Events) /\ written[k] \in Seq(Events)
          BY <4>1, <4>2 DEF SessType, Sessions
        <4>6. Append(written[k] \o InSession(k), cur) = written[k] \o Append(InSession(k), cur)
          BY <3>1, <4>5, ConcatAppend
        <4>7. QED
          BY <3>2, <3>4, <4>3, <4>4, <4>6
      <3>6. CASE k # cur.key
        <4>1. sessions'[k] = sessions[k] /\ handled'[k] = handled[k]
          BY <2>2, <3>6 DEF SessType
        <4>2. QED
          BY <3>2, <3>4, <4>1 DEF InSession, Open
      <3>7. QED
        BY <3>5, <3>6
    <2>3. QED
      BY <1>3, <2>1, <2>2, HandledIs
  \* A session without an event is as good as none.
  <1>10. CASE HandleBroken
    <2>1. UNCHANGED <<written, handled>> /\ pc = "parse"
      BY <1>10 DEF HandleBroken
    <2>2. \A k \in Keys : InSession(k)' = InSession(k)
      <3>1. CASE sessions' = sessions
        BY <3>1 DEF InSession, Open
      <3>2. CASE sessions' # sessions
        <4>1. PICK j \in Keys : /\ sessions' = [sessions EXCEPT ![j] = Found(j)]
                               /\ Found(j) # NoSession
                               /\ (j \in Open \/ Found(j).evts = <<>>)
          BY <1>10, <3>2, BrokenIs
        <4>2. j \notin Open
          BY <3>2, <4>1 DEF SessType, Found, Open
        <4>3. QED
          BY <4>1, <4>2 DEF SessType, InSession, Open
      <3>3. QED
        BY <3>1, <3>2
    <2>3. QED
      BY <2>1, <2>2 DEF NothingLost, InSession
  <1>11. CASE WriteFails
    BY <1>1, <1>11 DEF WriteFails, sessVars
  <1>4. CASE OpenFiles
    <2>1. Open \in SUBSET Open
      OBVIOUS
    <2>2. QED
      BY <1>1, <1>2, <1>4, <2>1 DEF OpenFiles
  <1>5. CASE CloseFiles
    <2>1. taken \in SUBSET Open
      BY DEF SessType
    <2>2. QED
      BY <1>1, <1>2, <1>5, <2>1 DEF CloseFiles
  <1>6. ASSUME NEW k \in Keys, WriteSession(k) PROVE NothingLost'
    BY <1>1, <1>6 DEF WriteSession, sessVars
  <1>7. CASE RouteDone
    BY <1>1, <1>7 DEF RouteDone, sessVars
  <1>8. CASE UNCHANGED <<sessVars, fileVars>>
    <2>1. pc # "done"
      <3>1. pc = "done" => ~keepalive /\ main = "idle"
        BY DEF ThreadKnows, MainKnows
      <3>2. ~SetSchema \/ main = "schema"
        BY DEF SetSchema
      <3>3. pc = "done" => pc' = "done"
        BY <3>1 DEF Next, PeerResets, OnAccept, OnEnd, OnRead, DoStuff, Route, RouteDone,
                    HandleEvent, HandleBroken, OpenFiles, CloseFiles, DiskFails, WriteFails,
                    WriteSession, Configure, SetSchema, AddInterestingEvents, SetWrite,
                    Shutdown, Tick, thrVars
      <3>4. QED
        BY <3>3
    <2>2. QED
      BY <1>1, <1>8, <2>1 DEF sessVars
  <1>9. QED
    BY <1>3, <1>4, <1>5, <1>6, <1>7, <1>8, <1>10, <1>11, SessSteps

-----------------------------------------------------------------------------
LEMMA InvInit == Init => Inv
  <1> SUFFICES ASSUME Init PROVE Inv
    OBVIOUS
  <1>1. ConnType /\ SessType /\ ConfType /\ ThreadType /\ EnvType
    BY TypeInit
  <1>2. TypeOK
    BY <1>1, TypeParts
  <1>3. ThreadKnows
    <2>1. None # AtEnd
      BY NoneIsNoRecord
    <2>2. QED
      BY <1>1, <2>1 DEF Init, ThreadKnows, ConnType
  <1>4. Open = {}
    BY DEF Init, Open
  <1>5. MainKnows
    <2>1. parser # NoSchema => evtSet = Schemas[parser] /\ parser \in Good
      BY <1>1 DEF Init, ConfType
    <2>2. parser # NoSchema => evtSet # {}
      BY <2>1 DEF Good, Loads
    <2>3. parser = NoSchema => evtSet = {}
      BY DEF Init
    <2>4. QED
      BY <2>2, <2>3 DEF Init, MainKnows
  <1>6. FilesAreOlder
    BY DEF Init, FilesAreOlder
  <1>7. SessionsKnow /\ SeenWereIdle
    BY <1>4 DEF Init, SessionsKnow, SeenWereIdle
  <1>8. NothingLost
    <2>1. <<>> \o <<>> = <<>>
      BY ConcatEmptySeq, EmptySeq
    <2>2. \A k \in Keys : handled[k] = <<>> /\ written[k] = <<>>
      BY DEF Init
    <2>3. QED
      BY <1>4, <2>1, <2>2 DEF NothingLost
  <1>9. QED
    BY <1>2, <1>3, <1>5, <1>6, <1>7, <1>8 DEF Inv

LEMMA InvStep == Inv /\ [Next]_vars => Inv'
  <1> SUFFICES ASSUME Inv, [Next]_vars PROVE Inv'
    OBVIOUS
  <1>1. CASE Next
    <2>1. ConnType /\ SessType /\ ConfType /\ ThreadType /\ EnvType
      BY TypeParts DEF Inv
    <2>2. ConnType' /\ SessType' /\ ConfType' /\ ThreadType' /\ EnvType'
      BY <1>1, <2>1, ConnTypeStep, SessTypeStep, ConfTypeStep, ThreadTypeStep, EnvTypeStep
         DEF Inv
    <2>3. TypeOK'
      BY <2>2 DEF TypeOK, ConnType, SessType, ConfType, ThreadType, EnvType
    <2>4. IsFiniteSet(peersChanged)'
      BY <2>2 DEF ConnType
    <2>5. ThreadKnows' /\ MainKnows'
      BY <1>1, <2>1, <2>4, ThreadStep, MainStep DEF Inv
    <2>6. FilesAreOlder' /\ SessionsKnow' /\ SeenWereIdle' /\ NothingLost'
      BY <1>1, <2>1, FilesStep, SessionsStep, SeenStep, HandledStep DEF Inv
    <2>7. QED
      BY <2>3, <2>5, <2>6 DEF Inv
  <1>2. CASE UNCHANGED vars
    BY <1>2 DEF Inv, vars, connVars, thrVars, sessVars, fileVars, confVars, mainVars,
                envVars, TypeOK, ThreadKnows, MainKnows, FilesAreOlder, SessionsKnow, SeenWereIdle,
                NothingLost, Open, Closed, Suspect, Idle, Last
  <1>3. QED
    BY <1>1, <1>2

LEMMA Invariant == Spec => []Inv
  BY InvInit, InvStep, PTL DEF Spec

\* Every variable of a session builder keeps its type, for any peers, keys,
\* schemas and bounds.
THEOREM BuilderTypesHold == Spec => []TypeOK
  <1>1. Inv => TypeOK
    BY DEF Inv
  <1>2. QED
    BY <1>1, Invariant, PTL

\* However events come, writes fall and the configuration changes, every event
\* that was filed is written or in an open session, once and in order.
THEOREM NoEventLost == Spec => []NothingLost
  <1>1. Inv => NothingLost
    BY DEF Inv
  <1>2. QED
    BY <1>1, Invariant, PTL

LEMMA FirstAndLast ==
    ASSUME NEW S \in SUBSET Nat, NEW i \in S
    PROVE  /\ (\A j \in S : i >= j) => Most(S) = i
           /\ (\A j \in S : i <= j) => Least(S) = i
  <1>1. ASSUME \A j \in S : i >= j PROVE Most(S) = i
    <2>1. Most(S) \in S /\ \A j \in S : Most(S) >= j
      <3>1. \E m \in S : \A j \in S : m >= j
        BY <1>1
      <3>2. QED
        BY <3>1, Zenon DEF Most
    <2>2. PICK m \in S : m = Most(S) /\ \A j \in S : m >= j
      BY <2>1
    <2>3. m >= i /\ i >= m /\ m \in Nat /\ i \in Nat
      BY <1>1, <2>2
    <2>4. QED
      BY <2>2, <2>3
  <1>2. ASSUME \A j \in S : i <= j PROVE Least(S) = i
    <2>1. Least(S) \in S /\ \A j \in S : Least(S) <= j
      <3>1. \E m \in S : \A j \in S : m <= j
        BY <1>2
      <3>2. QED
        BY <3>1, Zenon DEF Least
    <2>2. PICK m \in S : m = Least(S) /\ \A j \in S : m <= j
      BY <2>1
    <2>3. m >= i /\ i >= m /\ m \in Nat /\ i \in Nat
      BY <1>2, <2>2
    <2>4. QED
      BY <2>2, <2>3
  <1>3. QED
    BY <1>1, <1>2

\* At any time, what an open session says of itself is true of its events.
THEOREM SessionsTruthful == Spec => []SessionsTellTrue
  <1>1. ASSUME NEW s \in Sessions, TellsTrue(s)
        PROVE  LET errors == At(s.evts, InError)
                   enders == {i \in DOMAIN s.evts : s.evts[i].evt \in isEnder}
               IN  /\ s.failed <=> errors # {}
                   /\ s.ended <=> errors \cup enders # {}
                   /\ s.suspect <=> ~s.ended
                   /\ s.closer = IF errors # {} THEN s.evts[Most(errors)].evt
                                 ELSE IF enders # {} THEN s.evts[Least(enders)].evt ELSE -1
                   /\ s.ho <=> \E i \in DOMAIN s.evts : s.evts[i].evt \in isHo
    <2> DEFINE errors == At(s.evts, InError)
               enders == {i \in DOMAIN s.evts : s.evts[i].evt \in isEnder}
    <2>1. /\ s.failed <=> errors # {}
          /\ s.ended <=> errors \cup enders # {}
          /\ s.suspect <=> ~s.ended
          /\ IF errors # {}
               THEN \E i \in errors : s.closer = s.evts[i].evt /\ \A j \in errors : i >= j
               ELSE IF enders # {}
               THEN \E i \in enders : s.closer = s.evts[i].evt /\ \A j \in enders : i <= j
               ELSE s.closer = -1
          /\ s.ho <=> \E i \in DOMAIN s.evts : s.evts[i].evt \in isHo
      BY <1>1 DEF TellsTrue, At
    <2>2. errors \subseteq Nat /\ enders \subseteq Nat
      <3>1. s.evts \in Seq(Events)
        BY DEF Sessions
      <3>2. DOMAIN s.evts \subseteq Nat
        BY <3>1
      <3>3. QED
        BY <3>2 DEF At
    <2> HIDE DEF errors, enders
    <2>3. ASSUME NEW i \in errors, \A j \in errors : i >= j PROVE Most(errors) = i
      BY <2>2, <2>3, FirstAndLast
    <2>4. ASSUME NEW i \in enders, \A j \in enders : i <= j PROVE Least(enders) = i
      BY <2>2, <2>4, FirstAndLast
    <2>5. s.closer = IF errors # {} THEN s.evts[Most(errors)].evt
                     ELSE IF enders # {} THEN s.evts[Least(enders)].evt ELSE -1
      <3>1. CASE errors # {}
        BY <2>1, <2>3, <3>1
      <3>2. CASE errors = {} /\ enders # {}
        BY <2>1, <2>4, <3>2
      <3>3. CASE errors = {} /\ enders = {}
        BY <2>1, <3>3
      <3>4. QED
        BY <3>1, <3>2, <3>3
    <2>6. QED
      BY <2>1, <2>5 DEF errors, enders
  <1>2. Inv => \A k \in Open : sessions[k] \in Sessions /\ (~ebsl => TellsTrue(sessions[k]))
    BY DEF Inv, TypeOK, SessionsKnow, Open
  <1>3. Inv => SessionsTellTrue
    BY <1>1, <1>2 DEF SessionsTellTrue
  <1>4. QED
    BY <1>3, Invariant, PTL

\* The difference of two times of day is the difference of the times, but for
\* whole days.
LEMMA TimesOfDay ==
    ASSUME NEW a \in Nat, NEW b \in Nat, NEW D \in Nat \ {0}
    PROVE  /\ a \div D <= b \div D => a - b <= (a % D) - (b % D)
           /\ a \div D >= b \div D => a - b >= (a % D) - (b % D)
  <1>1. /\ a \div D \in Int /\ b \div D \in Int
        /\ a = D * (a \div D) + (a % D) /\ b = D * (b \div D) + (b % D)
        /\ a % D \in Int /\ b % D \in Int
    BY SMT
  <1>2. \A q, r \in Int : q <= r => D * q <= D * r
    BY SMT
  <1>3. QED
    BY <1>1, <1>2, SMT

\* A session a write takes has been idle in true time, and one it leaves has
\* not, unless midnight lies between.
THEOREM IdleOnesWritten == Spec => []IdleAreWritten
  <1>1. ASSUME Inv, pc = "each", cur # AtEnd, NEW k \in seen
        PROVE  LET idle == cur.real - Last(k).real IN
               IF k \in taken THEN \/ sessions[k].ended /\ idle > CloseAfter
                                   \/ idle > SuspectTimeout
                                   \/ DayOf(cur) < DayOf(Last(k))
               ELSE idle <= SuspectTimeout \/ DayOf(cur) > DayOf(Last(k))
    <2>1. cur \in Events
      BY <1>1 DEF Inv, ThreadKnows
    <2>2. k \in Open /\ sessions[k] \in Sessions /\ ~ebsl
      BY <1>1 DEF Inv, TypeOK, ThreadKnows, Open
    <2>3. Last(k) \in Events /\ sessions[k].lastEvt = Last(k).t
      <3>1. sessions[k].evts \in Seq(Events) /\ sessions[k].evts # <<>>
        BY <1>1, <2>2 DEF Inv, SessionsKnow, Sessions
      <3>2. Len(sessions[k].evts) \in 1 .. Len(sessions[k].evts)
        BY <3>1, EmptySeq
      <3>3. QED
        BY <1>1, <2>2, <3>1, <3>2 DEF Inv, SessionsKnow, Last
    <2>4. PICK a \in Nat, b \in Nat : a = cur.real /\ b = Last(k).real
      BY <2>1, <2>3, BuilderConstants, EventFields
    <2>5. Idle(k) = (a % Day) - (b % Day)
      BY <2>1, <2>3, <2>4, EventFields DEF Idle
    <2>6. k \in taken <=> Closed(k) \/ Suspect(k)
      BY <1>1 DEF Inv, SeenWereIdle
    <2>7. Day \in Nat \ {0}
      BY BuilderConstants
    <2>8. PICK d : d = Idle(k)
      OBVIOUS
    <2>9. /\ a \div Day <= b \div Day => a - b <= d
          /\ a \div Day >= b \div Day => a - b >= d
      BY <2>5, <2>7, <2>8, TimesOfDay, Zenon
    <2>10. a \div Day \in Int /\ b \div Day \in Int /\ d \in Int
          /\ CloseAfter \in Int /\ SuspectTimeout \in Int
      BY <2>5, <2>7, <2>8, BuilderConstants
    <2>11. /\ Closed(k) <=> sessions[k].ended /\ d > CloseAfter
           /\ Suspect(k) <=> ~Closed(k) /\ d > SuspectTimeout
      BY <2>8, Zenon DEF Closed, Suspect
    <2>12. DayOf(cur) = a \div Day /\ DayOf(Last(k)) = b \div Day
           /\ cur.real - Last(k).real = a - b
      BY <2>4 DEF DayOf
    <2>13. /\ k \in taken => \/ sessions[k].ended /\ a - b > CloseAfter
                             \/ a - b > SuspectTimeout
                             \/ a \div Day < b \div Day
           /\ k \notin taken => a - b <= SuspectTimeout \/ a \div Day > b \div Day
      <3> DEFINE q == a \div Day
                 r == b \div Day
      <3>1. q \in Int /\ r \in Int
        BY <2>10
      <3> HIDE DEF q, r
      <3>2. (q <= r => a - b <= d) /\ (q >= r => a - b >= d)
        BY <2>9 DEF q, r
      <3>3. /\ k \in taken => \/ sessions[k].ended /\ a - b > CloseAfter
                              \/ a - b > SuspectTimeout
                              \/ q < r
            /\ k \notin taken => a - b <= SuspectTimeout \/ q > r
        BY <2>6, <2>10, <2>11, <3>1, <3>2
      <3>4. QED
        BY <3>3 DEF q, r
    <2>14. QED
      BY <2>12, <2>13
  <1>2. Inv => IdleAreWritten
    BY <1>1 DEF IdleAreWritten
  <1>3. QED
    BY <1>2, Invariant, PTL

-----------------------------------------------------------------------------
\* No file is opened a second time: each write has a later time than all
\* before it, and the last has 0.
THEOREM NoFileTwice == Spec => FilesOnce
  <1>1. ASSUME Inv PROVE pc = "open" => timenow \notin files
    <2>1. SUFFICES ASSUME pc = "open" PROVE timenow \notin files
      OBVIOUS
    <2>2. CASE cur = AtEnd
      BY <1>1, <2>1, <2>2 DEF Inv, FilesAreOlder
    <2>3. CASE cur # AtEnd
      <3>1. timenow > lastWrite /\ \A f \in files : f <= lastWrite
        BY <1>1, <2>1, <2>3 DEF Inv, FilesAreOlder
      <3>2. timenow \in Int /\ lastWrite \in Int
        BY <1>1, BuilderConstants DEF Inv, TypeOK
      <3>3. QED
        BY <3>1, <3>2
    <2>4. QED
      BY <2>2, <2>3
  <1>2. ASSUME Inv PROVE [pc = "open" /\ pc' # "open" => pc' = "killed" \/ timenow \notin files]_vars
    BY <1>1, <1>2
  <1>3. QED
    BY <1>2, Invariant, PTL DEF FilesOnce

\* The thread dies of nothing but a length that cannot be, a record that is
\* garbled or short, a connection reset before it is accepted, a file that cannot
\* be opened or written, a change of what is written in the middle of a write, and
\* an end without a schema; never of an event that comes while the schema is
\* changed, and never for want of a session.
THEOREM NothingElseKills == Spec => DiesOnlySo
  <1> DEFINE Cause ==
               \/ pc = "route" /\ todo # <<>> /\ Head(inbuf[Head(todo)]).kind = "bad"
               \/ pc = "parse" /\ cur.kind \in {"garbled", "short"}
               \/ pc = "select" /\ \E p \in Peers : peer[p] = "reset"
               \/ pc \in {"open", "each"} /\ ~disk
               \/ pc = "each" /\ ~(write \subseteq opened)
               \/ cur' = AtEnd /\ parser = NoSchema
  <1>1. ASSUME Inv, Next, pc # "dead", pc' = "dead" PROVE Cause
    <2>1. CASE Route
      BY <1>1, <2>1 DEF Route
    <2>2. CASE RouteDone
      BY <1>1, <2>2 DEF RouteDone
    <2>3. ~HandleEvent
      BY <1>1 DEF HandleEvent, Inv, ThreadKnows
    <2>4. ~OpenFiles
      BY <1>1 DEF OpenFiles, WriteDone
    <2>5. CASE CloseFiles
      BY <1>1, <2>5 DEF CloseFiles, WriteDone
    <2>6. ASSUME NEW k \in Keys, WriteSession(k) PROVE Cause
      <3>1. FilesFor(k) \subseteq write
        BY DEF FilesFor
      <3>2. QED
        BY <1>1, <2>6, <3>1 DEF WriteSession
    <2>7. ASSUME NEW p \in Peers, PeerEvent(p) PROVE Cause
      BY <1>1, <2>7 DEF PeerEvent, PeerResets, OnAccept, OnEnd, OnRead, thrVars
    <2>8. CASE HandleBroken
      BY <2>8 DEF HandleBroken
    <2>9. CASE WriteFails
      BY <2>9 DEF WriteFails
    <2>10. QED
      BY <1>1, <2>1, <2>2, <2>3, <2>4, <2>5, <2>6, <2>7, <2>8, <2>9
      DEF Next, PeerEvent, DoStuff, DiskFails, Configure, SetSchema, AddInterestingEvents,
          SetWrite, Shutdown, Tick, thrVars
  <1>2. Inv /\ [Next]_vars => [pc # "dead" /\ pc' = "dead" => Cause]_vars
    BY <1>1
  <1>3. QED
    BY <1>2, Invariant, PTL DEF Spec, DiesOnlySo

\* From the first schema on, an event that every schema filters is filed,
\* wherever in a change of the schema it comes.
THEOREM SharedAreFiled == Spec => SharedEventsKept
  <1> DEFINE Kept ==
               /\ \A p \in Peers :
                    ready /\ Takes(p) /\ Shared(Head(inbuf[p])) => cur' = Head(inbuf[p])
               /\ (pc = "parse" /\ pc' \notin {"parse", "killed"} /\ Shared(cur))
                    => handled'[cur.key] = Append(handled[cur.key], cur)
  <1>1. ASSUME Inv, Next, NEW p \in Peers, ready, Takes(p), Shared(Head(inbuf[p]))
        PROVE  cur' = Head(inbuf[p])
    <2>1. inbuf[p] \in Seq(Records) /\ Len(inbuf[p]) \in Nat
      BY <1>1 DEF Inv, TypeOK
    <2>2. Len(inbuf'[p]) < Len(inbuf[p]) /\ peer'[p] = "open" /\ peer[p] = "open"
          /\ inbuf[p] # <<>>
      BY <1>1 DEF Takes
    <2>3. \E s \in Good : evtSet = Schemas[s]
      BY <1>1 DEF Inv, TypeOK, MainKnows
    <2>4. Head(inbuf[p]).evt \in evtSet /\ Head(inbuf[p]).kind = "event"
      BY <1>1, <2>3 DEF Shared
    <2>5. inbuf'[p] # inbuf[p]
      BY <2>1, <2>2
    <2>6. CASE Route
      <3> DEFINE q == Head(todo)
      <3>1. q \in Peers
        BY <1>1, <2>6 DEF Inv, TypeOK, Route
      <3>2. q = p
        BY <1>1, <2>5, <2>6, <3>1 DEF Route, Inv, TypeOK, CloseConnection, connVars
      <3>3. QED
        BY <2>2, <2>4, <2>6, <3>2 DEF Route
    <2>7. CASE RouteDone
      BY <1>1, <2>2, <2>5, <2>7 DEF RouteDone, connVars
    <2>8. ASSUME NEW q \in Peers, NEW r \in Coming, OnRead(q, r) PROVE FALSE
      <3>1. q = p /\ inbuf'[p] = Append(inbuf[p], r)
        BY <1>1, <2>5, <2>8 DEF OnRead, Inv, TypeOK
      <3>2. r \in Records
        BY <1>1, ComingType DEF Inv, TypeOK, EnvType
      <3>3. Len(Append(inbuf[p], r)) = Len(inbuf[p]) + 1
        BY <2>1, <3>2, AppendProperties
      <3>4. QED
        BY <2>1, <2>2, <3>1, <3>3
    <2>9. ASSUME NEW q \in Peers, PeerResets(q) \/ OnAccept(q) \/ OnEnd(q) PROVE FALSE
      BY <1>1, <2>2, <2>5, <2>9 DEF PeerResets, OnAccept, OnEnd, CloseConnection, Inv, TypeOK
    <2>10. ~DoStuff /\ inbuf' # inbuf
      BY <2>5 DEF DoStuff, connVars
    <2>11. QED
      BY <1>1, <2>6, <2>7, <2>8, <2>9, <2>10, ConnSteps DEF PeerEvent, connVars
  <1>2. ASSUME Inv, Next, pc = "parse", pc' \notin {"parse", "killed"}, Shared(cur)
        PROVE  handled'[cur.key] = Append(handled[cur.key], cur)
    <2>1. HandleEvent
      <3>1. ~HandleBroken
        BY <1>2 DEF HandleBroken, Shared
      <3>2. QED
        BY <1>2, <3>1
        DEF Next, PeerResets, OnAccept, OnEnd, OnRead, DoStuff, Route, RouteDone, OpenFiles,
            CloseFiles, DiskFails, WriteFails, WriteSession, Configure, SetSchema,
            AddInterestingEvents, SetWrite, Shutdown, Tick, thrVars
    <2>2. cur \in Events /\ parser \in Good
      BY <1>2, NoneIsNoRecord DEF Inv, TypeOK, ThreadKnows, Shared
    <2>3. cur.evt \in Schemas[parser] /\ parser # NoSchema
      BY <1>2, <2>2 DEF Shared, Inv, ThreadKnows
    <2>4. handled' = [handled EXCEPT ![cur.key] = Append(@, cur)]
      BY <2>1, <2>3 DEF HandleEvent
    <2>5. cur.key \in Keys /\ handled \in [Keys -> Seq(Events)]
      BY <1>2, <2>2, EventFields DEF Inv, TypeOK
    <2>6. QED
      BY <2>4, <2>5
  <1>3. Inv /\ [Next]_vars => [Kept]_vars
    <2> SUFFICES ASSUME Inv, Next PROVE Kept
      OBVIOUS
    <2> QED
      BY <1>1, <1>2
  <1>4. QED
    BY <1>3, Invariant, PTL DEF Spec, SharedEventsKept
=============================================================================
