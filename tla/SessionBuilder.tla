--------------------------- MODULE SessionBuilder ---------------------------
(***************************************************************************)
(* A session builder unit: the thread of LTESessionBuilder                 *)
(* (LTE/SessionBuilder.py) that reads event records and files them with    *)
(* the SessionHandler (LTE/sessionHandler.py), and the unit's main thread, *)
(* which changes the schema, the interesting events and what is written    *)
(* while the other works (sb_LTE.py, setupProcessing).                     *)
(*                                                                         *)
(* Time is counted in units.  An event carries the time of day only;       *)
(* real, its true time, is what the properties compare with.  Records are  *)
(* read whole: how a stream is cut is in StreamTerminator.                 *)
(***************************************************************************)
EXTENDS Session, FiniteSets

CONSTANTS
    Peers,          \* connections of stream terminators, each used once
    Keys,           \* keys of sessions: a node and the values of the keys
    EvtIds,         \* event ids that come
    BrokenIds,      \* bound: those of the records that are broken
    Codes,          \* values of result parameters
    Schemas,        \* schema file -> ids of the events it filters; a file that
                    \* cannot be loaded has none
    NoSchema,       \* no schema: the parser is None
    Starts,         \* what may be set before the thread starts: the schema, and
                    \* useEBSL
    Writes,         \* what may be configured to be written
    Default,        \* what is written unless configured: only failed sessions
    SessionLength,
    CloseAfter, SuspectTimeout, \* 10 s, and what is configured, in units of time
    Day,            \* units of time in a day
    MaxNow,         \* bound: the time
    LateTimes,      \* bound: when an event may come that is late by a unit
    MaxEvts,        \* bound: records that come
    MaxUnread,      \* bound: records read together
    MaxConfigs      \* bound: changes of the configuration

Flags == {"all", "fail", "ho", "suspect"}
Loads(s) == Schemas[s] # {}
Good == {s \in DOMAIN Schemas : Loads(s)}

ASSUME BuilderConstants ==
    /\ EvtIds \subseteq has_value /\ BrokenIds \subseteq EvtIds
    /\ Writes \subseteq SUBSET Flags /\ Default \in Writes
    /\ Starts \subseteq [schema : Good \cup {NoSchema}, ebsl : BOOLEAN]
    /\ LateTimes \subseteq 1 .. MaxNow
    /\ NoSchema \notin DOMAIN Schemas
    /\ {SessionLength, Day, MaxNow} \subseteq Nat \ {0}
    /\ {CloseAfter, SuspectTimeout, MaxEvts, MaxUnread, MaxConfigs} \subseteq Nat

VARIABLES
    peer,       \* peer -> "new" "reset" (before it was accepted) "open" "over"
    inbuf,      \* peer -> records read
    peersChanged,
    pc,         \* the thread: "select" "route" "parse" "open" "each" "done"
                \* (serve_forever returned), "dead" (it raised), "killed"
    todo,       \* peers _do_stuff has still to look at
    cur,        \* the event that is handled, or the one a write is for
    evtSet,     \* LTESessionBuilder._evtSet
    ready,      \* it has been set
    parser,     \* the parser's schema, or NoSchema
    sessions,   \* SessionHandler.sessionDict: key -> session or NoSession
    lastWrite,
    timenow,    \* the time that names the files of the write, -1 if there is none
    opened,     \* the files the write has opened
    seen,       \* the sessions it has looked at
    taken,      \* those of them it has written
    write,      \* what is to be written: writeAll, ...
    disk,       \* files can be opened and written
    ebsl,       \* useEBSL
    keepalive,
    main,       \* the main thread: "idle", or the call of setupProcessing that
                \* is next: "schema" "events" "write"
    want,       \* the configuration setupProcessing works at, or None
    schemaFile, \* sb_LTE.schemaFile
    configs,    \* changes of the configuration (bounded by MaxConfigs)
    now,
    came,       \* records that came (bounded by MaxEvts)
    written,    \* key -> events of its sessions written so far, in order, those
                \* among them that no flag sent to any file
    handled,    \* key -> events filed, in order
    files       \* times in the names of the files opened; 0 is the name at
                \* the end

connVars == <<peer, inbuf, peersChanged>>
thrVars  == <<pc, todo, cur>>
sessVars == <<sessions, lastWrite, written, handled>>
fileVars == <<timenow, opened, seen, taken, files>>
confVars == <<evtSet, ready, parser, write, schemaFile>>
mainVars == <<main, want, configs, keepalive>>
envVars  == <<now, came, ebsl, disk>>
vars     == <<connVars, thrVars, sessVars, fileVars, confVars, mainVars, envVars>>

NoSession == <<>>
None == <<>>
Open == {k \in Keys : sessions[k] # NoSession}

\* What comes in a record: an event, or a length that cannot be.  Records of
\* other types are skipped, and left out.  An event that closes has a result.
Events ==
    {e \in [kind : {"event"}, key : Keys, evt : EvtIds, rc : Codes \cup {"none"},
            t : 0 .. Day - 1, real : 0 .. MaxNow] : e.t = e.real % Day}

\* One that is garbled, for which the parser raises, or too short for its time,
\* for which all of the keys are missing.
BrokenRecords == [kind : {"garbled"}, evt : BrokenIds]
                   \cup [kind : {"short"}, key : Keys, evt : BrokenIds]
Records == Events \cup BrokenRecords \cup [kind : {"bad"}]

\* writeSessions is called for an event, or for the time 0 at the end.
AtEnd == [kind |-> "end", t |-> 0]

Init ==
    /\ peer = [p \in Peers |-> "new"]
    /\ inbuf = [p \in Peers |-> <<>>] /\ peersChanged = {}
    /\ pc = "select" /\ todo = <<>> /\ cur = None
    /\ \E s \in Starts : parser = s.schema /\ ebsl = s.ebsl
    /\ evtSet = IF parser = NoSchema THEN {} ELSE Schemas[parser]
    /\ ready = (parser # NoSchema)
    /\ sessions = [k \in Keys |-> NoSession]
    /\ lastWrite = -1
    /\ timenow = -1 /\ opened = {} /\ seen = {} /\ taken = {}
    /\ write = Default 
    /\ keepalive = TRUE /\ main = "idle" /\ schemaFile = parser
    /\ want = None /\ configs = 0
    /\ now = 1 /\ came = 0 /\ disk = TRUE
    /\ written = [k \in Keys |-> <<>>] /\ handled = written
    /\ files = {}

-----------------------------------------------------------------------------
(***************************************************************************)
(* select and the handlers.                                                *)
(***************************************************************************)
PeerResets(p) ==
    /\ pc = "select"
    /\ peer[p] = "new"
    /\ peer' = [peer EXCEPT ![p] = "reset"]
    /\ UNCHANGED <<inbuf, peersChanged, thrVars, sessVars, fileVars, confVars,
                   mainVars, envVars>>

\* getpeername raises if the peer has reset the connection by now.
OnAccept(p) ==
    /\ pc = "select"
    /\ \/ peer[p] = "new" /\ peer' = [peer EXCEPT ![p] = "open"] /\ UNCHANGED pc
       \/ peer[p] = "reset" /\ pc' = "dead" /\ UNCHANGED peer
    /\ UNCHANGED <<inbuf, peersChanged, todo, cur, sessVars, fileVars, confVars,
                   mainVars, envVars>>

\* A record that comes now.
Results(evt) == IF evt \in isCloser THEN Codes ELSE {"none"}

Coming ==
    {[kind |-> "bad"]} \cup BrokenRecords \cup
    UNION {{[kind |-> "event", key |-> k, evt |-> e, rc |-> c, t |-> i % Day, real |-> i]
              : k \in Keys, c \in Results(e), i \in {now, IF now \in LateTimes THEN now - 1 ELSE now}} : e \in EvtIds}

OnRead(p, r) ==
    /\ pc = "select"
    /\ peer[p] = "open"
    /\ came < MaxEvts
    /\ Len(inbuf[p]) < MaxUnread
    /\ came' = came + 1
    /\ inbuf' = [inbuf EXCEPT ![p] = Append(@, r)]
    /\ peersChanged' = peersChanged \cup {p}
    /\ UNCHANGED <<peer, thrVars, sessVars, fileVars, confVars, mainVars, now, ebsl, disk>>

CloseConnection(p) ==
    /\ peer' = [peer EXCEPT ![p] = "over"]
    /\ inbuf' = [inbuf EXCEPT ![p] = <<>>]
    /\ peersChanged' = peersChanged \ {p}

OnEnd(p) ==
    /\ pc = "select"
    /\ peer[p] = "open"
    /\ CloseConnection(p)
    /\ UNCHANGED <<thrVars, sessVars, fileVars, confVars, mainVars, envVars>>

Orders(S) == {s \in [1 .. Cardinality(S) -> S] : \A p \in S : \E i \in DOMAIN s : s[i] = p}

\* A pass with nothing to look at changes nothing, unless it is the last.
DoStuff ==
    /\ pc = "select"
    /\ peersChanged # {} \/ ~keepalive
    /\ pc' = "route"
    /\ todo' \in Orders(peersChanged)
    /\ UNCHANGED <<connVars, cur, sessVars, fileVars, confVars, mainVars, envVars>>

-----------------------------------------------------------------------------
(***************************************************************************)
(* _do_stuff                                                               *)
(***************************************************************************)
\* The record in front of the first peer's buffer.  After a length that
\* cannot be the connection is closed and its buffer then looked for, which
\* raises.
Route ==
    /\ pc = "route"
    /\ todo # <<>>
    /\ LET p == Head(todo)
           r == Head(inbuf[p])
       IN  IF inbuf[p] = <<>>
             THEN /\ todo' = Tail(todo)
                  /\ UNCHANGED <<connVars, pc, cur>>
             ELSE IF r.kind = "bad"
             THEN /\ CloseConnection(p)
                  /\ pc' = "dead"
                  /\ UNCHANGED <<todo, cur>>
             ELSE /\ inbuf' = [inbuf EXCEPT ![p] = Tail(@)]
                  /\ peersChanged' = IF Len(inbuf[p]) = 1 THEN peersChanged \ {p}
                                     ELSE peersChanged
                  /\ UNCHANGED <<peer, todo>>
                  /\ IF r.evt \in evtSet THEN pc' = "parse" /\ cur' = r
                                        ELSE UNCHANGED <<pc, cur>>
    /\ UNCHANGED <<sessVars, fileVars, confVars, mainVars, envVars>>

\* Back to select; at the end of the loop every connection is closed, and
\* writeSessions called for the last time.
RouteDone ==
    /\ pc = "route"
    /\ todo = <<>>
    /\ IF keepalive
         THEN pc' = "select" /\ UNCHANGED <<connVars, cur, timenow>>
         ELSE /\ IF parser = NoSchema THEN pc' = "dead" /\ UNCHANGED timenow
                                      ELSE pc' = "open" /\ timenow' = 0
              /\ cur' = AtEnd
              /\ peer' = [p \in Peers |-> IF peer[p] = "open" THEN "over" ELSE peer[p]]
              /\ inbuf' = [p \in Peers |-> <<>>]
              /\ peersChanged' = {}
    /\ UNCHANGED <<todo, sessVars, opened, seen, taken, files, confVars, mainVars, envVars>>

-----------------------------------------------------------------------------
(***************************************************************************)
(* SessionHandler.handleEvent and writeSessions.                           *)
(***************************************************************************)
Found(k) ==
    IF sessions[k] # NoSession THEN sessions[k]
    ELSE IF ebsl THEN NewEbs ELSE NewSession

Added(e) == IF ebsl THEN EbsAddEvt(Found(e.key), e) ELSE AddEvt(Found(e.key), e)

\* Mutant of WriteTime: in that second, every event writes.
WriteTimeAny == now % SessionLength = 0

WriteTime == now % SessionLength = 0 /\ now > lastWrite

\* The parser's schema has the event or has not; it may have changed since
\* the event was found interesting.
HandleEvent ==
    /\ pc = "parse"
    /\ IF parser = NoSchema
         THEN pc' = "dead" /\ UNCHANGED <<cur, sessions, handled, timenow>>
         ELSE IF cur.evt \notin Schemas[parser]
         THEN /\ pc' = "route" /\ cur' = None
              /\ UNCHANGED <<sessions, handled, timenow>>
         ELSE /\ cur.kind = "event"
              /\ sessions' = [sessions EXCEPT ![cur.key] = Added(cur)]
              /\ handled' = [handled EXCEPT ![cur.key] = Append(@, cur)]
              /\ IF WriteTime THEN pc' = "open" /\ timenow' = now /\ UNCHANGED cur
                              ELSE pc' = "route" /\ cur' = None /\ UNCHANGED timenow
    /\ UNCHANGED <<connVars, todo, lastWrite, written, opened, taken, seen, files,
                   confVars, mainVars, envVars>>

\* parseRaw raises, or _getTime, when the session has been made already.
HandleBroken ==
    /\ pc = "parse"
    /\ cur.kind \in {"garbled", "short"}
    /\ parser # NoSchema /\ cur.evt \in Schemas[parser]
    /\ pc' = "dead"
    /\ sessions' = IF cur.kind = "garbled" THEN sessions
                   ELSE [sessions EXCEPT ![cur.key] = Found(cur.key)]
    /\ UNCHANGED <<connVars, todo, cur, lastWrite, written, handled, fileVars, confVars,
                   mainVars, envVars>>

\* Mutant of WriteDone: the sessions that are open yet are forgotten too.
WriteDoneAll(ks) ==
    /\ written' = [k \in Keys |-> IF k \in ks THEN written[k] \o sessions[k].evts
                                             ELSE written[k]]
    /\ cur' = None /\ timenow' = -1
    /\ opened' = {} /\ seen' = {} /\ taken' = {}
    /\ IF cur = AtEnd
         THEN pc' = "done" /\ UNCHANGED <<sessions, lastWrite>>
         ELSE /\ pc' = "route"
              /\ sessions' = [k \in Keys |-> NoSession]
              /\ lastWrite' = timenow

\* The end of a write of the sessions ks: they are forgotten, except at the
\* end, when nothing is done with the result.
WriteDone(ks) ==
    /\ written' = [k \in Keys |-> IF k \in ks THEN written[k] \o sessions[k].evts
                                             ELSE written[k]]
    /\ cur' = None /\ timenow' = -1
    /\ opened' = {} /\ seen' = {} /\ taken' = {}
    /\ IF cur = AtEnd
         THEN pc' = "done" /\ UNCHANGED <<sessions, lastWrite>>
         ELSE /\ pc' = "route"
              /\ sessions' = [k \in Keys |-> IF k \in ks THEN NoSession ELSE sessions[k]]
              /\ lastWrite' = timenow

\* The files for what is to be written are opened, the flags being looked at
\* together.  Ebs sessions are written at once, all of them, to one.
OpenFiles ==
    /\ pc = "open"
    /\ disk
    /\ files' = files \cup {timenow}
    /\ IF ebsl
         THEN WriteDone(Open)
         ELSE /\ opened' = write
              /\ taken' = {} /\ seen' = {}
              /\ pc' = "each"
              /\ UNCHANGED <<cur, sessions, lastWrite, written, timenow>>
    /\ UNCHANGED <<connVars, todo, handled, confVars, mainVars, envVars>>

\* No directory, or no room: in the middle of a write, when it matters.
DiskFails ==
    /\ pc \in {"open", "each"}
    /\ disk
    /\ disk' = FALSE
    /\ UNCHANGED <<connVars, thrVars, sessVars, fileVars, confVars, mainVars, now, came, ebsl>>

\* The next open, write or close that needs the disk raises, be it the summary's.
WriteFails ==
    /\ pc \in {"open", "each"}
    /\ ~disk
    /\ pc' = "dead"
    /\ files' \in {files, files \cup {timenow}}
    /\ UNCHANGED <<connVars, todo, cur, sessVars, timenow, opened, seen, taken, confVars,
                   mainVars, envVars>>

Idle(k) == cur.t - sessions[k].lastEvt

\* Mutant of Closed: as soon as it has ended.
ClosedAtOnce(k) == sessions[k].ended

\* A session that has ended, and has had nothing for a while.
Closed(k) == sessions[k].ended /\ Idle(k) > CloseAfter

\* One whose end never came.
Suspect(k) == ~Closed(k) /\ Idle(k) > SuspectTimeout

\* The files a session goes to, as they are asked for now.
FilesFor(k) ==
    write \cap IF Closed(k) THEN {"all"} \cup (IF sessions[k].failed THEN {"fail"} ELSE {})
                                   \cup (IF sessions[k].ho THEN {"ho"} ELSE {})
                            ELSE IF Suspect(k) THEN {"suspect"} ELSE {}

\* A file that was not to be written when they were opened is no variable yet:
\* to use it raises.
WriteSession(k) ==
    /\ pc = "each"
    /\ disk
    /\ k \in Open \ seen
    /\ IF FilesFor(k) \subseteq opened
         THEN /\ seen' = seen \cup {k}
              /\ taken' = IF Closed(k) \/ Suspect(k) THEN taken \cup {k} ELSE taken
              /\ UNCHANGED pc
         ELSE pc' = "dead" /\ UNCHANGED <<seen, taken>>
    /\ UNCHANGED <<connVars, todo, cur, sessVars, timenow, opened, files, confVars,
                   mainVars, envVars>>

CloseFiles ==
    /\ pc = "each"
    /\ disk
    /\ seen = Open
    /\ IF write \subseteq opened
         THEN WriteDone(taken)
         ELSE pc' = "dead" /\ UNCHANGED <<cur, sessions, lastWrite, written, timenow, opened,
                                         seen, taken>>
    /\ UNCHANGED <<connVars, todo, handled, files, confVars, mainVars, envVars>>

-----------------------------------------------------------------------------
(***************************************************************************)
(* The main thread: setupProcessing when the configuration has changed,    *)
(* one call at a time, and closeDown.  The process ends with it, the       *)
(* builder's thread being a daemon: a behaviour that stops.                *)
(***************************************************************************)
Alive == pc \notin {"done", "dead", "killed"}

Configure(s, w) ==
    /\ Alive /\ keepalive
    /\ main = "idle"
    /\ configs < MaxConfigs
    /\ s # schemaFile \/ w # write
    /\ configs' = configs + 1
    /\ want' = [schema |-> s, write |-> w]
    /\ main' = IF s # schemaFile THEN "schema" ELSE "write"
    /\ UNCHANGED <<connVars, thrVars, sessVars, fileVars, confVars, keepalive, envVars>>

\* Mutant of SetSchema: the old events are taken out first.
SetSchemaEmpty ==
    /\ main = "schema"
    /\ schemaFile' = want.schema
    /\ evtSet' = {}
    /\ IF Loads(want.schema)
         THEN parser' = want.schema /\ main' = "events" /\ UNCHANGED <<pc, want>>
         ELSE main' = "idle" /\ want' = None /\ pc' = "killed" /\ UNCHANGED parser
    /\ UNCHANGED <<connVars, todo, cur, sessVars, fileVars, ready, write, configs,
                   keepalive, envVars>>

\* Mutant of SetSchema: the old parser is not kept if the file cannot be loaded.
SetSchemaNone ==
    /\ main = "schema"
    /\ schemaFile' = want.schema
    /\ parser' = IF Loads(want.schema) THEN want.schema ELSE NoSchema
    /\ main' = IF Loads(want.schema) THEN "events" ELSE "write"
    /\ UNCHANGED <<connVars, thrVars, sessVars, fileVars, evtSet, ready, write, want,
                   configs, keepalive, envVars>>

\* The parser changes if the file can be loaded; if not, loadSchema returns
\* None, and to ask that for its events ends the process.
SetSchema ==
    /\ main = "schema"
    /\ schemaFile' = want.schema
    /\ IF Loads(want.schema)
         THEN parser' = want.schema /\ main' = "events" /\ UNCHANGED <<pc, want>>
         ELSE main' = "idle" /\ want' = None /\ pc' = "killed" /\ UNCHANGED parser
    /\ UNCHANGED <<connVars, todo, cur, sessVars, fileVars, evtSet, ready, write, configs,
                   keepalive, envVars>>

AddInterestingEvents ==
    /\ main = "events"
    /\ evtSet' = Schemas[want.schema] /\ ready' = TRUE
    /\ main' = "write"
    /\ UNCHANGED <<connVars, thrVars, sessVars, fileVars, parser, write, schemaFile, want,
                   configs, keepalive, envVars>>

\* The flags are set one after the other: the first that is to change, or none
\* is left.
FlagOrder == <<"all", "fail", "ho", "suspect">>

SetWrite ==
    /\ main = "write"
    /\ LET change == IF ebsl THEN {} ELSE (write \ want.write) \cup (want.write \ write) IN
         \/ /\ change = {}
            /\ main' = "idle" /\ want' = None /\ UNCHANGED write
         \/ /\ \E i \in 1 .. 4 :
                 /\ FlagOrder[i] \in change
                 /\ \A j \in 1 .. i - 1 : FlagOrder[j] \notin change
                 /\ write' = IF FlagOrder[i] \in write THEN write \ {FlagOrder[i]}
                                                       ELSE write \cup {FlagOrder[i]}
            /\ UNCHANGED <<main, want>>
    /\ UNCHANGED <<connVars, thrVars, sessVars, fileVars, evtSet, ready, parser, schemaFile,
                   configs, keepalive, envVars>>

\* keepalive is looked at when a pass ends: a pass that has begun is as good.
Shutdown ==
    /\ main = "idle"
    /\ pc = "select"
    /\ keepalive
    /\ keepalive' = FALSE
    /\ UNCHANGED <<connVars, thrVars, sessVars, fileVars, confVars, main, want, configs,
                   envVars>>

\* Time matters when a record comes and when it is filed; it goes on in
\* between, and need not after the last.
Tick ==
    /\ pc = "select"
    /\ \/ came < MaxEvts /\ \E p \in Peers : peer[p] # "over"
       \/ peersChanged # {}
    /\ now < MaxNow
    /\ now' = now + 1
    /\ UNCHANGED <<connVars, thrVars, sessVars, fileVars, confVars, mainVars, came, ebsl, disk>>

Next ==
    \/ \E p \in Peers : \/ PeerResets(p) \/ OnAccept(p) \/ OnEnd(p)
                        \/ \E r \in Coming : OnRead(p, r)
    \/ DoStuff \/ Route \/ RouteDone
    \/ HandleEvent \/ HandleBroken \/ OpenFiles \/ CloseFiles \/ DiskFails \/ WriteFails
    \/ \E k \in Keys : WriteSession(k)
    \/ \E s \in DOMAIN Schemas, w \in Writes : Configure(s, w)
    \/ SetSchema \/ AddInterestingEvents \/ SetWrite
    \/ Shutdown \/ Tick

Spec == Init /\ [][Next]_vars

-----------------------------------------------------------------------------
Sessions ==
    [evts : Seq(Events), lastEvt : 0 .. Day - 1,
     opener : EvtIds \cup {-1}, closer : EvtIds \cup {-1},
     ended : BOOLEAN, suspect : BOOLEAN, failed : BOOLEAN, ho : BOOLEAN,
     errorCode : Codes \cup {"none", IntZero}]

\* The types of the variables.
TypeOK ==
    /\ peer \in [Peers -> {"new", "reset", "open", "over"}]
    /\ inbuf \in [Peers -> Seq(Records)]
    /\ peersChanged = {p \in Peers : inbuf[p] # <<>>}
    /\ pc \in {"select", "route", "parse", "open", "each", "done", "dead", "killed"}
    /\ todo \in Seq(Peers)
    /\ cur \in Events \cup BrokenRecords \cup {None, AtEnd}
    /\ evtSet \in {Schemas[s] : s \in Good} \cup {{}}
    /\ parser \in Good \cup {NoSchema}
    /\ sessions \in [Keys -> Sessions \cup {NoSession}]
    /\ {written, handled} \subseteq [Keys -> Seq(Events)]
    /\ lastWrite \in -1 .. MaxNow
    /\ timenow \in -1 .. MaxNow
    /\ files \subseteq 0 .. MaxNow
    /\ opened \subseteq Flags
    /\ write \subseteq Flags
    /\ taken \subseteq seen /\ seen \subseteq Open
    /\ {ebsl, keepalive, ready, disk} \subseteq BOOLEAN
    /\ main \in {"idle", "schema", "events", "write"}
    /\ want \in [schema : DOMAIN Schemas, write : Writes] \cup {None}
    /\ configs \in 0 .. MaxConfigs
    /\ now \in 1 .. MaxNow
    /\ came \in 0 .. MaxEvts

At(evts, P(_)) == {i \in DOMAIN evts : P(evts[i])}
Least(S) == CHOOSE i \in S : \A j \in S : i <= j
Most(S) == CHOOSE i \in S : \A j \in S : i >= j

\* What a session says of itself is true of all its events, in whatever order
\* they came: it failed if one was in error, ended if one was an ender or in
\* error, is closed by the last error, or else by the first ender, and is a
\* suspect until it ends (session.py:75-122).
SessionsTellTrue ==
    ~ebsl => \A k \in Open :
        LET s == sessions[k]
            errors == At(s.evts, InError)
            enders == {i \in DOMAIN s.evts : s.evts[i].evt \in isEnder}
        IN  /\ s.failed <=> errors # {}
            /\ s.ended <=> errors \cup enders # {}
            /\ s.suspect <=> ~s.ended
            /\ s.closer = IF errors # {} THEN s.evts[Most(errors)].evt
                          ELSE IF enders # {} THEN s.evts[Least(enders)].evt ELSE -1
            /\ s.ho <=> \E i \in DOMAIN s.evts : s.evts[i].evt \in isHo

\* Every event that was filed is in one session, written or open, once and in
\* order, also while a write runs and after one that failed
\* (sessionHandler.py:93-207).
NothingLost ==
    pc # "done" => \A k \in Keys :
        handled[k] = written[k] \o (IF k \in Open THEN sessions[k].evts ELSE <<>>)

DayOf(e) == e.real \div Day
Last(k) == sessions[k].evts[Len(sessions[k].evts)]

\* Times of day are compared as if there were one day.  A session that is
\* written has been idle, long enough for one that has ended or for a suspect,
\* and one that is kept has not, in true time, unless
\* midnight lies between: an event of the day before that comes late closes
\* the sessions of the new day, and one after midnight closes none of the old
\* (sessionHandler.py:164, 181, 212-223).
IdleAreWritten ==
    pc = "each" /\ cur # AtEnd => \A k \in seen :
        LET idle == cur.real - Last(k).real IN
        IF k \in taken THEN \/ sessions[k].ended /\ idle > CloseAfter
                            \/ idle > SuspectTimeout
                            \/ DayOf(cur) < DayOf(Last(k))
        ELSE idle <= SuspectTimeout \/ DayOf(cur) > DayOf(Last(k))

\* No file is opened for writing a second time, which would empty it.
FilesOnce == [][pc = "open" /\ pc' # "open" => pc' = "killed" \/ timenow \notin files]_vars

Shared(r) == r.kind = "event" /\ \A s \in Good : r.evt \in Schemas[s]

\* Once there is a schema, whatever others are loaded and when, an event that
\* all of them filter is filed: the change from one to the other, which is in
\* two steps on another thread, loses it at no moment
\* (sb_LTE.py:99-105, SessionBuilder.py:96-106, 144-151).
Takes(p) ==
    /\ peer[p] = "open" /\ peer'[p] = "open"
    /\ inbuf[p] # <<>>
    /\ Len(inbuf'[p]) < Len(inbuf[p])

SharedEventsKept ==
    [][/\ \A p \in Peers :
            ready /\ Takes(p) /\ Shared(Head(inbuf[p])) => cur' = Head(inbuf[p])
       /\ (pc = "parse" /\ pc' \notin {"parse", "killed"} /\ Shared(cur))
            => handled'[cur.key] = Append(handled[cur.key], cur)]_vars

\* The builder's thread raises for a length that cannot be, a record that is
\* garbled or too short for its time, a connection that is reset before it is
\* accepted, a file that cannot be opened or written, a change of what is to be
\* written in the middle of a write, and at its end if it never had a schema, and
\* for nothing else.  No schema is missing when an event is found interesting,
\* wherever in a change of the schema it comes, and a session is where the write
\* looks for it (SessionBuilder.py:126-127, 151, 199, 211, parseCTRS.py:171,
\* sessionHandler.py:97, 109, 137, 148-193).
DiesOnlySo ==
    [][pc # "dead" /\ pc' = "dead" =>
          \/ pc = "route" /\ todo # <<>> /\ Head(inbuf[Head(todo)]).kind = "bad"
          \/ pc = "parse" /\ cur.kind \in {"garbled", "short"}
          \/ pc = "select" /\ \E p \in Peers : peer[p] = "reset"
          \/ pc \in {"open", "each"} /\ ~disk
          \/ pc = "each" /\ ~(write \subseteq opened)
          \/ cur' = AtEnd /\ parser = NoSchema]_vars
=============================================================================
