-------------------------- MODULE StreamTerminator --------------------------
(***************************************************************************)
(* One LTEStreamTerminator (LTE/streamTerminator.py): a thread that reads  *)
(* feeds of event records and sends each record to the session builders    *)
(* whose node list has its node, and the unit's main thread, which points  *)
(* it at session builders (connectSB, from st_LTE.py) while it works.      *)
(*                                                                         *)
(* A record is two units of bytes: reads and sends cut it anywhere.  Both  *)
(* threads use the dictionary sessionBuilders without a lock.  A loop over *)
(* it raises when its size has changed, and an exception ends the          *)
(* terminator's thread, nobody else.  The sockets to the session builders  *)
(* are blocking: a builder that has stopped reading holds the thread up.   *)
(***************************************************************************)
EXTENDS Naturals, Sequences, FiniteSets

CONSTANTS
    Feeds,      \* connections of feeds, each used once
    Nodes,      \* node identities, gcid >> 8
    Names,      \* names of session builders: the attributes SB_...
    Addrs,      \* host and port
    NodeLists,  \* the node lists configured, "*" being Nodes
    NumSocks,   \* sockets to session builders, each used once
    Initial,    \* what setupProcessing has made of sessionBuilders before
                \* the thread starts
    MaxRecs,    \* bound: records a feed sends
    MaxCalls,   \* bound: calls of connectSB after the start
    NoSock,     \* the socket is None
    NoEntry     \* the name is not a key of sessionBuilders

\* Kinds of record: an event of a node; a header, footer, UDP or scanner
\* record; one whose length cannot be.
Kinds == Nodes \cup {"other", "bad"}

Socks == 1 .. NumSocks
Records == [feed : Feeds, n : 1 .. MaxRecs, kind : Kinds]
UnitSet == [rec : Records, part : {1, 2}]
Entries == [addr : Addrs, nodes : SUBSET Nodes, sock : Socks \cup {NoSock},
            outBuf : Seq(UnitSet)]

ASSUME TerminatorConstants ==
    /\ NumSocks \in Nat /\ MaxRecs \in Nat /\ MaxCalls \in Nat
    /\ {"other", "bad"} \cap Nodes = {}
    /\ NodeLists \subseteq SUBSET Nodes
    /\ NoSock \notin Socks /\ NoEntry \notin Entries
    /\ IsFiniteSet(Names)
    /\ Initial \in [Names -> Entries \cup {NoEntry}]
    /\ \A n \in Names : Initial[n] # NoEntry => Initial[n].outBuf = <<>>
    \* A connection has a socket of its own.
    /\ \A m, n \in Names :
         m # n /\ NoEntry \notin {Initial[m], Initial[n]} /\ Initial[m].sock # NoSock
             => Initial[m].sock # Initial[n].sock
    /\ NumSocks >= Cardinality(Names) + MaxCalls

VARIABLES
    feed,       \* feed -> state of its own end: FeedStates; it connects at
                \* the start and is accepted at any time
    sent,       \* feed -> records it has sent (bounded by MaxRecs)
    wire,       \* feed -> units on their way
    feeds,      \* keys of LTEStreamTerminator.feeds
    inbuf,      \* feed -> units read, not taken
    feedsChanged,
    pc,         \* the thread: "select" "route" "deliver" "send" "call"
                \* "sending" "store" "done" (serve_forever returned) "dead"
                \* (it raised)
    todo,       \* feeds _do_stuff has still to look at, the first being
                \* the one it is looking at
    raw,        \* the record being delivered, or None
    left,       \* names the loop over sessionBuilders has still to visit
    size,       \* the size of sessionBuilders when that loop began
    out,        \* the send in progress: the name, the socket and the bytes it
                \* was given, then those it did not take; or None
    sbs,        \* sessionBuilders
    keepalive,
    call,       \* the entry connectSB is about to connect, or None
    calls,      \* calls so far (bounded by MaxCalls)
    grown,      \* connectSB has added a name since the start
    sock,       \* socket -> "free" "open" "closed" (by connectSB) "gone"
    stalled,    \* sockets whose session builder reads no more, and has room
                \* for no more
    routed,     \* socket -> records put on the outBuf that goes with it
    stream,     \* socket -> units sent
    stray       \* name -> units of another connection that were put on the
                \* outBuf of its entry

feedVars == <<feed, sent, wire>>
inVars   == <<feeds, inbuf, feedsChanged>>
loopVars == <<pc, todo, raw, left, size, out>>
mainVars == <<keepalive, call, calls, grown>>
outVars  == <<sbs, sock, stalled, routed, stream, stray>>
vars     == <<feedVars, inVars, loopVars, mainVars, outVars>>

Sends == [name : Names, sock : Socks \cup {NoSock}, buf : Seq(UnitSet)]
Stages == {"select", "route", "deliver", "send", "call", "sending", "store", "done",
           "dead"}
FeedStates == {"open", "closed", "reset", "over"}
None == <<>>

Unit(r, i) == [rec |-> r, part |-> i]
Units(r) == <<Unit(r, 1), Unit(r, 2)>>

Keys == {n \in Names : sbs[n] # NoEntry}

Init ==
    /\ feed = [f \in Feeds |-> "open"]
    /\ sent = [f \in Feeds |-> 0]
    /\ wire = [f \in Feeds |-> <<>>]
    /\ feeds = {} /\ feedsChanged = {}
    /\ inbuf = [f \in Feeds |-> <<>>]
    /\ pc = "select" /\ todo = <<>> /\ raw = None /\ left = {} /\ size = 0
    /\ out = None
    /\ sbs = Initial
    /\ keepalive = TRUE /\ call = None /\ calls = 0 /\ grown = FALSE
    /\ sock = [k \in Socks |-> IF \E n \in Keys : Initial[n].sock = k
                                 THEN "open" ELSE "free"]
    /\ routed = [k \in Socks |-> <<>>]
    /\ stalled = {}
    /\ stream = [k \in Socks |-> <<>>]
    /\ stray = [n \in Names |-> <<>>]

-----------------------------------------------------------------------------
(***************************************************************************)
(* The feeds and the session builders' processes.                          *)
(***************************************************************************)
FeedSend(f, k) ==
    /\ feed[f] = "open"
    /\ sent[f] < MaxRecs
    /\ sent' = [sent EXCEPT ![f] = @ + 1]
    /\ wire' = [wire EXCEPT ![f] =
                  @ \o Units([feed |-> f, n |-> sent[f] + 1, kind |-> k])]
    /\ UNCHANGED <<feed, inVars, loopVars, mainVars, outVars>>

\* In good order, or not: what is on its way is then lost.
FeedClose(f) ==
    /\ feed[f] = "open"
    /\ \/ feed' = [feed EXCEPT ![f] = "closed"] /\ UNCHANGED wire
       \/ feed' = [feed EXCEPT ![f] = "reset"] /\ wire' = [wire EXCEPT ![f] = <<>>]
    /\ UNCHANGED <<sent, inVars, loopVars, mainVars, outVars>>

SBGoes(k) ==
    /\ sock[k] = "open"
    /\ sock' = [sock EXCEPT ![k] = "gone"]
    /\ UNCHANGED <<feedVars, inVars, loopVars, mainVars, sbs, stalled, routed, stream,
                   stray>>

\* It reads no more, for good: one that is only slow is a send that takes time.
SBStalls(k) ==
    /\ sock[k] = "open"
    /\ k \notin stalled
    /\ stalled' = stalled \cup {k}
    /\ UNCHANGED <<feedVars, inVars, loopVars, mainVars, sbs, sock, routed, stream, stray>>

-----------------------------------------------------------------------------
(***************************************************************************)
(* The terminator's thread: select and the handlers.                       *)
(***************************************************************************)
Die == pc' = "dead" /\ UNCHANGED <<todo, raw, left, size, out>>

\* getpeername raises if the feed has reset the connection by now.
OnAccept(f) ==
    /\ pc = "select"
    /\ feed[f] \in {"open", "closed", "reset"}
    /\ f \notin feeds
    /\ IF feed[f] = "reset"
         THEN Die /\ UNCHANGED feeds
         ELSE feeds' = feeds \cup {f} /\ UNCHANGED loopVars
    /\ UNCHANGED <<feedVars, inbuf, feedsChanged, mainVars, outVars>>

\* Mutant of OnRead: put in front of what was read before.
OnReadFront(f) ==
    /\ pc = "select"
    /\ f \in feeds
    /\ \E i \in 1 .. Len(wire[f]) :
         /\ inbuf' = [inbuf EXCEPT ![f] = SubSeq(wire[f], 1, i) \o @]
         /\ wire' = [wire EXCEPT ![f] = SubSeq(@, i + 1, Len(@))]
    /\ feedsChanged' = feedsChanged \cup {f}
    /\ UNCHANGED <<feed, sent, feeds, loopVars, mainVars, outVars>>

\* _on_IO: some of what has arrived is read.
OnRead(f) ==
    /\ pc = "select"
    /\ f \in feeds
    /\ \E i \in 1 .. Len(wire[f]) :
         /\ inbuf' = [inbuf EXCEPT ![f] = @ \o SubSeq(wire[f], 1, i)]
         /\ wire' = [wire EXCEPT ![f] = SubSeq(@, i + 1, Len(@))]
    /\ feedsChanged' = feedsChanged \cup {f}
    /\ UNCHANGED <<feed, sent, feeds, loopVars, mainVars, outVars>>

\* close_connection forgets the feed, with what it had not taken yet.  What
\* the feed sends from now on nobody reads.
CloseConnection(f) ==
    /\ feeds' = feeds \ {f}
    /\ feedsChanged' = feedsChanged \ {f}
    /\ inbuf' = [inbuf EXCEPT ![f] = <<>>]
    /\ feed' = [feed EXCEPT ![f] = "over"]
    /\ wire' = [wire EXCEPT ![f] = <<>>]
    /\ UNCHANGED sent

\* _on_IO: the feed has closed or reset the connection.
OnEnd(f) ==
    /\ pc = "select"
    /\ f \in feeds
    /\ feed[f] \in {"closed", "reset"}
    /\ wire[f] = <<>>
    /\ CloseConnection(f)
    /\ UNCHANGED <<loopVars, mainVars, outVars>>

\* list(S): in any order.
Orders(S) == {s \in [1 .. Cardinality(S) -> S] : \A f \in S : \E i \in DOMAIN s : s[i] = f}

\* Mutant of DoStuff: only if something has been read.
DoStuffIfRead ==
    /\ pc = "select"
    /\ feedsChanged # {}
    /\ pc' = "route"
    /\ todo' \in Orders(feedsChanged)
    /\ UNCHANGED <<feedVars, inVars, raw, left, size, out, mainVars, outVars>>

DoStuff ==
    /\ pc = "select"
    /\ pc' = "route"
    /\ todo' \in Orders(feedsChanged)
    /\ UNCHANGED <<feedVars, inVars, raw, left, size, out, mainVars, outVars>>

-----------------------------------------------------------------------------
(***************************************************************************)
(* _do_stuff: records out of the feeds' buffers, into the session          *)
(* builders', out of these.                                                *)
(***************************************************************************)

\* The loop over sessionBuilders begins, and goes on if it may.
LoopOver(next) ==
    /\ pc' = next
    /\ left' = Keys
    /\ size' = Cardinality(Keys)

SizeSame == Cardinality(Keys) = size

\* The length in front cannot be that of a record.
OutOfSync(f) == inbuf[f] # <<>> /\ inbuf[f][1].rec.kind = "bad"

\* Mutant of RouteMore: a record that ends the buffer waits for more.
RouteMoreLate(f) ==
    /\ f \in feeds
    /\ Len(inbuf[f]) <= 2
    /\ ~OutOfSync(f)
    /\ todo' = Tail(todo)
    /\ UNCHANGED <<feedVars, inVars, pc, raw, left, size, out>>

\* "don't have all the message, go do something else"
RouteMore(f) ==
    /\ f \in feeds
    /\ Len(inbuf[f]) < 2
    /\ ~OutOfSync(f)
    /\ todo' = Tail(todo)
    /\ UNCHANGED <<feedVars, inVars, pc, raw, left, size, out>>

\* Mutant of RouteBad: the loop goes on with the feed it has closed.
RouteBadOn(f) ==
    /\ f \in feeds
    /\ OutOfSync(f)
    /\ CloseConnection(f)
    /\ UNCHANGED loopVars

\* "we are out of sync, close the channel and hope for the best"
RouteBad(f) ==
    /\ f \in feeds
    /\ OutOfSync(f)
    /\ CloseConnection(f)
    /\ todo' = Tail(todo)
    /\ UNCHANGED <<pc, raw, left, size, out>>

\* A complete record is cut off.  Only an event is delivered.
RouteRecord(f) ==
    /\ f \in feeds
    /\ Len(inbuf[f]) >= 2
    /\ LET r == inbuf[f][1].rec
           rest == SubSeq(inbuf[f], 3, Len(inbuf[f]))
       IN  /\ r.kind # "bad"
           /\ inbuf' = [inbuf EXCEPT ![f] = rest]
           /\ IF rest = <<>> /\ f \notin feedsChanged
                THEN Die /\ UNCHANGED feedsChanged
                ELSE /\ feedsChanged' = IF rest = <<>> THEN feedsChanged \ {f}
                                                       ELSE feedsChanged
                     /\ IF r.kind = "other"
                          THEN UNCHANGED loopVars
                          ELSE /\ raw' = r
                               /\ LoopOver("deliver")
                               /\ UNCHANGED <<todo, out>>
    /\ UNCHANGED <<feedVars, feeds>>

\* self.feeds[feed] raises.
RouteLost(f) ==
    /\ f \notin feeds
    /\ Die
    /\ UNCHANGED <<feedVars, inVars>>

Route ==
    /\ pc = "route"
    /\ todo # <<>>
    /\ LET f == Head(todo) IN
         RouteMore(f) \/ RouteBad(f) \/ RouteRecord(f) \/ RouteLost(f)
    /\ UNCHANGED <<mainVars, outVars>>

RouteDone ==
    /\ pc = "route"
    /\ todo = <<>>
    /\ LoopOver("send")
    /\ UNCHANGED <<feedVars, inVars, todo, raw, out, mainVars, outVars>>

\* The loop raises at its next step after the size has changed.
LoopRaises ==
    /\ pc \in {"deliver", "send"}
    /\ ~SizeSame
    /\ Die
    /\ UNCHANGED <<feedVars, inVars, mainVars, outVars>>

\* One session builder: the record is for its nodes, and it is connected.  One
\* step: if connectSB replaces the entry in the middle of it, the record goes to
\* the old entry, that of a connection nobody uses any more.
Deliver(n) ==
    /\ pc = "deliver"
    /\ SizeSame
    /\ n \in left
    /\ left' = left \ {n}
    /\ IF raw.kind \in sbs[n].nodes /\ sbs[n].sock # NoSock
         THEN /\ sbs' = [sbs EXCEPT ![n].outBuf = @ \o Units(raw)]
              /\ routed' = [routed EXCEPT ![sbs[n].sock] = Append(@, raw)]
         ELSE UNCHANGED <<sbs, routed>>
    /\ UNCHANGED <<feedVars, inVars, pc, todo, raw, size, out, mainVars, sock, stalled,
                   stream, stray>>

DeliverDone ==
    /\ pc = "deliver"
    /\ SizeSame
    /\ left = {}
    /\ pc' = "route"
    /\ raw' = None
    /\ UNCHANGED <<feedVars, inVars, todo, left, size, out, mainVars, outVars>>

(***************************************************************************)
(* The sends.  Every step looks the entry up again, and connectSB may have *)
(* replaced it since the last one.                                         *)
(***************************************************************************)
SendTest(n) ==
    /\ pc = "send"
    /\ SizeSame
    /\ n \in left
    /\ left' = left \ {n}
    /\ IF sbs[n].outBuf = <<>>
         THEN UNCHANGED <<pc, out>>
         ELSE pc' = "call" /\ out' = [name |-> n, sock |-> NoSock, buf |-> <<>>]
    /\ UNCHANGED <<feedVars, inVars, todo, raw, size, mainVars, outVars>>

\* The socket, which has no send if it is None, and what is to be sent.  One
\* step: an entry is replaced after its socket was closed, and a send on that
\* raises, whatever it is to send.
SendCall ==
    /\ pc = "call"
    /\ LET e == sbs[out.name] IN
         IF e.sock = NoSock
           THEN Die
           ELSE /\ pc' = "sending"
                /\ out' = [out EXCEPT !.sock = e.sock, !.buf = e.outBuf]
                /\ UNCHANGED <<todo, raw, left, size>>
    /\ UNCHANGED <<feedVars, inVars, mainVars, outVars>>

\* The thread waits in send for room, which the session builder makes by
\* reading.
Blocked == /\ pc = "sending"
           /\ out.buf # <<>>
           /\ out.sock \in stalled /\ sock[out.sock] # "gone"

\* The socket takes some of it, and the rest is cut off what now waits in the
\* entry.  A send that has begun outlives the closing of its socket.
SendReturns ==
    /\ pc = "sending"
    /\ ~Blocked
    /\ LET waiting == sbs[out.name].outBuf IN
         \E i \in 0 .. Len(out.buf) :
            /\ out.buf # <<>> => i > 0
            /\ stream' = [stream EXCEPT ![out.sock] = @ \o SubSeq(out.buf, 1, i)]
            /\ out' = [out EXCEPT !.buf = SubSeq(waiting, i + 1, Len(waiting))]
    /\ pc' = "store"
    /\ UNCHANGED <<feedVars, inVars, todo, raw, left, size, mainVars, sbs, sock, stalled,
                   routed, stray>>

\* On a socket connectSB has closed, or one whose other end has gone, sooner or
\* later.
SendRaises ==
    /\ pc = "sending"
    /\ sock[out.sock] \in {"closed", "gone"}
    /\ Die
    /\ UNCHANGED <<feedVars, inVars, mainVars, outVars>>

\* The rest is put on the entry of that name.  If that is another one by now, it
\* has another socket, and an old connection's bytes are to go on a new one.
SendStore ==
    /\ pc = "store"
    /\ sbs' = [sbs EXCEPT ![out.name].outBuf = out.buf]
    /\ stray' = [stray EXCEPT ![out.name] =
                   IF sbs[out.name].sock = out.sock THEN @ ELSE out.buf]
    /\ pc' = "send"
    /\ out' = None
    /\ UNCHANGED <<feedVars, inVars, todo, raw, left, size, mainVars, sock, stalled, routed,
                   stream>>

Send == \/ SendCall \/ SendReturns \/ SendRaises \/ SendStore
        \/ \E n \in Names : SendTest(n)

\* "while self.keepalive"; at the end every feed is closed.
SendDone ==
    /\ pc = "send"
    /\ SizeSame
    /\ left = {}
    /\ IF keepalive
         THEN pc' = "select" /\ UNCHANGED <<feedVars, inVars>>
         ELSE /\ pc' = "done"
              /\ feeds' = {} /\ feedsChanged' = {}
              /\ inbuf' = [f \in Feeds |-> <<>>]
              /\ feed' = [f \in Feeds |-> IF f \in feeds THEN "over" ELSE feed[f]]
              /\ UNCHANGED <<sent, wire>>
    /\ UNCHANGED <<todo, raw, left, size, out, mainVars, outVars>>

Thread == \/ DoStuff \/ Route \/ RouteDone \/ LoopRaises \/ DeliverDone
          \/ Send \/ SendDone
          \/ \E n \in Names : Deliver(n)

-----------------------------------------------------------------------------
(***************************************************************************)
(* The main thread: connectSB, and shutdown.                               *)
(***************************************************************************)
Alive == pc \notin {"done", "dead"}

\* Another connectSB is not begun before this one returns.
Call(n) ==
    /\ Alive
    /\ call = None
    /\ calls < MaxCalls
    /\ calls' = calls + 1

New(n, a, nl) == [name |-> n, addr |-> a, nodes |-> nl]

\* "already connected, just changing nodeList"; not connected: try again.
Renode(n, nl) ==
    /\ Call(n)
    /\ sbs[n] # NoEntry
    /\ sbs' = [sbs EXCEPT ![n].nodes = nl]
    /\ call' = IF sbs[n].sock # NoSock THEN None ELSE New(n, sbs[n].addr, nl)
    /\ UNCHANGED <<feedVars, inVars, loopVars, keepalive, grown, sock, stalled,
                   routed, stream, stray>>

\* "changing host or port": the old connection is dropped before the new one
\* is made.
Rehost(n, a, nl) ==
    /\ Call(n)
    /\ sbs[n] # NoEntry
    /\ sbs[n].addr # a
    /\ sock' = IF sbs[n].sock = NoSock THEN sock
               ELSE [sock EXCEPT ![sbs[n].sock] = "closed"]
    /\ call' = New(n, a, nl)
    /\ UNCHANGED <<feedVars, inVars, loopVars, keepalive, grown, sbs, stalled,
                   routed, stream, stray>>

AddSB(n, a, nl) ==
    /\ Call(n)
    /\ sbs[n] = NoEntry
    /\ call' = New(n, a, nl)
    /\ UNCHANGED <<feedVars, inVars, loopVars, keepalive, grown, outVars>>

\* Mutant of Connect: what was waiting for the old connection goes to the new.
ConnectKeeping ==
    /\ call # None
    /\ \E k \in Socks \cup {NoSock} :
         /\ k # NoSock => sock[k] = "free" /\ \A j \in Socks : j < k => sock[j] # "free"
         /\ sock' = IF k = NoSock THEN sock ELSE [sock EXCEPT ![k] = "open"]
         /\ sbs' = [sbs EXCEPT ![call.name] =
                      [addr |-> call.addr, nodes |-> call.nodes, sock |-> k,
                       outBuf |-> IF @ = NoEntry THEN <<>> ELSE @.outBuf]]
    /\ grown' = (grown \/ sbs[call.name] = NoEntry)
    /\ stray' = [stray EXCEPT ![call.name] = <<>>]
    /\ call' = None
    /\ UNCHANGED <<feedVars, inVars, loopVars, keepalive, calls, stalled, routed, stream>>

\* The connection is made or refused, and the new entry replaces the old.
Connect ==
    /\ call # None
    /\ \E k \in Socks \cup {NoSock} :
         /\ k # NoSock => sock[k] = "free" /\ \A j \in Socks : j < k => sock[j] # "free"
         /\ sock' = IF k = NoSock THEN sock ELSE [sock EXCEPT ![k] = "open"]
         /\ sbs' = [sbs EXCEPT ![call.name] =
                      [addr |-> call.addr, nodes |-> call.nodes, sock |-> k,
                       outBuf |-> <<>>]]
    /\ grown' = (grown \/ sbs[call.name] = NoEntry)
    /\ stray' = [stray EXCEPT ![call.name] = <<>>]
    /\ call' = None
    /\ UNCHANGED <<feedVars, inVars, loopVars, keepalive, calls, stalled, routed, stream>>

Shutdown ==
    /\ keepalive
    /\ call = None
    /\ keepalive' = FALSE
    /\ UNCHANGED <<feedVars, inVars, loopVars, call, calls, grown, outVars>>

Next ==
    \/ \E f \in Feeds : \/ FeedClose(f)
                        \/ OnAccept(f) \/ OnRead(f) \/ OnEnd(f)
                        \/ \E k \in Kinds : FeedSend(f, k)
    \/ \E k \in Socks : SBGoes(k) \/ SBStalls(k)
    \/ Thread
    \/ \E n \in Names, a \in Addrs, nl \in NodeLists :
         Renode(n, nl) \/ Rehost(n, a, nl) \/ AddSB(n, a, nl)
    \/ Connect
    \/ Shutdown

Spec == Init /\ [][Next]_vars

\* The thread goes on with its loop, unless it waits in send.
FairSpec == Spec /\ WF_vars(Thread /\ ~Blocked)

-----------------------------------------------------------------------------
\* The types of the variables.
TypeOK ==
    /\ feed \in [Feeds -> FeedStates]
    /\ sent \in [Feeds -> 0 .. MaxRecs]
    /\ wire \in [Feeds -> Seq(UnitSet)]
    /\ feeds \subseteq Feeds
    /\ inbuf \in [Feeds -> Seq(UnitSet)]
    /\ feedsChanged \subseteq feeds
    /\ pc \in Stages
    /\ todo \in Seq(Feeds)
    /\ raw \in Records \cup {None}
    /\ left \subseteq Names
    /\ size \in 0 .. Cardinality(Names)
    /\ out \in Sends \cup {None}
    /\ sbs \in [Names -> Entries \cup {NoEntry}]
    /\ {keepalive, grown} \subseteq BOOLEAN
    /\ call \in [name : Names, addr : Addrs, nodes : SUBSET Nodes] \cup {None}
    /\ calls \in 0 .. MaxCalls
    /\ sock \in [Socks -> {"free", "open", "closed", "gone"}]
    /\ stalled \subseteq Socks
    /\ routed \in [Socks -> Seq(Records)]
    /\ stream \in [Socks -> Seq(UnitSet)]
    /\ stray \in [Names -> Seq(UnitSet)]

\* The units of a sequence of records.
UnitsOf(rs) ==
    [i \in 1 .. 2 * Len(rs) |-> Unit(rs[(i + 1) \div 2], IF i % 2 = 1 THEN 1 ELSE 2)]

\* What waits for a session builder: when a send on its connection has
\* returned, only what that did not take.
Waiting(n) ==
    IF pc = "store" /\ out.name = n /\ out.sock = sbs[n].sock
      THEN out.buf ELSE sbs[n].outBuf

\* What a session builder's connection has carried is the records routed to
\* it, whole and in order, up to a cut at the end, and what is missing waits
\* for it.  What an old connection did not take is not sent on a new one, but
\* for one case, a defect of the code: connectSB replaces the entry between the
\* two lookups of line 186, and the rest of the old connection's bytes, which
\* may begin in the middle of a record, is put in front of the new one's
\* records.  Nothing else ever gets there (streamTerminator.py:102, 182-186).
StreamsWhole ==
    \A n \in Keys : LET k == sbs[n].sock IN
        IF k = NoSock THEN sbs[n].outBuf = stray[n]
        ELSE stream[k] \o Waiting(n) = stray[n] \o UnitsOf(routed[k])

\* No session builder gets two records of a feed in another order than the
\* feed sent them, or one twice.
InFeedOrder ==
    \A k \in Socks : \A i, j \in DOMAIN routed[k] :
        i < j /\ routed[k][i].feed = routed[k][j].feed
            => routed[k][i].n < routed[k][j].n

\* When records are about to be sent, no complete one is left in a buffer, so
\* that a feed which ends now loses at most a record it did not finish, and
\* the feeds that have something are the ones feedsChanged has: a feed that
\* fell out of it would wait for its own next record
\* (streamTerminator.py:140-160).
NothingLeftBehind ==
    pc = "send" => \A f \in feeds :
        /\ Len(inbuf[f]) < 2
        /\ f \in feedsChanged <=> inbuf[f] # <<>>

\* Whatever feeds send, and however they end once they are accepted, the
\* thread goes on: only a session builder that goes, one that is moved or
\* added while it works, and a feed that is gone before it is accepted
\* (getpeername) can end it.
FeedsCannotKill ==
    pc = "dead" => \/ \E k \in Socks : sock[k] \in {"closed", "gone"}
                   \/ grown
                   \/ \E f \in Feeds \ feeds : feed[f] = "reset"

\* As long as the thread runs, what waits for a session builder leaves:
\* with StreamsWhole, every record routed on a connection is sent on it, unless
\* the connection is replaced, or the thread is held up for good in a send to
\* a session builder, this one or another, that has stopped reading
\* (streamTerminator.py:91-92, 180-186).
OutBufsDrain ==
    \A n \in Names :
        []<>(n \notin Keys \/ sbs[n].outBuf = <<>> \/ ~Alive \/ Blocked)
=============================================================================
