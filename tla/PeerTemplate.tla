---------------------------- MODULE PeerTemplate ----------------------------
(***************************************************************************)
(* The unit's side of the control bus: the main thread of a functional     *)
(* unit (utils/peerTemplate.py) and the threads of the ControlClients it   *)
(* makes (utils/controlClient.py), one for each attempt to connect.        *)
(*                                                                         *)
(* All ControlClients put what they receive on the unit's one ccmQ, and    *)
(* take what they send from one list, `outgoing`, which belongs to the     *)
(* class and outlives a connection.  The newest message leaves first.      *)
(*                                                                         *)
(* The CCM is any of the three controllers, as its connections show it: it *)
(* answers, configures and shuts down the peers that registered, and it    *)
(* may crash and come back.  TCP delivers in order; a connection closed    *)
(* with input unread is reset, and what was on its way is lost.            *)
(***************************************************************************)
EXTENDS Naturals, Sequences, FiniteSets

CONSTANTS
    NConns,     \* bound: ControlClients whose threads do something
    Unasked,    \* what the CCM sends unasked: CONFIG_SETs, SHUTDOWN_REQs
    MaxUnasked, \* bound: how many of them
    MaxCrashes, \* bound: crashes of the CCM
    MaxLates,   \* bound: waits that time out while the answer is coming
    MaxTroubles, \* bound: all of these together
    MaxQueued,  \* bound: the unit reports progress while fewer messages wait
    Defaults,   \* whether units have attributes with default values
    Cleanups    \* what their cleanup() does: some of CleanupKinds

Conns == 1 .. NConns

\* peerTemplate's own reports progress; the LTE units' is silent; fu.py's
\* calls a method that does not exist.
CleanupKinds == {"report", "silent", "raise"}

ASSUME UnitConstants ==
    /\ NConns \in Nat \ {0}
    /\ MaxUnasked \in Nat /\ MaxCrashes \in Nat /\ MaxLates \in Nat
    /\ MaxTroubles \in Nat /\ MaxQueued \in Nat
    /\ Defaults \subseteq BOOLEAN
    /\ Cleanups \subseteq CleanupKinds

VARIABLES
    pc,         \* main thread: "start" "wait" "activate" "loop" "check" "cleaned"
                \* "ended" (main returned) "dead" (an exception left it)
    inSend,     \* it is in send still, the message appended and the selector
                \* not told
    wait,       \* the answer _wait_for_response waits for
    inStart,    \* main is in _start, not in its loop
    connected,  \* PeerTemplate.connected
    keepAlive,  \* Config.keepAlive()
    activated,  \* activate() has been called
    cC,         \* the ControlClient main uses
    orphaned,   \* it has made a new one while the old one's thread lived
    applied,    \* connection -> CONFIG_SETs config.update has been given
    thread,     \* connection -> state of its ControlClient's thread
    wantWrite,  \* connection -> its selector waits for EVENT_WRITE
    empty,      \* connections whose thread has found outgoing empty, and not
                \* told its selector
    ccmQ,       \* messages from the CCM
    outgoing,   \* ControlClient.outgoing
    up,         \* connection -> on the wire to the CCM
    down,       \* connection -> on the wire to the unit
    older,      \* the CCM is an older controller, ccm.py or ccm_LTE.py
    ccmUp,      \* the CCM runs
    server,     \* connection -> the CCM's end of it
    registered, \* connections the CCM has a registered peer on
    setsSent,   \* connection -> number of CONFIG_SETs sent on it
    unasked,    \* such messages so far (bounded by MaxUnasked)
    crashes,    \* crashes so far (bounded by MaxCrashes)
    lates       \* answers that came too late (bounded by MaxLates)

mainVars   == <<pc, inSend, wait, inStart, connected, keepAlive, activated, cC,
                orphaned, applied>>
threadVars == <<thread, wantWrite, empty, ccmQ, outgoing>>
wireVars   == <<up, down>>
ccmVars    == <<older, ccmUp, server, registered, setsSent, unasked,
                crashes>>
vars       == <<mainVars, threadVars, wireVars, ccmVars, lates>>

\* "ending": DROP_PEER is queued, the socket not yet unregistered; "broken":
\* a reset socket's exception has ended the thread, and only the thread.
ThreadStates == {"none", "connecting", "refused", "running", "ending",
                 "ended", "broken"}
ServerStates == {"none", "open", "closed", "reset"}

\* A message is its type, the connection it comes on and, for a CONFIG_SET,
\* its number on that connection.
Msg(t, c) == [type |-> t, conn |-> c, n |-> 0]
SetMsg(c, n) == [type |-> "CONFIG_SET", conn |-> c, n |-> n]

UpTypes == {"REGISTER_REQ", "CONFIG_SET", "CONFIG_REQ", "CONFIG_ACK",
            "PROGRESS", "SHUTDOWN_ACK"}
Answers == {"CONNECT_ACK", "REGISTER_ACK", "CONFIG_ACK", "CONFIG_SET"}
DownMsgs == [type : Answers \cup {"SHUTDOWN_REQ", "DROP_PEER"},
             conn : Conns, n : Nat]

Init ==
    /\ pc = "start" /\ inSend = FALSE
    /\ wait = "none" /\ inStart = TRUE
    /\ connected = FALSE /\ keepAlive = TRUE /\ activated = FALSE
    /\ cC = 1 /\ orphaned = FALSE /\ applied = [c \in Conns |-> <<>>]
    /\ thread = [c \in Conns |-> "none"]
    /\ wantWrite = [c \in Conns |-> FALSE] /\ empty = {}
    /\ ccmQ = <<>> /\ outgoing = <<>>
    /\ up = [c \in Conns |-> <<>>]
    /\ down = [c \in Conns |-> <<>>]
    /\ older \in BOOLEAN /\ ccmUp \in BOOLEAN
    /\ server = [c \in Conns |-> "none"]
    /\ registered = {}
    /\ setsSent = [c \in Conns |-> 0]
    /\ unasked = 0 /\ crashes = 0 /\ lates = 0

Running == pc \notin {"ended", "dead"}

Troubles == crashes + lates + unasked

-----------------------------------------------------------------------------
(***************************************************************************)
(* The main thread.                                                        *)
(***************************************************************************)

\* ControlClient.send appends the message, unless it sees that the thread has
\* ended, and next tells the thread's selector.
Send(t, next) ==
    /\ pc' = next
    /\ \/ /\ thread[cC] # "ended"
          /\ outgoing' = Append(outgoing, t)
          /\ inSend' = TRUE
       \/ /\ thread[cC] \in {"ended", "ending"}
          /\ UNCHANGED <<outgoing, inSend>>

\* modify raises if the thread has not got as far as registering its socket, or
\* has unregistered it; while a thread ends, each can happen.
SendModify ==
    /\ inSend
    /\ inSend' = FALSE
    /\ \/ /\ thread[cC] \in {"running", "broken", "ending"}
          /\ wantWrite' = [wantWrite EXCEPT ![cC] = TRUE]
          /\ UNCHANGED pc
       \/ /\ thread[cC] \in {"connecting", "refused", "ending", "ended"}
          /\ pc' = "dead"
          /\ UNCHANGED wantWrite
    /\ UNCHANGED <<wait, inStart, connected, keepAlive, activated, cC, orphaned,
                   applied, thread, empty, ccmQ, outgoing, wireVars, ccmVars,
                   lates>>

\* ControlClient(): a socket and a thread that connects it.
NewClient ==
    /\ \E c \in Conns :
         /\ thread[c] \in {"none", "refused"}
         /\ \A d \in Conns : d < c => thread[d] \notin {"none", "refused"}
         /\ cC' = c
         /\ thread' = [thread EXCEPT ![c] = "connecting"]
    /\ orphaned' = (orphaned \/ thread[cC] \in {"connecting", "running"})
    /\ pc' = "wait"
    /\ wait' = "CONNECT_ACK"

Start ==
    /\ pc = "start" /\ ~inSend
    /\ NewClient
    /\ UNCHANGED <<inSend, inStart, connected, keepAlive, activated, applied,
                   wantWrite, empty, ccmQ, outgoing, wireVars, ccmVars, lates>>

\* The answer came.
AckConnect ==
    /\ wait = "CONNECT_ACK"
    /\ connected' = TRUE
    /\ Send("REGISTER_REQ", "wait")
    /\ wait' = "REGISTER_ACK"
    /\ UNCHANGED <<inStart, activated, applied>>

AckRegister ==
    /\ wait = "REGISTER_ACK"
    /\ \/ /\ ~inStart
          /\ pc' = "check"
          /\ wait' = "none"
          /\ UNCHANGED <<outgoing, inSend>>
       \/ /\ inStart /\ TRUE \in Defaults
          /\ Send("CONFIG_SET", "wait")
          /\ wait' = "CONFIG_ACK"
       \/ /\ inStart /\ FALSE \in Defaults
          /\ Send("CONFIG_REQ", "wait")
          /\ wait' = "CONFIG_SET"
    /\ UNCHANGED <<inStart, connected, activated, applied>>

\* _setConfig's own result is not looked at.
SetConfigDone ==
    /\ wait = "CONFIG_ACK"
    /\ Send("CONFIG_REQ", "wait")
    /\ wait' = "CONFIG_SET"
    /\ UNCHANGED <<inStart, connected, activated, applied>>

AckConfig(m) ==
    /\ wait = "CONFIG_SET"
    /\ applied' = [applied EXCEPT ![m.conn] = Append(@, m.n)]
    /\ Send("CONFIG_ACK", "activate")
    /\ inStart' = FALSE
    /\ wait' = "none"
    /\ UNCHANGED <<connected, activated>>

\* Mutant of GiveUp: the result of _setConfig is looked at.
GiveUpAny ==
    /\ connected' = (connected \/ inStart)
    /\ pc' = IF inStart THEN "loop" ELSE "check"
    /\ inStart' = FALSE
    /\ wait' = "none"
    /\ UNCHANGED <<activated, applied, outgoing, inSend>>

\* Another message came, or none: _start gives up, and its caller goes on
\* into the loop; _check_CCM goes on to the queue.
GiveUp ==
    /\ wait # "CONFIG_ACK"
    /\ connected' = (connected \/ inStart)
    /\ pc' = IF inStart THEN "loop" ELSE "check"
    /\ inStart' = FALSE
    /\ wait' = "none"
    /\ UNCHANGED <<activated, applied, outgoing, inSend>>

\* Mutant of Answered: what else there is is thrown away with the answer.
AnsweredFlush ==
    /\ pc = "wait" /\ ~inSend
    /\ ccmQ # <<>>
    /\ ccmQ' = <<>>
    /\ LET m == Head(ccmQ) IN
         IF m.type = wait
           THEN AckConnect \/ AckRegister \/ SetConfigDone \/ AckConfig(m)
           ELSE GiveUp \/ SetConfigDone
    /\ UNCHANGED <<keepAlive, cC, orphaned, thread, wantWrite, empty, wireVars,
                   ccmVars, lates>>

\* _wait_for_response takes one message off ccmQ, whatever it is.
Answered ==
    /\ pc = "wait" /\ ~inSend
    /\ ccmQ # <<>>
    /\ ccmQ' = Tail(ccmQ)
    /\ LET m == Head(ccmQ) IN
         IF m.type = wait
           THEN AckConnect \/ AckRegister \/ SetConfigDone \/ AckConfig(m)
           ELSE GiveUp \/ SetConfigDone
    /\ UNCHANGED <<keepAlive, cC, orphaned, thread, wantWrite, empty, wireVars,
                   ccmVars, lates>>

\* Something is still on its way to ccmQ, or will be once the CCM has read
\* and answered what is on its way there.
Coming ==
    \/ thread[cC] = "connecting"
    \/ /\ thread[cC] = "running"
       /\ \/ server[cC] \in {"closed", "reset"}
          \/ down[cC] # <<>>
          \/ server[cC] = "none" /\ ccmUp
          \/ /\ server[cC] = "open"
             /\ \/ up[cC] # <<>>
                \/ wantWrite[cC] /\ cC \notin empty /\ outgoing # <<>>

\* Five seconds have passed.
Timeout ==
    /\ pc = "wait" /\ ~inSend
    /\ ccmQ = <<>>
    /\ Coming => lates < MaxLates /\ Troubles < MaxTroubles
    /\ lates' = IF Coming THEN lates + 1 ELSE lates
    /\ GiveUp \/ SetConfigDone
    /\ UNCHANGED <<keepAlive, cC, orphaned, thread, wantWrite, empty, ccmQ,
                   wireVars, ccmVars>>

\* _start ends with it.
Activate ==
    /\ pc = "activate" /\ ~inSend
    /\ activated' = TRUE
    /\ pc' = "loop"
    /\ UNCHANGED <<inSend, wait, inStart, connected, keepAlive, cC, orphaned,
                   applied, threadVars, wireVars, ccmVars, lates>>

\* The end of main's loop.
Finish ==
    /\ pc = "loop" /\ ~inSend
    /\ ~keepAlive
    /\ pc' = "ended"
    /\ UNCHANGED <<inSend, wait, inStart, connected, keepAlive, activated, cC,
                   orphaned, applied, threadVars, wireVars, ccmVars, lates>>

\* A message on outgoing that main's selector is not asked to write: it waits
\* until main sends the next.
Overlooked ==
    /\ ~inSend
    /\ thread[cC] = "running"
    /\ outgoing # <<>>
    /\ ~wantWrite[cC]

\* _sendProgress, from the loop.
Progress ==
    /\ pc = "loop" /\ ~inSend
    /\ keepAlive
    /\ connected
    /\ Len(outgoing) + Len(up[cC]) < MaxQueued \/ Overlooked
    /\ Send("PROGRESS", "loop")
    /\ UNCHANGED <<wait, inStart, connected, keepAlive, activated, cC, orphaned,
                   applied, thread, wantWrite, empty, ccmQ, wireVars, ccmVars,
                   lates>>

\* Mutant of CheckReconnect: it does not wait to be told of a loss.
CheckReconnectAlways ==
    /\ pc = "loop" /\ ~inSend
    /\ keepAlive
    /\ NewClient
    /\ UNCHANGED <<inSend, inStart, connected, keepAlive, activated, applied,
                   wantWrite, empty, ccmQ, outgoing, wireVars, ccmVars, lates>>

\* _check_CCM: reconnect, or look at what the CCM has sent.
CheckReconnect ==
    /\ pc = "loop" /\ ~inSend
    /\ keepAlive
    /\ ~connected
    /\ NewClient
    /\ UNCHANGED <<inSend, inStart, connected, keepAlive, activated, applied,
                   wantWrite, empty, ccmQ, outgoing, wireVars, ccmVars, lates>>

CheckQueue ==
    /\ pc = "loop" /\ ~inSend
    /\ keepAlive
    /\ connected
    /\ ccmQ # <<>>
    /\ pc' = "check"
    /\ UNCHANGED <<inSend, wait, inStart, connected, keepAlive, activated, cC,
                   orphaned, applied, threadVars, wireVars, ccmVars, lates>>

\* "while self.connected and not self.ccmQ.empty()"
CheckDone ==
    /\ pc = "check" /\ ~inSend
    /\ ~connected \/ ccmQ = <<>>
    /\ pc' = "loop"
    /\ UNCHANGED <<inSend, wait, inStart, connected, keepAlive, activated, cC,
                   orphaned, applied, threadVars, wireVars, ccmVars, lates>>

Take(types) ==
    /\ pc = "check" /\ ~inSend
    /\ connected
    /\ ccmQ # <<>>
    /\ Head(ccmQ).type \in types
    /\ ccmQ' = Tail(ccmQ)

\* The unit cleans up, which may report progress once more.
TakeShutdown ==
    /\ Take({"SHUTDOWN_REQ"})
    /\ \/ "report" \in Cleanups /\ Send("PROGRESS", "cleaned")
       \/ /\ "silent" \in Cleanups
          /\ pc' = "cleaned"
          /\ UNCHANGED <<outgoing, inSend>>
       \/ /\ "raise" \in Cleanups
          /\ pc' = "dead"
          /\ UNCHANGED <<outgoing, inSend>>
    /\ UNCHANGED <<wait, inStart, connected, keepAlive, activated, cC, orphaned,
                   applied, thread, wantWrite, empty, wireVars, ccmVars, lates>>

\* Mutant of AckShutdown: KeepAlive is left alone.
AckShutdownOnly ==
    /\ pc = "cleaned" /\ ~inSend
    /\ Send("SHUTDOWN_ACK", "check")
    /\ UNCHANGED <<wait, inStart, connected, keepAlive, activated, cC, orphaned,
                   applied, thread, wantWrite, empty, ccmQ, wireVars, ccmVars,
                   lates>>

\* ... and ends its loop, and says so.
AckShutdown ==
    /\ pc = "cleaned" /\ ~inSend
    /\ keepAlive' = FALSE
    /\ Send("SHUTDOWN_ACK", "check")
    /\ UNCHANGED <<wait, inStart, connected, activated, cC, orphaned,
                   applied, thread, wantWrite, empty, ccmQ, wireVars, ccmVars,
                   lates>>

TakeConfig ==
    /\ Take({"CONFIG_SET"})
    /\ LET m == Head(ccmQ) IN
         applied' = [applied EXCEPT ![m.conn] = Append(@, m.n)]
    /\ Send("CONFIG_ACK", "check")
    /\ UNCHANGED <<wait, inStart, connected, keepAlive, activated, cC, orphaned,
                   thread, wantWrite, empty, wireVars, ccmVars, lates>>

\* Mutant of TakeDrop: only logged.
TakeDropLogged ==
    /\ Take({"DROP_PEER"})
    /\ UNCHANGED <<mainVars, thread, wantWrite, empty, outgoing, wireVars, ccmVars,
                   lates>>

TakeDrop ==
    /\ Take({"DROP_PEER"})
    /\ connected' = FALSE
    /\ UNCHANGED <<pc, inSend, wait, inStart, keepAlive, activated, cC, orphaned,
                   applied, thread, wantWrite, empty, outgoing, wireVars, ccmVars,
                   lates>>

TakeOther ==
    /\ Take({"CONNECT_ACK", "REGISTER_ACK", "CONFIG_ACK"})
    /\ UNCHANGED <<mainVars, thread, wantWrite, empty, outgoing, wireVars, ccmVars,
                   lates>>

Main == \/ Start \/ Answered \/ Timeout \/ SendModify \/ Activate
        \/ Finish \/ Progress
        \/ CheckReconnect \/ CheckQueue \/ CheckDone
        \/ TakeShutdown \/ AckShutdown \/ TakeConfig \/ TakeDrop \/ TakeOther

-----------------------------------------------------------------------------
(***************************************************************************)
(* ControlClient.run, one thread for each connection.                      *)
(***************************************************************************)

\* A connection refused raises: the thread is gone, nobody is told.
ThreadConnect(c) ==
    /\ Running
    /\ thread[c] = "connecting"
    /\ thread' = [thread EXCEPT ![c] = IF ccmUp THEN "running" ELSE "refused"]
    /\ UNCHANGED <<mainVars, wantWrite, empty, ccmQ, outgoing, wireVars, ccmVars,
                   lates>>

ThreadRead(c) ==
    /\ Running
    /\ thread[c] = "running" /\ c \notin empty
    /\ server[c] # "reset"
    /\ down[c] # <<>>
    /\ ccmQ' = Append(ccmQ, Head(down[c]))
    /\ down' = [down EXCEPT ![c] = Tail(@)]
    /\ UNCHANGED <<mainVars, thread, wantWrite, empty, outgoing, up, ccmVars, lates>>

\* recv returns b''.
ThreadEof(c) ==
    /\ Running
    /\ thread[c] = "running" /\ c \notin empty
    /\ server[c] = "closed"
    /\ down[c] = <<>>
    /\ ccmQ' = Append(ccmQ, Msg("DROP_PEER", c))
    /\ thread' = [thread EXCEPT ![c] = "ending"]
    /\ UNCHANGED <<mainVars, wantWrite, empty, outgoing, wireVars, ccmVars, lates>>

ThreadEnds(c) ==
    /\ Running
    /\ thread[c] = "ending"
    /\ thread' = [thread EXCEPT ![c] = "ended"]
    /\ UNCHANGED <<mainVars, wantWrite, empty, ccmQ, outgoing, wireVars, ccmVars,
                   lates>>

\* recv raises.
ThreadBreaks(c) ==
    /\ Running
    /\ thread[c] = "running" /\ c \notin empty
    /\ server[c] = "reset"
    /\ thread' = [thread EXCEPT ![c] = "broken"]
    /\ UNCHANGED <<mainVars, wantWrite, empty, ccmQ, outgoing, wireVars, ccmVars,
                   lates>>

Writable(c) ==
    /\ Running
    /\ thread[c] = "running" /\ c \notin empty
    /\ wantWrite[c]

\* A message written when the other end has closed is lost, and resets the
\* connection.
WriteMsg(c, t) ==
    IF server[c] = "closed"
      THEN /\ server' = [server EXCEPT ![c] = "reset"]
           /\ UNCHANGED up
      ELSE /\ up' = [up EXCEPT ![c] = Append(@, t)]
           /\ UNCHANGED server

\* Mutant of ThreadWrite: pop(0).
ThreadWriteOldest(c) ==
    /\ Writable(c)
    /\ outgoing # <<>>
    /\ server[c] # "reset"
    /\ outgoing' = Tail(outgoing)
    /\ WriteMsg(c, Head(outgoing))
    /\ UNCHANGED <<mainVars, thread, wantWrite, empty, ccmQ, down, older,
                   ccmUp, registered, setsSent, unasked, crashes, lates>>

\* next_msg = self.outgoing.pop()
ThreadWrite(c) ==
    /\ Writable(c)
    /\ outgoing # <<>>
    /\ server[c] # "reset"
    /\ outgoing' = SubSeq(outgoing, 1, Len(outgoing) - 1)
    /\ WriteMsg(c, outgoing[Len(outgoing)])
    /\ UNCHANGED <<mainVars, thread, wantWrite, empty, ccmQ, down, older,
                   ccmUp, registered, setsSent, unasked, crashes, lates>>

\* "if not self.outgoing:" ...
ThreadFindsNone(c) ==
    /\ Writable(c)
    /\ outgoing = <<>>
    /\ empty' = empty \cup {c}
    /\ UNCHANGED <<mainVars, thread, wantWrite, ccmQ, outgoing, wireVars, ccmVars,
                   lates>>

\* ... and modify, though a message may have been sent by now.
ThreadReadOnly(c) ==
    /\ Running
    /\ c \in empty
    /\ empty' = empty \ {c}
    /\ wantWrite' = [wantWrite EXCEPT ![c] = FALSE]
    /\ UNCHANGED <<mainVars, thread, ccmQ, outgoing, wireVars, ccmVars, lates>>

Thread(c) == \/ ThreadConnect(c) \/ ThreadRead(c) \/ ThreadEof(c)
             \/ ThreadEnds(c) \/ ThreadBreaks(c)
             \/ ThreadWrite(c) \/ ThreadFindsNone(c) \/ ThreadReadOnly(c)

-----------------------------------------------------------------------------
(***************************************************************************)
(* The CCM, behind its server thread.                                      *)
(***************************************************************************)
CcmAccept(c) ==
    /\ ccmUp
    /\ thread[c] = "running"
    /\ server[c] = "none"
    /\ server' = [server EXCEPT ![c] = "open"]
    /\ down' = [down EXCEPT ![c] = Append(@, Msg("CONNECT_ACK", c))]
    /\ UNCHANGED <<mainVars, threadVars, up, older, ccmUp, registered,
                   setsSent, unasked, crashes, lates>>

\* A CONFIG_SET is named by its number on the connection.
NextSet(c) == SetMsg(c, setsSent[c] + 1)

Answer(c, msgs) ==
    /\ down' = [down EXCEPT ![c] = @ \o msgs]
    /\ setsSent' = [setsSent EXCEPT ![c] =
                       @ + Cardinality({i \in DOMAIN msgs : msgs[i].type = "CONFIG_SET"})]

\* ccm_LTE.py sends its configuration unasked with the REGISTER_ACK.
CcmRegister(c) ==
    /\ Head(up[c]) = "REGISTER_REQ"
    /\ registered' = registered \cup {c}
    /\ \/ Answer(c, <<Msg("REGISTER_ACK", c)>>)
       \/ older /\ Answer(c, <<Msg("REGISTER_ACK", c), NextSet(c)>>)
    /\ UNCHANGED server

\* Only ccmModel.py acknowledges a unit's CONFIG_SET.
CcmAnswer(c) ==
    /\ \/ /\ Head(up[c]) = "CONFIG_REQ"
          /\ Answer(c, <<NextSet(c)>>)
       \/ /\ Head(up[c]) = "CONFIG_SET" /\ ~older
          /\ Answer(c, <<Msg("CONFIG_ACK", c)>>)
       \/ /\ \/ Head(up[c]) = "CONFIG_SET" /\ older
             \/ Head(up[c]) \in {"CONFIG_ACK", "PROGRESS"}
          /\ UNCHANGED <<down, setsSent>>
    /\ UNCHANGED <<server, registered>>

Close(c, unread) ==
    server' = [server EXCEPT ![c] = IF unread = <<>> THEN "closed" ELSE "reset"]

CcmDrop(c) ==
    /\ Head(up[c]) = "SHUTDOWN_ACK"
    /\ registered' = registered \ {c}
    /\ Close(c, Tail(up[c]))
    /\ UNCHANGED <<down, setsSent>>

CcmReceive(c) ==
    /\ ccmUp
    /\ Running
    /\ server[c] = "open"
    /\ up[c] # <<>>
    /\ up' = [up EXCEPT ![c] = Tail(@)]
    /\ CcmRegister(c) \/ CcmAnswer(c) \/ CcmDrop(c)
    /\ UNCHANGED <<mainVars, threadVars, older, ccmUp, unasked,
                   crashes, lates>>

CcmConfigures(c) ==
    /\ "CONFIG_SET" \in Unasked
    /\ ccmUp
    /\ Running
    /\ c \in registered
    /\ unasked < MaxUnasked /\ Troubles < MaxTroubles
    /\ unasked' = unasked + 1
    /\ Answer(c, <<NextSet(c)>>)
    /\ UNCHANGED <<mainVars, threadVars, up, older, ccmUp, server,
                   registered, crashes, lates>>

CcmAsksShutdown(c) ==
    /\ "SHUTDOWN_REQ" \in Unasked
    /\ ccmUp
    /\ Running
    /\ c \in registered
    /\ unasked < MaxUnasked /\ Troubles < MaxTroubles
    /\ unasked' = unasked + 1
    /\ Answer(c, <<Msg("SHUTDOWN_REQ", c)>>)
    /\ UNCHANGED <<mainVars, threadVars, up, older, ccmUp, server,
                   registered, crashes, lates>>

\* The unit's process has gone.  What the CCM still reads of it, or sends it,
\* is not modelled.
CcmSeesEof(c) ==
    /\ ccmUp
    /\ ~Running
    /\ server[c] = "open"
    /\ server' = [server EXCEPT ![c] = "closed"]
    /\ registered' = registered \ {c}
    /\ UNCHANGED <<mainVars, threadVars, wireVars, older, ccmUp, setsSent,
                   unasked, crashes, lates>>

\* A connection not yet accepted is reset.
CcmCrash ==
    /\ ccmUp
    /\ Running
    /\ crashes < MaxCrashes /\ Troubles < MaxTroubles
    /\ crashes' = crashes + 1
    /\ ccmUp' = FALSE
    /\ registered' = {}
    /\ server' = [c \in Conns |->
         CASE server[c] = "open" -> IF up[c] = <<>> THEN "closed" ELSE "reset"
           [] server[c] = "none" /\ thread[c] = "running" -> "reset"
           [] OTHER -> server[c]]
    /\ UNCHANGED <<mainVars, threadVars, wireVars, older, setsSent, unasked,
                   lates>>

CcmStart ==
    /\ ~ccmUp
    /\ ccmUp' = TRUE
    /\ UNCHANGED <<mainVars, threadVars, wireVars, older, server, registered,
                   setsSent, unasked, crashes, lates>>

Ccm(c) == \/ CcmAccept(c) \/ CcmReceive(c) \/ CcmConfigures(c)
          \/ CcmAsksShutdown(c) \/ CcmSeesEof(c)

Next == \/ Main
        \/ \E c \in Conns : Thread(c) \/ Ccm(c)
        \/ CcmCrash
        \/ CcmStart

Spec == Init /\ [][Next]_vars

\* Main goes round its loop, where the queue has its turn besides the reports
\* of progress, each thread serves its socket, and a CCM that runs reads what it
\* is sent.
FairSpec ==
    /\ Spec
    /\ WF_vars(Main)
    /\ SF_vars(CheckQueue)
    /\ \A c \in Conns :
         /\ WF_vars(ThreadConnect(c) \/ ThreadRead(c) \/ ThreadEof(c)
                     \/ ThreadEnds(c) \/ ThreadBreaks(c))
         /\ WF_vars(ThreadWrite(c) \/ ThreadFindsNone(c) \/ ThreadReadOnly(c))
         /\ WF_vars(CcmAccept(c) \/ CcmReceive(c))

-----------------------------------------------------------------------------
\* The types of the variables.
TypeOK ==
    /\ pc \in {"start", "wait", "activate", "loop", "check", "cleaned", "ended",
               "dead"}
    /\ wait \in Answers \cup {"none"}
    /\ {inSend, inStart, connected, keepAlive, activated, ccmUp, orphaned,
        older} \subseteq BOOLEAN
    /\ cC \in Conns
    /\ applied \in [Conns -> Seq(Nat)]
    /\ thread \in [Conns -> ThreadStates]
    /\ wantWrite \in [Conns -> BOOLEAN] /\ empty \subseteq Conns
    /\ ccmQ \in Seq(DownMsgs)
    /\ outgoing \in Seq(UpTypes)
    /\ up \in [Conns -> Seq(UpTypes)]
    /\ down \in [Conns -> Seq(DownMsgs)]
    /\ server \in [Conns -> ServerStates]
    /\ registered \subseteq Conns
    /\ setsSent \in [Conns -> Nat]
    /\ unasked \in 0 .. MaxUnasked
    /\ crashes \in 0 .. MaxCrashes
    /\ lates \in 0 .. MaxLates

\* A CONFIG_SET or CONFIG_REQ reaches the CCM only from a peer that has
\* registered on the same connection: ccmModel.py:157,163 raise otherwise.
\* The messages an earlier connection left on `outgoing` (controlClient.py:29)
\* come after the new one's REGISTER_REQ, for the newest goes first (:157).
\* Only a late CONNECT_ACK can undo this: the unit tries again, and has two
\* threads that share `outgoing`.
CcmKnowsPeer ==
    ~orphaned => \A c \in Conns :
        /\ server[c] = "open"
        /\ up[c] # <<>>
        /\ Head(up[c]) \in {"CONFIG_SET", "CONFIG_REQ"}
        => c \in registered

\* Unless a CONNECT_ACK or REGISTER_ACK was too late, the CCM never sees one
\* unit as two (peerTemplate.py:175).
OneRegistration ==
    lates = 0 => \A c, d \in registered : c = d

SetsIn(q, c) == {i \in DOMAIN q : q[i].type = "CONFIG_SET" /\ q[i].conn = c}

\* The CONFIG_SETs of c in q are those up to number s that are not in a, the
\* first of them, in order.
GoesOn(a, q, c, s) ==
    /\ a = [n \in 1 .. Len(a) |-> n]
    /\ {q[i].n : i \in SetsIn(q, c)} = Len(a) + 1 .. s
    /\ \A i, j \in SetsIn(q, c) : i < j => q[i].n < q[j].n

\* A unit that reconnects applies every CONFIG_SET it is sent from then on,
\* in order: the waits of _check_CCM (peerTemplate.py:176-182), which throw
\* away whatever is no answer, take none of them unless an answer is late.
\* In _start, on the first connection, they may.
NoSetMissed ==
    lates = 0 => \A c \in Conns \ {1} :
        GoesOn(applied[c], ccmQ \o down[c], c, setsSent[c])

\* A unit whose start nothing disturbs, no crash, no late answer and nothing
\* unasked from the CCM, is activated, whichever controller runs: one that
\* leaves its CONFIG_SET unanswered too (peerTemplate.py:90).  But a request sent
\* while the thread turns its selector back to reading may be overlooked: no
\* lock keeps send from coming between the look at outgoing and modify
\* (controlClient.py:83-84, 149-154).
Disturbed == ~ccmUp \/ crashes > 0 \/ lates > 0 \/ unasked > 0

StartSucceeds == <>(activated \/ Disturbed \/ Overlooked)

\* A unit that is told it has lost the CCM is registered again ("reconnect when
\* new CCM becomes available", README.md:65), or has ended, once the CCM stays up
\* and answers in time: if no answer comes too late any more.
TypesIn(q) == {q[i].type : i \in DOMAIN q}

Lost == pc = "loop" /\ (~connected \/ "DROP_PEER" \in TypesIn(ccmQ))

Settled ==
    /\ ccmUp
    /\ Troubles = MaxTroubles \/ (crashes = MaxCrashes /\ lates = MaxLates)

ReturnsToBus == (Lost /\ Settled) ~> (cC \in registered \/ ~Running)

\* A unit in its loop that is asked to shut down stops, whatever is in front
\* of the request, if that is not the loss of the connection
\* (peerTemplate.py:183-195).
ToldToStop ==
    /\ pc \in {"loop", "check"}
    /\ connected
    /\ \E i \in DOMAIN ccmQ :
         /\ ccmQ[i].type = "SHUTDOWN_REQ"
         /\ "DROP_PEER" \notin TypesIn(SubSeq(ccmQ, 1, i))

StopsWhenTold == ToldToStop ~> ~Running
=============================================================================
