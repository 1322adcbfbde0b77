----------------------------- MODULE ControlBus -----------------------------
(***************************************************************************)
(* The control bus: the server thread, the CCM's model, its GUI thread and *)
(* any peers that speak the protocol.  A peer here is only what its        *)
(* connection shows: it connects, sends messages of its choice, reads what *)
(* it is sent and goes away at any moment, by intent, crash or link loss.  *)
(* Whatever holds here holds for every program written to the bus          *)
(* ("starting point for writing your own", README.md:21).                  *)
(***************************************************************************)
EXTENDS ControlServer, CcmModel, FiniteSets

CONSTANTS
    DescOf,     \* connection -> the description its program registers with
    PeerTypes,  \* the message types peers send in this instance
    MaxSend,    \* bound: connection -> messages sent on it
    Ends        \* the ways connections end in this instance

ASSUME BusConstants ==
    /\ DescOf \in [Conns -> Descs]
    /\ MaxSend \in [Conns -> Nat]
    /\ Ends \subseteq {"closed", "reset", "lost"}

VARIABLE sent   \* connection -> messages sent on it (bounded by MaxSend)

vars == <<serverVars, netVars, modelVars, guiVars, sendQ, recvQ, sent>>

TypeOK ==
    /\ QueuesTypeOK
    /\ ServerTypeOK
    /\ ModelTypeOK
    /\ sent \in [Conns -> Nat]
    /\ \A k \in Conns : sent[k] <= MaxSend[k]

Init ==
    /\ sendQ = <<>>
    /\ recvQ = <<>>
    /\ ServerInit
    /\ ModelInit
    /\ sent = [k \in Conns |-> 0]

-----------------------------------------------------------------------------
\* A peer's side of its connection (utils/controlClient.py run, send,
\* get_data), without the program behind it.
Connect(k) ==
    /\ client[k] = "free"
    /\ client' = [client EXCEPT ![k] = "open"]
    /\ UNCHANGED <<serverVars, accepted, up, down, modelVars, guiVars,
                   sendQ, recvQ, sent>>

PeerSend(k, m) ==
    /\ client[k] = "open"
    /\ sent[k] < MaxSend[k]
    /\ m.type \in PeerTypes
    /\ m.type = "REGISTER_REQ" => m.body = DescOf[k]
    /\ up' = [up EXCEPT ![k] = Append(@, m)]
    /\ sent' = [sent EXCEPT ![k] = @ + 1]
    /\ UNCHANGED <<serverVars, client, accepted, down, modelVars, guiVars,
                   sendQ, recvQ>>

PeerRecv(k) ==
    /\ client[k] = "open"
    /\ down[k] # <<>>
    /\ down' = [down EXCEPT ![k] = Tail(@)]
    /\ UNCHANGED <<serverVars, client, accepted, up, modelVars, guiVars,
                   sendQ, recvQ, sent>>

\* In good order, or with a reset (it had not read everything, or asked for
\* one); or its link goes, and neither end hears of it.
PeerClose(k) ==
    /\ client[k] = "open"
    /\ \E end \in Ends : client' = [client EXCEPT ![k] = end]
    /\ UNCHANGED <<serverVars, accepted, up, down, modelVars, guiVars,
                   sendQ, recvQ, sent>>

PeerNext ==
    \E k \in Conns :
        \/ Connect(k)
        \/ \E m \in PeerMsg : PeerSend(k, m)
        \/ PeerRecv(k)
        \/ PeerClose(k)

\* ControlServer.shutdown, its second statement, and the join.
ClearKeepalive ==
    /\ stopping = "dropped"
    /\ stopping' = "joined"
    /\ keepalive' = FALSE
    /\ UNCHANGED <<serverPc, peers, pendingIn, pendingOut, todo, netVars,
                   modelVars, asked, admin, late, guiStep, updating, newVals,
                   sendQ, recvQ, sent>>

GuiNext ==
    \/ \E p \in Fds, a \in Attrs, v \in Vals : UpdateConfig(p, a, v)
    \/ TellUnit
    \/ NoteUpdate
    \/ \E p \in Fds : Disconnect(p)
    \/ AskUnit
    \/ BeginShutdown
    \/ \E p \in Fds : AskNext(p)
    \/ QueueDropServer

Server == ServerNext /\ UNCHANGED <<modelVars, guiVars, sent>>
Model  == DoStuff /\ UNCHANGED <<serverVars, netVars, sent>>
Gui    == GuiNext /\ UNCHANGED <<serverVars, netVars, sent>>

Next == Server \/ Model \/ Gui \/ ClearKeepalive \/ PeerNext

Spec == Init /\ [][Next]_vars

\* The statements of shutdown, one of which is next at any time.
ShuttingDown ==
    \/ /\ (\E p \in Fds : AskNext(p)) \/ AskUnit \/ QueueDropServer
       /\ UNCHANGED <<serverVars, netVars, sent>>
    \/ ClearKeepalive

(***************************************************************************)
(* Fairness.  The server thread loops without blocking (select times out   *)
(* after 200 ms) and every pass serves every ready socket; the view starts *)
(* doStuff every 500 ms; shutdown runs to its end.  Peers and the user owe *)
(* nothing, and neither does a doStuff when the window is closed: there    *)
(* may be none.                                                            *)
(***************************************************************************)
Fairness ==
    /\ WF_vars(ServerLoop /\ UNCHANGED <<modelVars, guiVars, sent>>)
    /\ \A p \in Fds :
         /\ SF_vars(OnIOAll(p) /\ UNCHANGED <<modelVars, guiVars, sent>>)
         /\ SF_vars(OnHangup(p) /\ UNCHANGED <<modelVars, guiVars, sent>>)
    /\ WF_vars(Model /\ ~late)
    /\ WF_vars(ShuttingDown)

FairSpec == Spec /\ Fairness

-----------------------------------------------------------------------------
(***************************************************************************)
(* Safety.                                                                 *)
(***************************************************************************)

Goodbye(p) == Entry(p, Msg("SHUTDOWN_ACK", NoBody))

GoodbyePending(p) == \E i \in 1 .. Len(recvQ) : recvQ[i] = Goodbye(p)

\* A registration the CCM has not completed: the one doStuff is half way
\* through, and those waiting at or after position i of recvQ.
IsRegistration(e, p) == e.peer = p /\ e.msg.type = "REGISTER_REQ"

\* No ghost units.  When the socket of an fd is closed, a unit registered
\* under that fd, or about to be, still has a SHUTDOWN_ACK behind it in the
\* queue, or doStuff is about to delete it for one: the controller is always
\* told about it (controlServer.py:119), and told after everything the peer
\* said.
NoGhostUnit ==
    \A p \in Fds : peers[p] = NoConn =>
        /\ (p \in Known \/ registering = p) => GoodbyePending(p) \/ leaving = p
        /\ \A i \in 1 .. Len(recvQ) : IsRegistration(recvQ[i], p) =>
             \E j \in i + 1 .. Len(recvQ) : recvQ[j] = Goodbye(p)

\* No mistaken identity.  File descriptors are reused, and yet what the CCM
\* believes of fd p, once nobody is left to be said goodbye to and doStuff is
\* not about to delete what it has, is the description of the connection
\* that owns p now.
RightUnit ==
    \A p \in Fds : peers[p] # NoConn /\ ~GoodbyePending(p) /\ leaving # p =>
        /\ p \in Known => fu[p] = DescOf[peers[p]]
        /\ registering = p => regDesc = DescOf[peers[p]]

\* The registry is consistent between handlers: a unit has a configuration
\* exactly while it is known or being registered.
ConfigForUnits ==
    \A p \in Fds : (config[p] # NoCfg) <=> (p \in Known \/ p = registering)

-----------------------------------------------------------------------------
(***************************************************************************)
(* Liveness, under FairSpec.                                               *)
(***************************************************************************)

\* A unit whose socket is closed leaves the registry, while the CCM runs:
\* doStuff reaches its SHUTDOWN_ACK (ccmModel.py:185).
GhostsLeave ==
    \A p \in Fds :
        (p \in Known /\ peers[p] = NoConn) ~>
            (p \notin Known \/ peers[p] # NoConn \/ stopping # "no")

\* A registration that has reached the server's socket is acknowledged on
\* the same connection, unless one side closes it, the user stops the CCM or
\* the server thread has died: nothing the peer sent before, and no earlier
\* peer's leftovers in the queues, hold it up for ever.
RegistrationAnswered ==
    \A k \in Conns :
        (ServerEndOpen(k) /\ \E i \in 1 .. Len(up[k]) :
                                up[k][i].type = "REGISTER_REQ") ~>
            \/ \E i \in 1 .. Len(down[k]) : down[k][i].type = "REGISTER_ACK"
            \/ Gone(k)
            \/ ~ServerEndOpen(k)
            \/ stopping # "no"
            \/ serverPc = "dead"

\* What the user asks of a connected unit is written to its socket, unless
\* the peer goes first, the user stops the CCM or the server thread dies.
ForUser(m) == m.type \in {"CONFIG_SET", "SHUTDOWN_REQ"}

RequestsReachPeer ==
    \A p \in Fds, k \in Conns :
        (peers[p] = k /\ \E i \in 1 .. Len(sendQ) :
                            sendQ[i].peer = p /\ ForUser(sendQ[i].msg)) ~>
            \/ \E i \in 1 .. Len(down[k]) : ForUser(down[k][i])
            \/ peers[p] # k
            \/ stopping # "no"
            \/ serverPc = "dead"

\* Once the window is closed, and unless the loop over fu raises in the face
\* of a doStuff still running, shutdown gets through, whatever units are
\* there, and the server thread ends: the join (controlServer.py:86) does not
\* have to rely on its timeout.
ServerStops ==
    (stopping = "asking") ~> (serverPc \in {"done", "dead"} \/ stopping = "failed")

=============================================================================
