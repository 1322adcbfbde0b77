--------------------------- MODULE ControlServer ---------------------------
(***************************************************************************)
(* utils/controlServer.py: the single thread that accepts peers, reads and *)
(* writes their sockets, hands their messages to the CCM through recvQ and *)
(* carries out what the CCM puts on sendQ.                                 *)
(*                                                                         *)
(* One pass of _run is   select -> handlers (on_accept, on_IO)   ("io")    *)
(*                       one complete message per peer           ("recv")  *)
(*                       drain sendQ until it is empty           ("send")  *)
(*                       closing every peer, for DROP_SERVER     ("close") *)
(* and then `while self.keepalive`.  The phase is serverPc; the thread ends*)
(* as "done", or as "dead" when an exception leaves _run.  Handlers are    *)
(* enabled any number of times in "io": select may report any subset of    *)
(* the sockets, and several calls for one socket amount to a larger one.   *)
(*                                                                         *)
(* A peer is named after the fd of its socket, and the fd of a closed      *)
(* socket is free for the next connection: peers maps an fd to the         *)
(* connection that owns it now.                                            *)
(***************************************************************************)
EXTENDS BusMessages

VARIABLES
    serverPc,   \* phase of the server thread
    keepalive,  \* ControlServer.keepalive
    peers,      \* fd -> connection, NoConn when the fd is not a key
    pendingIn,  \* fd -> complete messages read, not yet handed to the CCM
    pendingOut, \* fd -> messages not yet written to the socket
    todo,       \* peers the "recv" loop has still to visit in this pass
    client,     \* connection -> its state at the peer's end: ClientStates
    accepted,   \* connections the server has accepted
    up,         \* connection -> messages on the wire from the peer
    down        \* connection -> messages on the wire to the peer

netVars    == <<client, accepted, up, down>>
serverVars == <<serverPc, keepalive, peers, pendingIn, pendingOut, todo>>

\* Not used yet, open, closed in good order, reset, or cut off by a link that
\* carries nothing any more.
ClientStates == {"free", "open", "closed", "reset", "lost"}

ServerTypeOK ==
    /\ serverPc \in {"io", "recv", "send", "close", "done", "dead"}
    /\ keepalive \in BOOLEAN
    /\ peers \in [Fds -> Conns \cup {NoConn}]
    /\ pendingIn \in [Fds -> Seq(PeerMsg)]
    /\ pendingOut \in [Fds -> Seq(CcmMsg)]
    /\ todo \subseteq Fds
    /\ client \in [Conns -> ClientStates]
    /\ accepted \subseteq Conns
    /\ up \in [Conns -> Seq(PeerMsg)]
    /\ down \in [Conns -> Seq(CcmMsg)]

ServerInit ==
    /\ serverPc = "io"
    /\ keepalive = TRUE
    /\ peers = [p \in Fds |-> NoConn]
    /\ pendingIn = [p \in Fds |-> <<>>]
    /\ pendingOut = [p \in Fds |-> <<>>]
    /\ todo = {}
    /\ client = [k \in Conns |-> "free"]
    /\ accepted = {}
    /\ up = [k \in Conns |-> <<>>]
    /\ down = [k \in Conns |-> <<>>]

OpenFds == {p \in Fds : peers[p] # NoConn}

\* The connection's own end at the server is open.
ServerEndOpen(k) == \E p \in Fds : peers[p] = k

Gone(k) == client[k] \in {"closed", "reset", "lost"}

-----------------------------------------------------------------------------
\* _on_accept: name the peer after the new fd and queue the CONNECT_ACK.  In
\* between, getpeername() raises when the peer's reset has arrived already:
\* nothing catches it, and the thread ends.
OnAccept(k, p) ==
    /\ serverPc = "io"
    /\ client[k] # "free"
    /\ k \notin accepted
    /\ peers[p] = NoConn
    /\ accepted' = accepted \cup {k}
    /\ peers' = [peers EXCEPT ![p] = k]
    /\ pendingIn' = [pendingIn EXCEPT ![p] = <<>>]
    /\ \/ /\ pendingOut' = [pendingOut EXCEPT ![p] = <<Msg("CONNECT_ACK", p)>>]
          /\ UNCHANGED serverPc
       \/ /\ client[k] = "reset"
          /\ serverPc' = "dead"
          /\ pendingOut' = [pendingOut EXCEPT ![p] = <<>>]
    /\ UNCHANGED <<keepalive, todo, client, up, down, sendQ, recvQ>>

\* Mutant of CloseConnection: the controller is not told.
CloseQuietly(p) ==
    /\ peers' = [peers EXCEPT ![p] = NoConn]
    /\ pendingIn' = [pendingIn EXCEPT ![p] = <<>>]
    /\ pendingOut' = [pendingOut EXCEPT ![p] = <<>>]
    /\ UNCHANGED recvQ

\* _close_connection: forget the peer, with whatever it still had pending,
\* and tell the controller about it.
CloseConnection(p) ==
    /\ peers' = [peers EXCEPT ![p] = NoConn]
    /\ pendingIn' = [pendingIn EXCEPT ![p] = <<>>]
    /\ pendingOut' = [pendingOut EXCEPT ![p] = <<>>]
    /\ recvQ' = Put(recvQ, p, "SHUTDOWN_ACK", NoBody)

\* The two halves of _on_IO that move messages: n written, then m read.
Transfer(p, n, m) ==
    LET k == peers[p] IN
    /\ pendingOut' = [pendingOut EXCEPT ![p] = SubSeq(@, n + 1, Len(@))]
    /\ down' = [down EXCEPT ![k] = @ \o SubSeq(pendingOut[p], 1, n)]
    /\ pendingIn' = [pendingIn EXCEPT ![p] = @ \o SubSeq(up[k], 1, m)]
    /\ up' = [up EXCEPT ![k] = SubSeq(@, m + 1, Len(@))]
    /\ UNCHANGED <<peers, recvQ>>

\* _on_IO, the peer still there: a partial send leaves the rest pending, a
\* read takes some of what has arrived.
OnIO(p) ==
    /\ serverPc = "io"
    /\ p \in OpenFds
    /\ \E n \in 0 .. Len(pendingOut[p]), m \in 0 .. Len(up[peers[p]]) :
         n + m > 0 /\ Transfer(p, n, m)
    /\ UNCHANGED <<serverPc, keepalive, todo, client, accepted, sendQ>>

\* _on_IO with every byte written and read: what a ready socket gets.
OnIOAll(p) ==
    /\ serverPc = "io"
    /\ p \in OpenFds
    /\ Len(pendingOut[p]) + Len(up[peers[p]]) > 0
    /\ Transfer(p, Len(pendingOut[p]), Len(up[peers[p]]))
    /\ UNCHANGED <<serverPc, keepalive, todo, client, accepted, sendQ>>

\* _on_IO, the peer gone: recv returns b'' once all input is read, or the
\* call raises ConnectionResetError and the unread input is lost.
OnHangup(p) ==
    /\ serverPc = "io"
    /\ p \in OpenFds
    /\ \/ client[peers[p]] = "closed" /\ up[peers[p]] = <<>>
       \/ client[peers[p]] = "reset"
    /\ CloseConnection(p)
    /\ UNCHANGED <<serverPc, keepalive, todo, netVars, sendQ>>

\* _on_IO, with an exception that is no ConnectionResetError, is not caught,
\* and ends the thread: BrokenPipeError from writing to a peer that has
\* closed in good order and has answered an earlier write with a reset; a
\* timeout from either call, when what was written over a lost link has
\* never been acknowledged.
OnUncaught(p) ==
    /\ serverPc = "io"
    /\ p \in OpenFds
    /\ down[peers[p]] # <<>>
    /\ \/ client[peers[p]] = "closed" /\ pendingOut[p] # <<>>
       \/ client[peers[p]] = "lost"
    /\ serverPc' = "dead"
    /\ UNCHANGED <<keepalive, peers, pendingIn, pendingOut, todo, netVars,
                   sendQ, recvQ>>

\* The handlers are done: _do_stuff starts with the peers that have a
\* complete message waiting.
StartDoStuff ==
    /\ serverPc = "io"
    /\ todo' = {p \in OpenFds : pendingIn[p] # <<>>}
    /\ serverPc' = IF todo' = {} THEN "send" ELSE "recv"
    /\ UNCHANGED <<keepalive, peers, pendingIn, pendingOut, netVars,
                   sendQ, recvQ>>

\* The first loop of _do_stuff: ONE message of each peer goes to the CCM.
TakeMsg(p) ==
    /\ serverPc = "recv"
    /\ p \in todo
    /\ recvQ' = Append(recvQ, Entry(p, Head(pendingIn[p])))
    /\ pendingIn' = [pendingIn EXCEPT ![p] = Tail(@)]
    /\ todo' = todo \ {p}
    /\ serverPc' = IF todo' = {} THEN "send" ELSE "recv"
    /\ UNCHANGED <<keepalive, peers, pendingOut, netVars, sendQ>>

\* The second loop, one sendQ entry.  DROP_PEER: the peer may be closed
\* already.
DrainDropPeer ==
    /\ serverPc = "send"
    /\ sendQ # <<>>
    /\ Head(sendQ).msg = DropPeer
    /\ sendQ' = Tail(sendQ)
    /\ IF Head(sendQ).peer \in OpenFds
         THEN CloseConnection(Head(sendQ).peer)
         ELSE UNCHANGED <<peers, pendingIn, pendingOut, recvQ>>
    /\ UNCHANGED <<serverPc, keepalive, todo, netVars>>

\* DROP_SERVER: start closing every peer.
DrainDropServer ==
    /\ serverPc = "send"
    /\ sendQ # <<>>
    /\ Head(sendQ).msg = DropServer
    /\ sendQ' = Tail(sendQ)
    /\ serverPc' = "close"
    /\ UNCHANGED <<keepalive, peers, pendingIn, pendingOut, todo, netVars,
                   recvQ>>

\* The loop over list(self.peers.keys()).
CloseNext(p) ==
    /\ serverPc = "close"
    /\ p \in OpenFds
    /\ CloseConnection(p)
    /\ UNCHANGED <<serverPc, keepalive, todo, netVars, sendQ>>

CloseEnd ==
    /\ serverPc = "close"
    /\ OpenFds = {}
    /\ keepalive' = FALSE
    /\ serverPc' = "send"
    /\ UNCHANGED <<peers, pendingIn, pendingOut, todo, netVars, sendQ, recvQ>>

IsForPeer(m) == m # DropPeer /\ m # DropServer

\* Mutant of DrainMessage: `=` for `+=`, what was pending is lost.
DrainOverwriting ==
    /\ serverPc = "send"
    /\ sendQ # <<>>
    /\ IsForPeer(Head(sendQ).msg)
    /\ sendQ' = Tail(sendQ)
    /\ pendingOut' = [pendingOut EXCEPT ![Head(sendQ).peer] =
                        IF Head(sendQ).peer \in OpenFds
                          THEN <<Head(sendQ).msg>> ELSE @]
    /\ serverPc' = IF Head(sendQ).peer \in OpenFds THEN "send" ELSE "dead"
    /\ UNCHANGED <<keepalive, peers, pendingIn, todo, netVars, recvQ>>

\* A message for a peer is appended to its pending output.  There is no
\* membership test on this branch: for an fd that is not a key the KeyError
\* leaves _run, and the thread is gone.
DrainMessage ==
    /\ serverPc = "send"
    /\ sendQ # <<>>
    /\ IsForPeer(Head(sendQ).msg)
    /\ sendQ' = Tail(sendQ)
    /\ IF Head(sendQ).peer \in OpenFds
         THEN /\ pendingOut' = [pendingOut EXCEPT
                   ![Head(sendQ).peer] = Append(@, Head(sendQ).msg)]
              /\ UNCHANGED serverPc
         ELSE /\ serverPc' = "dead"
              /\ UNCHANGED pendingOut
    /\ UNCHANGED <<keepalive, peers, pendingIn, todo, netVars, recvQ>>

\* Mutant of EndPass: `while True`.
EndPassForever ==
    /\ serverPc = "send"
    /\ sendQ = <<>>
    /\ serverPc' = "io"
    /\ UNCHANGED <<keepalive, peers, pendingIn, pendingOut, todo, netVars,
                   sendQ, recvQ>>

\* sendQ is empty: `while self.keepalive`.
EndPass ==
    /\ serverPc = "send"
    /\ sendQ = <<>>
    /\ serverPc' = IF keepalive THEN "io" ELSE "done"
    /\ UNCHANGED <<keepalive, peers, pendingIn, pendingOut, todo, netVars,
                   sendQ, recvQ>>

\* What the thread does on its own, whatever select reports.
ServerLoop ==
    \/ StartDoStuff
    \/ \E p \in Fds : TakeMsg(p)
    \/ DrainDropPeer
    \/ DrainDropServer
    \/ \E p \in Fds : CloseNext(p)
    \/ CloseEnd
    \/ DrainMessage
    \/ EndPass

ServerNext ==
    \/ \E k \in Conns, p \in Fds : OnAccept(k, p)
    \/ \E p \in Fds : OnIO(p)
    \/ \E p \in Fds : OnHangup(p)
    \/ \E p \in Fds : OnUncaught(p)
    \/ ServerLoop
=============================================================================
