---------------------------- MODULE ServerFraming ----------------------------
(***************************************************************************)
(* How controlServer.py takes messages out of what a peer has written:     *)
(* _on_IO appends what a read brings to pending_in, and every _do_stuff    *)
(* takes one message off it, if there is a complete one.  pending_in is    *)
(* what has been received and not taken.                                   *)
(***************************************************************************)
EXTENDS Framing

VARIABLE taken      \* bytes taken from pending_in

serverVars == <<streamVars, received, got, lost, taken>>

PendingIn == received - taken

ServerInit == StreamInit /\ taken = 0

PeerSends(n) ==
    /\ Send(n)
    /\ UNCHANGED <<received, got, lost, taken>>

\* _on_IO: a read brings any part of what has been written.
OnIO(r) ==
    /\ received < r
    /\ r <= total
    /\ received' = r
    /\ UNCHANGED <<streamVars, got, lost, taken>>

\* Mutants of DoStuff: `<` for `<=`; slicing from 0 instead of hdr.
DoStuffTooLate ==
    /\ ~lost
    /\ PendingIn >= Hdr
    /\ \E j \in 1 .. Len(sent) :
         /\ IsHeader(taken + 1, j)
         /\ sent[j] < PendingIn - Hdr
         /\ got' = Append(got, Text(taken + Hdr + 1, sent[j]))
         /\ taken' = taken + Hdr + sent[j]
    /\ UNCHANGED <<streamVars, received, lost>>

DoStuffKeepsHeader ==
    /\ ~lost
    /\ PendingIn >= Hdr
    /\ \E j \in 1 .. Len(sent) :
         /\ IsHeader(taken + 1, j)
         /\ sent[j] <= PendingIn - Hdr
         /\ got' = Append(got, Text(taken + 1, sent[j]))
         /\ taken' = taken + Hdr + sent[j]
    /\ UNCHANGED <<streamVars, received, lost>>

\* _do_stuff, for this peer: header and text are there, the text is put on
\* recvQ.
DoStuff ==
    /\ ~lost
    /\ PendingIn >= Hdr
    /\ \E j \in 1 .. Len(sent) :
         /\ IsHeader(taken + 1, j)
         /\ sent[j] <= PendingIn - Hdr
         /\ got' = Append(got, Text(taken + Hdr + 1, sent[j]))
         /\ taken' = taken + Hdr + sent[j]
    /\ UNCHANGED <<streamVars, received, lost>>

\* The first Hdr bytes are not a header: what happens from here depends on
\* the text (a type that is none ends the thread), and is not modelled.
LoseStep ==
    /\ ~lost
    /\ PendingIn >= Hdr
    /\ \A j \in 1 .. Len(sent) : ~IsHeader(taken + 1, j)
    /\ lost' = TRUE
    /\ UNCHANGED <<streamVars, received, got, taken>>

ServerNext ==
    \/ \E n \in Lens : PeerSends(n)
    \/ \E r \in received + 1 .. total : OnIO(r)
    \/ DoStuff
    \/ LoseStep

ServerSpec == ServerInit /\ [][ServerNext]_serverVars

\* Every pass reads what there is and looks at every peer.
ServerFairSpec ==
    /\ ServerSpec
    /\ WF_serverVars(\E r \in received + 1 .. total : OnIO(r))
    /\ WF_serverVars(DoStuff)

-----------------------------------------------------------------------------
ServerTypeOK == StreamTypeOK /\ taken \in 0 .. received

\* The server hands the CCM the messages of the peer: whole, in order, each
\* once, however the bytes fall on reads, up to the first that is too long
\* (controlServer.py:150-159).
ServerFifo == INSTANCE Fifo WITH Msgs <- Lens, got <- Passed

ServerDeliversInOrder == ServerFifo!Spec

\* It hands over every one in front of the first that is too long
\* (controlServer.py:154).
ServerDeliversAll ==
    \A i \in 1 .. MaxMsgs :
        (Len(sent) >= i /\ ~BehindLong(i)) ~> (Len(got) >= i)
=============================================================================
