---------------------------- MODULE ClientFraming ----------------------------
(***************************************************************************)
(* How controlClient.py takes messages out of what the CCM has written.    *)
(* get_data asks the socket for the bytes that are missing from the header *)
(* or text it is waiting for, and may get fewer.  It then compares ALL it  *)
(* has of the item with what WAS missing before this read.                 *)
(***************************************************************************)
EXTENDS Framing

CONSTANT MaxCuts    \* bound: reads of one item that bring less than asked for

ASSUME CutsAssumption == MaxCuts \in Nat

VARIABLES
    pending,    \* bytes of the item received: len(self.pending)
    pendingLen, \* bytes to ask for
    pendingHdr, \* the item is a header
    msgLen,     \* the length the last header gave
    cuts,       \* such reads so far (bounded by MaxCuts)
    thirds      \* some item has come in three parts or more

itemVars == <<pending, pendingLen, pendingHdr, msgLen>>
clientVars == <<streamVars, received, got, lost, itemVars, cuts, thirds>>

ClientInit ==
    /\ StreamInit
    /\ pending = 0
    /\ pendingLen = Hdr
    /\ pendingHdr = TRUE
    /\ msgLen = 0
    /\ cuts = 0
    /\ thirds = FALSE

CcmSends(n) ==
    /\ Send(n)
    /\ UNCHANGED <<received, got, lost, itemVars, cuts, thirds>>

\* connection.recv(self.pendingLen) returns d bytes.
Recv(d) ==
    /\ ~lost
    /\ d \in 1 .. pendingLen
    /\ d <= total - received
    /\ d < pendingLen => cuts < MaxCuts
    /\ received' = received + d
    /\ thirds' = (thirds \/ (d < pendingLen /\ cuts > 0))

WaitForHeader ==
    /\ pending' = 0
    /\ pendingLen' = Hdr
    /\ pendingHdr' = TRUE
    /\ cuts' = 0

\* "we haven't got enough to make a message"
GetSome(d) ==
    /\ Recv(d)
    /\ pending + d < pendingLen
    /\ pending' = pending + d
    /\ pendingLen' = pendingLen - d
    /\ cuts' = cuts + 1
    /\ UNCHANGED <<streamVars, got, lost, pendingHdr, msgLen>>

\* Mutant of GetHeader: it waits for a text that may be empty.
GetHeaderOnly(d) ==
    /\ Recv(d)
    /\ pending + d >= pendingLen
    /\ pendingHdr
    /\ pending + d = Hdr
    /\ \E j \in 1 .. Len(sent) :
         /\ IsHeader(received - pending + 1, j)
         /\ msgLen' = sent[j]
         /\ pending' = 0
         /\ pendingLen' = sent[j]
         /\ pendingHdr' = FALSE
         /\ cuts' = 0
    /\ UNCHANGED <<streamVars, lost, got>>

\* A header, of a message without text or with one.
GetHeader(d) ==
    /\ Recv(d)
    /\ pending + d >= pendingLen
    /\ pendingHdr
    /\ pending + d = Hdr
    /\ \E j \in 1 .. Len(sent) :
         /\ IsHeader(received - pending + 1, j)
         /\ msgLen' = sent[j]
         /\ IF sent[j] = 0
              THEN /\ got' = Append(got, Text(received' + 1, 0))
                   /\ WaitForHeader
              ELSE /\ pending' = 0
                   /\ pendingLen' = sent[j]
                   /\ pendingHdr' = FALSE
                   /\ cuts' = 0
                   /\ UNCHANGED got
    /\ UNCHANGED <<streamVars, lost>>

\* It is taken for a header, and is none, or only a part of one: what
\* happens from here depends on the texts, and is not modelled.
GetNoHeader(d) ==
    /\ Recv(d)
    /\ pending + d >= pendingLen
    /\ pendingHdr
    /\ \/ pending + d # Hdr
       \/ \A j \in 1 .. Len(sent) : ~IsHeader(received - pending + 1, j)
    /\ lost' = TRUE
    /\ UNCHANGED <<streamVars, got, itemVars, cuts>>

\* Mutant of GetText: pendingHdr is not reset.
GetTextAgain(d) ==
    /\ Recv(d)
    /\ pending + d >= pendingLen
    /\ ~pendingHdr
    /\ got' = Append(got, Text(received - pending + 1, pending + d))
    /\ pending' = 0
    /\ pendingLen' = Hdr
    /\ cuts' = 0
    /\ UNCHANGED <<streamVars, lost, msgLen, pendingHdr>>

\* "we have a hdr and body": pass on pending[:msgLen].
GetText(d) ==
    /\ Recv(d)
    /\ pending + d >= pendingLen
    /\ ~pendingHdr
    /\ got' = Append(got, Text(received - pending + 1, pending + d))
    /\ WaitForHeader
    /\ UNCHANGED <<streamVars, lost, msgLen>>

GetData ==
    \E d \in 1 .. pendingLen :
        GetSome(d) \/ GetHeader(d) \/ GetNoHeader(d) \/ GetText(d)

ClientNext == (\E n \in Lens : CcmSends(n)) \/ GetData

ClientSpec == ClientInit /\ [][ClientNext]_clientVars

\* The client's thread reads whatever there is to be read.
ClientFairSpec == ClientSpec /\ WF_clientVars(GetData)

-----------------------------------------------------------------------------
ClientTypeOK ==
    /\ StreamTypeOK
    /\ pending \in 0 .. received
    /\ pendingLen \in Nat \ {0}
    /\ pendingHdr \in BOOLEAN
    /\ msgLen \in Nat
    /\ cuts \in 0 .. MaxCuts
    /\ thirds \in BOOLEAN

\* get_data goes wrong only when a header or a text arrives in three parts, or
\* behind a text that is too long: until then a unit gets the CCM's messages
\* whole, in order, each once (controlClient.py:97-123).
ClientFifo == INSTANCE Fifo WITH Msgs <- Lens, got <- Passed

ClientDeliversInOrder ==
    
    
    ClientFifo!Init /\ [][thirds' \/ ClientFifo!Next]_<<sent, Passed>>

\* And it gets every one of them (controlClient.py:97-123).
ClientDeliversAll ==
    \A i \in 1 .. MaxMsgs :
        (Len(sent) >= i /\ ~BehindLong(i)) ~> (Len(got) >= i \/ thirds)
=============================================================================
