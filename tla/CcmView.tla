------------------------------ MODULE CcmView ------------------------------
(***************************************************************************)
(* ccmView.py: the list of functional units on the CCM's window and the    *)
(* number above it, refreshed from Model by showNumFu every 500 ms.  The   *)
(* refresh runs on the GUI thread beside the doStuff thread that it has    *)
(* just started (CcmModel), and reads what that one writes without a lock. *)
(*                                                                         *)
(* The server thread is only what it puts on recvQ: any messages.  The     *)
(* user does nothing here but look, so the window stays open.              *)
(***************************************************************************)
EXTENDS CcmModel, FiniteSets

CONSTANTS
    Said,       \* the types of message peers send in this instance
    MaxMsgs     \* bound: messages put on recvQ

ASSUME MaxMsgsAssumption == MaxMsgs \in Nat

VARIABLES
    viewPc,     \* where showNumFu is; "dead" when an exception has left it
    shown,      \* the rows of the list: fd -> description
    shownNum,   \* the number of "Connected functional Units"
    rows,       \* the dictionary at the start of the loop over it
    thread,     \* the doStuff thread of this tick
    put         \* messages put on recvQ so far (bounded by MaxMsgs)

viewVars == <<viewPc, shown, shownNum, rows>>
ccmVars == <<modelVars, guiVars, sendQ, recvQ, viewVars, thread, put>>

Rows == [Fds -> Descs \cup {NoDesc}]

Listed(r) == {p \in Fds : r[p] # NoDesc}

ViewTypeOK ==
    /\ ModelTypeOK
    /\ QueuesTypeOK
    /\ viewPc \in {"idle", "started", "changed", "counted", "listing", "dead"}
    /\ shown \in Rows
    /\ shownNum \in Int
    /\ rows \in Rows
    /\ thread \in {"none", "started", "busy"}
    /\ thread = "busy" <=> ~BetweenMessages
    /\ put \in 0 .. MaxMsgs

ViewInit ==
    /\ ModelInit
    /\ sendQ = <<>>
    /\ recvQ = <<>>
    /\ viewPc = "idle"
    /\ shown = [p \in Fds |-> NoDesc]
    /\ shownNum = 0
    /\ rows = [p \in Fds |-> NoDesc]
    /\ thread = "none"
    /\ put = 0

-----------------------------------------------------------------------------
\* The server thread puts something on recvQ, or takes something off sendQ.
ServerPut(p, m) ==
    /\ put < MaxMsgs
    /\ m.type \in Said
    /\ put' = put + 1
    /\ recvQ' = Append(recvQ, Entry(p, m))
    /\ UNCHANGED <<modelVars, guiVars, sendQ, viewVars, thread>>

ServerTake ==
    /\ sendQ # <<>>
    /\ sendQ' = Tail(sendQ)
    /\ UNCHANGED <<modelVars, guiVars, recvQ, viewVars, thread, put>>

\* The thread of this tick: it finds nothing, or handles one message, in one
\* step or more.
DoStuffThread ==
    /\ \/ /\ thread = "started"
          /\ recvQ = <<>>
          /\ thread' = "none"
          /\ UNCHANGED <<modelVars, guiVars, sendQ, recvQ>>
       \/ /\ thread # "none"
          /\ DoStuff
          /\ thread' = IF BetweenMessages' THEN "none" ELSE "busy"
    /\ UNCHANGED <<viewVars, put>>

\* showNumFu starts a doStuff thread.  The one of the tick before is done
\* after 500 ms: doStuff waits for nothing.
Tick ==
    /\ viewPc = "idle"
    /\ thread = "none"
    /\ thread' = "started"
    /\ viewPc' = "started"
    /\ UNCHANGED <<modelVars, guiVars, sendQ, recvQ, shown, shownNum, rows, put>>

\* Mutant of Look: self.frame.after belongs to the `if`.
LookForTheLastTime ==
    /\ viewPc = "started"
    /\ viewPc' = IF dirty THEN "changed" ELSE "stopped"
    /\ dirty' = FALSE
    /\ UNCHANGED <<fu, config, key, numFu, registering, regDesc, owed, leaving,
                   untold, guiVars, sendQ, recvQ, shown, shownNum, rows,
                   thread, put>>

\* if self.model.changed(), which takes note of the change.
Look ==
    /\ viewPc = "started"
    /\ viewPc' = IF dirty THEN "changed" ELSE "idle"
    /\ dirty' = FALSE
    /\ UNCHANGED <<fu, config, key, numFu, registering, regDesc, owed, leaving,
                   untold, guiVars, sendQ, recvQ, shown, shownNum, rows,
                   thread, put>>

ShowNum ==
    /\ viewPc = "changed"
    /\ shownNum' = numFu
    /\ viewPc' = "counted"
    /\ UNCHANGED <<modelVars, guiVars, sendQ, recvQ, shown, rows, thread, put>>

\* The loop over self.fuDict.items(), which is Model.fu, begins ...
BeginList ==
    /\ viewPc = "counted"
    /\ rows' = fu
    /\ viewPc' = "listing"
    /\ UNCHANGED <<modelVars, guiVars, sendQ, recvQ, shown, shownNum, thread, put>>

\* ... and ends.  Each row is read before or after what doStuff did to it
\* meanwhile.
EndList ==
    /\ viewPc = "listing"
    /\ Cardinality(Known) = Cardinality(Listed(rows))
    /\ shown' \in Rows
    /\ \A p \in Fds : shown'[p] \in {rows[p], fu[p]}
    /\ viewPc' = "idle"
    /\ UNCHANGED <<modelVars, guiVars, sendQ, recvQ, shownNum, rows, thread, put>>

\* "dictionary changed size during iteration": the exception leaves the
\* tick before self.frame.after, so there is no other one.
ListFails ==
    /\ viewPc = "listing"
    /\ Cardinality(Known) # Cardinality(Listed(rows))
    /\ viewPc' = "dead"
    /\ UNCHANGED <<modelVars, guiVars, sendQ, recvQ, shown, shownNum, rows,
                   thread, put>>

ShowNumFu == Tick \/ Look \/ ShowNum \/ BeginList \/ EndList \/ ListFails

ViewNext ==
    \/ \E p \in Fds, m \in PeerMsg : ServerPut(p, m)
    \/ ServerTake
    \/ DoStuffThread
    \/ ShowNumFu

ViewSpec == ViewInit /\ [][ViewNext]_ccmVars

(***************************************************************************)
(* Fairness.  Neither thread blocks, and Tk calls showNumFu again after    *)
(* 500 ms.                                                                 *)
(***************************************************************************)
ViewFairSpec == ViewSpec /\ WF_ccmVars(DoStuffThread) /\ WF_ccmVars(ShowNumFu)

-----------------------------------------------------------------------------
\* Between two ticks, with no change to be noted or announced, every unit on
\* the list is one the model has: removing it (ccmModel.py:189) is announced
\* afterwards (:192), and a tick takes note of the announcement before it
\* reads.
NoGoneUnitListed ==
    viewPc = "idle" /\ ~dirty /\ ~untold => Listed(shown) \subseteq Known

\* A unit that is gone leaves the list, unless it comes back or the ticks
\* have ended.
GoneUnitsUnlisted ==
    \A p \in Fds :
        (p \in Listed(shown) \ Known) ~>
            (p \notin Listed(shown) \/ p \in Known \/ viewPc = "dead")

\* Every message is handled, as long as there are ticks.
MessagesHandled == []<>(recvQ = <<>> \/ viewPc = "dead")
=============================================================================
