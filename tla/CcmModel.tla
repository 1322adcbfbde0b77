------------------------------ MODULE CcmModel ------------------------------
(***************************************************************************)
(* ccmModel.py: the registry of functional units the CCM keeps from what   *)
(* the server thread puts on recvQ, and the requests it puts on sendQ.     *)
(*                                                                         *)
(* Two threads run it, without a lock, and a handler is as many steps as   *)
(* the other thread can tell apart.  doStuff, started every 500 ms by the  *)
(* view, handles one message: what it looks up or changes and what it puts *)
(* on sendQ afterwards are two steps (owed).  Its REGISTER_REQ branch      *)
(* announces a change (changedCnt) and then makes it (numFu, fu); its      *)
(* SHUTDOWN_ACK branch puts DROP_PEER, deletes the unit and then announces *)
(* it.                                                                     *)
(*                                                                         *)
(* The GUI thread calls updateConfig, which looks the unit up, tells it    *)
(* and then notes what it has told it, disconnect and shutdown; shutdown   *)
(* puts its messages, then DROP_SERVER, then clears keepalive, while the   *)
(* server thread runs on.  A doStuff started just before the window was    *)
(* closed may still run: when it adds or deletes a key of fu, shutdown's   *)
(* loop over that dictionary raises ("failed").                            *)
(***************************************************************************)
EXTENDS BusMessages, Integers

CONSTANTS
    Kind,       \* description -> kind of program, by its prefix
    Defaults,   \* section of ccm.ini -> configuration map
    MaxAdmin,   \* bound: requests made from the GUI
    MayClose    \* bound: whether the window is closed in this instance

Sections == {"STAttrs", "SBAttrs", "SBAttrs2", "HBAttrs"}

ASSUME ModelConstants ==
    /\ Kind \in [Descs -> {"ST", "SB", "HB", "other"}]
    /\ Defaults \in [Sections -> Cfg]
    /\ MaxAdmin \in Nat
    /\ MayClose \in BOOLEAN

VARIABLES
    fu,         \* fd -> description, NoDesc when the fd is not a key
    config,     \* fd -> configuration map, NoCfg when the fd is not a key
    key,        \* fd -> section its defaults came from, "none" for none
    numFu,      \* the counter shown as "Connected functional Units"
    dirty,      \* changedCnt # oldChangeCnt
    registering,\* the fd doStuff is half way through registering
    regDesc,    \* its description
    owed,       \* what doStuff has still to put for the message it handles
    leaving,    \* the fd doStuff has put DROP_PEER for and not yet deleted
    untold,     \* doStuff has deleted a unit, and has yet to announce it
    guiStep,    \* what the GUI thread does next for the unit it has picked
    updating,   \* that unit
    newVals,    \* what updateConfig tells it
    stopping,   \* how far shutdown() has come
    asked,      \* units it has asked to stop
    late,       \* a doStuff started before shutdown has yet to look at recvQ
    admin       \* requests made so far (bounded by MaxAdmin)

modelVars == <<fu, config, key, numFu, dirty, registering, regDesc,
               owed, leaving, untold>>
guiVars   == <<stopping, asked, admin, late, guiStep, updating, newVals>>

GuiTypeOK ==
    /\ stopping \in {"no", "asking", "failed", "dropped", "joined"}
    /\ asked \subseteq Fds
    /\ late \in BOOLEAN
    /\ admin \in 0 .. MaxAdmin
    /\ guiStep \in {"idle", "tell", "note", "ask"}
    /\ updating \in Fds \cup {NoPeer}
    /\ updating = NoPeer <=> guiStep = "idle"
    /\ newVals \in Cfg

ModelTypeOK ==
    /\ fu \in [Fds -> Descs \cup {NoDesc}]
    /\ config \in [Fds -> Cfg \cup {NoCfg}]
    /\ key \in [Fds -> Sections \cup {"none"}]
    /\ numFu \in Int
    /\ dirty \in BOOLEAN
    /\ registering \in Fds \cup {NoPeer}
    /\ regDesc \in Descs \cup {NoDesc}
    /\ registering = NoPeer <=> regDesc = NoDesc
    /\ owed \in Seq(SendEntry)
    /\ leaving \in Fds \cup {NoPeer}
    /\ untold \in BOOLEAN
    /\ leaving # NoPeer \/ untold => registering = NoPeer
    /\ GuiTypeOK

ModelInit ==
    /\ fu = [p \in Fds |-> NoDesc]
    /\ config = [p \in Fds |-> NoCfg]
    /\ key = [p \in Fds |-> "none"]
    /\ numFu = 0
    /\ dirty = FALSE
    /\ registering = NoPeer
    /\ regDesc = NoDesc
    /\ owed = <<>>
    /\ leaving = NoPeer
    /\ untold = FALSE
    /\ guiStep = "idle"
    /\ updating = NoPeer
    /\ newVals = EmptyCfg
    /\ stopping = "no"
    /\ asked = {}
    /\ late = FALSE
    /\ admin = 0

Known == {p \in Fds : fu[p] # NoDesc}

\* Mutant of KeyFor: nobody looks whether there is one already.
KeyForFirst(d) ==
    CASE Kind[d] = "ST" -> "STAttrs"
      [] Kind[d] = "HB" -> "HBAttrs"
      [] Kind[d] = "SB" -> "SBAttrs"
      [] OTHER -> "none"

\* The section of ccm.ini a new unit takes its defaults from: the first
\* Session Builder takes SBAttrs, any other SBAttrs2.
KeyFor(d) ==
    CASE Kind[d] = "ST" -> "STAttrs"
      [] Kind[d] = "HB" -> "HBAttrs"
      [] Kind[d] = "SB" -> IF \E p \in Known : Kind[fu[p]] = "SB"
                             THEN "SBAttrs2" ELSE "SBAttrs"
      [] OTHER -> "none"

-----------------------------------------------------------------------------
\* No doStuff is half way through a message.
BetweenMessages ==
    registering = NoPeer /\ owed = <<>> /\ leaving = NoPeer /\ ~untold

\* doStuff takes the head of recvQ; one of these handles it.
Handling(type) ==
    /\ stopping = "no" \/ late
    /\ BetweenMessages
    /\ recvQ # <<>>
    /\ Head(recvQ).msg.type = type
    /\ recvQ' = Tail(recvQ)
    /\ late' = FALSE
    /\ UNCHANGED <<asked, admin, guiStep, updating, newVals>>

\* A key of fu comes or goes: "dictionary changed size during iteration" in
\* a shutdown that is going through it.
FuResized ==
    stopping' = IF stopping = "asking" THEN "failed" ELSE stopping

\* Mutant of RegisterBegin: no acknowledgement.
RegisterUnanswered ==
    /\ Handling("REGISTER_REQ")
    /\ LET p == Head(recvQ).peer IN
         /\ config' = [config EXCEPT ![p] = EmptyCfg]
         /\ registering' = p
    /\ regDesc' = Head(recvQ).msg.body
    /\ dirty' = TRUE
    /\ UNCHANGED <<fu, key, numFu, owed, leaving, untold, stopping, sendQ>>

\* REGISTER_REQ up to the loop over fu: acknowledge, start an empty
\* configuration, announce a change.
RegisterBegin ==
    /\ Handling("REGISTER_REQ")
    /\ LET p == Head(recvQ).peer IN
         /\ sendQ' = Put(sendQ, p, "REGISTER_ACK", p)
         /\ config' = [config EXCEPT ![p] = EmptyCfg]
         /\ registering' = p
    /\ regDesc' = Head(recvQ).msg.body
    /\ dirty' = TRUE
    /\ UNCHANGED <<fu, key, numFu, owed, leaving, untold, stopping>>

\* The rest of it: the key, the defaults, and the unit itself.
RegisterEnd ==
    /\ registering # NoPeer
    /\ key' = [key EXCEPT ![registering] = KeyFor(regDesc)]
    /\ config' = [config EXCEPT ![registering] =
                    IF KeyFor(regDesc) = "none" THEN @ ELSE Defaults[KeyFor(regDesc)]]
    /\ numFu' = numFu + 1
    /\ fu' = [fu EXCEPT ![registering] = regDesc]
    /\ registering' = NoPeer
    /\ regDesc' = NoDesc
    /\ IF registering \in Known THEN UNCHANGED stopping ELSE FuResized
    /\ UNCHANGED <<dirty, owed, leaving, untold, sendQ, recvQ, asked, admin,
                   late, guiStep, updating, newVals>>

\* What the message has to be answered with, once doStuff gets to its put.
Owes(p, type, body) == owed' = <<Entry(p, Msg(type, body))>>

\* CONFIG_SET: the unit tells the CCM its configuration.  For an fd without
\* a configuration the KeyError ends this run of doStuff, the message gone.
ConfigSet ==
    /\ Handling("CONFIG_SET")
    /\ LET p == Head(recvQ).peer IN
         IF config[p] # NoCfg
           THEN /\ config' = [config EXCEPT ![p] =
                                Merge(@, Head(recvQ).msg.body)]
                /\ Owes(p, "CONFIG_ACK", NoBody)
           ELSE UNCHANGED <<config, owed>>
    /\ UNCHANGED <<fu, key, numFu, dirty, registering, regDesc, leaving,
                   untold, stopping, sendQ>>

\* CONFIG_REQ: send everything.
ConfigReq ==
    /\ Handling("CONFIG_REQ")
    /\ LET p == Head(recvQ).peer IN
         IF config[p] # NoCfg
           THEN Owes(p, "CONFIG_SET", config[p])
           ELSE UNCHANGED owed
    /\ UNCHANGED <<fu, config, key, numFu, dirty, registering, regDesc,
                   leaving, untold, stopping, sendQ>>

\* CONFIG_REQONLY: send what was asked for.
ConfigReqOnly ==
    /\ Handling("CONFIG_REQONLY")
    /\ LET p == Head(recvQ).peer IN
         IF config[p] # NoCfg
           THEN Owes(p, "CONFIG_SET", Only(config[p], Head(recvQ).msg.body))
           ELSE UNCHANGED owed
    /\ UNCHANGED <<fu, config, key, numFu, dirty, registering, regDesc,
                   leaving, untold, stopping, sendQ>>

\* CONFIG_ACK changes nothing; PROGRESS keeps its text in progRep, which is
\* shown and never decides anything.
Note ==
    /\ Handling("CONFIG_ACK") \/ Handling("PROGRESS")
    /\ UNCHANGED <<modelVars, stopping, sendQ>>

\* SHUTDOWN_REQ: a unit asks to leave; it is told so, and then dropped.
ShutdownReq ==
    /\ Handling("SHUTDOWN_REQ")
    /\ LET p == Head(recvQ).peer IN
         /\ sendQ' = Put(sendQ, p, "SHUTDOWN_ACK", NoBody)
         /\ Owes(p, "DROP_PEER", NoBody)
    /\ UNCHANGED <<fu, config, key, numFu, dirty, registering, regDesc,
                   leaving, untold, stopping>>

\* The put a branch ends with.
PutOwed ==
    /\ owed # <<>>
    /\ sendQ' = Append(sendQ, Head(owed))
    /\ owed' = Tail(owed)
    /\ UNCHANGED <<fu, config, key, numFu, dirty, registering, regDesc,
                   leaving, untold, recvQ, guiVars>>

\* SHUTDOWN_ACK: a unit has gone, by its own account or the server's.  The
\* server is told to drop it, ...
ShutdownAck ==
    /\ Handling("SHUTDOWN_ACK")
    /\ LET p == Head(recvQ).peer IN
         /\ sendQ' = Append(sendQ, Entry(p, DropPeer))
         /\ leaving' = p
    /\ UNCHANGED <<fu, config, key, numFu, dirty, registering, regDesc, owed,
                   untold, stopping>>

\* Mutants of RemoveUnit: the unit's entry in fu stays, or the one in config.
RemoveUnitKeepingFu ==
    /\ leaving # NoPeer
    /\ config' = [config EXCEPT ![leaving] = NoCfg]
    /\ leaving' = NoPeer
    /\ untold' = TRUE
    /\ UNCHANGED <<fu, key, numFu, dirty, registering, regDesc, owed, sendQ,
                   recvQ, guiVars>>

RemoveUnitKeepingConfig ==
    /\ leaving # NoPeer
    /\ fu' = [fu EXCEPT ![leaving] = NoDesc]
    /\ IF leaving \in Known THEN FuResized ELSE UNCHANGED stopping
    /\ leaving' = NoPeer
    /\ untold' = TRUE
    /\ UNCHANGED <<config, key, numFu, dirty, registering, regDesc, owed,
                   sendQ, recvQ, asked, admin, late, guiStep, updating, newVals>>

\* ... its entries are deleted, if it has any: one step, for the GUI thread
\* reads config only where fu has sent it, ...
RemoveUnit ==
    /\ leaving # NoPeer
    /\ IF leaving \in Known
         THEN /\ fu' = [fu EXCEPT ![leaving] = NoDesc]
              /\ config' = [config EXCEPT ![leaving] = NoCfg]
              /\ FuResized
         ELSE UNCHANGED <<fu, config, stopping>>
    /\ leaving' = NoPeer
    /\ untold' = TRUE
    /\ UNCHANGED <<key, numFu, dirty, registering, regDesc, owed, sendQ, recvQ,
                   asked, admin, late, guiStep, updating, newVals>>

\* Mutant of AnnounceRemoval: nothing is announced.
AnnounceNothing ==
    /\ untold
    /\ numFu' = numFu - 1
    /\ untold' = FALSE
    /\ UNCHANGED <<fu, config, key, dirty, registering, regDesc, owed,
                   leaving, sendQ, recvQ, guiVars>>

\* ... and the change announced.  The counter goes down whether or not the
\* unit was known.
AnnounceRemoval ==
    /\ untold
    /\ numFu' = numFu - 1
    /\ dirty' = TRUE
    /\ untold' = FALSE
    /\ UNCHANGED <<fu, config, key, registering, regDesc, owed, leaving,
                   sendQ, recvQ, guiVars>>

DoStuff ==
    \/ RegisterBegin
    \/ RegisterEnd
    \/ ConfigSet
    \/ ConfigReq
    \/ ConfigReqOnly
    \/ Note
    \/ ShutdownReq
    \/ PutOwed
    \/ ShutdownAck
    \/ RemoveUnit
    \/ AnnounceRemoval

-----------------------------------------------------------------------------
\* A GUI request for a unit on the list, while the window is open: it is
\* looked up now, and dealt with afterwards, whatever doStuff does meanwhile.
Request(p) ==
    /\ stopping = "no"
    /\ guiStep = "idle"
    /\ admin < MaxAdmin
    /\ p \in Known
    /\ admin' = admin + 1
    /\ updating' = p
    /\ UNCHANGED <<modelVars, stopping, asked, late, sendQ, recvQ>>

\* updateConfig: the unit is known, ...
UpdateConfig(p, a, v) ==
    /\ Request(p)
    /\ newVals' = OneAttr(a, v)
    /\ guiStep' = "tell"

\* ... tell it, ...
TellUnit ==
    /\ guiStep = "tell"
    /\ sendQ' = Put(sendQ, updating, "CONFIG_SET", newVals)
    /\ guiStep' = "note"
    /\ UNCHANGED <<modelVars, stopping, asked, admin, late, updating, newVals,
                   recvQ>>

\* ... and assume it obeys.  The unit may have gone meanwhile: a KeyError.
NoteUpdate ==
    /\ guiStep = "note"
    /\ config' = [config EXCEPT ![updating] =
                    IF @ = NoCfg THEN @ ELSE Merge(@, newVals)]
    /\ guiStep' = "idle"
    /\ updating' = NoPeer
    /\ newVals' = EmptyCfg
    /\ UNCHANGED <<fu, key, numFu, dirty, registering, regDesc, owed, leaving,
                   untold, stopping, asked, admin, late, sendQ, recvQ>>

\* disconnect: the unit is known, ...
Disconnect(p) ==
    /\ Request(p)
    /\ guiStep' = "ask"
    /\ UNCHANGED newVals

\* ... ask it to stop.  shutdown's loop does the same with each unit.
AskUnit ==
    /\ guiStep = "ask"
    /\ sendQ' = Put(sendQ, updating, "SHUTDOWN_REQ", NoBody)
    /\ guiStep' = "idle"
    /\ updating' = NoPeer
    /\ UNCHANGED <<modelVars, stopping, asked, admin, late, newVals, recvQ>>

\* The window is closed: mainloop returns, no doStuff is started any more,
\* and shutdown() begins.  One may be under way; unless it is half way
\* through a message it has yet to look at recvQ.
BeginShutdown ==
    /\ MayClose
    /\ stopping = "no"
    /\ guiStep = "idle"
    /\ stopping' = "asking"
    /\ late' = BetweenMessages
    /\ UNCHANGED <<modelVars, admin, asked, guiStep, updating, newVals, sendQ,
                   recvQ>>

\* for peer in self.fu: the next one to be asked to stop.
AskNext(p) ==
    /\ stopping = "asking"
    /\ guiStep = "idle"
    /\ p \in Known \ asked
    /\ asked' = asked \cup {p}
    /\ updating' = p
    /\ guiStep' = "ask"
    /\ UNCHANGED <<modelVars, admin, stopping, late, newVals, sendQ, recvQ>>

\* ControlServer.shutdown, on the GUI thread: queue DROP_SERVER.  Clearing
\* keepalive is the next statement, and another thread may run in between.
QueueDropServer ==
    /\ stopping = "asking"
    /\ guiStep = "idle"
    /\ Known \subseteq asked
    /\ stopping' = "dropped"
    /\ sendQ' = Append(sendQ, Entry(NoPeer, DropServer))
    /\ UNCHANGED <<modelVars, admin, asked, late, guiStep, updating, newVals,
                   recvQ>>

-----------------------------------------------------------------------------
\* Two Session Builders that are registered at the same time never both work
\* with the defaults of the first one, its port and its directory
\* ("is there one already?", ccmModel.py:138).
OneSBOnFirstDefaults ==
    \A p, q \in Known :
        (p # q /\ Kind[fu[p]] = "SB" /\ Kind[fu[q]] = "SB") =>
            ~(key[p] = "SBAttrs" /\ key[q] = "SBAttrs")
=============================================================================
