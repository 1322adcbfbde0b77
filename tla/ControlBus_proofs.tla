-------------------------- MODULE ControlBus_proofs --------------------------
(***************************************************************************)
(* Theorems about the CCM, its server thread and its window (ControlBus,   *)
(* CcmView), for any number of descriptors, connections, programs,         *)
(* attributes and values, and for peers that say anything.  The two share  *)
(* the CCM's model: the lemmas about CcmModel come first.                  *)
(***************************************************************************)
EXTENDS ControlBus, CcmView, SequenceTheorems, TLAPS

-----------------------------------------------------------------------------
(***************************************************************************)
(* Sequences.                                                              *)
(***************************************************************************)

LEMMA PrefixType ==
    ASSUME NEW S, NEW s \in Seq(S), NEW n \in 0 .. Len(s)
    PROVE  SubSeq(s, 1, n) \in Seq(S)
  OBVIOUS

LEMMA SuffixType ==
    ASSUME NEW S, NEW s \in Seq(S), NEW n \in 0 .. Len(s)
    PROVE  SubSeq(s, n + 1, Len(s)) \in Seq(S)
  OBVIOUS

LEMMA HeadTailType ==
    ASSUME NEW S, NEW s \in Seq(S), s # <<>>
    PROVE  Head(s) \in S /\ Tail(s) \in Seq(S)
  OBVIOUS

-----------------------------------------------------------------------------
(***************************************************************************)
(* Messages.                                                               *)
(***************************************************************************)

LEMMA CfgTypes ==
    /\ EmptyCfg \in Cfg
    /\ \A c, u \in Cfg : Merge(c, u) \in Cfg
    /\ \A a \in Attrs, v \in Vals : OneAttr(a, v) \in Cfg
    /\ \A c \in Cfg : \A A : Only(c, A) \in Cfg
    /\ NoCfg \notin Cfg
  BY SentinelsDistinct DEF Cfg, EmptyCfg, Merge, OneAttr, Only

LEMMA MsgTypes ==
    ASSUME NEW p \in Fds
    PROVE  /\ Msg("SHUTDOWN_ACK", NoBody) \in PeerMsg
           /\ Msg("CONNECT_ACK", p) \in CcmMsg
           /\ Msg("REGISTER_ACK", p) \in CcmMsg
           /\ \A c \in Cfg : Msg("CONFIG_SET", c) \in CcmMsg
           /\ Msg("CONFIG_ACK", NoBody) \in CcmMsg
           /\ Msg("SHUTDOWN_REQ", NoBody) \in CcmMsg
           /\ Msg("SHUTDOWN_ACK", NoBody) \in CcmMsg
  BY DEF Msg, PeerMsg, CcmMsg

LEMMA PutRecvType ==
    ASSUME NEW q \in Seq(RecvEntry), NEW p \in Fds, NEW m \in PeerMsg
    PROVE  Append(q, Entry(p, m)) \in Seq(RecvEntry)
  BY DEF RecvEntry, Entry

LEMMA PutSendType ==
    ASSUME NEW q \in Seq(SendEntry), NEW p \in Fds,
           NEW m \in CcmMsg \cup {DropPeer}
    PROVE  Append(q, Entry(p, m)) \in Seq(SendEntry)
  BY DEF SendEntry, Entry

LEMMA PeerBodies ==
    ASSUME NEW m \in PeerMsg
    PROVE  /\ m.type = "REGISTER_REQ" => m.body \in Descs
           /\ m.type = "CONFIG_SET" => m.body \in Cfg
           /\ m.type = "SHUTDOWN_ACK" => m = Msg("SHUTDOWN_ACK", NoBody)
  BY DEF PeerMsg, Msg

-----------------------------------------------------------------------------
(***************************************************************************)
(* The handlers of doStuff.                                                *)
(***************************************************************************)

\* What a step leaves alone keeps its type.
LEMMA RegistryFrame ==
    ASSUME ModelTypeOK, UNCHANGED modelVars, GuiTypeOK'
    PROVE  ModelTypeOK'
  BY DEF ModelTypeOK, modelVars

LEMMA ModelFrame ==
    ASSUME ModelTypeOK, UNCHANGED <<modelVars, guiVars>>
    PROVE  ModelTypeOK'
  <1>1. GuiTypeOK'
    BY DEF ModelTypeOK, GuiTypeOK, guiVars
  <1>2. QED
    BY <1>1, RegistryFrame

LEMMA ModelInitType == ModelInit => ModelTypeOK
  <1> SUFFICES ASSUME ModelInit PROVE ModelTypeOK
    OBVIOUS
  <1>0. numFu = 0 /\ admin = 0
    BY DEF ModelInit
  <1>1. /\ fu = [p \in Fds |-> NoDesc]
        /\ config = [p \in Fds |-> NoCfg]
        /\ key = [p \in Fds |-> "none"]
        /\ registering = NoPeer
        /\ regDesc = NoDesc
        /\ asked = {}
    BY DEF ModelInit
  <1>2. /\ dirty \in BOOLEAN /\ stopping = "no" /\ late \in BOOLEAN
        /\ untold = FALSE /\ leaving = NoPeer
    BY DEF ModelInit
  <1>3. /\ numFu \in Int
        /\ admin \in 0 .. MaxAdmin
    BY <1>0, ModelConstants
  <1>4. /\ fu \in [Fds -> Descs \cup {NoDesc}]
        /\ config \in [Fds -> Cfg \cup {NoCfg}]
        /\ key \in [Fds -> Sections \cup {"none"}]
        /\ registering \in Fds \cup {NoPeer}
        /\ regDesc \in Descs \cup {NoDesc}
        /\ registering = NoPeer <=> regDesc = NoDesc
        /\ asked \subseteq Fds
    BY <1>1
  <1>6. /\ updating = NoPeer /\ newVals \in Cfg /\ guiStep = "idle"
        /\ owed \in Seq(SendEntry)
    BY CfgTypes, EmptySeq DEF ModelInit
  <1>5. QED
    BY <1>2, <1>3, <1>4, <1>6 DEF ModelTypeOK, GuiTypeOK

LEMMA ModelParts ==
    ASSUME ModelTypeOK
    PROVE  /\ numFu \in Int
           /\ admin \in 0 .. MaxAdmin
           /\ fu \in [Fds -> Descs \cup {NoDesc}]
           /\ config \in [Fds -> Cfg \cup {NoCfg}]
  BY DEF ModelTypeOK, GuiTypeOK

\* doStuff's part in a shutdown under way.
LEMMA DoStuffGui ==
    ASSUME ModelTypeOK, DoStuff
    PROVE  GuiTypeOK'
  <1>1. UNCHANGED <<asked, admin, guiStep, updating, newVals>>
    BY DEF DoStuff, RegisterBegin, RegisterEnd, ConfigSet, ConfigReq,
           ConfigReqOnly, Note, ShutdownReq, PutOwed, ShutdownAck, RemoveUnit,
           AnnounceRemoval, Handling, guiVars
  <1>2. late' = late \/ late' = FALSE
    BY DEF DoStuff, RegisterBegin, RegisterEnd, ConfigSet, ConfigReq,
           ConfigReqOnly, Note, ShutdownReq, PutOwed, ShutdownAck, RemoveUnit,
           AnnounceRemoval, Handling, guiVars
  <1>3. stopping' = stopping \/ stopping' = "failed"
    BY DEF DoStuff, RegisterBegin, RegisterEnd, ConfigSet, ConfigReq,
           ConfigReqOnly, Note, ShutdownReq, PutOwed, ShutdownAck, RemoveUnit,
           AnnounceRemoval, FuResized, guiVars
  <1>4. QED
    BY <1>1, <1>2, <1>3 DEF ModelTypeOK, GuiTypeOK

\* The branches of doStuff.
LEMMA ModelType ==
    ASSUME QueuesTypeOK, ModelTypeOK, DoStuff
    PROVE  QueuesTypeOK' /\ ModelTypeOK'
  <1> DEFINE p == Head(recvQ).peer
             m == Head(recvQ).msg
  <1>0. GuiTypeOK'
    BY DoStuffGui
  <1>1. recvQ # <<>> => /\ p \in Fds /\ m \in PeerMsg
                        /\ Tail(recvQ) \in Seq(RecvEntry)
    <2>1. recvQ # <<>> => /\ Head(recvQ) \in RecvEntry
                          /\ Tail(recvQ) \in Seq(RecvEntry)
      BY HeadTailType DEF QueuesTypeOK
    <2>2. QED
      BY <2>1 DEF RecvEntry
  <1>2. ASSUME RegisterBegin
        PROVE  QueuesTypeOK' /\ ModelTypeOK'
    <2>1. /\ recvQ # <<>> /\ m.type = "REGISTER_REQ"
          /\ recvQ' = Tail(recvQ)
          /\ sendQ' = Append(sendQ, Entry(p, Msg("REGISTER_ACK", p)))
          /\ config' = [config EXCEPT ![p] = EmptyCfg]
          /\ registering' = p
          /\ regDesc' = m.body
      BY <1>2 DEF RegisterBegin, Handling, Put
    <2>2. dirty' \in BOOLEAN
      BY <1>2 DEF RegisterBegin
    <2>3. /\ UNCHANGED <<fu, key, numFu, owed>>
          /\ leaving' = NoPeer /\ untold' = FALSE
      BY <1>2 DEF RegisterBegin, Handling, BetweenMessages, ModelTypeOK
    <2>4. p \in Fds /\ m.body \in Descs
      BY <1>1, <2>1, PeerBodies
    <2>5. QueuesTypeOK'
      BY <1>1, <2>1, <2>4, MsgTypes, PutSendType DEF QueuesTypeOK
    <2>6. /\ config' \in [Fds -> Cfg \cup {NoCfg}]
          /\ registering' \in Fds \cup {NoPeer}
          /\ regDesc' \in Descs \cup {NoDesc}
          /\ registering' = NoPeer <=> regDesc' = NoDesc
      BY <2>1, <2>4, CfgTypes, SentinelsDistinct DEF ModelTypeOK
    <2>7. QED
      BY <1>0, <2>2, <2>3, <2>5, <2>6 DEF ModelTypeOK
  <1>3. ASSUME RegisterEnd
        PROVE  QueuesTypeOK' /\ ModelTypeOK'
    <2>1. registering \in Fds /\ regDesc \in Descs
      BY <1>3 DEF RegisterEnd, ModelTypeOK
    <2>2. KeyFor(regDesc) \in Sections \cup {"none"}
      BY <2>1, ModelConstants DEF KeyFor, Sections
    <2>3. KeyFor(regDesc) # "none" => Defaults[KeyFor(regDesc)] \in Cfg
      BY <2>2, ModelConstants
    <2>4. QueuesTypeOK'
      BY <1>3 DEF RegisterEnd, QueuesTypeOK
    <2>5. key' \in [Fds -> Sections \cup {"none"}]
      BY <1>3, <2>2 DEF RegisterEnd, ModelTypeOK
    <2>6. config' \in [Fds -> Cfg \cup {NoCfg}]
      BY <1>3, <2>1, <2>3 DEF RegisterEnd, ModelTypeOK
    <2>7. numFu' \in Int
      <3>1. numFu' = numFu + 1
        BY <1>3 DEF RegisterEnd
      <3>2. QED
        BY <3>1, ModelParts
    <2>8. fu' \in [Fds -> Descs \cup {NoDesc}]
      BY <1>3, <2>1 DEF RegisterEnd, ModelTypeOK
    <2>9. /\ dirty' = dirty /\ registering' = NoPeer /\ regDesc' = NoDesc
          /\ UNCHANGED <<owed, leaving, untold>>
      BY <1>3 DEF RegisterEnd
    <2>10. QED
      BY <1>0, <2>4, <2>5, <2>6, <2>7, <2>8, <2>9 DEF ModelTypeOK
  <1>12. ASSUME Handling(m.type), UNCHANGED sendQ
         PROVE  /\ p \in Fds /\ m \in PeerMsg /\ QueuesTypeOK'
                /\ registering = NoPeer /\ leaving = NoPeer
    BY <1>1, <1>12 DEF Handling, BetweenMessages, QueuesTypeOK
  <1>13. ASSUME UNCHANGED <<fu, key, numFu, dirty, registering, regDesc, leaving,
                            untold>>,
                config' \in [Fds -> Cfg \cup {NoCfg}],
                owed' \in Seq(SendEntry)
         PROVE  ModelTypeOK'
    BY <1>0, <1>13 DEF ModelTypeOK
  <1>14. \A e \in SendEntry : <<e>> \in Seq(SendEntry)
    OBVIOUS
  <1>15. ASSUME p \in Fds, NEW x \in CcmMsg \cup {DropPeer}
         PROVE  <<Entry(p, x)>> \in Seq(SendEntry)
    BY <1>14, <1>15 DEF SendEntry, Entry
  <1>4. ASSUME ConfigSet
        PROVE  QueuesTypeOK' /\ ModelTypeOK'
    <2>1. p \in Fds /\ m.body \in Cfg /\ QueuesTypeOK'
      BY <1>4, <1>12, PeerBodies DEF ConfigSet, Handling
    <2>2. CASE config[p] # NoCfg
      <3>1. Merge(config[p], m.body) \in Cfg
        BY <2>1, <2>2, CfgTypes DEF ModelTypeOK
      <3>2. owed' \in Seq(SendEntry)
        BY <1>4, <1>15, <2>1, <2>2, MsgTypes DEF ConfigSet, Owes
      <3>3. config' \in [Fds -> Cfg \cup {NoCfg}]
        BY <1>4, <2>1, <2>2, <3>1 DEF ConfigSet, ModelTypeOK
      <3>4. QED
        BY <1>4, <1>13, <2>1, <3>2, <3>3 DEF ConfigSet
    <2>3. CASE config[p] = NoCfg
      BY <1>4, <1>13, <2>1, <2>3 DEF ConfigSet, ModelTypeOK
    <2>4. QED
      BY <2>2, <2>3
  <1>5. ASSUME ConfigReq
        PROVE  QueuesTypeOK' /\ ModelTypeOK'
    <2>1. p \in Fds /\ QueuesTypeOK'
      BY <1>5, <1>12 DEF ConfigReq, Handling
    <2>2. config[p] # NoCfg => config[p] \in Cfg
      BY <2>1 DEF ModelTypeOK
    <2>3. owed' \in Seq(SendEntry)
      BY <1>5, <1>15, <2>1, <2>2, MsgTypes DEF ConfigReq, Owes, ModelTypeOK
    <2>4. QED
      BY <1>5, <1>13, <2>1, <2>3 DEF ConfigReq, ModelTypeOK
  <1>6. ASSUME ConfigReqOnly
        PROVE  QueuesTypeOK' /\ ModelTypeOK'
    <2>1. p \in Fds /\ QueuesTypeOK'
      BY <1>6, <1>12 DEF ConfigReqOnly, Handling
    <2>2. config[p] # NoCfg => Only(config[p], m.body) \in Cfg
      BY <2>1, CfgTypes DEF ModelTypeOK
    <2>3. owed' \in Seq(SendEntry)
      BY <1>6, <1>15, <2>1, <2>2, MsgTypes DEF ConfigReqOnly, Owes, ModelTypeOK
    <2>4. QED
      BY <1>6, <1>13, <2>1, <2>3 DEF ConfigReqOnly, ModelTypeOK
  <1>7. ASSUME Note
        PROVE  QueuesTypeOK' /\ ModelTypeOK'
    BY <1>0, <1>1, <1>7, RegistryFrame DEF Note, Handling, QueuesTypeOK
  <1>8. ASSUME ShutdownReq
        PROVE  QueuesTypeOK' /\ ModelTypeOK'
    <2>1. p \in Fds /\ Tail(recvQ) \in Seq(RecvEntry)
      BY <1>1, <1>8 DEF ShutdownReq, Handling
    <2>2. Append(sendQ, Entry(p, Msg("SHUTDOWN_ACK", NoBody))) \in Seq(SendEntry)
      BY <2>1, MsgTypes, PutSendType DEF QueuesTypeOK
    <2>3. QueuesTypeOK'
      BY <1>8, <2>1, <2>2 DEF ShutdownReq, Handling, Put, QueuesTypeOK
    <2>4. owed' \in Seq(SendEntry)
      BY <1>8, <1>15, <2>1 DEF ShutdownReq, Owes, DropPeer
    <2>5. QED
      BY <1>8, <1>13, <2>3, <2>4 DEF ShutdownReq, ModelTypeOK
  <1>9. ASSUME ShutdownAck
        PROVE  QueuesTypeOK' /\ ModelTypeOK'
    <2>1. p \in Fds /\ Tail(recvQ) \in Seq(RecvEntry)
      BY <1>1, <1>9 DEF ShutdownAck, Handling
    <2>2. /\ recvQ' = Tail(recvQ)
          /\ sendQ' = Append(sendQ, Entry(p, DropPeer))
          /\ leaving' = p /\ registering = NoPeer
          /\ UNCHANGED <<fu, config, key, numFu, dirty, registering, regDesc,
                         owed, untold>>
      BY <1>9 DEF ShutdownAck, Handling, BetweenMessages
    <2>3. QueuesTypeOK'
      BY <2>1, <2>2, PutSendType DEF QueuesTypeOK
    <2>4. QED
      BY <1>0, <2>1, <2>2, <2>3 DEF ModelTypeOK
  <1>16. ASSUME PutOwed
         PROVE  QueuesTypeOK' /\ ModelTypeOK'
    <2>1. Head(owed) \in SendEntry /\ Tail(owed) \in Seq(SendEntry)
      BY <1>16, HeadTailType DEF PutOwed, ModelTypeOK
    <2>2. QueuesTypeOK'
      BY <1>16, <2>1 DEF PutOwed, QueuesTypeOK
    <2>3. QED
      BY <1>13, <1>16, <2>1, <2>2 DEF PutOwed, ModelTypeOK
  <1>17. ASSUME RemoveUnit
         PROVE  QueuesTypeOK' /\ ModelTypeOK'
    <2>1. /\ fu' = fu \/ fu' = [fu EXCEPT ![leaving] = NoDesc]
          /\ config' = config \/ config' = [config EXCEPT ![leaving] = NoCfg]
      BY <1>17 DEF RemoveUnit
    <2>2. /\ fu' \in [Fds -> Descs \cup {NoDesc}]
          /\ config' \in [Fds -> Cfg \cup {NoCfg}]
      BY <2>1, ModelParts
    <2>3. /\ leaving' = NoPeer /\ untold' = TRUE /\ registering = NoPeer
          /\ UNCHANGED <<key, numFu, dirty, registering, regDesc, owed, sendQ, recvQ>>
      BY <1>17 DEF RemoveUnit, ModelTypeOK
    <2>4. QED
      BY <1>0, <2>2, <2>3 DEF ModelTypeOK, QueuesTypeOK
  <1>10. ASSUME AnnounceRemoval
         PROVE  QueuesTypeOK' /\ ModelTypeOK'
    <2>1. /\ UNCHANGED <<fu, config, key, registering, regDesc, owed, leaving,
                         sendQ, recvQ>>
          /\ untold' = FALSE /\ dirty' = TRUE
      BY <1>10 DEF AnnounceRemoval
    <2>2. numFu' \in Int
      <3>1. numFu' = numFu - 1
        BY <1>10 DEF AnnounceRemoval
      <3>2. QED
        BY <3>1, ModelParts
    <2>3. QED
      BY <1>0, <2>1, <2>2 DEF ModelTypeOK, QueuesTypeOK
  <1>11. QED
    BY <1>2, <1>3, <1>4, <1>5, <1>6, <1>7, <1>8, <1>9, <1>10, <1>16, <1>17
       DEF DoStuff

-----------------------------------------------------------------------------
(***************************************************************************)
(* Defaults.  A unit gets a section when it enters fu, and only then; that *)
(* of the first Session Builder only when fu has none.                     *)
(***************************************************************************)

LEMMA RegistryOneSB ==
    ASSUME OneSBOnFirstDefaults, UNCHANGED <<fu, key>>
    PROVE  OneSBOnFirstDefaults'
  BY DEF OneSBOnFirstDefaults, Known

LEMMA DoStuffOneSB ==
    ASSUME ModelTypeOK, OneSBOnFirstDefaults, DoStuff
    PROVE  OneSBOnFirstDefaults'
  <1>1. CASE RegisterEnd
    <2>0. registering \in Fds /\ regDesc \in Descs
      BY <1>1, SentinelsDistinct DEF RegisterEnd, ModelTypeOK
    <2>9. KeyFor(regDesc) \in Sections \cup {"none"}
      BY <2>0, ModelConstants DEF KeyFor, Sections
    <2>1. PICK r \in Fds, d \in Descs, s \in Sections \cup {"none"} :
            /\ r = registering /\ d = regDesc
            /\ s = KeyFor(regDesc)
      BY <2>0, <2>9
    <2>2. /\ fu' = [fu EXCEPT ![r] = d]
          /\ key' = [key EXCEPT ![r] = s]
      BY <1>1, <2>1 DEF RegisterEnd
    <2>3. fu \in [Fds -> Descs \cup {NoDesc}] /\ key \in [Fds -> Sections \cup {"none"}]
      BY DEF ModelTypeOK
    <2>4. s = "SBAttrs" => \A p \in Known : Kind[fu[p]] # "SB"
      BY <2>1, ModelConstants DEF KeyFor
    <2>5. fu'[r] = d /\ key'[r] = s
      BY <2>2, <2>3
    <2>6. \A p \in Fds : p # r => fu'[p] = fu[p] /\ key'[p] = key[p]
      BY <2>2, <2>3
    <2>7. ASSUME NEW p \in Known', NEW q \in Known', p # q,
                 Kind[fu'[p]] = "SB", Kind[fu'[q]] = "SB",
                 key'[p] = "SBAttrs", key'[q] = "SBAttrs"
          PROVE  FALSE
      <3>1. p \in Fds /\ q \in Fds
        BY DEF Known
      <3>2. CASE p = r
        BY <2>4, <2>5, <2>6, <2>7, <3>1, <3>2 DEF Known
      <3>3. CASE q = r
        BY <2>4, <2>5, <2>6, <2>7, <3>1, <3>3 DEF Known
      <3>4. CASE p # r /\ q # r
        BY <2>6, <2>7, <3>1, <3>4 DEF Known, OneSBOnFirstDefaults
      <3>5. QED
        BY <3>2, <3>3, <3>4
    <2>8. QED
      BY <2>7 DEF OneSBOnFirstDefaults
  <1>2. CASE RemoveUnit
    <2>1. PICK p : fu' = [fu EXCEPT ![p] = NoDesc] \/ fu' = fu
      BY <1>2 DEF RemoveUnit
    <2>2. fu \in [Fds -> Descs \cup {NoDesc}] /\ key' = key
      BY <1>2 DEF RemoveUnit, ModelTypeOK
    <2>3. \A q \in Fds : fu'[q] = fu[q] \/ fu'[q] = NoDesc
      BY <2>1, <2>2
    <2>4. QED
      BY <2>2, <2>3 DEF OneSBOnFirstDefaults, Known
  <1>3. CASE RegisterBegin \/ ConfigSet \/ ConfigReq \/ ConfigReqOnly \/ Note
              \/ ShutdownReq \/ PutOwed \/ ShutdownAck \/ AnnounceRemoval
    <2>1. UNCHANGED <<fu, key>>
      BY <1>3 DEF RegisterBegin, ConfigSet, ConfigReq, ConfigReqOnly, Note,
                  ShutdownReq, PutOwed, ShutdownAck, AnnounceRemoval, modelVars
    <2>2. QED
      BY <2>1, RegistryOneSB
  <1>4. QED
    BY <1>1, <1>2, <1>3 DEF DoStuff

-----------------------------------------------------------------------------
(***************************************************************************)
(* The control bus.                                                        *)
(***************************************************************************)

LEMMA SendEntryCases ==
    ASSUME NEW e \in SendEntry
    PROVE  /\ e.msg = DropPeer => e.peer \in Fds
           /\ IsForPeer(e.msg) => e.peer \in Fds /\ e.msg \in CcmMsg
  BY DEF SendEntry, IsForPeer, Entry, Msg, DropPeer, DropServer

-----------------------------------------------------------------------------
(***************************************************************************)
(* Type correctness.  The server takes the head of a peer's pending input  *)
(* on the strength of a test it made earlier in the pass; that the test    *)
(* still holds is TodoReady.                                               *)
(***************************************************************************)

TodoReady ==
    serverPc = "recv" => \A p \in todo : p \in OpenFds /\ pendingIn[p] # <<>>

TInv == TypeOK /\ TodoReady /\ ConfigForUnits

LEMMA InitType == Init => TInv
  <1> SUFFICES ASSUME Init PROVE TInv
    OBVIOUS
  <1>1. QueuesTypeOK
    BY EmptySeq DEF Init, QueuesTypeOK
  <1>2. ServerTypeOK
    BY EmptySeq DEF Init, ServerInit, ServerTypeOK, ClientStates
  <1>3. ModelTypeOK
    BY ModelInitType DEF Init
  <1>4. sent \in [Conns -> Nat] /\ \A k \in Conns : sent[k] <= MaxSend[k]
    BY BusConstants DEF Init
  <1>5. TodoReady
    BY DEF TodoReady, Init, ServerInit
  <1>6. ConfigForUnits
    BY SentinelsDistinct DEF ConfigForUnits, Known, Init, ModelInit
  <1>7. QED
    BY <1>1, <1>2, <1>3, <1>4, <1>5, <1>6 DEF TInv, TypeOK

\* Closing a connection keeps the variables it touches in their types.
LEMMA CloseType ==
    ASSUME QueuesTypeOK, ServerTypeOK, NEW p \in Fds, CloseConnection(p)
    PROVE  /\ peers' \in [Fds -> Conns \cup {NoConn}]
           /\ pendingIn' \in [Fds -> Seq(PeerMsg)]
           /\ pendingOut' \in [Fds -> Seq(CcmMsg)]
           /\ recvQ' \in Seq(RecvEntry)
  <1>1. recvQ' \in Seq(RecvEntry)
    BY MsgTypes, PutRecvType DEF CloseConnection, Put, QueuesTypeOK
  <1>2. QED
    BY <1>1, EmptySeq DEF CloseConnection, ServerTypeOK

\* So does moving messages between a socket and its two buffers.
LEMMA TransferType ==
    ASSUME QueuesTypeOK, ServerTypeOK, NEW p \in OpenFds,
           NEW n \in 0 .. Len(pendingOut[p]),
           NEW m \in 0 .. Len(up[peers[p]]),
           Transfer(p, n, m)
    PROVE  /\ peers[p] \in Conns
           /\ pendingIn' \in [Fds -> Seq(PeerMsg)]
           /\ pendingOut' \in [Fds -> Seq(CcmMsg)]
           /\ up' \in [Conns -> Seq(PeerMsg)]
           /\ down' \in [Conns -> Seq(CcmMsg)]
           /\ peers' = peers
           /\ recvQ' = recvQ
  <1> DEFINE k == peers[p]
  <1>1. p \in Fds /\ k \in Conns
    BY DEF OpenFds, ServerTypeOK
  <1>2. /\ pendingOut[p] \in Seq(CcmMsg) /\ up[k] \in Seq(PeerMsg)
        /\ pendingIn[p] \in Seq(PeerMsg) /\ down[k] \in Seq(CcmMsg)
    BY <1>1 DEF ServerTypeOK
  <1>3. /\ SubSeq(pendingOut[p], 1, n) \in Seq(CcmMsg)
        /\ SubSeq(up[k], 1, m) \in Seq(PeerMsg)
    BY <1>2, PrefixType
  <1>4. /\ SubSeq(pendingOut[p], n + 1, Len(pendingOut[p])) \in Seq(CcmMsg)
        /\ SubSeq(up[k], m + 1, Len(up[k])) \in Seq(PeerMsg)
    BY <1>2, SuffixType
  <1>5. /\ down[k] \o SubSeq(pendingOut[p], 1, n) \in Seq(CcmMsg)
        /\ pendingIn[p] \o SubSeq(up[k], 1, m) \in Seq(PeerMsg)
    BY <1>2, <1>3, ConcatProperties
  <1>6. /\ pendingOut' = [pendingOut EXCEPT
               ![p] = SubSeq(pendingOut[p], n + 1, Len(pendingOut[p]))]
        /\ down' = [down EXCEPT ![k] = down[k] \o SubSeq(pendingOut[p], 1, n)]
        /\ pendingIn' = [pendingIn EXCEPT
               ![p] = pendingIn[p] \o SubSeq(up[k], 1, m)]
        /\ up' = [up EXCEPT ![k] = SubSeq(up[k], m + 1, Len(up[k]))]
        /\ peers' = peers /\ recvQ' = recvQ
    BY DEF Transfer
  <1> HIDE DEF k
  <1>7. QED
    BY <1>1, <1>4, <1>5, <1>6 DEF ServerTypeOK, k

\* What a step leaves alone keeps its type.
LEMMA ServerFrame ==
    ASSUME ServerTypeOK, TodoReady, UNCHANGED <<serverVars, netVars>>
    PROVE  ServerTypeOK' /\ TodoReady'
  BY DEF ServerTypeOK, TodoReady, OpenFds, serverVars, netVars

\* The steps of the server thread.
LEMMA ServerType ==
    ASSUME QueuesTypeOK, ServerTypeOK, TodoReady, ServerNext
    PROVE  QueuesTypeOK' /\ ServerTypeOK' /\ TodoReady'
  <1> USE DEF netVars
  <1>1. ASSUME NEW k \in Conns, NEW p \in Fds, OnAccept(k, p)
        PROVE  QueuesTypeOK' /\ ServerTypeOK' /\ TodoReady'
    <2>1. <<Msg("CONNECT_ACK", p)>> \in Seq(CcmMsg)
      BY MsgTypes
    <2>2. QED
      BY <1>1, <2>1, EmptySeq
         DEF OnAccept, QueuesTypeOK, ServerTypeOK, TodoReady
  <1>2. ASSUME NEW p \in Fds, OnIO(p)
        PROVE  QueuesTypeOK' /\ ServerTypeOK' /\ TodoReady'
    <2>1. PICK n \in 0 .. Len(pendingOut[p]), m \in 0 .. Len(up[peers[p]]) :
            Transfer(p, n, m)
      BY <1>2 DEF OnIO
    <2>2. QED
      BY <1>2, <2>1, TransferType
         DEF OnIO, QueuesTypeOK, ServerTypeOK, TodoReady
  <1>3. ASSUME NEW p \in Fds, OnHangup(p)
        PROVE  QueuesTypeOK' /\ ServerTypeOK' /\ TodoReady'
    BY <1>3, CloseType DEF OnHangup, QueuesTypeOK, ServerTypeOK, TodoReady
  <1>4. ASSUME StartDoStuff
        PROVE  QueuesTypeOK' /\ ServerTypeOK' /\ TodoReady'
    BY <1>4 DEF StartDoStuff, QueuesTypeOK, ServerTypeOK, TodoReady, OpenFds
  <1>5. ASSUME NEW p \in Fds, TakeMsg(p)
        PROVE  QueuesTypeOK' /\ ServerTypeOK' /\ TodoReady'
    <2>1. pendingIn[p] \in Seq(PeerMsg) /\ pendingIn[p] # <<>>
      BY <1>5 DEF TakeMsg, TodoReady, ServerTypeOK
    <2>2. Head(pendingIn[p]) \in PeerMsg /\ Tail(pendingIn[p]) \in Seq(PeerMsg)
      BY <2>1, HeadTailType
    <2>3. QueuesTypeOK'
      BY <1>5, <2>2, PutRecvType DEF TakeMsg, QueuesTypeOK
    <2>4. ServerTypeOK'
      BY <1>5, <2>2 DEF TakeMsg, ServerTypeOK
    <2>5. TodoReady'
      BY <1>5 DEF TakeMsg, TodoReady, OpenFds, ServerTypeOK
    <2>6. QED
      BY <2>3, <2>4, <2>5
  <1> DEFINE e == Head(sendQ)
  <1>6. sendQ # <<>> => e \in SendEntry /\ Tail(sendQ) \in Seq(SendEntry)
    BY HeadTailType DEF QueuesTypeOK
  <1>7. ASSUME DrainDropPeer
        PROVE  QueuesTypeOK' /\ ServerTypeOK' /\ TodoReady'
    <2>1. CASE e.peer \in OpenFds
      BY <1>6, <1>7, <2>1, CloseType
         DEF DrainDropPeer, QueuesTypeOK, ServerTypeOK, TodoReady, OpenFds
    <2>2. CASE e.peer \notin OpenFds
      BY <1>6, <1>7, <2>2
         DEF DrainDropPeer, QueuesTypeOK, ServerTypeOK, TodoReady
    <2>3. QED
      BY <2>1, <2>2
  <1>8. ASSUME DrainDropServer
        PROVE  QueuesTypeOK' /\ ServerTypeOK' /\ TodoReady'
    BY <1>6, <1>8 DEF DrainDropServer, QueuesTypeOK, ServerTypeOK, TodoReady
  <1>9. ASSUME NEW p \in Fds, CloseNext(p)
        PROVE  QueuesTypeOK' /\ ServerTypeOK' /\ TodoReady'
    BY <1>9, CloseType DEF CloseNext, QueuesTypeOK, ServerTypeOK, TodoReady
  <1>10. ASSUME CloseEnd
         PROVE  QueuesTypeOK' /\ ServerTypeOK' /\ TodoReady'
    BY <1>10 DEF CloseEnd, QueuesTypeOK, ServerTypeOK, TodoReady
  <1>11. ASSUME DrainMessage
         PROVE  QueuesTypeOK' /\ ServerTypeOK' /\ TodoReady'
    <2>1. QueuesTypeOK'
      BY <1>6, <1>11 DEF DrainMessage, QueuesTypeOK
    <2>2. e.peer \in Fds /\ e.msg \in CcmMsg
      BY <1>6, <1>11, SendEntryCases DEF DrainMessage
    <2>3. ServerTypeOK'
      <3>1. Append(pendingOut[e.peer], e.msg) \in Seq(CcmMsg)
        BY <2>2 DEF ServerTypeOK
      <3>2. CASE e.peer \in OpenFds
        BY <1>11, <2>2, <3>1, <3>2 DEF DrainMessage, ServerTypeOK
      <3>3. CASE e.peer \notin OpenFds
        BY <1>11, <3>3 DEF DrainMessage, ServerTypeOK
      <3>4. QED
        BY <3>2, <3>3
    <2>4. TodoReady'
      BY <1>11 DEF DrainMessage, TodoReady
    <2>5. QED
      BY <2>1, <2>3, <2>4
  <1>12. ASSUME EndPass
         PROVE  QueuesTypeOK' /\ ServerTypeOK' /\ TodoReady'
    BY <1>12 DEF EndPass, QueuesTypeOK, ServerTypeOK, TodoReady
  <1>13. ASSUME NEW p \in Fds, OnUncaught(p)
         PROVE  QueuesTypeOK' /\ ServerTypeOK' /\ TodoReady'
    BY <1>13 DEF OnUncaught, QueuesTypeOK, ServerTypeOK, TodoReady
  <1>14. QED
    BY <1>1, <1>2, <1>3, <1>4, <1>5, <1>7, <1>8, <1>9, <1>10, <1>11, <1>12,
       <1>13
       DEF ServerNext, ServerLoop

\* The requests of the GUI thread.
LEMMA GuiType ==
    ASSUME QueuesTypeOK, ModelTypeOK, GuiNext
    PROVE  QueuesTypeOK' /\ ModelTypeOK'
  <1>1. ASSUME NEW p \in Fds, Request(p)
        PROVE  /\ admin' \in 0 .. MaxAdmin /\ updating' = p /\ p # NoPeer
               /\ UNCHANGED <<modelVars, stopping, asked, late>>
               /\ QueuesTypeOK'
    BY <1>1, ModelConstants, ModelParts, SentinelsDistinct
       DEF Request, QueuesTypeOK
  <1>2. ASSUME NEW p \in Fds, NEW a \in Attrs, NEW v \in Vals,
               UpdateConfig(p, a, v)
        PROVE  QueuesTypeOK' /\ ModelTypeOK'
    <2>1. Request(p) /\ guiStep' = "tell" /\ newVals' \in Cfg
      BY <1>2, CfgTypes DEF UpdateConfig
    <2>2. GuiTypeOK'
      BY <1>1, <2>1 DEF ModelTypeOK, GuiTypeOK
    <2>3. QED
      BY <1>1, <2>1, <2>2, RegistryFrame
  <1>9. ASSUME TellUnit
        PROVE  QueuesTypeOK' /\ ModelTypeOK'
    <2>1. updating \in Fds /\ newVals \in Cfg
      BY <1>9 DEF TellUnit, ModelTypeOK, GuiTypeOK
    <2>2. QueuesTypeOK'
      BY <1>9, <2>1, MsgTypes, PutSendType DEF TellUnit, Put, QueuesTypeOK
    <2>3. GuiTypeOK' /\ UNCHANGED modelVars
      BY <1>9 DEF TellUnit, ModelTypeOK, GuiTypeOK
    <2>4. QED
      BY <2>2, <2>3, RegistryFrame
  <1>3. ASSUME NoteUpdate
        PROVE  QueuesTypeOK' /\ ModelTypeOK'
    <2>1. updating \in Fds /\ newVals \in Cfg
      BY <1>3 DEF NoteUpdate, ModelTypeOK, GuiTypeOK
    <2>2. config[updating] # NoCfg => Merge(config[updating], newVals) \in Cfg
      BY <2>1, CfgTypes, ModelParts
    <2>3. config' \in [Fds -> Cfg \cup {NoCfg}]
      BY <1>3, <2>1, <2>2, ModelParts DEF NoteUpdate
    <2>4. GuiTypeOK'
      BY <1>3, CfgTypes DEF NoteUpdate, ModelTypeOK, GuiTypeOK
    <2>5. UNCHANGED <<fu, key, numFu, dirty, registering, regDesc, owed, leaving,
                      untold>>
      BY <1>3 DEF NoteUpdate
    <2>6. QueuesTypeOK'
      BY <1>3 DEF NoteUpdate, QueuesTypeOK
    <2>7. QED
      BY <2>3, <2>4, <2>5, <2>6 DEF ModelTypeOK
  <1>4. ASSUME NEW p \in Fds, Disconnect(p)
        PROVE  QueuesTypeOK' /\ ModelTypeOK'
    <2>1. Request(p) /\ guiStep' = "ask" /\ newVals' = newVals
      BY <1>4 DEF Disconnect
    <2>2. GuiTypeOK'
      BY <1>1, <2>1 DEF ModelTypeOK, GuiTypeOK
    <2>3. QED
      BY <1>1, <2>1, <2>2, RegistryFrame
  <1>10. ASSUME AskUnit
         PROVE  QueuesTypeOK' /\ ModelTypeOK'
    <2>1. updating \in Fds
      BY <1>10 DEF AskUnit, ModelTypeOK, GuiTypeOK
    <2>2. QueuesTypeOK'
      BY <1>10, <2>1, MsgTypes, PutSendType DEF AskUnit, Put, QueuesTypeOK
    <2>3. GuiTypeOK' /\ UNCHANGED modelVars
      BY <1>10 DEF AskUnit, ModelTypeOK, GuiTypeOK
    <2>4. QED
      BY <2>2, <2>3, RegistryFrame
  <1>5. ASSUME BeginShutdown
        PROVE  QueuesTypeOK' /\ ModelTypeOK'
    <2>1. GuiTypeOK' /\ UNCHANGED modelVars
      BY <1>5 DEF BeginShutdown, BetweenMessages, ModelTypeOK, GuiTypeOK
    <2>2. QED
      BY <1>5, <2>1, RegistryFrame DEF BeginShutdown, QueuesTypeOK
  <1>6. ASSUME NEW p \in Fds, AskNext(p)
        PROVE  QueuesTypeOK' /\ ModelTypeOK'
    <2>1. QueuesTypeOK'
      BY <1>6 DEF AskNext, QueuesTypeOK
    <2>2. GuiTypeOK' /\ UNCHANGED modelVars
      BY <1>6, SentinelsDistinct DEF AskNext, ModelTypeOK, GuiTypeOK
    <2>3. QED
      BY <2>1, <2>2, RegistryFrame
  <1>7. ASSUME QueueDropServer
        PROVE  QueuesTypeOK' /\ ModelTypeOK'
    <2>1. QueuesTypeOK'
      BY <1>7 DEF QueueDropServer, QueuesTypeOK, SendEntry
    <2>2. GuiTypeOK' /\ UNCHANGED modelVars
      BY <1>7 DEF QueueDropServer, ModelTypeOK, GuiTypeOK
    <2>3. QED
      BY <2>1, <2>2, RegistryFrame
  <1>8. QED
    BY <1>2, <1>3, <1>4, <1>5, <1>6, <1>7, <1>9, <1>10 DEF GuiNext

\* A configuration appears and disappears together with its unit.
LEMMA ConfigStep ==
    ASSUME QueuesTypeOK, ModelTypeOK, ConfigForUnits, DoStuff \/ GuiNext
    PROVE  ConfigForUnits'
  <1> DEFINE p == Head(recvQ).peer
  <1> USE DEF Known
  <1>1. ASSUME RegisterBegin PROVE ConfigForUnits'
    <2>1. /\ config' = [config EXCEPT ![p] = EmptyCfg]
          /\ registering' = p /\ registering = NoPeer
          /\ fu' = fu
      BY <1>1 DEF RegisterBegin, Handling, BetweenMessages
    <2>2. QED
      BY <2>1, CfgTypes, ModelParts, SentinelsDistinct DEF ConfigForUnits
  <1>2. ASSUME RegisterEnd PROVE ConfigForUnits'
    <2>1. registering \in Fds /\ regDesc \in Descs /\ regDesc # NoDesc
      BY <1>2 DEF RegisterEnd, ModelTypeOK
    <2>2. KeyFor(regDesc) # "none" => Defaults[KeyFor(regDesc)] \in Cfg
      BY <2>1, ModelConstants DEF KeyFor, Sections
    <2>3. /\ fu' = [fu EXCEPT ![registering] = regDesc]
          /\ registering' = NoPeer
      BY <1>2 DEF RegisterEnd
    <2>4. config[registering] # NoCfg
      BY <1>2, <2>1 DEF RegisterEnd, ConfigForUnits
    <2>5. config' = [config EXCEPT ![registering] =
                       IF KeyFor(regDesc) = "none" THEN config[registering]
                                               ELSE Defaults[KeyFor(regDesc)]]
      BY <1>2 DEF RegisterEnd
    <2>6. PICK c \in Cfg : config' = [config EXCEPT ![registering] = c]
      BY <2>1, <2>2, <2>4, <2>5, ModelParts
    <2>7. QED
      BY <2>1, <2>3, <2>6, CfgTypes, ModelParts, SentinelsDistinct
         DEF ConfigForUnits
  <1>3. ASSUME ConfigSet PROVE ConfigForUnits'
    <2>1. Head(recvQ).msg.body \in Cfg
      <3>1. Head(recvQ) \in RecvEntry
        BY <1>3, HeadTailType DEF ConfigSet, Handling, QueuesTypeOK
      <3>2. QED
        BY <1>3, <3>1, PeerBodies DEF ConfigSet, Handling, RecvEntry
    <2>2. \/ config' = config
          \/ /\ config[p] # NoCfg
             /\ config' = [config EXCEPT ![p] =
                             Merge(config[p], Head(recvQ).msg.body)]
      BY <1>3 DEF ConfigSet
    <2>3. fu' = fu /\ registering' = registering
      BY <1>3 DEF ConfigSet
    <2>4. \A c \in Cfg : Merge(c, Head(recvQ).msg.body) \in Cfg
      BY <2>1, CfgTypes
    <2>5. QED
      BY <2>2, <2>3, <2>4, CfgTypes, ModelParts DEF ConfigForUnits
  <1>4. ASSUME \/ ConfigReq \/ ConfigReqOnly \/ Note \/ ShutdownReq
               \/ PutOwed \/ ShutdownAck \/ AnnounceRemoval
        PROVE  ConfigForUnits'
    <2>1. UNCHANGED <<fu, config, registering>>
      BY <1>4 DEF ConfigReq, ConfigReqOnly, Note, ShutdownReq, PutOwed,
                  ShutdownAck, AnnounceRemoval, modelVars
    <2>2. QED
      BY <2>1 DEF ConfigForUnits
  <1>5. ASSUME RemoveUnit PROVE ConfigForUnits'
    <2>1. /\ registering' = registering /\ registering = NoPeer
          /\ \/ UNCHANGED <<fu, config>>
             \/ /\ fu' = [fu EXCEPT ![leaving] = NoDesc]
                /\ config' = [config EXCEPT ![leaving] = NoCfg]
      BY <1>5 DEF RemoveUnit, ModelTypeOK
    <2>2. QED
      BY <2>1, ModelParts, SentinelsDistinct DEF ConfigForUnits
  <1>6. ASSUME GuiNext PROVE ConfigForUnits'
    <2>1. fu' = fu /\ registering' = registering
      BY <1>6 DEF GuiNext, UpdateConfig, TellUnit, NoteUpdate, Disconnect,
                  AskUnit, Request, BeginShutdown, AskNext, QueueDropServer,
                  modelVars
    <2>2. CASE NoteUpdate
      <3>1. updating \in Fds /\ newVals \in Cfg
        BY <2>2 DEF NoteUpdate, ModelTypeOK, GuiTypeOK
      <3>2. \/ config' = config
            \/ /\ config[updating] # NoCfg
               /\ config' = [config EXCEPT ![updating] =
                               Merge(config[updating], newVals)]
        BY <2>2, <3>1, ModelParts DEF NoteUpdate
      <3>3. \A c \in Cfg : Merge(c, newVals) \in Cfg
        BY <3>1, CfgTypes
      <3>4. QED
        BY <2>1, <3>2, <3>3, CfgTypes, ModelParts DEF ConfigForUnits
    <2>3. CASE UNCHANGED config
      BY <2>1, <2>3 DEF ConfigForUnits
    <2>4. QED
      BY <1>6, <2>2, <2>3
         DEF GuiNext, UpdateConfig, TellUnit, Disconnect, AskUnit, Request,
             BeginShutdown, AskNext, QueueDropServer, modelVars
  <1>7. QED
    BY <1>1, <1>2, <1>3, <1>4, <1>5, <1>6 DEF DoStuff

\* The peers' ends of their connections.
LEMMA PeerType ==
    ASSUME TypeOK, TodoReady, PeerNext
    PROVE  TypeOK' /\ TodoReady'
  <1>1. UNCHANGED <<serverVars, accepted, modelVars, guiVars, sendQ, recvQ>>
    BY DEF PeerNext, Connect, PeerSend, PeerRecv, PeerClose
  <1>2. QueuesTypeOK' /\ ModelTypeOK' /\ TodoReady'
    BY <1>1, ModelFrame
       DEF TypeOK, QueuesTypeOK, TodoReady, OpenFds, serverVars
  <1>3. /\ client' \in [Conns -> ClientStates]
        /\ up' \in [Conns -> Seq(PeerMsg)]
        /\ down' \in [Conns -> Seq(CcmMsg)]
        /\ sent' \in [Conns -> Nat]
        /\ \A k \in Conns : sent'[k] <= MaxSend[k]
    <2>1. PICK k \in Conns :
            \/ Connect(k)
            \/ \E m \in PeerMsg : PeerSend(k, m)
            \/ PeerRecv(k)
            \/ PeerClose(k)
      BY DEF PeerNext
    <2>2. CASE Connect(k) \/ PeerClose(k)
      BY <2>2, BusConstants
         DEF Connect, PeerClose, TypeOK, ServerTypeOK, ClientStates
    <2>3. CASE PeerRecv(k)
      <3>1. Tail(down[k]) \in Seq(CcmMsg)
        BY <2>3, HeadTailType DEF PeerRecv, TypeOK, ServerTypeOK
      <3>2. QED
        BY <2>3, <3>1 DEF PeerRecv, TypeOK, ServerTypeOK
    <2>4. ASSUME NEW m \in PeerMsg, PeerSend(k, m)
          PROVE  <1>3!1 /\ <1>3!2 /\ <1>3!3 /\ <1>3!4 /\ <1>3!5
      <3>1. Append(up[k], m) \in Seq(PeerMsg)
        BY DEF TypeOK, ServerTypeOK
      <3>2. sent[k] \in Nat /\ MaxSend[k] \in Nat /\ sent[k] < MaxSend[k]
        BY <2>4, BusConstants DEF PeerSend, TypeOK
      <3>3. QED
        BY <2>4, <3>1, <3>2 DEF PeerSend, TypeOK, ServerTypeOK
    <2>5. QED
      BY <2>1, <2>2, <2>3, <2>4
  <1>4. ServerTypeOK'
    BY <1>1, <1>3 DEF TypeOK, ServerTypeOK, serverVars
  <1>5. QED
    BY <1>2, <1>3, <1>4 DEF TypeOK

LEMMA TypeStep == TInv /\ [Next]_vars => TInv'
  <1> SUFFICES ASSUME TInv, [Next]_vars PROVE TInv'
    OBVIOUS
  <1> USE DEF TInv
  <1>1. CASE Server
    <2>1. QueuesTypeOK' /\ ServerTypeOK' /\ TodoReady'
      BY <1>1, ServerType DEF Server, TypeOK
    <2>2. ModelTypeOK' /\ ConfigForUnits' /\ sent' = sent
      BY <1>1, ModelFrame DEF Server, TypeOK, ConfigForUnits, Known, modelVars
    <2>3. QED
      BY <2>1, <2>2 DEF TypeOK
  <1>2. CASE Model
    <2>1. QueuesTypeOK' /\ ModelTypeOK'
      BY <1>2, ModelType DEF Model, TypeOK
    <2>2. ConfigForUnits'
      BY <1>2, ConfigStep DEF Model, TypeOK
    <2>3. ServerTypeOK' /\ TodoReady' /\ sent' = sent
      BY <1>2, ServerFrame DEF Model, TypeOK
    <2>4. QED
      BY <2>1, <2>2, <2>3 DEF TypeOK
  <1>3. CASE Gui
    <2>1. QueuesTypeOK' /\ ModelTypeOK'
      BY <1>3, GuiType DEF Gui, TypeOK
    <2>2. ConfigForUnits'
      BY <1>3, ConfigStep DEF Gui, TypeOK
    <2>3. ServerTypeOK' /\ TodoReady' /\ sent' = sent
      BY <1>3, ServerFrame DEF Gui, TypeOK
    <2>4. QED
      BY <2>1, <2>2, <2>3 DEF TypeOK
  <1>4. CASE ClearKeepalive
    <2>1. UNCHANGED <<serverPc, peers, pendingIn, pendingOut, todo, netVars,
                      modelVars, asked, admin, late, guiStep, updating, newVals,
                      sendQ, recvQ, sent>>
      BY <1>4 DEF ClearKeepalive
    <2>2. keepalive' \in BOOLEAN /\ stopping' = "joined"
      BY <1>4 DEF ClearKeepalive
    <2>3. QueuesTypeOK' /\ ServerTypeOK' /\ TodoReady'
      BY <2>1, <2>2 DEF TypeOK, QueuesTypeOK, ServerTypeOK, TodoReady, OpenFds,
                        netVars
    <2>4. GuiTypeOK'
      BY <2>1, <2>2 DEF TypeOK, ModelTypeOK, GuiTypeOK
    <2>5. ModelTypeOK' /\ ConfigForUnits'
      BY <2>1, <2>4, RegistryFrame DEF TypeOK, ConfigForUnits, Known, modelVars
    <2>6. QED
      BY <2>1, <2>3, <2>5 DEF TypeOK
  <1>5. CASE PeerNext
    <2>1. TypeOK' /\ TodoReady'
      BY <1>5, PeerType
    <2>2. ConfigForUnits'
      BY <1>5 DEF PeerNext, Connect, PeerSend, PeerRecv, PeerClose,
                  ConfigForUnits, Known, modelVars
    <2>3. QED
      BY <2>1, <2>2
  <1>6. CASE UNCHANGED vars
    <2>1. QueuesTypeOK' /\ ServerTypeOK' /\ TodoReady'
      BY <1>6, ServerFrame DEF vars, TypeOK, QueuesTypeOK
    <2>2. ModelTypeOK' /\ ConfigForUnits' /\ sent' = sent
      BY <1>6, ModelFrame DEF vars, TypeOK, ConfigForUnits, Known, modelVars
    <2>3. QED
      BY <2>1, <2>2 DEF TypeOK
  <1>7. QED
    BY <1>1, <1>2, <1>3, <1>4, <1>5, <1>6 DEF Next

\* Every variable keeps its type, whatever the peers and the user do: in
\* particular the server never takes a message from a peer that has none.
THEOREM TypeCorrect == Spec => []TInv
  <1>1. QED
    BY InitType, TypeStep, PTL DEF Spec

-----------------------------------------------------------------------------
(***************************************************************************)
(* No ghost units, no mistaken identity.  NoGhostUnit and RightUnit are not*)
(* inductive: what a registration in flight says must be known as well,    *)
(* wherever it is -- on the wire or read but not handed over (OwnName), or *)
(* in recvQ (RightQueue).  There, a registration with a goodbye behind it  *)
(* is of an earlier owner of the descriptor; one without is of the present *)
(* owner.                                                                  *)
(***************************************************************************)

\* What connection k may say.
From(k) == {m \in PeerMsg : m.type = "REGISTER_REQ" => m.body = DescOf[k]}

OwnName ==
    /\ \A k \in Conns : up[k] \in Seq(From(k))
    /\ \A p \in OpenFds : pendingIn[p] \in Seq(From(peers[p]))

RightQueue ==
    \A p \in OpenFds : \A i \in 1 .. Len(recvQ) :
        /\ IsRegistration(recvQ[i], p)
        /\ \A j \in i + 1 .. Len(recvQ) : recvQ[j] # Goodbye(p)
        => recvQ[i].msg.body = DescOf[peers[p]]

RegistryInv == NoGhostUnit /\ RightUnit /\ OwnName /\ RightQueue

LEMMA AppendAt ==
    ASSUME NEW S, NEW s \in Seq(S), NEW e \in S
    PROVE  /\ Append(s, e) \in Seq(S)
           /\ Len(Append(s, e)) = Len(s) + 1
           /\ \A i \in 1 .. Len(s) : Append(s, e)[i] = s[i]
           /\ Append(s, e)[Len(s) + 1] = e
  OBVIOUS

LEMMA TailAt ==
    ASSUME NEW S, NEW s \in Seq(S), s # <<>>
    PROVE  /\ Tail(s) \in Seq(S)
           /\ Len(s) \in Nat /\ Len(s) >= 1
           /\ Len(Tail(s)) = Len(s) - 1
           /\ Head(s) = s[1]
           /\ \A i \in 1 .. Len(s) - 1 : Tail(s)[i] = s[i + 1]
  OBVIOUS

LEMMA GoodbyeIsNoRegistration ==
    \A p, q \in Fds : ~IsRegistration(Goodbye(p), q)
  BY DEF IsRegistration, Goodbye, Entry, Msg

\* Closing descriptor p.  The goodbye at the end of the queue is what
\* NoGhostUnit asks of p, and takes nothing from what it asks of the others.
LEMMA CloseStep ==
    ASSUME TInv, RegistryInv, NEW p \in OpenFds, CloseConnection(p),
           UNCHANGED <<modelVars, up>>
    PROVE  RegistryInv'
  <1> DEFINE n == Len(recvQ)
  <1>1. p \in Fds /\ n \in Nat /\ recvQ \in Seq(RecvEntry)
    BY DEF OpenFds, TInv, TypeOK, QueuesTypeOK
  <1>2. Goodbye(p) \in RecvEntry
    BY <1>1, MsgTypes DEF Goodbye, Entry, RecvEntry
  <1>3. recvQ' = Append(recvQ, Goodbye(p))
    BY DEF CloseConnection, Put, Goodbye
  <1>4. /\ Len(recvQ') = n + 1
        /\ \A i \in 1 .. n : recvQ'[i] = recvQ[i]
        /\ recvQ'[n + 1] = Goodbye(p)
    BY <1>1, <1>2, <1>3, AppendAt
  <1>5. /\ peers' = [peers EXCEPT ![p] = NoConn]
        /\ pendingIn' = [pendingIn EXCEPT ![p] = <<>>]
        /\ UNCHANGED <<fu, registering, regDesc, leaving, up>>
    BY DEF CloseConnection, modelVars
  <1>6. peers \in [Fds -> Conns \cup {NoConn}]
        /\ pendingIn \in [Fds -> Seq(PeerMsg)]
    BY DEF TInv, TypeOK, ServerTypeOK
  <1>7. \A q \in Fds : GoodbyePending(q) => GoodbyePending(q)'
    BY <1>1, <1>4 DEF GoodbyePending, Goodbye
  <1>8. GoodbyePending(p)'
    BY <1>1, <1>4 DEF GoodbyePending, Goodbye
  <1>9. NoGhostUnit'
    <2> SUFFICES ASSUME NEW q \in Fds, peers'[q] = NoConn
                 PROVE  /\ (q \in Known' \/ registering' = q) => GoodbyePending(q)' \/ leaving' = q
                        /\ \A i \in 1 .. Len(recvQ') :
                             IsRegistration(recvQ'[i], q) =>
                               \E j \in i + 1 .. Len(recvQ') :
                                  recvQ'[j] = Goodbye(q)
      BY DEF NoGhostUnit, IsRegistration, Goodbye
    <2>1. CASE q = p
      BY <1>1, <1>4, <1>8, <2>1, GoodbyeIsNoRegistration
    <2>2. CASE q # p
      <3>1. peers[q] = NoConn
        BY <1>5, <1>6, <2>2
      <3>2. (q \in Known' \/ registering' = q) => GoodbyePending(q)' \/ leaving' = q
        BY <1>5, <1>7, <3>1 DEF RegistryInv, NoGhostUnit, Known
      <3>3. ASSUME NEW i \in 1 .. Len(recvQ'), IsRegistration(recvQ'[i], q)
            PROVE  \E j \in i + 1 .. Len(recvQ') : recvQ'[j] = Goodbye(q)
        <4>1. i \in 1 .. n
          BY <1>1, <1>4, <3>3, GoodbyeIsNoRegistration
        <4>2. PICK j \in i + 1 .. n : recvQ[j] = Goodbye(q)
          BY <1>4, <3>1, <3>3, <4>1 DEF RegistryInv, NoGhostUnit
        <4>3. QED
          BY <1>1, <1>4, <4>1, <4>2
      <3>4. QED
        BY <3>2, <3>3
    <2>3. QED
      BY <2>1, <2>2
  <1>10. \A q \in OpenFds' : q \in OpenFds /\ q # p /\ peers'[q] = peers[q]
                             /\ pendingIn'[q] = pendingIn[q]
    BY <1>1, <1>5, <1>6 DEF OpenFds
  <1>11. RightUnit'
    BY <1>5, <1>7, <1>10 DEF RegistryInv, RightUnit, Known, OpenFds
  <1>12. OwnName'
    BY <1>5, <1>10 DEF RegistryInv, OwnName, From
  <1>13. RightQueue'
    <2> SUFFICES ASSUME NEW q \in OpenFds', NEW i \in 1 .. Len(recvQ'),
                        IsRegistration(recvQ'[i], q),
                        \A j \in i + 1 .. Len(recvQ') : recvQ'[j] # Goodbye(q)
                 PROVE  recvQ'[i].msg.body = DescOf[peers'[q]]
      BY DEF RightQueue, IsRegistration, Goodbye
    <2>1. i \in 1 .. n
      BY <1>1, <1>4, GoodbyeIsNoRegistration DEF OpenFds
    <2>2. \A j \in i + 1 .. n : recvQ[j] # Goodbye(q)
      BY <1>1, <1>4, <2>1
    <2>3. QED
      BY <1>4, <1>10, <2>1, <2>2 DEF RegistryInv, RightQueue
  <1>14. QED
    BY <1>9, <1>11, <1>12, <1>13 DEF RegistryInv

\* A step that leaves the queue, the descriptors and the registry alone.
LEMMA QuietStep ==
    ASSUME RegistryInv, OwnName',
           UNCHANGED <<peers, recvQ, fu, registering, regDesc, leaving>>
    PROVE  RegistryInv'
  <1>1. NoGhostUnit'
    BY DEF RegistryInv, NoGhostUnit, Known, GoodbyePending, Goodbye, IsRegistration
  <1>2. RightUnit'
    BY DEF RegistryInv, RightUnit, Known, GoodbyePending, Goodbye
  <1>3. RightQueue'
    BY DEF RegistryInv, RightQueue, OpenFds, Goodbye, IsRegistration
  <1>4. QED
    BY <1>1, <1>2, <1>3 DEF RegistryInv

\* A new owner for descriptor p: nothing the CCM holds or has queued under p
\* lacks a goodbye.
LEMMA AcceptStep ==
    ASSUME TInv, RegistryInv, NEW k \in Conns, NEW p \in Fds, OnAccept(k, p),
           UNCHANGED modelVars
    PROVE  RegistryInv'
  <1>1. /\ peers' = [peers EXCEPT ![p] = k] /\ peers[p] = NoConn
        /\ pendingIn' = [pendingIn EXCEPT ![p] = <<>>]
        /\ UNCHANGED <<up, recvQ, fu, registering, regDesc, leaving>>
    BY DEF OnAccept, modelVars
  <1>2. peers \in [Fds -> Conns \cup {NoConn}]
        /\ pendingIn \in [Fds -> Seq(PeerMsg)]
    BY DEF TInv, TypeOK, ServerTypeOK
  <1>3. NoGhostUnit'
    BY <1>1, <1>2, SentinelsDistinct
       DEF RegistryInv, NoGhostUnit, Known, GoodbyePending, Goodbye, IsRegistration
  <1>4. \A q \in OpenFds' : q # p => q \in OpenFds /\ peers'[q] = peers[q]
                                     /\ pendingIn'[q] = pendingIn[q]
    BY <1>1, <1>2 DEF OpenFds
  <1>5. RightUnit'
    <2>1. p \in Known \/ registering = p => GoodbyePending(p) \/ leaving = p
      BY <1>1 DEF RegistryInv, NoGhostUnit
    <2>2. QED
      BY <1>1, <1>4, <2>1
         DEF RegistryInv, RightUnit, Known, GoodbyePending, Goodbye, OpenFds
  <1>6. OwnName'
    <2>1. pendingIn'[p] = <<>> /\ <<>> \in Seq(From(k)) /\ peers'[p] = k
      BY <1>1, <1>2, EmptySeq
    <2>2. \A c \in Conns : up'[c] \in Seq(From(c))
      BY <1>1 DEF RegistryInv, OwnName
    <2>3. \A q \in OpenFds' : pendingIn'[q] \in Seq(From(peers'[q]))
      BY <1>4, <2>1 DEF RegistryInv, OwnName
    <2>4. QED
      BY <2>2, <2>3 DEF OwnName
  <1>7. RightQueue'
    <2>1. \A i \in 1 .. Len(recvQ) : IsRegistration(recvQ[i], p) =>
             \E j \in i + 1 .. Len(recvQ) : recvQ[j] = Goodbye(p)
      BY <1>1 DEF RegistryInv, NoGhostUnit
    <2>2. QED
      BY <1>1, <1>4, <2>1
         DEF RegistryInv, RightQueue, Goodbye, IsRegistration
  <1>8. QED
    BY <1>3, <1>5, <1>6, <1>7 DEF RegistryInv

\* Reading moves a connection's own messages to its own descriptor.
LEMMA IOStep ==
    ASSUME TInv, RegistryInv, NEW p \in Fds, OnIO(p), UNCHANGED modelVars
    PROVE  RegistryInv'
  <1> DEFINE k == peers[p]
  <1>1. PICK n \in 0 .. Len(pendingOut[p]), m \in 0 .. Len(up[k]) :
          Transfer(p, n, m)
    BY DEF OnIO
  <1>2. /\ p \in OpenFds /\ k \in Conns
        /\ peers \in [Fds -> Conns \cup {NoConn}]
        /\ pendingIn \in [Fds -> Seq(PeerMsg)]
        /\ up \in [Conns -> Seq(PeerMsg)]
    BY DEF OnIO, OpenFds, TInv, TypeOK, ServerTypeOK
  <1>3. up[k] \in Seq(From(k)) /\ pendingIn[p] \in Seq(From(k))
    BY <1>2 DEF RegistryInv, OwnName
  <1>4. /\ SubSeq(up[k], 1, m) \in Seq(From(k))
        /\ SubSeq(up[k], m + 1, Len(up[k])) \in Seq(From(k))
    BY <1>3, PrefixType, SuffixType
  <1>5. pendingIn[p] \o SubSeq(up[k], 1, m) \in Seq(From(k))
    BY <1>3, <1>4, ConcatProperties
  <1>6. /\ peers' = peers /\ recvQ' = recvQ
        /\ pendingIn' = [pendingIn EXCEPT
               ![p] = pendingIn[p] \o SubSeq(up[k], 1, m)]
        /\ up' = [up EXCEPT ![k] = SubSeq(up[k], m + 1, Len(up[k]))]
    BY <1>1 DEF Transfer
  <1>7. /\ up'[k] \in Seq(From(k)) /\ pendingIn'[p] \in Seq(From(k))
        /\ \A c \in Conns : c # k => up'[c] = up[c]
        /\ \A q \in Fds : q # p => pendingIn'[q] = pendingIn[q]
    BY <1>2, <1>4, <1>5, <1>6
  <1>8. OwnName'
    <2>1. \A c \in Conns : up'[c] \in Seq(From(c))
      BY <1>7 DEF RegistryInv, OwnName
    <2>2. \A q \in OpenFds : pendingIn'[q] \in Seq(From(peers[q]))
      BY <1>7 DEF RegistryInv, OwnName, OpenFds
    <2>3. OpenFds' = OpenFds
      BY <1>6 DEF OpenFds
    <2>4. QED
      BY <1>6, <2>1, <2>2, <2>3 DEF OwnName
  <1>9. QED
    BY <1>6, <1>8, QuietStep DEF modelVars

\* Handing over a message: a registration is of the descriptor's owner, and
\* nothing is handed over for a descriptor that is closed.
LEMMA TakeStep ==
    ASSUME TInv, RegistryInv, NEW p \in Fds, TakeMsg(p), UNCHANGED modelVars
    PROVE  RegistryInv'
  <1> DEFINE n == Len(recvQ)
             m == Head(pendingIn[p])
             e == Entry(p, m)
  <1>1. /\ p \in OpenFds /\ pendingIn[p] # <<>>
        /\ n \in Nat /\ recvQ \in Seq(RecvEntry)
        /\ pendingIn \in [Fds -> Seq(PeerMsg)]
    BY DEF TakeMsg, TInv, TodoReady, TypeOK, QueuesTypeOK, ServerTypeOK
  <1>2. /\ m \in From(peers[p]) /\ Tail(pendingIn[p]) \in Seq(From(peers[p]))
    BY <1>1, HeadTailType DEF RegistryInv, OwnName
  <1>3. e \in RecvEntry /\ e.peer = p /\ e.msg = m
    BY <1>2 DEF RecvEntry, Entry, From
  <1>4. /\ Len(recvQ') = n + 1
        /\ \A i \in 1 .. n : recvQ'[i] = recvQ[i]
        /\ recvQ'[n + 1] = e
    BY <1>1, <1>3, AppendAt DEF TakeMsg
  <1>5. /\ pendingIn' = [pendingIn EXCEPT ![p] = Tail(pendingIn[p])]
        /\ UNCHANGED <<peers, up, fu, registering, regDesc, leaving>>
    BY DEF TakeMsg, modelVars, netVars
  <1>6. \A q \in Fds : GoodbyePending(q) => GoodbyePending(q)'
    BY <1>1, <1>4 DEF GoodbyePending, Goodbye
  <1>7. NoGhostUnit'
    <2> SUFFICES ASSUME NEW q \in Fds, peers'[q] = NoConn
                 PROVE  /\ (q \in Known' \/ registering' = q) => GoodbyePending(q)' \/ leaving' = q
                        /\ \A i \in 1 .. Len(recvQ') :
                             IsRegistration(recvQ'[i], q) =>
                               \E j \in i + 1 .. Len(recvQ') :
                                  recvQ'[j] = Goodbye(q)
      BY DEF NoGhostUnit, IsRegistration, Goodbye
    <2>1. peers[q] = NoConn /\ q # p
      BY <1>1, <1>5 DEF OpenFds
    <2>2. (q \in Known' \/ registering' = q) => GoodbyePending(q)' \/ leaving' = q
      BY <1>5, <1>6, <2>1 DEF RegistryInv, NoGhostUnit, Known
    <2>3. ASSUME NEW i \in 1 .. Len(recvQ'), IsRegistration(recvQ'[i], q)
          PROVE  \E j \in i + 1 .. Len(recvQ') : recvQ'[j] = Goodbye(q)
      <3>1. i \in 1 .. n
        BY <1>1, <1>3, <1>4, <2>1, <2>3 DEF IsRegistration
      <3>2. PICK j \in i + 1 .. n : recvQ[j] = Goodbye(q)
        BY <1>4, <2>1, <2>3, <3>1 DEF RegistryInv, NoGhostUnit
      <3>3. QED
        BY <1>1, <1>4, <3>1, <3>2
    <2>4. QED
      BY <2>2, <2>3
  <1>8. RightUnit'
    BY <1>5, <1>6 DEF RegistryInv, RightUnit, Known
  <1>9. OwnName'
    BY <1>1, <1>2, <1>5 DEF RegistryInv, OwnName, OpenFds, From
  <1>10. RightQueue'
    <2> SUFFICES ASSUME NEW q \in OpenFds, NEW i \in 1 .. Len(recvQ'),
                        IsRegistration(recvQ'[i], q),
                        \A j \in i + 1 .. Len(recvQ') : recvQ'[j] # Goodbye(q)
                 PROVE  recvQ'[i].msg.body = DescOf[peers[q]]
      BY <1>5 DEF RightQueue, IsRegistration, Goodbye, OpenFds
    <2>1. CASE i = n + 1
      BY <1>2, <1>3, <1>4, <2>1 DEF From, IsRegistration
    <2>2. CASE i \in 1 .. n
      <3>1. \A j \in i + 1 .. n : recvQ[j] # Goodbye(q)
        BY <1>1, <1>4, <2>2
      <3>2. QED
        BY <1>4, <2>2, <3>1 DEF RegistryInv, RightQueue
    <2>3. QED
      BY <1>1, <1>4, <2>1, <2>2
  <1>11. QED
    BY <1>7, <1>8, <1>9, <1>10 DEF RegistryInv

\* Taking the head of recvQ.
LEMMA PopStep ==
    ASSUME TInv, RegistryInv, recvQ # <<>>, recvQ' = Tail(recvQ),
           UNCHANGED <<peers, pendingIn, up>>
    PROVE  /\ RightQueue' /\ OwnName'
           /\ \A p \in Fds : peers[p] = NoConn =>
                \A i \in 1 .. Len(recvQ') : IsRegistration(recvQ'[i], p) =>
                   \E j \in i + 1 .. Len(recvQ') : recvQ'[j] = Goodbye(p)
           /\ \A p \in Fds : GoodbyePending(p)' => GoodbyePending(p)
           /\ \A p \in Fds : GoodbyePending(p) =>
                GoodbyePending(p)' \/ Head(recvQ) = Goodbye(p)
  <1> DEFINE n == Len(recvQ)
  <1>1. /\ n \in Nat /\ n >= 1 /\ Len(recvQ') = n - 1
        /\ Head(recvQ) = recvQ[1]
        /\ \A i \in 1 .. n - 1 : recvQ'[i] = recvQ[i + 1]
    BY TailAt DEF TInv, TypeOK, QueuesTypeOK
  <1>2. OwnName'
    BY DEF RegistryInv, OwnName, OpenFds
  <1>3. ASSUME NEW p \in Fds, GoodbyePending(p)'
        PROVE  GoodbyePending(p)
    <2>1. PICK i \in 1 .. n - 1 : recvQ'[i] = Goodbye(p)
      BY <1>1, <1>3 DEF GoodbyePending, Goodbye
    <2>2. i + 1 \in 1 .. n /\ recvQ[i + 1] = Goodbye(p)
      BY <1>1, <2>1
    <2>3. QED
      BY <2>2 DEF GoodbyePending
  <1>4. ASSUME NEW p \in Fds, GoodbyePending(p), Head(recvQ) # Goodbye(p)
        PROVE  GoodbyePending(p)'
    <2>1. PICK i \in 1 .. n : recvQ[i] = Goodbye(p)
      BY <1>4 DEF GoodbyePending
    <2>2. i - 1 \in 1 .. n - 1 /\ recvQ'[i - 1] = recvQ[i]
      BY <1>1, <1>4, <2>1
    <2>3. QED
      BY <1>1, <2>1, <2>2 DEF GoodbyePending, Goodbye
  <1>5. ASSUME NEW p \in Fds, peers[p] = NoConn,
               NEW i \in 1 .. Len(recvQ'), IsRegistration(recvQ'[i], p)
        PROVE  \E j \in i + 1 .. Len(recvQ') : recvQ'[j] = Goodbye(p)
    <2>1. i + 1 \in 1 .. n /\ recvQ'[i] = recvQ[i + 1]
      BY <1>1
    <2>2. PICK j \in i + 2 .. n : recvQ[j] = Goodbye(p)
      BY <1>1, <1>5, <2>1 DEF RegistryInv, NoGhostUnit
    <2>3. j - 1 \in i + 1 .. n - 1 /\ recvQ'[j - 1] = recvQ[j]
      BY <1>1, <2>2
    <2>4. QED
      BY <1>1, <2>2, <2>3
  <1>6. RightQueue'
    <2> SUFFICES ASSUME NEW q \in OpenFds, NEW i \in 1 .. n - 1,
                        IsRegistration(recvQ'[i], q),
                        \A j \in i + 1 .. n - 1 : recvQ'[j] # Goodbye(q)
                 PROVE  recvQ'[i].msg.body = DescOf[peers[q]]
      BY <1>1 DEF RightQueue, IsRegistration, Goodbye, OpenFds
    <2>1. i + 1 \in 1 .. n /\ recvQ'[i] = recvQ[i + 1]
      BY <1>1
    <2>2. \A j \in i + 2 .. n : recvQ[j] # Goodbye(q)
      <3>1. \A j \in i + 2 .. n : j - 1 \in i + 1 .. n - 1 /\ recvQ'[j - 1] = recvQ[j]
        BY <1>1
      <3>2. QED
        BY <3>1
    <2>3. (i + 1) + 1 = i + 2
      OBVIOUS
    <2>4. QED
      BY <2>1, <2>2, <2>3 DEF RegistryInv, RightQueue
  <1>7. QED
    BY <1>2, <1>3, <1>4, <1>5, <1>6

LEMMA ModelStep ==
    ASSUME TInv, RegistryInv, DoStuff, UNCHANGED <<peers, pendingIn, up>>
    PROVE  RegistryInv'
  <1> DEFINE p == Head(recvQ).peer
  <1>1. ASSUME RegisterBegin PROVE RegistryInv'
    <2>1. /\ recvQ # <<>> /\ recvQ' = Tail(recvQ)
          /\ Head(recvQ).msg.type = "REGISTER_REQ"
          /\ registering = NoPeer /\ registering' = p
          /\ regDesc' = Head(recvQ).msg.body
          /\ fu' = fu /\ leaving = NoPeer /\ leaving' = NoPeer
      BY <1>1 DEF RegisterBegin, Handling, BetweenMessages
    <2>2. /\ Len(recvQ) \in Nat /\ Len(recvQ) >= 1 /\ Head(recvQ) = recvQ[1]
          /\ p \in Fds
      <3>1. recvQ \in Seq(RecvEntry)
        BY DEF TInv, TypeOK, QueuesTypeOK
      <3>2. Head(recvQ) \in RecvEntry
        BY <2>1, <3>1, HeadTailType
      <3>3. /\ Len(recvQ) \in Nat /\ Len(recvQ) >= 1 /\ Head(recvQ) = recvQ[1]
        BY <2>1, <3>1, TailAt
      <3>4. QED
        BY <3>2, <3>3 DEF RecvEntry
    <2>3. \A q \in Fds : Head(recvQ) # Goodbye(q)
      BY <2>1 DEF Goodbye, Entry, Msg
    <2>4. IsRegistration(recvQ[1], p) /\ 1 \in 1 .. Len(recvQ)
      BY <2>1, <2>2 DEF IsRegistration
    <2>5. peers[p] = NoConn => GoodbyePending(p)
      BY <2>2, <2>4 DEF RegistryInv, NoGhostUnit, GoodbyePending
    <2>6. peers[p] # NoConn /\ ~GoodbyePending(p) => regDesc' = DescOf[peers[p]]
      BY <2>1, <2>2, <2>4
         DEF RegistryInv, RightQueue, GoodbyePending, OpenFds
    <2>7. \A q \in Fds : GoodbyePending(q)' <=> GoodbyePending(q)
      BY <2>1, <2>3, PopStep
    <2>8. NoGhostUnit'
      BY <2>1, <2>5, <2>7, PopStep
         DEF RegistryInv, NoGhostUnit, Known, IsRegistration, Goodbye
    <2>9. RightUnit'
      BY <2>1, <2>6, <2>7 DEF RegistryInv, RightUnit, Known
    <2>10. QED
      BY <2>1, <2>8, <2>9, PopStep DEF RegistryInv
  <1>2. ASSUME RegisterEnd PROVE RegistryInv'
    <2>1. /\ registering \in Fds /\ registering' = NoPeer
          /\ fu' = [fu EXCEPT ![registering] = regDesc]
          /\ recvQ' = recvQ /\ leaving' = leaving
      BY <1>2 DEF RegisterEnd, TInv, TypeOK, ModelTypeOK
    <2>2. fu \in [Fds -> Descs \cup {NoDesc}] /\ NoPeer \notin Fds
      BY SentinelsDistinct, ModelParts DEF TInv, TypeOK
    <2>3. NoGhostUnit'
      BY <2>1, <2>2 DEF RegistryInv, NoGhostUnit, Known, GoodbyePending,
                        Goodbye, IsRegistration
    <2>4. RightUnit'
      BY <2>1, <2>2 DEF RegistryInv, RightUnit, Known, GoodbyePending, Goodbye
    <2>5. RightQueue'
      BY <2>1 DEF RegistryInv, RightQueue, OpenFds, Goodbye, IsRegistration
    <2>6. OwnName'
      BY DEF RegistryInv, OwnName, OpenFds
    <2>7. QED
      BY <2>3, <2>4, <2>5, <2>6 DEF RegistryInv
  <1>3. ASSUME ConfigSet \/ ConfigReq \/ ConfigReqOnly \/ Note \/ ShutdownReq
        PROVE  RegistryInv'
    <2>1. /\ recvQ # <<>> /\ recvQ' = Tail(recvQ)
          /\ Head(recvQ).msg.type # "SHUTDOWN_ACK"
          /\ UNCHANGED <<fu, registering, regDesc, leaving>>
      BY <1>3 DEF ConfigSet, ConfigReq, ConfigReqOnly, Note, ShutdownReq,
                  Handling, modelVars
    <2>2. \A q \in Fds : Head(recvQ) # Goodbye(q)
      BY <2>1 DEF Goodbye, Entry, Msg
    <2>3. \A q \in Fds : GoodbyePending(q)' <=> GoodbyePending(q)
      BY <2>1, <2>2, PopStep
    <2>4. NoGhostUnit'
      BY <2>1, <2>3, PopStep
         DEF RegistryInv, NoGhostUnit, Known, IsRegistration, Goodbye
    <2>5. RightUnit'
      BY <2>1, <2>3 DEF RegistryInv, RightUnit, Known
    <2>6. QED
      BY <2>1, <2>4, <2>5, PopStep DEF RegistryInv
  <1>4. ASSUME ShutdownAck PROVE RegistryInv'
    <2>1. /\ recvQ # <<>> /\ recvQ' = Tail(recvQ)
          /\ leaving = NoPeer /\ leaving' = p
          /\ UNCHANGED <<fu, registering, regDesc>>
      BY <1>4 DEF ShutdownAck, Handling, BetweenMessages
    <2>2. NoPeer \notin Fds
      BY SentinelsDistinct
    <2>3. \A q \in Fds : q # p => Head(recvQ) # Goodbye(q)
      BY DEF Goodbye, Entry
    <2>4. \A q \in Fds : q # p => (GoodbyePending(q)' <=> GoodbyePending(q))
      BY <2>1, <2>3, PopStep
    <2>5. NoGhostUnit'
      BY <2>1, <2>2, <2>4, PopStep
         DEF RegistryInv, NoGhostUnit, Known, IsRegistration, Goodbye
    <2>6. RightUnit'
      BY <2>1, <2>2, <2>4 DEF RegistryInv, RightUnit, Known
    <2>7. QED
      BY <2>1, <2>5, <2>6, PopStep DEF RegistryInv
  <1>5. ASSUME PutOwed \/ AnnounceRemoval PROVE RegistryInv'
    <2>1. UNCHANGED <<fu, registering, regDesc, leaving, recvQ>>
      BY <1>5 DEF PutOwed, AnnounceRemoval
    <2>2. OwnName'
      BY DEF RegistryInv, OwnName, OpenFds
    <2>3. QED
      BY <2>1, <2>2, QuietStep
  <1>6. ASSUME RemoveUnit PROVE RegistryInv'
    <2>1. /\ leaving \in Fds /\ leaving' = NoPeer /\ registering = NoPeer
          /\ UNCHANGED <<registering, regDesc, recvQ>>
          /\ \/ leaving \notin Known /\ fu' = fu
             \/ fu' = [fu EXCEPT ![leaving] = NoDesc]
      BY <1>6 DEF RemoveUnit, TInv, TypeOK, ModelTypeOK
    <2>2. fu \in [Fds -> Descs \cup {NoDesc}] /\ NoPeer \notin Fds
      BY SentinelsDistinct, ModelParts DEF TInv, TypeOK
    <2>3. /\ leaving \notin Known'
          /\ \A q \in Fds : q # leaving => fu'[q] = fu[q]
      BY <2>1, <2>2 DEF Known
    <2>4. NoGhostUnit'
      BY <2>1, <2>2, <2>3 DEF RegistryInv, NoGhostUnit, Known, GoodbyePending,
                              Goodbye, IsRegistration
    <2>5. RightUnit'
      BY <2>1, <2>2, <2>3
         DEF RegistryInv, RightUnit, Known, GoodbyePending, Goodbye
    <2>6. RightQueue'
      BY <2>1 DEF RegistryInv, RightQueue, OpenFds, Goodbye, IsRegistration
    <2>7. OwnName'
      BY DEF RegistryInv, OwnName, OpenFds
    <2>8. QED
      BY <2>4, <2>5, <2>6, <2>7 DEF RegistryInv
  <1>7. QED
    BY <1>1, <1>2, <1>3, <1>4, <1>5, <1>6 DEF DoStuff

\* What a peer sends is its own.
LEMMA PeerStep ==
    ASSUME TInv, RegistryInv, PeerNext
    PROVE  RegistryInv'
  <1>1. UNCHANGED <<peers, pendingIn, recvQ, fu, registering, regDesc, leaving>>
    BY DEF PeerNext, Connect, PeerSend, PeerRecv, PeerClose, serverVars, modelVars
  <1>2. \A p \in OpenFds' : pendingIn'[p] \in Seq(From(peers'[p]))
    BY <1>1 DEF RegistryInv, OwnName, OpenFds
  <1>3. \A c \in Conns : up'[c] \in Seq(From(c))
    <2>1. CASE up' = up
      BY <2>1 DEF RegistryInv, OwnName
    <2>2. ASSUME NEW k \in Conns, NEW m \in PeerMsg, PeerSend(k, m)
          PROVE  \A c \in Conns : up'[c] \in Seq(From(c))
      <3>1. /\ up' = [up EXCEPT ![k] = Append(up[k], m)]
            /\ m \in From(k)
        BY <2>2 DEF PeerSend, From
      <3>2. up \in [Conns -> Seq(PeerMsg)]
        BY DEF TInv, TypeOK, ServerTypeOK
      <3>3. Append(up[k], m) \in Seq(From(k))
        BY <3>1, AppendAt DEF RegistryInv, OwnName
      <3>4. QED
        BY <3>1, <3>2, <3>3 DEF RegistryInv, OwnName
    <2>3. QED
      BY <2>1, <2>2 DEF PeerNext, Connect, PeerRecv, PeerClose
  <1>4. OwnName'
    BY <1>2, <1>3 DEF OwnName
  <1>5. QED
    BY <1>1, <1>4, QuietStep

\* The steps of the server thread.
LEMMA ServerStep ==
    ASSUME TInv, RegistryInv, ServerNext, UNCHANGED modelVars
    PROVE  RegistryInv'
  <1> USE DEF netVars
  <1>1. ASSUME NEW k \in Conns, NEW p \in Fds, OnAccept(k, p)
        PROVE  RegistryInv'
    BY <1>1, AcceptStep
  <1>2. ASSUME NEW p \in Fds, OnIO(p)
        PROVE  RegistryInv'
    BY <1>2, IOStep
  <1>3. ASSUME NEW p \in Fds, OnHangup(p) \/ CloseNext(p)
        PROVE  RegistryInv'
    BY <1>3, CloseStep DEF OnHangup, CloseNext
  <1>4. ASSUME NEW p \in Fds, TakeMsg(p)
        PROVE  RegistryInv'
    BY <1>4, TakeStep
  <1>5. ASSUME UNCHANGED <<peers, pendingIn, up, recvQ>>
        PROVE  RegistryInv'
    <2>1. OwnName'
      BY <1>5 DEF RegistryInv, OwnName, OpenFds
    <2>2. QED
      BY <1>5, <2>1, QuietStep DEF modelVars
  <1>6. ASSUME DrainDropPeer
        PROVE  RegistryInv'
    <2>1. CASE Head(sendQ).peer \in OpenFds
      BY <1>6, <2>1, CloseStep DEF DrainDropPeer
    <2>2. CASE Head(sendQ).peer \notin OpenFds
      BY <1>5, <1>6, <2>2 DEF DrainDropPeer
    <2>3. QED
      BY <2>1, <2>2
  <1>7. ASSUME \/ StartDoStuff \/ DrainDropServer \/ CloseEnd
               \/ DrainMessage \/ EndPass
        PROVE  RegistryInv'
    BY <1>5, <1>7 DEF StartDoStuff, DrainDropServer, CloseEnd, DrainMessage,
                      EndPass
  <1>8. ASSUME NEW p \in Fds, OnUncaught(p)
        PROVE  RegistryInv'
    BY <1>5, <1>8 DEF OnUncaught
  <1>9. QED
    BY <1>1, <1>2, <1>3, <1>4, <1>6, <1>7, <1>8 DEF ServerNext, ServerLoop

LEMMA RegistryInit == Init => RegistryInv
  <1> SUFFICES ASSUME Init PROVE RegistryInv
    OBVIOUS
  <1>1. /\ recvQ = <<>> /\ Len(recvQ) = 0 /\ registering = NoPeer
        /\ fu = [p \in Fds |-> NoDesc] /\ peers = [p \in Fds |-> NoConn]
        /\ up = [k \in Conns |-> <<>>]
    BY DEF Init, ServerInit, ModelInit
  <1>2. OpenFds = {} /\ Known = {} /\ NoPeer \notin Fds
    BY <1>1, SentinelsDistinct DEF OpenFds, Known
  <1>3. NoGhostUnit /\ RightUnit /\ RightQueue
    BY <1>1, <1>2 DEF NoGhostUnit, RightUnit, RightQueue
  <1>4. OwnName
    BY <1>1, <1>2, EmptySeq DEF OwnName
  <1>5. QED
    BY <1>3, <1>4 DEF RegistryInv

LEMMA RegistryStep == TInv /\ RegistryInv /\ [Next]_vars => RegistryInv'
  <1> SUFFICES ASSUME TInv, RegistryInv, [Next]_vars
               PROVE  RegistryInv'
    OBVIOUS
  <1>1. CASE Server
    BY <1>1, ServerStep DEF Server
  <1>2. CASE Model
    BY <1>2, ModelStep DEF Model, serverVars, netVars
  <1>3. CASE UNCHANGED <<peers, pendingIn, up, recvQ, fu, registering, regDesc,
                         leaving>>
    <2>1. OwnName'
      BY <1>3 DEF RegistryInv, OwnName, OpenFds
    <2>2. QED
      BY <1>3, <2>1, QuietStep
  <1>4. CASE Gui
    BY <1>3, <1>4 DEF Gui, GuiNext, Request, UpdateConfig, TellUnit, NoteUpdate,
                      Disconnect, AskUnit, BeginShutdown, AskNext,
                      QueueDropServer, serverVars, netVars, modelVars
  <1>5. CASE ClearKeepalive
    BY <1>3, <1>5 DEF ClearKeepalive, netVars, modelVars
  <1>6. CASE PeerNext
    BY <1>6, PeerStep
  <1>7. CASE UNCHANGED vars
    BY <1>3, <1>7 DEF vars, serverVars, netVars, modelVars
  <1>8. QED
    BY <1>1, <1>2, <1>4, <1>5, <1>6, <1>7 DEF Next

\* Together the two invariants are inductive.
THEOREM RegistryCorrect == Spec => [](TInv /\ RegistryInv)
  <1>1. Init => TInv /\ RegistryInv
    BY InitType, RegistryInit
  <1>2. TInv /\ RegistryInv /\ [Next]_vars => (TInv /\ RegistryInv)'
    BY TypeStep, RegistryStep
  <1>3. QED
    BY <1>1, <1>2, PTL DEF Spec

\* A registered unit whose socket is closed always has a goodbye under way
\* to the CCM, behind everything the unit said (controlServer.py:110-120).
THEOREM NoGhosts == Spec => []NoGhostUnit
  BY RegistryCorrect, PTL DEF RegistryInv

\* However descriptors are reused, the CCM never takes one program for
\* another once the goodbyes to it are handled (ccmModel.py:127-147,185-192).
THEOREM NoMistakenIdentity == Spec => []RightUnit
  BY RegistryCorrect, PTL DEF RegistryInv

\* Model.config has an entry exactly for the registered units and the one
\* being registered (ccmModel.py:127-147,185-192).
THEOREM ConfigsMatchUnits == Spec => []ConfigForUnits
  BY TypeCorrect, PTL DEF TInv

\* Every variable of the bus keeps its type.
THEOREM TypesHold == Spec => []TypeOK
  BY TypeCorrect, PTL DEF TInv

LEMMA OneSBStep ==
    TInv /\ OneSBOnFirstDefaults /\ [Next]_vars => OneSBOnFirstDefaults'
  <1> SUFFICES ASSUME TInv, OneSBOnFirstDefaults, [Next]_vars
               PROVE  OneSBOnFirstDefaults'
    OBVIOUS
  <1>1. CASE Model
    BY <1>1, DoStuffOneSB DEF Model, TInv, TypeOK
  <1>2. CASE Server \/ Gui \/ ClearKeepalive \/ PeerNext \/ UNCHANGED vars
    <2>1. UNCHANGED <<fu, key>>
      BY <1>2 DEF Server, Gui, GuiNext, Request, UpdateConfig, TellUnit,
                  NoteUpdate, Disconnect, AskUnit, BeginShutdown, AskNext,
                  QueueDropServer,
                  ClearKeepalive, PeerNext, Connect, PeerSend, PeerRecv,
                  PeerClose, vars, modelVars
    <2>2. QED
      BY <2>1, RegistryOneSB
  <1>3. QED
    BY <1>1, <1>2 DEF Next

\* However Session Builders come and go, on whatever descriptors, at most one
\* that is registered has the first one's defaults (ccmModel.py:137-144).
THEOREM OneSBOnTheBus == Spec => []OneSBOnFirstDefaults
  <1>1. Init => OneSBOnFirstDefaults
    BY DEF Init, ModelInit, OneSBOnFirstDefaults, Known
  <1>2. QED
    BY <1>1, InitType, TypeStep, OneSBStep, PTL DEF Spec

-----------------------------------------------------------------------------
(***************************************************************************)
(* The window.                                                             *)
(***************************************************************************)

\* The registry has changed since the view last looked, and it has been told,
\* or is about to be.
Marked == dirty \/ untold

\* What doStuff does to the registry and the mark.
LEMMA DoStuffEffect ==
    ASSUME ModelTypeOK, QueuesTypeOK, DoStuff
    PROVE  /\ Known \subseteq Known' \/ Marked'
           /\ Marked => Marked'
  <1>1. CASE RegisterEnd
    <2>1. registering \in Fds /\ regDesc # NoDesc
      BY <1>1 DEF RegisterEnd, ModelTypeOK
    <2>2. /\ fu' = [fu EXCEPT ![registering] = regDesc]
          /\ dirty' = dirty /\ untold' = untold
      BY <1>1 DEF RegisterEnd
    <2>3. fu \in [Fds -> Descs \cup {NoDesc}]
      BY ModelParts
    <2>4. \A p \in Fds : fu[p] # NoDesc => fu'[p] # NoDesc
      BY <2>1, <2>2, <2>3
    <2>5. QED
      BY <2>2, <2>4 DEF Known, Marked
  <1>2. CASE RegisterBegin \/ RemoveUnit \/ AnnounceRemoval
    <2>1. dirty' = TRUE \/ untold' = TRUE
      BY <1>2 DEF RegisterBegin, RemoveUnit, AnnounceRemoval
    <2>2. QED
      BY <2>1 DEF Marked
  <1>3. CASE ConfigSet \/ ConfigReq \/ ConfigReqOnly \/ Note \/ ShutdownReq
              \/ PutOwed \/ ShutdownAck
    <2>1. fu' = fu /\ dirty' = dirty /\ untold' = untold
      BY <1>3 DEF ConfigSet, ConfigReq, ConfigReqOnly, Note, ShutdownReq,
                  PutOwed, ShutdownAck, modelVars
    <2>2. QED
      BY <2>1 DEF Known, Marked
  <1>4. QED
    BY <1>1, <1>2, <1>3 DEF DoStuff

-----------------------------------------------------------------------------
LEMMA ViewInitType == ViewInit => ViewTypeOK
  <1> SUFFICES ASSUME ViewInit PROVE ViewTypeOK
    OBVIOUS
  <1>1. QueuesTypeOK
    BY EmptySeq DEF ViewInit, QueuesTypeOK
  <1>2. ModelTypeOK
    BY ModelInitType DEF ViewInit
  <1>3. BetweenMessages
    BY DEF ViewInit, ModelInit, BetweenMessages
  <1>4. /\ viewPc = "idle" /\ thread = "none"
        /\ shown \in Rows /\ rows \in Rows
        /\ shownNum \in Int /\ put \in 0 .. MaxMsgs
    BY MaxMsgsAssumption DEF ViewInit, Rows
  <1>5. QED
    BY <1>1, <1>2, <1>3, <1>4 DEF ViewTypeOK

LEMMA ViewTypeStep == ViewTypeOK /\ [ViewNext]_ccmVars => ViewTypeOK'
  <1> SUFFICES ASSUME ViewTypeOK, [ViewNext]_ccmVars PROVE ViewTypeOK'
    OBVIOUS
  <1>1. ASSUME NEW p \in Fds, NEW m \in PeerMsg, ServerPut(p, m)
        PROVE  ViewTypeOK'
    <2>1. QueuesTypeOK'
      BY <1>1, PutRecvType DEF ServerPut, ViewTypeOK, QueuesTypeOK
    <2>2. ModelTypeOK'
      BY <1>1, ModelFrame DEF ServerPut, ViewTypeOK
    <2>3. put' \in 0 .. MaxMsgs
      BY <1>1, MaxMsgsAssumption DEF ServerPut, ViewTypeOK
    <2>4. UNCHANGED <<viewVars, thread, registering, owed, leaving, untold>>
      BY <1>1 DEF ServerPut, modelVars
    <2>5. QED
      BY <2>1, <2>2, <2>3, <2>4 DEF ViewTypeOK, viewVars, BetweenMessages
  <1>2. ASSUME ServerTake
        PROVE  ViewTypeOK'
    <2>1. QueuesTypeOK'
      BY <1>2, HeadTailType DEF ServerTake, ViewTypeOK, QueuesTypeOK
    <2>2. ModelTypeOK'
      BY <1>2, ModelFrame DEF ServerTake, ViewTypeOK
    <2>3. UNCHANGED <<viewVars, thread, put, registering, owed, leaving, untold>>
      BY <1>2 DEF ServerTake, modelVars
    <2>4. QED
      BY <2>1, <2>2, <2>3 DEF ViewTypeOK, viewVars, BetweenMessages
  <1>3. ASSUME DoStuffThread
        PROVE  ViewTypeOK'
    <2>1. CASE DoStuff /\ thread' = IF BetweenMessages'
                                     THEN "none" ELSE "busy"
      <3>1. QueuesTypeOK' /\ ModelTypeOK'
        BY <2>1, ModelType DEF ViewTypeOK
      <3>2. /\ thread' \in {"none", "started", "busy"}
            /\ thread' = "busy" <=> ~BetweenMessages'
        BY <2>1
      <3>3. UNCHANGED <<viewVars, put>>
        BY <1>3 DEF DoStuffThread
      <3>4. QED
        BY <3>1, <3>2, <3>3 DEF ViewTypeOK, viewVars
    <2>2. CASE /\ thread = "started" /\ thread' = "none"
               /\ UNCHANGED <<modelVars, guiVars, sendQ, recvQ>>
      <3>1. QueuesTypeOK' /\ ModelTypeOK'
        BY <2>2, ModelFrame DEF ViewTypeOK, QueuesTypeOK
      <3>2. UNCHANGED <<viewVars, put, registering, owed, leaving, untold>>
        BY <1>3, <2>2 DEF DoStuffThread, modelVars
      <3>3. QED
        BY <2>2, <3>1, <3>2 DEF ViewTypeOK, viewVars, BetweenMessages
    <2>3. QED
      BY <1>3, <2>1, <2>2 DEF DoStuffThread
  <1>4. ASSUME Tick
        PROVE  ViewTypeOK'
    <2>1. QueuesTypeOK' /\ ModelTypeOK'
      BY <1>4, ModelFrame DEF Tick, ViewTypeOK, QueuesTypeOK
    <2>2. QED
      BY <1>4, <2>1 DEF Tick, ViewTypeOK, modelVars, BetweenMessages
  <1>5. ASSUME Look
        PROVE  ViewTypeOK'
    <2>1. ModelTypeOK'
      <3>1. GuiTypeOK'
        BY <1>5 DEF Look, ViewTypeOK, ModelTypeOK, GuiTypeOK, guiVars
      <3>2. dirty' \in BOOLEAN
        BY <1>5 DEF Look
      <3>3. UNCHANGED <<fu, config, key, numFu, registering, regDesc, owed, leaving,
                        untold>>
        BY <1>5 DEF Look
      <3>4. QED
        BY <3>1, <3>2, <3>3 DEF ViewTypeOK, ModelTypeOK
    <2>2. QueuesTypeOK'
      BY <1>5 DEF Look, ViewTypeOK, QueuesTypeOK
    <2>3. viewPc' \in {"idle", "changed"}
      BY <1>5 DEF Look
    <2>4. UNCHANGED <<shown, shownNum, rows, thread, put, registering, owed,
                      leaving, untold>>
      BY <1>5 DEF Look
    <2>5. QED
      BY <2>1, <2>2, <2>3, <2>4 DEF ViewTypeOK, BetweenMessages
  <1>6. ASSUME ShowNum
        PROVE  ViewTypeOK'
    <2>1. QueuesTypeOK' /\ ModelTypeOK'
      BY <1>6, ModelFrame DEF ShowNum, ViewTypeOK, QueuesTypeOK
    <2>2. shownNum' \in Int
      BY <1>6, ModelParts DEF ShowNum, ViewTypeOK
    <2>3. QED
      BY <1>6, <2>1, <2>2 DEF ShowNum, ViewTypeOK, modelVars, BetweenMessages
  <1>7. ASSUME BeginList
        PROVE  ViewTypeOK'
    <2>1. QueuesTypeOK' /\ ModelTypeOK'
      BY <1>7, ModelFrame DEF BeginList, ViewTypeOK, QueuesTypeOK
    <2>2. rows' \in Rows
      BY <1>7, ModelParts DEF BeginList, ViewTypeOK, Rows
    <2>3. QED
      BY <1>7, <2>1, <2>2 DEF BeginList, ViewTypeOK, modelVars, BetweenMessages
  <1>8. ASSUME EndList
        PROVE  ViewTypeOK'
    <2>1. QueuesTypeOK' /\ ModelTypeOK'
      BY <1>8, ModelFrame DEF EndList, ViewTypeOK, QueuesTypeOK
    <2>2. QED
      BY <1>8, <2>1 DEF EndList, ViewTypeOK, modelVars, BetweenMessages
  <1>9. ASSUME ListFails
        PROVE  ViewTypeOK'
    <2>1. QueuesTypeOK' /\ ModelTypeOK'
      BY <1>9, ModelFrame DEF ListFails, ViewTypeOK, QueuesTypeOK
    <2>2. QED
      BY <1>9, <2>1 DEF ListFails, ViewTypeOK, modelVars, BetweenMessages
  <1>10. ASSUME UNCHANGED ccmVars
         PROVE  ViewTypeOK'
    <2>1. QueuesTypeOK' /\ ModelTypeOK'
      BY <1>10, ModelFrame DEF ccmVars, ViewTypeOK, QueuesTypeOK
    <2>2. QED
      BY <1>10, <2>1 DEF ccmVars, viewVars, ViewTypeOK, modelVars, BetweenMessages
  <1>11. QED
    BY <1>1, <1>2, <1>3, <1>4, <1>5, <1>6, <1>7, <1>8, <1>9, <1>10
       DEF ViewNext, ShowNumFu

\* Every variable of the CCM's model and of its window keeps its type; in
\* particular no doStuff starts while one is half way (ccmView.py:88).
THEOREM ViewTypesHold == ViewSpec => []ViewTypeOK
  BY ViewInitType, ViewTypeStep, PTL DEF ViewSpec

-----------------------------------------------------------------------------
(***************************************************************************)
(* No gone unit is listed.  While the list is read, it is the rows it is   *)
(* read from that must not hold a unit that is gone without a mark.        *)
(***************************************************************************)
ListInv ==
    ~Marked => /\ viewPc \in {"idle", "started"} => Listed(shown) \subseteq Known
               /\ viewPc = "listing" => Listed(rows) \subseteq Known

LEMMA ListInit == ViewInit => ListInv
  BY DEF ViewInit, ListInv, Listed

LEMMA ListStep == ViewTypeOK /\ ListInv /\ [ViewNext]_ccmVars => ListInv'
  <1> SUFFICES ASSUME ViewTypeOK, ListInv, [ViewNext]_ccmVars PROVE ListInv'
    OBVIOUS
  <1>1. ASSUME UNCHANGED <<modelVars, viewVars>>
        PROVE  ListInv'
    BY <1>1 DEF modelVars, viewVars, ListInv, Listed, Known, Marked
  <1>2. ASSUME DoStuffThread
        PROVE  ListInv'
    <2>1. CASE DoStuff
      <3>1. Known \subseteq Known' \/ Marked'
        BY <2>1, DoStuffEffect DEF ViewTypeOK
      <3>2. Marked => Marked'
        BY <2>1, DoStuffEffect DEF ViewTypeOK
      <3>3. UNCHANGED <<viewPc, shown, rows>>
        BY <1>2 DEF DoStuffThread, viewVars
      <3>4. QED
        BY <3>1, <3>2, <3>3 DEF ListInv, Listed
    <2>2. CASE UNCHANGED modelVars
      BY <1>1, <1>2, <2>2 DEF DoStuffThread
    <2>3. QED
      BY <1>2, <2>1, <2>2 DEF DoStuffThread
  <1>3. ASSUME Tick \/ ShowNum \/ ListFails
        PROVE  ListInv'
    <2>1. UNCHANGED <<fu, dirty, untold, shown, rows>>
      BY <1>3 DEF Tick, ShowNum, ListFails, modelVars
    <2>2. \/ viewPc = "idle" /\ viewPc' = "started"
          \/ viewPc' = "counted"
          \/ viewPc' = "dead"
      BY <1>3 DEF Tick, ShowNum, ListFails
    <2>3. QED
      BY <2>1, <2>2 DEF ListInv, Listed, Known, Marked
  <1>4. ASSUME Look
        PROVE  ListInv'
    <2>1. /\ viewPc = "started" /\ UNCHANGED <<fu, untold, shown>>
          /\ viewPc' = IF dirty THEN "changed" ELSE "idle"
      BY <1>4 DEF Look
    <2>2. QED
      BY <2>1 DEF ListInv, Listed, Known, Marked
  <1>5. ASSUME BeginList
        PROVE  ListInv'
    <2>1. rows' = fu /\ viewPc' = "listing" /\ UNCHANGED fu
      BY <1>5 DEF BeginList, modelVars
    <2>2. QED
      BY <2>1 DEF ListInv, Listed, Known, Marked
  <1>6. ASSUME EndList
        PROVE  ListInv'
    <2>1. /\ viewPc = "listing" /\ viewPc' = "idle"
          /\ \A p \in Fds : shown'[p] \in {rows[p], fu[p]}
          /\ UNCHANGED <<fu, dirty, untold>>
      BY <1>6 DEF EndList, modelVars
    <2>2. ~Marked => Listed(rows) \subseteq Known
      BY <2>1 DEF ListInv
    <2>3. ASSUME ~Marked, NEW p \in Fds, shown'[p] # NoDesc
          PROVE  p \in Known
      BY <2>1, <2>2, <2>3 DEF Listed, Known
    <2>4. QED
      BY <2>1, <2>3 DEF ListInv, Listed, Known, Marked
  <1>7. QED
    BY <1>1, <1>2, <1>3, <1>4, <1>5, <1>6
       DEF ViewNext, ShowNumFu, ServerPut, ServerTake, ccmVars

\* Between two ticks, with no change to be noted, every unit on the list is
\* one the model has (ccmView.py:97-101 after ccmModel.py:189-192).
THEOREM NoGoneUnits == ViewSpec => []NoGoneUnitListed
  <1>1. ViewTypeOK /\ ListInv => NoGoneUnitListed
    BY DEF ListInv, NoGoneUnitListed, Marked
  <1>2. QED
    BY <1>1, ViewInitType, ViewTypeStep, ListInit, ListStep, PTL DEF ViewSpec

-----------------------------------------------------------------------------
LEMMA ViewOneSBStep ==
    ViewTypeOK /\ OneSBOnFirstDefaults /\ [ViewNext]_ccmVars => OneSBOnFirstDefaults'
  <1> SUFFICES ASSUME ViewTypeOK, OneSBOnFirstDefaults, [ViewNext]_ccmVars
               PROVE  OneSBOnFirstDefaults'
    OBVIOUS
  <1>1. CASE DoStuff
    BY <1>1, DoStuffOneSB DEF ViewTypeOK
  <1>2. CASE UNCHANGED <<fu, key>>
    BY <1>2, RegistryOneSB
  <1>3. DoStuff \/ UNCHANGED <<fu, key>>
    BY DEF ViewNext, ServerPut, ServerTake, DoStuffThread, ShowNumFu, Tick, Look,
           ShowNum, BeginList, EndList, ListFails, ccmVars, modelVars
  <1>4. QED
    BY <1>1, <1>2, <1>3

\* Whatever is registered and leaves in whatever order, at most one Session
\* Builder works with the first one's defaults (ccmModel.py:137-144).
THEOREM OneSBDefaults == ViewSpec => []OneSBOnFirstDefaults
  <1>1. ViewInit => OneSBOnFirstDefaults
    BY DEF ViewInit, ModelInit, OneSBOnFirstDefaults, Known
  <1>2. QED
    BY <1>1, ViewInitType, ViewTypeStep, ViewOneSBStep, PTL DEF ViewSpec
=============================================================================
