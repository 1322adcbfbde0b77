---------------------------- MODULE BusMessages ----------------------------
(***************************************************************************)
(* The vocabulary of the control bus, shared by every module about it: the *)
(* message types a peer (a functional unit, "fu") and the CCM exchange     *)
(* (utils/msgTypes.py), the configuration maps they carry, and the two     *)
(* thread-safe queues between the server thread (utils/controlServer.py)   *)
(* and the CCM's model (ccmModel.py).                                      *)
(*                                                                         *)
(* A message is abstracted to its type and a body: a description, a map    *)
(* from attributes to values, a set of attribute names, a peer number, or  *)
(* nothing.  Framing on the byte stream is not modelled here.              *)
(***************************************************************************)
EXTENDS Naturals, Sequences

CONSTANTS
    Fds,        \* file descriptors: a peer is named after its socket's fd
    Conns,      \* identities of TCP connections, each used at most once
    Descs,      \* descriptions peers register with ("LTE Session Builder ...")
    Attrs,      \* configuration attributes
    Vals,       \* their values
    NoPeer,     \* "no peer": the '' of ('', DROP_SERVER, '')
    NoConn,     \* the fd is not a key of ControlServer.peers
    NoDesc,     \* the fd is not a key of Model.fu
    NoCfg,      \* the fd is not a key of Model.config
    NoVal,      \* the attribute is not in the map
    NoBody      \* the empty message text

ASSUME SentinelsDistinct ==
    /\ NoPeer \notin Fds
    /\ NoConn \notin Conns
    /\ NoDesc \notin Descs
    /\ NoVal  \notin Vals
    /\ NoCfg  \notin [Attrs -> Vals \cup {NoVal}]

VARIABLES
    sendQ,      \* CCM -> server thread, entries (peer, msgType, msg)
    recvQ       \* server thread -> CCM, entries (peer, msgType, msg)

(***************************************************************************)
(* Configuration maps: Model.config[peer], Config._config and the text     *)
(* "a=v;b=w;" of a CONFIG_SET.  An attribute absent from the map is NoVal. *)
(***************************************************************************)
Cfg == [Attrs -> Vals \cup {NoVal}]

EmptyCfg == [a \in Attrs |-> NoVal]

\* Assigning the attributes of a CONFIG_SET text one by one.
Merge(cfg, upd) ==
    [a \in Attrs |-> IF upd[a] = NoVal THEN cfg[a] ELSE upd[a]]

\* The text naming one attribute.
OneAttr(a, v) == [EmptyCfg EXCEPT ![a] = v]

\* The attributes of cfg a CONFIG_REQONLY asks for.
Only(cfg, names) == [a \in Attrs |-> IF a \in names THEN cfg[a] ELSE NoVal]

(***************************************************************************)
(* What a peer may send, what it may be sent, and the server commands that *)
(* share the queue with it.                                                *)
(***************************************************************************)
PeerMsg ==
         [type : {"REGISTER_REQ"},    body : Descs]
    \cup [type : {"CONFIG_SET"},      body : Cfg]
    \cup [type : {"CONFIG_REQONLY"},  body : SUBSET Attrs]
    \cup [type : {"CONFIG_REQ", "CONFIG_ACK", "PROGRESS",
                  "SHUTDOWN_REQ", "SHUTDOWN_ACK"}, body : {NoBody}]

CcmMsg ==
         [type : {"CONNECT_ACK", "REGISTER_ACK"}, body : Fds]
    \cup [type : {"CONFIG_SET"},      body : Cfg]
    \cup [type : {"CONFIG_ACK", "SHUTDOWN_REQ", "SHUTDOWN_ACK"},
          body : {NoBody}]

Msg(type, body) == [type |-> type, body |-> body]

\* An entry of either queue.
Entry(p, m) == [peer |-> p, msg |-> m]

DropPeer   == Msg("DROP_PEER", NoBody)
DropServer == Msg("DROP_SERVER", NoBody)

Put(q, p, type, body) == Append(q, Entry(p, Msg(type, body)))

RecvEntry == [peer : Fds, msg : PeerMsg]
SendEntry ==      [peer : Fds, msg : CcmMsg \cup {DropPeer}]
             \cup {Entry(NoPeer, DropServer)}

QueuesTypeOK ==
    /\ recvQ \in Seq(RecvEntry)
    /\ sendQ \in Seq(SendEntry)
=============================================================================
