# A formal model of streamed-event-handler

TLA+ modules, TLC configurations and TLAPS proofs about the programs in this
repository: a set of processes that take LTE event streams from a network
manager, route them by node, rebuild the signalling sessions they describe and
write them out, all of it configured and supervised over a *control bus*.

Line numbers refer to the sources of the repository, under `src/`.

- [1. The system](#1-the-system)
- [2. What is modelled, and how it maps to the code](#2-what-is-modelled)
- [3. The runs](#3-the-runs)
- [4. Bounds](#4-bounds)
- [5. Fairness](#5-fairness)
- [6. What is proved](#6-what-is-proved)
- [7. What was met while modelling](#7-what-was-met-while-modelling)
- [8. What is not modelled, and the plan](#8-what-is-not-modelled-and-the-plan)

## 1. The system

Every program but one is a *functional unit* ("fu"): it reads from a source,
processes and writes to a destination. The remaining one, the *CCM* (command,
control, monitor), listens on a TCP port and announces it by UDP broadcast. A
unit connects, registers with a description of itself, asks for its
configuration, runs, reports progress, and stops when it is told to.

    ccmGui.Controller ── ccmView.View            unit: peerTemplate.Template
          │  (GUI thread; doStuff every 500 ms)     (main loop of the program)
      ccmModel.Model                             utils.config.Config
       sendQ │   ▲ recvQ                          outgoing │   ▲ incoming
             ▼   │                                         ▼   │
      utils.controlServer ◄──── TCP, 8-byte ────► utils.controlClient
      (one thread, selectors)   header + text     (one thread, select)

    events ──► LTE.streamTerminator ── TCP ──► LTE.SessionBuilder ─► files
                                               (sessionHandler, session, ebs)
                                                        ▲ filtered schema
    10dash document, session table ──► admin tools ─────┘

### Inventory

| Component | State | Operations | Interacts by | Hard behaviour | What makes it correct |
|---|---|---|---|---|---|
| Control bus server, `utils/controlServer.py` | `peers` (fd → connection, pending input and output), `keepalive` | accept, read/write, hand over, drain, close, end | `sendQ`, `recvQ`, sockets | fds are reused as names; the queues outlive the connections they speak of; partial sends; peers that vanish | the CCM hears of every closed peer, after everything it said; no message to another program; the thread ends when told |
| CCM model, `ccmModel.py` | `fu`, `config`, `key`, `numFu`, change counters | `doStuff` (one message), `updateConfig`, `disconnect`, `shutdown` | queues; called from the GUI thread and from a thread per tick | registers in several statements while the view looks on; iterates what another thread resizes | registered = connected and registered; configuration exactly for units; defaults not shared |
| CCM window, `ccmGui.py`, `ccmView.py` | list of units shown, selection | refresh every 500 ms, edit, disconnect, close | calls the model, starts `doStuff` threads | a tick that fails is the last one | what is shown becomes what is |
| Messages, `utils/msgTypes.py` | – | build, take apart | – | three digits of length | what is built is taken apart |
| Control bus client, `utils/controlClient.py` | socket, `outgoing`, `incoming` | connect, run, send, get_data | queues, sockets | `outgoing` is a stack, shared by all connections and by two threads without a lock; a header in two reads | messages arrive whole, in order; what an old connection left does not harm the new one |
| Unit template, `utils/peerTemplate.py` | `connected`, `peer`, `keepalive`, configuration | start, connect, register, configure, wait, check, progress, clean up | client's queues | waits that take the wrong answer; reconnection | one registration at a time; every configuration applied, in order; it starts, comes back, and stops when told |
| Configuration, `utils/config.py` | attribute map, validity | load, update, as string | – | fails half way | what is applied is what was sent |
| Stream terminator, `LTE/streamTerminator.py`, `st_LTE.py` | feeds with input buffers, session builders with output buffers, routing table | accept feed, read, cut records, route, send, replace a builder's connection | two threads share `sessionBuilders` | partial reads and sends, builders that come and go, or stop reading a blocking socket; an entry replaced in the middle of a send | every record whole, in order, on the connection it was routed to; feeds cannot stop it |
| Session builder, `LTE/SessionBuilder.py`, `sb_LTE.py` | feeds with input buffers, parser, interesting events | accept, read, cut records, parse, hand to the session handler, change schema | thread and main loop share parser and flags | length errors, broken records, peers that reset, schema change while running | an event all schemas have is never missed; the ways the thread can end are known |
| Session handler, `LTE/sessionHandler.py`, `session.py`, `ebs.py` | open sessions by key, time of the last write | file an event, close, time out, write | called with every event | midnight, late events, flags that change and files that fail in the middle of a write | every event is in one session; a session tells the truth; written when idle, once |
| Event parsing, `LTE/parseCTRS.py`, `schema.py`, `interestingEvents.py` | events and fields, filters | decode a record, a file; filter a schema | called by the builder and the admin tools | records of older and later releases, lengths in records, repeated names | each value asked for is shown as it was sent |
| Admin tools, `admin/parse10dash.py`, `parserASRDesc.py`, `sessionDesc.py`, `bobsburgers.py` | files: schema, description, filtered schema | make a schema from a document; a description from a table; filter | files | nested and repeated structures; filtering again | a schema has what its document says; a filtered one what its description asks for |
| ASN.1, `utils/asn1.py` | encoder: stack of open items; decoder: stack, the tag peeked at | start, write, enter, leave; peek, read, enter, leave, eof | – | a tag once peeked at; forms that change with the size | what is read is what was written |
| Example units and older controllers, `fu.py`, `ccm.py`, `ccm_LTE.py` | as above | as above | control bus | they keep the protocol less well than the template | – |
| Test script, bit strings (`admin/bitstring.py`), S3 data | – | – | – | – | – |

All but the last row are modelled, in whole or in part; section 8 says what is
left out and why.

### The behaviours that are hard here

A peer is **named after its socket's file descriptor** (`controlServer.py:95`),
and descriptors are reused. Names are held in `sendQ`, in `recvQ`, in `fu`, in
`config`, and in the window's list; all of these outlive the connection. What
keeps the program together is that the server puts a `SHUTDOWN_ACK` in the
peer's name on `recvQ` when it closes the socket (`:120`), behind all the peer
said, and that the CCM takes `recvQ` in order.

**Four threads** share the CCM's state: the server's, the GUI's, and those that
run `doStuff`, which the view starts at every tick. In the units, the main
thread reconfigures what the working thread iterates over. None of them takes a
lock that another one takes.

**Sockets** take part of what is written and give part of what was sent; peers
close, crash and lose their link between any two steps.

**Waits** (`_wait_for_response`) take the first message that comes, whether or
not it is the answer, and give up after five seconds.

**Times** are times of day, and events come late.

**Lengths** come from the bytes themselves: of records, of fields, of ASN.1
items. What is behind a wrong one is not what it seems.

The complete list, each item at its line, is `hazards` in `PROJECT.json`.

## 2. What is modelled

| Module | Models | Extends |
|---|---|---|
| `BusMessages` | `utils/msgTypes.py`, the queues, configuration maps | – |
| `ControlServer` | the server thread and the network beneath it | `BusMessages` |
| `CcmModel` | `doStuff`, the requests from the GUI, `shutdown` | `BusMessages` |
| `ControlBus` | the composition with arbitrary peers; its properties | `ControlServer`, `CcmModel` |
| `CcmView` | the window's refresh beside the `doStuff` thread it starts | `CcmModel` |
| `Fifo` | what a connection promises: abstract specification | – |
| `Framing` | headers and texts on a byte stream | – |
| `ServerFraming` | the server taking messages off the stream; implements `Fifo` | `Framing` |
| `ClientFraming` | a unit taking messages off the stream; implements `Fifo`, up to a point | `Framing` |
| `PeerTemplate` | a unit's main thread and its clients' threads, beside any controller | – |
| `StreamTerminator` | feeds in, records routed, session builders out | – |
| `InterestingEvents`, `Session` | the lists of events; one session | – ; `InterestingEvents` |
| `SessionBuilder` | the builder's thread, the session handler, reconfiguration | `Session` |
| `Schema` | events, fields and filters | – |
| `ParseCtrs` | a record, and a file of them, to values | `Schema` |
| `Parse10Dash` | a document to a schema | `Schema` |
| `SessionDesc` | a table to a description to a list of fields | `ParseCtrs`, `InterestingEvents` |
| `SchemaTools` | the tools one after the other, and the parser they prepare | `Parse10Dash`, `SessionDesc` |
| `Asn1` | the encoder, and the decoder of what it wrote | – |
| `PeerTemplate_proofs`, `StreamTerminator_proofs`, `SessionBuilder_proofs` | theorems | the module they are about, `TLAPS` |
| `ControlBus_proofs` | theorems about the CCM, in the bus and beside its window | `ControlBus`, `CcmView`, `TLAPS` |
| `Framing_proofs` | theorems about both readers | `ServerFraming`, `ClientFraming`, `TLAPS` |
| `Asn1_proofs`, `SchemaTools_proofs` | theorems | the module they are about, `Recursion` |
| `Recursion` | what proofs about recursive functions need | `TLAPS` |
| `MC...` | instances for TLC | the module they are about |

### ControlServer

`_run` is a loop; a pass is `select` and its handlers, then `_do_stuff`. The
variable `serverPc` is the phase of the pass.

| Code | Model |
|---|---|
| `peers[fd]`, `pending_in`, `pending_out` | `peers` (fd → connection), `pendingIn`, `pendingOut`, in messages instead of bytes |
| `_on_accept` | `OnAccept`: a free fd, chosen by the operating system, and the `CONNECT_ACK`; or, for a connection that has been reset, `getpeername` raises and the thread is `"dead"` |
| `_on_IO`, write and read | `OnIO`: any part of the output leaves, any part of the input enters; nothing is said about how bytes fall on calls |
| `_on_IO`, `recv` gives `b''`, or `ConnectionResetError` | `OnHangup` |
| `_on_IO`, `BrokenPipeError`, or a timeout of a connection whose link has gone | `OnUncaught`: the thread is `"dead"` |
| `_do_stuff`, first loop | `StartDoStuff`, then `TakeMsg` for each peer with a complete message, **one** each |
| `_do_stuff`, second loop | `DrainDropPeer`, `DrainDropServer`/`CloseNext`/`CloseEnd`, `DrainMessage`; a `KeyError` at `:180` makes the thread `"dead"` |
| `while self.keepalive` | `EndPass` |

A step is what another thread can tell apart: each `Queue.put` and each
`Queue.get` is in a step of its own, together at most with what only that thread
reads or writes. (`_close_connection` changes `peers`, which no other thread
reads, and puts one message: one step.)

The network: `up` and `down` hold what is written and not read. A connection
ends at the peer's side in good order (`"closed"`) or, when the peer leaves
input unread, with a reset (`"reset"`), which may lose what the server has not
read; or its link goes (`"lost"`), of which the server hears when what it has
written is never acknowledged, and not at all if it writes nothing. These and
`accepted` are outside the repository, and modelled from how `socket` is used in
it.

### CcmModel

Both threads of the CCM are in the module, and a branch of `doStuff`, as well as
a request of the GUI, is as many actions as the other thread can tell apart:

| Code | Model |
|---|---|
| `REGISTER_REQ` (`:127`–`:147`) | `RegisterBegin`, which acknowledges and announces a change; then `RegisterEnd`, which makes it |
| `CONFIG_SET`, `CONFIG_REQ`, `CONFIG_REQONLY` | `ConfigSet`, `ConfigReq`, `ConfigReqOnly`: what is stored or looked up; then `PutOwed`, the answer |
| `SHUTDOWN_REQ` | `ShutdownReq`, the first `put`; then `PutOwed`, the second |
| `SHUTDOWN_ACK` | `ShutdownAck`, the `put` (`:187`); `RemoveUnit`, the two `del`s; `AnnounceRemoval`, the counters (`:191`–`:192`) |
| `CONFIG_ACK`, `PROGRESS` | `Note` |
| `updateConfig` | `UpdateConfig`, which looks the unit up; `TellUnit`, the `put`; `NoteUpdate`, what is stored |
| `disconnect` | `Disconnect`, which looks the unit up; `AskUnit`, the `put` |
| `shutdown` | `BeginShutdown`; for each unit `AskNext`, then `AskUnit`; `QueueDropServer`; `ClearKeepalive` (in `ControlBus`, because it writes the server's variable) |

`owed` is what a `doStuff` has still to put, `leaving` the unit whose `DROP_PEER`
is on `sendQ` and which is still registered, `untold` one that is deleted and not
announced; `guiStep` is what the GUI thread does next for the unit `updating`.
`BetweenMessages` says that a `doStuff` is over when the next tick starts one. A
message about a configuration that is not there ends that `doStuff` with a
`KeyError`; its thread is gone, and so is the message, but nothing else.

So a request may be put behind the `DROP_PEER` of a unit that was looked up in
time, a `CONFIG_REQ` may be answered with the map as it was before `updateConfig`
and behind what that has sent, and the assignment of `NoteUpdate` may find its unit
deleted. The two `del`s are one step: what the GUI thread does with `fu` between
them it does as if behind both, and with `config` as if in front of both.

`late` is a `doStuff` that was started by the last tick and has not read `recvQ`
when the window is closed; `FuResized` is the `RuntimeError` of a loop over a
dictionary that has changed its size.

`key` is `"none"` where the code stores the peer's number, which is the name of
no section of `ccm.ini`. `Defaults` is the content of `ccm.ini` that `loadIni`
has read; `Kind` the prefix test on descriptions. `OneSBOnFirstDefaults` is
stated here, because it is about the registry alone; it is checked in the
instance of `CcmView`, where any messages come, and proved for the bus.

### ControlBus

A peer is only what its connection shows: it connects, sends messages of the
protocol of its choice, reads, and goes at any moment. So what holds here holds
for every unit in the repository and for every one that will be written from
the template. `DescOf` says that a program registers under one description.

### CcmView

`ccmView.showNumFu` runs on the GUI thread. It starts a `doStuff` thread, asks
the model whether there is a change, and if so shows the number and rebuilds the
list from `self.fuDict`, which is `Model.fu` itself; then Tk calls it again.

| Code | Model |
|---|---|
| `threading.Thread(target=self.model.doStuff)` | `Tick`; `thread` is that thread |
| `self.model.changed()` | `Look`, which forgets the change |
| `self.numFu.config(text = ...)` | `ShowNum` |
| the loop over `self.fuDict.items()` | `BeginList`, then `EndList` or `ListFails` |
| `self.frame.after(500, ...)` | `viewPc` is `"idle"` again |

`DoStuffThread` may come between any two of them. A loop over a dictionary whose
size has changed raises `RuntimeError`: `ListFails`; the view is `"dead"`
because the exception skips `after`. `EndList` compares the sizes at both ends
of the loop, and lets each row be read before or after what happened to it; an
insertion and a removal in one loop cannot both happen, as one `doStuff` handles
one message. `Tick` is guarded with `thread = "none"`: a `doStuff` of a few steps
and no wait is taken to be done after 500 ms.

The server is reduced to what it does to the queues: it puts any message of any
peer, and takes what the CCM says.

### Framing, ServerFraming, ClientFraming

The other modules take messages as units. These say why they may. A byte is
its position in the stream; a message is the length of its text and where it
starts; a text passed on is an interval of positions, and the right one if it is
the interval that was written (`TextOf`). No contents are needed: both readers
find their way by counting.

`HeaderLen` is `buildMsg`'s `"%03d"`: eight bytes for up to 999, nine from 1000.
In the instances a header has three bytes and `MaxLen` is the longest length
"with three digits".

| Code | Model |
|---|---|
| server `_on_IO`: `pending_in += data` | `OnIO(r)`: any part of what was written; at least a byte |
| server `_do_stuff`: header there, text there, `recvQ.put` | `DoStuff` |
| the first eight bytes are no header | `LoseStep`: from here on nothing is said |
| client `connection.recv(self.pendingLen)` | `Recv(d)` |
| client `get_data`, its three branches | `GetSome`, `GetHeader`, `GetText`; `GetNoHeader` when it takes something else for a header |

A header of nine bytes is still read right, as its last separator is not looked
at: so `DoStuff`, and `GetText` at the other end, take the text one byte too
early, and the next step finds a byte that belongs to nothing.

`get_data` shrinks `pendingLen` by what has come, and compares it with *all* it
has: right when an item comes in one or two parts, wrong in three. `cuts` counts
the short reads of an item, `MaxCuts` bounds them.

`Fifo` is what both ends ought to be for their users: put in, come out, in order.
The mapping (`Passed`) turns the interval number `i` into the message number `i`
if it is that message's text, and into no message otherwise, which `Fifo` never
delivers. At both ends an interval behind a header that is too long is excused
(`BehindLong`), and at the client's besides steps once something has come in
three parts (`thirds`).

### PeerTemplate

The other side of the bus: a unit, from its start to its end, with all the
connections it makes. Each attempt to connect is a new `ControlClient` with a
thread of its own; `cC` is the one `main` uses now.

| Code | Model |
|---|---|
| `_start`, `ControlClient()` | `Start`, `NewClient` |
| `_wait_for_response`, with the answer, with another message, after five seconds | `Answered`: `AckConnect`, `AckRegister`, `SetConfigDone`, `AckConfig`, or `GiveUp`; `Timeout` |
| `_check_CCM` | `CheckReconnect`, or `CheckQueue`, then `TakeShutdown`/`AckShutdown`, `TakeConfig`, `TakeDrop`, `TakeOther`, and `CheckDone` |
| the end of `_start`; `_sendProgress`; the end of `main`'s loop | `Activate`; `Progress`; `Finish` |
| `ControlClient.send`, on `main`'s thread | `Send` appends the message; `SendModify` then tells the selector, which depends on how far the thread is, and may raise (`"dead"`). `inSend` is between the two |
| `ControlClient.run` | `ThreadConnect`, `ThreadRead`, `ThreadEof`, `ThreadEnds`, `ThreadBreaks`, `ThreadWrite`; `ThreadFindsNone` sees that `outgoing` is empty, and `ThreadReadOnly` tells the selector; `empty` is between the two |
| `outgoing`, a class attribute, taken with `pop()` | `outgoing`: one for all connections, the newest first |

The CCM is what its connections show, and any of the three controllers of the
repository: `older` is one that leaves a `CONFIG_SET` unanswered (`ccm.py`) or
answers it in its own way (`ccm_LTE.py`). It accepts (`CcmAccept`), handles what
comes (`CcmReceive`), configures and asks to shut down when it likes, drops a
connection when it reads its end, crashes and comes back. A timeout while an
answer is on its way is counted by `lates`. `cleanup` of a unit reports once
more, is silent, or raises (`fu.py:147`).

Nothing keeps `send` from coming between `ThreadFindsNone` and `ThreadReadOnly`:
its message is on `outgoing`, and the selector no longer asks for the socket to be
written. `Overlooked` is such a message; it goes out behind the next one.

### StreamTerminator

| Code | Model |
|---|---|
| `_on_accept` | `OnAccept`, which raises for a feed that is gone (`getpeername`) |
| `_on_IO` | `OnRead`: any part of what has come; `OnEnd`: closed or reset |
| `_do_stuff`, the loop over `feedsChanged` and, within, over complete records | `DoStuff`, then `Route`: `RouteMore`, `RouteRecord`, `RouteBad`, or `RouteLost` (a `KeyError`) |
| the loop over `sessionBuilders` for a record | `Deliver(n)` for each, `DeliverDone` |
| the loop that sends | `RouteDone`; `Send`: for each, `SendTest(n)`, and if there is something, `SendCall`, `SendReturns` or `SendRaises`, `SendStore`; `SendDone` |
| a dictionary that changes its size in a loop | `LoopRaises` |
| `connectSB` on the main thread, until it connects; the connection | `Renode`, `Rehost` or `AddSB`; `Connect` |
| `shutdown` | `Shutdown` |

The code looks `sessionBuilders[k]` up five times for a send: for the test, for
the socket, for the bytes, for what to cut the rest off, and for where to put it.
`Send` takes a step for each, but one for the socket and the bytes: `connectSB`
closes the socket before it replaces the entry, so a send that finds another entry
for its second argument has a socket that raises. `out` is a send in progress.

The sockets are blocking ones (`:91`). `SBStalls` is a session builder that stops
reading, for good, with its socket full; a send to it waits (`Blocked`).

A record is two units of bytes, so that a read or a send can cut it. `routed`
notes, for each socket to a session builder, which records were put on the
buffer that goes with it, and `stream` what has been sent. `stray` notes what a
send has stored in an entry that is no longer that of its socket.

### SessionBuilder, Session, InterestingEvents

`InterestingEvents` has the module's lists as sets of numbers; its assumption
`ListsAgree` is what the self test at the end of the file looks for, and a bit
more. `Session` is `addEvt` of both kinds of session, as functions on records.

| Code | Model |
|---|---|
| `_on_accept`, `_on_IO` | `OnAccept`, `OnRead`, `OnEnd` |
| `_do_stuff` | `DoStuff`, `Route`, `RouteDone` |
| parse, `handleEvent` | `HandleEvent`; for a broken record `HandleBroken` |
| `writeSessions` | `OpenFiles`, `WriteSession(k)` for each open session, `CloseFiles`; `WriteDone` is its end; `WriteFails` when a file cannot be opened or written |
| `setupProcessing` on the main thread | `Configure`, then `SetSchema`, `AddInterestingEvents`, `SetWrite`, one after the other, the last flag by flag |
| `shutdown` | `Shutdown` |

Records come whole: how they are cut off the stream is the same code as in the
terminator. Some are broken (`BrokenRecords`): `"garbled"` ones make the parser
raise (`parseCTRS.py:171`), `"short"` ones are parsed and end within the time
(`sessionHandler.py:109`, `:215`), when their session has been made already. A peer
may reset its connection before it is accepted (`PeerResets`), and the disk may
fail (`DiskFails`, while a write is on, since nothing else needs it).

Time is counted in units; an event carries the time of day (`t`),
and `real` is its true time, which only the properties see. The file of a
schema that cannot be loaded has no events. `written` has what writes have taken;
a session that no flag sends to any file is among it, as the code forgets it like
the others.

### Schema, ParseCtrs, Parse10Dash, SessionDesc, SchemaTools

Pure functions, apart from `SchemaTools`, which is the order they may be called
in: `bobsburgers.py` makes a schema of a document (`MakeSchema`), a description
of a table (`MakeIni`), filters the one by the other (`MakeFiltered`), also what
is filtered already; a unit loads a schema (`Load`) and is given a record
(`Receive`) or a file (`ReadFile`): records of every event, one of another type in
front, one of an event the schema does not have, and behind them nothing, half a
header, or a length that cannot be.

What the functions are checked against does not come from them. The instance's
documents come with the *layout* they mean, that is, the list of parameters a
node sends; the nodes send *samples*, bytes together with what a reader should
be shown. `FieldsAsSaid` compares the two: a schema's fields are the layout's
parameters, and each value of a record is what its bytes, read alone as the type
of its field, are. `DecodedRight` then follows a value all the way, from the document and
the description to the dictionary `parseRaw` returns.

A field has two names: `fieldName`, which may come back in an event, and
`dbName`, which `_dedup` makes unique. A schema's text form is left out, so the
saved file *is* the schema.

### Asn1

Here bytes are bytes. `Write`, `Enter`, `Leave` are the encoder; then `Start`
hands the decoder what was written, or all but the last bytes of it, and `Peek`,
`Read`, `EnterItem`, `LeaveItem` are called in any order. `made` and `place` are
not in the code: the items that were written, and where in them the decoder's
caller is. Nor is `calls`, which only bounds an instance.

| Code | Model |
|---|---|
| `_emit_tag`, `_emit_length` | `TagBytes`, `LengthBytes`; `Writable` is the assertion on lengths |
| the loops over digits, in both directions | `Digits(base, limit, n)`, `Number(base, s)` |
| `_encode_integer`, `_decode_integer` | `EncodeInteger`, `DecodeInteger`; the bits are inverted (`Invert`), then 1 is added |
| `_encode_object_identifier`, `_decode_object_identifier` | `EncodeObjectIdentifier`; `Found`, the loop's `result` and `value` after each byte |
| `_read_tag`, `_read_length`, `_read_bytes` | `ReadTag`, `LengthAt`, `ValueAt`, and where they raise: `TagReadable`, `ValueReadable` |
| an `Error` | `Raise`: the caller gives up |

## 3. The runs

| Run | Instance | States | Shows |
|---|---|---|---|
| `bus_reuse` | 1 fd, 2 connections, one after the other, three messages, any end; the window stays open | 4.4 M | `NoGhostUnit`, `RightUnit`: fd reuse at every moment of the server's pass and of the CCM's handling |
| `bus_live` | 1 fd, 2 connections, two messages, any end, fair; the window stays open | 0.2 M | `RegistrationAnswered`, `GhostsLeave` |
| `bus_requests` | 1 fd, 1 connection, fair, two of all messages, one GUI request, the window closed at any moment | 0.5 M | `ConfigForUnits`, `RequestsReachPeer`, `ServerStops` |
| `view` | 2 fds, 3 messages, fair | 0.1 M | `NoGoneUnitListed`, `OneSBOnFirstDefaults`, `GoneUnitsUnlisted`, `MessagesHandled` |
| `frame_server` | 4 messages, one kind too long, fair | 16 k | `ServerDeliversInOrder` (a refinement of `Fifo`), `ServerDeliversAll` |
| `frame_client` | 3 messages, one kind too long, up to three parts each, fair | 9 k | `ClientDeliversInOrder`, `ClientDeliversAll` |
| `peer` | 3 connections, any configuration, cleanup and controller; 1 crash, 1 late answer, 1 message unasked, two of them in all | 2.0 M | `CcmKnowsPeer`, `OneRegistration`, `NoSetMissed` |
| `peer_live` | the same, a unit with defaults and a silent cleanup, only a `SHUTDOWN_REQ` unasked, fair | 0.4 M | `StartSucceeds`, `ReturnsToBus`, `StopsWhenTold` |
| `terminator` | 1 feed of 2 records, 2 names, 3 sockets, 1 call of `connectSB`, builders that go or stop reading, fair | 1.2 M | `StreamsWhole`, `InFeedOrder`, `NothingLeftBehind`, `FeedsCannotKill`, `OutBufsDrain` |
| `builder` | 2 users, 3 records, one event's among them broken, 1 change of configuration, resets, a disk that fails, a bit more than a day | 3.7 M | `SessionsTellTrue`, `NothingLost`, `IdleAreWritten`, `DiesOnlySo`, `FilesOnce`, `SharedEventsKept` |
| `schema` | 110 documents, 4 tables, samples of each type | 0.2 M | `FieldsInPlace`, `FieldsAsSaid`, `LatestFilter`, `KeysReach`, `DecodedRight`, `FileInRecords` |
| `asn1` | 3 calls of `write` and `enter`, nested or in a row, up to 3 bytes missing | 0.2 M | `ReadsWritten`, `WholeItemsAreRead` |

**The bus.** `NoGhostUnit` is the central one: *when a socket is closed, a unit
registered under its fd, or a registration on its way, has a goodbye behind it, or
is being deleted for one.*
It would break if `_close_connection` told the controller before it closed, if
the goodbye overtook the peer's last message, or if any way of closing forgot it.

`RightUnit` is what makes fd reuse harmless: *when no goodbye is on its way or
being handled, what the CCM believes of an fd is true of its present owner.* Note
what it does **not** say: until then the CCM may send to the new owner what is
meant for the old one, or drop it (section 7). Neither says anything for a CCM
whose server thread has ended.

`ConfigForUnits` is what makes `self.config[fu]` in `getFuConfig` and
`updateConfig` safe for a unit that is in `fu`, and what `NoteUpdate` must not
break when the unit that was looked up has gone meanwhile: it is checked beside a
request, whose steps come anywhere among those of `doStuff`.

`OneSBOnFirstDefaults`: the section of defaults depends on who is registered at
that moment; two Session Builders must never both have the first one's port and
directory. A third one shares the *second* one's (section 7).

`RegistrationAnswered` and `RequestsReachPeer` say that no message is forgotten
in a buffer, queue or partial send. Their right-hand sides name the ways out:
one side closes the connection, the user stops the CCM, or the thread is dead.

`ServerStops`: from the moment the window is closed, whatever units are registered
then, `shutdown` goes through them, and the server thread drains what it was sent,
closes its peers and ends, though `keepalive` is cleared by both threads and at
any moment of the server's pass. It excepts a loop over `fu` that raises
(section 7).

The type invariant of `ControlBus` is proved, not run. It is also a statement
about the code: `TakeMsg` takes the head of a peer's input, and it is only typed if the
peers noted at the start of the loop still have a message when their turn comes.

**The view.** `NoGoneUnitListed` depends on the order in the removing branch of
`doStuff` (delete, then announce) *and* on the order in `showNumFu` (note the
change, then read). The registering branch has the other order (section 7).

**The stream.** `ServerDeliversInOrder` and `ClientDeliversInOrder` are about
every way bytes can fall on calls of `recv`. Both pass it up to the first text
that is too long for its header; the client's only until an item comes in three
parts, which no length of text can exclude.

**The unit.** `CcmKnowsPeer`: messages that an old connection left on
`outgoing` are sent on the new one, and the CCM would raise for a `CONFIG_REQ`
of a peer that has not registered. What saves it is that the stack gives the
newest message, the registration, first. A queue in order would break it (the
mutant). `OneRegistration`: a unit is not two to the CCM, unless an answer came
too late. `NoSetMissed`: from the first reconnection on, every `CONFIG_SET` is
applied, once and in order; the waits throw none away, unless an answer came too
late. The three liveness
properties are the three things a user asks of a unit: that it starts, that it
comes back, that it stops. The start may wait for a request that was overlooked
(section 7): until it is activated the unit sends nothing behind it. Once in its
loop it does, and `ReturnsToBus` and `StopsWhenTold` hold without that exception;
`ReturnsToBus` says when it is back for good: once the CCM stays up, and answers no
longer come too late. A unit that has never met a CCM does not know that it is lost.

**The terminator.** `StreamsWhole`: what a session builder's connection carries
is the records routed on it, whole and in order, and what is missing is in the
buffer that goes with *that* connection, also when `connectSB` replaces it at
any moment; but for one moment (section 7): between the two lookups of `:186` the
rest of an old connection's bytes is put in front of the new one's. The property
says that just these get there, just in front, and that the records behind them
are whole. `NothingLeftBehind`: the inner loop and `feedsChanged` leave no
complete record lying. `FeedsCannotKill` names all that can end the thread; no
feed that was accepted is among it, whatever lengths it sends. `OutBufsDrain`:
nothing waits for ever on a builder's buffer, however connections are replaced,
unless the thread has ended or waits for ever itself, in a blocking `send` to a
builder that has stopped reading.

**The builder.** `SessionsTellTrue` says in terms of a session's events, in
whatever order they came, what its flags must be. `NothingLost`: also after a
write that failed half way. `IdleAreWritten` compares the code's times of day
with true time: what is written has ended and been idle for longer than
`CloseAfter`, or been idle for longer than `SuspectTimeout`, and what is kept has
not, unless midnight lies between; so midnight and late events upset it in no
other way. `SharedEventsKept`: the change of schema in two steps loses no event
that both schemas have. `DiesOnlySo` names the six ways the thread can raise
(section 7). What it denies is what cannot be seen in a few lines: that an event
which is found interesting in the middle of a change of the schema meets a parser
without one, that a write misses a session, or that a connection, a buffer or a
flag is not there when it is looked for. It is about the step that ends the thread:
the main thread can change the write flags back afterwards, and the state no longer
shows why it died.

**The parser.** See section 2: layouts and samples say what must come out. The
two preconditions of `DecodedRight` are defects of the code (section 7): a field
that ends exactly where its record ends is not shown, and a message's length is
only known if the field that holds it is filtered too.

**ASN.1.** `ReadsWritten`, for any peeks and early leaves and for data cut
short; `WholeItemsAreRead`, that what is there is read, whatever is missing
behind it.

Every property of a run is shown to depend on the code by a *mutant* (`mutants`
in `PROJECT.json`): a definition changed as a slip in the code would change it,
for which TLC finds the property violated.

The type invariants (of `ControlBus`, `CcmView`, both ends of `Framing`,
`PeerTemplate`, `StreamTerminator`, `SessionBuilder`) are no properties of runs:
they are proved (section 6).

### Deadlock

`CHECK_DEADLOCK FALSE` everywhere: the systems may stop. The window is closed
and the server thread has ended, or it is dead, or all connections, records or
calls of the instance are used up.

## 4. Bounds

| Constant | Bounds | Why it is enough |
|---|---|---|
| `Fds` | descriptors | fds share nothing but the queues and the choice of defaults; reuse needs one fd, interference (`view`) two |
| `Conns` | connections, each used once | two: an earlier and a later owner. The third would be a later owner of the second |
| `MaxSend` | messages a connection sends | a registration and one other message, so that the other can come before or after it; the later owner of a descriptor sends one, and in `bus_live`, where it is the registration to be answered or the leftover before it, so does the earlier |
| `Ends` | the ways a connection ends | all, but for `bus_requests`, whose properties leave a peer that goes out |
| `MaxAdmin` | requests from the GUI | one request, of each kind and to each unit, at any moment; requests share nothing but the queue, which is in order |
| `MayClose` | whether the window may be closed | `FALSE` only where the properties say nothing of a CCM that is closing |
| `PeerTypes` | message types used in an instance | chosen per run: those that change the registry or close the connection; `bus_requests` has all of them |
| `Attrs`, `Vals` | configuration | one attribute, and a value: the properties ask whether a unit has a configuration, and whether a request arrives, not what is in them |
| `MaxMsgs` (`CcmView`) | messages put on `recvQ` | a unit comes, goes and comes again beside another one |
| `Said` | their types | those that change the registry; `CcmView` is about nothing else |
| `Hdr`, `MaxLen` | 3 and 9, 2 or 1 for 8 and 999 | only sums and comparisons of them matter; a header of three bytes can be cut in three |
| `Lens` | lengths of texts | empty, one, longest that fits, and the first that does not |
| `MaxMsgs` (`Framing`) | messages in the stream | one before, one behind the one that goes wrong |
| `MaxCuts` | short reads of one item | one (right) and two (the first wrong number) |
| `NConns` | connections a unit makes | the first, the one after a crash, and one more, when an answer was late; one crash and one late answer give no reason for a fourth (a refused one is used again) |
| `MaxCrashes`, `MaxLates`, `MaxUnasked` | crashes, late answers, messages unasked | one each, at any moment: what one does to a wait or a connection the next would do to a later one |
| `MaxTroubles` | all of these together | two, any of them: each pair, in either order |
| `Unasked` | what is sent unasked | both kinds in `peer`; in `peer_live` the one `StopsWhenTold` is about |
| `MaxQueued` | progress is reported while fewer messages wait, or when one is overlooked | one left over when the connection is lost; none where there is fairness, so that only an overlooked message is followed by another |
| `Defaults`, `Cleanups` | kinds of units | all of them in `peer` |
| `Feeds`, `MaxRecs` | feeds and their records | buffers of feeds share nothing; two records, so that there is one in front and one behind |
| `Names`, `NumSocks`, `MaxCalls` | names and sockets of builders, calls of `connectSB` | one connected and one to be added; one call, at any moment, of each kind |
| `NodeLists` | node lists | a builder takes the node or does not |
| `BrokenIds` | events whose records may be broken | one: all of them end the thread, or are not looked at |
| `MaxEvts`, `MaxUnread` | records, and how many are read together | three: one that opens or fails a session, one later, and one behind midnight, of two users |
| `Day`, `MaxNow`, `LateTimes` | 3, 4 and {3} | one midnight, and an event that comes late just behind it |
| `SessionLength`, `CloseAfter`, `SuspectTimeout` | 2, 0 and 1 | each differs from the next by a unit, so that each comparison decides alone |
| `Schemas`, `EvtIds` | schema files | one that shares an event with another, one that cannot be loaded |
| `Docs`, `Tables`, `Sample` | documents and tables | every kind of line once and each pair of them: repeated and nested structures, lengths with a message, unknown names; records whole, cut in half, with bytes behind |
| `Calls`, `Enters`, `MaxItems`, `MaxCut` (`Asn1`) | values, types, calls of `write` and `enter`, bytes missing | values on both sides of each boundary of an encoding (127, 128, −128, −129, −32769; 128 octets; type number 31); three items: inside, in front of, behind another |

The theorems of section 6 do not depend on these bounds.

## 5. Fairness

`ControlBus!FairSpec` assumes of the code:

- `ServerLoop` (weak): the thread has no blocking call but `select`, which has a
  timeout of 200 ms; so it goes on through its pass and starts another one.
- `OnIOAll(p)`, `OnHangup(p)` (strong): each pass serves each socket that
  `select` reports, and a socket with something to read or to write is reported
  in each pass. The actions are only enabled in one phase, so weak fairness
  would promise nothing. That a socket gets *all* its bytes through in one call
  again and again stands for a finite message needing finitely many calls.
- `Model /\ ~late` (weak): while the window is open the view starts `doStuff`
  every 500 ms. This assumes that the ticks go on: a `RuntimeError` in the view
  can end them (section 7), and `view` says what holds as long as it does not.
- `ShuttingDown` (weak), that is `AskNext`, `AskUnit`, `QueueDropServer`,
  `ClearKeepalive`: `shutdown` runs on. Of these one is next at any time. A
  request that is half way when nobody closes the window (`AskUnit` alone) goes on
  as well; that of `updateConfig` need not, and no property depends on it.

`ViewFairSpec`: both threads run on (`doStuff` waits for nothing, `after`
calls the view again). `ServerFairSpec`: what has been written arrives, and each
pass looks at each peer. `ClientFairSpec`: the client's thread reads whatever is
there.

`PeerTemplate!FairSpec`: `main` goes on (its waits have timeouts, its loop has
none but those of the queue), and looks at the queue again and again; each
client's thread serves its socket, reading and writing; a CCM that runs accepts
and reads. Not that it crashes, comes back, configures or shuts anybody down.
`CheckQueue` is strong: the loop looks at the queue every two seconds and reports
progress every twenty (`peerTemplate.py:49`), so a report and its `SendModify`, which
disable it for a moment, cannot keep it from its turn for ever.

`StreamTerminator!FairSpec`: the thread goes on; `select` has a timeout here
too. But for one place, `Blocked`: a `send` on a blocking socket whose other end
has stopped reading need never return, and nothing is assumed of it. Not that
anything comes, nor that builders stay.

Nothing is assumed of peers, feeds or the user, nor of a `doStuff` that is
`late`: there may be none.

## 6. What is proved

`ControlBus_proofs` proves, for any sets of descriptors, connections, programs,
attributes and values, any defaults and any bounds:

| Theorem | States |
|---|---|
| `TypesHold` | `Spec => []TypeOK` |
| `ConfigsMatchUnits` | `Spec => []ConfigForUnits` |
| `NoGhosts` | `Spec => []NoGhostUnit` |
| `NoMistakenIdentity` | `Spec => []RightUnit` |
| `OneSBOnTheBus` | `Spec => []OneSBOnFirstDefaults` |

`ControlBus_proofs`, for any messages of any peers, about the window (`CcmView`,
whose specification is `ViewSpec`):

| Theorem | States |
|---|---|
| `ViewTypesHold` | `ViewSpec => []ViewTypeOK` |
| `NoGoneUnits` | `ViewSpec => []NoGoneUnitListed` |
| `OneSBDefaults` | `ViewSpec => []OneSBOnFirstDefaults` |

`Framing_proofs`, for any size of header, any lengths, any reads:

| Theorem | States |
|---|---|
| `ServerTypesHold` | `ServerSpec => []ServerTypeOK` |
| `ServerIsFifo` | `ServerSpec => ServerDeliversInOrder`, that is, `ServerFifo!Spec`: it implements `Fifo` |
| `ClientTypesHold` | `ClientSpec => []ClientTypeOK` |
| `ClientIsFifo` | `ClientSpec => ClientDeliversInOrder`: it implements `Fifo` until an item comes in three parts |

`PeerTemplate_proofs`, for any number of connections, crashes, late answers and
messages unasked, and any configuration, cleanup and controller:

| Theorem | States |
|---|---|
| `UnitTypesHold` | `Spec => []TypeOK` |
| `PeersAreKnown` | `Spec => []CcmKnowsPeer` |
| `RegisteredOnce` | `Spec => []OneRegistration` |
| `SetsAreApplied` | `Spec => []NoSetMissed` |

`StreamTerminator_proofs`, for any feeds, records, builders and calls of
`connectSB`:

| Theorem | States |
|---|---|
| `TypeCorrect` | `Spec => []TypeOK` |
| `StreamsAreWhole` | `Spec => []StreamsWhole` |
| `FeedsStayInOrder` | `Spec => []InFeedOrder` |
| `NoRecordLeftBehind` | `Spec => []NothingLeftBehind` |
| `OnlyTheseKill` | `Spec => []FeedsCannotKill` |

`SessionBuilder_proofs`, for any connections, users, schemas, changes of
configuration, and lengths of a session and of a day:

| Theorem | States |
|---|---|
| `BuilderTypesHold` | `Spec => []TypeOK` |
| `NoEventLost` | `Spec => []NothingLost` |
| `SessionsTruthful` | `Spec => []SessionsTellTrue` |
| `IdleOnesWritten` | `Spec => []IdleAreWritten` |
| `NoFileTwice` | `Spec => FilesOnce` |
| `NothingElseKills` | `Spec => DiesOnlySo` |
| `SharedAreFiled` | `Spec => SharedEventsKept` |

`Asn1_proofs`, for any values, tags, nesting and number of calls, and any number
of bytes missing:

| Theorem | States |
|---|---|
| `IntegersComeBack` | for each integer: it is encoded in a form that is normalized, and decoded to itself |
| `IdentifiersComeBack` | for each object identifier the encoder takes: its components come back |
| `ValuesComeBack` | for each value that is written: its bytes are decodable under its number, to what was promised |
| `ReadsAreWritten` | `Spec => []ReadsWritten` |
| `WholeItemsRead` | `Spec => []WholeItemsAreRead` |

`SchemaTools_proofs`, for any documents, however structures are nested and
repeated, any tables and descriptions, any order of the tools, and any records:

| Theorem | States |
|---|---|
| `FieldsStayInPlace` | `Spec => []FieldsInPlace` |
| `FilterIsLatest` | `Spec => []LatestFilter` |
| `KeysAlwaysReach` | `Spec => []KeysReach` |
| `RecordsDecodeRight` | `Spec => [](FieldsAsSaid => DecodedRight)` |
| `FilesComeInRecords` | `Spec => []FileInRecords` |

So every safety property of the runs, invariant, action property or refinement,
is a theorem, but for one of `schema`, `FieldsAsSaid` (below).

Assumptions, all evaluated by TLC on each run:

- `SentinelsDistinct` (the "not there" values are not values), `ModelConstants`,
  `BusConstants`, `MaxMsgsAssumption`, `CutsAssumption`, `UnitConstants`: the types
  of the constants;
- `FramingConstants`: a length has at most one digit too many;
- `TerminatorConstants`: the session builders a terminator starts with have empty
  buffers and sockets of their own, which is what `socket()` gives, and the
  instance has a socket for each of them and for each call;
- `BuilderConstants`: a session, a day and the time that is observed are not
  empty; the schemas that load and the flags are among those there are;
- `Asn1Constants`: a value that is written is one its number can encode, and
  what is entered has a number that no codec of values claims, as in
  `asn1Test.py`; the marks for "none" are no numbers and no tags;
- `DocsAssumption`: what a document is made of; every parameter has a name in the
  data base, and events of one name have one id. The last is what makes
  `getEventId` a function of the name: it gives the first event of that name in
  the order of a dictionary;
- `TablesAssumption`: a table is a sequence of rows;
- `SendingsAssumption`: there is something a node may send for each event, and it
  is made of names, bytes and what these are shown as.

**First induction**, `TInv == TypeOK /\ TodoReady /\ ConfigForUnits`. `TypeOK`
is not inductive: `TakeMsg` needs `TodoReady`, that each peer the loop has yet
to visit has a message. `ConfigForUnits` in turn needs the types, since an
entry of `config` that is not `NoCfg` must be a map before anything is merged
into it (`ConfigStep`).

**Second induction**, `RegistryInv`, the conjunction of

- `NoGhostUnit`, which is about *position* in `recvQ`: every registration has a
  goodbye behind it when its fd is closed. Each action appends one entry, removes
  the head, or leaves `recvQ` alone (`AppendAt`, `TailAt`). Closing a socket
  appends what it asks for (`CloseStep`); taking the head may take a goodbye, which
  then stands in `leaving` until the unit goes with it (`ModelStep`);
- `RightUnit`, which is not inductive. `OnAccept` makes it a claim about a new
  connection and is saved by `NoGhostUnit`: a goodbye is pending, or being handled
  (`AcceptStep`). The others need to know whose messages are in flight:
- `OwnName`: on the wire and in `pendingIn` are the connection's own messages;
- `RightQueue`: a registration in `recvQ` that has no goodbye behind it is that
  of the present owner of its fd.

`QuietStep` deals with all the actions that touch none of these, and there is a
lemma for each of the others.

**The defaults.** `OneSBOnFirstDefaults` is inductive once the types are known.
A unit's section is set in the step that enters it in `fu`, and is the first
Session Builder's only if `fu` has none (`DoStuffOneSB`, shared by the bus and
the view); whatever removes units keeps it, and the rest touches neither
(`RegistryOneSB`).

**The view.** `ViewTypeOK` is inductive once doStuff keeps its types
(`ModelType`, shared with the bus). `NoGoneUnitListed` is strengthened to say
what the view may still have in hand at each of its steps: from `BeginList` on, a
row of a unit that is gone means that the removal has set `dirty` again, or is
about to (`Marked`).

**The stream.** `ServerInv == ServerTypeOK /\ Layout /\ ServerPosition`. `Layout`:
the messages lie one behind the other, without gaps (`Sending` keeps it, for both
readers). `ServerPosition`: the reader has gone through as many messages as it has
passed on, and stands where the next one starts, or, if the last one was too long
(`OutOfStep`), one byte in front of it. From that, no header starts where it
stands once it is out of step (`ServerNextMessage`), and one does until then
(`LostStep`); so the text it takes is the next one's, which is all that the
refinement needs (`ServerPassedSent`).

The client's reader adds the item it is waiting for. `Item`: what is there and
what is asked for make up the item, of which one part at most has come, as long
as nothing came in three. Hence an item that `get_data` takes for complete is
complete (`InTwo`): this is where two parts are right and three are wrong. The
rest is the server's argument with `ItemAt` for the place where it stands.
Behind a text that is too long, `ClientPosition` makes no claim but that it is out
of step.

**The unit.** `Inv` has seven parts.

- `EndsAgree` and `MessagesAgree` relate the two ends of a connection: what a
  thread that has ended implies of the server's end, and that a `REGISTER_ACK`
  can only be on its way from a CCM that has registered the unit or closed the
  connection since (`Known`).
- `MainKnows`: where `main` is, and what it takes for granted there; while it is
  in `send` it is connected, so that what `SendModify` does to the selector
  (`ModifyIs`) is that of a client in use. `OneThread`:
  of two threads that live, one belongs to a client `main` has given up, which
  needs a late answer (`orphaned`).
- `Pile` is `CcmKnowsPeer` before it is visible. As long as the CCM does not know
  the unit on `cC`, what is on the wire has its `REGISTER_REQ` in front of any
  configuration, and what still lies on `outgoing` is *covered*: a `REGISTER_REQ`
  lies above it, and the stack gives that first. Messages an earlier connection
  left lie below; nothing is written until the registration is queued (`Unused`).
- `Timely` and `SetsGoOn` are claimed as long as no answer was late. `Timely`:
  `main` has read all there was before it makes a new client, and a wait of
  `_check_CCM` finds the answer at the head of what is unread, or only the loss
  of the connection. So what a wait throws away is never a `CONFIG_SET`, and
  `SetsGoOn`, that the ones applied and the ones unread are all that were sent,
  in order, is kept.

`OneRegistration` then follows from `OneThread` and `EndsAgree`: a registered
connection is open at the server, so the thread at its other end is alive.

**The terminator.** `StreamsWhole` is inductive given `SocketsApart`: entries of
`sessionBuilders` share no socket, and a socket nobody has made carries nothing.
Without it `connectSB` could give two entries one stream. In the middle of a send
what waits for an entry is what the send has left, not its `outBuf` (`Waiting`), and
the equation moves from the one to the other and back (`OutReturns`, `OutStore`).
`SendUnderWay` says what a send may take for granted from one lookup to the next:
its socket is that of no other entry; if its entry has been replaced, the new one is
still as `connectSB` made it (`Fresh`), for nobody but this thread puts records on
it; so what is stored there is all that it has, and `stray`. `ClosedFirst` is for
`FeedsCannotKill`: an entry is replaced, or without a socket, only where a
connection has been closed. `InFeedOrder` needs
what is behind it in the code: `QueuesInOrder` (what is in a feed's buffer and on
its wire is of records in order) and `RoutedArePassed` (what was routed is
earlier than all of that, and, while a record is being delivered, earlier than it
on each connection the loop has still to visit). `NothingLeftBehind` and
`FeedsCannotKill` rest on `BuffersKnown`: `feedsChanged` has exactly the feeds
with something in their buffer, the loop over it has each at most once and all
those with a complete record. This is why `remove` and the lookup of a buffer
cannot raise. `LoopsOverKeys`: a loop visits only names that are there, and a
dictionary of another size is due to `connectSB`.

**The builder.** `NothingLost` is in the induction as it stands. `SessionsTellTrue`
is replaced by `TellsTrue`, which names the event that closed the session instead
of choosing it, so that one more event (`AddEvt`) can be compared with it.
`SeenWereIdle` keeps what a write has decided: it has taken just the sessions it
saw that were closed or suspect, at the code's times of day; `IdleAreWritten`
is then arithmetic with `real % Day`. `FilesAreOlder`: the files so far are named
by times up to `lastWrite`, which is below the next name, and 0 is the last. And
`ThreadKnows` and `MainKnows` say how far each of the two threads is: in
particular that `evtSet` is empty until `parser` has a schema, so that an event
found interesting always has one (`NothingElseKills`). A record that is too short
leaves a session without an event, of which `SessionsTellTrue` would not know what
to say; but the thread ends with it, and stays so (`DeadStays`). With more than one change
of configuration, `DiesOnlySo` read as a statement about the state of a dead
thread is false; hence it is about the step.

**ASN.1.** First the functions. `Digits` and `Number` are loops over the bytes
of a number of any size, so what they compute is shown by induction on its
length: the set of lengths for which the claim holds has 0 and with each number
the next, so it is `Nat` (`Successors`, from the least number that is not in
it). That way go: `Number` undoes `Digits`; a number is bounded by its first byte
and the power of 256 behind it (`NumberBounds`); inverting bytes subtracts from
`Power[n] - 1` (`Inverted`). From these, that a negative number's first byte is
127 at least and 127 just in the corner case, which is why `_encode_integer`'s
test is right (`Complements`), and that both signs give normalized bytes. For an
identifier, `Found` is followed byte by byte through one component and then
component by component.

Then the bytes. `Shows(d, i, w)`: from offset `i` on, `d` has as much of the
bytes `w` as fits. A level of bytes that `Shows` a tag, a length and contents is
read by `_read_tag`, `_read_length` and `_read_bytes` as just these, if they are
all there, and as nothing if they are not.

The invariant. `ReadsWritten` says nothing of what is in front of the decoder,
so it is not inductive; the strengthening is `Arranged`. It claims that there is
a set `G` of pairs, contents and the items in them, such that

- each pair of `G` fits: the contents are the items' bytes one behind the other,
  and if an item is constructed, its own contents with its own items are a pair of
  `G` again (`Closed`). The set takes the place of an induction over nesting;
- each level the encoder has open is filled likewise, but for the tag `enter` has
  written at its end, whose item is still being made (`Stacked`);
- each level of the decoder shows such items, as far as the bytes reach, and the
  offset is at the end of the `done`th of them, or behind the next one's tag if
  `m_tag` holds that tag (`Standing`). For all but the innermost level the tag is
  none: this is what makes an early `leave` right, which sets it to none.

A step of the encoder adds a pair to `G` or fills a level (`LeaveStep`); `Start`
cuts a level's end, where `Shows` remains true; a step of the decoder moves in
what is there.

**Schemas.** Reading a document is four loops one inside the other, over
structures, events, lines and fields, and filtering is three more. Each is a
function `f` with `f[0]` given and `f[i]` a step from `f[i - 1]`, or a fold of
the library, and is shown to keep what its step keeps (`Iteration`, `Folding`
and `Folded` of `Recursion`, where the step is a function and the claim a set).

`AddFieldPlace` is the step of the innermost: the fields so far lie in a row, and
the new one begins at `msgLen`, which is their end. It gets a `dbName` that none
of them has. That `_dedup` finds one at all is `NameIsFree`: of the numbers up to
that of the fields and one more, each of which gives another name, one must be
free. `Described` follows what `describe` does to an event: whatever it was, and
whatever flags a former description left, the flags of events are cleared and set
again from the list, and a field's flag is set if the list has it (`Listed` says
what that list is of a description, `EvtIds` how an id is found by a name).

The invariant, `FilesInv`, says of each file that it is a schema of the document
(`IsSchema`: its events by id, their names and ids, fields in place), that `raw`
is not filtered, and that `filt` is `describe(s, filtBy)` for *some* schema `s` of
the document. Which one is of no matter, and need not be: filtering what has been
filtered is the same claim again. The parser has a copy of one of the two.
`LatestFilter` and `KeysReach` are then statements about `describe`.

**Records.** `RecordsDecodeRight` has a hypothesis, `FieldsAsSaid`, since a
parser cannot show what was sent unless what was sent is what the schema says: it
knows a value's place only from the lengths of those in front of it. TLC finds
the hypothesis true in every state of the instance, also in those with records
that are short, not valid, or have messages of any length in them. It speaks of
each value alone; that the whole is read right is what remains to be shown.

The values of a record lie one behind the other (`FlattenPieces`, `RecordLies`).
`FieldsParsed` is the induction along the fields of an event. After `i` of them
the parser either is where value `i + 1` begins, with `nvl` the bytes this has
beside those of its field and `result` the values so far (`Values`: of each name
the last); or has given up at a field that reaches the end, and the values behind
it have no bytes after them, which is what `Shown` excludes. `MoreIsTold` is the
step from a length to the `nvl` it leaves, and needs `LengthsRead`: a length that
is not filtered is not known. `KeysTaken` follows the keys out of the result: for
this they must differ from each other, and `RecordInv` says that they do, being
the default ones or none, and that `last` is what `parseRaw` gave for the record.

**Files.** `FilesComeInRecords` does not need `FieldsAsSaid`: it says that the
records of a file do not disturb each other, each line being what its record
alone gives. A record is a `Chunk`: as long as its first two bytes say, with type
and id where `getNextEvt` looks (`RecordChunk`). `FileCut` follows the loop of
`getNextEvt` turn by turn: after `i` turns the offset is where chunk `i + 1` begins
and the events are those of the first `i` chunks (`Cutting`); what is behind the last one
makes the loop raise or not (`Ending`), and then nothing changes in the turns that
are left (`Resting`). `LinesAre` is the induction that counts the lines: the place of a line is
the number of events up to it that are not `None` (`PosStep`). The property speaks
of files whose records are of at most 4999 bytes and do not raise by themselves:
a record that does ends the file there, which is the code's answer to it, and the
records of the instance never do.

**TLC alone has checked** all liveness, which needs `ENABLED`, and one safety
property, `FieldsAsSaid` of `schema`. It compares a schema with the layout that
comes with a document, and samples with what they mean; that the two agree is a
fact about what an instance is given, of which a proof would have to assume all
of it.

## 7. What was met while modelling

The models contain what follows, at the actions named, and the properties of
the runs are stated around it. Where a comment or document says otherwise, it is
quoted.

### The bus

- A message for a closed fd raises `KeyError` at `controlServer.py:180` and ends
  the server thread: only the `DROP_PEER` branch tests the fd, with the comment
  "may be already closed" (`:164`) (`DrainMessage`).
- Of the errors of `send` and `recv` only `ConnectionResetError` is caught
  (`:140`): a `BrokenPipeError`, from writing twice to a peer that hangs up, and a
  timeout on a link that has gone end the server thread (`OnUncaught`).
- So does a peer that resets its connection before it is accepted: `getpeername`
  raises (`:98`; `OnAccept`).
- A request of the GUI for a unit that was looked up before its `DROP_PEER` was
  put (`ccmModel.py:187`), and is put behind it, is for a closed fd when it is
  drained: the `KeyError` above (`Request`, `ShutdownAck`, `TellUnit`, `AskUnit`).
- A `CONFIG_REQ` is answered with the map it found, which may be put on `sendQ`
  behind a newer value from `updateConfig`: the unit ends with the old one, the
  CCM with the new (`ConfigReq`, `TellUnit`, `PutOwed`).
- `DROP_SERVER` is drained in the pass that made the `SHUTDOWN_REQ`s pending,
  and closes the sockets before one is written (`:171`), though `shutdown` waits
  "to let things clear through the system" (`:85`) (`DrainDropServer`).
- `DROP_PEER`, queued on a `SHUTDOWN_ACK` (`ccmModel.py:187`), may reach the next
  owner of the fd and close its connection (`DrainDropPeer`).
- `numFu` goes down with every `SHUTDOWN_ACK` (`ccmModel.py:191`), known unit or
  not, and there are two for a unit that says goodbye itself; the window shows
  it as "Connected functional Units: %d" (`ccmView.py:6`) (`AnnounceRemoval`).
- A third Session Builder takes the second one's section `SBAttrs2`
  (`ccmModel.py:140`) (`KeyFor`).
- A registration handled while `shutdown` iterates over `fu` (`ccmModel.py:231`)
  ends it with a `RuntimeError`, before the other units and the server are told
  (`FuResized`).
- A registration or removal during the view's loop (`ccmView.py:101`) raises
  `RuntimeError`, the call of `after` is skipped, and nobody starts `doStuff`
  again, though `showNumFu` "calls itself every 2 seconds" (`:87`) (`ListFails`).
- A registration is announced (`ccmModel.py:132`) before it is made (`:145`): a
  view that looks in between notes the change and keeps the old list
  (`RegisterBegin`, `Look`).
- From 1000 characters on a header has nine bytes (`msgTypes.py:52`), where
  "every message as an 8 byte header" (`defaults.py:15`): that text is cut, and
  the connection is out of step (`HeaderLen`, `LoseStep`).
- `get_data` takes a header or a text for complete when it has come in three
  parts (`controlClient.py:101`; `GetHeader`, `GetNoHeader`, `GetText`).

### The unit

- A message left on `outgoing`, a class attribute (`controlClient.py:29`), is
  sent on the next connection, behind its registration (`ThreadWrite`).
- `send` while the thread connects, or while it ends, may raise `KeyError`
  (`:84`) and end the unit (`SendModify`).
- `send` appends (`:83`) and sets EVENT_WRITE (`:84`) while the thread may be
  between finding `outgoing` empty (`:149`) and setting EVENT_READ (`:154`): the
  message is not sent until another one is. An undisturbed start may wait for its
  answer in vain; once in its loop the unit reports within 20 s, and that takes it
  along, the newest first (`ThreadFindsNone`, `ThreadReadOnly`, `Overlooked`).
- A reset connection ends the client's thread with an exception (`:97`) and
  nobody is told: `connected` stays set (`ThreadBreaks`).
- A wait takes any message. A `CONFIG_SET` that comes unasked during the start
  is thrown away and the unit is activated all the same; a `DROP_PEER` taken by
  a wait leaves `connected` set (`peerTemplate.py:171`); the `CONFIG_SET` that
  `ccm_LTE.py` sends on registration ends the wait for `CONFIG_ACK` (`GiveUp`,
  `SetConfigDone`).
- A unit that starts before the CCM sets `connected` (`:82`) and never tries
  again: one half of "controlClient reconnect when new CCM becomes available"
  (`README.md:64-65`, under ToDo) is done, for units that were connected.
- After a late `CONNECT_ACK`, `_check_CCM` makes a second client; the first one's
  thread lives on and shares `outgoing` and the queue (`orphaned`).
- A unit that reconnects registers, but its configuration is not sent again
  (`:174`): the CCM has the defaults.
- `fu.py`'s `cleanup` calls a method its configuration does not have (`fu.py:147`).

### The terminator

- A name added by `connectSB` while the thread iterates ends the thread
  (`streamTerminator.py:173`, `:182`; `LoopRaises`).
- `send` on a socket that `connectSB` has closed, on `None`, or whose peer has
  gone is not caught and ends the thread (`:184`; `SendCall`, `SendRaises`). The entry of a builder
  that has gone keeps its socket, so asking again for the same address does not
  connect it (`:84`; `Renode`).
- An entry that `connectSB` replaces (`:102`) between the two lookups of `:186`
  gets what the old connection has not taken: the new one's stream begins with it,
  be it in the middle of a record (`SendStore`, `stray`).
- The builders' sockets are blocking (`:91`): one that stops reading keeps the
  thread in `send`, and every feed and every other builder waits (`Blocked`).
- A feed that has reset its connection before it is accepted ends the thread
  (`getpeername`, `:247`; `OnAccept`).
- A connection that fails other than by being refused ends the main thread
  (left out: the thread that is modelled does not see it).

### The session builder

- A length that cannot be closes the connection; the next line looks for the
  buffer just deleted, and the thread ends (`SessionBuilder.py:126-127`; `Route`).
- It ends as well with a peer that resets its connection before it is accepted
  (`getpeername`, `:211`; `OnAccept`), a record that ends within the time
  (`sessionHandler.py:109`, `:215`) or for which the parser raises
  (`parseCTRS.py:171`) (`HandleBroken`), and a file that cannot be opened or
  written, for want of a directory or of room (`:137`, `:152-161`; `WriteFails`).
  With the length above, and with write flags and an end without a schema, below,
  these are the six ways `DiesOnlySo` lists.
- At the end of `serve_forever` open sessions are to be closed (`:197-199`); the
  call writes none of the ordinary ones, as nothing is idle at time 0, and raises
  if there was never a schema (`RouteDone`, `AtEnd`).
- A schema file that cannot be loaded ends the unit: `None` is asked for its
  events (`sb_LTE.py:103-104`; `SetSchema`).
- Write flags that change between the opening of the files and their use raise
  `UnboundLocalError` (`sessionHandler.py:148-197`; `WriteSession`,
  `CloseFiles`).
- Sessions are written only when an event arrives in a second divisible by the
  session length (`:116`; `WriteTime`). All builders write as process 0 (`:133`),
  so two in one directory overwrite each other's files.
- Times are times of day (`:164`, `:181`, `:212`): an event that comes late over
  midnight closes sessions of the new day, and one after midnight closes none of
  the old (`Idle`).
- `errorCode` starts as the number 0 and is compared with the text `'0'`
  (`session.py:116`): it never takes an error (`AddEvt`).
- `isExternal` names an event that does not exist, `X2_CONTEXT_RESPONSE` (`interestingEvents.py:374`).

### Schemas and parsing

- A field that ends exactly where the record ends is given up
  (`parseCTRS.py:238`); of the events with a message in release R20A, most have
  it last (`parseField`).
- `EVENT_PARAM_COMMON_LENGTH` is a length to `parse10dash.py`, and none to the
  parser; and a length is known only if its field is filtered (`IsLength`,
  `parseField`).
- A message of length 0 whose parameter has a valid bit raises `IndexError`
  (`decodeField`), which ends the builder's thread.
- A parameter that comes back in an event keeps its last valid value only: the
  result is keyed by `fieldName` (`parseField`).
- `clearFields`, "Clear filter flag", sets it (`schema.py:114`).
- `convTBCD` strips one `f` at most; `convDNS` works on the text of a bytes
  object (in one piece up to 99 characters: what is modelled); `convIPv6` writes
  groups without leading zeros, one behind the other.
- The valid bit of a nested structure's last parameter stays with the next
  parameter (`parse10dash.py:353-361`; `structLine`). A sequence of at most one
  takes the number of the sequence before (`eventLine`).
- An array in a description leaves out its last index (`sessionDesc.py:119`;
  `Expand`).
- A description that is missing gives a schema that filters nothing and has no
  keys, without a word (`describe`).

### ASN.1

- A primitive item of a type with a number above 30 is written and cannot be
  read: the name of its tag is looked up in a list (`asn1.py:508`).
- Values are encoded and decoded by the type's number whatever its class.
- `write(True)` writes an integer, for a `bool` is one.
- Data that end just behind a tag look as if they ended in front of it once the
  tag has been peeked at: the offset has moved past it.

## 8. What is not modelled, and the plan

**Not modelled, of what is:** `DROP_ALL`, which nobody sends; `updateDefaults`,
which nobody calls; `progRep`, which is shown and decides nothing (it is never
cleared, so a unit on a reused fd is shown with its predecessor's last report);
the UDP announcement; errors of sockets that are not named here, such as a link to
a feed that goes without a word; what a reader does once it is out of step (it depends on
the texts); text that is not ASCII, whose length in characters is not that in
bytes; what happens in the CCM's process after `shutdown` has returned or
raised; the values in `Config`, and `update` failing in the middle of a message
(`config.py:89`); the units' counters and reports; what the lines in the session
files look like; `_getVal`, SQL, C structures and text forms of schemas; how
lines of XML are cut and comments left out; PEM files.

**Components that stay out:**

- the test script: a client that plays event files to a terminator, and so one
  more feed;
- `admin/bitstring.py`, a vendored library, unchanged, of which only `_getVal`
  makes use, which nothing calls;
- the S3 simulator's data: no program.

**Next, in this order:**

1. `Session`'s operators as lemmas of their own, for both kinds of session: the
   one with `ebsl` is in the model and only its bookkeeping is in the theorems.
2. A refinement for the session builder: the sessions as a partition of the
   events of a user, which `NothingLost` and `SessionsTellTrue` together say.
3. A `Configs` module: `Config.update` and `asString` as functions, checked
   against "parse what was printed"; then the composition of `PeerTemplate` with
   `ControlServer` and `CcmModel`, a unit being one of `ControlBus`'s arbitrary
   peers.
