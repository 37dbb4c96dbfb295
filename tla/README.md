# A verification project for ts-mobiledevice

TLA+ models of the stateful parts of ts-mobiledevice, a Node.js SDK that talks to
iOS devices, with the TLC configurations that check them and the theorems TLAPS
proves about them. Paths below are relative to `packages/core/src` unless they
name another package.

## 1. The system

A single-threaded event loop runs callbacks and promise continuations one at a
time. All concurrency is between *continuations*: what is read before an `await`
may have changed after it, events and timers run between any two of them, and
the device and usbmuxd act at any moment. There is no thread, and the
program keeps nothing on disk: the one thing that outlives a process is usbmuxd's
pair record.

```
 web, cli, server (REST, WebSocket gateways)
        |                 |
     DevicePool     LockdownService -> ServiceFactory -> services (AFC, syslog, plist, ...)
        |                 |                           \-> DvtFactory -> DvtServiceProvider
     usbmuxd <- PlistMuxConnection                              |           |
                          |                               DtxChannel -> DtxConnection
                       device                             RSD / RemoteXPC (iOS 17)
```

### Inventory

| Component | State | Operations | What is hard | What makes it correct | Modelled by |
|---|---|---|---|---|---|
| `dtx/connection.ts` | message and channel counters, pending sends, fragments, channel handlers, `_closed` | send, openChannel, register/unregister, data, close | sends interleave at every awaited write; replies and events share socket and identifiers; late write callbacks, late replies, close at any point | each send settles once, with its own reply; reassembly never mixes messages; codes are distinct; silence after close | `DtxConnection` |
| `dtx/provider.ts` | message queue, waiters, `_ready` | recv, push, pushClose, invoke, connect, close | timers race messages and closes | order, no message passes a waiter, every recv settles | `DtxChannel`; `connect` is a step of `DeviceSession` |
| `services/AfcService.ts` | packet counter, pending requests, read buffer | request, dispatch, file operations, close | reply, timer, write error and close race | each request settles once, with its own reply; files are closed | `AfcService`, `ServiceSocket` |
| `pool/DevicePool.ts` | device map, listening socket, Bonjour, loop | connect, hot-plug messages, Bonjour events, close | list and listen are two connections; one serial has several transports; errors end the loop | the pool follows usbmuxd; quiet after close | `DevicePool` |
| server gateways | `abortControllers` by client and device | subscribe, unsubscribe, disconnect, end of stream | all but the map is awaited; the stream's finally runs late | a controller in the map is live; each stream can be stopped | `StreamGateway` |
| `usbmux/*` | tag, `connected`, probe cache | list, buid, pair records, connect, listen | one socket, shared reads, mode switch on Connect | replies match tags; no control packet on a pipe | `DeviceSession`, `ServiceSocket` |
| `lockdown/*`, `ServiceFactory`, `DvtFactory` | session id, pair record, socket (TCP, then TLS) | create, startSession, startService, pair, close | each step may fail or time out | who is asked understands; what was opened is closed; a pairing made is saved | `DeviceSession` |
| CLI commands, REST controllers, pool `Device` | what they opened | one try/finally each | an open that fails half-way, a stream that ends, `process.exit` | nothing left open but what is meant to be | `CommandTable` |
| plist, DVT and AFC services, web inspector | a socket, sometimes a queue | one request at a time, or a stream | a timed-out read leaves the stream out of step; two calls share the reads | one reply to one request | `ServiceTable`, `ServiceSocket` |
| `utils/socket.ts` | listeners of one read | readExactly | two readers of one socket, timer, end | | `ServiceSocket` |
| `remote/*` | message ids, waiters, queue, partial messages | connect, requests, check-in, close | replies matched by order of arrival, messages cut anywhere | nothing decoded is lost; one reply to one request | `RemoteXpc`, `RemoteServiceDiscovery` |
| `services/SyslogService.ts` | chunks, one waiter | lines, close, abort | close while a line is being consumed | lines end after close or abort | in part: `StreamGateway`, `DeviceSession` |
| encoders, dashboard | none | | | | not modelled (section 5) |

`PROJECT.json` lists every component with its status and every hazard at its line.

## 2. The modules

| Module | Models | Notes |
|---|---|---|
| `JsMap` | a JavaScript `Map` | as a function on its keys; entry order is left out |
| `Rpc` | the abstract request/response client | what `DtxConnection` and `AfcService` promise: start, serve, answer, fail; a call settles once, and only with the device's reply to it |
| `DtxConnection` | `dtx/connection.ts` and the registration of channels | refines `Rpc` |
| `DtxChannel` | the inbound side of `DtxChannel` in `dtx/provider.ts` | relies on the connection being quiet after its close |
| `AfcService` | the request layer of `services/AfcService.ts` | refines `Rpc` |
| `DevicePool` | `pool/DevicePool.ts`, with usbmuxd as environment | |
| `StreamGateway` | `logs.gateway.ts` and `perf.gateway.ts` of the server, with `withFactory` and the abort of `SyslogService.lines` | one client and device; keys do not interact |
| `DeviceSession` | a command from its first connection to usbmuxd to its last close: `usbmux/`, `lockdown/`, `ServiceFactory`, `DvtFactory` | runs whatever table it is given |
| `CommandTable` | every command of the CLI, the server and the pool's `Device`, as data | one row per command; `MCDeviceSession` puts the two together |
| `ServiceSocket` | calls over one socket: `readExactly`, the write callbacks and the event loop between them | runs whatever table it is given |
| `ServiceTable` | 46 services, as data: the writes and reads their methods are | `MCServiceSocket` puts the two together |
| `RemoteXpc` | `remote/RemoteXPCConnection.ts` and what its frame decoder makes of a cut message | |
| `RemoteServiceDiscovery` | `remote/RemoteServiceDiscovery.ts` | composed with `RemoteXpc` |
| `*_proofs` | theorems | |
| `MC*` | values for TLC where a `.cfg` cannot give them | |

Operators marked `(mutant)` are plausible bugs; each sits before the definition it
would replace and is used by nothing. Substituting it makes TLC find the named
property violated.

### DtxConnection

`send` is four kinds of step: `Send` (up to its first `await`: the identifier is
taken), `WriteNext` and `WriteFail` (a write callback), `WriteLast` (the entry in
`pending`, with the timer), then `Timeout` or a reply. `OpenChannel` and `InvokeOn`
are the two callers; `RegisterChannel` is the continuation of
`provider.openChannel`, which may be delayed past the next message. `OnFragment`
is one turn of the loop of `_onData`, including `_dispatchMessage`. `BadFrame` is
the parse error, which closes the connection and leaves the socket; `Close` is
`close()` or a socket event. `DeviceReply` and `DeviceEvent` are the peer: it may
reply to what was written to an open socket, once, and send events on channels it
was asked to open. A reply carries the identifier of its request, and the device
numbers its own messages as it likes, so that an event may carry the identifier of
one of our sends and two fragmented messages may be under way under one identifier.

The code keys the fragment table by identifier alone, and the model does the same:
`FirstFragment` makes the entry anew, whatever stood there; `LaterFragment` stores
its body by its index in its own message and counts, and the complete entry is
dispatched under the header it was made with. Two messages that share an identifier
may so be cut, mixed, lost, or leave a hole in the array on which `Buffer.concat`
throws. `collided` is history: the messages that were half received while another
began under their identifier, or that began so. `built` is what was put together.
`Dispatch` may also drop a message (its body is shorter than a payload header) or
throw (its arguments do not decode); an exception there leaves `_onData`, where
nobody catches it, and ends the process (`crashed`). `code`, `answer`, `progress`,
`delivered` and `notified` record what promises and handlers have seen.

A fragment is the unit of data. Bytes, headers and payload formats are left out.

### DtxChannel

`queue` and `waiters` are the two arrays, `Push` is `_push`, `CallRecv` is `recv`,
`RecvTimeout` its timer, `ConnectionCloses` is `_pushClose`. A waiter whose promise
has been rejected stays in `waiters`, as it does in the code. `lost`, `called` and
`atClose` are history.

### AfcService

`Request` is `_request` (map, timer and write together, before anything is
awaited), `Dispatch` one turn of `_tryDispatch`, `WriteError`, `Timeout`,
`SocketEvent` and `Close` the others that reject. A write to a socket that is gone
is `doomed`: its callback will report an error.

### DevicePool

`List`, `Listen` and `ConnectFails` are the steps of `connect()`, `Found` the
Bonjour handler. A turn of the background loop is two steps, since `receive`,
`recvPacket` and `readExactly` await between the last byte of a message and the
loop that applies it: `Read` takes the message off the socket (`held`), `Apply`
changes the map and raises the event. Anything may come between, `close()` too, and
`Apply` does not ask. A listener that throws does so inside the loop's `try`, so
`Apply` may end the loop (`Announce`). `ReceiveTimeout` and `ReceiveError` end it
as well. `ConnectFails` leaves Bonjour running and, when it was `listen()` that
rejected, a connection nobody closes (`"left"`). `raised` counts the events after
the close. usbmuxd (`Attach`, `Detach`, `MuxGone`) gives each transport an id
that is never reused and replays what is attached when a client listens.
`latest` records the transport attached last in the stream the pool reads.

### StreamGateway

Each subscribe message is a stream that goes through connecting, streaming, closing
and done; `current` is the stream whose controller the key has. `kind` says which
gateway: an abort ends a wait for a syslog line at once, while a perf stream looks
at its signal when a sample comes.

### DeviceSession and CommandTable

`net` says who is at the other end of each socket of the command: 0 is the
lockdown session's, 1 and 2 those of the services it uses. The places `at` goes
through are the awaits of the code: `Probe` and `OpenMux` are
`UsbMuxConnection.create`; `ListDevices`, `GetPairRecord`, `GetBuid`,
`ConnectDevice`, `Initialize`, `StartSession` and `UpgradeToSSL` are
`LockdownService.create` with the `LockdownClient` methods it calls, and
`CreateFails` its catch; `PairDevice` and `SavePairRecord` are `pair`;
`StartService`, `Dial`, `Attach`, `ServiceSecure` and `Shake` are what the two
factories do for a service; `Finish`, `Fail`, `Interrupt` the work of the command
and the way its own code leaves it; `StopSession` is `LockdownClient.close`.

A request and its answer are one step, which may succeed, be refused, or fail with
the socket still open. A row says what a command opens, in which order, and what
its try, catch and finally do with it: after an open that failed, after work that
failed, at the end. The CLI's `process.exit(1)` in a catch closes everything.
`last` is the request written last with the one who received it; `ended` records
how it went with each socket, so that `NothingLeftOpen` excuses an open socket only
by what happened to its own use and not by the row alone.

Rows to know: the four DVT monitors of the CLI have no try and leave everything to
the end of the process; `profile list` returns before its `svc.close()` when there
is no profile (`cli/src/index.ts:938`), and leaves the socket to the end of the
process; `subscribe:perf` closes the lockdown session and leaves its
Instruments connection; `Device.afc`, `apps` and `syslog` leave the session when
the service cannot be opened. `MCDeviceSession` states the whole list as an
assumption about the table that TLC evaluates.

### ServiceSocket and ServiceTable

An operation is a program of `write`, `read`, `race`, `raw` and `drain` steps. A
write says which frames the service may answer with; a read says what must be true
of the frame for the call to go on: any frame, a status, a name, a tag, an
identifier, or reading on until it fits. The framing of the service says how a
reply finds its reader: by `readExactly` (length, then payload), from a queue of
whole messages, or by the number of its request. The stream is a sequence of
frames: `cut` says that of the last one only the length has arrived, `begun` that
of the first one the length was read. A frame that is a matched reply goes to the
read of its own call (`ArriveMatched`); whatever else such a service sends goes to
the next read, as from a queue. A reply no read waits for is where AFC and DTX
differ: AFC has its requests on record before it writes them and drops what nobody
waits for; a DTX send is on record only after its write callback, and a reply that
comes earlier, or after the timer, goes to the channel as an event (`channel`),
where the next `recv` takes it. A `recv` of a DTX channel that times out leaves its
waiter in the line, which takes the next message (the finding `NoMessageLost`); when
the connection closes, a wait for an acknowledgement resolves (`TakesEnd`).

What a table of services may be is `TableAssumption`: rows have their types; a
stream skips nothing of a known length; a service with tags is read as bytes, and
over usbmuxd a reply is read right after its request; a matched request has one
reply at most, for the step after it; an operation that opens a file does not read
to the end of the connection. The central part is `ReadsWhatItAsks`: with each step
goes what may be unread when a call comes to it (`unread`, which `ServiceTable`
computes from the program), and every write, every answer and every outcome of a
read leads from one to the next, with nothing unread at the end of a `neat`
operation. It is a statement about the programs of the services, and TLC evaluates
it over the 46 rows whenever the run starts; the proofs of section 4 assume no more
of the table.

The state names no service: `service` is its row, so that services whose rows are
the same are one. The event loop is explicit. `Arrive`, `Written`, `TimeOut`,
`Close` and `Start` are events; each leaves jobs in `micro`, which run before the
next event: a step of a call (`DoStep`), the continuation of a write (`Sent`), a
listener (`TryRead`), the continuation of a read (`Got`). So two calls that start
together interleave as their promises do. Bytes that a read takes for a length that
is none make the stream `broken`. `Push` is a frame the service sends unasked;
`Abandon` the `Promise.race` of `getOpenPages`, whose read stays registered;
`DrainEnds` the end of the read-to-the-end of `DebugServerAppListService`, which
stops in the middle of whatever comes.

`loose` and `crossed` are history. `loose`: a call was cut short, ran beside
another, left something unread, or was answered before its request was on record.
`crossed`: over usbmuxd a request was written before the write of another was called
back. `send` counts the tag up in that
callback (`PlistMuxConnection.ts:77`), so two such requests carry one tag, and the
tag cannot tell their replies apart: own replies are claimed only where none
crossed. Rows to know: Polo of `HeartbeatService` is sent with `sendRecv`, which
takes the next Marco and drops it (`HeartbeatService.ts:34`), so only every other
Marco is answered; `start` of the tap services reads an acknowledgement that may be
a sample already; `DtFetchSymbolsService.getFile` with `maxBytes` leaves the rest of
the file on the socket; `AutomationSession._forwardCommand` drops replies that are
another call's.

### RemoteXpc and RemoteServiceDiscovery

`Dial`, `Dialed`, `DialFails` are `connect`, `Request` is a `sendRequest` with its
`receiveResponse`, `HandleFrame` is `_handleFrame` for a DATA frame, `Timeout` the
15 second timer, `OnClose`, `Close` and `SocketError` the three ends. `socket.emit`
of an error that nobody listens to ends the process (`crashed`).

The device cuts a message in two at one of four kinds of place: in the header (less
than 16 bytes so far), in the body, in a string or data it ends with, and there with
less than 16 bytes to come (`"tail"`). `Decode` is what `decodeXpcWrapper` makes of
each buffer: null (the buffer is dropped, a short remainder of a message too, after
which the stream is in step again), an exception (the buffer is kept), or a message,
shorter than it was when the cut is inside a trailing string. A wrapper without a
payload (`"bare"`) is null as well and is given to nobody. The order of the checks is
that of the code: the length of the header, the magic, then the payload.
The size field counts the message id twice (`remote/xpc.ts:199`, against its
comment at line 101); encoder and decoder agree on it, so it is not told apart here.

`RemoteServiceDiscovery` adds `startService`: `CheckinWritten` and `ServiceChunk`
deliver the halves of the two replies in chunks of any size to listeners that
forget what is left of a chunk. `_recvPlist` has no timer: a device that is silent,
or closes without an error, leaves the check-in waiting for ever, and so does a chunk
that holds both replies.

## 3. What is checked

| Run | Bounds | Shows |
|---|---|---|
| `dtx_connection` | two opens, one invoke of two fragments, its reply and one event of three fragments each, which share an identifier; 251,244 states | pending, replies, reassembly, codes, silence after close, `Rpc`, and that every send settles |
| `dtx_channel` | four recv, four messages; 31,892 states | order, queue or waiters, one loss per timeout, close wakes waiters, every recv settles |
| `afc_service` | three requests; 63,923 states | pending, replies, close, `Rpc`, every request settles |
| `device_pool` | two transports of one serial, one of another, Bonjour; 78,786 states | the pool follows usbmuxd, applies after the close one message at most, its loop ends |
| `stream_gateway` | four subscriptions; 13,958 states | live entries, the bound on orphans, an abort ends the stream |
| `device_session` | any two of the 56 commands in a row; 19,010 states | every request reaches one who understands it, a socket is left open only by an end of its own use, commands end |
| `service_socket` | any of 46 services, which have 33 different rows; two calls of any operations, one unasked frame, calls beside each other of six steps together; 551,407 states | own replies, files closed, reads in step, calls end |
| `remote_xpc` | two requests or one service, three messages of the device, two of them cut; 879,178 states | nothing decoded is lost, own responses; receives, connect and the dialing and the write of a check-in end |
| `dtx_recv_timeout`, `pool_idle`, `stale_controller`, `pairing_saved` | two recv; as `device_pool`; two subscriptions; one command | the findings below |

Why these bounds are enough. A send interferes with others through the identifier,
the code, the pending map and the fragment table: two opens collide on codes, the
invoke and the event on an identifier and in the table. Three fragments each are the
fewest with which two messages can take each other's place in the table, mix their
bodies and leave a hole; the opens are what they must not disturb. In the channel
the second timed-out waiter behind a first, with a message for each and a recv after
them, takes four recv calls. A device with two transports is the smallest where an
old detach can hit a new entry. Orphans come from an abort, a new subscription and
the late end of the old one, and a second orphan needs the same again: four
subscriptions. Commands interact only through the device's trust and the probe
cache, which one sets and the next reads, and the pair record, of which every value
is an initial one. On a socket, what a call leaves behind is there for the next one;
a third call would meet what the second met. Six steps for calls side by side let
two requests run beside one, and one request beside a stream; one after the other
there is no such bound, and any operation follows any other. With RemoteXPC two
waiters are enough for one to get the other's message, three messages for a queue
behind them, and two cuts for two streams with a piece each or for one piece in
front of the next. Proofs (section 4) cover every number of calls, events,
fragments, requests, messages, devices, subscriptions and commands.

Fairness is only what the run time gives:

- `DtxConnection`: the kernel completes or fails each write (`WriteStep`), a
  running timer fires (`Timeout`). A peer that stops reading for ever while the
  socket buffer is full breaks the first; the code has no timer there.
- `DtxChannel`, `AfcService`: a running timer fires.
- `DevicePool`: readable bytes and a closed socket wake the loop, and a message that
  was read is applied by continuations already queued. Not its timeout.
- `StreamGateway`: an aborted perf stream gets a sample or its 30 second `recv`
  timer; closing a session, whose reads have timers, comes to an end. Nothing for
  a stream that is connecting: its TLS handshake has no timer.
- `DeviceSession`: each step of a command has a timer or needs nobody (`Step`); the
  TLS handshake of a service is fair only where `DvtFactory` times it, and work
  only when it is one request and its reply.
- `ServiceSocket`: jobs run, writes are called back, the deadline of a race and the
  timers of reads fire. The service may stop for ever, but its end of the socket takes
  what is written: no write has a timer.
- `RemoteXpc`, `RemoteServiceDiscovery`: timers fire and a write is called back.
  `CallsSettle` speaks of what these end; a check-in that has been written has no
  timer, and nothing is claimed of its end.

Nothing is assumed of the device or of usbmuxd, but that the kernel takes what is
written. Runs that disable the deadlock check do so because the system may stop: every call settled, nothing
attached, every command over.

### Findings

- `NoMessageLost` (`dtx/provider.ts:40`): a timed-out `recv` does not remove its
  waiter, because `waiters` holds a wrapper and the timer looks for `resolve`; the
  next message is lost. `OneLossPerTimeout` shows this is the only way to lose one.
- `ListensUntilClosed` (`pool/DevicePool.ts:59`): the listening loop ends after ten
  seconds without a message, by the timeout of `readExactly`.
- `EveryStreamCanBeStopped` (`logs.gateway.ts:40`, `perf.gateway.ts:47`): the end of
  an aborted stream deletes the controller of its successor. `OneOrphanPerAbort`
  bounds the damage.
- `PairingSaved` (`lockdown/LockdownService.ts:63`): `pair` saves the pair record on
  the mux connection that `connectDevice` has made a pipe, `assertNotConnected`
  throws, and a pairing the user has confirmed is not saved, although
  `cli/src/index.ts:103` says so.

## 4. What is proved

For every value of the constants, by induction over the steps:

- `DtxConnection_proofs`: `IInv` is inductive. `PendingIsWaiting` and `OwnReply` are
  not so alone: a reply finds its send because identifiers taken are distinct and
  below `msgId` (`IdsDistinct`), because the device replies only to calls that were
  sent (`DeviceKnowsCalls`). `Reassembly` is for any identifiers: a message that did
  not collide has an entry of its own, holds its own bodies there and nothing else,
  and is put together when it is complete, whatever becomes of the others. It needs
  `Collisions`: half-received messages that share an identifier have collided, and
  what the table names has begun, so that its identifier no longer changes.
  `DistinctChannels` needs that codes are taken in advance
  (`CodesTaken`), and silence after a close that leaves the socket open needs
  `ClosedIsDeaf`: closed means the socket is gone or what follows does not parse.
  From it follow the invariants the run checks, `QuietAfterClose`, and
  `Refinement`: each step is a step of `Rpc` or leaves its variables alone.
- `DtxChannel_proofs`: `InOrder` rests on the line of waiters (`WaitersInLine`): they
  stand in the order of their calls, dead ones included, and no later call than one
  in line has been served, so the first in line is the right one for the next
  message. `QueueOrWaiters` and `CloseTellsWaiters` come with it.
- `AfcService_proofs`: the same shape for packet numbers; `Refinement` to `Rpc`.
- `StreamGateway_proofs`: `EntryIsLive` with `AbortedHaveBegun`; and
  `OneOrphanPerAbort`, a counting argument: the end of a stream leaves at most one
  new orphan, and then it was an orphan itself or is one more stopped stream.
- `DtxChannel_proofs`, `OneLossTheorem`: a message is in one place (`Placed`: queued,
  returned or lost), and losses and dead waiters together are no more than the
  timeouts (`Counted`): a push to a dead waiter turns it into a loss, a timeout adds
  one of each, and no other step adds any.
- `DevicePool_proofs`: `FollowsLatest` speaks of the moments when nothing is coming;
  while messages are (the one the loop holds, then the queue), the invariant says
  where the truth is. If an Attached message of a serial waits, the last one is that
  of `latest` (`Pending`); if `latest` has gone, its Detached
  message still waits or has been applied (`Departure`); with no Attached message
  waiting, the map shows `latest` or what a detach made of it (`Display`).
  `DetachedGone`: a Detached message that waits is about a transport that is gone,
  since ids are never used again. `QuietTheorem` rests on `Phases`: after the close
  nothing is read, Bonjour is off, and an event has been raised only if the message
  that was held has been applied; so one message at most, about one serial.
- `DeviceSession_proofs`: `Understood` needs `LockdownPeer`, who is at the end of the
  session's socket at every place of the command, as `piped` and `tls` have it, and
  `NothingLeftOpen` needs `ServicePeers`, that the sockets of uses that are over are
  closed or excused by how they ended. `UseInRange` ties the place to the row. For any
  table.
- `RemoteXpc_proofs`: `NothingLost` from `InTurn` (handed and queued messages number
  those decoded, in turn), `Line` (a reader stands in line once, exactly while it
  waits) and `OneWaits` (a queue or a line, never both). Taking a waiter out of the
  middle of the line is `RemoveAtIs`. `TypeCorrect` adds the service's socket: what
  it carries, and what a check-in's listener holds or drops, are halves of the two
  replies (`Halves`). `OwnResponse` needs `Own`:
  - `Kept`: a stream that has lost nothing (`lossy`) keeps nothing, or the start of one
    message, and in what is kept and still to come, taken together, the two pieces
    of a cut message follow each other (`WellCut`);
  - `Phases` and `Handed`: in which phase there is a socket, a queue or a waiting
    `connect`; what readers and queue hold is whole, a string cut short apart;
  - `OneReader`, `OneMessage`, `Numbered` (together `Alone`): while requests are made
    one after the other and the device sends nothing else (`~loose`), at most one
    reader waits, at most one message has its start anywhere on the two streams, it
    is the answer to that reader with the id of the last request, and ids grow.
- `ServiceSocket_proofs`, the largest: `Whole` is inductive, for every table that
  `TableAssumption` allows, in four layers.
  - `Base`: types; `Places`, that a call which runs or waits for its write goes on in
    exactly one place, one job or one entry of `writes` (without it a call could run
    twice, and its steps leave its program); `Wanted`, that each read wants what its
    step reads and is given that; `Holds`, that a file is held between the step that
    opens it and the one that closes it. `FilesClosed` follows.
  - `Numbers`: over usbmuxd, as long as none crossed, every tag on its way is a tag
    taken, and the frames that carry the tag a call expects are replies to it.
  - `Solo`: as long as no call was disturbed there is at most one, `Where` says at
    which place of the event loop it is, and `Owed` that what is on its way or unread
    is a member of its step's `unread`: this is where `ReadsWhatItAsks` carries each
    step to the next. Between calls there is nothing (`AtRest`). `InStep` follows.
  - `Stolen`: what a call took that was not its own, by framing. It rests on the
    other three, and `OwnReply` follows.

The assumptions are those the modules name: calls, invokes and events are disjoint,
identifiers are positive, messages have at least one fragment, the subscribe
messages of a client are finitely many, the rows of a table are rows (at most two
uses, and a command without lockdown starts at usbmuxd; services as in section 2),
and special values are distinct from calls, devices and commands.

Model-checked only:

- liveness (`EverySendSettles`, `EveryRecvSettles`, `EveryRequestSettles`,
  `LoopEnds`, `EveryMessageRead`, `AbortEndsStream`, `CommandEnds`, `EveryCallEnds`,
  `CallsSettle`), which rests on fairness and is out of the prover's reach;
- that the tables are tables (`ReadsWhatItAsks` of 46 services, the rows of 56
  commands): facts about finite data, computed by recursion over the programs, which
  TLC evaluates;
- the findings, which are counterexamples.

## 5. Not modelled, and what is left

Not modelled:

- the encoders (plist, NSKeyedArchiver, auxiliary arguments, XPC values, HTTP/2
  frames) beyond what a cut message decodes to: no state;
- `usbmux/AdvancedPlistGenerator.ts` and the format testers at the repository's
  root (`multi-format-tester.ts`, `protocol-detector.js` and the like): tools to
  try encodings by hand, which the library does not call;
- the plain JavaScript output of `usbmux/` and of a few types that lies beside the
  TypeScript it was made from;
- certificates and key generation; the mount of a disk image by a Python process;
- `EventsController`, which forwards pool events as server-sent events, and the
  capabilities listeners of a DTX connection;
- the chunks and lines of `SyslogService`. A `close` between two lines, while no
  waiter is registered, is missed (`SyslogService.ts:26`); the consumers in this
  repository await nothing there;
- the contents of files: a copy of a file that changes meanwhile is a mixture;
- the promise `Device.info` caches, a rejected one included;
- printing and arguments of the CLI, local files, the dashboard.

In the model, but claimed of by no property, because the code does it and nothing in
the repository says it should not: a throwing listener that ends the pool's loop; the
socket and the discovery a failed `connect()` of the pool leaves; the Instruments
connection of each perf subscription; two requests on one lockdown socket, or one
after a timeout, which read each other's bytes; a tag shared by two requests to
usbmuxd; the read `getOpenPages` leaves behind; a RemoteXPC message sent unasked that
answers a request, one cut inside a string, an error nobody listens to; a second
check-in reply in the chunk of the first; the TLS handshake of `ServiceFactory` that is
never answered. The properties name these cases as exceptions (`loose`, `crossed`,
`crashed`, `lossy`, `lost`, the row of the command), so that they say what still
holds beside them; `PROJECT.json` lists each as a hazard with a note.

Left for later, in order of importance:

1. `SyslogLines`: chunks, waiter, abort and the missed close, refining the stream of
   `StreamGateway`.
2. `DvtServiceProvider.connect` with its once-listeners and a second connect, on
   `DtxConnection`.
3. `ServiceSocket` with framing by number as an implementation of `Rpc`, so that the
   rows over AFC and DTX rest on the promise the two request layers are shown to
   keep instead of on a framing of its own.
4. Proofs: every safety property the runs check is a theorem. What is left is the
   refinement of item 3, and that a gateway's stream refines the syslog of item 1.

## 6. Running

```
tlc -workers 2 -config MCDtxConnection.cfg MCDtxConnection.tla
tlapm DtxConnection_proofs.tla
```
