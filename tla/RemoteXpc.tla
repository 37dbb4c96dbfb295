------------------------------ MODULE RemoteXpc ------------------------------
(***************************************************************************)
(* packages/core/src/remote/RemoteXPCConnection.ts: dicts in the XPC       *)
(* encoding over DATA frames of two HTTP/2 streams. A message may be cut   *)
(* into two frames, two pieces may share a frame, and the frames of the    *)
(* streams mix. Replies are told from nothing else: each message goes to   *)
(* the waiter that waits longest, or to the queue.                         *)
(*                                                                         *)
(* Where a message is cut decides what decodeXpcWrapper makes of its first *)
(* piece: "header", less than 16 bytes: null, and the piece is dropped;    *)
(* "body": it throws, and the piece is kept; "string", inside a string or  *)
(* data at the end: it decodes, as a shorter message; "tail", the same     *)
(* with less than 16 bytes to come. The device also sends wrappers with no *)
(* payload ("bare"): decoded, and given to nobody. It is external. Frames  *)
(* other than DATA change no state and are left out.                       *)
(***************************************************************************)
EXTENDS Integers, Sequences, FiniteSets, SequencesExt

CONSTANTS
  Call,       \* the calls of receiveResponse and sendReceiveRequest
  Connector,  \* the receiveResponse of connect()
  None,       \* nobody: whom a message sent unasked is for
  MaxSends,   \* bound: messages of the device
  MaxCuts     \* bound: messages that are cut in two

ASSUME CallAssumption == Connector \notin Call /\ None \notin Call \cup {Connector} /\ MaxSends \in Nat /\ MaxCuts \in Nat

Root == 1
Reply == 3
Streams == {Root, Reply}
Readers == Call \cup {Connector}
Cuts == {"none", "header", "body", "string", "tail", "bare"}
Uncut == {"none", "bare"}
Endings == {"string", "tail"}

VARIABLES
  phase,    \* of connect(): "new", "dialing", "handshake", "ready", "failed"
  sock,     \* "none", "open", "closed"; "null" after close()
  crashed,  \* the process is gone
  msgId,    \* the next message id of each stream
  pend,     \* of each stream, the pieces the device has still to send
  partial,  \* partialXpc: the pieces kept of each stream
  waiters,
  queue,
  calls,    \* of each reader: "idle", "waiting", "ok", "empty" ({}), "timeout"
  got,      \* the message it was given
  sends,    \* messages of the device
  cuts,     \* those that were cut
  decoded,  \* messages decoded
  handed,   \* the messages given to readers, by the order they were decoded in
  ids,      \* the ids of the requests
  lossy,    \* the streams where a piece was dropped
  loose     \* a request was made beside another or a message came unasked, or
            \* a call was cut short

xvars == <<phase, sock, crashed, msgId, pend, partial, waiters, queue, calls, got,
           sends, cuts, decoded, handed, ids, lossy, loose>>

Nothing == [for |-> None, id |-> 0, cut |-> "none", n |-> 0, whole |-> TRUE]

XInit ==
  /\ phase = "new" /\ sock = "none" /\ crashed = FALSE
  /\ msgId = [s \in Streams |-> 0]
  /\ pend = [s \in Streams |-> <<>>] /\ partial = [s \in Streams |-> <<>>]
  /\ waiters = <<>> /\ queue = <<>>
  /\ calls = [c \in Readers |-> "idle"] /\ got = [c \in Readers |-> Nothing]
  /\ sends = 0 /\ cuts = 0 /\ decoded = 0 /\ handed = <<>> /\ ids = <<>>
  /\ lossy = {} /\ loose = FALSE

------------------------------------------------------------------------------
\* receiveResponse: the queue first, else a waiter with a timer.
ReceiveResponse(c) ==
  IF queue # <<>>
  THEN /\ got' = [got EXCEPT ![c] = Head(queue)] /\ calls' = [calls EXCEPT ![c] = "ok"]
       /\ handed' = Append(handed, Head(queue).n) /\ queue' = Tail(queue)
       /\ UNCHANGED waiters
  ELSE /\ waiters' = Append(waiters, c) /\ calls' = [calls EXCEPT ![c] = "waiting"]
       /\ UNCHANGED <<got, handed, queue>>

\* What has become of the receive of connect() decides connect().
ConnectReturns(outcome) ==
  phase' = IF phase # "handshake" THEN phase
           ELSE CASE outcome[Connector] \in {"ok", "empty"} -> "ready"
                  [] outcome[Connector] = "timeout"         -> "failed"
                  [] OTHER                                  -> phase

Dial ==
  /\ phase = "new" /\ phase' = "dialing"
  /\ UNCHANGED <<sock, crashed, msgId, pend, partial, waiters, queue, calls, got,
                 sends, cuts, decoded, handed, ids, lossy, loose>>

\* The handshake takes an id on each stream; then the peer's first message.
Dialed ==
  /\ phase = "dialing" /\ phase' = "handshake" /\ sock' = "open"
  /\ msgId' = [s \in Streams |-> msgId[s] + 1]
  /\ ReceiveResponse(Connector)
  /\ UNCHANGED <<crashed, pend, partial, sends, cuts, decoded, ids, lossy, loose>>

\* An error, or ten seconds.
DialFails ==
  /\ phase = "dialing" /\ phase' = "failed"
  /\ UNCHANGED <<sock, crashed, msgId, pend, partial, waiters, queue, calls, got,
                 sends, cuts, decoded, handed, ids, lossy, loose>>

\* sendRequest takes an id whether or not there is a socket to write to.
Request(c) ==
  /\ ~crashed /\ phase = "ready" /\ calls[c] = "idle"
  /\ msgId' = [msgId EXCEPT ![Root] = @ + 1]
  /\ ids' = Append(ids, [id |-> msgId[Root], from |-> c])
  /\ ReceiveResponse(c)
  /\ loose' = (loose \/ waiters # <<>> \/ queue # <<>>)
  /\ UNCHANGED <<phase, sock, crashed, pend, partial, sends, cuts, decoded, lossy>>

------------------------------------------------------------------------------
Cut(m) == IF m.cut \in Uncut THEN <<[m |-> m, part |-> 1]>>
          ELSE <<[m |-> m, part |-> 1], [m |-> m, part |-> 2]>>

\* The device sends a message: what it is, to a reader or unasked, and where it
\* is cut. A reply carries the id of its request.
Send(for, id, stream, cut) ==
  /\ ~crashed /\ sock = "open" /\ sends < MaxSends /\ sends' = sends + 1
  /\ cuts' = (IF cut \in Uncut THEN cuts ELSE cuts + 1) /\ cuts' <= MaxCuts
  /\ pend' = [pend EXCEPT ![stream] = @ \o Cut([for |-> for, id |-> id, cut |-> cut])]
  /\ loose' = (loose \/ (for = None /\ cut # "bare"))
  /\ UNCHANGED <<phase, sock, crashed, msgId, partial, waiters, queue, calls, got,
                 decoded, handed, ids, lossy>>

Answered(c) ==
  (\E s \in Streams : \E p \in ToSet(pend[s] \o partial[s]) : p.m.for = c) \/
  (\E r \in Readers : got[r].for = c) \/ \E m \in ToSet(queue) : m.for = c

DeviceSends ==
  \E s \in Streams :
    \/ \E cut \in Cuts \ {"bare"} :
         \/ phase = "handshake" /\ ~Answered(Connector) /\ s = Root /\ Send(Connector, 0, s, cut)
         \/ \E k \in DOMAIN ids : ~Answered(ids[k].from) /\ Send(ids[k].from, ids[k].id, s, cut)
         \/ phase = "ready" /\ Send(None, 0, s, cut)
    \/ Send(None, 0, s, "bare")

\* (mutant) The id of the message itself; the one before it.
SameId(m) == m.id
IdBefore(m) == m.id - 1

\* The next id on a stream follows the id of the message that came on it.
NextId(m) == m.id + 1

\* decodeXpcWrapper looks at the message the buffer starts with.
Whole(buf) == buf[1].m.cut \in Uncut \/ (Len(buf) > 1 /\ buf[2] = [m |-> buf[1].m, part |-> 2])
Short(p) == p.m.cut = IF p.part = 1 THEN "header" ELSE "tail"
Decode(buf) ==
  IF buf[1].m.cut = "bare" \/ \A p \in ToSet(buf) : Short(p) THEN "null"
  ELSE IF buf[1].part = 1 /\ (Whole(buf) \/ buf[1].m.cut \in Endings) THEN "message"
  ELSE "throw"

\* What is left of the buffer when a message was decoded is dropped with it.
Leftover(buf) == Len(buf) > IF Whole(buf) /\ buf[1].m.cut \notin Uncut THEN 2 ELSE 1
Loses(buf) == Leftover(buf) \/ ~Whole(buf)

\* _handleFrame, for a frame of one or two pieces.
HandleFrame(s, k) ==
  /\ ~crashed /\ sock = "open" /\ k <= Len(pend[s])
  /\ pend' = [pend EXCEPT ![s] = SubSeq(@, k + 1, Len(@))]
  /\ LET buf == partial[s] \o SubSeq(pend[s], 1, k) IN
     \/ /\ Decode(buf) = "throw"
        /\ partial' = [partial EXCEPT ![s] = buf]
        /\ UNCHANGED <<phase, msgId, waiters, queue, calls, got, decoded, handed, lossy>>
     \/ /\ Decode(buf) = "null"
        /\ partial' = [partial EXCEPT ![s] = <<>>]
        /\ lossy' = IF Loses(buf) THEN lossy \cup {s} ELSE lossy
        /\ UNCHANGED <<phase, msgId, waiters, queue, calls, got, decoded, handed>>
     \/ /\ Decode(buf) = "message"
        /\ partial' = [partial EXCEPT ![s] = <<>>]
        /\ lossy' = IF Loses(buf) THEN lossy \cup {s} ELSE lossy
        /\ msgId' = [msgId EXCEPT ![s] = NextId(buf[1].m)]
        /\ decoded' = decoded + 1
        /\ LET m == [for |-> buf[1].m.for, id |-> buf[1].m.id, cut |-> buf[1].m.cut,
                     n |-> decoded', whole |-> Whole(buf)] IN
           IF waiters # <<>>
           THEN /\ got' = [got EXCEPT ![Head(waiters)] = m]
                /\ calls' = [calls EXCEPT ![Head(waiters)] = "ok"]
                /\ waiters' = Tail(waiters) /\ handed' = Append(handed, m.n)
                /\ ConnectReturns(calls') /\ UNCHANGED queue
           ELSE queue' = Append(queue, m) /\ UNCHANGED <<phase, waiters, calls, got, handed>>
  /\ UNCHANGED <<sock, crashed, sends, cuts, ids, loose>>

------------------------------------------------------------------------------
\* (mutant) The waiter stays in line, as that of DtxChannel does.
TimeoutKeepsWaiter(c) ==
  /\ ~crashed /\ c \in ToSet(waiters) /\ calls[c] = "waiting"
  /\ calls' = [calls EXCEPT ![c] = "timeout"] /\ ConnectReturns(calls')
  /\ loose' = TRUE
  /\ UNCHANGED <<sock, crashed, msgId, pend, partial, waiters, queue, got, sends, cuts, decoded, handed, ids, lossy>>

\* The filter by identity: every waiter is a closure of its own.
LeavesLine(c) == \E i \in DOMAIN waiters : waiters[i] = c /\ waiters' = RemoveAt(waiters, i)

\* (mutant) The timer takes the waiter out and does not reject.
TimeoutSilent(c) ==
  /\ ~crashed /\ LeavesLine(c)
  /\ loose' = TRUE
  /\ UNCHANGED <<phase, sock, crashed, msgId, pend, partial, queue, calls, got, sends, cuts, decoded, handed, ids, lossy>>

\* Fifteen seconds: the waiter is taken out.
Timeout(c) ==
  /\ ~crashed /\ LeavesLine(c)
  /\ calls' = [calls EXCEPT ![c] = "timeout"] /\ ConnectReturns(calls')
  /\ loose' = TRUE
  /\ UNCHANGED <<sock, crashed, msgId, pend, partial, queue, got, sends, cuts, decoded, handed, ids, lossy>>

\* Every waiter is given {}.
WakeAll ==
  /\ calls' = [c \in Readers |-> IF c \in ToSet(waiters) THEN "empty" ELSE calls[c]]
  /\ waiters' = <<>> /\ ConnectReturns(calls')

\* The 'close' event: of the peer's end, or after close() destroyed the socket.
OnClose ==
  /\ ~crashed /\ sock \in {"open", "null"} /\ WakeAll
  /\ sock' = "closed" /\ pend' = [s \in Streams |-> <<>>] /\ loose' = TRUE
  /\ UNCHANGED <<crashed, msgId, partial, queue, got, sends, cuts, decoded, handed, ids, lossy>>

\* close(): whatever still arrives before the event is not read any more.
Close ==
  /\ ~crashed /\ sock = "open" /\ WakeAll
  /\ sock' = "null" /\ pend' = [s \in Streams |-> <<>>] /\ loose' = TRUE
  /\ UNCHANGED <<crashed, msgId, partial, queue, got, sends, cuts, decoded, handed, ids, lossy>>

\* emit('error') with no listener throws where nobody catches.
SocketError ==
  /\ ~crashed /\ sock = "open" /\ crashed' = TRUE
  /\ UNCHANGED <<phase, sock, msgId, pend, partial, waiters, queue, calls, got,
                 sends, cuts, decoded, handed, ids, lossy, loose>>

------------------------------------------------------------------------------
XNext ==
  \/ Dial \/ Dialed \/ DialFails \/ DeviceSends \/ OnClose \/ Close \/ SocketError
  \/ \E s \in Streams, k \in 1..2 : HandleFrame(s, k)
  \/ \E c \in Call : Request(c)
  \/ \E c \in Readers : Timeout(c)

------------------------------------------------------------------------------
Messages == [for : Readers \cup {None}, id : Nat, cut : Cuts]
Pieces == [m : Messages, part : {1, 2}]
Decoded == [for : Readers \cup {None}, id : Nat, cut : Cuts, n : Nat, whole : BOOLEAN]

XTypeOK ==
  /\ phase \in {"new", "dialing", "handshake", "ready", "failed"}
  /\ sock \in {"none", "open", "closed", "null"} /\ crashed \in BOOLEAN
  /\ msgId \in [Streams -> Nat] /\ lossy \subseteq Streams /\ loose \in BOOLEAN
  /\ pend \in [Streams -> Seq(Pieces)] /\ partial \in [Streams -> Seq(Pieces)]
  /\ waiters \in Seq(Readers) /\ queue \in Seq(Decoded) /\ handed \in Seq(Nat)
  /\ calls \in [Readers -> {"idle", "waiting", "ok", "empty", "timeout"}]
  /\ got \in [Readers -> Decoded] /\ ids \in Seq([id : Nat, from : Call])
  /\ sends \in 0..MaxSends /\ cuts \in 0..MaxCuts /\ decoded \in Nat

\* Every message that was decoded is handed to one reader or waits in the queue,
\* in the order of decoding, and none waits there while a reader waits: unlike
\* the channel of DTX, a receive that times out takes no message with it.
NothingLost ==
  /\ handed \o [k \in DOMAIN queue |-> queue[k].n] = [k \in 1..decoded |-> k]
  /\ queue # <<>> => waiters = <<>>
  /\ ToSet(waiters) = {c \in Readers : calls[c] = "waiting"}

\* A reader gets a whole message, unless it was cut inside a string at its end; what
\* is kept of a stream is the start of a message, unless a piece was dropped
\* before; and a request that ran alone, with nothing sent unasked, gets its own
\* reply and has an id no other request had.
OwnResponse ==
  /\ \A c \in Readers : calls[c] = "ok" => got[c].whole \/ got[c].cut \in Endings
  /\ \A s \in Streams \ lossy : Len(partial[s]) <= 1 /\ \A p \in ToSet(partial[s]) : p.part = 1
  /\ ~loose => /\ \A c \in Readers : calls[c] = "ok" => got[c].for = c
               /\ \A j, k \in DOMAIN ids : j # k => ids[j].id # ids[k].id
==============================================================================
