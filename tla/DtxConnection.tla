---------------------------- MODULE DtxConnection ----------------------------
(***************************************************************************)
(* One DTX connection (packages/core/src/dtx/connection.ts) and the        *)
(* registration of channels on it (dtx/provider.ts openChannel, DtxChannel *)
(* constructor and close).                                                 *)
(*                                                                         *)
(* send() numbers its message and writes it fragment by fragment, awaiting *)
(* the write callback of each; only after the last callback does it enter  *)
(* the pending map and start its timer.  Inbound fragments are reassembled *)
(* by identifier, so two messages that carry the same one (the device      *)
(* numbers its own) get mixed, and a whole message is a reply to a pending *)
(* send, an event for a registered channel, a control message, or dropped. *)
(*                                                                         *)
(* JavaScript runs one callback or promise continuation at a time, so each *)
(* of those is one action.  A continuation may be delayed past the next    *)
(* fragment: both can arrive in one data chunk, which _onData dispatches   *)
(* without yielding.  On a TLS socket the write callback runs from         *)
(* setImmediate, so a reply can be dispatched before it.                   *)
(***************************************************************************)
EXTENDS Integers, JsMap

CONSTANTS
  Open,     \* the openChannel() calls
  Invoke,   \* the invoke() calls
  Event,    \* the messages the device sends on its own account
  EvId,     \* the identifier the device gives each of them
  EvCode,   \* the channel each of them is for; 0 is the control channel
  OutFrags, \* the fragments each call's message takes on the wire
  InFrags,  \* the fragments of each message from the device
  None      \* no message

Call == Open \cup Invoke
Msg == Call \cup Event   \* a call in an inbound position is the reply to it

ASSUME CallsAssumption ==
  /\ Open \cap Invoke = {}
  /\ Call \cap Event = {}
  /\ None \notin Msg

ASSUME EventAssumption ==
  /\ EvId \in [Event -> Nat \ {0}]
  /\ EvCode \in [Event -> Nat]

ASSUME FragsAssumption ==
  /\ OutFrags \in [Call -> Nat \ {0}]
  /\ InFrags \in [Msg -> Nat \ {0}]

VARIABLES
  msgId,            \* the identifier the next send takes
  nextChannelCode,  \* the code the next openChannel takes
  closed,           \* _closed
  socket,           \* "open", or "gone": destroyed here or closed by the peer
  desync,           \* the read buffer starts with bytes that do not parse
  crashed,          \* the process is gone: an exception left _onData
  pending,          \* the pending map: identifier -> the call that waits
  channels,         \* the codes that have a handler
  notified,         \* the codes whose handler was told onClosed
  fragments,        \* identifier -> the header, the bodies by index, and their count
  st,               \* where each call is
  id,               \* the identifier each call took
  code,             \* the channel code each call is about
  oneWay,           \* the calls made with expectsReply = false
  left,             \* the fragments each call has yet to hand to the socket
  onDevice,         \* the calls whose last fragment went to an open socket
  begun,            \* the messages the device has begun to send
  progress,         \* how many fragments of each _onData has taken
  answer,           \* the header that each call's promise resolved with
  delivered,        \* the messages given to a channel's onMessage
  built,            \* (history) the messages put together from fragments
  collided          \* (history) those in the table while another had their identifier

connVars == <<closed, socket, desync, crashed>>
chanVars == <<channels, notified>>
sendVars == <<msgId, nextChannelCode, id, code, oneWay, left, onDevice>>
callVars == <<pending, st, answer>>
recvVars == <<fragments, progress, delivered, built, collided>>
vars == <<connVars, chanVars, sendVars, callVars, begun, recvVars>>

States == {"idle", "writing", "doomed", "waiting", "sent", "resolved",
           "opened", "rejected"}

------------------------------------------------------------------------------
\* The identifier and the channel code in the header of an inbound message. A
\* reply carries those of the request; an event, the device's own.
Ident(m) == IF m \in Call THEN id[m] ELSE EvId[m]
CodeOf(m) ==
  CASE m \in Open -> 0
    [] m \in Invoke -> code[m]
    [] OTHER -> EvCode[m]

\* (mutant) The pending map is consulted whatever the conversationIndex.
AnyConversation(m) == TRUE

\* Only replies have a conversationIndex above 0.
IsReply(m) == m \in Call

\* The codes of the DtxChannel objects the application holds.
Handles == {code[c] : c \in {o \in Open : st[o] = "opened"}}

\* Some of the message's fragments have been taken and some are to come.
Partial(m) == progress[m] \in 1..(InFrags[m] - 1)

\* The messages m finds half received under its identifier.
Twins(m) == {n \in Msg \ {m} : Partial(n) /\ Ident(n) = Ident(m)}

------------------------------------------------------------------------------
Init ==
  /\ msgId = 1 /\ nextChannelCode = 1
  /\ closed = FALSE /\ socket = "open" /\ desync = FALSE /\ crashed = FALSE
  /\ pending = Empty /\ channels = {} /\ notified = {} /\ fragments = Empty
  /\ st = [c \in Call |-> "idle"]
  /\ id = [c \in Call |-> 0]
  /\ code = [c \in Call |-> 0]
  /\ oneWay = {}
  /\ left = [c \in Call |-> 0]
  /\ onDevice = {}
  /\ begun = {}
  /\ progress = [m \in Msg |-> 0]
  /\ answer = [c \in Call |-> None]
  /\ delivered = {} /\ built = {} /\ collided = {}

\* Hands one fragment of c to the socket, rest of them remaining. On a socket
\* that is gone the write callback will report an error.
WriteFragment(c, rest) ==
  /\ left' = [left EXCEPT ![c] = rest]
  /\ st' = [st EXCEPT ![c] = IF socket = "open" THEN "writing" ELSE "doomed"]
  /\ onDevice' = IF socket = "open" /\ rest = 0 THEN onDevice \cup {c}
                                                 ELSE onDevice

\* (mutant) The identifier is read and not advanced.
ReadId(c) == id' = [id EXCEPT ![c] = msgId] /\ UNCHANGED msgId

TakeId(c) == id' = [id EXCEPT ![c] = msgId] /\ msgId' = msgId + 1

\* send() up to its first await: the identifier is taken whether or not the
\* connection is closed.
Send(c) ==
  /\ ~crashed /\ st[c] = "idle"
  /\ TakeId(c)
  /\ WriteFragment(c, OutFrags[c] - 1)
  /\ UNCHANGED <<connVars, chanVars, pending, answer, begun, recvVars>>

\* (mutant) The code is read and not advanced before the reply has come.
ReadCode(c) ==
  code' = [code EXCEPT ![c] = nextChannelCode] /\ UNCHANGED nextChannelCode

TakeCode(c) ==
  /\ code' = [code EXCEPT ![c] = nextChannelCode]
  /\ nextChannelCode' = nextChannelCode + 1

OpenChannel(c) ==
  /\ c \in Open
  /\ TakeCode(c)
  /\ UNCHANGED oneWay
  /\ Send(c)

InvokeOn(c, k, expectsReply) ==
  /\ c \in Invoke
  /\ k \in Handles
  /\ oneWay' = IF expectsReply THEN oneWay ELSE oneWay \cup {c}
  /\ code' = [code EXCEPT ![c] = k]
  /\ UNCHANGED nextChannelCode
  /\ Send(c)

\* The write callback reports success: the next fragment, or the wait for the
\* reply. A callback of a write made in time may run after the close.
WriteNext(c) ==
  /\ ~crashed /\ st[c] = "writing" /\ left[c] > 0
  /\ WriteFragment(c, left[c] - 1)
  /\ UNCHANGED <<msgId, nextChannelCode, id, code, oneWay, connVars, chanVars,
                 pending, answer, begun, recvVars>>

\* (mutant) Without the expectsReply branch: every send returns null.
WriteLastNeverWaits(c) ==
  /\ ~crashed /\ st[c] = "writing" /\ left[c] = 0
  /\ st' = [st EXCEPT ![c] = "sent"]
  /\ UNCHANGED <<connVars, chanVars, sendVars, pending, answer, begun, recvVars>>

WriteLast(c) ==
  /\ ~crashed /\ st[c] = "writing" /\ left[c] = 0
  /\ \/ /\ c \in oneWay
        /\ st' = [st EXCEPT ![c] = "sent"]
        /\ UNCHANGED pending
     \/ /\ c \notin oneWay
        /\ st' = [st EXCEPT ![c] = "waiting"]
        /\ pending' = Put(pending, id[c], c)
  /\ UNCHANGED <<connVars, chanVars, sendVars, answer, begun, recvVars>>

\* The write callback reports an error.
WriteFail(c) ==
  /\ ~crashed /\ (st[c] = "doomed" \/ (st[c] = "writing" /\ socket = "gone"))
  /\ st' = [st EXCEPT ![c] = "rejected"]
  /\ UNCHANGED <<connVars, chanVars, sendVars, pending, answer, begun, recvVars>>

\* (mutant) The timer rejects the promise and leaves the entry in the map.
TimeoutKeepsEntry(c) ==
  /\ ~crashed /\ st[c] = "waiting"
  /\ st' = [st EXCEPT ![c] = "rejected"]
  /\ UNCHANGED <<connVars, chanVars, sendVars, pending, answer, begun, recvVars>>

\* (mutant) The close stops the timers of calls that are not in the map yet.
TimeoutStopsAtClose(c) ==
  /\ ~crashed /\ st[c] = "waiting" /\ ~closed
  /\ pending' = Drop(pending, id[c])
  /\ st' = [st EXCEPT ![c] = "rejected"]
  /\ UNCHANGED <<connVars, chanVars, sendVars, answer, begun, recvVars>>

\* The timer a call starts when it enters the pending map.
Timeout(c) ==
  /\ ~crashed /\ st[c] = "waiting"
  /\ pending' = Drop(pending, id[c])
  /\ st' = [st EXCEPT ![c] = "rejected"]
  /\ UNCHANGED <<connVars, chanVars, sendVars, answer, begun, recvVars>>

\* The continuation of provider.openChannel: new DtxChannel registers its
\* handler, even on a connection closed since the reply.
RegisterChannel(c) ==
  /\ ~crashed /\ c \in Open /\ st[c] = "resolved"
  /\ st' = [st EXCEPT ![c] = "opened"]
  /\ channels' = channels \cup {code[c]}
  /\ UNCHANGED <<connVars, notified, sendVars, pending, answer, begun, recvVars>>

CloseChannel(k) ==
  /\ ~crashed /\ k \in channels
  /\ channels' = channels \ {k}
  /\ UNCHANGED <<connVars, notified, sendVars, callVars, begun, recvVars>>

------------------------------------------------------------------------------
\* The device. It numbers a reply as the request and its own messages as it
\* likes, so two of its messages may be in flight under one identifier.
DeviceReply(c) ==
  /\ ~crashed /\ socket = "open"
  /\ c \in onDevice \ oneWay /\ c \notin begun
  /\ begun' = begun \cup {c}
  /\ UNCHANGED <<connVars, chanVars, sendVars, callVars, recvVars>>

\* An event for a channel the device has been asked to open, or control.
DeviceEvent(e) ==
  /\ ~crashed /\ socket = "open" /\ e \notin begun
  /\ EvCode[e] = 0 \/ \E o \in Open \cap onDevice : code[o] = EvCode[e]
  /\ begun' = begun \cup {e}
  /\ UNCHANGED <<connVars, chanVars, sendVars, callVars, recvVars>>

\* _dispatchMessage: a reply goes to the send it answers if that one still
\* waits, anything else to the handler of its channel, or to the control
\* channel. Arguments that do not decode throw there, out of _onData.
Dispatch(m) ==
  LET i == Ident(m)
      Waited == IsReply(m) /\ i \in DOMAIN pending
  IN
  \* the body is shorter than a payload header, or nobody is there for it
  \/ UNCHANGED <<callVars, delivered, crashed>>
  \/ /\ Waited
     /\ st' = [st EXCEPT ![pending[i]] = "resolved"]
     /\ answer' = [answer EXCEPT ![pending[i]] = m]
     /\ pending' = Drop(pending, i)
     /\ UNCHANGED <<delivered, crashed>>
  \/ /\ ~Waited /\ CodeOf(m) \in channels
     /\ delivered' = delivered \cup {m}
     /\ UNCHANGED <<callVars, crashed>>
  \/ /\ ~Waited /\ CodeOf(m) \in channels \cup {0}
     /\ crashed' = TRUE
     /\ UNCHANGED <<callVars, delivered>>

\* (mutant) Off by one: fragment 0 is counted as if it had a body.
WholeCountsHeader(m, received) == received = InFrags[m]

\* As many bodies as the fragment at hand says its message has.
Whole(m, received) == received = InFrags[m] - 1

\* The entry f after a body of m, stored by its index in m.
Took(f, m) == [of |-> f.of, received |-> f.received + 1,
               parts |-> Put(f.parts, progress[m], m)]

\* A place in the array was never filled: Buffer.concat throws.
Hole(f) ==
  \E n \in DOMAIN f.parts \cup {InFrags[f.of] - 1} :
    \E k \in 1..n : k \notin DOMAIN f.parts

\* Fragment 0 of several carries no body and makes the entry anew, whatever
\* the identifier stood for.
FirstFragment(m) ==
  /\ InFrags[m] > 1 /\ progress[m] = 0
  /\ fragments' = Put(fragments, Ident(m), [of |-> m, received |-> 0, parts |-> Empty])
  /\ collided' = collided \cup
       IF Twins(m) = {} THEN {} ELSE Twins(m) \cup {m}
  /\ UNCHANGED <<callVars, delivered, built, crashed>>

\* A later fragment is dropped if its identifier has no entry. The entry, when
\* it is complete, is dispatched under the header it was made with.
LaterFragment(m) ==
  LET i == Ident(m)
      f == Took(fragments[i], m)
  IN
  /\ progress[m] > 0
  /\ UNCHANGED collided
  /\ \/ /\ i \notin DOMAIN fragments
        /\ UNCHANGED <<callVars, delivered, fragments, built, crashed>>
     \/ /\ i \in DOMAIN fragments /\ ~Whole(m, f.received)
        /\ fragments' = [fragments EXCEPT ![i] = f]
        /\ UNCHANGED <<callVars, delivered, built, crashed>>
     \/ /\ i \in DOMAIN fragments /\ Whole(m, f.received) /\ ~Hole(f)
        /\ fragments' = Drop(fragments, i)
        /\ built' = built \cup {[of |-> f.of, parts |-> f.parts]}
        /\ Dispatch(f.of)
     \/ /\ i \in DOMAIN fragments /\ Whole(m, f.received) /\ Hole(f)
        /\ fragments' = Drop(fragments, i)
        /\ crashed' = TRUE
        /\ UNCHANGED <<callVars, delivered, built>>

\* _onFragment on the next fragment of m.
OnFragment(m) ==
  /\ ~crashed /\ socket = "open" /\ ~desync
  /\ m \in begun /\ progress[m] < InFrags[m]
  /\ progress' = [progress EXCEPT ![m] = @ + 1]
  /\ \/ /\ InFrags[m] = 1
        /\ Dispatch(m)
        /\ UNCHANGED <<fragments, built, collided>>
     \/ FirstFragment(m)
     \/ LaterFragment(m)
  /\ UNCHANGED <<closed, socket, desync, chanVars, sendVars, begun>>

------------------------------------------------------------------------------
\* _onClose: once, every pending send is rejected and every handler told.
OnClose ==
  \/ closed /\ UNCHANGED <<closed, st, pending, notified>>
  \/ /\ ~closed
     /\ closed' = TRUE
     /\ st' = [c \in Call |-> IF \E i \in DOMAIN pending : pending[i] = c
                              THEN "rejected" ELSE st[c]]
     /\ pending' = Empty
     /\ notified' = notified \cup channels

\* (mutant) The bytes that do not parse are skipped and reading goes on.
BadFrameSkipsBytes ==
  /\ ~crashed /\ socket = "open" /\ ~desync
  /\ OnClose
  /\ UNCHANGED <<socket, desync, crashed, channels, sendVars, answer, begun, recvVars>>

\* Bytes that do not parse: the connection is closed but not the socket, and
\* the bytes stay at the head of the read buffer.
BadFrame ==
  /\ ~crashed /\ socket = "open" /\ ~desync
  /\ desync' = TRUE
  /\ OnClose
  /\ UNCHANGED <<socket, crashed, channels, sendVars, answer, begun, recvVars>>

\* close(), or the socket's 'close' or 'error' event.
Close ==
  /\ ~crashed /\ socket = "open"
  /\ socket' = "gone"
  /\ OnClose
  /\ UNCHANGED <<desync, crashed, channels, sendVars, answer, begun, recvVars>>

------------------------------------------------------------------------------
WriteStep(c) == WriteNext(c) \/ WriteLast(c) \/ WriteFail(c)

Next ==
  \/ \E c \in Call :
       \/ OpenChannel(c)
       \/ \E k \in Handles, r \in BOOLEAN : InvokeOn(c, k, r)
       \/ WriteStep(c)
       \/ Timeout(c)
       \/ RegisterChannel(c)
       \/ DeviceReply(c)
  \/ \E e \in Event : DeviceEvent(e)
  \/ \E m \in Msg : OnFragment(m)
  \/ \E k \in channels : CloseChannel(k)
  \/ BadFrame
  \/ Close

SafeSpec == Init /\ [][Next]_vars

\* The kernel completes or fails each write, and timers fire. Nothing is
\* assumed of the device.
Fairness == \A c \in Call : WF_vars(WriteStep(c)) /\ WF_vars(Timeout(c))

Spec == SafeSpec /\ Fairness

------------------------------------------------------------------------------
TypeOK ==
  /\ msgId \in Nat \ {0} /\ nextChannelCode \in Nat \ {0}
  /\ closed \in BOOLEAN /\ desync \in BOOLEAN /\ crashed \in BOOLEAN
  /\ socket \in {"open", "gone"}
  /\ DOMAIN pending \subseteq 1..(msgId - 1)
  /\ \A i \in DOMAIN pending : pending[i] \in Call \ oneWay
  /\ channels \subseteq 1..(nextChannelCode - 1)
  /\ notified \subseteq 1..(nextChannelCode - 1)
  /\ \A i \in DOMAIN fragments :
       fragments[i].of \in Msg /\ fragments[i].received \in Nat
  /\ st \in [Call -> States]
  /\ id \in [Call -> Nat] /\ code \in [Call -> Nat]
  /\ oneWay \subseteq Invoke /\ left \in [Call -> Nat]
  /\ onDevice \subseteq Call
  /\ begun \subseteq Msg /\ progress \in [Msg -> Nat]
  /\ answer \in [Call -> Msg \cup {None}]
  /\ delivered \subseteq Msg /\ collided \subseteq Msg

\* The pending map holds exactly the calls whose timer runs, each under its own
\* identifier: no call waits that a reply cannot find, and no entry outlives
\* its call to swallow a late reply (send's timer, _dispatchMessage, _onClose).
PendingIsWaiting ==
  /\ \A i \in DOMAIN pending : st[pending[i]] = "waiting" /\ id[pending[i]] = i
  /\ \A c \in Call : st[c] = "waiting" =>
       id[c] \in DOMAIN pending /\ pending[id[c]] = c

\* A promise resolves with the reply to its own message, and only when all of
\* it has come, though replies and events share the socket and the identifiers
\* (_onFragment, _dispatchMessage). A reply that collided with another message
\* in the fragment table still goes to no other call.
OwnReply ==
  \A c \in Call :
    IF st[c] \in {"resolved", "opened"}
    THEN answer[c] = c /\ (c \notin collided => progress[c] = InFrags[c])
    ELSE answer[c] = None

\* All n bodies of m and nothing else.
OwnBodies(m, parts, n) ==
  DOMAIN parts = 1..n /\ \A k \in 1..n : parts[k] = m

\* What keying the fragment table by identifier alone costs, and what it does
\* not: a message is mixed with another, cut, lost or left behind in the table
\* only if a fragment 0 with its identifier came between its own fragments or
\* it came so itself, and a message with an identifier of its own is whole and
\* pure whatever becomes of the others (_onFragment).
Reassembly ==
  /\ \A m \in Msg \ collided : Partial(m) =>
       /\ Ident(m) \in DOMAIN fragments
       /\ fragments[Ident(m)].of = m
       /\ fragments[Ident(m)].received = progress[m] - 1
       /\ OwnBodies(m, fragments[Ident(m)].parts, progress[m] - 1)
  /\ \A m \in Msg \ collided : InFrags[m] > 1 /\ progress[m] = InFrags[m] =>
       \E b \in built : b.of = m
  /\ \A b \in built : b.of \notin collided =>
       OwnBodies(b.of, b.parts, InFrags[b.of] - 1)
  /\ \A i \in DOMAIN fragments :
       fragments[i].of \in collided \/ Partial(fragments[i].of)
  /\ \A m \in collided : \E n \in collided \ {m} : Ident(n) = Ident(m)

\* Concurrent openChannel calls get codes of their own, so one DtxChannel
\* never takes over another's handler, and every handler's code is one the
\* device granted (openChannel, registerChannel).
DistinctChannels ==
  /\ \A a, b \in Open : a # b /\ st[a] # "idle" /\ st[b] # "idle" =>
       code[a] # code[b]
  /\ channels \subseteq Handles

\* Once the connection is closed no call is answered and no handler is given a
\* message, in particular none that was told onClosed; a call that enters the
\* pending map late, its write having completed, can only time out (_onClose
\* runs once, send does not look at _closed, a parse error leaves the socket
\* open).
QuietAfterClose ==
  [][closed => /\ delivered' = delivered
               /\ \A c \in Call : st'[c] = "resolved" => st[c] = "resolved"]_vars

------------------------------------------------------------------------------
\* What a caller of send() sees of the connection.
Outcome(c) ==
  CASE st[c] = "idle" -> "idle"
    [] st[c] \in {"writing", "doomed", "waiting"} -> "open"
    [] st[c] \in {"resolved", "opened"} -> "answered"
    [] st[c] = "sent" -> "sent"
    [] OTHER -> "failed"

RpcView == INSTANCE Rpc WITH outcome <- [c \in Call |-> Outcome(c)],
                             served <- Call \cap begun

\* A send settles at most once: resolved only by a reply the device sent to
\* it, otherwise rejected, whatever the device, the close and the other sends
\* do.
ImplementsRpc == RpcView!SafeSpec

\* Every send settles, if only by its timer, whatever the device sends, unless
\* what it sends ends the process (send, _onData).
EverySendSettles ==
  \A c \in Call : Outcome(c) = "open" ~> (Outcome(c) # "open" \/ crashed)
==============================================================================
