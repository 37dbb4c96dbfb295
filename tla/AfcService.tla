------------------------------ MODULE AfcService ------------------------------
(***************************************************************************)
(* The request layer of packages/core/src/services/AfcService.ts: numbered *)
(* packets on one socket, replies matched by packet number in whatever     *)
(* order they come, a timer and a write callback per request, and the      *)
(* socket's and the service's close.  Every file operation (listdir, stat, *)
(* fopen, fread, fwrite, ...) is a sequence of such requests.              *)
(*                                                                         *)
(* A request enters the pending map before it is written, so its reply can *)
(* never be missed; a write callback, a timer, a reply and a close may all *)
(* want to settle it.                                                      *)
(***************************************************************************)
EXTENDS Naturals, JsMap

CONSTANTS
  Req,    \* the calls of _request
  None    \* no request

ASSUME NoneAssumption == None \notin Req

VARIABLES
  packetNum,   \* the number the next request takes
  pending,     \* the pending map: packet number -> the request that waits
  st,          \* the promise of each request
  num,         \* the packet number each request took
  write,       \* the socket.write of each request
  answer,      \* the request whose reply each promise settled with
  replied,     \* the requests the device has replied to
  taken,       \* those whose reply _tryDispatch has read
  socket,      \* "open", or "gone": destroyed here or closed by the peer
  listening,   \* the service's listeners are on the socket
  told         \* the 'close' or 'error' listener has run

deviceVars == <<replied, taken>>
sockVars == <<socket, listening, told>>
vars == <<packetNum, pending, st, num, write, answer, deviceVars, sockVars>>

States == {"idle", "waiting", "resolved", "refused", "rejected"}
Writes == {"none", "inFlight", "done", "doomed"}

Init ==
  /\ packetNum = 0 /\ pending = Empty
  /\ st = [r \in Req |-> "idle"]
  /\ num = [r \in Req |-> 0]
  /\ write = [r \in Req |-> "none"]
  /\ answer = [r \in Req |-> None]
  /\ replied = {} /\ taken = {}
  /\ socket = "open" /\ listening = TRUE /\ told = FALSE

\* (mutant) this.packetNum for this.packetNum++.
ReadNum(r) == num' = [num EXCEPT ![r] = packetNum] /\ UNCHANGED packetNum

TakeNum(r) == num' = [num EXCEPT ![r] = packetNum] /\ packetNum' = packetNum + 1

\* _request: the map, the timer and the write in one go.
Request(r) ==
  /\ st[r] = "idle"
  /\ TakeNum(r)
  /\ st' = [st EXCEPT ![r] = "waiting"]
  /\ pending' = Put(pending, packetNum, r)
  /\ write' = [write EXCEPT ![r] = IF socket = "open" THEN "inFlight" ELSE "doomed"]
  /\ UNCHANGED <<answer, deviceVars, sockVars>>

\* The write callback without an error.
WriteDone(r) ==
  /\ write[r] = "inFlight"
  /\ write' = [write EXCEPT ![r] = "done"]
  /\ UNCHANGED <<packetNum, pending, st, num, answer, deviceVars, sockVars>>

\* r leaves the map; its promise rejects unless it has settled.
Reject(r) ==
  /\ pending' = Drop(pending, num[r])
  /\ st' = [st EXCEPT ![r] = IF @ = "waiting" THEN "rejected" ELSE @]

\* The write callback with an error, whatever became of the request meanwhile.
WriteError(r) ==
  /\ write[r] = "doomed" \/ (write[r] = "inFlight" /\ socket = "gone")
  /\ write' = [write EXCEPT ![r] = "done"]
  /\ Reject(r)
  /\ UNCHANGED <<packetNum, num, answer, deviceVars, sockVars>>

\* (mutant) The timer starts in the write callback, when the write is done.
TimeoutAfterWrite(r) ==
  /\ st[r] = "waiting" /\ write[r] = "done"
  /\ Reject(r)
  /\ UNCHANGED <<packetNum, num, write, answer, deviceVars, sockVars>>

\* The timer of a request; clearTimeout stops it when the request settles.
Timeout(r) ==
  /\ st[r] = "waiting"
  /\ Reject(r)
  /\ UNCHANGED <<packetNum, num, write, answer, deviceVars, sockVars>>

\* The device replies to a request it was sent, in any order.
DeviceReply(r) ==
  /\ write[r] \in {"inFlight", "done"} /\ socket = "open" /\ r \notin replied
  /\ replied' = replied \cup {r}
  /\ UNCHANGED <<packetNum, pending, st, num, write, answer, taken, sockVars>>

\* (mutant) The reply settles its request and leaves it in the map.
SettleKeeps(n, r, outcome) ==
  /\ st' = [st EXCEPT ![pending[n]] = outcome]
  /\ answer' = [answer EXCEPT ![pending[n]] = r]
  /\ UNCHANGED pending

\* (mutant) Replies settle requests in the order these were made.
SettleOldest(n, r, outcome) ==
  LET first == CHOOSE k \in DOMAIN pending : \A m \in DOMAIN pending : k <= m IN
  /\ st' = [st EXCEPT ![pending[first]] = outcome]
  /\ answer' = [answer EXCEPT ![pending[first]] = r]
  /\ pending' = Drop(pending, first)

\* The request pending under the number n settles with the reply to r.
Settle(n, r, outcome) ==
  /\ st' = [st EXCEPT ![pending[n]] = outcome]
  /\ answer' = [answer EXCEPT ![pending[n]] = r]
  /\ pending' = Drop(pending, n)

\* _tryDispatch on the reply to r: data, or a status that may be an error.
\* Nobody waits for a late one.
Dispatch(r, outcome) ==
  /\ socket = "open" /\ listening
  /\ r \in replied \ taken
  /\ taken' = taken \cup {r}
  /\ \/ num[r] \in DOMAIN pending /\ Settle(num[r], r, outcome)
     \/ num[r] \notin DOMAIN pending /\ UNCHANGED <<st, answer, pending>>
  /\ UNCHANGED <<packetNum, num, write, replied, sockVars>>

RejectAll ==
  /\ st' = [r \in Req |-> IF \E n \in DOMAIN pending : pending[n] = r
                          THEN "rejected" ELSE st[r]]
  /\ pending' = Empty

\* The peer closes or resets; the events follow.
PeerGone ==
  /\ socket = "open"
  /\ socket' = "gone"
  /\ UNCHANGED <<packetNum, pending, st, num, write, answer, deviceVars,
                 listening, told>>

\* The 'error' or 'close' listener.
SocketEvent ==
  /\ socket = "gone" /\ listening /\ ~told
  /\ told' = TRUE
  /\ RejectAll
  /\ UNCHANGED <<packetNum, num, write, answer, deviceVars, socket, listening>>

\* (mutant) close() relies on the 'close' event and removes the listener of it.
CloseWithoutRejecting ==
  /\ listening
  /\ listening' = FALSE /\ socket' = "gone"
  /\ UNCHANGED <<packetNum, pending, st, num, write, answer, deviceVars, told>>

\* close()
Close ==
  /\ listening
  /\ RejectAll
  /\ listening' = FALSE /\ socket' = "gone"
  /\ UNCHANGED <<packetNum, num, write, answer, deviceVars, told>>

Next ==
  \/ \E r \in Req :
       \/ Request(r) \/ WriteDone(r) \/ WriteError(r) \/ Timeout(r)
       \/ DeviceReply(r)
       \/ \E outcome \in {"resolved", "refused"} : Dispatch(r, outcome)
  \/ PeerGone
  \/ SocketEvent
  \/ Close

SafeSpec == Init /\ [][Next]_vars

\* Timers fire. Nothing is assumed of the device, the network or the kernel.
Spec == SafeSpec /\ \A r \in Req : WF_vars(Timeout(r))

------------------------------------------------------------------------------
TypeOK ==
  /\ packetNum \in Nat
  /\ DOMAIN pending \subseteq 0..(packetNum - 1)
  /\ \A n \in DOMAIN pending : pending[n] \in Req
  /\ st \in [Req -> States] /\ num \in [Req -> Nat] /\ write \in [Req -> Writes]
  /\ answer \in [Req -> Req \cup {None}]
  /\ replied \subseteq Req /\ taken \subseteq replied
  /\ socket \in {"open", "gone"} /\ listening \in BOOLEAN /\ told \in BOOLEAN

\* The pending map is exactly the requests whose promise is open, each under
\* its own number, whichever of reply, timer, write error and close comes
\* first: a late one finds nothing, and nothing else.
PendingIsWaiting ==
  /\ \A n \in DOMAIN pending : st[pending[n]] = "waiting" /\ num[pending[n]] = n
  /\ \A r \in Req : st[r] = "waiting" =>
       num[r] \in DOMAIN pending /\ pending[num[r]] = r

\* A request settles with the reply to itself, although replies may come in any
\* order and after other requests have given up.
OwnReply ==
  \A r \in Req : IF st[r] \in {"resolved", "refused"}
                 THEN answer[r] = r /\ r \in taken
                 ELSE answer[r] = None

\* "reject on write error so promise never hangs": once the service is closed,
\* or has been told that its socket is, the only requests that wait are those
\* made since, whose write callback is going to reject them (_rejectAll, BUG-04).
OnlyDoomedAfterClose ==
  told \/ ~listening =>
    \A r \in Req : st[r] = "waiting" => write[r] = "doomed"

------------------------------------------------------------------------------
Outcome(r) ==
  CASE st[r] = "idle" -> "idle"
    [] st[r] = "waiting" -> "open"
    [] st[r] \in {"resolved", "refused"} -> "answered"
    [] OTHER -> "failed"

RpcView == INSTANCE Rpc WITH Call <- Req, oneWay <- {},
                             outcome <- [r \in Req |-> Outcome(r)],
                             served <- replied

\* A request settles at most once: answered only with a reply the device sent
\* to it, otherwise failed.
ImplementsRpc == RpcView!SafeSpec

\* "30s timeout prevents callers from hanging when device goes offline
\* mid-transfer": every request settles whatever the device does (P2).
EveryRequestSettles == RpcView!EveryCallSettles
==============================================================================
