-------------------------- MODULE AfcService_proofs --------------------------
(***************************************************************************)
(* Theorems about AfcService for any set of requests.                      *)
(***************************************************************************)
EXTENDS AfcService, TLAPS

\* Map.delete removes the key and leaves every other entry alone.
LEMMA DropEntries ==
  ASSUME NEW m, NEW k
  PROVE  /\ DOMAIN Drop(m, k) = DOMAIN m \ {k}
         /\ \A x \in DOMAIN m \ {k} : Drop(m, k)[x] = m[x]
BY DEF Drop, Restrict

\* A new Map has no entry.
LEMMA EmptyDomain == DOMAIN Empty = {}
BY DEF Empty

\* Each request that has been made has a number of its own, below packetNum.
NumsDistinct ==
  /\ \A r \in Req : st[r] # "idle" => num[r] < packetNum
  /\ \A a, b \in Req : st[a] # "idle" /\ st[b] # "idle" /\ num[a] = num[b] => a = b

\* A request that has not been made is not known to the socket or the device.
IdleIsUnknown ==
  \A r \in Req : st[r] = "idle" => write[r] = "none" /\ r \notin replied

ToldMeansGone == told \/ ~listening => socket = "gone"

\* The inductive invariant.
IInv ==
  /\ TypeOK
  /\ NumsDistinct
  /\ IdleIsUnknown
  /\ ToldMeansGone
  /\ PendingIsWaiting
  /\ OwnReply
  /\ OnlyDoomedAfterClose

\* The inductive invariant holds initially.
LEMMA InitIInv == Init => IInv
<1> SUFFICES ASSUME Init PROVE IInv
  OBVIOUS
<1>1. DOMAIN pending = {}
  BY EmptyDomain DEF Init
<1> QED
  BY <1>1, NoneAssumption DEF Init, IInv, TypeOK, NumsDistinct, IdleIsUnknown, ToldMeansGone,
     PendingIsWaiting, OwnReply, OnlyDoomedAfterClose, States, Writes

\* Reject, shared by the timer and the write callback: if the request waits, its
\* entry and no other goes; if it does not, nothing changes.
LEMMA RejectSteps ==
  ASSUME IInv, NEW r \in Req, st[r] # "idle", Reject(r)
  PROVE  /\ DOMAIN pending' \subseteq DOMAIN pending
         /\ \A n \in DOMAIN pending' : pending'[n] = pending[n] /\ pending[n] # r
         /\ \A n \in DOMAIN pending : pending[n] # r => n \in DOMAIN pending'
         /\ st' \in [Req -> States]
         /\ \A q \in Req \ {r} : st'[q] = st[q]
         /\ st'[r] = IF st[r] = "waiting" THEN "rejected" ELSE st[r]
<1>1. /\ DOMAIN pending' = DOMAIN pending \ {num[r]}
      /\ \A n \in DOMAIN pending \ {num[r]} : pending'[n] = pending[n]
  BY DropEntries DEF Reject
<1>2. \A n \in DOMAIN pending : pending[n] \in Req /\ num[pending[n]] = n
                                /\ st[pending[n]] = "waiting"
  BY DEF IInv, TypeOK, PendingIsWaiting
<1>3. \A n \in DOMAIN pending : pending[n] = r <=> n = num[r]
  BY <1>2 DEF IInv, NumsDistinct
<1>4. st \in [Req -> States]
  BY DEF IInv, TypeOK
<1> QED
  BY <1>1, <1>2, <1>3, <1>4 DEF Reject, States

\* RejectAll, shared by close() and the socket's events: nobody waits after it.
LEMMA RejectAllSteps ==
  ASSUME IInv, RejectAll
  PROVE  /\ DOMAIN pending' = {}
         /\ st' \in [Req -> States]
         /\ \A r \in Req : st'[r] = IF st[r] = "waiting" THEN "rejected" ELSE st[r]
<1>1. DOMAIN pending' = {}
  BY EmptyDomain DEF RejectAll
<1>2. \A r \in Req : st[r] = "waiting" <=> \E n \in DOMAIN pending : pending[n] = r
  BY DEF IInv, PendingIsWaiting
<1>3. st \in [Req -> States]
  BY DEF IInv, TypeOK
<1> QED
  BY <1>1, <1>2, <1>3 DEF RejectAll, States

\* A reply finds its own request or nobody.
LEMMA PendingIsOwn ==
  ASSUME IInv, NEW r \in Req, st[r] # "idle", num[r] \in DOMAIN pending
  PROVE  pending[num[r]] = r /\ st[r] = "waiting"
BY DEF IInv, TypeOK, PendingIsWaiting, NumsDistinct

\* Every step preserves the inductive invariant.
LEMMA NextIInv == IInv /\ [Next]_vars => IInv'
<1> SUFFICES ASSUME IInv, [Next]_vars PROVE IInv'
  OBVIOUS
<1> USE DEF IInv
<1>1. ASSUME NEW r \in Req, Request(r) PROVE IInv'
  <2>1. /\ DOMAIN pending' = DOMAIN pending \cup {packetNum}
        /\ pending'[packetNum] = r
        /\ \A n \in DOMAIN pending \ {packetNum} : pending'[n] = pending[n]
    <3>1. pending' = Put(pending, packetNum, r)
      BY <1>1 DEF Request
    <3> QED
      BY <3>1 DEF Put
  <2>2. \A n \in DOMAIN pending : n # packetNum /\ pending[n] # r
    BY <1>1 DEF Request, TypeOK, PendingIsWaiting
  <2>3. TypeOK'
    BY <1>1, <2>1, <2>2 DEF Request, TakeNum, TypeOK, States, Writes, deviceVars, sockVars
  <2>4. NumsDistinct'
    BY <1>1 DEF Request, TakeNum, TypeOK, NumsDistinct
  <2>5. PendingIsWaiting'
    BY <1>1, <2>1, <2>2 DEF Request, TakeNum, TypeOK, PendingIsWaiting
  <2>6. OwnReply'
    BY <1>1 DEF Request, TypeOK, OwnReply, deviceVars
  <2>7. IdleIsUnknown' /\ ToldMeansGone' /\ OnlyDoomedAfterClose'
    BY <1>1 DEF Request, TypeOK, IdleIsUnknown, ToldMeansGone, OnlyDoomedAfterClose,
       deviceVars, sockVars
  <2> QED
    BY <2>3, <2>4, <2>5, <2>6, <2>7
<1>2. ASSUME NEW r \in Req, WriteDone(r) PROVE IInv'
  BY <1>2 DEF WriteDone, TypeOK, NumsDistinct, IdleIsUnknown, ToldMeansGone,
     PendingIsWaiting, OwnReply, OnlyDoomedAfterClose, Writes, deviceVars, sockVars
<1>3. ASSUME NEW r \in Req, WriteError(r) \/ Timeout(r) PROVE IInv'
  <2>1. st[r] # "idle" /\ Reject(r)
    BY <1>3 DEF WriteError, Timeout, IdleIsUnknown
  <2>2. /\ UNCHANGED <<packetNum, num, answer, deviceVars, sockVars>>
        /\ write' \in [Req -> Writes]
        /\ \A q \in Req : write'[q] = write[q] \/ (q = r /\ write'[q] = "done")
    BY <1>3 DEF WriteError, Timeout, TypeOK, Writes
  <2> DEFINE PendingShrinks ==
        /\ DOMAIN pending' \subseteq DOMAIN pending
        /\ \A n \in DOMAIN pending' : pending'[n] = pending[n] /\ pending[n] # r
        /\ \A n \in DOMAIN pending : pending[n] # r => n \in DOMAIN pending'
  <2> DEFINE StateSettles ==
        /\ st' \in [Req -> States]
        /\ \A q \in Req \ {r} : st'[q] = st[q]
        /\ st'[r] = IF st[r] = "waiting" THEN "rejected" ELSE st[r]
  <2>3. PendingShrinks /\ StateSettles
    BY <2>1, RejectSteps
  <2> HIDE DEF PendingShrinks, StateSettles
  <2>4. TypeOK'
    BY <2>2, <2>3 DEF PendingShrinks, StateSettles, TypeOK, deviceVars, sockVars
  <2>5. PendingIsWaiting'
    BY <2>2, <2>3 DEF PendingShrinks, StateSettles, TypeOK, PendingIsWaiting
  <2>6. NumsDistinct' /\ IdleIsUnknown' /\ ToldMeansGone' /\ OnlyDoomedAfterClose'
    BY <2>1, <2>2, <2>3 DEF StateSettles, TypeOK, NumsDistinct, IdleIsUnknown,
       ToldMeansGone, OnlyDoomedAfterClose, deviceVars, sockVars
  <2>7. OwnReply'
    BY <2>2, <2>3 DEF StateSettles, TypeOK, OwnReply, deviceVars
  <2> QED
    BY <2>4, <2>5, <2>6, <2>7
<1>4. ASSUME NEW r \in Req, DeviceReply(r) PROVE IInv'
  BY <1>4 DEF DeviceReply, TypeOK, NumsDistinct, IdleIsUnknown, ToldMeansGone,
     PendingIsWaiting, OwnReply, OnlyDoomedAfterClose, Writes, sockVars
<1>5. ASSUME NEW r \in Req, NEW outcome \in {"resolved", "refused"}, Dispatch(r, outcome)
      PROVE  IInv'
  <2>1. st[r] # "idle" /\ r \in replied \ taken
    BY <1>5 DEF Dispatch, IdleIsUnknown
  <2>2. CASE num[r] \notin DOMAIN pending
    BY <1>5, <2>2 DEF Dispatch, TypeOK, NumsDistinct, IdleIsUnknown, ToldMeansGone,
       PendingIsWaiting, OwnReply, OnlyDoomedAfterClose, sockVars
  <2>3. CASE num[r] \in DOMAIN pending
    <3>1. pending[num[r]] = r /\ st[r] = "waiting"
      BY <2>1, <2>3, PendingIsOwn
    <3>2. /\ st' = [st EXCEPT ![r] = outcome]
          /\ answer' = [answer EXCEPT ![r] = r]
          /\ taken' = taken \cup {r}
          /\ UNCHANGED <<packetNum, num, write, replied, sockVars>>
      BY <1>5, <2>3, <3>1 DEF Dispatch, Settle
    <3>3. /\ DOMAIN pending' = DOMAIN pending \ {num[r]}
          /\ \A n \in DOMAIN pending \ {num[r]} : pending'[n] = pending[n]
      <4>1. pending' = Drop(pending, num[r])
        BY <1>5, <2>3 DEF Dispatch, Settle
      <4> QED
        BY <4>1, DropEntries
    <3>4. \A n \in DOMAIN pending \ {num[r]} : pending[n] # r
      BY DEF TypeOK, PendingIsWaiting
    <3>5. TypeOK'
      BY <2>1, <3>2, <3>3 DEF TypeOK, States, sockVars
    <3>6. PendingIsWaiting'
      <4>1. \A q \in Req \ {r} : st[q] = "waiting" => num[q] # num[r]
        BY <2>1 DEF NumsDistinct
      <4> QED
        BY <3>2, <3>3, <3>4, <4>1 DEF TypeOK, PendingIsWaiting
    <3>7. OwnReply'
      BY <3>2 DEF TypeOK, OwnReply
    <3>8. NumsDistinct' /\ IdleIsUnknown' /\ ToldMeansGone' /\ OnlyDoomedAfterClose'
      BY <2>1, <3>2 DEF TypeOK, NumsDistinct, IdleIsUnknown, ToldMeansGone,
         OnlyDoomedAfterClose, sockVars
    <3> QED
      BY <3>5, <3>6, <3>7, <3>8
  <2> QED
    BY <2>2, <2>3
<1>6. CASE PeerGone
  BY <1>6 DEF PeerGone, TypeOK, NumsDistinct, IdleIsUnknown, ToldMeansGone,
     PendingIsWaiting, OwnReply, OnlyDoomedAfterClose, deviceVars
<1>7. CASE SocketEvent \/ Close
  <2>1. RejectAll /\ socket' = "gone" /\ listening' \in BOOLEAN /\ told' \in BOOLEAN
    BY <1>7 DEF SocketEvent, Close, TypeOK
  <2>2. UNCHANGED <<packetNum, num, write, answer, deviceVars>>
    BY <1>7 DEF SocketEvent, Close
  <2>3. /\ DOMAIN pending' = {}
        /\ st' \in [Req -> States]
        /\ \A r \in Req : st'[r] = IF st[r] = "waiting" THEN "rejected" ELSE st[r]
    BY <2>1, RejectAllSteps
  <2>4. TypeOK'
    BY <2>1, <2>2, <2>3 DEF TypeOK, deviceVars
  <2>5. NumsDistinct' /\ IdleIsUnknown' /\ ToldMeansGone'
    BY <2>1, <2>2, <2>3 DEF NumsDistinct, IdleIsUnknown, ToldMeansGone, deviceVars
  <2>6. PendingIsWaiting' /\ OnlyDoomedAfterClose'
    BY <2>3 DEF PendingIsWaiting, OnlyDoomedAfterClose
  <2>7. OwnReply'
    BY <2>2, <2>3 DEF OwnReply, deviceVars
  <2> QED
    BY <2>4, <2>5, <2>6, <2>7
<1>8. CASE UNCHANGED vars
  BY <1>8 DEF vars, TypeOK, NumsDistinct, IdleIsUnknown, ToldMeansGone,
     PendingIsWaiting, OwnReply, OnlyDoomedAfterClose, deviceVars, sockVars
<1> QED
  BY <1>1, <1>2, <1>3, <1>4, <1>5, <1>6, <1>7, <1>8 DEF Next

\* The inductive invariant holds in every behaviour, fair or not.
THEOREM Invariance == SafeSpec => []IInv
BY InitIInv, NextIInv, PTL DEF SafeSpec

\* The pending map is exactly the open requests (_request, _tryDispatch, the
\* timer, the write callback, _rejectAll).
THEOREM PendingTheorem == SafeSpec => []PendingIsWaiting
<1>1. IInv => PendingIsWaiting
  BY DEF IInv
<1> QED
  BY <1>1, Invariance, PTL

\* A request settles with the reply to itself (_tryDispatch).
THEOREM OwnReplyTheorem == SafeSpec => []OwnReply
<1>1. IInv => OwnReply
  BY DEF IInv
<1> QED
  BY <1>1, Invariance, PTL

\* After a close only requests whose write is about to fail wait (BUG-04).
THEOREM CloseTheorem == SafeSpec => []OnlyDoomedAfterClose
<1>1. IInv => OnlyDoomedAfterClose
  BY DEF IInv
<1> QED
  BY <1>1, Invariance, PTL

\* The variables keep their types, and the pending map's keys are numbers taken.
THEOREM TypeTheorem == SafeSpec => []TypeOK
<1>1. IInv => TypeOK
  BY DEF IInv
<1> QED
  BY <1>1, Invariance, PTL

------------------------------------------------------------------------------
Seen == [r \in Req |-> Outcome(r)]

\* What the caller of a request sees changes only when the promise does.
LEMMA SeenAfter ==
  ASSUME NEW r \in Req, NEW o, \A q \in Req \ {r} : st'[q] = st[q],
         Outcome(r)' = o
  PROVE  Seen' = [Seen EXCEPT ![r] = o]
<1>1. \A q \in Req \ {r} : Outcome(q)' = Outcome(q)
  BY DEF Outcome
<1> QED
  BY <1>1 DEF Seen

\* A step that settles no promise is a step that no caller sees.
LEMMA SeenSame ==
  ASSUME UNCHANGED st
  PROVE  Seen' = Seen
BY DEF Seen, Outcome

\* The initial states are initial states of Rpc.
LEMMA RefinesInit == Init => RpcView!Init
BY DEF Init, RpcView!Init, Outcome

\* Every step is a step of Rpc or one its callers do not see.
LEMMA RefinesNext == IInv /\ [Next]_vars => [RpcView!Next]_RpcView!vars
<1> SUFFICES ASSUME IInv, [Next]_vars PROVE [RpcView!Next]_RpcView!vars
  OBVIOUS
<1> DEFINE Stutter == Seen' = Seen /\ replied' = replied
<1>a. Stutter => UNCHANGED RpcView!vars
  BY DEF RpcView!vars, Seen
<1>b. ASSUME NEW S \in SUBSET Req, \A r \in S : st[r] = "waiting" /\ st'[r] = "rejected",
             \A r \in Req \ S : st'[r] = st[r], replied' = replied
      PROVE  [RpcView!Next]_RpcView!vars
  <2>1. CASE S = {}
    <3>1. Seen' = Seen
      BY <1>b, <2>1 DEF Seen, Outcome
    <3> QED
      BY <1>a, <1>b, <3>1
  <2>2. CASE S # {}
    <3>1. \A r \in Req : Outcome(r)' = IF r \in S THEN "failed" ELSE Outcome(r)
      BY <1>b DEF Outcome
    <3>2. \A r \in S : Seen[r] = "open"
      BY <1>b DEF Seen, Outcome
    <3>3. RpcView!Fail(S)
      BY <1>b, <2>2, <3>1, <3>2 DEF RpcView!Fail, Seen
    <3> QED
      BY <3>3 DEF RpcView!Next
  <2> QED
    BY <2>1, <2>2
<1> HIDE DEF Stutter
<1>1. ASSUME NEW r \in Req, Request(r) PROVE RpcView!Next
  <2>1. Seen[r] = "idle" /\ Seen' = [Seen EXCEPT ![r] = "open"]
    <3>1. st[r] = "idle" /\ st' = [st EXCEPT ![r] = "waiting"] /\ st \in [Req -> States]
      BY <1>1 DEF Request, IInv, TypeOK
    <3>2. Outcome(r)' = "open"
      BY <3>1 DEF Outcome
    <3> QED
      BY <3>1, <3>2, SeenAfter DEF Seen, Outcome
  <2>2. replied' = replied
    BY <1>1 DEF Request, deviceVars
  <2> QED
    BY <2>1, <2>2 DEF RpcView!Next, RpcView!Start, Seen
<1>2. ASSUME NEW r \in Req, WriteDone(r) PROVE UNCHANGED RpcView!vars
  BY <1>2, <1>a, SeenSame DEF WriteDone, deviceVars, Stutter
<1>3. ASSUME NEW r \in Req, WriteError(r) \/ Timeout(r)
      PROVE  [RpcView!Next]_RpcView!vars
  <2>1. st[r] # "idle" /\ Reject(r) /\ replied' = replied
    BY <1>3 DEF WriteError, Timeout, IInv, IdleIsUnknown, deviceVars
  <2>2. /\ \A q \in Req \ {r} : st'[q] = st[q]
        /\ st'[r] = IF st[r] = "waiting" THEN "rejected" ELSE st[r]
    BY <2>1, RejectSteps
  <2>3. CASE st[r] = "waiting"
    BY <1>b, <2>1, <2>2, <2>3
  <2>4. CASE st[r] # "waiting"
    <3>1. \A q \in Req : st'[q] = st[q]
      BY <2>2, <2>4
    <3>2. Seen' = Seen
      BY <3>1 DEF Seen, Outcome
    <3> QED
      BY <1>a, <2>1, <3>2 DEF Stutter
  <2> QED
    BY <2>3, <2>4
<1>4. ASSUME NEW r \in Req, DeviceReply(r) PROVE RpcView!Next
  <2>1. Seen[r] # "idle" /\ Seen' = Seen
    BY <1>4, SeenSame DEF DeviceReply, Seen, Outcome, IInv, IdleIsUnknown, TypeOK, States
  <2> QED
    BY <1>4, <2>1 DEF DeviceReply, RpcView!Next, RpcView!Serve, Seen
<1>5. ASSUME NEW r \in Req, NEW outcome \in {"resolved", "refused"}, Dispatch(r, outcome)
      PROVE  [RpcView!Next]_RpcView!vars
  <2>1. st[r] # "idle" /\ r \in replied /\ replied' = replied
    BY <1>5 DEF Dispatch, IInv, IdleIsUnknown
  <2>2. CASE num[r] \notin DOMAIN pending
    <3>1. UNCHANGED st
      BY <1>5, <2>2 DEF Dispatch
    <3>2. Stutter
      BY <2>1, <3>1, SeenSame DEF Stutter
    <3> QED
      BY <1>a, <3>2
  <2>3. CASE num[r] \in DOMAIN pending
    <3>1. pending[num[r]] = r /\ st[r] = "waiting"
      BY <2>1, <2>3, PendingIsOwn
    <3>2. st' = [st EXCEPT ![r] = outcome] /\ st \in [Req -> States]
      BY <1>5, <2>3, <3>1 DEF Dispatch, Settle, IInv, TypeOK
    <3>3. Outcome(r)' = "answered"
      BY <3>2 DEF Outcome
    <3>4. Seen[r] = "open" /\ Seen' = [Seen EXCEPT ![r] = "answered"]
      BY <3>1, <3>2, <3>3, SeenAfter DEF Seen, Outcome
    <3> QED
      BY <2>1, <3>4 DEF RpcView!Next, RpcView!Answer, Seen
  <2> QED
    BY <2>2, <2>3
<1>6. CASE PeerGone
  BY <1>6, <1>a, SeenSame DEF PeerGone, deviceVars, Stutter
<1>7. CASE SocketEvent \/ Close
  <2>1. RejectAll /\ replied' = replied
    BY <1>7 DEF SocketEvent, Close, deviceVars
  <2>2. \A r \in Req : st'[r] = IF st[r] = "waiting" THEN "rejected" ELSE st[r]
    BY <2>1, RejectAllSteps
  <2> DEFINE S == {r \in Req : st[r] = "waiting"}
  <2>3. /\ S \in SUBSET Req
        /\ \A r \in S : st[r] = "waiting" /\ st'[r] = "rejected"
        /\ \A r \in Req \ S : st'[r] = st[r]
    BY <2>2
  <2> HIDE DEF S
  <2> QED
    BY <1>b, <2>1, <2>3
<1>8. CASE UNCHANGED vars
  BY <1>8, <1>a, SeenSame DEF vars, deviceVars, Stutter
<1> QED
  BY <1>1, <1>2, <1>3, <1>4, <1>5, <1>6, <1>7, <1>8 DEF Next

\* The service implements Rpc: each request settles at most once, with its own
\* reply or not at all.
THEOREM Refinement == SafeSpec => ImplementsRpc
BY RefinesInit, RefinesNext, Invariance, PTL DEF SafeSpec, ImplementsRpc, RpcView!SafeSpec
==============================================================================
