------------------------- MODULE DtxConnection_proofs -------------------------
(***************************************************************************)
(* Theorems about DtxConnection for any calls, events and fragment counts. *)
(***************************************************************************)
EXTENDS DtxConnection, TLAPS

\* Map.delete removes the key and leaves every other entry alone.
LEMMA DropEntries ==
  ASSUME NEW m, NEW k
  PROVE  /\ DOMAIN Drop(m, k) = DOMAIN m \ {k}
         /\ \A x \in DOMAIN m \ {k} : Drop(m, k)[x] = m[x]
BY DEF Drop, Restrict

\* A new Map has no entry.
LEMMA EmptyDomain == DOMAIN Empty = {}
BY DEF Empty

\* Numbers that have been taken stay taken.
LEMMA RangeGrows ==
  ASSUME NEW a \in Nat, NEW b \in Nat, a <= b
  PROVE  1..(a - 1) \subseteq 1..(b - 1)
OBVIOUS

\* Each call made has an identifier of its own, each openChannel a code.
IdsDistinct ==
  /\ \A c \in Call : st[c] # "idle" => id[c] \in 1..(msgId - 1)
  /\ \A a, b \in Call : st[a] # "idle" /\ st[b] # "idle" /\ id[a] = id[b] => a = b

CodesTaken ==
  \A o \in Open : st[o] # "idle" => code[o] \in 1..(nextChannelCode - 1)

\* The device knows, and replies to, only calls that have been made.
DeviceKnowsCalls ==
  \A c \in Call : c \in onDevice \/ c \in begun => st[c] # "idle"

\* Half-received messages that share an identifier have collided; what the
\* table and the histories name has been begun, so its identifier stays.
Collisions ==
  /\ \A m \in Msg : m \notin begun => progress[m] = 0
  /\ \A m, n \in Msg : Partial(m) /\ Partial(n) /\ Ident(m) = Ident(n) /\ m # n =>
       m \in collided
  /\ collided \subseteq begun
  /\ \A b \in built : b.of \in begun
  /\ \A i \in DOMAIN fragments :
       fragments[i].of \in begun /\ Ident(fragments[i].of) = i

\* The message named by an entry of the next state's table is half received.
PartialNext(m) == progress'[m] \in 1..(InFrags[m] - 1)

ClosedIsDeaf == closed => socket = "gone" \/ desync

\* The inductive invariant.
IInv ==
  /\ TypeOK
  /\ IdsDistinct /\ CodesTaken /\ DeviceKnowsCalls
  /\ Collisions /\ Reassembly
  /\ PendingIsWaiting /\ OwnReply
  /\ DistinctChannels /\ ClosedIsDeaf

\* The inductive invariant holds initially.
LEMMA InitIInv == Init => IInv
<1> SUFFICES ASSUME Init PROVE IInv
  OBVIOUS
<1>1. DOMAIN pending = {} /\ DOMAIN fragments = {}
  BY EmptyDomain DEF Init
<1>2. TypeOK
  <2>1. /\ DOMAIN pending \subseteq 1..(msgId - 1)
        /\ \A i \in DOMAIN pending : pending[i] \in Call \ oneWay
        /\ \A i \in DOMAIN fragments :
             fragments[i].of \in Msg /\ fragments[i].received \in Nat
    BY <1>1
  <2>2. msgId \in Nat \ {0} /\ nextChannelCode \in Nat \ {0}
    BY DEF Init
  <2>3. closed \in BOOLEAN /\ desync \in BOOLEAN /\ crashed \in BOOLEAN /\ socket \in {"open", "gone"}
    BY DEF Init
  <2>4. st \in [Call -> States]
    BY DEF Init, States
  <2> QED
    BY <2>1, <2>2, <2>3, <2>4 DEF Init, TypeOK
<1>3. Collisions /\ Reassembly
  BY <1>1, FragsAssumption DEF Init, Collisions, Reassembly, Partial
<1>4. IdsDistinct /\ CodesTaken /\ DeviceKnowsCalls /\ ClosedIsDeaf
  BY DEF Init, IdsDistinct, CodesTaken, DeviceKnowsCalls, ClosedIsDeaf, Call
<1>5. PendingIsWaiting /\ OwnReply /\ DistinctChannels
  BY <1>1 DEF Init, PendingIsWaiting, OwnReply, DistinctChannels, Call
<1> QED
  BY <1>2, <1>3, <1>4, <1>5 DEF IInv

------------------------------------------------------------------------------
\* The fragment table is safe from any step that leaves it, its histories and
\* the identifiers of the messages begun alone.
LEMMA FragmentsUnchanged ==
  ASSUME IInv, UNCHANGED <<progress, fragments, built, collided>>,
         begun \subseteq begun',
         \A m \in begun : Ident(m)' = Ident(m)
  PROVE  Collisions' /\ Reassembly'
<1>1. \A m \in Msg : Partial(m)' <=> Partial(m)
  BY DEF Partial
<1>2. \A m \in Msg : Partial(m) => m \in begun
  BY DEF Partial, IInv, Collisions
<1>3. Collisions'
  BY <1>1, <1>2 DEF IInv, Collisions
<1>4. \A i \in DOMAIN fragments : fragments[i].of \in Msg
  BY DEF IInv, TypeOK
<1>5. collided \subseteq begun
  BY DEF IInv, Collisions
<1>6. Reassembly'
  <2>1. \A m \in Msg \ collided' : Partial(m)' =>
          /\ Ident(m)' \in DOMAIN fragments' /\ fragments'[Ident(m)'].of = m
          /\ fragments'[Ident(m)'].received = progress'[m] - 1
          /\ OwnBodies(m, fragments'[Ident(m)'].parts, progress'[m] - 1)
    BY <1>1, <1>2 DEF IInv, Reassembly
  <2>2. \A i \in DOMAIN fragments' :
          fragments'[i].of \in collided' \/ PartialNext(fragments'[i].of)
    BY <1>4 DEF IInv, Reassembly, Partial, PartialNext
  <2>3. \A m \in collided' : \E n \in collided' \ {m} : Ident(n)' = Ident(m)'
    BY <1>5 DEF IInv, Reassembly
  <2>4. /\ \A m \in Msg \ collided' : InFrags[m] > 1 /\ progress'[m] = InFrags[m] =>
              \E b \in built' : b.of = m
        /\ \A b \in built' : b.of \notin collided' =>
              OwnBodies(b.of, b.parts, InFrags[b.of] - 1)
    BY DEF IInv, Reassembly
  <2> QED
    BY <2>1, <2>2, <2>3, <2>4 DEF Reassembly, OwnBodies, Partial, PartialNext
<1> QED
  BY <1>3, <1>6

\* The same when the identifiers are all unchanged.
LEMMA FragmentsSame ==
  ASSUME IInv, UNCHANGED <<progress, fragments, built, collided, id>>,
         begun \subseteq begun'
  PROVE  Collisions' /\ Reassembly'
<1>1. \A m \in begun : Ident(m)' = Ident(m)
  BY DEF Ident
<1> QED
  BY <1>1, FragmentsUnchanged

\* A call leaves the map and no other entry changes.
LEMMA DropOwn ==
  ASSUME IInv, NEW c \in Call, st[c] = "waiting", pending' = Drop(pending, id[c])
  PROVE  /\ DOMAIN pending' = DOMAIN pending \ {id[c]}
         /\ \A i \in DOMAIN pending' :
              pending'[i] = pending[i] /\ pending[i] \in Call \ {c}
         /\ \A d \in Call \ {c} : st[d] = "waiting" => id[d] # id[c]
<1>1. /\ DOMAIN pending' = DOMAIN pending \ {id[c]}
      /\ \A i \in DOMAIN pending \ {id[c]} : pending'[i] = pending[i]
  BY DropEntries
<1>2. \A i \in DOMAIN pending : pending[i] \in Call /\ id[pending[i]] = i
  BY DEF IInv, TypeOK, PendingIsWaiting
<1>3. \A d \in Call \ {c} : st[d] = "waiting" => id[d] # id[c]
  BY DEF IInv, IdsDistinct
<1> QED
  BY <1>1, <1>2, <1>3

\* The state of one call changes and no identifier or code: what the other
\* calls' part of the invariant needs to know.
LEMMA OneCallMoves ==
  ASSUME IInv, NEW c \in Call, st[c] # "idle", NEW s \in States \ {"idle"},
         st' = [st EXCEPT ![c] = s],
         UNCHANGED <<msgId, nextChannelCode, id, code, begun>>,
         onDevice' \subseteq onDevice \cup {c}
  PROVE  IdsDistinct' /\ CodesTaken' /\ DeviceKnowsCalls'
<1>1. \A d \in Call : st'[d] # "idle" <=> st[d] # "idle"
  BY DEF IInv, TypeOK
<1>2. IdsDistinct' /\ CodesTaken'
  BY <1>1 DEF IInv, IdsDistinct, CodesTaken, Call
<1>3. DeviceKnowsCalls'
  BY <1>1 DEF IInv, DeviceKnowsCalls
<1> QED
  BY <1>2, <1>3

\* No channel handle is lost or gained when no call becomes or stops being open.
LEMMA HandlesSame ==
  ASSUME \A o \in Open : st'[o] = "opened" <=> st[o] = "opened",
         \A o \in Open : st[o] = "opened" => code'[o] = code[o]
  PROVE  Handles' = Handles
BY DEF Handles

------------------------------------------------------------------------------
\* A call is made: openChannel or invoke, up to the first await of send.
LEMMA StartIInv ==
  ASSUME IInv, NEW c \in Call, NEW x \in Nat, Send(c),
         code' = [code EXCEPT ![c] = x],
         \/ /\ c \in Open /\ x = nextChannelCode
            /\ nextChannelCode' = nextChannelCode + 1 /\ oneWay' = oneWay
         \/ /\ c \in Invoke
            /\ nextChannelCode' = nextChannelCode
            /\ oneWay' \in {oneWay, oneWay \cup {c}}
  PROVE  IInv'
<1>1. /\ st[c] = "idle" /\ st'[c] \in {"writing", "doomed"} /\ st' \in [Call -> States]
      /\ \A d \in Call \ {c} : st'[d] = st[d]
  BY DEF Send, WriteFragment, IInv, TypeOK, States
<1>2. /\ id'[c] = msgId /\ msgId' = msgId + 1 /\ id' \in [Call -> Nat]
      /\ \A d \in Call \ {c} : id'[d] = id[d]
  BY DEF Send, TakeId, IInv, TypeOK
<1>3. code' \in [Call -> Nat] /\ \A d \in Call \ {c} : code'[d] = code[d]
  BY DEF IInv, TypeOK
<1>4. /\ UNCHANGED <<closed, socket, desync, crashed, channels, notified, pending, answer,
                     begun, fragments, progress, delivered, built, collided>>
  BY DEF Send, connVars, chanVars, recvVars
<1>5. left' \in [Call -> Nat] /\ onDevice' \in {onDevice, onDevice \cup {c}}
  <2>1. OutFrags[c] - 1 \in Nat
    BY FragsAssumption
  <2>2. left' = [left EXCEPT ![c] = OutFrags[c] - 1] /\ left \in [Call -> Nat]
    BY DEF Send, WriteFragment, IInv, TypeOK
  <2>3. onDevice' \in {onDevice, onDevice \cup {c}}
    BY DEF Send, WriteFragment
  <2> QED
    BY <2>1, <2>2, <2>3
<1>6. nextChannelCode' \in Nat \ {0} /\ nextChannelCode' >= nextChannelCode
  BY DEF IInv, TypeOK
<1>7. \A i \in DOMAIN pending : pending[i] \in Call \ {c}
  BY <1>1 DEF IInv, TypeOK, PendingIsWaiting
<1>8. TypeOK'
  <2>1. msgId' \in Nat \ {0} /\ DOMAIN pending' \subseteq 1..(msgId' - 1)
    BY <1>2, <1>4 DEF IInv, TypeOK
  <2>2. \A i \in DOMAIN pending' : pending'[i] \in Call \ oneWay'
    BY <1>4, <1>7 DEF IInv, TypeOK
  <2>3. channels' \subseteq 1..(nextChannelCode' - 1) /\ notified' \subseteq 1..(nextChannelCode' - 1)
    <3>1. channels \subseteq 1..(nextChannelCode - 1) /\ notified \subseteq 1..(nextChannelCode - 1)
      BY DEF IInv, TypeOK
    <3>2. 1..(nextChannelCode - 1) \subseteq 1..(nextChannelCode' - 1)
      <4>1. nextChannelCode \in Nat
        BY DEF IInv, TypeOK
      <4> QED
        BY <1>6, <4>1, RangeGrows
    <3> QED
      BY <1>4, <3>1, <3>2
  <2>4. oneWay' \subseteq Invoke /\ onDevice' \subseteq Call
    BY <1>5 DEF IInv, TypeOK
  <2> QED
    BY <1>1, <1>2, <1>3, <1>4, <1>5, <1>6, <2>1, <2>2, <2>3, <2>4 DEF IInv, TypeOK
<1>9. IdsDistinct'
  <2>1. \A d \in Call \ {c} : st'[d] # "idle" => id'[d] \in 1..(msgId - 1)
    BY <1>1, <1>2 DEF IInv, IdsDistinct
  <2>2. msgId \in Nat \ {0}
    BY DEF IInv, TypeOK
  <2> QED
    BY <1>1, <1>2, <2>1, <2>2 DEF IInv, IdsDistinct
<1>10. CodesTaken'
  BY <1>1, <1>3, <1>6, CallsAssumption DEF IInv, TypeOK, CodesTaken, Call
<1>11. DeviceKnowsCalls'
  BY <1>1, <1>4, <1>5 DEF IInv, DeviceKnowsCalls
<1>12. Collisions' /\ Reassembly'
  <2>1. \A m \in begun : Ident(m)' = Ident(m)
    BY <1>1, <1>2 DEF Ident, IInv, DeviceKnowsCalls
  <2> QED
    BY <1>4, <2>1, FragmentsUnchanged
<1>13. PendingIsWaiting'
  BY <1>1, <1>2, <1>4, <1>7 DEF IInv, PendingIsWaiting
<1>14. OwnReply'
  BY <1>1, <1>4 DEF IInv, OwnReply
<1>15. DistinctChannels'
  <2>1. Handles' = Handles
    BY <1>1, <1>3, HandlesSame DEF Call
  <2>2. ASSUME NEW a \in Open, NEW b \in Open, a # b, st'[a] # "idle", st'[b] # "idle"
        PROVE  code'[a] # code'[b]
    <3>1. CASE a # c /\ b # c
      BY <1>1, <1>3, <2>2, <3>1 DEF IInv, DistinctChannels, Call
    <3>2. CASE a = c
      BY <1>1, <1>3, <2>2, <3>2, CallsAssumption DEF IInv, TypeOK, CodesTaken, Call
    <3>3. CASE b = c
      BY <1>1, <1>3, <2>2, <3>3, CallsAssumption DEF IInv, TypeOK, CodesTaken, Call
    <3> QED
      BY <3>1, <3>2, <3>3
  <2> QED
    BY <1>4, <2>1, <2>2 DEF IInv, DistinctChannels
<1>16. ClosedIsDeaf'
  BY <1>4 DEF IInv, ClosedIsDeaf
<1> QED
  BY <1>8, <1>9, <1>10, <1>11, <1>12, <1>13, <1>14, <1>15, <1>16 DEF IInv

\* A step of one call in the middle of its life that leaves the connection, the
\* device and the other calls alone, but for the entry of a call that waits.
LEMMA MoveIInv ==
  ASSUME IInv, NEW c \in Call, NEW s \in {"writing", "doomed", "waiting", "sent", "rejected"},
         st[c] \in {"writing", "doomed", "waiting"},
         st' = [st EXCEPT ![c] = s],
         \/ st[c] # "waiting" /\ s # "waiting" /\ pending' = pending
         \/ st[c] # "waiting" /\ s = "waiting" /\ c \notin oneWay
            /\ pending' = Put(pending, id[c], c)
         \/ st[c] = "waiting" /\ s # "waiting" /\ pending' = Drop(pending, id[c]),
         left' \in [Call -> Nat], onDevice' \subseteq onDevice \cup {c},
         UNCHANGED <<msgId, nextChannelCode, id, code, oneWay, connVars, chanVars,
                     answer, begun, recvVars>>
  PROVE  IInv'
<1>1. /\ st'[c] = s /\ st' \in [Call -> States]
      /\ \A d \in Call \ {c} : st'[d] = st[d]
  BY DEF IInv, TypeOK, States
<1>2. \A i \in DOMAIN pending :
        pending[i] \in Call \ oneWay /\ st[pending[i]] = "waiting" /\ id[pending[i]] = i
  BY DEF IInv, TypeOK, PendingIsWaiting
<1>3. id[c] \in 1..(msgId - 1) /\ \A d \in Call \ {c} : st[d] = "waiting" => id[d] # id[c]
  BY DEF IInv, IdsDistinct
<1>4. /\ DOMAIN pending' \subseteq 1..(msgId - 1)
      /\ \A i \in DOMAIN pending' : pending'[i] \in Call \ oneWay
      /\ PendingIsWaiting'
  <2>1. CASE st[c] # "waiting" /\ s # "waiting" /\ pending' = pending
    BY <1>1, <1>2, <2>1 DEF IInv, TypeOK, PendingIsWaiting
  <2>2. CASE st[c] # "waiting" /\ s = "waiting" /\ c \notin oneWay
             /\ pending' = Put(pending, id[c], c)
    <3>1. /\ DOMAIN pending' = DOMAIN pending \cup {id[c]}
          /\ pending'[id[c]] = c
          /\ \A i \in DOMAIN pending \ {id[c]} : pending'[i] = pending[i]
      BY <2>2 DEF Put
    <3>2. id[c] \notin DOMAIN pending
      BY <1>2, <1>3, <2>2
    <3> QED
      BY <1>1, <1>2, <1>3, <2>2, <3>1, <3>2 DEF IInv, TypeOK, PendingIsWaiting
  <2>3. CASE st[c] = "waiting" /\ s # "waiting" /\ pending' = Drop(pending, id[c])
    <3>1. /\ DOMAIN pending' = DOMAIN pending \ {id[c]}
          /\ \A i \in DOMAIN pending' : pending'[i] = pending[i] /\ pending[i] \in Call \ {c}
      BY <2>3, DropOwn
    <3> QED
      BY <1>1, <1>2, <1>3, <2>3, <3>1 DEF IInv, TypeOK, PendingIsWaiting
  <2> QED
    BY <2>1, <2>2, <2>3
<1>5. TypeOK'
  BY <1>1, <1>4 DEF IInv, TypeOK, connVars, chanVars, recvVars
<1>6. IdsDistinct' /\ CodesTaken' /\ DeviceKnowsCalls'
  BY OneCallMoves DEF States
<1>7. Collisions' /\ Reassembly'
  BY FragmentsSame DEF recvVars
<1>8. OwnReply'
  BY <1>1 DEF IInv, OwnReply, recvVars
<1>9. DistinctChannels' /\ ClosedIsDeaf'
  <2>1. Handles' = Handles
    BY <1>1, HandlesSame DEF Call
  <2> QED
    BY <1>1, <2>1 DEF IInv, DistinctChannels, ClosedIsDeaf, connVars, chanVars, Call
<1> QED
  BY <1>4, <1>5, <1>6, <1>7, <1>8, <1>9 DEF IInv

------------------------------------------------------------------------------
\* The reply to c settles c: its promise resolves and its entry goes.
Settles(c) ==
  /\ c \in Call /\ st[c] = "waiting"
  /\ st' = [st EXCEPT ![c] = "resolved"]
  /\ answer' = [answer EXCEPT ![c] = c]
  /\ pending' = Drop(pending, id[c])

\* A message that is dispatched settles its own call or none.
LEMMA DispatchSettlesOwn ==
  ASSUME IInv, NEW m \in Msg, m \in begun, Dispatch(m)
  PROVE  /\ Settles(m) \/ UNCHANGED callVars
         /\ delivered' \subseteq Msg /\ crashed' \in BOOLEAN
<1>1. delivered' \subseteq Msg /\ crashed' \in BOOLEAN
  BY DEF Dispatch, IInv, TypeOK
<1>2. CASE /\ IsReply(m) /\ Ident(m) \in DOMAIN pending
           /\ st' = [st EXCEPT ![pending[Ident(m)]] = "resolved"]
           /\ answer' = [answer EXCEPT ![pending[Ident(m)]] = m]
           /\ pending' = Drop(pending, Ident(m))
  <2>1. m \in Call /\ Ident(m) = id[m] /\ st[m] # "idle"
    BY <1>2 DEF IsReply, Ident, IInv, DeviceKnowsCalls
  <2>2. pending[id[m]] = m /\ st[m] = "waiting"
    BY <1>2, <2>1 DEF IInv, TypeOK, PendingIsWaiting, IdsDistinct
  <2> QED
    BY <1>1, <1>2, <2>1, <2>2 DEF Settles
<1>3. CASE UNCHANGED callVars
  BY <1>1, <1>3
<1> QED
  BY <1>2, <1>3 DEF Dispatch

\* Two half-received messages under one identifier, one of which has not
\* collided, are the same.
LEMMA Alone ==
  ASSUME IInv, NEW m \in Msg, NEW n \in Msg \ collided, Partial(m), Partial(n),
         Ident(m) = Ident(n)
  PROVE  m = n
BY DEF IInv, Collisions

\* The entry a later fragment finds is that of its own message, or the message
\* the entry was made for has collided.
LEMMA OwnEntry ==
  ASSUME IInv, NEW m \in Msg, Partial(m), Ident(m) \in DOMAIN fragments,
         fragments[Ident(m)].of \notin collided \/ m \notin collided
  PROVE  /\ m \notin collided
         /\ fragments[Ident(m)].of = m
         /\ fragments[Ident(m)].received = progress[m] - 1
         /\ OwnBodies(m, fragments[Ident(m)].parts, progress[m] - 1)
<1> DEFINE x == fragments[Ident(m)].of
<1>1. x \in Msg /\ Ident(x) = Ident(m)
  BY DEF IInv, TypeOK, Collisions
<1>2. m \notin collided
  <2>1. CASE x \notin collided
    <3>1. Partial(x)
      BY <2>1 DEF IInv, Reassembly
    <3> QED
      BY <1>1, <2>1, <3>1, Alone
  <2> QED
    BY <2>1
<1> QED
  BY <1>2 DEF IInv, Reassembly

\* What a fragment of m does to the calls: nothing, or the dispatch of one
\* message, which is whole unless it has collided.
LEMMA FragmentDispatches ==
  ASSUME IInv, NEW m \in Msg, OnFragment(m)
  PROVE  \/ UNCHANGED <<callVars, delivered>> /\ crashed' \in BOOLEAN
         \/ \E x \in Msg : /\ x \in begun /\ Dispatch(x)
                           /\ x \notin collided => x = m /\ progress[m] + 1 = InFrags[m]
<1>1. /\ m \in begun /\ progress[m] < InFrags[m] /\ progress[m] \in Nat /\ InFrags[m] \in Nat
      /\ crashed \in BOOLEAN
  BY FragsAssumption DEF OnFragment, IInv, TypeOK
<1>2. CASE InFrags[m] = 1 /\ Dispatch(m)
  BY <1>1, <1>2
<1>3. CASE FirstFragment(m)
  BY <1>1, <1>3 DEF FirstFragment
<1>4. CASE LaterFragment(m)
  <2> DEFINE i == Ident(m)
             f == Took(fragments[i], m)
  <2>1. Partial(m)
    BY <1>1, <1>4 DEF LaterFragment, Partial
  <2>2. f.of = fragments[i].of /\ f.received = fragments[i].received + 1
    BY DEF Took
  <2>3. CASE i \in DOMAIN fragments /\ Whole(m, f.received) /\ Dispatch(f.of)
    <3>1. f.of \in Msg /\ f.of \in begun
      BY <2>2, <2>3 DEF IInv, TypeOK, Collisions
    <3>2. ASSUME f.of \notin collided PROVE f.of = m /\ progress[m] + 1 = InFrags[m]
      <4>1. fragments[i].of = m /\ fragments[i].received = progress[m] - 1
        BY <2>1, <2>2, <2>3, <3>2, OwnEntry
      <4> QED
        BY <1>1, <2>2, <2>3, <4>1 DEF Whole
    <3> QED
      BY <2>3, <3>1, <3>2
  <2>4. CASE UNCHANGED <<callVars, delivered>> /\ crashed' \in {crashed, TRUE}
    BY <1>1, <2>4
  <2> QED
    BY <1>4, <2>3, <2>4 DEF LaterFragment
<1> QED
  BY <1>2, <1>3, <1>4 DEF OnFragment

\* A fragment settles no call, or the one that the header dispatched answers.
LEMMA FragmentSettlesOwn ==
  ASSUME IInv, NEW m \in Msg, OnFragment(m)
  PROVE  /\ \/ UNCHANGED callVars
            \/ \E x \in Msg : /\ x \in begun /\ Settles(x)
                              /\ x \notin collided => x = m /\ progress[m] + 1 = InFrags[m]
         /\ delivered' \subseteq Msg /\ crashed' \in BOOLEAN
<1>1. CASE UNCHANGED <<callVars, delivered>> /\ crashed' \in BOOLEAN
  BY <1>1 DEF IInv, TypeOK
<1>2. ASSUME NEW x \in Msg, x \in begun, Dispatch(x),
             x \notin collided => x = m /\ progress[m] + 1 = InFrags[m]
      PROVE  /\ UNCHANGED callVars \/ Settles(x)
             /\ delivered' \subseteq Msg /\ crashed' \in BOOLEAN
  BY <1>2, DispatchSettlesOwn
<1> QED
  BY <1>1, <1>2, FragmentDispatches

\* Every message but m keeps its entry when no entry but m's changes.
LEMMA OthersKeepEntries ==
  ASSUME IInv, NEW m \in Msg, progress' = [progress EXCEPT ![m] = @ + 1],
         UNCHANGED <<begun, id>>, collided \subseteq collided',
         DOMAIN fragments \ {Ident(m)} \subseteq DOMAIN fragments',
         \A j \in DOMAIN fragments \ {Ident(m)} : fragments'[j] = fragments[j],
         \A n \in Msg \ {m} : Partial(n) /\ Ident(n) = Ident(m) => n \in collided'
  PROVE  /\ \A n \in Msg : Ident(n)' = Ident(n)
         /\ \A n \in Msg \ {m} : progress'[n] = progress[n] /\ (Partial(n)' <=> Partial(n))
         /\ \A n \in Msg \ (collided' \cup {m}) : Partial(n)' =>
              /\ Ident(n)' \in DOMAIN fragments' /\ fragments'[Ident(n)'].of = n
              /\ fragments'[Ident(n)'].received = progress'[n] - 1
              /\ OwnBodies(n, fragments'[Ident(n)'].parts, progress'[n] - 1)
<1>1. \A n \in Msg : Ident(n)' = Ident(n)
  BY DEF Ident
<1>2. \A n \in Msg \ {m} : progress'[n] = progress[n] /\ (Partial(n)' <=> Partial(n))
  BY DEF Partial, IInv, TypeOK
<1>3. ASSUME NEW n \in Msg \ (collided' \cup {m}), Partial(n)'
      PROVE  /\ Ident(n)' \in DOMAIN fragments' /\ fragments'[Ident(n)'].of = n
             /\ fragments'[Ident(n)'].received = progress'[n] - 1
             /\ OwnBodies(n, fragments'[Ident(n)'].parts, progress'[n] - 1)
  <2>1. n \notin collided /\ Partial(n) /\ Ident(n) # Ident(m)
    BY <1>2, <1>3
  <2>2. /\ Ident(n) \in DOMAIN fragments /\ fragments[Ident(n)].of = n
        /\ fragments[Ident(n)].received = progress[n] - 1
        /\ OwnBodies(n, fragments[Ident(n)].parts, progress[n] - 1)
    BY <2>1 DEF IInv, Reassembly
  <2> QED
    BY <1>1, <1>2, <1>3, <2>1, <2>2
<1> QED
  BY <1>1, <1>2, <1>3

\* The whole of the table's invariant but for the entry of m, likewise.
LEMMA OthersKeepTable ==
  ASSUME IInv, NEW m \in Msg, progress' = [progress EXCEPT ![m] = @ + 1],
         m \in begun,
         UNCHANGED <<begun, id>>, collided \subseteq collided',
         \A j \in DOMAIN fragments' : j # Ident(m) =>
            j \in DOMAIN fragments /\ fragments'[j] = fragments[j],
         DOMAIN fragments \ {Ident(m)} \subseteq DOMAIN fragments',
         Ident(m) \in DOMAIN fragments' =>
            /\ fragments'[Ident(m)].of \in begun
            /\ Ident(fragments'[Ident(m)].of) = Ident(m)
            /\ fragments'[Ident(m)].of \in collided' \/ PartialNext(fragments'[Ident(m)].of),
         \A n \in Msg \ {m} : Partial(n) /\ Ident(n) = Ident(m) =>
            \/ n \in collided' /\ m \in collided'
            \/ ~Partial(m)' /\ n \in collided',
         m \notin collided' /\ Partial(m)' =>
            /\ Ident(m) \in DOMAIN fragments' /\ fragments'[Ident(m)].of = m
            /\ fragments'[Ident(m)].received = progress[m]
            /\ OwnBodies(m, fragments'[Ident(m)].parts, progress[m]),
         m \notin collided' /\ InFrags[m] > 1 /\ progress[m] + 1 = InFrags[m] =>
            \E b \in built' : b.of = m,
         built \subseteq built',
         \A b \in built' \ built : b.of \in begun /\
            (b.of \notin collided' => OwnBodies(b.of, b.parts, InFrags[b.of] - 1)),
         collided' \subseteq begun,
         \A x \in collided' \ collided : \E n \in collided' \ {x} : Ident(n) = Ident(x)
  PROVE  Collisions' /\ Reassembly'
<1>1. \A n \in Msg \ {m} : Partial(n) /\ Ident(n) = Ident(m) => n \in collided'
  OBVIOUS
<1>2. /\ \A n \in Msg : Ident(n)' = Ident(n)
      /\ \A n \in Msg \ {m} : progress'[n] = progress[n] /\ (Partial(n)' <=> Partial(n))
      /\ \A n \in Msg \ (collided' \cup {m}) : Partial(n)' =>
           /\ Ident(n)' \in DOMAIN fragments' /\ fragments'[Ident(n)'].of = n
           /\ fragments'[Ident(n)'].received = progress'[n] - 1
           /\ OwnBodies(n, fragments'[Ident(n)'].parts, progress'[n] - 1)
  BY <1>1, OthersKeepEntries
<1>3. progress'[m] = progress[m] + 1 /\ progress[m] \in Nat
  BY DEF IInv, TypeOK
<1>4. begun \subseteq Msg /\ \A j \in DOMAIN fragments : fragments[j].of \in Msg
  BY DEF IInv, TypeOK
<1>5. \A j \in DOMAIN fragments' :
        fragments'[j].of \in begun /\ Ident(fragments'[j].of) = j
  BY DEF IInv, Collisions
<1>6. Collisions'
  <2>1. ASSUME NEW x \in Msg, NEW n \in Msg, Partial(x)', Partial(n)',
               Ident(x)' = Ident(n)', x # n
        PROVE  x \in collided'
    <3>1. CASE x # m /\ n # m
      BY <1>2, <2>1, <3>1 DEF IInv, Collisions
    <3>2. CASE x = m
      BY <1>2, <2>1, <3>2
    <3>3. CASE n = m
      BY <1>2, <2>1, <3>3
    <3> QED
      BY <3>1, <3>2, <3>3
  <2>2. \A n \in Msg : n \notin begun' => progress'[n] = 0
    BY <1>2 DEF IInv, Collisions
  <2>3. \A b \in built' : b.of \in begun'
    BY DEF IInv, Collisions
  <2>4. \A j \in DOMAIN fragments' :
          fragments'[j].of \in begun' /\ Ident(fragments[j].of)' = j
    BY <1>2, <1>4, <1>5
  <2> QED
    BY <2>1, <2>2, <2>3, <2>4 DEF Collisions
<1>7. Reassembly'
  <2>1. \A n \in Msg \ collided' : Partial(n)' =>
          /\ Ident(n)' \in DOMAIN fragments' /\ fragments'[Ident(n)'].of = n
          /\ fragments'[Ident(n)'].received = progress'[n] - 1
          /\ OwnBodies(n, fragments'[Ident(n)'].parts, progress'[n] - 1)
    BY <1>2, <1>3
  <2>2. \A n \in Msg \ collided' : InFrags[n] > 1 /\ progress'[n] = InFrags[n] =>
          \E b \in built' : b.of = n
    <3>1. \A n \in Msg \ (collided' \cup {m}) : InFrags[n] > 1 /\ progress'[n] = InFrags[n] =>
            \E b \in built' : b.of = n
      BY <1>2 DEF IInv, Reassembly
    <3> QED
      BY <1>3, <3>1
  <2>3. \A b \in built' : b.of \notin collided' =>
          OwnBodies(b.of, b.parts, InFrags[b.of] - 1)
    BY DEF IInv, Reassembly
  <2>4. \A j \in DOMAIN fragments' :
          fragments'[j].of \in collided' \/ PartialNext(fragments'[j].of)
    <3>1. ASSUME NEW j \in DOMAIN fragments', j # Ident(m)
          PROVE  fragments'[j].of \in collided' \/ PartialNext(fragments'[j].of)
      <4>1. /\ fragments'[j] = fragments[j] /\ j \in DOMAIN fragments
            /\ fragments[j].of \in Msg \ {m}
        BY <1>4, <1>5, <3>1
      <4>2. fragments[j].of \in collided \/ Partial(fragments[j].of)
        BY <4>1 DEF IInv, Reassembly
      <4> QED
        BY <1>2, <4>1, <4>2 DEF Partial, PartialNext
    <3> QED
      BY <3>1
  <2>5. \A x \in collided' : \E n \in collided' \ {x} : Ident(n)' = Ident(x)'
    <3>1. ASSUME NEW x \in collided' PROVE \E n \in collided' \ {x} : Ident(n) = Ident(x)
      BY DEF IInv, Reassembly
    <3>2. collided' \subseteq Msg
      BY <1>4
    <3> QED
      BY <1>2, <3>1, <3>2
  <2> QED
    BY <2>1, <2>2, <2>3, <2>4, <2>5 DEF Reassembly, OwnBodies, Partial, PartialNext
<1> QED
  BY <1>6, <1>7

\* The first of several fragments: a new entry, and a collision if there are twins.
LEMMA FirstKeepsTable ==
  ASSUME IInv, NEW m \in Msg, OnFragment(m), FirstFragment(m)
  PROVE  /\ Collisions' /\ Reassembly' /\ collided \subseteq collided'
         /\ \A j \in DOMAIN fragments' :
              fragments'[j].of \in Msg /\ fragments'[j].received \in Nat
<1> DEFINE i == Ident(m)
<1>1. /\ m \in begun /\ InFrags[m] \in Nat /\ InFrags[m] > 1 /\ progress[m] = 0
      /\ progress' = [progress EXCEPT ![m] = @ + 1] /\ progress'[m] = 1
      /\ UNCHANGED <<begun, id, built>>
  <2>1. /\ m \in begun /\ InFrags[m] > 1 /\ progress[m] = 0
        /\ progress' = [progress EXCEPT ![m] = @ + 1]
        /\ UNCHANGED <<begun, id, built>>
    BY DEF OnFragment, FirstFragment, sendVars
  <2>2. progress \in [Msg -> Nat] /\ InFrags[m] \in Nat
    BY FragsAssumption DEF IInv, TypeOK
  <2> QED
    BY <2>1, <2>2
<1>2. Partial(m)'
  BY <1>1 DEF Partial
<1>3. /\ DOMAIN fragments' = DOMAIN fragments \cup {i}
      /\ fragments'[i] = [of |-> m, received |-> 0, parts |-> Empty]
      /\ \A j \in DOMAIN fragments \ {i} : fragments'[j] = fragments[j]
  BY DEF FirstFragment, Put
<1>4. OwnBodies(m, fragments'[i].parts, 0) /\ fragments'[i].of = m /\ fragments'[i].received = 0
  BY <1>3, EmptyDomain DEF OwnBodies
<1>5. /\ collided \subseteq collided' /\ Twins(m) \subseteq collided'
      /\ collided' \subseteq collided \cup Twins(m) \cup {m}
      /\ (m \in collided' => m \in collided \/ Twins(m) # {})
      /\ (Twins(m) # {} => m \in collided')
  BY DEF FirstFragment
<1>6. /\ Twins(m) \subseteq Msg \ {m}
      /\ \A n \in Msg \ {m} : n \in Twins(m) <=> Partial(n) /\ Ident(n) = i
  BY DEF Twins
<1>7. Twins(m) \subseteq begun /\ collided \subseteq begun
  BY <1>6 DEF IInv, Collisions, Partial
<1>8. ASSUME NEW x \in collided' \ collided
      PROVE  \E n \in collided' \ {x} : Ident(n) = Ident(x)
  <2>1. CASE x = m
    <3>1. PICK n \in Twins(m) : TRUE
      BY <1>5, <1>8, <2>1
    <3> QED
      BY <1>5, <1>6, <2>1, <3>1
  <2>2. CASE x \in Twins(m)
    BY <1>5, <1>6, <2>2
  <2> QED
    BY <1>5, <1>8, <2>1, <2>2
<1>9. \A n \in Msg \ {m} : Partial(n) /\ Ident(n) = i => n \in collided' /\ m \in collided'
  BY <1>5, <1>6
<1>10. Collisions' /\ Reassembly'
  <2>1. PartialNext(fragments'[i].of)
    BY <1>2, <1>4 DEF Partial, PartialNext
  <2>2. /\ i \in DOMAIN fragments' /\ fragments'[i].received = progress[m]
        /\ fragments'[i].of = m /\ OwnBodies(m, fragments'[i].parts, progress[m])
    BY <1>1, <1>3, <1>4
  <2>3. progress[m] + 1 # InFrags[m]
    BY <1>1
  <2>4. /\ \A j \in DOMAIN fragments' : j # i =>
             j \in DOMAIN fragments /\ fragments'[j] = fragments[j]
        /\ DOMAIN fragments \ {i} \subseteq DOMAIN fragments'
    BY <1>3
  <2>5. collided' \subseteq begun
    BY <1>1, <1>5, <1>7
  <2>6. m \in begun /\ progress' = [progress EXCEPT ![m] = @ + 1] /\ UNCHANGED <<begun, id>>
        /\ built \subseteq built' /\ built' \ built = {} /\ collided \subseteq collided'
    BY <1>1, <1>5
  <2> QED
    BY <1>8, <1>9, <2>1, <2>2, <2>3, <2>4, <2>5, <2>6, OthersKeepTable
<1>11. \A j \in DOMAIN fragments' :
         fragments'[j].of \in Msg /\ fragments'[j].received \in Nat
  BY <1>3, <1>4 DEF IInv, TypeOK
<1> QED
  BY <1>5, <1>10, <1>11

\* A later fragment: its message's own entry grows or is done with, or the
\* message has collided.
LEMMA LaterKeepsTable ==
  ASSUME IInv, NEW m \in Msg, OnFragment(m), LaterFragment(m)
  PROVE  /\ Collisions' /\ Reassembly' /\ collided' = collided
         /\ \A j \in DOMAIN fragments' :
              fragments'[j].of \in Msg /\ fragments'[j].received \in Nat
<1> DEFINE i == Ident(m)
           f == Took(fragments[i], m)
<1>1. /\ m \in begun /\ InFrags[m] \in Nat /\ progress[m] \in Nat
      /\ 0 < progress[m] /\ progress[m] < InFrags[m]
      /\ progress' = [progress EXCEPT ![m] = @ + 1] /\ progress'[m] = progress[m] + 1
      /\ UNCHANGED <<begun, id, collided>>
  BY FragsAssumption DEF OnFragment, LaterFragment, IInv, TypeOK, sendVars
<1>2. Partial(m)
  BY <1>1 DEF Partial
<1>3. \A n \in Msg \ {m} : Partial(n) /\ Ident(n) = i => n \in collided /\ m \in collided
  BY <1>2 DEF IInv, Collisions
<1>4. collided \subseteq begun
  BY DEF IInv, Collisions
<1>5. /\ f.of = fragments[i].of /\ f.received = fragments[i].received + 1
      /\ f.parts = Put(fragments[i].parts, progress[m], m)
  BY DEF Took
<1>6. \A j \in DOMAIN fragments :
        /\ fragments[j].of \in Msg /\ fragments[j].received \in Nat
        /\ fragments[j].of \in begun /\ Ident(fragments[j].of) = j
        /\ fragments[j].of \in collided \/ Partial(fragments[j].of)
  BY DEF IInv, TypeOK, Collisions, Reassembly
<1>7. ASSUME i \in DOMAIN fragments, f.of \notin collided \/ m \notin collided
      PROVE  /\ m \notin collided /\ f.of = m /\ f.received = progress[m]
             /\ OwnBodies(m, f.parts, progress[m])
  <2>1. /\ m \notin collided /\ fragments[i].of = m /\ fragments[i].received = progress[m] - 1
        /\ OwnBodies(m, fragments[i].parts, progress[m] - 1)
    BY <1>2, <1>5, <1>7, OwnEntry
  <2>2. OwnBodies(m, Put(fragments[i].parts, progress[m], m), progress[m])
    BY <1>1, <2>1 DEF OwnBodies, Put
  <2> QED
    BY <1>1, <1>5, <2>1, <2>2
<1>8. m \notin collided => i \in DOMAIN fragments
  BY <1>2 DEF IInv, Reassembly
<1>9. CASE i \notin DOMAIN fragments /\ UNCHANGED <<fragments, built>>
  <2>1. m \in collided
    BY <1>8, <1>9
  <2>2. Collisions' /\ Reassembly'
    BY <1>1, <1>3, <1>4, <1>6, <1>9, <2>1, OthersKeepTable
  <2> QED
    BY <1>1, <1>6, <1>9, <2>2
<1>10. CASE /\ i \in DOMAIN fragments /\ ~Whole(m, f.received)
            /\ fragments' = [fragments EXCEPT ![i] = f] /\ UNCHANGED built
  <2>1. /\ DOMAIN fragments' = DOMAIN fragments /\ fragments'[i] = f
        /\ \A j \in DOMAIN fragments \ {i} : fragments'[j] = fragments[j]
    BY <1>10
  <2>2. m \notin collided => progress[m] + 1 # InFrags[m]
    BY <1>1, <1>7, <1>10 DEF Whole
  <2>3. m \notin collided => Partial(m)'
    BY <1>1, <2>2 DEF Partial
  <2>4. f.of \in collided \/ PartialNext(f.of)
    BY <1>7, <1>10, <2>3 DEF Partial, PartialNext
  <2>5. f.of \in begun /\ Ident(f.of) = i /\ f.of \in Msg /\ f.received \in Nat
    BY <1>5, <1>6, <1>10
  <2>6. Collisions' /\ Reassembly'
    BY <1>1, <1>3, <1>4, <1>7, <1>10, <2>1, <2>2, <2>4, <2>5, OthersKeepTable
  <2> QED
    BY <1>1, <1>6, <1>10, <2>1, <2>5, <2>6
<1>11. CASE /\ i \in DOMAIN fragments /\ Whole(m, f.received)
            /\ fragments' = Drop(fragments, i)
            /\ \/ ~Hole(f) /\ built' = built \cup {[of |-> f.of, parts |-> f.parts]}
               \/ Hole(f) /\ built' = built
  <2>1. /\ DOMAIN fragments' = DOMAIN fragments \ {i}
        /\ \A j \in DOMAIN fragments \ {i} : fragments'[j] = fragments[j]
    BY <1>11, DropEntries
  <2>2. m \notin collided => progress[m] + 1 = InFrags[m]
    BY <1>1, <1>7, <1>11 DEF Whole
  <2>3. m \notin collided => ~Partial(m)'
    BY <1>1, <2>2 DEF Partial
  <2>4. m \notin collided => ~Hole(f)
    <3>1. ASSUME m \notin collided PROVE ~Hole(f)
      <4>1. DOMAIN f.parts = 1..progress[m] /\ InFrags[f.of] - 1 = progress[m]
        BY <1>1, <1>7, <1>11, <2>2, <3>1 DEF OwnBodies
      <4> QED
        BY <1>1, <4>1 DEF Hole
    <3> QED
      BY <3>1
  <2>5. m \notin collided => \E b \in built' : b.of = m
    <3>1. ASSUME m \notin collided PROVE \E b \in built' : b.of = m
      <4>1. f.of = m /\ [of |-> f.of, parts |-> f.parts] \in built'
        BY <1>7, <1>11, <2>4, <3>1
      <4> QED
        BY <4>1
    <3> QED
      BY <3>1
  <2>6. \A b \in built' \ built : b.of \in begun /\
          (b.of \notin collided => OwnBodies(b.of, b.parts, InFrags[b.of] - 1))
    <3>1. ASSUME NEW b \in built' \ built
          PROVE  b.of \in begun /\
                 (b.of \notin collided => OwnBodies(b.of, b.parts, InFrags[b.of] - 1))
      <4>1. b.of = f.of /\ b.parts = f.parts
        BY <1>11, <3>1
      <4>2. b.of \in begun
        BY <1>5, <1>6, <1>11, <4>1
      <4>3. ASSUME b.of \notin collided PROVE OwnBodies(b.of, b.parts, InFrags[b.of] - 1)
        <5>1. f.of = m /\ m \notin collided /\ OwnBodies(m, f.parts, progress[m])
          BY <1>7, <1>11, <4>1, <4>3
        <5>2. InFrags[m] - 1 = progress[m]
          BY <1>1, <2>2, <5>1
        <5> QED
          BY <4>1, <5>1, <5>2
      <4> QED
        BY <4>2, <4>3
    <3> QED
      BY <3>1
  <2>7. built \subseteq built'
    BY <1>11
  <2>8. Collisions' /\ Reassembly'
    BY <1>1, <1>3, <1>4, <2>1, <2>3, <2>5, <2>6, <2>7, OthersKeepTable
  <2> QED
    BY <1>1, <1>6, <2>1, <2>8
<1> QED
  BY <1>9, <1>10, <1>11 DEF LaterFragment

\* The fragment table stays right: what reassembly by identifier does to
\* messages that share one, and to those that do not.
LEMMA FragmentKeepsTable ==
  ASSUME IInv, NEW m \in Msg, OnFragment(m)
  PROVE  /\ Collisions' /\ Reassembly'
         /\ collided \subseteq collided' /\ collided' \subseteq Msg
         /\ \A j \in DOMAIN fragments' :
              fragments'[j].of \in Msg /\ fragments'[j].received \in Nat
<1>1. CASE InFrags[m] = 1 /\ UNCHANGED <<fragments, built, collided>>
  <2>1. /\ m \in begun /\ progress[m] \in Nat /\ progress[m] = 0
        /\ progress' = [progress EXCEPT ![m] = @ + 1]
        /\ progress'[m] = 1 /\ UNCHANGED <<begun, id>>
    BY <1>1 DEF OnFragment, IInv, TypeOK, sendVars
  <2>2. ~Partial(m)' /\ ~Partial(m)
    BY <1>1, <2>1 DEF Partial
  <2>3. /\ \A n \in Msg : Ident(n)' = Ident(n)
        /\ \A n \in Msg \ {m} : progress'[n] = progress[n]
        /\ \A n \in Msg : Partial(n)' <=> Partial(n)
    BY <2>1, <2>2 DEF Ident, Partial, IInv, TypeOK
  <2>4. Collisions'
    BY <1>1, <2>1, <2>3 DEF IInv, TypeOK, Collisions
  <2>5. Reassembly'
    <3>1. \A n \in Msg \ collided' : Partial(n)' =>
            /\ Ident(n)' \in DOMAIN fragments' /\ fragments'[Ident(n)'].of = n
            /\ fragments'[Ident(n)'].received = progress'[n] - 1
            /\ OwnBodies(n, fragments'[Ident(n)'].parts, progress'[n] - 1)
      BY <1>1, <2>2, <2>3 DEF IInv, Reassembly
    <3>2. \A n \in Msg \ collided' : InFrags[n] > 1 /\ progress'[n] = InFrags[n] =>
            \E b \in built' : b.of = n
      BY <1>1, <2>3 DEF IInv, Reassembly
    <3>3. \A b \in built' : b.of \notin collided' =>
            OwnBodies(b.of, b.parts, InFrags[b.of] - 1)
      BY <1>1 DEF IInv, Reassembly
    <3>4. \A j \in DOMAIN fragments' :
            fragments'[j].of \in collided' \/ PartialNext(fragments'[j].of)
      BY <1>1, <2>3 DEF IInv, TypeOK, Reassembly, Partial, PartialNext
    <3>5. \A x \in collided' : \E n \in collided' \ {x} : Ident(n)' = Ident(x)'
      BY <1>1, <2>3 DEF IInv, TypeOK, Reassembly
    <3> QED
      BY <3>1, <3>2, <3>3, <3>4, <3>5 DEF Reassembly, OwnBodies, Partial, PartialNext
  <2> QED
    BY <1>1, <2>4, <2>5 DEF IInv, TypeOK
<1>2. CASE FirstFragment(m)
  <2>1. collided' \subseteq Msg
    BY <1>2 DEF FirstFragment, Twins, IInv, TypeOK
  <2> QED
    BY <1>2, <2>1, FirstKeepsTable
<1>3. CASE LaterFragment(m)
  BY <1>3, LaterKeepsTable DEF IInv, TypeOK
<1> QED
  BY <1>1, <1>2, <1>3 DEF OnFragment

\* A fragment of any message preserves the invariant.
LEMMA FragmentIInv ==
  ASSUME IInv, NEW m \in Msg, OnFragment(m)
  PROVE  IInv'
<1>1. /\ Collisions' /\ Reassembly'
      /\ collided \subseteq collided' /\ collided' \subseteq Msg
      /\ \A j \in DOMAIN fragments' :
           fragments'[j].of \in Msg /\ fragments'[j].received \in Nat
  BY FragmentKeepsTable
<1>2. /\ UNCHANGED <<closed, socket, desync, chanVars, sendVars, begun>>
      /\ m \in begun /\ progress[m] < InFrags[m]
      /\ progress' = [progress EXCEPT ![m] = @ + 1]
  BY DEF OnFragment
<1>3. delivered' \subseteq Msg /\ crashed' \in BOOLEAN /\ progress' \in [Msg -> Nat]
  BY <1>2, FragmentSettlesOwn DEF IInv, TypeOK
<1>4. /\ \A n \in Msg \ {m} : progress'[n] = progress[n]
      /\ progress'[m] = progress[m] + 1
  BY <1>2 DEF IInv, TypeOK
<1>5. \A c \in Call : st[c] \in {"resolved", "opened"} /\ c \notin collided' =>
        answer[c] = c /\ progress'[c] = InFrags[c]
  <2>1. \A c \in Call : st[c] \in {"resolved", "opened"} /\ c \notin collided' =>
          answer[c] = c /\ progress[c] = InFrags[c]
    BY <1>1 DEF IInv, OwnReply
  <2>2. progress[m] # InFrags[m]
    BY <1>2, FragsAssumption DEF IInv, TypeOK
  <2> QED
    BY <1>4, <2>1, <2>2 DEF Msg
<1>6. CASE UNCHANGED callVars
  <2>1. TypeOK'
    BY <1>1, <1>2, <1>3, <1>6 DEF IInv, TypeOK, chanVars, sendVars, callVars
  <2>2. IdsDistinct' /\ CodesTaken' /\ DeviceKnowsCalls'
    BY <1>2, <1>6 DEF IInv, IdsDistinct, CodesTaken, DeviceKnowsCalls, sendVars, callVars
  <2>3. PendingIsWaiting'
    BY <1>2, <1>6 DEF IInv, PendingIsWaiting, sendVars, callVars
  <2>4. OwnReply'
    BY <1>5, <1>6 DEF IInv, OwnReply, callVars
  <2>5. DistinctChannels' /\ ClosedIsDeaf'
    BY <1>2, <1>6 DEF IInv, DistinctChannels, ClosedIsDeaf, Handles, chanVars,
       sendVars, callVars
  <2> QED
    BY <1>1, <2>1, <2>2, <2>3, <2>4, <2>5 DEF IInv
<1>7. ASSUME NEW x \in Msg, x \in begun, Settles(x),
             x \notin collided => x = m /\ progress[m] + 1 = InFrags[m]
      PROVE  IInv'
  <2>1. /\ x \in Call /\ st[x] = "waiting" /\ st' = [st EXCEPT ![x] = "resolved"]
        /\ answer' = [answer EXCEPT ![x] = x] /\ pending' = Drop(pending, id[x])
    BY <1>7 DEF Settles
  <2>2. /\ st'[x] = "resolved" /\ st' \in [Call -> States]
        /\ \A d \in Call \ {x} : st'[d] = st[d]
    BY <2>1 DEF IInv, TypeOK, States
  <2>3. /\ DOMAIN pending' = DOMAIN pending \ {id[x]}
        /\ \A i \in DOMAIN pending' : pending'[i] = pending[i] /\ pending[i] \in Call \ {x}
        /\ \A d \in Call \ {x} : st[d] = "waiting" => id[d] # id[x]
    BY <2>1, DropOwn
  <2>4. answer' \in [Call -> Msg \cup {None}]
    BY <2>1 DEF IInv, TypeOK
  <2>5. TypeOK'
    BY <1>1, <1>2, <1>3, <2>2, <2>3, <2>4 DEF IInv, TypeOK, chanVars, sendVars
  <2>6. IdsDistinct' /\ CodesTaken' /\ DeviceKnowsCalls'
    BY <1>2, <2>1, OneCallMoves DEF States, sendVars
  <2>7. PendingIsWaiting'
    BY <1>2, <2>1, <2>2, <2>3 DEF IInv, PendingIsWaiting, sendVars
  <2>8. OwnReply'
    <3>1. answer'[x] = x /\ (x \notin collided' => progress'[x] = InFrags[x])
      BY <1>1, <1>4, <1>7, <2>1 DEF IInv, TypeOK
    <3>2. \A d \in Call \ {x} : answer'[d] = answer[d]
      BY <2>1 DEF IInv, TypeOK
    <3> QED
      BY <1>5, <2>2, <3>1, <3>2 DEF IInv, OwnReply
  <2>9. DistinctChannels' /\ ClosedIsDeaf'
    <3>1. Handles' = Handles
      BY <1>2, <2>1, <2>2, HandlesSame DEF Call, sendVars
    <3> QED
      BY <1>2, <2>1, <2>2, <3>1 DEF IInv, DistinctChannels, ClosedIsDeaf, chanVars,
         sendVars, Call
  <2> QED
    BY <1>1, <2>5, <2>6, <2>7, <2>8, <2>9 DEF IInv
<1> QED
  BY <1>6, <1>7, FragmentSettlesOwn

------------------------------------------------------------------------------
\* The device begins a message.
LEMMA BeginIInv ==
  ASSUME IInv, NEW m \in Msg, begun' = begun \cup {m},
         m \in Call => m \in onDevice,
         UNCHANGED <<connVars, chanVars, sendVars, callVars, recvVars>>
  PROVE  IInv'
<1>1. Collisions' /\ Reassembly'
  BY FragmentsSame DEF sendVars, recvVars
<1>2. TypeOK'
  BY DEF IInv, TypeOK, connVars, chanVars, sendVars, callVars, recvVars
<1>3. IdsDistinct' /\ CodesTaken' /\ PendingIsWaiting'
  BY DEF IInv, IdsDistinct, CodesTaken, PendingIsWaiting, sendVars, callVars
<1>4. DeviceKnowsCalls'
  BY DEF IInv, DeviceKnowsCalls, sendVars, callVars
<1>5. OwnReply'
  BY DEF IInv, OwnReply, callVars, recvVars
<1>6. DistinctChannels' /\ ClosedIsDeaf'
  BY DEF IInv, DistinctChannels, ClosedIsDeaf, Handles, connVars, chanVars, sendVars, callVars
<1> QED
  BY <1>1, <1>2, <1>3, <1>4, <1>5, <1>6 DEF IInv

\* A channel is registered: its opener's promise has resolved.
LEMMA RegisterIInv ==
  ASSUME IInv, NEW c \in Call, RegisterChannel(c)
  PROVE  IInv'
<1>1. /\ c \in Open /\ st[c] = "resolved" /\ st' = [st EXCEPT ![c] = "opened"]
      /\ channels' = channels \cup {code[c]}
      /\ UNCHANGED <<connVars, notified, sendVars, pending, answer, begun, recvVars>>
  BY DEF RegisterChannel
<1>2. /\ st'[c] = "opened" /\ st' \in [Call -> States]
      /\ \A d \in Call \ {c} : st'[d] = st[d]
  BY <1>1 DEF IInv, TypeOK, States
<1>3. code[c] \in 1..(nextChannelCode - 1)
  BY <1>1 DEF IInv, CodesTaken
<1>4. TypeOK'
  <2>1. channels' \subseteq 1..(nextChannelCode' - 1)
    <3>1. channels \subseteq 1..(nextChannelCode - 1) /\ nextChannelCode' = nextChannelCode
      BY <1>1 DEF IInv, TypeOK, sendVars
    <3> QED
      BY <1>1, <1>3, <3>1
  <2> QED
    BY <1>1, <1>2, <2>1 DEF IInv, TypeOK, connVars, sendVars, recvVars
<1>5. IdsDistinct' /\ CodesTaken' /\ DeviceKnowsCalls'
  BY <1>1, OneCallMoves DEF States, sendVars
<1>6. Collisions' /\ Reassembly'
  BY <1>1, FragmentsSame DEF sendVars, recvVars
<1>7. PendingIsWaiting'
  BY <1>1, <1>2 DEF IInv, TypeOK, PendingIsWaiting, sendVars
<1>8. OwnReply'
  BY <1>1, <1>2 DEF IInv, OwnReply, recvVars
<1>9. Handles' = Handles \cup {code[c]}
  BY <1>1, <1>2 DEF Handles, Call, sendVars
<1>10. DistinctChannels' /\ ClosedIsDeaf'
  BY <1>1, <1>2, <1>9 DEF IInv, DistinctChannels, ClosedIsDeaf, connVars, sendVars, Call
<1> QED
  BY <1>4, <1>5, <1>6, <1>7, <1>8, <1>10 DEF IInv

\* _onClose: exactly the calls that wait are rejected.
LEMMA OnCloseSteps ==
  ASSUME IInv, OnClose, UNCHANGED id
  PROVE  /\ closed' = TRUE /\ st' \in [Call -> States]
         /\ DOMAIN pending' \subseteq DOMAIN pending
         /\ \A i \in DOMAIN pending' : pending'[i] = pending[i]
         /\ \A c \in Call :
              st'[c] = st[c] \/ (st[c] = "waiting" /\ st'[c] = "rejected")
         /\ PendingIsWaiting'
         /\ notified' \subseteq notified \cup channels
<1>1. st \in [Call -> States] /\ closed \in BOOLEAN
  BY DEF IInv, TypeOK
<1>2. CASE closed /\ UNCHANGED <<closed, st, pending, notified>>
  BY <1>1, <1>2 DEF IInv, PendingIsWaiting
<1>3. CASE /\ closed' = TRUE /\ pending' = Empty /\ notified' = notified \cup channels
           /\ st' = [c \in Call |-> IF \E i \in DOMAIN pending : pending[i] = c
                                    THEN "rejected" ELSE st[c]]
  <2>1. DOMAIN pending' = {}
    BY <1>3, EmptyDomain
  <2>2. \A c \in Call : st[c] = "waiting" <=> \E i \in DOMAIN pending : pending[i] = c
    BY DEF IInv, PendingIsWaiting
  <2>3. \A c \in Call : st'[c] = IF st[c] = "waiting" THEN "rejected" ELSE st[c]
    BY <1>3, <2>2
  <2>4. st' \in [Call -> States]
    BY <1>1, <1>3 DEF States
  <2>5. PendingIsWaiting'
    BY <2>1, <2>3 DEF PendingIsWaiting
  <2> QED
    BY <1>3, <2>1, <2>3, <2>4, <2>5
<1> QED
  BY <1>1, <1>2, <1>3 DEF OnClose

\* The connection closes, by a call, an event or a frame that does not parse.
LEMMA CloseIInv ==
  ASSUME IInv, Close \/ BadFrame
  PROVE  IInv'
<1>1. /\ OnClose /\ (socket' = "gone" \/ desync' = TRUE)
      /\ socket' \in {"open", "gone"} /\ desync' \in BOOLEAN
      /\ UNCHANGED <<crashed, channels, sendVars, answer, begun, recvVars>>
  BY DEF Close, BadFrame, IInv, TypeOK
<1>2. /\ closed' = TRUE /\ st' \in [Call -> States]
      /\ DOMAIN pending' \subseteq DOMAIN pending
      /\ \A i \in DOMAIN pending' : pending'[i] = pending[i]
      /\ \A c \in Call : st'[c] = st[c] \/ (st[c] = "waiting" /\ st'[c] = "rejected")
      /\ PendingIsWaiting'
      /\ notified' \subseteq notified \cup channels
  BY <1>1, OnCloseSteps DEF sendVars
<1>3. TypeOK'
  <2>1. /\ DOMAIN pending' \subseteq 1..(msgId' - 1)
        /\ \A i \in DOMAIN pending' : pending'[i] \in Call \ oneWay'
    BY <1>1, <1>2 DEF IInv, TypeOK, sendVars
  <2>2. notified' \subseteq 1..(nextChannelCode' - 1)
    BY <1>1, <1>2 DEF IInv, TypeOK, sendVars
  <2>3. closed' \in BOOLEAN
    BY <1>2
  <2> QED
    BY <1>1, <1>2, <2>1, <2>2, <2>3 DEF IInv, TypeOK, sendVars, recvVars
<1>4. IdsDistinct' /\ CodesTaken' /\ DeviceKnowsCalls'
  BY <1>1, <1>2 DEF IInv, IdsDistinct, CodesTaken, DeviceKnowsCalls, sendVars, Call
<1>5. Collisions' /\ Reassembly'
  BY <1>1, FragmentsSame DEF sendVars, recvVars
<1>6. OwnReply'
  BY <1>1, <1>2 DEF IInv, OwnReply, recvVars
<1>7. DistinctChannels'
  <2>1. Handles' = Handles
    BY <1>1, <1>2, HandlesSame DEF Call, sendVars
  <2> QED
    BY <1>1, <1>2, <2>1 DEF IInv, DistinctChannels, sendVars, Call
<1>8. ClosedIsDeaf'
  BY <1>1 DEF ClosedIsDeaf
<1> QED
  BY <1>2, <1>3, <1>4, <1>5, <1>6, <1>7, <1>8 DEF IInv

------------------------------------------------------------------------------
\* Every step preserves the inductive invariant.
LEMMA NextIInv == IInv /\ [Next]_vars => IInv'
<1> SUFFICES ASSUME IInv, [Next]_vars PROVE IInv'
  OBVIOUS
<1>1. ASSUME NEW c \in Call, OpenChannel(c) PROVE IInv'
  BY <1>1, StartIInv DEF OpenChannel, TakeCode, IInv, TypeOK
<1>2. ASSUME NEW c \in Call, NEW k \in Handles, NEW r \in BOOLEAN, InvokeOn(c, k, r)
      PROVE  IInv'
  <2>1. k \in Nat
    BY DEF Handles, IInv, TypeOK, Call
  <2>2. /\ Send(c) /\ c \in Invoke /\ code' = [code EXCEPT ![c] = k]
        /\ nextChannelCode' = nextChannelCode /\ oneWay' \in {oneWay, oneWay \cup {c}}
    BY <1>2 DEF InvokeOn
  <2> QED
    BY <2>1, <2>2, StartIInv
<1>3. ASSUME NEW c \in Call, WriteStep(c) \/ Timeout(c) PROVE IInv'
  <2>1. /\ left \in [Call -> Nat] /\ (left[c] > 0 => left[c] - 1 \in Nat)
        /\ UNCHANGED <<msgId, nextChannelCode, id, code, oneWay, connVars, chanVars,
                       answer, begun, recvVars>>
    BY <1>3 DEF WriteStep, WriteNext, WriteLast, WriteFail, Timeout, sendVars, IInv, TypeOK
  <2>2. CASE WriteNext(c)
    <3>1. /\ left' = [left EXCEPT ![c] = left[c] - 1] /\ left[c] > 0
          /\ onDevice' \subseteq onDevice \cup {c} /\ pending' = pending /\ st[c] = "writing"
      BY <2>2 DEF WriteNext, WriteFragment
    <3>2. \E s \in {"writing", "doomed"} : st' = [st EXCEPT ![c] = s]
      BY <2>2 DEF WriteNext, WriteFragment
    <3>3. left' \in [Call -> Nat]
      BY <2>1, <3>1
    <3> QED
      BY <2>1, <3>1, <3>2, <3>3, MoveIInv
  <2>3. CASE WriteLast(c)
    <3>1. left' = left /\ onDevice' = onDevice
      BY <2>3 DEF WriteLast, sendVars
    <3> QED
      BY <2>1, <2>3, <3>1, MoveIInv DEF WriteLast
  <2>4. CASE WriteFail(c)
    <3>1. left' = left /\ onDevice' = onDevice
      BY <2>4 DEF WriteFail, sendVars
    <3> QED
      BY <2>1, <2>4, <3>1, MoveIInv DEF WriteFail
  <2>5. CASE Timeout(c)
    <3>1. left' = left /\ onDevice' = onDevice
      BY <2>5 DEF Timeout, sendVars
    <3> QED
      BY <2>1, <2>5, <3>1, MoveIInv DEF Timeout
  <2> QED
    BY <1>3, <2>2, <2>3, <2>4, <2>5 DEF WriteStep
<1>4. ASSUME NEW c \in Call, RegisterChannel(c) PROVE IInv'
  BY <1>4, RegisterIInv
<1>5. ASSUME NEW c \in Call, DeviceReply(c) PROVE IInv'
  <2>1. c \in Msg /\ Ident(c) = id[c]
    BY DEF Msg, Ident
  <2> QED
    BY <1>5, <2>1, BeginIInv DEF DeviceReply
<1>6. ASSUME NEW e \in Event, DeviceEvent(e) PROVE IInv'
  <2>1. e \in Msg /\ e \notin Call /\ Ident(e) = EvId[e]
    BY CallsAssumption DEF Msg, Ident
  <2> QED
    BY <1>6, <2>1, BeginIInv DEF DeviceEvent
<1>7. ASSUME NEW m \in Msg, OnFragment(m) PROVE IInv'
  BY <1>7, FragmentIInv
<1>8. ASSUME NEW k \in channels, CloseChannel(k) PROVE IInv'
  <2>1. UNCHANGED <<connVars, notified, sendVars, callVars, begun, recvVars>>
        /\ channels' \subseteq channels
    BY <1>8 DEF CloseChannel
  <2>2. Collisions' /\ Reassembly'
    BY <2>1, FragmentsSame DEF sendVars, recvVars
  <2>3. TypeOK'
    BY <2>1 DEF IInv, TypeOK, connVars, sendVars, callVars, recvVars
  <2>4. IdsDistinct' /\ CodesTaken' /\ DeviceKnowsCalls' /\ PendingIsWaiting' /\ OwnReply'
    BY <2>1 DEF IInv, IdsDistinct, CodesTaken, DeviceKnowsCalls, PendingIsWaiting, OwnReply,
       sendVars, callVars, recvVars
  <2>5. DistinctChannels' /\ ClosedIsDeaf'
    BY <2>1 DEF IInv, DistinctChannels, ClosedIsDeaf, Handles, connVars, sendVars, callVars
  <2> QED
    BY <2>2, <2>3, <2>4, <2>5 DEF IInv
<1>9. CASE Close \/ BadFrame
  BY <1>9, CloseIInv
<1>10. CASE UNCHANGED vars
  <2>1. Collisions' /\ Reassembly'
    BY <1>10, FragmentsSame DEF vars, sendVars, recvVars
  <2> QED
    BY <1>10, <2>1 DEF vars, IInv, TypeOK, IdsDistinct, CodesTaken, DeviceKnowsCalls,
       PendingIsWaiting, OwnReply, DistinctChannels, ClosedIsDeaf, Handles,
       connVars, chanVars, sendVars, callVars, recvVars
<1> QED
  BY <1>1, <1>2, <1>3, <1>4, <1>5, <1>6, <1>7, <1>8, <1>9, <1>10 DEF Next

\* The inductive invariant holds in every behaviour, fair or not.
THEOREM Invariance == SafeSpec => []IInv
BY InitIInv, NextIInv, PTL DEF SafeSpec

\* The variables keep their types; the keys of the maps are numbers taken.
THEOREM TypeTheorem == SafeSpec => []TypeOK
<1>1. IInv => TypeOK
  BY DEF IInv
<1> QED
  BY <1>1, Invariance, PTL

\* The pending map is exactly the sends whose timer runs (send, _dispatchMessage,
\* _onClose).
THEOREM PendingTheorem == SafeSpec => []PendingIsWaiting
<1>1. IInv => PendingIsWaiting
  BY DEF IInv
<1> QED
  BY <1>1, Invariance, PTL

\* A promise resolves with the reply to its own message and to no other, whole
\* unless another message came under its identifier (_onFragment,
\* _dispatchMessage).
THEOREM OwnReplyTheorem == SafeSpec => []OwnReply
<1>1. IInv => OwnReply
  BY DEF IInv
<1> QED
  BY <1>1, Invariance, PTL

\* A message that meets no other under its identifier is put together whole and
\* pure, and only those that meet one are mixed, cut, lost or left (_onFragment).
THEOREM ReassemblyTheorem == SafeSpec => []Reassembly
<1>1. IInv => Reassembly
  BY DEF IInv
<1> QED
  BY <1>1, Invariance, PTL

\* Concurrent openChannel calls never share a code (openChannel).
THEOREM DistinctChannelsTheorem == SafeSpec => []DistinctChannels
<1>1. IInv => DistinctChannels
  BY DEF IInv
<1> QED
  BY <1>1, Invariance, PTL

\* Once closed, the connection answers no call and gives no channel a message
\* (_onClose, _onFragment).
THEOREM QuietTheorem == SafeSpec => QuietAfterClose
<1> DEFINE Quiet == closed => /\ delivered' = delivered
                              /\ \A c \in Call : st'[c] = "resolved" => st[c] = "resolved"
<1>1. ASSUME IInv, [Next]_vars, closed
      PROVE  /\ delivered' = delivered
             /\ \A c \in Call : st'[c] = "resolved" => st[c] = "resolved"
  <2> USE <1>1
  <2>1. ASSUME NEW m \in Msg, OnFragment(m) PROVE FALSE
    BY <2>1 DEF OnFragment, IInv, ClosedIsDeaf
  <2>2. ASSUME NEW c \in Call, NEW s \in States \ {"resolved"}, st' = [st EXCEPT ![c] = s]
        PROVE  \A d \in Call : st'[d] = "resolved" => st[d] = "resolved"
    BY <2>2 DEF IInv, TypeOK
  <2>3. ASSUME NEW c \in Call,
               \/ OpenChannel(c) \/ (\E k \in Handles, r \in BOOLEAN : InvokeOn(c, k, r))
               \/ WriteNext(c)
        PROVE  /\ delivered' = delivered
               /\ \A d \in Call : st'[d] = "resolved" => st[d] = "resolved"
    <3>1. delivered' = delivered
      BY <2>3 DEF OpenChannel, InvokeOn, Send, WriteNext, recvVars
    <3>2. \E s \in {"writing", "doomed"} : st' = [st EXCEPT ![c] = s]
      BY <2>3 DEF OpenChannel, InvokeOn, Send, WriteNext, WriteFragment
    <3> QED
      BY <2>2, <3>1, <3>2 DEF States
  <2>4. ASSUME NEW c \in Call,
               WriteLast(c) \/ WriteFail(c) \/ Timeout(c) \/ RegisterChannel(c)
        PROVE  /\ delivered' = delivered
               /\ \A d \in Call : st'[d] = "resolved" => st[d] = "resolved"
    <3>1. delivered' = delivered
      BY <2>4 DEF WriteLast, WriteFail, Timeout, RegisterChannel, recvVars
    <3>2. \E s \in {"sent", "waiting", "rejected", "opened"} : st' = [st EXCEPT ![c] = s]
      BY <2>4 DEF WriteLast, WriteFail, Timeout, RegisterChannel
    <3> QED
      BY <2>2, <3>1, <3>2 DEF States
  <2>5. CASE \/ \E c \in Call : DeviceReply(c)
             \/ \E e \in Event : DeviceEvent(e)
             \/ \E k \in channels : CloseChannel(k)
             \/ UNCHANGED vars
    BY <2>5 DEF DeviceReply, DeviceEvent, CloseChannel, vars, callVars, recvVars
  <2>6. CASE Close \/ BadFrame
    BY <2>6 DEF Close, BadFrame, OnClose, recvVars
  <2> QED
    BY <2>1, <2>3, <2>4, <2>5, <2>6 DEF Next, WriteStep
<1>2. IInv /\ [Next]_vars => [Quiet]_vars
  BY <1>1
<1> QED
  BY <1>2, Invariance, PTL DEF SafeSpec, QuietAfterClose

------------------------------------------------------------------------------
Seen == [c \in Call |-> Outcome(c)]
Served == Call \cap begun

\* What the caller of one call sees changes, and nothing else.
LEMMA SeenAfter ==
  ASSUME IInv, NEW c \in Call, NEW s \in States, st' = [st EXCEPT ![c] = s]
  PROVE  /\ Seen' = [Seen EXCEPT ![c] = Outcome(c)']
         /\ st'[c] = s
<1>1. st'[c] = s /\ \A d \in Call \ {c} : st'[d] = st[d]
  BY DEF IInv, TypeOK
<1>2. \A d \in Call \ {c} : Outcome(d)' = Outcome(d)
  BY <1>1 DEF Outcome
<1> QED
  BY <1>1, <1>2 DEF Seen

\* A step that no caller sees is a stutter of Rpc.
LEMMA Stutters ==
  ASSUME Seen' = Seen, UNCHANGED <<begun, oneWay>>
  PROVE  UNCHANGED RpcView!vars
BY DEF RpcView!vars, Seen

\* The rejection of some open calls together is a step of Rpc.
LEMMA FailsTogether ==
  ASSUME IInv, NEW S \in SUBSET Call, UNCHANGED <<begun, oneWay>>,
         \A c \in S : Outcome(c) = "open" /\ Outcome(c)' = "failed",
         \A c \in Call \ S : Outcome(c)' = Outcome(c)
  PROVE  [RpcView!Next]_RpcView!vars
<1>1. CASE S = {}
  <2>1. Seen' = Seen
    BY <1>1 DEF Seen
  <2> QED
    BY <2>1, Stutters
<1>2. CASE S # {}
  <2>1. RpcView!Fail(S)
    BY <1>2 DEF RpcView!Fail, Seen
  <2> QED
    BY <2>1 DEF RpcView!Next
<1> QED
  BY <1>1, <1>2

\* The initial states are initial states of Rpc.
LEMMA RefinesInit == Init => RpcView!Init
BY DEF Init, RpcView!Init, Outcome

\* Every step is a step of Rpc or one its callers do not see.
LEMMA RefinesNext == IInv /\ [Next]_vars => [RpcView!Next]_RpcView!vars
<1> SUFFICES ASSUME IInv, [Next]_vars PROVE [RpcView!Next]_RpcView!vars
  OBVIOUS
<1>1. ASSUME NEW c \in Call,
             OpenChannel(c) \/ \E k \in Handles, r \in BOOLEAN : InvokeOn(c, k, r)
      PROVE  RpcView!Next
  <2>1. /\ st[c] = "idle" /\ UNCHANGED begun /\ oneWay' \in {oneWay, oneWay \cup {c}}
        /\ \E s \in {"writing", "doomed"} : st' = [st EXCEPT ![c] = s]
    BY <1>1 DEF OpenChannel, InvokeOn, Send, WriteFragment
  <2>2. PICK s \in {"writing", "doomed"} : st' = [st EXCEPT ![c] = s]
    BY <2>1
  <2>3. Seen' = [Seen EXCEPT ![c] = Outcome(c)'] /\ st'[c] = s
    BY <2>2, SeenAfter DEF States
  <2>4. Seen[c] = "idle" /\ Outcome(c)' = "open"
    BY <2>1, <2>3 DEF Seen, Outcome
  <2> QED
    BY <2>1, <2>3, <2>4 DEF RpcView!Next, RpcView!Start, Seen
<1>2. ASSUME NEW c \in Call, WriteNext(c) PROVE UNCHANGED RpcView!vars
  <2>1. /\ st[c] = "writing" /\ UNCHANGED <<begun, oneWay>>
        /\ \E s \in {"writing", "doomed"} : st' = [st EXCEPT ![c] = s]
    BY <1>2 DEF WriteNext, WriteFragment
  <2>2. PICK s \in {"writing", "doomed"} : st' = [st EXCEPT ![c] = s]
    BY <2>1
  <2>3. Seen' = [Seen EXCEPT ![c] = Outcome(c)'] /\ st'[c] = s
    BY <2>2, SeenAfter DEF States
  <2>4. Seen[c] = "open" /\ Outcome(c)' = "open"
    BY <2>1, <2>3 DEF Seen, Outcome
  <2>5. Seen' = Seen
    BY <2>3, <2>4 DEF Seen
  <2> QED
    BY <2>1, <2>5, Stutters
<1>3. ASSUME NEW c \in Call, WriteLast(c) PROVE [RpcView!Next]_RpcView!vars
  <2>1. st[c] = "writing" /\ UNCHANGED <<begun, oneWay>>
    BY <1>3 DEF WriteLast, sendVars
  <2>2. CASE c \in oneWay /\ st' = [st EXCEPT ![c] = "sent"]
    <3>1. Seen' = [Seen EXCEPT ![c] = Outcome(c)'] /\ st'[c] = "sent"
      BY <2>2, SeenAfter DEF States
    <3>2. Seen[c] = "open" /\ Outcome(c)' = "sent"
      BY <2>1, <3>1 DEF Seen, Outcome
    <3> QED
      BY <2>1, <2>2, <3>1, <3>2 DEF RpcView!Next, RpcView!Sent, Seen
  <2>3. CASE st' = [st EXCEPT ![c] = "waiting"]
    <3>1. Seen' = [Seen EXCEPT ![c] = Outcome(c)'] /\ st'[c] = "waiting"
      BY <2>3, SeenAfter DEF States
    <3>2. Seen[c] = "open" /\ Outcome(c)' = "open"
      BY <2>1, <3>1 DEF Seen, Outcome
    <3>3. Seen' = Seen
      BY <3>1, <3>2 DEF Seen
    <3> QED
      BY <2>1, <3>3, Stutters
  <2> QED
    BY <1>3, <2>2, <2>3 DEF WriteLast
<1>4. ASSUME NEW c \in Call, WriteFail(c) \/ Timeout(c) PROVE [RpcView!Next]_RpcView!vars
  <2>1. /\ st[c] \in {"writing", "doomed", "waiting"} /\ UNCHANGED <<begun, oneWay>>
        /\ st' = [st EXCEPT ![c] = "rejected"]
    BY <1>4 DEF WriteFail, Timeout, sendVars
  <2>2. st'[c] = "rejected" /\ \A d \in Call \ {c} : st'[d] = st[d]
    BY <2>1 DEF IInv, TypeOK
  <2>3. /\ Outcome(c) = "open" /\ Outcome(c)' = "failed"
        /\ \A d \in Call \ {c} : Outcome(d)' = Outcome(d)
    BY <2>1, <2>2 DEF Outcome
  <2> QED
    BY <2>1, <2>3, FailsTogether
<1>5. ASSUME NEW c \in Call, RegisterChannel(c) PROVE UNCHANGED RpcView!vars
  <2>1. /\ st[c] = "resolved" /\ st' = [st EXCEPT ![c] = "opened"]
        /\ UNCHANGED <<begun, oneWay>>
    BY <1>5 DEF RegisterChannel, sendVars
  <2>2. Seen' = [Seen EXCEPT ![c] = Outcome(c)'] /\ st'[c] = "opened"
    BY <2>1, SeenAfter DEF States
  <2>3. Seen[c] = "answered" /\ Outcome(c)' = "answered"
    BY <2>1, <2>2 DEF Seen, Outcome
  <2>4. Seen' = Seen
    BY <2>2, <2>3 DEF Seen
  <2> QED
    BY <2>1, <2>4, Stutters
<1>6. ASSUME NEW c \in Call, DeviceReply(c) PROVE RpcView!Next
  <2>1. /\ c \in onDevice \ oneWay /\ begun' = begun \cup {c} /\ UNCHANGED <<st, oneWay>>
    BY <1>6 DEF DeviceReply, sendVars, callVars
  <2>2. Seen' = Seen /\ Seen[c] # "idle"
    BY <2>1 DEF Seen, Outcome, IInv, TypeOK, DeviceKnowsCalls, States
  <2>3. Served' = Served \cup {c}
    BY <2>1 DEF Served
  <2> QED
    BY <2>1, <2>2, <2>3 DEF RpcView!Next, RpcView!Serve, Seen, Served
<1>7. ASSUME NEW e \in Event, DeviceEvent(e) PROVE UNCHANGED RpcView!vars
  <2>1. begun' = begun \cup {e} /\ UNCHANGED <<st, oneWay>>
    BY <1>7 DEF DeviceEvent, sendVars, callVars
  <2>2. Served' = Served
    BY <2>1, CallsAssumption DEF Served
  <2>3. Seen' = Seen
    BY <2>1 DEF Seen, Outcome
  <2> QED
    BY <2>1, <2>2, <2>3 DEF RpcView!vars, Seen, Served
<1>8. ASSUME NEW m \in Msg, OnFragment(m) PROVE [RpcView!Next]_RpcView!vars
  <2>1. UNCHANGED <<begun, oneWay>>
    BY <1>8 DEF OnFragment, sendVars
  <2>2. CASE UNCHANGED callVars
    <3>1. Seen' = Seen
      BY <2>2 DEF Seen, Outcome, callVars
    <3> QED
      BY <2>1, <3>1, Stutters
  <2>3. ASSUME NEW x \in Msg, x \in begun, Settles(x) PROVE RpcView!Next
    <3>1. x \in Call /\ st[x] = "waiting" /\ st' = [st EXCEPT ![x] = "resolved"]
      BY <2>3 DEF Settles
    <3>2. Seen' = [Seen EXCEPT ![x] = Outcome(x)'] /\ st'[x] = "resolved"
      BY <3>1, SeenAfter DEF States
    <3>3. Seen[x] = "open" /\ Outcome(x)' = "answered"
      BY <3>1, <3>2 DEF Seen, Outcome
    <3> QED
      BY <2>1, <2>3, <3>1, <3>2, <3>3 DEF RpcView!Next, RpcView!Answer, Seen
  <2> QED
    BY <1>8, <2>2, <2>3, FragmentSettlesOwn
<1>9. CASE Close \/ BadFrame
  <2>1. OnClose /\ UNCHANGED <<begun, oneWay, id>>
    BY <1>9 DEF Close, BadFrame, sendVars
  <2> DEFINE S == {c \in Call : st[c] = "waiting" /\ st'[c] = "rejected"}
  <2>2. \A c \in Call : st'[c] = st[c] \/ (st[c] = "waiting" /\ st'[c] = "rejected")
    BY <2>1, OnCloseSteps
  <2>3. /\ S \in SUBSET Call
        /\ \A c \in S : Outcome(c) = "open" /\ Outcome(c)' = "failed"
        /\ \A c \in Call \ S : Outcome(c)' = Outcome(c)
    BY <2>2 DEF Outcome
  <2> HIDE DEF S
  <2> QED
    BY <2>1, <2>3, FailsTogether
<1>10. CASE UNCHANGED vars \/ \E k \in channels : CloseChannel(k)
  <2>1. UNCHANGED <<st, begun, oneWay>>
    BY <1>10 DEF vars, CloseChannel, sendVars, callVars
  <2>2. Seen' = Seen
    BY <2>1 DEF Seen, Outcome
  <2> QED
    BY <2>1, <2>2, Stutters
<1> QED
  BY <1>1, <1>2, <1>3, <1>4, <1>5, <1>6, <1>7, <1>8, <1>9, <1>10 DEF Next, WriteStep

\* The connection implements Rpc: each send settles at most once, resolved only by
\* a reply the device sent to it.
THEOREM Refinement == SafeSpec => ImplementsRpc
BY RefinesInit, RefinesNext, Invariance, PTL DEF SafeSpec, ImplementsRpc, RpcView!SafeSpec
==============================================================================
