------------------------------ MODULE DtxChannel ------------------------------
(***************************************************************************)
(* The inbound side of one DtxChannel (packages/core/src/dtx/provider.ts): *)
(* the queue of messages nobody has asked for, the waiters of the recv()   *)
(* calls nobody has answered, and their timers.  The streams of the DVT    *)
(* services (sysmontap samples, process output, ...) loop over recv.       *)
(*                                                                         *)
(* Messages are numbered in the order the connection hands them over.  The *)
(* connection hands over nothing after it closed, see QuietAfterClose in   *)
(* DtxConnection.                                                          *)
(***************************************************************************)
EXTENDS Naturals, Sequences, FiniteSets

CONSTANTS
  Recv,    \* the recv() calls
  MaxMsg   \* bound: the messages the connection hands over

ASSUME MaxMsgAssumption == MaxMsg \in Nat

VARIABLES
  queue,     \* msgQueue
  waiters,   \* waiters: the recv call each entry belongs to
  state,     \* the promise of each recv call: "idle" until called, "waiting",
             \* then "got", "closed" or "timedOut"
  got,       \* the message it resolved with, 0 if none
  attached,  \* the channel's handler is registered with the connection
  connClosed,\* the connection has closed
  pushed,    \* how many messages the handler was given
  lost,      \* those that no recv will ever return
  called,    \* the recv calls in the order they were made
  atClose    \* how many had been made when the connection closed

vars == <<queue, waiters, state, got, attached, connClosed, pushed, lost,
          called, atClose>>

Init ==
  /\ queue = <<>> /\ waiters = <<>>
  /\ state = [r \in Recv |-> "idle"]
  /\ got = [r \in Recv |-> 0]
  /\ attached = TRUE /\ connClosed = FALSE
  /\ pushed = 0 /\ lost = {}
  /\ called = <<>> /\ atClose = 0

\* (mutant) A stack of waiters: waiters.pop() for waiters.shift().
LastWaiter == [next |-> waiters[Len(waiters)],
               rest |-> SubSeq(waiters, 1, Len(waiters) - 1)]

\* (mutant) The waiter is answered and stays: waiters[0] for waiters.shift().
PeekedWaiter == [next |-> Head(waiters), rest |-> waiters]

\* waiters.shift()
FirstWaiter == [next |-> Head(waiters), rest |-> Tail(waiters)]

\* (mutant) _push queues the message without looking for a waiter.
PushQueues ==
  /\ attached /\ ~connClosed /\ pushed < MaxMsg
  /\ pushed' = pushed + 1
  /\ queue' = Append(queue, pushed + 1)
  /\ UNCHANGED <<waiters, state, got, attached, connClosed, lost, called,
                 atClose>>

\* _push: the first waiter takes the message, even one whose promise its timer
\* has rejected, for which resolving has no effect.
Push ==
  /\ attached /\ ~connClosed /\ pushed < MaxMsg
  /\ pushed' = pushed + 1
  /\ \/ /\ waiters = <<>>
        /\ queue' = Append(queue, pushed + 1)
        /\ UNCHANGED <<waiters, state, got, lost>>
     \/ /\ waiters # <<>>
        /\ LET r == FirstWaiter.next IN
           \/ /\ state[r] = "waiting"
              /\ state' = [state EXCEPT ![r] = "got"]
              /\ got' = [got EXCEPT ![r] = pushed + 1]
              /\ UNCHANGED lost
           \/ /\ state[r] # "waiting"
              /\ lost' = lost \cup {pushed + 1}
              /\ UNCHANGED <<state, got>>
        /\ waiters' = FirstWaiter.rest
        /\ UNCHANGED queue
  /\ UNCHANGED <<attached, connClosed, called, atClose>>

\* (mutant) _pushClose tells the first waiter only.
ToldFirst == IF waiters = <<>> THEN {} ELSE {waiters[1]}

\* _pushClose resolves every waiter with '__closed__'.
ToldOfClose == {waiters[i] : i \in DOMAIN waiters}

\* The connection closes: _onClose calls onClosed of the registered handlers.
ConnectionCloses ==
  /\ ~connClosed
  /\ connClosed' = TRUE
  /\ atClose' = Len(called)
  /\ IF attached
     THEN /\ state' = [r \in Recv |->
                        IF r \in ToldOfClose /\ state[r] = "waiting"
                        THEN "closed" ELSE state[r]]
          /\ waiters' = <<>>
     ELSE UNCHANGED <<state, waiters>>
  /\ UNCHANGED <<queue, got, attached, pushed, lost, called>>

\* recv(): a queued message at once, or a waiter with a timer. It does not ask
\* whether the connection is closed.
CallRecv(r) ==
  /\ state[r] = "idle"
  /\ called' = Append(called, r)
  /\ \/ /\ queue # <<>>
        /\ state' = [state EXCEPT ![r] = "got"]
        /\ got' = [got EXCEPT ![r] = Head(queue)]
        /\ queue' = Tail(queue)
        /\ UNCHANGED waiters
     \/ /\ queue = <<>>
        /\ state' = [state EXCEPT ![r] = "waiting"]
        /\ waiters' = Append(waiters, r)
        /\ UNCHANGED <<queue, got>>
  /\ UNCHANGED <<attached, connClosed, pushed, lost, atClose>>

\* (mutant) The timer is stopped when the connection closes.
RecvTimeoutUnlessClosed(r) ==
  /\ state[r] = "waiting" /\ ~connClosed
  /\ state' = [state EXCEPT ![r] = "timedOut"]
  /\ UNCHANGED <<queue, waiters, got, attached, connClosed, pushed, lost,
                 called, atClose>>

\* The timer rejects the promise. It looks for the promise's resolve function
\* in waiters, which holds the wrapper around it: nothing is removed.
RecvTimeout(r) ==
  /\ state[r] = "waiting"
  /\ state' = [state EXCEPT ![r] = "timedOut"]
  /\ UNCHANGED <<queue, waiters, got, attached, connClosed, pushed, lost,
                 called, atClose>>

\* close() unregisters the handler and leaves the waiters to their timers.
CloseChannel ==
  /\ attached
  /\ attached' = FALSE
  /\ UNCHANGED <<queue, waiters, state, got, connClosed, pushed, lost, called,
                 atClose>>

Next ==
  \/ Push
  \/ ConnectionCloses
  \/ \E r \in Recv : CallRecv(r) \/ RecvTimeout(r)
  \/ CloseChannel

\* Timers fire; nothing is assumed of the device.
Spec == Init /\ [][Next]_vars /\ \A r \in Recv : WF_vars(RecvTimeout(r))

------------------------------------------------------------------------------
States == {"idle", "waiting", "got", "closed", "timedOut"}

TypeOK ==
  /\ queue \in Seq(1..pushed) /\ waiters \in Seq(Recv) /\ called \in Seq(Recv)
  /\ state \in [Recv -> States] /\ got \in [Recv -> 0..pushed]
  /\ attached \in BOOLEAN /\ connClosed \in BOOLEAN
  /\ pushed \in Nat /\ lost \subseteq 1..pushed
  /\ atClose \in 0..Len(called)

\* No recv waits for a message that is queued: _push never queues past a waiter
\* and recv never waits past a message.
QueueOrWaiters == queue = <<>> \/ waiters = <<>>

\* Messages come out of recv in the order the device sent them, by the order of
\* the recv calls, however queueing, waiting and timeouts interleave.
InOrder ==
  /\ \A i, j \in DOMAIN called :
       i < j /\ got[called[i]] # 0 /\ got[called[j]] # 0 =>
         got[called[i]] < got[called[j]]
  /\ \A r \in Recv, i \in DOMAIN queue : got[r] < queue[i]

TimedOut == {r \in Recv : state[r] = "timedOut"}
DeadWaiters == {r \in TimedOut : \E i \in DOMAIN waiters : waiters[i] = r}

\* Every message is queued, returned by one recv or lost, and each recv that
\* timed out accounts for one lost message at most: the one its stale waiter
\* takes.
OneLossPerTimeout ==
  /\ \A n \in 1..pushed :
       Cardinality({r \in Recv : got[r] = n}) +
       Cardinality({i \in DOMAIN queue : queue[i] = n}) +
       Cardinality(lost \cap {n}) = 1
  /\ Cardinality(lost) + Cardinality(DeadWaiters) <= Cardinality(TimedOut)

\* A recv that was waiting on an open channel when the connection closed has
\* been told; only one made after the close, or on a closed channel, still
\* waits, for its timer.
CloseTellsWaiters ==
  connClosed /\ attached =>
    \A i \in DOMAIN called : state[called[i]] = "waiting" => i > atClose

\* Every recv settles, if only by its timer, on a channel that is silent, closed
\* or cut off.
EveryRecvSettles == \A r \in Recv : state[r] = "waiting" ~> state[r] # "waiting"

\* The timer of recv takes its waiter out of waiters (provider.ts:40-41), so
\* every message the device sends is queued or returned by a recv.
NoMessageLost == lost = {}
==============================================================================
