-------------------------- MODULE DtxChannel_proofs --------------------------
(* What holds of every number of recv calls and messages of a channel. *)
EXTENDS DtxChannel, FiniteSetTheorems, TLAPS

\* Each recv is called once, and only one that has resolved has a message.
CalledOnce ==
  /\ \A i, j \in DOMAIN called : called[i] = called[j] => i = j
  /\ \A i \in DOMAIN called : state[called[i]] # "idle"
  /\ \A r \in Recv : got[r] # 0 => state[r] = "got"

QueueSorted == \A i, j \in DOMAIN queue : i < j => queue[i] < queue[j]

\* A waiter is a call that waits or has timed out, and a call that waits has one.
WaitersAreCalls ==
  /\ \A a \in DOMAIN waiters : state[waiters[a]] \in {"waiting", "timedOut"}
  /\ \A a \in DOMAIN waiters : \E i \in DOMAIN called : called[i] = waiters[a]
  /\ \A r \in Recv : state[r] = "waiting" => \E a \in DOMAIN waiters : waiters[a] = r

\* Waiters stand in line once, in the order of their calls, and nobody who called
\* after one that stands in line has been served.
WaitersInLine ==
  /\ \A a, b \in DOMAIN waiters : waiters[a] = waiters[b] => a = b
  /\ \A a \in DOMAIN waiters, i, j \in DOMAIN called :
       called[i] = waiters[a] /\ i < j =>
         /\ got[called[j]] = 0
         /\ \A b \in DOMAIN waiters : waiters[b] = called[j] => a < b

IInv ==
  /\ TypeOK /\ CalledOnce /\ QueueSorted /\ WaitersAreCalls /\ WaitersInLine
  /\ QueueOrWaiters /\ InOrder /\ CloseTellsWaiters

\* What Append and Tail do to a sequence.
LEMMA AppendIs ==
  ASSUME NEW S, NEW s \in Seq(S), NEW e \in S
  PROVE  /\ Append(s, e) \in Seq(S) /\ Len(s) \in Nat
         /\ DOMAIN s = 1..Len(s)
         /\ Len(Append(s, e)) = Len(s) + 1
         /\ DOMAIN Append(s, e) = 1..(Len(s) + 1)
         /\ \A i \in 1..Len(s) : Append(s, e)[i] = s[i]
         /\ Append(s, e)[Len(s) + 1] = e
OBVIOUS

\* The head of a sequence that is not empty is its first element, and its tail
\* the others.
LEMMA TailIs ==
  ASSUME NEW S, NEW s \in Seq(S), s # <<>>
  PROVE  /\ Head(s) \in S /\ Head(s) = s[1]
         /\ Len(s) \in Nat /\ Len(s) >= 1
         /\ DOMAIN s = 1..Len(s)
         /\ Tail(s) \in Seq(S)
         /\ DOMAIN Tail(s) = 1..(Len(s) - 1)
         /\ \A i \in 1..(Len(s) - 1) : Tail(s)[i] = s[i + 1]
OBVIOUS

\* A sequence over a set is one over every larger set.
LEMMA SeqGrows ==
  ASSUME NEW S, NEW T, S \subseteq T, NEW s \in Seq(S)
  PROVE  s \in Seq(T)
OBVIOUS

\* A message that finds no waiter is queued behind the others.
LEMMA PushQueued ==
  ASSUME IInv, Push, waiters = <<>>, queue' = Append(queue, pushed + 1)
  PROVE  IInv'
<1> USE DEF IInv, TypeOK
<1>1. /\ pushed' = pushed + 1 /\ pushed \in Nat
      /\ UNCHANGED <<waiters, state, got, lost, attached, connClosed, called, atClose>>
  <2>1. queue' # queue
    BY AppendIs DEF Push
  <2> QED
    BY <2>1 DEF Push
<1>2. 1..pushed \subseteq 1..pushed' /\ pushed + 1 \in 1..pushed'
  BY <1>1
<1>3. queue \in Seq(1..pushed')
  BY <1>2, SeqGrows
<1>4. /\ queue' \in Seq(1..pushed')
      /\ DOMAIN queue = 1..Len(queue) /\ Len(queue) \in Nat
      /\ DOMAIN queue' = 1..(Len(queue) + 1)
      /\ \A i \in 1..Len(queue) : queue'[i] = queue[i] /\ queue[i] \in 1..pushed
      /\ queue'[Len(queue) + 1] = pushed + 1
  BY <1>2, <1>3, AppendIs
<1>5. TypeOK'
  BY <1>1, <1>2, <1>4
<1>6. QueueSorted'
  BY <1>1, <1>4 DEF QueueSorted
<1>7. InOrder'
  BY <1>1, <1>4 DEF InOrder
<1> QED
  BY <1>1, <1>5, <1>6, <1>7
  DEF CalledOnce, WaitersAreCalls, WaitersInLine, QueueOrWaiters, CloseTellsWaiters

\* A message goes to the first waiter, which is the earliest call in line: it is
\* resolved with it, or has timed out and the message is lost.
LEMMA PushServed ==
  ASSUME IInv, Push, waiters # <<>>, waiters' = Tail(waiters)
  PROVE  IInv'
<1> DEFINE r == Head(waiters)
<1> USE DEF IInv
<1>1. /\ r \in Recv /\ r = waiters[1] /\ Len(waiters) \in Nat /\ Len(waiters) >= 1
      /\ waiters' \in Seq(Recv)
      /\ DOMAIN waiters = 1..Len(waiters) /\ DOMAIN waiters' = 1..(Len(waiters) - 1)
      /\ \A a \in 1..(Len(waiters) - 1) : waiters'[a] = waiters[a + 1]
  BY TailIs DEF TypeOK
<1>2. queue = <<>>
  BY DEF QueueOrWaiters
<1>3. /\ pushed' = pushed + 1 /\ pushed \in Nat
      /\ UNCHANGED <<queue, attached, connClosed, called, atClose>>
      /\ \/ /\ state[r] = "waiting"
            /\ state' = [state EXCEPT ![r] = "got"]
            /\ got' = [got EXCEPT ![r] = pushed + 1]
            /\ UNCHANGED lost
         \/ /\ state[r] # "waiting"
            /\ lost' = lost \cup {pushed + 1}
            /\ UNCHANGED <<state, got>>
  BY DEF Push, FirstWaiter, TypeOK
<1>4. 1..pushed \subseteq 1..pushed' /\ pushed + 1 \in 1..pushed'
      /\ 0..pushed \subseteq 0..pushed'
  BY <1>3
<1>5. queue' \in Seq(1..pushed') /\ DOMAIN queue' = {}
  BY <1>2, <1>3
<1>6. TypeOK'
  <2>1. state' \in [Recv -> States]
    BY <1>1, <1>3 DEF TypeOK, States
  <2>2. got' \in [Recv -> 0..pushed']
    <3>1. CASE UNCHANGED got
      BY <3>1, <1>4 DEF TypeOK
    <3>2. CASE got' = [got EXCEPT ![r] = pushed + 1]
      BY <3>2, <1>1, <1>3, <1>4 DEF TypeOK
    <3> QED
      BY <3>1, <3>2, <1>3
  <2>3. lost' \subseteq 1..pushed'
    BY <1>3, <1>4 DEF TypeOK
  <2> QED
    BY <2>1, <2>2, <2>3, <1>1, <1>3, <1>5 DEF TypeOK
<1>7. state \in [Recv -> States] /\ got \in [Recv -> 0..pushed] /\ called \in Seq(Recv)
  BY DEF TypeOK
<1>8. \A i \in DOMAIN called : called[i] \in Recv
  BY <1>7
<1>9. CalledOnce'
  BY <1>1, <1>3, <1>7, <1>8 DEF CalledOnce
<1>10. \A a \in DOMAIN waiters' : waiters'[a] # r /\ waiters'[a] = waiters[a + 1]
                                 /\ a + 1 \in DOMAIN waiters /\ waiters'[a] \in Recv
  BY <1>1 DEF WaitersInLine
<1>11. WaitersAreCalls'
  <2>1. \A a \in DOMAIN waiters' : state'[waiters'[a]] \in {"waiting", "timedOut"}
    BY <1>3, <1>7, <1>10 DEF WaitersAreCalls
  <2>2. \A a \in DOMAIN waiters' : \E i \in DOMAIN called' : called'[i] = waiters'[a]
    BY <1>3, <1>10 DEF WaitersAreCalls
  <2>3. ASSUME NEW q \in Recv, state'[q] = "waiting"
        PROVE  \E a \in DOMAIN waiters' : waiters'[a] = q
    <3>1. q # r /\ state[q] = "waiting"
      BY <2>3, <1>1, <1>3, <1>7
    <3>2. PICK b \in DOMAIN waiters : waiters[b] = q
      BY <3>1 DEF WaitersAreCalls
    <3>3. b \in 1..Len(waiters) /\ b # 1
      BY <3>1, <3>2, <1>1
    <3>4. b - 1 \in DOMAIN waiters' /\ waiters'[b - 1] = q
      BY <3>2, <3>3, <1>1
    <3> QED
      BY <3>4
  <2> QED
    BY <2>1, <2>2, <2>3 DEF WaitersAreCalls
<1>12. \A i, j \in DOMAIN called : i < j /\ called[i] = r => got[called[j]] = 0
  BY <1>1 DEF WaitersInLine
<1>13. WaitersInLine'
  <2>1. ASSUME NEW a \in DOMAIN waiters', NEW i \in DOMAIN called, NEW j \in DOMAIN called,
               called[i] = waiters'[a], i < j
        PROVE  /\ got'[called[j]] = 0
               /\ \A b \in DOMAIN waiters' : waiters'[b] = called[j] => a < b
    <3>1. got[called[j]] = 0
      BY <2>1, <1>10 DEF WaitersInLine
    <3>2. called[j] # r
      <4>1. waiters[1] = called[j] => a + 1 < 1
        BY <2>1, <1>1, <1>10 DEF WaitersInLine
      <4> QED
        BY <4>1, <1>1
    <3>3. got'[called[j]] = 0
      BY <3>1, <3>2, <1>3, <1>7, <1>8
    <3>4. ASSUME NEW b \in DOMAIN waiters', waiters'[b] = called[j] PROVE a < b
      <4>1. a + 1 < b + 1
        BY <2>1, <3>4, <1>10 DEF WaitersInLine
      <4> QED
        BY <4>1, <1>1
    <3> QED
      BY <3>3, <3>4
  <2>2. ASSUME NEW a \in DOMAIN waiters', NEW b \in DOMAIN waiters', waiters'[a] = waiters'[b]
        PROVE  a = b
    <3>1. a + 1 = b + 1
      BY <2>2, <1>10 DEF WaitersInLine
    <3> QED
      BY <3>1, <1>1
  <2> QED
    BY <2>1, <2>2, <1>3 DEF WaitersInLine
<1>14. InOrder'
  <2>1. \A i, j \in DOMAIN called :
          i < j /\ got'[called[i]] # 0 /\ got'[called[j]] # 0 =>
            got'[called[i]] < got'[called[j]]
    <3> SUFFICES ASSUME NEW i \in DOMAIN called, NEW j \in DOMAIN called, i < j,
                        got'[called[i]] # 0, got'[called[j]] # 0
                 PROVE  got'[called[i]] < got'[called[j]]
      OBVIOUS
    <3>1. CASE UNCHANGED got
      BY <3>1 DEF InOrder
    <3>2. CASE got' = [got EXCEPT ![r] = pushed + 1]
      <4>1. called[i] # called[j]
        BY DEF CalledOnce, TypeOK
      <4>2. called[i] # r
        BY <3>2, <4>1, <1>7, <1>8, <1>12
      <4>3. got'[called[i]] = got[called[i]] /\ got[called[i]] \in 0..pushed
        BY <3>2, <4>2, <1>7, <1>8
      <4>4. CASE called[j] = r
        BY <4>3, <4>4, <3>2, <1>1, <1>3, <1>7
      <4>5. CASE called[j] # r
        BY <4>3, <4>5, <3>2, <1>7, <1>8 DEF InOrder
      <4> QED
        BY <4>4, <4>5
    <3> QED
      BY <3>1, <3>2, <1>3
  <2> QED
    BY <2>1, <1>3, <1>5 DEF InOrder
<1>15. QueueSorted' /\ QueueOrWaiters'
  BY <1>2, <1>3 DEF QueueSorted, QueueOrWaiters
<1>16. CloseTellsWaiters'
  BY <1>3, <1>7, <1>8 DEF CloseTellsWaiters
<1> QED
  BY <1>6, <1>9, <1>11, <1>13, <1>14, <1>15, <1>16

\* recv takes the first message of the queue.
LEMMA RecvQueued ==
  ASSUME IInv, NEW r \in Recv, CallRecv(r), queue # <<>>
  PROVE  IInv'
<1> USE DEF IInv
<1>1. /\ state[r] = "idle" /\ called' = Append(called, r)
      /\ state' = [state EXCEPT ![r] = "got"]
      /\ got' = [got EXCEPT ![r] = Head(queue)]
      /\ queue' = Tail(queue)
      /\ UNCHANGED <<waiters, attached, connClosed, pushed, lost, atClose>>
  BY DEF CallRecv
<1>2. /\ Head(queue) \in 1..pushed /\ Head(queue) = queue[1]
      /\ Len(queue) \in Nat /\ Len(queue) >= 1
      /\ Tail(queue) \in Seq(1..pushed) /\ pushed \in Nat
      /\ DOMAIN queue = 1..Len(queue) /\ DOMAIN queue' = 1..(Len(queue) - 1)
      /\ \A i \in 1..(Len(queue) - 1) : queue'[i] = queue[i + 1]
  BY <1>1, TailIs DEF TypeOK
<1>3. /\ called' \in Seq(Recv) /\ Len(called) \in Nat
      /\ Len(called') = Len(called) + 1
      /\ DOMAIN called = 1..Len(called) /\ DOMAIN called' = 1..(Len(called) + 1)
      /\ \A i \in 1..Len(called) : called'[i] = called[i] /\ called[i] \in Recv
      /\ called'[Len(called) + 1] = r
  BY <1>1, AppendIs DEF TypeOK
<1>4. waiters = <<>> /\ waiters' = <<>>
  BY <1>1 DEF QueueOrWaiters
<1>5. /\ state \in [Recv -> States] /\ got \in [Recv -> 0..pushed]
      /\ state' \in [Recv -> States] /\ got' \in [Recv -> 0..pushed]
  BY <1>1, <1>2 DEF TypeOK, States
<1>6. TypeOK'
  BY <1>1, <1>2, <1>3, <1>5 DEF TypeOK
<1>7. \A i \in DOMAIN called : called[i] # r
  BY <1>1 DEF CalledOnce
<1>8. CalledOnce'
  BY <1>1, <1>3, <1>5, <1>7 DEF CalledOnce
<1>9. QueueSorted'
  <2> SUFFICES ASSUME NEW i \in DOMAIN queue', NEW j \in DOMAIN queue', i < j
               PROVE  queue'[i] < queue'[j]
    BY DEF QueueSorted
  <2>1. /\ queue'[i] = queue[i + 1] /\ queue'[j] = queue[j + 1]
        /\ i + 1 \in DOMAIN queue /\ j + 1 \in DOMAIN queue /\ i + 1 < j + 1
    BY <1>2
  <2> QED
    BY <2>1 DEF QueueSorted
<1>10. WaitersAreCalls' /\ WaitersInLine' /\ QueueOrWaiters'
  BY <1>1, <1>4, <1>5 DEF WaitersAreCalls, WaitersInLine, QueueOrWaiters
<1>11. \A q \in Recv : got[q] < Head(queue)
  BY <1>2 DEF InOrder
<1>12. InOrder'
  <2>1. ASSUME NEW i \in DOMAIN called', NEW j \in DOMAIN called', i < j,
               got'[called'[i]] # 0, got'[called'[j]] # 0
        PROVE  got'[called'[i]] < got'[called'[j]]
    <3>1. i \in 1..Len(called) /\ called'[i] = called[i] /\ called[i] \in Recv
      BY <2>1, <1>3
    <3>2. got'[called'[i]] = got[called[i]]
      BY <3>1, <1>1, <1>3, <1>5, <1>7
    <3>3. CASE j \in 1..Len(called)
      <4>1. got'[called'[j]] = got[called[j]]
        BY <3>3, <1>1, <1>3, <1>5, <1>7
      <4> QED
        BY <2>1, <3>1, <3>2, <3>3, <4>1, <1>3 DEF InOrder
    <3>4. CASE j = Len(called) + 1
      <4>1. got'[called'[j]] = Head(queue)
        BY <3>4, <1>1, <1>3, <1>5
      <4> QED
        BY <3>1, <3>2, <4>1, <1>11
    <3> QED
      BY <3>3, <3>4, <1>3
  <2>2. ASSUME NEW q \in Recv, NEW i \in DOMAIN queue'
        PROVE  got'[q] < queue'[i]
    <3>1. i + 1 \in DOMAIN queue /\ 1 \in DOMAIN queue /\ queue'[i] = queue[i + 1] /\ 1 < i + 1
      BY <1>2
    <3>2. Head(queue) < queue'[i]
      BY <3>1, <1>2 DEF QueueSorted
    <3>3. CASE q = r
      BY <3>2, <3>3, <1>1, <1>5
    <3>4. CASE q # r
      <4>1. got'[q] = got[q]
        BY <3>4, <1>1, <1>5
      <4> QED
        BY <3>1, <4>1 DEF InOrder
    <3> QED
      BY <3>3, <3>4
  <2> QED
    BY <2>1, <2>2 DEF InOrder
<1>13. CloseTellsWaiters'
  BY <1>1, <1>3, <1>5, <1>7 DEF CloseTellsWaiters
<1> QED
  BY <1>6, <1>8, <1>9, <1>10, <1>12, <1>13

\* recv finds no message and stands in line behind the others.
LEMMA RecvWaits ==
  ASSUME IInv, NEW r \in Recv, CallRecv(r), queue = <<>>
  PROVE  IInv'
<1> USE DEF IInv
<1>1. /\ state[r] = "idle" /\ called' = Append(called, r)
      /\ state' = [state EXCEPT ![r] = "waiting"]
      /\ waiters' = Append(waiters, r)
      /\ UNCHANGED <<queue, got, attached, connClosed, pushed, lost, atClose>>
  BY DEF CallRecv
<1>2. /\ waiters' \in Seq(Recv) /\ Len(waiters) \in Nat
      /\ DOMAIN waiters = 1..Len(waiters) /\ DOMAIN waiters' = 1..(Len(waiters) + 1)
      /\ \A a \in 1..Len(waiters) : waiters'[a] = waiters[a] /\ waiters[a] \in Recv
      /\ waiters'[Len(waiters) + 1] = r
  BY <1>1, AppendIs DEF TypeOK
<1>3. /\ called' \in Seq(Recv) /\ Len(called) \in Nat
      /\ Len(called') = Len(called) + 1
      /\ DOMAIN called = 1..Len(called) /\ DOMAIN called' = 1..(Len(called) + 1)
      /\ \A i \in 1..Len(called) : called'[i] = called[i] /\ called[i] \in Recv
      /\ called'[Len(called) + 1] = r
  BY <1>1, AppendIs DEF TypeOK
<1>4. /\ state \in [Recv -> States] /\ state' \in [Recv -> States]
      /\ got \in [Recv -> 0..pushed] /\ pushed \in Nat
  BY <1>1 DEF TypeOK, States
<1>5. TypeOK'
  BY <1>1, <1>2, <1>3, <1>4 DEF TypeOK
<1>6. \A i \in DOMAIN called : called[i] # r
  BY <1>1 DEF CalledOnce
<1>7. \A a \in DOMAIN waiters : waiters[a] # r
  BY <1>1 DEF WaitersAreCalls
<1>8. got[r] = 0
  BY <1>1 DEF CalledOnce
<1>9. CalledOnce'
  BY <1>1, <1>3, <1>4, <1>6, <1>8 DEF CalledOnce
<1>10. WaitersAreCalls'
  <2>1. \A a \in DOMAIN waiters' : state'[waiters'[a]] \in {"waiting", "timedOut"}
    BY <1>1, <1>2, <1>4, <1>7 DEF WaitersAreCalls
  <2>2. ASSUME NEW a \in DOMAIN waiters'
        PROVE  \E i \in DOMAIN called' : called'[i] = waiters'[a]
    <3>1. CASE a \in DOMAIN waiters
      <4>1. PICK i \in DOMAIN called : called[i] = waiters[a]
        BY <3>1 DEF WaitersAreCalls
      <4> QED
        BY <3>1, <4>1, <1>2, <1>3
    <3>2. CASE a = Len(waiters) + 1
      BY <3>2, <1>2, <1>3
    <3> QED
      BY <3>1, <3>2, <1>2
  <2>3. ASSUME NEW q \in Recv, state'[q] = "waiting"
        PROVE  \E a \in DOMAIN waiters' : waiters'[a] = q
    <3>1. CASE q = r
      BY <3>1, <1>2
    <3>2. CASE q # r
      <4>1. PICK a \in DOMAIN waiters : waiters[a] = q
        BY <2>3, <3>2, <1>1, <1>4 DEF WaitersAreCalls
      <4> QED
        BY <4>1, <1>2
    <3> QED
      BY <3>1, <3>2
  <2> QED
    BY <2>1, <2>2, <2>3 DEF WaitersAreCalls
<1>11. WaitersInLine'
  <2>1. ASSUME NEW a \in DOMAIN waiters', NEW b \in DOMAIN waiters', waiters'[a] = waiters'[b]
        PROVE  a = b
    BY <2>1, <1>2, <1>7 DEF WaitersInLine
  <2>2. ASSUME NEW a \in DOMAIN waiters', NEW i \in DOMAIN called', NEW j \in DOMAIN called',
               called'[i] = waiters'[a], i < j
        PROVE  /\ got[called'[j]] = 0
               /\ \A b \in DOMAIN waiters' : waiters'[b] = called'[j] => a < b
    <3>1. i \in DOMAIN called /\ called'[i] = called[i] /\ called[i] # r
      BY <2>2, <1>3, <1>6
    <3>2. a \in DOMAIN waiters /\ waiters'[a] = waiters[a]
      <4>1. a # Len(waiters) + 1
        BY <2>2, <3>1, <1>2
      <4>2. a \in 1..(Len(waiters) + 1)
        BY <1>2
      <4>3. a \in 1..Len(waiters)
        BY <4>1, <4>2, <1>2
      <4> QED
        BY <4>3, <1>2
    <3>3. CASE j \in DOMAIN called
      <4>1. called'[j] = called[j] /\ called[j] # r
        BY <3>3, <1>3, <1>6
      <4>2. /\ got[called[j]] = 0
            /\ \A b \in DOMAIN waiters : waiters[b] = called[j] => a < b
        <5>1. called[i] = waiters[a]
          BY <2>2, <3>1, <3>2
        <5> QED
          BY <5>1, <2>2, <3>1, <3>2, <3>3 DEF WaitersInLine
      <4>3. ASSUME NEW b \in DOMAIN waiters', waiters'[b] = called'[j] PROVE a < b
        <5>1. b # Len(waiters) + 1
          BY <4>1, <4>3, <1>2
        <5>2. b \in 1..Len(waiters)
          BY <5>1, <1>2
        <5>3. b \in DOMAIN waiters /\ waiters[b] = called[j]
          BY <4>1, <4>3, <5>2, <1>2
        <5> QED
          BY <4>2, <5>3
      <4> QED
        BY <4>1, <4>2, <4>3
    <3>4. CASE j = Len(called) + 1
      BY <3>2, <3>4, <1>2, <1>3, <1>7, <1>8
    <3> QED
      BY <3>3, <3>4, <1>3
  <2>3. \A a \in DOMAIN waiters', i, j \in DOMAIN called' :
          called'[i] = waiters'[a] /\ i < j =>
            /\ got[called'[j]] = 0
            /\ \A b \in DOMAIN waiters' : waiters'[b] = called'[j] => a < b
    BY <2>2
  <2>4. got' = got
    BY <1>1
  <2> QED
    BY <2>1, <2>3, <2>4 DEF WaitersInLine
<1>12. QueueOrWaiters' /\ QueueSorted'
  BY <1>1 DEF QueueOrWaiters, QueueSorted
<1>13. InOrder'
  <2>1. \A i, j \in DOMAIN called' :
          i < j /\ got[called'[i]] # 0 /\ got[called'[j]] # 0 =>
            got[called'[i]] < got[called'[j]]
    BY <1>3, <1>8 DEF InOrder
  <2> QED
    BY <2>1, <1>1 DEF InOrder
<1>14. CloseTellsWaiters'
  <2> SUFFICES ASSUME connClosed, attached, NEW i \in DOMAIN called',
                      state'[called'[i]] = "waiting"
               PROVE  i > atClose
    BY <1>1 DEF CloseTellsWaiters
  <2>1. CASE i \in DOMAIN called
    BY <2>1, <1>1, <1>3, <1>4, <1>6 DEF CloseTellsWaiters
  <2>2. CASE i = Len(called) + 1
    BY <2>2, <1>3 DEF TypeOK
  <2> QED
    BY <2>1, <2>2, <1>3
<1> QED
  BY <1>5, <1>9, <1>10, <1>11, <1>12, <1>13, <1>14

\* The connection's close takes every waiter of an open channel out of the line.
LEMMA CloseKeeps == ASSUME IInv, ConnectionCloses PROVE IInv'
<1> USE DEF IInv
<1>1. /\ connClosed' = TRUE /\ atClose' = Len(called)
      /\ UNCHANGED <<queue, got, attached, pushed, lost, called>>
  BY DEF ConnectionCloses
<1>2. /\ state \in [Recv -> States] /\ called \in Seq(Recv)
      /\ DOMAIN called = 1..Len(called) /\ Len(called) \in Nat
      /\ \A i \in DOMAIN called : called[i] \in Recv
  BY DEF TypeOK
<1>3. CASE attached
  <2>1. /\ waiters' = <<>>
        /\ state' = [r \in Recv |-> IF r \in ToldOfClose /\ state[r] = "waiting"
                                    THEN "closed" ELSE state[r]]
    BY <1>3 DEF ConnectionCloses
  <2>2. \A r \in Recv : state[r] = "waiting" => r \in ToldOfClose
    BY DEF WaitersAreCalls, ToldOfClose
  <2>3. /\ \A r \in Recv : state'[r] # "waiting"
        /\ \A r \in Recv : state[r] # "waiting" => state'[r] = state[r]
        /\ \A r \in Recv : state[r] # "idle" => state'[r] # "idle"
    BY <2>1, <2>2
  <2>4. TypeOK'
    BY <1>1, <1>2, <2>1 DEF TypeOK, States
  <2>5. CalledOnce'
    BY <1>1, <1>2, <2>3 DEF CalledOnce
  <2>6. WaitersAreCalls' /\ WaitersInLine'
    BY <2>1, <2>3 DEF WaitersAreCalls, WaitersInLine
  <2>7. CloseTellsWaiters'
    BY <1>1, <1>2, <2>3 DEF CloseTellsWaiters
  <2> QED
    BY <2>1, <2>4, <2>5, <2>6, <2>7, <1>1 DEF QueueSorted, QueueOrWaiters, InOrder
<1>4. CASE ~attached
  <2>1. UNCHANGED <<state, waiters>>
    BY <1>4 DEF ConnectionCloses
  <2>2. TypeOK'
    BY <1>1, <1>2, <2>1 DEF TypeOK
  <2> QED
    BY <1>1, <1>4, <2>1, <2>2
    DEF CalledOnce, WaitersAreCalls, WaitersInLine, QueueSorted, QueueOrWaiters,
        InOrder, CloseTellsWaiters
<1> QED
  BY <1>3, <1>4

\* The timer of a recv changes the state of its promise and nothing else.
LEMMA TimeoutKeeps == ASSUME IInv, NEW r \in Recv, RecvTimeout(r) PROVE IInv'
<1> USE DEF IInv
<1>1. /\ state[r] = "waiting" /\ state' = [state EXCEPT ![r] = "timedOut"]
      /\ UNCHANGED <<queue, waiters, got, attached, connClosed, pushed, lost, called,
                     atClose>>
  BY DEF RecvTimeout
<1>2. /\ state \in [Recv -> States] /\ waiters \in Seq(Recv) /\ called \in Seq(Recv)
      /\ \A i \in DOMAIN called : called[i] \in Recv
      /\ \A a \in DOMAIN waiters : waiters[a] \in Recv
  BY DEF TypeOK
<1>3. /\ \A q \in Recv \ {r} : state'[q] = state[q]
      /\ state'[r] = "timedOut" /\ got[r] = 0
  BY <1>1, <1>2 DEF CalledOnce
<1>4. TypeOK'
  BY <1>1, <1>2 DEF TypeOK, States
<1>5. CalledOnce'
  BY <1>1, <1>2, <1>3 DEF CalledOnce
<1>6. WaitersAreCalls' /\ WaitersInLine'
  BY <1>1, <1>2, <1>3 DEF WaitersAreCalls, WaitersInLine
<1>7. CloseTellsWaiters'
  BY <1>1, <1>2, <1>3 DEF CloseTellsWaiters
<1> QED
  BY <1>1, <1>4, <1>5, <1>6, <1>7 DEF QueueSorted, QueueOrWaiters, InOrder

\* The inductive invariant holds in every reachable state.
THEOREM Invariance == Spec => []IInv
<1>1. Init => IInv
  <2> SUFFICES ASSUME Init PROVE IInv
    OBVIOUS
  <2>1. queue \in Seq(1..pushed) /\ waiters \in Seq(Recv) /\ called \in Seq(Recv)
    BY DEF Init
  <2>2. Len(called) = 0 /\ pushed = 0 /\ atClose = 0
    BY DEF Init
  <2>3. state \in [Recv -> States] /\ got \in [Recv -> 0..pushed]
    BY <2>2 DEF Init, States
  <2>4. attached \in BOOLEAN /\ connClosed \in BOOLEAN /\ lost = {}
    BY DEF Init
  <2>5. TypeOK
    BY <2>1, <2>2, <2>3, <2>4 DEF TypeOK
  <2> QED
    BY <2>5
    DEF Init, IInv, CalledOnce, QueueSorted, WaitersAreCalls, WaitersInLine,
        QueueOrWaiters, InOrder, CloseTellsWaiters
<1>2. IInv /\ [Next]_vars => IInv'
  <2> SUFFICES ASSUME IInv, [Next]_vars PROVE IInv'
    OBVIOUS
  <2>1. CASE Push
    <3>1. CASE waiters = <<>> /\ queue' = Append(queue, pushed + 1)
      BY <2>1, <3>1, PushQueued
    <3>2. CASE waiters # <<>> /\ waiters' = Tail(waiters)
      BY <2>1, <3>2, PushServed
    <3> QED
      BY <2>1, <3>1, <3>2 DEF Push, FirstWaiter
  <2>2. CASE ConnectionCloses
    BY <2>2, CloseKeeps
  <2>3. ASSUME NEW r \in Recv, CallRecv(r) PROVE IInv'
    BY <2>3, RecvQueued, RecvWaits
  <2>4. ASSUME NEW r \in Recv, RecvTimeout(r) PROVE IInv'
    BY <2>4, TimeoutKeeps
  <2>5. CASE CloseChannel
    <3>1. TypeOK'
      BY <2>5 DEF CloseChannel, IInv, TypeOK
    <3> QED
      BY <2>5, <3>1
      DEF CloseChannel, IInv, CalledOnce, QueueSorted, WaitersAreCalls,
          WaitersInLine, QueueOrWaiters, InOrder, CloseTellsWaiters
  <2>6. CASE UNCHANGED vars
    BY <2>6
    DEF vars, IInv, TypeOK, CalledOnce, QueueSorted, WaitersAreCalls,
        WaitersInLine, QueueOrWaiters, InOrder, CloseTellsWaiters
  <2> QED
    BY <2>1, <2>2, <2>3, <2>4, <2>5, <2>6 DEF Next
<1> QED
  BY <1>1, <1>2, PTL DEF Spec

\* The state of a channel is typed: recv returns and loses only messages that
\* were handed over.
THEOREM TypeTheorem == Spec => []TypeOK
BY Invariance, PTL DEF IInv

\* The queue and the line of waiters are never both in use (_push, recv).
THEOREM QueueOrWaitersTheorem == Spec => []QueueOrWaiters
BY Invariance, PTL DEF IInv

\* Messages come out of recv in the order they were sent, for any number of recv
\* calls, messages and timeouts.
THEOREM InOrderTheorem == Spec => []InOrder
BY Invariance, PTL DEF IInv

\* The close of the connection wakes every recv that waits on an open channel
\* (_pushClose).
THEOREM CloseTheorem == Spec => []CloseTellsWaiters
BY Invariance, PTL DEF IInv

------------------------------------------------------------------------------
\* Every message is somewhere, and in one place only.
Placed ==
  /\ \A n \in 1..pushed : \/ \E r \in Recv : got[r] = n
                          \/ \E i \in DOMAIN queue : queue[i] = n
                          \/ n \in lost
  /\ \A r, t \in Recv : got[r] = got[t] /\ got[r] # 0 => r = t
  /\ \A r \in Recv : got[r] \notin lost
  /\ \A i \in DOMAIN queue : queue[i] \notin lost

\* A lost message has used up the waiter of a recv that timed out.
Counted ==
  /\ IsFiniteSet(TimedOut) /\ IsFiniteSet(lost)
  /\ Cardinality(lost) + Cardinality(DeadWaiters) <= Cardinality(TimedOut)

LEMMA PlacedStep == ASSUME IInv, IInv', Placed, [Next]_vars PROVE Placed'
<1>1. TypeOK /\ TypeOK' /\ CalledOnce /\ QueueOrWaiters /\ WaitersAreCalls
  BY DEF IInv
<1>2. CASE Push
  <2>1. pushed' = pushed + 1 /\ pushed \in Nat
    BY <1>1, <1>2 DEF Push, TypeOK
  <2>2. \A n \in 1..pushed' : n \in 1..pushed \/ n = pushed + 1
    BY <2>1
  <2>3. /\ \A r \in Recv : got[r] # pushed + 1 /\ got[r] \in Nat
        /\ \A i \in DOMAIN queue : queue[i] # pushed + 1
        /\ pushed + 1 \notin lost
    <3>1. \A i \in DOMAIN queue : queue[i] \in 1..pushed
      BY <1>1 DEF TypeOK
    <3>2. \A r \in Recv : got[r] \in 0..pushed
      BY <1>1 DEF TypeOK
    <3>3. \A n \in 0..pushed : n # pushed + 1 /\ n \in Nat
      BY <2>1
    <3> QED
      BY <1>1, <3>1, <3>2, <3>3 DEF TypeOK
  <2>4. CASE queue' = Append(queue, pushed + 1) /\ UNCHANGED <<got, lost>>
    <3>1. queue \in Seq(Nat) /\ pushed + 1 \in Nat
      BY <1>1, <2>1, SeqGrows DEF TypeOK
    <3>2. /\ DOMAIN queue' = 1..(Len(queue) + 1) /\ DOMAIN queue = 1..Len(queue)
          /\ queue'[Len(queue) + 1] = pushed + 1 /\ Len(queue) \in Nat
          /\ \A i \in 1..Len(queue) : queue'[i] = queue[i]
      BY <2>4, <3>1, AppendIs
    <3>3. \A i \in DOMAIN queue' : i \in DOMAIN queue \/ i = Len(queue) + 1
      BY <3>2
    <3>4. \A i \in DOMAIN queue : i \in DOMAIN queue' /\ queue'[i] = queue[i]
      BY <3>2
    <3>5. Len(queue) + 1 \in DOMAIN queue'
      BY <3>2
    <3> QED
      BY <2>2, <2>3, <2>4, <3>2, <3>3, <3>4, <3>5 DEF Placed
  <2>5. CASE waiters # <<>> /\ queue' = queue
    <3> DEFINE r == FirstWaiter.next
    <3>1. r \in Recv /\ (state[r] = "waiting" => got[r] = 0)
      BY <1>1, <2>5, TailIs DEF TypeOK, FirstWaiter, CalledOnce
    <3>2. \/ /\ state[r] = "waiting" /\ got' = [got EXCEPT ![r] = pushed + 1] /\ lost' = lost
          \/ lost' = lost \cup {pushed + 1} /\ got' = got
      BY <1>2, <2>5 DEF Push
    <3> HIDE DEF r
    <3>3. got \in [Recv -> 0..pushed]
      BY <1>1 DEF TypeOK
    <3>4. CASE state[r] = "waiting" /\ got' = [got EXCEPT ![r] = pushed + 1] /\ lost' = lost
      <4>1. got'[r] = pushed + 1 /\ \A t \in Recv : t # r => got'[t] = got[t]
        BY <3>1, <3>3, <3>4
      <4>2. \A n \in 1..pushed : got[r] # n
        BY <3>1, <3>4
      <4> QED
        BY <2>2, <2>3, <2>5, <3>1, <3>4, <4>1, <4>2 DEF Placed
    <3>5. CASE lost' = lost \cup {pushed + 1} /\ got' = got
      BY <2>2, <2>3, <2>5, <3>5 DEF Placed
    <3> QED
      BY <3>2, <3>4, <3>5
  <2> QED
    BY <1>2, <2>4, <2>5 DEF Push
<1>3. ASSUME NEW r \in Recv, CallRecv(r) PROVE Placed'
  <2>1. got[r] = 0 /\ UNCHANGED <<pushed, lost>>
    BY <1>1, <1>3 DEF CallRecv, CalledOnce
  <2>2. CASE queue # <<>> /\ got' = [got EXCEPT ![r] = Head(queue)] /\ queue' = Tail(queue)
    <3>1. /\ Head(queue) = queue[1] /\ Len(queue) \in Nat /\ Len(queue) >= 1 /\ Head(queue) \in 1..pushed
          /\ DOMAIN queue = 1..Len(queue) /\ DOMAIN queue' = 1..(Len(queue) - 1)
          /\ \A i \in 1..(Len(queue) - 1) : queue'[i] = queue[i + 1]
      BY <1>1, <2>2, TailIs DEF TypeOK
    <3>2. got'[r] = queue[1] /\ \A t \in Recv : t # r => got'[t] = got[t]
      BY <1>1, <2>2, <3>1 DEF TypeOK
    <3>3. 1 \in DOMAIN queue /\ \A i \in DOMAIN queue' : i + 1 \in DOMAIN queue /\ queue'[i] = queue[i + 1]
      BY <3>1
    <3>4. \A i \in DOMAIN queue : i = 1 \/ (i - 1 \in DOMAIN queue' /\ (i - 1) + 1 = i)
      BY <3>1
    <3>5. \A t \in Recv, i \in DOMAIN queue : got[t] < queue[i] /\ got[t] \in Nat /\ queue[i] \in Nat
      BY <1>1 DEF IInv, InOrder, TypeOK
    <3>6. \A t \in Recv : got[t] # queue[1]
      BY <3>3, <3>5
    <3>7. ASSUME NEW n \in 1..pushed
          PROVE  \/ \E t \in Recv : got'[t] = n
                 \/ \E i \in DOMAIN queue' : queue'[i] = n
                 \/ n \in lost
      <4>1. CASE \E t \in Recv : got[t] = n
        BY <2>1, <3>2, <4>1
      <4>2. CASE \E i \in DOMAIN queue : queue[i] = n
        <5>1. PICK i \in DOMAIN queue : queue[i] = n
          BY <4>2
        <5>2. CASE i = 1
          BY <3>2, <5>1, <5>2
        <5>3. CASE i # 1
          <6>1. i - 1 \in DOMAIN queue' /\ queue'[i - 1] = n
            BY <3>3, <3>4, <5>1, <5>3
          <6> QED
            BY <6>1
        <5> QED
          BY <5>2, <5>3
      <4> QED
        BY <4>1, <4>2 DEF Placed
    <3>8. \A t, u \in Recv : got'[t] = got'[u] /\ got'[t] # 0 => t = u
      BY <3>2, <3>6 DEF Placed
    <3>9. (\A t \in Recv : got'[t] \notin lost) /\ \A i \in DOMAIN queue' : queue'[i] \notin lost
      BY <3>2, <3>3 DEF Placed
    <3> QED
      BY <2>1, <3>7, <3>8, <3>9 DEF Placed
  <2>3. CASE UNCHANGED <<queue, got>>
    BY <2>1, <2>3 DEF Placed
  <2> QED
    BY <1>3, <2>2, <2>3 DEF CallRecv
<1>4. CASE ConnectionCloses \/ CloseChannel \/ (\E r \in Recv : RecvTimeout(r)) \/ UNCHANGED vars
  BY <1>4 DEF ConnectionCloses, CloseChannel, RecvTimeout, vars, Placed
<1> QED
  BY <1>2, <1>3, <1>4 DEF Next

\* Adding one element adds at most one to the count.
LEMMA AddOne ==
  ASSUME NEW S, NEW x, IsFiniteSet(S)
  PROVE  /\ IsFiniteSet(S \cup {x})
         /\ Cardinality(S \cup {x}) \in Nat
         /\ Cardinality(S \cup {x}) <= Cardinality(S) + 1
<1>1. Cardinality(S) \in Nat
  BY FS_CardinalityType
<1>2. IsFiniteSet(S \cup {x})
  BY FS_AddElement
<1>3. Cardinality(S \cup {x}) \in Nat
  BY <1>2, FS_CardinalityType
<1>4. Cardinality(S \cup {x}) <= Cardinality(S) + 1
  <2>1. CASE x \in S
    <3>1. S \cup {x} = S
      BY <2>1
    <3> QED
      BY <1>1, <3>1
  <2>2. CASE x \notin S
    <3>1. Cardinality(S \cup {x}) = Cardinality(S) + 1
      BY <2>2, FS_AddElement
    <3> QED
      BY <1>1, <3>1
  <2> QED
    BY <2>1, <2>2
<1> QED
  BY <1>2, <1>3, <1>4

LEMMA CountedStep == ASSUME IInv, Placed, Counted, [Next]_vars PROVE Counted'
<1>1. TypeOK /\ WaitersAreCalls /\ WaitersInLine /\ CalledOnce
  BY DEF IInv
<1>2. /\ IsFiniteSet(TimedOut) /\ IsFiniteSet(lost) /\ IsFiniteSet(DeadWaiters)
      /\ Cardinality(TimedOut) \in Nat /\ Cardinality(lost) \in Nat /\ Cardinality(DeadWaiters) \in Nat
      /\ Cardinality(lost) + Cardinality(DeadWaiters) <= Cardinality(TimedOut)
  <2>1. DeadWaiters \subseteq TimedOut
    BY DEF DeadWaiters
  <2> QED
    BY <2>1, FS_Subset, FS_CardinalityType DEF Counted
<1>3. ASSUME lost' = lost, TimedOut' = TimedOut, DeadWaiters' \subseteq DeadWaiters
      PROVE  Counted'
  <2>1. Cardinality(DeadWaiters') <= Cardinality(DeadWaiters) /\ Cardinality(DeadWaiters') \in Nat
    BY <1>2, <1>3, FS_Subset, FS_CardinalityType
  <2> QED
    BY <1>2, <1>3, <2>1 DEF Counted
<1>4. CASE Push
  <2>1. CASE UNCHANGED <<waiters, state, lost>>
    BY <1>3, <2>1 DEF TimedOut, DeadWaiters
  <2>2. CASE waiters # <<>> /\ waiters' = Tail(waiters)
    <3> DEFINE r == Head(waiters)
    <3>1. /\ r \in Recv /\ r = waiters[1] /\ Len(waiters) \in Nat /\ Len(waiters) >= 1
          /\ DOMAIN waiters = 1..Len(waiters) /\ DOMAIN waiters' = 1..(Len(waiters) - 1)
          /\ \A i \in 1..(Len(waiters) - 1) : waiters'[i] = waiters[i + 1]
      BY <1>1, <2>2, TailIs DEF TypeOK
    <3>2. \A i \in DOMAIN waiters' : i + 1 \in DOMAIN waiters /\ i + 1 # 1 /\ waiters'[i] = waiters[i + 1]
      BY <3>1
    <3>3. 1 \in DOMAIN waiters
      BY <3>1
    <3>4. \A i \in DOMAIN waiters' : waiters'[i] # r /\ \E j \in DOMAIN waiters : waiters[j] = waiters'[i]
      BY <3>1, <3>2, <3>3, <1>1 DEF WaitersInLine
    <3>5. \/ state[r] = "waiting" /\ state' = [state EXCEPT ![r] = "got"] /\ lost' = lost
          \/ state[r] # "waiting" /\ state' = state /\ lost' = lost \cup {pushed + 1}
      BY <1>4, <2>2 DEF Push, FirstWaiter
    <3> HIDE DEF r
    <3>6. CASE state[r] = "waiting" /\ state' = [state EXCEPT ![r] = "got"] /\ lost' = lost
      <4>1. TimedOut' = TimedOut
        BY <1>1, <3>1, <3>6 DEF TimedOut, TypeOK
      <4>2. DeadWaiters' \subseteq DeadWaiters
        BY <3>4, <4>1 DEF DeadWaiters
      <4> QED
        BY <1>3, <3>6, <4>1, <4>2
    <3>7. CASE state[r] # "waiting" /\ state' = state /\ lost' = lost \cup {pushed + 1}
      <4>1. TimedOut' = TimedOut
        BY <3>7 DEF TimedOut
      <4>2. r \in DeadWaiters
        <5>1. state[r] = "timedOut"
          BY <1>1, <3>1, <3>3, <3>7 DEF WaitersAreCalls
        <5> QED
          BY <3>1, <3>3, <5>1 DEF DeadWaiters, TimedOut
      <4>3. DeadWaiters' \subseteq DeadWaiters \ {r}
        BY <3>4, <4>1 DEF DeadWaiters
      <4>4. Cardinality(DeadWaiters \ {r}) = Cardinality(DeadWaiters) - 1 /\ IsFiniteSet(DeadWaiters \ {r})
        BY <1>2, <4>2, FS_RemoveElement
      <4>5. Cardinality(DeadWaiters') <= Cardinality(DeadWaiters) - 1 /\ Cardinality(DeadWaiters') \in Nat
        BY <4>3, <4>4, FS_Subset, FS_CardinalityType
      <4>6. Cardinality(lost') <= Cardinality(lost) + 1 /\ IsFiniteSet(lost') /\ Cardinality(lost') \in Nat
        BY <1>2, <3>7, AddOne
      <4>7. Cardinality(lost') + Cardinality(DeadWaiters') <= Cardinality(TimedOut')
        BY <1>2, <4>1, <4>5, <4>6
      <4> QED
        BY <1>2, <4>1, <4>6, <4>7 DEF Counted
    <3> QED
      BY <3>5, <3>6, <3>7
  <2> QED
    BY <1>4, <2>1, <2>2 DEF Push, FirstWaiter
<1>5. CASE ConnectionCloses
  <2>1. lost' = lost /\ \A i \in DOMAIN waiters' : i \in DOMAIN waiters /\ waiters'[i] = waiters[i]
    BY <1>5 DEF ConnectionCloses
  <2>2. TimedOut' = TimedOut
    BY <1>5 DEF ConnectionCloses, TimedOut
  <2> QED
    BY <1>3, <2>1, <2>2 DEF DeadWaiters
<1>6. ASSUME NEW r \in Recv, CallRecv(r) PROVE Counted'
  <2>1. state[r] = "idle" /\ lost' = lost
    BY <1>6 DEF CallRecv
  <2>2. TimedOut' = TimedOut /\ r \notin TimedOut
    BY <1>1, <1>6 DEF CallRecv, TimedOut, TypeOK
  <2>3. \A i \in DOMAIN waiters' : waiters'[i] = r \/ (i \in DOMAIN waiters /\ waiters'[i] = waiters[i])
    <3>1. CASE waiters' = Append(waiters, r)
      BY <1>1, <3>1, AppendIs DEF TypeOK
    <3>2. CASE waiters' = waiters
      BY <3>2
    <3> QED
      BY <1>6, <3>1, <3>2 DEF CallRecv
  <2>4. DeadWaiters' \subseteq DeadWaiters
    BY <2>2, <2>3 DEF DeadWaiters
  <2> QED
    BY <1>3, <2>1, <2>2, <2>4
<1>7. ASSUME NEW r \in Recv, RecvTimeout(r) PROVE Counted'
  <2>1. /\ state[r] = "waiting" /\ state' = [state EXCEPT ![r] = "timedOut"] /\ waiters' = waiters
        /\ lost' = lost
    BY <1>7 DEF RecvTimeout
  <2>2. TimedOut' = TimedOut \cup {r} /\ r \notin TimedOut
    BY <1>1, <2>1 DEF TimedOut, TypeOK
  <2>3. DeadWaiters' \subseteq DeadWaiters \cup {r}
    BY <2>1, <2>2 DEF DeadWaiters
  <2>4. Cardinality(TimedOut') = Cardinality(TimedOut) + 1 /\ IsFiniteSet(TimedOut')
    BY <1>2, <2>2, FS_AddElement
  <2>5. Cardinality(DeadWaiters \cup {r}) <= Cardinality(DeadWaiters) + 1 /\ IsFiniteSet(DeadWaiters \cup {r})
        /\ Cardinality(DeadWaiters \cup {r}) \in Nat
    BY <1>2, AddOne
  <2>6. Cardinality(DeadWaiters') <= Cardinality(DeadWaiters \cup {r}) /\ Cardinality(DeadWaiters') \in Nat
    BY <2>3, <2>5, FS_Subset, FS_CardinalityType
  <2>7. Cardinality(DeadWaiters') <= Cardinality(DeadWaiters) + 1
    BY <1>2, <2>5, <2>6
  <2> QED
    BY <1>2, <2>1, <2>4, <2>6, <2>7 DEF Counted
<1>8. CASE CloseChannel \/ UNCHANGED vars
  <2>1. UNCHANGED <<waiters, state, lost>>
    BY <1>8 DEF CloseChannel, vars
  <2> QED
    BY <1>3, <2>1 DEF TimedOut, DeadWaiters
<1> QED
  BY <1>4, <1>5, <1>6, <1>7, <1>8 DEF Next

\* With every message in one place the three sets of the property count to one.
LEMMA PlacedCounts ==
  ASSUME IInv, Placed, NEW n \in 1..pushed
  PROVE  Cardinality({r \in Recv : got[r] = n}) +
         Cardinality({i \in DOMAIN queue : queue[i] = n}) +
         Cardinality(lost \cap {n}) = 1
<1> DEFINE A == {r \in Recv : got[r] = n}
           B == {i \in DOMAIN queue : queue[i] = n}
           C == lost \cap {n}
<1>1. n # 0
  BY DEF IInv, TypeOK
<1>2. /\ \A i \in DOMAIN queue : i \in Nat /\ queue[i] \in Nat
      /\ \A r \in Recv : got[r] \in Nat
  BY DEF IInv, TypeOK
<1>3. \A i, j \in B : i = j
  <2>1. \A i, j \in DOMAIN queue : i < j => queue[i] < queue[j]
    BY DEF IInv, QueueSorted
  <2>2. \A i, j \in DOMAIN queue : i < j \/ j < i \/ i = j
    BY <1>2
  <2> QED
    BY <1>2, <2>1, <2>2
<1>4. \A r \in A, i \in B : FALSE
  BY <1>2 DEF IInv, InOrder
<1>5. \A r, t \in A : r = t
  BY <1>1 DEF Placed
<1> SUFFICES Cardinality(A) + Cardinality(B) + Cardinality(C) = 1
  OBVIOUS
<1>0. /\ \A S : S = {} => Cardinality(S) = 0
      /\ \A S, x : S = {x} => Cardinality(S) = 1
  BY FS_EmptySet, FS_Singleton
<1>6. CASE A # {}
  <2>1. PICK r \in A : A = {r}
    BY <1>5, <1>6
  <2>2. B = {} /\ C = {}
    BY <1>4, <2>1 DEF Placed
  <2> QED
    <3>1. Cardinality(A) = 1 /\ Cardinality(B) = 0 /\ Cardinality(C) = 0
      BY <1>0, <2>1, <2>2
    <3> HIDE DEF A, B, C
    <3> QED
      BY <3>1
<1>7. CASE A = {} /\ B # {}
  <2>1. PICK i \in B : B = {i}
    BY <1>3, <1>7
  <2>2. C = {}
    BY <2>1 DEF Placed
  <2> QED
    <3>1. Cardinality(A) = 0 /\ Cardinality(B) = 1 /\ Cardinality(C) = 0
      BY <1>0, <1>7, <2>1, <2>2
    <3> HIDE DEF A, B, C
    <3> QED
      BY <3>1
<1>8. CASE A = {} /\ B = {}
  <2>1. C = {n}
    BY <1>8 DEF Placed
  <2> QED
    <3>1. Cardinality(A) = 0 /\ Cardinality(B) = 0 /\ Cardinality(C) = 1
      BY <1>0, <1>8, <2>1
    <3> HIDE DEF A, B, C
    <3> QED
      BY <3>1
<1> QED
  BY <1>6, <1>7, <1>8

\* Every message a channel was given is queued, returned or lost, once, and each loss
\* is owed to a recv of its own that timed out, for any number of each.
THEOREM OneLossTheorem == Spec => []OneLossPerTimeout
<1>1. Init => Placed /\ Counted
  <2>1. Init => TimedOut = {} /\ DeadWaiters = {} /\ lost = {}
    BY DEF Init, TimedOut, DeadWaiters
  <2>2. Init => Placed
    BY DEF Init, Placed
  <2> QED
    BY <2>1, <2>2, FS_EmptySet DEF Counted
<1>2. IInv /\ IInv' /\ Placed /\ Counted /\ [Next]_vars => Placed' /\ Counted'
  BY PlacedStep, CountedStep
<1>3. IInv /\ Placed /\ Counted => OneLossPerTimeout
  BY PlacedCounts DEF Counted, OneLossPerTimeout
<1> QED
  BY <1>1, <1>2, <1>3, Invariance, PTL DEF Spec
==============================================================================
