--------------------------- MODULE RemoteXpc_proofs ---------------------------
(* What holds of every number of calls, of messages and of cuts of a         *)
(* discovery connection, with a service started by it.                       *)
EXTENDS RemoteServiceDiscovery, SequenceTheorems, TLAPS

\* The messages that were decoded are those handed over and then those queued.
InTurn ==
  /\ Len(handed) + Len(queue) = decoded
  /\ \A k \in 1..Len(handed) : handed[k] = k
  /\ \A k \in 1..Len(queue) : queue[k].n = Len(handed) + k

\* A reader stands in line once, and exactly while it waits.
Line ==
  /\ \A i \in 1..Len(waiters) : calls[waiters[i]] = "waiting"
  /\ \A i, j \in 1..Len(waiters) : waiters[i] = waiters[j] => i = j
  /\ \A c \in Readers : calls[c] = "waiting" => \E i \in 1..Len(waiters) : waiters[i] = c

\* No message waits beside a reader; connect() reads when it has dialed.
OneWaits ==
  /\ queue # <<>> => waiters = <<>>
  /\ phase \in {"new", "dialing"} => calls[Connector] = "idle"

\* The inductive invariant.
IInv == XTypeOK /\ InTurn /\ Line /\ OneWaits

------------------------------------------------------------------------------
\* What Append, Head, Tail and RemoveAt do to a sequence.
LEMMA AppendIs ==
  ASSUME NEW S, NEW s \in Seq(S), NEW e \in S
  PROVE  /\ Append(s, e) \in Seq(S) /\ Append(s, e) # <<>>
         /\ Len(s) \in Nat /\ Len(Append(s, e)) = Len(s) + 1
         /\ \A i \in 1..Len(s) : Append(s, e)[i] = s[i]
         /\ Append(s, e)[Len(s) + 1] = e
OBVIOUS

LEMMA TailIs ==
  ASSUME NEW S, NEW s \in Seq(S), s # <<>>
  PROVE  /\ Head(s) \in S /\ Head(s) = s[1]
         /\ Len(s) \in Nat /\ Len(s) >= 1
         /\ Tail(s) \in Seq(S) /\ Len(Tail(s)) = Len(s) - 1
         /\ \A i \in 1..(Len(s) - 1) : Tail(s)[i] = s[i + 1]
OBVIOUS

LEMMA RemoveAtIs ==
  ASSUME NEW S, NEW s \in Seq(S), NEW k \in 1..Len(s)
  PROVE  /\ RemoveAt(s, k) \in Seq(S) /\ Len(s) \in Nat
         /\ Len(RemoveAt(s, k)) = Len(s) - 1
         /\ \A i \in 1..(Len(s) - 1) : RemoveAt(s, k)[i] = IF i < k THEN s[i] ELSE s[i + 1]
<1> DEFINE a == SubSeq(s, 1, k - 1)
           b == SubSeq(s, k + 1, Len(s))
<1>1. Len(s) \in Nat /\ k \in Nat /\ k >= 1 /\ k <= Len(s)
  OBVIOUS
<1>2. a \in Seq(S) /\ Len(a) = k - 1 /\ \A i \in 1..(k - 1) : a[i] = s[i]
  BY <1>1
<1>3. b \in Seq(S) /\ Len(b) = Len(s) - k /\ \A i \in 1..(Len(s) - k) : b[i] = s[k + i]
  BY <1>1
<1> HIDE DEF a, b
<1>4. a \o b \in Seq(S) /\ Len(a \o b) = Len(s) - 1
  <2>1. a \o b \in Seq(S)
    BY <1>2, <1>3
  <2>2. Len(a \o b) = Len(a) + Len(b)
    BY <1>2, <1>3, ConcatProperties
  <2>3. Len(a) + Len(b) = Len(s) - 1
    BY <1>1, <1>2, <1>3
  <2> QED
    BY <2>1, <2>2, <2>3
<1>5. \A i \in 1..(Len(s) - 1) : (a \o b)[i] = IF i < k THEN a[i] ELSE b[i - (k - 1)]
  BY <1>1, <1>2, <1>3
<1>6. \A i \in 1..(Len(s) - 1) : (a \o b)[i] = IF i < k THEN s[i] ELSE s[i + 1]
  BY <1>1, <1>2, <1>3, <1>5
<1> QED
  BY <1>1, <1>4, <1>6 DEF RemoveAt, a, b

\* The invariant says what NothingLost says.
LEMMA Implied == IInv => NothingLost
<1> SUFFICES ASSUME IInv PROVE NothingLost
  OBVIOUS
<1> DEFINE q == [k \in DOMAIN queue |-> queue[k].n]
<1>1. /\ queue \in Seq(Decoded) /\ handed \in Seq(Nat) /\ decoded \in Nat /\ waiters \in Seq(Readers)
      /\ Len(queue) \in Nat /\ Len(handed) \in Nat /\ DOMAIN queue = 1..Len(queue)
      /\ DOMAIN waiters = 1..Len(waiters)
  BY DEF IInv, XTypeOK
<1>2. \A k \in 1..Len(queue) : q[k] = Len(handed) + k
  BY <1>1 DEF IInv, InTurn
<1>3. q \in Seq(Nat) /\ Len(q) = Len(queue)
  <2>1. \A k \in 1..Len(queue) : q[k] \in Nat
    BY <1>1, <1>2
  <2> QED
    BY <1>1, <2>1
<1> HIDE DEF q
<1>4. handed \o q \in Seq(Nat) /\ Len(handed \o q) = decoded
  BY <1>1, <1>3 DEF IInv, InTurn
<1>5. ASSUME NEW k \in 1..decoded PROVE (handed \o q)[k] = k
  <2>1. CASE k <= Len(handed)
    <3>1. (handed \o q)[k] = handed[k]
      BY <1>1, <1>3, <2>1
    <3> QED
      BY <3>1, <2>1, <1>1 DEF IInv, InTurn
  <2>2. CASE k > Len(handed)
    <3>1. k - Len(handed) \in 1..Len(queue)
      BY <1>1, <2>2 DEF IInv, InTurn
    <3>2. (handed \o q)[k] = q[k - Len(handed)]
      BY <1>1, <1>3, <2>2, <3>1
    <3> QED
      BY <1>1, <1>2, <3>1, <3>2
  <2>3. k <= Len(handed) \/ k > Len(handed)
    BY <1>1
  <2> QED
    BY <2>1, <2>2, <2>3
<1>6. handed \o q = [k \in 1..decoded |-> k]
  <2> DEFINE h == handed \o q
  <2>1. h \in Seq(Nat) /\ Len(h) = decoded /\ \A k \in 1..decoded : h[k] = k
    BY <1>4, <1>5
  <2> HIDE DEF h
  <2>2. h = [k \in 1..Len(h) |-> h[k]]
    BY <2>1
  <2>3. h = [k \in 1..decoded |-> k]
    BY <2>1, <2>2
  <2> QED
    BY <2>3 DEF h
<1>7. ToSet(waiters) = {c \in Readers : calls[c] = "waiting"}
  <2>1. \A i \in 1..Len(waiters) : waiters[i] \in Readers
    BY <1>1
  <2>2. ToSet(waiters) = {waiters[i] : i \in 1..Len(waiters)}
    BY <1>1 DEF ToSet
  <2> QED
    BY <2>1, <2>2 DEF IInv, Line
<1> QED
  BY <1>6, <1>7 DEF NothingLost, IInv, OneWaits, q

------------------------------------------------------------------------------
\* The types of what the readers share.
Shared ==
  /\ waiters \in Seq(Readers) /\ queue \in Seq(Decoded) /\ handed \in Seq(Nat) /\ decoded \in Nat
  /\ calls \in [Readers -> {"idle", "waiting", "ok", "empty", "timeout"}]
  /\ got \in [Readers -> Decoded]
  /\ Len(waiters) \in Nat /\ Len(queue) \in Nat /\ Len(handed) \in Nat

LEMMA SharedTypes == XTypeOK => Shared
BY DEF XTypeOK, Shared

\* A reader that has not called yet asks for a message.
LEMMA Receives ==
  ASSUME IInv, NEW c \in Readers, calls[c] = "idle", ReceiveResponse(c), decoded' = decoded
  PROVE  Shared' /\ InTurn' /\ Line' /\ (queue' # <<>> => waiters' = <<>>)
         /\ \A d \in Readers : d # c => calls'[d] = calls[d]
<1>1. Shared
  BY SharedTypes DEF IInv
<1>2. CASE queue # <<>>
  <2>1. waiters = <<>> /\ waiters' = waiters
    BY <1>2 DEF IInv, OneWaits, ReceiveResponse
  <2>2. /\ got' = [got EXCEPT ![c] = Head(queue)] /\ calls' = [calls EXCEPT ![c] = "ok"]
        /\ handed' = Append(handed, Head(queue).n) /\ queue' = Tail(queue)
    BY <1>2 DEF ReceiveResponse
  <2>3. /\ Head(queue) \in Decoded /\ Head(queue) = queue[1] /\ Len(queue) >= 1
        /\ Tail(queue) \in Seq(Decoded) /\ Len(Tail(queue)) = Len(queue) - 1
        /\ \A i \in 1..(Len(queue) - 1) : Tail(queue)[i] = queue[i + 1]
    BY <1>1, <1>2, TailIs DEF Shared
  <2>4. Head(queue).n = Len(handed) + 1
    BY <1>1, <2>3 DEF IInv, InTurn, Shared
  <2>5. /\ handed' \in Seq(Nat) /\ Len(handed') = Len(handed) + 1
        /\ \A i \in 1..Len(handed) : handed'[i] = handed[i]
        /\ handed'[Len(handed) + 1] = Len(handed) + 1
    <3>1. Len(handed) + 1 \in Nat
      BY <1>1 DEF Shared
    <3> QED
      BY <1>1, <2>2, <2>4, <3>1, AppendIs DEF Shared
  <2>6. InTurn'
    <3>0. /\ Len(handed) + Len(queue) = decoded /\ Len(queue) \in Nat /\ Len(handed) \in Nat
          /\ \A k \in 1..Len(handed) : handed[k] = k
      BY <1>1 DEF IInv, InTurn, Shared
    <3>1. Len(handed') + Len(queue') = decoded'
      BY <3>0, <2>2, <2>3, <2>5
    <3>2. ASSUME NEW k \in 1..Len(handed') PROVE handed'[k] = k
      <4>1. k \in 1..Len(handed) \/ k = Len(handed) + 1
        BY <3>0, <2>5
      <4> QED
        BY <4>1, <3>0, <2>5
    <3>3. \A k \in 1..Len(queue') : queue'[k].n = Len(handed') + k
      BY <1>1, <2>2, <2>3, <2>5 DEF IInv, InTurn, Shared
    <3> QED
      BY <3>1, <3>2, <3>3 DEF InTurn
  <2>7. Line'
    <3>1. Len(waiters) = 0
      BY <2>1
    <3>2. \A d \in Readers : calls[d] # "waiting"
      BY <3>1 DEF IInv, Line
    <3> QED
      BY <1>1, <2>1, <2>2, <3>1, <3>2 DEF Line, Shared
  <2>8. Shared'
    BY <1>1, <2>1, <2>2, <2>3, <2>5 DEF Shared
  <2> QED
    BY <1>1, <2>1, <2>2, <2>6, <2>7, <2>8 DEF Shared
<1>3. CASE queue = <<>>
  <2>1. /\ waiters' = Append(waiters, c) /\ calls' = [calls EXCEPT ![c] = "waiting"]
        /\ UNCHANGED <<got, handed, queue>>
    BY <1>3 DEF ReceiveResponse
  <2>2. /\ waiters' \in Seq(Readers) /\ Len(waiters') = Len(waiters) + 1
        /\ \A i \in 1..Len(waiters) : waiters'[i] = waiters[i]
        /\ waiters'[Len(waiters) + 1] = c
    BY <1>1, <2>1, AppendIs DEF Shared
  <2>3. \A i \in 1..Len(waiters) : waiters[i] \in Readers /\ waiters[i] # c
    BY <1>1 DEF Shared, IInv, Line
  <2>4. Line'
    <3>1. \A i \in 1..Len(waiters') : calls'[waiters'[i]] = "waiting"
      BY <1>1, <2>1, <2>2, <2>3 DEF IInv, Line, Shared
    <3>2. ASSUME NEW i \in 1..Len(waiters'), NEW j \in 1..Len(waiters'), waiters'[i] = waiters'[j]
          PROVE  i = j
      <4>1. \A n \in 1..Len(waiters') : n \in 1..Len(waiters) \/ n = Len(waiters) + 1
        BY <1>1, <2>2 DEF Shared
      <4>2. CASE i \in 1..Len(waiters) /\ j \in 1..Len(waiters)
        BY <2>2, <3>2, <4>2 DEF IInv, Line
      <4>3. CASE i = Len(waiters) + 1 \/ j = Len(waiters) + 1
        BY <2>2, <2>3, <3>2, <4>1, <4>3
      <4> QED
        BY <4>1, <4>2, <4>3
    <3>3. ASSUME NEW d \in Readers, calls'[d] = "waiting"
          PROVE  \E i \in 1..Len(waiters') : waiters'[i] = d
      <4>1. CASE d = c
        BY <1>1, <2>2, <4>1 DEF Shared
      <4>2. CASE d # c
        <5>1. calls[d] = "waiting"
          BY <1>1, <2>1, <3>3, <4>2 DEF Shared
        <5>2. PICK i \in 1..Len(waiters) : waiters[i] = d
          BY <5>1 DEF IInv, Line
        <5>3. i \in 1..Len(waiters') /\ waiters'[i] = d
          BY <1>1, <2>2, <5>2 DEF Shared
        <5> QED
          BY <5>3
      <4> QED
        BY <4>1, <4>2
    <3> QED
      BY <3>1, <3>2, <3>3 DEF Line
  <2>5. InTurn' /\ queue' = <<>>
    BY <1>3, <2>1 DEF IInv, InTurn
  <2>6. Shared'
    BY <1>1, <2>1, <2>2 DEF Shared
  <2> QED
    BY <1>1, <2>1, <2>4, <2>5, <2>6 DEF Shared
<1> QED
  BY <1>2, <1>3

\* A reader leaves the line, wherever it stands.
LEMMA Leaves ==
  ASSUME IInv, NEW c \in Readers, LeavesLine(c), calls' = [calls EXCEPT ![c] = "timeout"],
         UNCHANGED <<queue, handed, decoded, got>>
  PROVE  Shared' /\ InTurn' /\ Line' /\ (queue' # <<>> => waiters' = <<>>) /\ calls[c] = "waiting"
<1>1. Shared
  BY SharedTypes DEF IInv
<1>2. PICK k \in 1..Len(waiters) : waiters[k] = c /\ waiters' = RemoveAt(waiters, k)
  BY <1>1 DEF LeavesLine, Shared
<1>3. calls[c] = "waiting"
  BY <1>2 DEF IInv, Line
<1>4. /\ waiters' \in Seq(Readers) /\ Len(waiters') = Len(waiters) - 1
      /\ \A i \in 1..(Len(waiters) - 1) : waiters'[i] = IF i < k THEN waiters[i] ELSE waiters[i + 1]
  BY <1>1, <1>2, RemoveAtIs DEF Shared
<1>5. \A i \in 1..Len(waiters) : waiters[i] = c => i = k
  BY <1>2 DEF IInv, Line
<1>6. Line'
  <2>1. ASSUME NEW i \in 1..Len(waiters')
        PROVE  /\ calls'[waiters'[i]] = "waiting"
               /\ \A j \in 1..Len(waiters') : waiters'[i] = waiters'[j] => i = j
    <3> DEFINE at(j) == IF j < k THEN j ELSE j + 1
    <3>1. \A j \in 1..Len(waiters') : at(j) \in 1..Len(waiters) /\ at(j) # k /\ waiters'[j] = waiters[at(j)]
      BY <1>1, <1>4 DEF Shared
    <3>2. \A j \in 1..Len(waiters') : at(i) = at(j) => i = j
      BY <1>1, <1>4 DEF Shared
    <3> HIDE DEF at
    <3>3. waiters[at(i)] # c /\ waiters[at(i)] \in Readers /\ calls[waiters[at(i)]] = "waiting"
      BY <1>1, <1>5, <3>1 DEF IInv, Line, Shared
    <3>4. calls'[waiters'[i]] = "waiting"
      BY <1>1, <3>1, <3>3 DEF Shared
    <3>5. \A j \in 1..Len(waiters') : waiters'[i] = waiters'[j] => i = j
      BY <3>1, <3>2 DEF IInv, Line
    <3> QED
      BY <3>4, <3>5
  <2>2. ASSUME NEW d \in Readers, calls'[d] = "waiting"
        PROVE  \E i \in 1..Len(waiters') : waiters'[i] = d
    <3>1. d # c /\ calls[d] = "waiting"
      BY <1>1, <2>2 DEF Shared
    <3>2. PICK i \in 1..Len(waiters) : waiters[i] = d
      BY <3>1 DEF IInv, Line
    <3>3. i # k
      BY <1>2, <3>1, <3>2
    <3>4. CASE i < k
      <4>1. i \in 1..(Len(waiters) - 1) /\ Len(waiters') = Len(waiters) - 1
        BY <1>1, <1>2, <1>4, <3>2, <3>4 DEF Shared
      <4>2. i \in 1..Len(waiters') /\ waiters'[i] = waiters[i]
        BY <1>4, <3>4, <4>1
      <4> QED
        BY <3>2, <4>2
    <3>5. CASE i > k
      <4>1. i - 1 \in 1..Len(waiters') /\ waiters'[i - 1] = d
        BY <1>1, <1>2, <1>4, <3>2, <3>5 DEF Shared
      <4> QED
        BY <4>1
    <3>6. i < k \/ i > k
      BY <3>3
    <3> QED
      BY <3>4, <3>5, <3>6
  <2> QED
    BY <2>1, <2>2 DEF Line
<1>7. queue = <<>>
  <2>1. Len(waiters) >= 1
    BY <1>1, <1>2 DEF Shared
  <2>2. waiters # <<>>
    BY <2>1
  <2> QED
    BY <2>2 DEF IInv, OneWaits
<1>8. Shared' /\ InTurn'
  BY <1>1, <1>4 DEF Shared, IInv, InTurn
<1> QED
  BY <1>3, <1>6, <1>7, <1>8

\* Everybody who waits is told.
LEMMA Wakes ==
  ASSUME IInv, WakeAll, UNCHANGED <<queue, handed, decoded, got>>
  PROVE  Shared' /\ InTurn' /\ Line' /\ (queue' # <<>> => waiters' = <<>>)
         /\ \A d \in Readers : calls[d] = "idle" => calls'[d] = "idle"
<1>1. Shared
  BY SharedTypes DEF IInv
<1>2. waiters' = <<>> /\ calls' = [c \in Readers |-> IF c \in ToSet(waiters) THEN "empty" ELSE calls[c]]
  BY DEF WakeAll
<1>3. waiters' \in Seq(Readers) /\ Len(waiters') = 0
  BY <1>2
<1>4. \A c \in Readers : c \in ToSet(waiters) <=> calls[c] = "waiting"
  BY <1>1 DEF ToSet, IInv, Line, Shared
<1>5. \A c \in Readers : calls'[c] # "waiting"
  BY <1>2, <1>4
<1>6. Line'
  BY <1>3, <1>5 DEF Line
<1>7. calls' \in [Readers -> {"idle", "waiting", "ok", "empty", "timeout"}]
  BY <1>1, <1>2 DEF Shared
<1>8. Shared' /\ InTurn'
  BY <1>1, <1>3, <1>7 DEF Shared, IInv, InTurn
<1> QED
  BY <1>2, <1>4, <1>6, <1>8

\* The bytes of a frame, behind what was kept of its stream, are pieces.
LEMMA Frames ==
  ASSUME XTypeOK, NEW s \in Streams, NEW k \in 1..2, k <= Len(pend[s])
  PROVE  /\ (partial[s] \o SubSeq(pend[s], 1, k)) \in Seq(Pieces)
         /\ (partial[s] \o SubSeq(pend[s], 1, k))[1] \in Pieces
         /\ SubSeq(pend[s], k + 1, Len(pend[s])) \in Seq(Pieces)
<1> DEFINE a == partial[s]
           b == SubSeq(pend[s], 1, k)
           c == SubSeq(pend[s], k + 1, Len(pend[s]))
<1>1. a \in Seq(Pieces) /\ pend[s] \in Seq(Pieces)
  BY DEF XTypeOK
<1>2. b \in Seq(Pieces) /\ Len(b) = k /\ c \in Seq(Pieces)
  <2>1. \A i \in 1..k : pend[s][i] \in Pieces
    BY <1>1
  <2>2. b \in Seq(Pieces) /\ Len(b) = k
    BY <1>1, <2>1
  <2>3. \A i \in (k + 1)..Len(pend[s]) : pend[s][i] \in Pieces
    BY <1>1
  <2>4. c \in Seq(Pieces)
    BY <1>1, <2>3
  <2> QED
    BY <2>2, <2>4
<1> HIDE DEF a, b, c
<1>3. a \o b \in Seq(Pieces) /\ Len(a \o b) = Len(a) + Len(b)
  BY <1>1, <1>2, ConcatProperties
<1>4. 1 \in 1..Len(a \o b)
  BY <1>1, <1>2, <1>3
<1>5. (a \o b)[1] \in Pieces
  BY <1>3, <1>4, ElementOfSeq
<1> QED
  BY <1>2, <1>3, <1>5 DEF a, b, c

\* The receive of connect() ends its handshake, and nothing before.
LEMMA Returns ==
  ASSUME XTypeOK, NEW outcome, ConnectReturns(outcome)
  PROVE  /\ phase' \in {"new", "dialing", "handshake", "ready", "failed"}
         /\ phase' \in {"new", "dialing"} => phase' = phase
BY DEF ConnectReturns, XTypeOK

\* What a decoded message leaves of the invariant: the first in line gets it, or
\* the queue does.
LEMMA Hands ==
  ASSUME IInv, NEW m \in Decoded, m.n = decoded', decoded' = decoded + 1,
         \/ /\ waiters # <<>> /\ got' = [got EXCEPT ![Head(waiters)] = m]
            /\ calls' = [calls EXCEPT ![Head(waiters)] = "ok"]
            /\ waiters' = Tail(waiters) /\ handed' = Append(handed, m.n) /\ queue' = queue
         \/ waiters = <<>> /\ queue' = Append(queue, m) /\ UNCHANGED <<waiters, calls, got, handed>>
  PROVE  Shared' /\ InTurn' /\ Line' /\ (queue' # <<>> => waiters' = <<>>)
         /\ \A d \in Readers : calls[d] = "idle" => calls'[d] = "idle"
<1>1. Shared
  BY SharedTypes DEF IInv
<1>2. /\ Len(handed) + Len(queue) = decoded /\ Len(queue) \in Nat /\ Len(handed) \in Nat
      /\ decoded \in Nat /\ decoded' \in Nat
      /\ \A k \in 1..Len(handed) : handed[k] = k
      /\ \A k \in 1..Len(queue) : queue[k].n = Len(handed) + k
  BY <1>1 DEF IInv, InTurn, Shared
<1>0. /\ Len(handed) + Len(queue) = decoded /\ Len(queue) \in Nat /\ Len(handed) \in Nat
      /\ Len(waiters) \in Nat
  BY <1>1, <1>2 DEF Shared
<1>3. CASE /\ waiters # <<>> /\ got' = [got EXCEPT ![Head(waiters)] = m]
           /\ calls' = [calls EXCEPT ![Head(waiters)] = "ok"]
           /\ waiters' = Tail(waiters) /\ handed' = Append(handed, m.n) /\ queue' = queue
  <2>1. /\ Head(waiters) \in Readers /\ Head(waiters) = waiters[1] /\ Len(waiters) >= 1
        /\ Tail(waiters) \in Seq(Readers) /\ Len(Tail(waiters)) = Len(waiters) - 1
        /\ \A i \in 1..(Len(waiters) - 1) : Tail(waiters)[i] = waiters[i + 1]
    BY <1>1, <1>3, TailIs DEF Shared
  <2>2. queue = <<>> /\ queue' = <<>> /\ Len(queue) = 0 /\ Len(queue') = 0
    BY <1>3 DEF IInv, OneWaits
  <2>3. /\ handed' \in Seq(Nat) /\ Len(handed') = Len(handed) + 1
        /\ \A i \in 1..Len(handed) : handed'[i] = handed[i]
        /\ handed'[Len(handed) + 1] = decoded + 1
    BY <1>1, <1>2, <1>3, AppendIs DEF Shared
  <2>4. InTurn'
    <3>1. ASSUME NEW k \in 1..Len(handed') PROVE handed'[k] = k
      <4>1. k \in 1..Len(handed) \/ k = Len(handed) + 1
        BY <1>2, <2>3
      <4> QED
        BY <4>1, <1>2, <2>2, <2>3
    <3>2. Len(handed') + Len(queue') = decoded'
      BY <1>2, <2>2, <2>3
    <3> QED
      BY <2>2, <3>1, <3>2 DEF InTurn
  <2>5. calls[Head(waiters)] = "waiting" /\ \A d \in Readers : d # Head(waiters) => calls'[d] = calls[d]
    <3>1. 1 \in 1..Len(waiters)
      BY <1>1, <2>1 DEF Shared
    <3>2. calls[waiters[1]] = "waiting"
      BY <3>1 DEF IInv, Line
    <3>3. \A d \in Readers : d # Head(waiters) => calls'[d] = calls[d]
      BY <1>1, <1>3 DEF Shared
    <3> QED
      BY <2>1, <3>2, <3>3
  <2>6. Line'
    <3>1. ASSUME NEW i \in 1..Len(waiters')
          PROVE  i + 1 \in 1..Len(waiters) /\ waiters'[i] = waiters[i + 1] /\ waiters[i + 1] # Head(waiters)
      <4>0. Len(waiters) \in Nat /\ i \in 1..(Len(waiters) - 1)
        BY <1>1, <1>3, <2>1 DEF Shared
      <4>1. waiters'[i] = waiters[i + 1]
        BY <1>3, <2>1, <4>0
      <4>2. i + 1 \in 1..Len(waiters) /\ i + 1 # 1 /\ 1 \in 1..Len(waiters)
        BY <4>0
      <4> QED
        BY <2>1, <4>1, <4>2 DEF IInv, Line
    <3>2. \A i \in 1..Len(waiters') : calls'[waiters'[i]] = "waiting"
      <4>1. \A i \in 1..Len(waiters) : waiters[i] \in Readers /\ calls[waiters[i]] = "waiting"
        BY <1>1 DEF IInv, Line, Shared
      <4> QED
        BY <2>5, <3>1, <4>1
    <3>3. ASSUME NEW i \in 1..Len(waiters'), NEW j \in 1..Len(waiters'), waiters'[i] = waiters'[j]
          PROVE  i = j
      <4>1. i + 1 = j + 1
        BY <3>1, <3>3 DEF IInv, Line
      <4>2. i \in Int /\ j \in Int
        OBVIOUS
      <4> QED
        BY <4>1, <4>2
    <3>4. ASSUME NEW d \in Readers, calls'[d] = "waiting"
          PROVE  \E i \in 1..Len(waiters') : waiters'[i] = d
      <4>1. d # Head(waiters) /\ calls[d] = "waiting"
        BY <1>1, <1>3, <2>1, <2>5, <3>4 DEF Shared
      <4>2. PICK i \in 1..Len(waiters) : waiters[i] = d
        BY <4>1 DEF IInv, Line
      <4>3. i # 1
        BY <2>1, <4>1, <4>2
      <4>4. i - 1 \in 1..(Len(waiters) - 1) /\ (i - 1) + 1 = i
        BY <1>1, <4>3 DEF Shared
      <4>5. i - 1 \in 1..Len(waiters') /\ waiters'[i - 1] = waiters[i]
        BY <1>3, <2>1, <4>4
      <4> QED
        BY <4>2, <4>5
    <3> QED
      BY <3>2, <3>3, <3>4 DEF Line
  <2>7. Shared'
    <3>1. got' \in [Readers -> Decoded]
      BY <1>1, <1>3, <2>1 DEF Shared
    <3>2. calls' \in [Readers -> {"idle", "waiting", "ok", "empty", "timeout"}]
      BY <1>1, <1>3, <2>1 DEF Shared
    <3>3. waiters' \in Seq(Readers)
      BY <1>3, <2>1
    <3>4. Len(waiters') \in Nat
      BY <3>3
    <3> QED
      BY <1>1, <1>2, <1>3, <2>2, <2>3, <3>1, <3>2, <3>3, <3>4 DEF Shared
  <2> QED
    BY <2>2, <2>4, <2>5, <2>6, <2>7
<1>4. CASE waiters = <<>> /\ queue' = Append(queue, m) /\ UNCHANGED <<waiters, calls, got, handed>>
  <2>1. /\ queue' \in Seq(Decoded) /\ Len(queue') = Len(queue) + 1
        /\ \A i \in 1..Len(queue) : queue'[i] = queue[i]
        /\ queue'[Len(queue) + 1] = m
    BY <1>1, <1>4, AppendIs DEF Shared
  <2>2. InTurn'
    <3>1. ASSUME NEW k \in 1..Len(queue') PROVE queue'[k].n = Len(handed) + k
      <4>1. k \in 1..Len(queue) \/ k = Len(queue) + 1
        BY <1>2, <2>1
      <4>2. m.n = Len(handed) + (Len(queue) + 1)
        BY <1>2
      <4> QED
        BY <1>2, <2>1, <4>1, <4>2
    <3>2. Len(handed') + Len(queue') = decoded'
      <4>1. Len(handed') = Len(handed)
        BY <1>4
      <4> QED
        BY <1>0, <2>1, <4>1
    <3> QED
      BY <1>2, <1>4, <3>1, <3>2 DEF InTurn
  <2>3. Line'
    BY <1>4 DEF IInv, Line
  <2>4. Shared'
    BY <1>1, <1>2, <1>4, <2>1 DEF Shared
  <2> QED
    BY <1>4, <2>2, <2>3, <2>4
<1> QED
  BY <1>3, <1>4

\* Steps keep the invariant: a frame.
LEMMA FrameStep ==
  ASSUME IInv, NEW s \in Streams, NEW k \in 1..2, HandleFrame(s, k)
  PROVE  IInv'
<1> DEFINE buf == partial[s] \o SubSeq(pend[s], 1, k)
           m == [for |-> buf[1].m.for, id |-> buf[1].m.id, cut |-> buf[1].m.cut,
                 n |-> decoded', whole |-> Whole(buf)]
<1>1. XTypeOK /\ Shared /\ k <= Len(pend[s])
  BY SharedTypes DEF IInv, HandleFrame
<1>2. buf \in Seq(Pieces) /\ buf[1] \in Pieces
  BY <1>1, Frames
<1>3. pend' \in [Streams -> Seq(Pieces)]
  <2>1. SubSeq(pend[s], k + 1, Len(pend[s])) \in Seq(Pieces)
    BY <1>1, Frames
  <2>2. pend' = [pend EXCEPT ![s] = SubSeq(pend[s], k + 1, Len(pend[s]))]
    BY DEF HandleFrame
  <2> QED
    BY <1>1, <2>1, <2>2 DEF XTypeOK
<1>4. UNCHANGED <<sock, crashed, sends, cuts, ids, loose>>
  BY DEF HandleFrame
<1>5. partial' \in [Streams -> Seq(Pieces)] /\ lossy' \subseteq Streams
  <2>1. partial' \in {[partial EXCEPT ![s] = buf], [partial EXCEPT ![s] = <<>>]}
    BY DEF HandleFrame
  <2>2. partial' \in [Streams -> Seq(Pieces)]
    <3> HIDE DEF buf
    <3>1. <<>> \in Seq(Pieces) /\ partial \in [Streams -> Seq(Pieces)]
      BY <1>1 DEF XTypeOK
    <3> QED
      BY <1>2, <2>1, <3>1
  <2>3. lossy' \in {lossy, lossy \cup {s}}
    BY DEF HandleFrame
  <2> QED
    BY <1>1, <2>2, <2>3 DEF XTypeOK
<1>6. CASE UNCHANGED <<phase, msgId, waiters, queue, calls, got, decoded, handed>>
  <2>1. XTypeOK'
    BY <1>1, <1>3, <1>4, <1>5, <1>6 DEF XTypeOK
  <2> QED
    BY <2>1, <1>6 DEF IInv, InTurn, Line, OneWaits
<1>7. CASE Decode(buf) = "message"
  <2>1. msgId' = [msgId EXCEPT ![s] = NextId(buf[1].m)] /\ decoded' = decoded + 1
    BY <1>7 DEF HandleFrame, Decode
  <2>2. \/ /\ waiters # <<>> /\ got' = [got EXCEPT ![Head(waiters)] = m]
           /\ calls' = [calls EXCEPT ![Head(waiters)] = "ok"]
           /\ waiters' = Tail(waiters) /\ handed' = Append(handed, m.n)
           /\ ConnectReturns(calls') /\ queue' = queue
        \/ waiters = <<>> /\ queue' = Append(queue, m) /\ UNCHANGED <<phase, waiters, calls, got, handed>>
    BY <1>7 DEF HandleFrame, Decode
  <2>3. buf[1].m \in Messages
    BY <1>2 DEF Pieces
  <2>4. decoded' \in Nat
    BY <1>1, <2>1 DEF Shared
  <2>5. Whole(buf) \in BOOLEAN
    BY DEF Whole
  <2>6. m \in Decoded /\ m.n = decoded'
    BY <2>3, <2>4, <2>5 DEF Messages, Decoded
  <2> HIDE DEF m, buf
  <2>7. /\ Shared' /\ InTurn' /\ Line' /\ (queue' # <<>> => waiters' = <<>>)
        /\ \A d \in Readers : calls[d] = "idle" => calls'[d] = "idle"
    BY <2>1, <2>2, <2>6, Hands
  <2>8. /\ phase' \in {"new", "dialing", "handshake", "ready", "failed"}
        /\ phase' \in {"new", "dialing"} => phase' = phase
    BY <1>1, <2>2, Returns DEF XTypeOK
  <2>9. msgId' \in [Streams -> Nat]
    <3>1. NextId(buf[1].m) \in Nat
      BY <2>3 DEF NextId, Messages
    <3>2. msgId \in [Streams -> Nat]
      BY <1>1 DEF XTypeOK
    <3> QED
      BY <2>1, <3>1, <3>2
  <2>10. XTypeOK'
    BY <1>1, <1>3, <1>4, <1>5, <2>7, <2>8, <2>9 DEF XTypeOK, Shared
  <2>11. OneWaits'
    BY <2>7, <2>8 DEF IInv, OneWaits, Readers
  <2> QED
    BY <2>7, <2>10, <2>11 DEF IInv
<1> QED
  BY <1>6, <1>7 DEF HandleFrame

\* Steps keep the invariant: the calls and their timers.
LEMMA CallSteps ==
  ASSUME IInv, Dialed \/ (\E c \in Call : Request(c)) \/ \E c \in Readers : Timeout(c)
  PROVE  IInv'
<1>1. XTypeOK /\ Connector \notin Call
  BY CallAssumption DEF IInv
<1>2. CASE Dialed
  <2>1. calls[Connector] = "idle" /\ decoded' = decoded /\ Connector \in Readers
    BY <1>2 DEF Dialed, IInv, OneWaits, Readers
  <2>2. Shared' /\ InTurn' /\ Line' /\ (queue' # <<>> => waiters' = <<>>)
    BY <1>2, <2>1, Receives DEF Dialed
  <2>3. XTypeOK'
    BY <1>1, <1>2, <2>2 DEF Dialed, XTypeOK, Shared
  <2> QED
    BY <1>2, <2>2, <2>3 DEF Dialed, IInv, OneWaits
<1>3. ASSUME NEW c \in Call, Request(c) PROVE IInv'
  <2>1. calls[c] = "idle" /\ decoded' = decoded /\ c \in Readers /\ c # Connector
    BY <1>1, <1>3 DEF Request, Readers
  <2>2. /\ Shared' /\ InTurn' /\ Line' /\ (queue' # <<>> => waiters' = <<>>)
        /\ \A d \in Readers : d # c => calls'[d] = calls[d]
    BY <1>3, <2>1, Receives DEF Request
  <2>3. Root \in Streams /\ ids' \in Seq([id : Nat, from : Call])
    <3>1. [id |-> msgId[Root], from |-> c] \in [id : Nat, from : Call]
      BY <1>1 DEF XTypeOK, Streams
    <3> QED
      BY <1>1, <1>3, <3>1 DEF Request, XTypeOK, Streams
  <2>4. msgId' \in [Streams -> Nat]
    BY <1>1, <1>3 DEF Request, XTypeOK, Streams
  <2>5. loose' \in BOOLEAN
    BY <1>3 DEF Request
  <2>6. UNCHANGED <<phase, sock, crashed, pend, partial, sends, cuts, decoded, lossy>>
    BY <1>3 DEF Request
  <2>7. XTypeOK'
    BY <1>1, <2>2, <2>3, <2>4, <2>5, <2>6 DEF XTypeOK, Shared
  <2>8. OneWaits'
    BY <2>1, <2>2, <2>6 DEF IInv, OneWaits, Readers
  <2> QED
    BY <2>2, <2>7, <2>8 DEF IInv
<1>4. ASSUME NEW c \in Readers, Timeout(c) PROVE IInv'
  <2>1. LeavesLine(c) /\ calls' = [calls EXCEPT ![c] = "timeout"] /\ UNCHANGED <<queue, handed, decoded, got>>
    BY <1>4 DEF Timeout
  <2>2. Shared' /\ InTurn' /\ Line' /\ (queue' # <<>> => waiters' = <<>>) /\ calls[c] = "waiting"
    BY <2>1, Leaves
  <2>3. /\ phase' \in {"new", "dialing", "handshake", "ready", "failed"}
        /\ phase' \in {"new", "dialing"} => phase' = phase
    BY <1>1, <1>4, Returns DEF Timeout
  <2>4. XTypeOK'
    BY <1>1, <1>4, <2>2, <2>3 DEF Timeout, XTypeOK, Shared
  <2>5. OneWaits'
    BY <1>1, <2>1, <2>2, <2>3 DEF IInv, OneWaits, XTypeOK, Readers
  <2> QED
    BY <2>2, <2>4, <2>5 DEF IInv
<1> QED
  BY <1>2, <1>3, <1>4

\* Steps keep the invariant: what the device sends.
LEMMA SendStep ==
  ASSUME IInv, DeviceSends
  PROVE  IInv'
<1>1. XTypeOK
  BY DEF IInv
<1>2. PICK for \in Readers \cup {None}, id \in Nat, s \in Streams, cut \in Cuts : Send(for, id, s, cut)
  <2>1. \A k \in DOMAIN ids : ids[k].from \in Call /\ ids[k].id \in Nat
    <3>1. ids \in Seq([id : Nat, from : Call])
      BY <1>1 DEF XTypeOK
    <3>2. DOMAIN ids = 1..Len(ids)
      BY <3>1, LenProperties
    <3>3. \A k \in DOMAIN ids : ids[k] \in [id : Nat, from : Call]
      BY <3>1, <3>2, ElementOfSeq
    <3> QED
      BY <3>3
  <2>2. PICK s \in Streams, cut \in Cuts :
          \/ Send(Connector, 0, s, cut)
          \/ \E k \in DOMAIN ids : Send(ids[k].from, ids[k].id, s, cut)
          \/ Send(None, 0, s, cut)
    BY DEF DeviceSends, Cuts
  <2> QED
    BY <2>1, <2>2 DEF Readers
<1>3. UNCHANGED <<phase, sock, crashed, msgId, partial, waiters, queue, calls, got, decoded, handed, ids, lossy>>
  BY <1>2 DEF Send
<1>4. sends' \in 0..MaxSends /\ cuts' \in 0..MaxCuts
  BY <1>1, <1>2, CallAssumption DEF Send, XTypeOK
<1>5. loose' \in BOOLEAN
  BY <1>2 DEF Send
<1>6. pend' \in [Streams -> Seq(Pieces)]
  <2> DEFINE msg == [for |-> for, id |-> id, cut |-> cut]
             added == Cut(msg)
  <2>1. msg \in Messages
    BY DEF Messages
  <2>2. added \in Seq(Pieces)
    <3> HIDE DEF msg
    <3>1. [m |-> msg, part |-> 1] \in Pieces /\ [m |-> msg, part |-> 2] \in Pieces
      BY <2>1 DEF Pieces
    <3> QED
      BY <3>1 DEF Cut
  <2>3. pend' = [pend EXCEPT ![s] = pend[s] \o added]
    BY <1>2 DEF Send
  <2> HIDE DEF added
  <2>4. (pend[s] \o added) \in Seq(Pieces)
    BY <1>1, <2>2, ConcatProperties DEF XTypeOK
  <2> QED
    BY <1>1, <2>3, <2>4 DEF XTypeOK
<1>7. XTypeOK'
  BY <1>1, <1>3, <1>4, <1>5, <1>6 DEF XTypeOK
<1> QED
  BY <1>3, <1>7 DEF IInv, InTurn, Line, OneWaits

\* Steps keep the invariant: the socket ends.
LEMMA EndSteps ==
  ASSUME IInv, OnClose \/ Close
  PROVE  IInv'
<1>1. XTypeOK
  BY DEF IInv
<1>2. /\ WakeAll /\ ConnectReturns(calls') /\ pend' = [s \in Streams |-> <<>>]
      /\ UNCHANGED <<crashed, msgId, partial, queue, got, sends, cuts, decoded, handed, ids, lossy>>
      /\ sock' \in {"closed", "null"} /\ loose' = TRUE
  BY DEF OnClose, Close, WakeAll
<1>3. /\ Shared' /\ InTurn' /\ Line' /\ (queue' # <<>> => waiters' = <<>>)
      /\ \A d \in Readers : calls[d] = "idle" => calls'[d] = "idle"
  BY <1>2, Wakes
<1>4. /\ phase' \in {"new", "dialing", "handshake", "ready", "failed"}
      /\ phase' \in {"new", "dialing"} => phase' = phase
  BY <1>1, <1>2, Returns
<1>5. XTypeOK'
  BY <1>1, <1>2, <1>3, <1>4 DEF XTypeOK, Shared
<1> QED
  BY <1>3, <1>4, <1>5 DEF IInv, OneWaits, Readers

------------------------------------------------------------------------------
\* Whatever arrives, in whatever pieces: a reader is in line exactly while it waits,
\* and the messages decoded are those handed over and those queued, in turn.
THEOREM Invariance == Spec => []IInv
<1>1. Init => IInv
  <2>1. Init => XTypeOK
    <3>1. Init => /\ pend \in [Streams -> Seq(Pieces)] /\ partial \in [Streams -> Seq(Pieces)]
                  /\ msgId \in [Streams -> Nat] /\ lossy \subseteq Streams
      BY DEF Init, XInit
    <3>2. Nothing \in Decoded
      BY DEF Nothing, Decoded, Cuts
    <3>3. Init => /\ got \in [Readers -> Decoded] /\ waiters \in Seq(Readers) /\ queue \in Seq(Decoded)
                  /\ handed \in Seq(Nat) /\ ids \in Seq([id : Nat, from : Call])
      BY <3>2 DEF Init, XInit
    <3>4. Init => sends \in 0..MaxSends /\ cuts \in 0..MaxCuts /\ decoded \in Nat
      BY CallAssumption DEF Init, XInit
    <3>5. Init => crashed \in BOOLEAN /\ loose \in BOOLEAN
      BY DEF Init, XInit
    <3> QED
      BY <3>1, <3>3, <3>4, <3>5 DEF Init, XInit, XTypeOK
  <2>2. Init => InTurn /\ Line /\ OneWaits
    BY DEF Init, XInit, InTurn, Line, OneWaits, Readers
  <2> QED
    BY <2>1, <2>2 DEF IInv
<1>2. IInv /\ [Next]_vars => IInv'
  <2> SUFFICES ASSUME IInv, [Next]_vars PROVE IInv'
    OBVIOUS
  <2>1. CASE XNext
    <3>1. CASE Dial \/ DialFails \/ SocketError
      <4>1. /\ UNCHANGED <<sock, msgId, pend, partial, waiters, queue, calls, got, sends, cuts,
                           decoded, handed, ids, lossy, loose>>
            /\ phase' \in {phase, "dialing", "failed"} /\ crashed' \in BOOLEAN
            /\ phase' = "dialing" => phase \in {"new", "dialing"}
        BY <3>1 DEF Dial, DialFails, SocketError, IInv, XTypeOK
      <4>2. XTypeOK'
        BY <4>1 DEF IInv, XTypeOK
      <4> QED
        BY <4>1, <4>2 DEF IInv, InTurn, Line, OneWaits
    <3> QED
      BY <2>1, <3>1, FrameStep, CallSteps, SendStep, EndSteps DEF XNext
  <2>2. CASE UNCHANGED xvars
    BY <2>2 DEF xvars, IInv, XTypeOK, InTurn, Line, OneWaits
  <2>3. CASE UNCHANGED vars
    BY <2>2, <2>3 DEF vars
  <2> QED
    BY <2>1, <2>2, <2>3
    DEF Next, StartService, ServiceDialed, ServiceDialFails, CheckinWritten, ServiceError,
        ServiceClose, ServiceChunk
<1> QED
  BY <1>1, <1>2, PTL DEF Spec

\* receiveResponse and _handleFrame lose no decoded message, whoever times out or is
\* woken by a close, for any number of readers, messages and cuts.
THEOREM NothingLostTheorem == Spec => []NothingLost
BY Invariance, Implied, PTL

------------------------------------------------------------------------------
\* What a service's socket carries is halves of the two replies.
Halves ==
  /\ owner \in {"requests", "service"} /\ peer \in {"none", "open", "closed"}
  /\ checkin \in {"idle", "dial", "write", "ack", "start", "done", "failed"}
  /\ line \in Seq(ToSet(Replies)) /\ held \in Seq(ToSet(Replies))
  /\ have \in Seq(ToSet(Replies)) /\ lost \in Seq(ToSet(Replies))

\* A part of a sequence is over the same set.
LEMMA SubSeqIs ==
  ASSUME NEW S, NEW s \in Seq(S), NEW a \in Nat, a >= 1, NEW b \in 0..Len(s)
  PROVE  SubSeq(s, a, b) \in Seq(S)
<1>1. \A i \in a..b : s[i] \in S
  OBVIOUS
<1> QED
  BY <1>1

\* What a listener keeps and drops are halves.
LEMMA OnDataIs ==
  ASSUME NEW units \in Seq(ToSet(Replies)), NEW reading \in {"ack", "start"}, OnData(units, reading),
         lost \in Seq(ToSet(Replies))
  PROVE  /\ checkin' \in {"ack", "start", "done"}
         /\ have' \in Seq(ToSet(Replies)) /\ lost' \in Seq(ToSet(Replies))
<1>1. Len(units) \in 0..Len(units)
  OBVIOUS
<1>2. SubSeq(units, 3, Len(units)) \in Seq(ToSet(Replies))
  BY <1>1, SubSeqIs
<1>3. (lost \o SubSeq(units, 3, Len(units))) \in Seq(ToSet(Replies))
  BY <1>2, ConcatProperties
<1>4. <<>> \in Seq(ToSet(Replies))
  OBVIOUS
<1> QED
  BY <1>3, <1>4 DEF OnData

\* Steps keep the halves.
LEMMA HalvesKept == Halves /\ [Next]_vars => Halves'
<1> SUFFICES ASSUME Halves, [Next]_vars PROVE Halves'
  OBVIOUS
<1>0. <<>> \in Seq(ToSet(Replies))
  OBVIOUS
<1>1. CASE UNCHANGED svars
  BY <1>1 DEF svars, Halves
<1>2. CASE StartService \/ ServiceDialFails \/ ServiceError \/ ServiceClose
  BY <1>0, <1>2 DEF StartService, ServiceDialFails, ServiceError, ServiceClose, Halves
<1>3. CASE ServiceDialed
  <2>1. \A i \in 1..4 : Replies[i] \in ToSet(Replies)
    BY DEF Replies, ToSet
  <2>2. Replies \in Seq(ToSet(Replies))
    <3>1. Replies = [i \in 1..4 |-> Replies[i]]
      BY DEF Replies
    <3> QED
      BY <2>1, <3>1
  <2> QED
    BY <1>3, <2>2 DEF ServiceDialed, Halves
<1>4. CASE CheckinWritten
  <2>1. OnData(held, "ack") /\ held' = <<>> /\ UNCHANGED <<owner, peer, line>>
    BY <1>4 DEF CheckinWritten
  <2>2. checkin' \in {"ack", "start", "done"} /\ have' \in Seq(ToSet(Replies)) /\ lost' \in Seq(ToSet(Replies))
    BY <2>1, OnDataIs DEF Halves
  <2> QED
    BY <1>0, <2>1, <2>2 DEF Halves
<1>5. ASSUME NEW k \in 1..4, ServiceChunk(k) PROVE Halves'
  <2>0. line \in Seq(ToSet(Replies)) /\ k \in 0..Len(line) /\ Len(line) \in 0..Len(line)
    BY <1>5 DEF ServiceChunk, Halves
  <2>1. SubSeq(line, 1, k) \in Seq(ToSet(Replies)) /\ SubSeq(line, k + 1, Len(line)) \in Seq(ToSet(Replies))
    BY <2>0, SubSeqIs
  <2>2. (held \o SubSeq(line, 1, k)) \in Seq(ToSet(Replies)) /\ (have \o SubSeq(line, 1, k)) \in Seq(ToSet(Replies))
    BY <2>1, ConcatProperties DEF Halves
  <2>3. line' = SubSeq(line, k + 1, Len(line)) /\ UNCHANGED <<owner, peer>>
    BY <1>5 DEF ServiceChunk
  <2>4. CASE held' = held \o SubSeq(line, 1, k) /\ UNCHANGED <<checkin, have, lost>>
    BY <2>1, <2>2, <2>3, <2>4 DEF Halves
  <2>5. CASE checkin \in {"ack", "start"} /\ OnData(have \o SubSeq(line, 1, k), checkin) /\ UNCHANGED held
    <3>1. checkin' \in {"ack", "start", "done"} /\ have' \in Seq(ToSet(Replies)) /\ lost' \in Seq(ToSet(Replies))
      BY <2>2, <2>5, OnDataIs DEF Halves
    <3> QED
      BY <2>1, <2>3, <2>5, <3>1 DEF Halves
  <2> QED
    BY <1>5, <2>4, <2>5 DEF ServiceChunk
<1> QED
  BY <1>1, <1>2, <1>3, <1>4, <1>5 DEF Next, vars

\* The state of the connection and of a service's socket is typed: ids, pieces, what
\* readers were given, and the halves a listener holds or dropped.
THEOREM TypeCorrect == Spec => []TypeOK
<1>1. Init => Halves
  BY DEF Init, Halves
<1>2. XTypeOK /\ Halves => TypeOK
  <2> SUFFICES ASSUME XTypeOK, Halves PROVE TypeOK
    OBVIOUS
  <2> DEFINE all == line \o held \o have \o lost
  <2>1. all \in Seq(ToSet(Replies))
    BY ConcatProperties DEF Halves
  <2> HIDE DEF all
  <2>2. ToSet(all) \subseteq ToSet(Replies)
    <3>1. \A i \in DOMAIN all : all[i] \in ToSet(Replies)
      BY <2>1
    <3> QED
      BY <3>1 DEF ToSet
  <2> QED
    BY <2>2 DEF TypeOK, Halves, all
<1>3. IInv => XTypeOK
  BY DEF IInv
<1> QED
  BY <1>1, <1>2, <1>3, HalvesKept, Invariance, PTL DEF Spec

------------------------------------------------------------------------------
\* The sequence b is what follows the first d elements of q, or the start of that.
Part(b, q, d) == Len(b) + d <= Len(q) /\ \A i \in 1..Len(b) : b[i] = q[i + d]

\* What \o and SubSeq do to a sequence.
LEMMA ConcatIs ==
  ASSUME NEW S, NEW a \in Seq(S), NEW b \in Seq(S)
  PROVE  /\ a \o b \in Seq(S) /\ Len(a) \in Nat /\ Len(b) \in Nat
         /\ Len(a \o b) = Len(a) + Len(b)
         /\ Part(a, a \o b, 0) /\ Part(b, a \o b, Len(a))
BY DEF Part

\* The two parts of a sequence.
LEMMA CutIs ==
  ASSUME NEW S, NEW p \in Seq(S), NEW k \in Nat, k <= Len(p)
  PROVE  /\ SubSeq(p, 1, k) \in Seq(S) /\ Len(SubSeq(p, 1, k)) = k
         /\ SubSeq(p, k + 1, Len(p)) \in Seq(S) /\ Len(SubSeq(p, k + 1, Len(p))) = Len(p) - k
         /\ Part(SubSeq(p, 1, k), p, 0) /\ Part(SubSeq(p, k + 1, Len(p)), p, k) /\ Len(p) \in Nat
BY DEF Part

\* A part of a part.
LEMMA PartOfPart ==
  ASSUME NEW S, NEW a \in Seq(S), NEW b \in Seq(S), NEW c \in Seq(S), NEW d \in Nat, NEW e \in Nat,
         Part(a, b, d), Part(b, c, e)
  PROVE  Part(a, c, d + e)
<1>0. Len(a) \in Nat /\ Len(b) \in Nat /\ Len(c) \in Nat
  OBVIOUS
<1>1. Len(a) + d <= Len(b) /\ Len(b) + e <= Len(c)
  BY DEF Part
<1>2. ASSUME NEW i \in 1..Len(a) PROVE a[i] = c[i + (d + e)]
  <2>1. i + d \in 1..Len(b) /\ (i + d) + e = i + (d + e)
    BY <1>0, <1>1
  <2> QED
    BY <2>1 DEF Part
<1>3. Len(a) + (d + e) <= Len(c)
  BY <1>0, <1>1
<1> QED
  BY <1>2, <1>3 DEF Part

\* Two parts that meet are the whole.
LEMMA PartsMeet ==
  ASSUME NEW S, NEW a \in Seq(S), NEW c \in Seq(S), NEW q \in Seq(S),
         Part(a, q, 0), Part(c, q, Len(a)), Len(a) + Len(c) = Len(q)
  PROVE  a \o c = q
<1>1. a \o c \in Seq(S) /\ Len(a) \in Nat /\ Len(c) \in Nat /\ Len(a \o c) = Len(q)
      /\ Part(a, a \o c, 0) /\ Part(c, a \o c, Len(a))
  BY ConcatIs
<1>2. ASSUME NEW i \in 1..Len(q) PROVE (a \o c)[i] = q[i]
  <2>1. CASE i \in 1..Len(a)
    BY <1>1, <2>1 DEF Part
  <2>2. CASE i \notin 1..Len(a)
    <3>1. i - Len(a) \in 1..Len(c) /\ (i - Len(a)) + Len(a) = i
      BY <1>1, <2>2
    <3>2. (a \o c)[i] = c[i - Len(a)] /\ q[i] = c[i - Len(a)]
      BY <1>1, <3>1 DEF Part
    <3> QED
      BY <3>2
  <2> QED
    BY <2>1, <2>2
<1> HIDE DEF Part
<1> QED
  BY <1>1, <1>2, SeqEqual

\* The front of p behind a, and the rest of p.
FirstOf(p, k) == SubSeq(p, 1, k)
RestOf(p, k) == SubSeq(p, k + 1, Len(p))

\* What they have of a and of p.
Split(S, a, p, k) ==
  LET buf == a \o FirstOf(p, k) IN
  /\ buf \in Seq(S) /\ Len(buf) = Len(a) + k /\ RestOf(p, k) \in Seq(S) /\ Len(a) \in Nat
  /\ Part(buf, a \o p, 0) /\ Part(RestOf(p, k), a \o p, Len(buf))
  /\ Len(RestOf(p, k)) = Len(a \o p) - Len(buf)

\* They share p between them.
LEMMA SplitIs ==
  ASSUME NEW S, NEW a \in Seq(S), NEW p \in Seq(S), NEW k \in Nat, k <= Len(p)
  PROVE  Split(S, a, p, k)
<1> DEFINE b == FirstOf(p, k)
           c == RestOf(p, k)
           buf == a \o b
           ap == a \o p
<1>1. b \in Seq(S) /\ Len(b) = k /\ Part(b, p, 0) /\ c \in Seq(S) /\ Len(c) = Len(p) - k /\ Part(c, p, k) /\ Len(p) \in Nat
  BY CutIs DEF FirstOf, RestOf
<1> HIDE DEF b, c
<1>2. ap \in Seq(S) /\ Len(a) \in Nat /\ Len(ap) = Len(a) + Len(p) /\ Part(a, ap, 0) /\ Part(p, ap, Len(a))
  BY ConcatIs
<1>3. buf \in Seq(S) /\ Len(buf) = Len(a) + k /\ Part(a, buf, 0) /\ Part(b, buf, Len(a))
  BY <1>1, ConcatIs
<1> HIDE DEF buf, ap
<1>4. Part(b, ap, 0 + Len(a))
  BY <1>1, <1>2, PartOfPart
<1>5. Part(c, ap, k + Len(a))
  BY <1>1, <1>2, PartOfPart
<1>6. Part(c, ap, Len(buf)) /\ Part(b, ap, Len(a))
  <2>1. k + Len(a) = Len(buf) /\ 0 + Len(a) = Len(a)
    BY <1>2, <1>3
  <2> QED
    BY <1>4, <1>5, <2>1
<1>7. Part(buf, ap, 0)
  <2>1. ASSUME NEW i \in 1..Len(buf) PROVE buf[i] = ap[i]
    <3>1. CASE i \in 1..Len(a)
      BY <1>2, <1>3, <3>1 DEF Part
    <3>2. CASE i \notin 1..Len(a)
      <4>1. i - Len(a) \in 1..Len(b) /\ (i - Len(a)) + Len(a) = i
        BY <1>1, <1>2, <1>3, <3>2
      <4>2. buf[i] = b[i - Len(a)] /\ ap[i] = b[i - Len(a)]
        BY <1>3, <1>6, <4>1 DEF Part
      <4> QED
        BY <4>2
    <3> QED
      BY <3>1, <3>2
  <2>2. Len(buf) + 0 <= Len(ap)
    BY <1>2, <1>3, <1>1
  <2>3. \A i \in 1..Len(buf) : buf[i] = ap[i + 0]
    BY <2>1
  <2> QED
    BY <2>2, <2>3 DEF Part
<1>8. Len(c) = Len(ap) - Len(buf) /\ Len(buf) + Len(c) = Len(ap)
  BY <1>1, <1>2, <1>3
<1> QED
  BY <1>1, <1>2, <1>3, <1>6, <1>7, <1>8, Zenon DEF b, c, buf, ap, Split

\* What the device has sent on a stream and nobody has decoded.
Flow(s) == partial[s] \o pend[s]

\* connect() waits in its handshake and only there; without a socket nothing
\* flows; and requests are made when it is done.
Phases ==
  /\ phase \in {"new", "dialing"} => sock = "none" /\ queue = <<>> /\ waiters = <<>>
  /\ sock = "none" => \A s \in Streams : Len(Flow(s)) = 0
  /\ phase = "handshake" <=> calls[Connector] = "waiting"
  /\ ids # <<>> => phase = "ready"

\* The two pieces of a message that was cut follow each other, and only they.
WellCut(q) ==
  \A i \in 1..Len(q) :
    /\ q[i].part = 1 /\ q[i].m.cut \notin Uncut => i + 1 <= Len(q) /\ q[i + 1] = [m |-> q[i].m, part |-> 2]
    /\ q[i].part = 2 => i > 1 /\ q[i - 1].part = 1 /\ q[i - 1].m.cut \notin Uncut

\* A stream that lost no piece keeps nothing, or the start of the message whose rest
\* comes next.
Kept(s) ==
  /\ Len(partial[s]) <= 1
  /\ \A i \in 1..Len(partial[s]) : partial[s][i].part = 1 /\ partial[s][i].m.cut = "body"
  /\ sock = "open" => WellCut(Flow(s))

\* What readers and the queue were given was whole, or lost the rest of a string.
Handed ==
  /\ \A c \in Readers : calls[c] = "ok" => got[c].whole \/ got[c].cut \in Endings
  /\ \A i \in 1..Len(queue) : queue[i].whole \/ queue[i].cut \in Endings

\* While requests come one after the other and nothing comes unasked, a message that
\* flows, and is no bare wrapper, is the answer to the one reader there is, and to its last request.
Start(s, i) == Flow(s)[i].part = 1 /\ Flow(s)[i].m.cut # "bare"
Newest(m) ==
  /\ m.for \in Readers /\ calls[m.for] = "waiting"
  /\ m.for # Connector => ids # <<>> /\ ids[Len(ids)].id = m.id
OneReader ==
  /\ queue = <<>> /\ Len(waiters) <= 1
  /\ \A c \in Readers : calls[c] \in {"idle", "waiting", "ok"} /\ (calls[c] = "ok" => got[c].for = c)
OneMessage ==
  /\ \A s \in Streams : \A i \in 1..Len(Flow(s)) : Start(s, i) => Newest(Flow(s)[i].m)
  /\ \A s, t \in Streams : \A i \in 1..Len(Flow(s)), j \in 1..Len(Flow(t)) :
       Start(s, i) /\ Start(t, j) => s = t /\ i = j
Numbered ==
  /\ \A k \in 1..Len(ids) : calls[ids[k].from] # "idle" /\ (calls[ids[k].from] = "waiting" => k = Len(ids))
  /\ \A k \in 1..Len(ids) : ids[k].id < msgId[Root]
  /\ \A j, k \in 1..Len(ids) : j < k => ids[j].id < ids[k].id
Alone == OneReader /\ OneMessage /\ Numbered

Own == Phases /\ (\A s \in Streams \ lossy : Kept(s)) /\ Handed /\ (~loose => Alone)

\* The invariant says what OwnResponse says.
LEMMA OwnImplied == IInv /\ Own => OwnResponse
<1> SUFFICES ASSUME IInv, Own PROVE OwnResponse
  OBVIOUS
<1>1. \A c \in Readers : calls[c] = "ok" => got[c].whole \/ got[c].cut \in Endings
  BY DEF Own, Handed
<1>2. ASSUME NEW s \in Streams \ lossy
      PROVE  Len(partial[s]) <= 1 /\ \A p \in ToSet(partial[s]) : p.part = 1
  <2>1. DOMAIN partial[s] = 1..Len(partial[s])
    BY DEF IInv, XTypeOK
  <2> QED
    BY <2>1 DEF Own, Kept, ToSet
<1>3. ASSUME ~loose
      PROVE  /\ \A c \in Readers : calls[c] = "ok" => got[c].for = c
             /\ \A j, k \in DOMAIN ids : j # k => ids[j].id # ids[k].id
  <2>1. ids \in Seq([id : Nat, from : Call])
    BY DEF IInv, XTypeOK
  <2>2. DOMAIN ids = 1..Len(ids) /\ Len(ids) \in Nat /\ \A k \in 1..Len(ids) : ids[k].id \in Nat
    <3>1. \A k \in 1..Len(ids) : ids[k] \in [id : Nat, from : Call]
      BY <2>1, ElementOfSeq
    <3> QED
      BY <2>1, <3>1
  <2>3. \A j, k \in 1..Len(ids) : j < k => ids[j].id < ids[k].id
    BY <1>3 DEF Own, Alone, Numbered
  <2>4. \A j, k \in 1..Len(ids) : j # k => j < k \/ k < j
    BY <2>2
  <2>5. \A j, k \in 1..Len(ids) : j # k => ids[j].id # ids[k].id
    BY <2>2, <2>3, <2>4
  <2> QED
    BY <1>3, <2>2, <2>5 DEF Own, Alone, OneReader
<1> QED
  BY <1>1, <1>2, <1>3 DEF OwnResponse

------------------------------------------------------------------------------
\* What a stream carries: first what is kept of it, then what was not read.
LEMMA FlowIs ==
  ASSUME XTypeOK, NEW s \in Streams
  PROVE  /\ partial[s] \in Seq(Pieces) /\ pend[s] \in Seq(Pieces) /\ Flow(s) \in Seq(Pieces)
         /\ Len(Flow(s)) \in Nat /\ Len(partial[s]) \in Nat /\ Len(pend[s]) \in Nat
         /\ Len(Flow(s)) = Len(partial[s]) + Len(pend[s])
         /\ Part(partial[s], Flow(s), 0) /\ Part(pend[s], Flow(s), Len(partial[s]))
<1>1. partial[s] \in Seq(Pieces) /\ pend[s] \in Seq(Pieces)
  BY DEF XTypeOK
<1>2. Len(pend[s]) \in Nat /\ Flow(s) \in Seq(Pieces)
  BY <1>1, ConcatIs DEF Flow
<1>3. Len(Flow(s)) \in Nat
  BY <1>2
<1> QED
  BY <1>1, <1>2, <1>3, ConcatIs DEF Flow

\* What flows is pieces.
LEMMA PieceIs ==
  ASSUME XTypeOK, NEW s \in Streams, NEW i \in 1..Len(Flow(s))
  PROVE  Flow(s)[i] \in Pieces /\ Flow(s)[i].part \in {1, 2} /\ Flow(s)[i].m \in Messages
<1>1. Flow(s) \in Seq(Pieces)
  BY FlowIs
<1>2. Flow(s)[i] \in Pieces
  BY <1>1
<1> QED
  BY <1>2 DEF Pieces

\* A frame moves the boundary between the two, and a decoded or dropped buffer
\* leaves the front of the flow.
LEMMA FlowOfFrame ==
  ASSUME XTypeOK, NEW s \in Streams, NEW k \in 1..2, HandleFrame(s, k)
  PROVE  LET buf == partial[s] \o SubSeq(pend[s], 1, k) IN
         /\ buf \in Seq(Pieces) /\ Len(buf) = Len(partial[s]) + k /\ Len(buf) \in 1..Len(Flow(s))
         /\ \A i \in 1..Len(buf) : buf[i] = Flow(s)[i]
         /\ partial'[s] = buf => Flow(s)' = Flow(s)
         /\ partial'[s] = <<>> => /\ Len(Flow(s)') = Len(Flow(s)) - Len(buf)
                                  /\ \A i \in 1..Len(Flow(s)') : Flow(s)'[i] = Flow(s)[i + Len(buf)]
         /\ \A t \in Streams : t # s => Flow(t)' = Flow(t) /\ partial'[t] = partial[t]
<1> DEFINE c == RestOf(pend[s], k)
           buf == partial[s] \o FirstOf(pend[s], k)
<1>1. partial[s] \in Seq(Pieces) /\ pend[s] \in Seq(Pieces) /\ k \in Nat /\ k <= Len(pend[s])
  <2>1. k <= Len(pend[s])
    BY DEF HandleFrame
  <2>2. k \in Nat
    OBVIOUS
  <2>3. partial[s] \in Seq(Pieces) /\ pend[s] \in Seq(Pieces)
    BY FlowIs
  <2> QED
    BY <2>1, <2>2, <2>3
<1>2. /\ pend' = [pend EXCEPT ![s] = c]
      /\ partial' \in {[partial EXCEPT ![s] = buf], [partial EXCEPT ![s] = <<>>]}
  BY DEF HandleFrame, FirstOf, RestOf
<1>3. /\ buf \in Seq(Pieces) /\ Len(buf) = Len(partial[s]) + k /\ c \in Seq(Pieces) /\ Len(partial[s]) \in Nat
      /\ Part(buf, Flow(s), 0) /\ Part(c, Flow(s), Len(buf)) /\ Len(c) = Len(Flow(s)) - Len(buf)
      /\ buf \o c = Flow(s)
  <2>1. Split(Pieces, partial[s], pend[s], k)
    BY <1>1, SplitIs
  <2> HIDE DEF c, buf
  <2>2. /\ buf \in Seq(Pieces) /\ Len(buf) = Len(partial[s]) + k /\ c \in Seq(Pieces) /\ Len(partial[s]) \in Nat
        /\ Part(buf, Flow(s), 0) /\ Part(c, Flow(s), Len(buf)) /\ Len(c) = Len(Flow(s)) - Len(buf)
    BY <2>1, Zenon DEF Flow, buf, c, Split
  <2>3. Len(buf) + Len(c) = Len(Flow(s)) /\ Flow(s) \in Seq(Pieces)
    <3>1. Flow(s) \in Seq(Pieces) /\ Len(Flow(s)) \in Nat
      BY FlowIs
    <3>2. Len(buf) \in Nat
      BY <1>1, <2>2
    <3>3. Len(c) = Len(Flow(s)) - Len(buf)
      BY <2>2
    <3> QED
      BY <3>1, <3>2, <3>3
  <2> QED
    BY <2>2, <2>3, PartsMeet
<1> HIDE DEF c, buf
<1>4. /\ pend'[s] = c
      /\ \A t \in Streams : t # s => pend'[t] = pend[t] /\ partial'[t] = partial[t]
  BY <1>2 DEF XTypeOK
<1>5. partial'[s] = buf => Flow(s)' = Flow(s)
  BY <1>3, <1>4 DEF Flow
<1>6. partial'[s] = <<>> => Flow(s)' = c
  <2>1. <<>> \o c = c
    BY <1>3
  <2> QED
    BY <1>4, <2>1 DEF Flow
<1>7. Len(buf) \in 1..Len(Flow(s))
  <2>1. Len(Flow(s)) \in Nat
    BY FlowIs
  <2>2. Len(buf) + 0 <= Len(Flow(s))
    BY <1>3 DEF Part
  <2> QED
    BY <1>3, <2>1, <2>2
<1>8. \A i \in 1..Len(buf) : buf[i] = Flow(s)[i]
  <2>1. \A i \in 1..Len(buf) : i + 0 = i
    OBVIOUS
  <2> QED
    BY <1>3, <2>1 DEF Part
<1>9. \A t \in Streams : t # s => Flow(t)' = Flow(t) /\ partial'[t] = partial[t]
  BY <1>4 DEF Flow
<1>10. \A i \in 1..Len(c) : c[i] = Flow(s)[i + Len(buf)]
  BY <1>3 DEF Part
<1> QED
  BY <1>3, <1>5, <1>6, <1>7, <1>8, <1>9, <1>10 DEF buf, FirstOf

\* connect() leaves its handshake when its reader is told something.
LEMMA PhaseIs ==
  ASSUME XTypeOK, Phases, ConnectReturns(calls'),
         calls'[Connector] = calls[Connector]
           \/ (calls[Connector] = "waiting" /\ calls'[Connector] \in {"ok", "empty", "timeout"})
  PROVE  /\ phase' = "handshake" <=> calls'[Connector] = "waiting"
         /\ phase' # phase => phase = "handshake" /\ phase' \in {"ready", "failed"}
<1>1. CASE phase # "handshake"
  <2>1. phase' = phase /\ calls[Connector] # "waiting"
    BY <1>1 DEF ConnectReturns, Phases
  <2> QED
    BY <1>1, <2>1
<1>2. CASE phase = "handshake"
  <2>1. calls[Connector] = "waiting"
    BY <1>2 DEF Phases
  <2>2. CASE calls'[Connector] = "waiting"
    BY <1>2, <2>2 DEF ConnectReturns
  <2>3. CASE calls'[Connector] \in {"ok", "empty"}
    BY <1>2, <2>3 DEF ConnectReturns
  <2>4. CASE calls'[Connector] = "timeout"
    BY <1>2, <2>4 DEF ConnectReturns
  <2> QED
    BY <2>1, <2>2, <2>3, <2>4
<1> QED
  BY <1>1, <1>2

\* What a frame and what was kept of a stream that lost nothing start with.
LEMMA BufferIs ==
  ASSUME XTypeOK, NEW s \in Streams, Kept(s), sock = "open",
         NEW buf \in Seq(Pieces), NEW k \in 1..2, Len(buf) = Len(partial[s]) + k, Len(buf) \in 1..Len(Flow(s)),
         \A i \in 1..Len(buf) : buf[i] = Flow(s)[i]
  PROVE  /\ buf[1].part = 1
         /\ Whole(buf) \/ (Len(buf) = 1 /\ buf[1].m.cut \notin Uncut)
<1>1. Len(partial[s]) \in Nat /\ Len(partial[s]) <= 1 /\ Len(Flow(s)) \in Nat /\ Part(partial[s], Flow(s), 0)
  BY FlowIs DEF Kept
<1>2. 1 \in 1..Len(buf) /\ 1 \in 1..Len(Flow(s))
  BY <1>1
<1>3. buf[1] = Flow(s)[1] /\ Flow(s)[1].part \in {1, 2}
  BY <1>2, PieceIs
<1>4. buf[1].part = 1
  <2>1. Flow(s)[1].part = 2 => 1 > 1
    BY <1>2 DEF Kept, WellCut
  <2> QED
    BY <1>3, <2>1
<1>5. CASE buf[1].m.cut \in Uncut
  BY <1>4, <1>5 DEF Whole
<1>6. CASE buf[1].m.cut \notin Uncut /\ Len(buf) > 1
  <2>1. 1 + 1 <= Len(Flow(s)) /\ Flow(s)[1 + 1] = [m |-> Flow(s)[1].m, part |-> 2]
    BY <1>2, <1>3, <1>4, <1>6 DEF Kept, WellCut
  <2>2. 2 \in 1..Len(buf) /\ 1 + 1 = 2
    BY <1>1, <1>6
  <2>3. buf[2] = [m |-> buf[1].m, part |-> 2]
    BY <1>3, <2>1, <2>2
  <2> QED
    BY <1>4, <1>6, <2>3 DEF Whole
<1>7. Len(buf) > 1 \/ Len(buf) = 1
  BY <1>1
<1> QED
  BY <1>4, <1>5, <1>6, <1>7

\* What is left of a stream behind a whole message.
LEMMA RestWellCut ==
  ASSUME NEW q, NEW r, NEW d \in 1..2, Len(q) \in Nat, Len(r) \in Nat, WellCut(q), Len(r) = Len(q) - d,
         \A i \in 1..Len(r) : r[i] = q[i + d],
         IF d = 1 THEN q[1].m.cut \in Uncut ELSE q[2].part = 2
  PROVE  WellCut(r)
<1> SUFFICES ASSUME NEW i \in 1..Len(r)
             PROVE  /\ r[i].part = 1 /\ r[i].m.cut \notin Uncut => i + 1 <= Len(r) /\ r[i + 1] = [m |-> r[i].m, part |-> 2]
                    /\ r[i].part = 2 => i > 1 /\ r[i - 1].part = 1 /\ r[i - 1].m.cut \notin Uncut
  BY DEF WellCut
<1>1. i + d \in 1..Len(q) /\ r[i] = q[i + d] /\ i \in Nat /\ i >= 1
  OBVIOUS
<1>2. ASSUME r[i].part = 1, r[i].m.cut \notin Uncut
      PROVE  i + 1 <= Len(r) /\ r[i + 1] = [m |-> r[i].m, part |-> 2]
  <2>1. (i + d) + 1 <= Len(q) /\ q[(i + d) + 1] = [m |-> r[i].m, part |-> 2]
    BY <1>1, <1>2 DEF WellCut
  <2>2. i + 1 \in 1..Len(r) /\ (i + 1) + d = (i + d) + 1
    BY <1>1, <2>1
  <2> QED
    BY <1>1, <2>1, <2>2
<1>3. ASSUME r[i].part = 2
      PROVE  i > 1 /\ r[i - 1].part = 1 /\ r[i - 1].m.cut \notin Uncut
  <2>1. q[(i + d) - 1].part = 1 /\ q[(i + d) - 1].m.cut \notin Uncut
    BY <1>1, <1>3 DEF WellCut
  <2>2. i > 1
    <3>1. CASE i = 1 /\ d = 1
      <4>1. (i + d) - 1 = 1
        BY <3>1
      <4> QED
        BY <2>1, <3>1, <4>1
    <3>2. CASE i = 1 /\ d = 2
      <4>1. (i + d) - 1 = 2
        BY <3>2
      <4> QED
        BY <2>1, <3>2, <4>1
    <3> QED
      BY <1>1, <3>1, <3>2
  <2>3. i - 1 \in 1..Len(r) /\ (i - 1) + d = (i + d) - 1
    <3> DEFINE w == Len(r)
    <3>1. w \in Nat /\ i \in 1..w /\ d \in 1..2 /\ i > 1
      BY <2>2
    <3> HIDE DEF w
    <3>2. i - 1 \in 1..w /\ (i - 1) + d = (i + d) - 1
      BY <3>1
    <3> QED
      BY <3>2 DEF w
  <2>4. r[i - 1] = q[(i + d) - 1]
    BY <2>3
  <2> QED
    BY <2>1, <2>2, <2>4
<1> QED
  BY <1>2, <1>3

\* What a frame of k pieces makes of the pieces kept.
Outcome(s, k) == Decode(partial[s] \o SubSeq(pend[s], 1, k))

\* Steps keep what readers own: a frame that decodes to nothing.
LEMMA OwnThrow ==
  ASSUME IInv, Own, NEW s \in Streams, NEW k \in 1..2, HandleFrame(s, k),
         Outcome(s, k) = "throw"
  PROVE  Own'
<1> DEFINE buf == partial[s] \o SubSeq(pend[s], 1, k)
<1>1. /\ XTypeOK /\ sock = "open" /\ partial' = [partial EXCEPT ![s] = buf]
      /\ UNCHANGED <<phase, sock, msgId, waiters, queue, calls, got, ids, lossy, loose>>
  BY DEF IInv, HandleFrame, Outcome
<1>2. /\ buf \in Seq(Pieces) /\ Len(buf) = Len(partial[s]) + k /\ Len(buf) \in 1..Len(Flow(s))
      /\ \A i \in 1..Len(buf) : buf[i] = Flow(s)[i]
      /\ partial'[s] = buf => Flow(s)' = Flow(s)
      /\ \A t \in Streams : t # s => Flow(t)' = Flow(t) /\ partial'[t] = partial[t]
  BY <1>1, FlowOfFrame
<1>3. Decode(buf) = "throw"
  BY DEF Outcome
<1> HIDE DEF buf
<1>4. partial'[s] = buf /\ \A t \in Streams : Flow(t)' = Flow(t)
  BY <1>1, <1>2 DEF XTypeOK
<1>5. ASSUME NEW t \in Streams \ lossy' PROVE Kept(t)'
  <2>1. t \in Streams \ lossy /\ Kept(t)
    BY <1>1 DEF Own
  <2>2. CASE t # s
    BY <1>1, <1>2, <1>4, <2>1, <2>2 DEF Kept
  <2>3. CASE t = s
    <3>0. partial'[t] = buf /\ Flow(t)' = Flow(t) /\ sock' = sock
      BY <1>1, <1>4, <2>3
    <3>1. buf[1].part = 1 /\ (Whole(buf) \/ (Len(buf) = 1 /\ buf[1].m.cut \notin Uncut))
      BY <1>1, <1>2, <2>1, <2>3, BufferIs
    <3>2. ~Whole(buf)
      BY <1>3, <3>1 DEF Decode
    <3>3. Len(buf) = 1 /\ buf[1].m.cut \notin {"none", "bare", "header", "string", "tail"}
      <4>1. Len(buf) = 1 /\ buf[1].m.cut \notin Uncut \cup Endings
        BY <1>3, <3>1, <3>2 DEF Decode
      <4>2. ~(\A p \in ToSet(buf) : Short(p))
        BY <1>3 DEF Decode
      <4>3. ToSet(buf) = {buf[1]}
        BY <1>2, <4>1 DEF ToSet
      <4> QED
        BY <3>1, <4>1, <4>2, <4>3 DEF Short, Uncut, Endings
    <3>4. buf[1].m.cut = "body"
      <4>1. 1 \in 1..Len(Flow(s)) /\ buf[1] = Flow(s)[1]
        BY <1>2, <3>3
      <4>2. buf[1].m.cut \in Cuts
        BY <1>1, <4>1, PieceIs DEF Messages
      <4> QED
        BY <3>3, <4>2 DEF Cuts
    <3>5. \A i \in 1..Len(buf) : i = 1
      BY <3>3
    <3> QED
      BY <2>1, <3>0, <3>1, <3>3, <3>4, <3>5 DEF Kept
  <2> QED
    BY <2>2, <2>3
<1>6. Phases' /\ Handed'
  BY <1>1, <1>4 DEF Own, Phases, Handed
<1>7. ~loose' => Alone'
  BY <1>1, <1>4 DEF Own, Alone, OneReader, OneMessage, Numbered, Start, Newest
<1> QED
  BY <1>5, <1>6, <1>7 DEF Own

\* What still flows after a buffer left the front.
LEMMA Shifts ==
  ASSUME XTypeOK, NEW s \in Streams, NEW k \in 1..2, HandleFrame(s, k), partial'[s] = <<>>
  PROVE  \A t \in Streams : \E d \in Nat :
           /\ Len(Flow(t)') = Len(Flow(t)) - d /\ Len(Flow(t)') \in Nat /\ (t = s => d >= 1)
           /\ \A i \in 1..Len(Flow(t)') : i + d \in 1..Len(Flow(t)) /\ Flow(t)'[i] = Flow(t)[i + d]
<1> DEFINE buf == partial[s] \o SubSeq(pend[s], 1, k)
<1>1. /\ Len(buf) \in 1..Len(Flow(s))
      /\ Len(Flow(s)') = Len(Flow(s)) - Len(buf)
      /\ \A i \in 1..Len(Flow(s)') : Flow(s)'[i] = Flow(s)[i + Len(buf)]
      /\ \A t \in Streams : t # s => Flow(t)' = Flow(t) /\ partial'[t] = partial[t]
  BY FlowOfFrame
<1> HIDE DEF buf
<1>2. \A t \in Streams : Len(Flow(t)) \in Nat
  BY FlowIs
<1> SUFFICES ASSUME NEW t \in Streams
             PROVE  \E d \in Nat :
                      /\ Len(Flow(t)') = Len(Flow(t)) - d /\ Len(Flow(t)') \in Nat /\ (t = s => d >= 1)
                      /\ \A i \in 1..Len(Flow(t)') : i + d \in 1..Len(Flow(t)) /\ Flow(t)'[i] = Flow(t)[i + d]
  OBVIOUS
<1>3. CASE t = s
  <2> DEFINE d == Len(buf)
             n == Len(Flow(s))
             n1 == Len(Flow(s)')
  <2>1. d \in Nat /\ d >= 1 /\ n1 = n - d /\ n1 \in Nat /\ n \in Nat
    BY <1>1, <1>2
  <2> HIDE DEF d, n, n1
  <2>2. \A i \in 1..n1 : i + d \in 1..n
    BY <2>1
  <2> QED
    BY <1>1, <1>3, <2>1, <2>2 DEF d, n, n1
<1>4. CASE t # s
  <2>1. Flow(t)' = Flow(t) /\ Len(Flow(t)) \in Nat
    BY <1>1, <1>2, <1>4
  <2>2. Len(Flow(t)) = Len(Flow(t)) - 0 /\ \A i \in 1..Len(Flow(t)) : i + 0 = i
    BY <2>1
  <2> QED
    BY <1>4, <2>1, <2>2
<1> QED
  BY <1>3, <1>4

\* A buffer that was a whole message, or a bare wrapper, and nothing more leaves the
\* stream in order.
LEMMA KeptBehind ==
  ASSUME XTypeOK, NEW s \in Streams, NEW k \in 1..2, HandleFrame(s, k), partial'[s] = <<>>,
         sock = "open", Kept(s),
         Whole(partial[s] \o SubSeq(pend[s], 1, k)), ~Leftover(partial[s] \o SubSeq(pend[s], 1, k))
  PROVE  Kept(s)'
<1> DEFINE buf == partial[s] \o SubSeq(pend[s], 1, k)
           L == Len(buf)
<1>1. /\ buf \in Seq(Pieces) /\ L \in 1..Len(Flow(s))
      /\ \A i \in 1..L : buf[i] = Flow(s)[i]
      /\ Len(Flow(s)') = Len(Flow(s)) - L
      /\ \A i \in 1..Len(Flow(s)') : Flow(s)'[i] = Flow(s)[i + L]
      /\ Whole(buf) /\ ~Leftover(buf)
  BY FlowOfFrame
<1> HIDE DEF buf
<1>2. L \in Nat /\ L >= 1 /\ Len(Flow(s)) \in Nat /\ Len(Flow(s)') \in Nat
  <2>1. Len(Flow(s)) \in Nat
    BY FlowIs
  <2> HIDE DEF L
  <2> QED
    BY <1>1, <2>1
<1>3. buf[1] = Flow(s)[1]
  <2>1. 1 \in 1..L
    BY <1>2
  <2> QED
    BY <1>1, <2>1
<1>4. IF L = 1 THEN Flow(s)[1].m.cut \in Uncut ELSE L = 2 /\ Flow(s)[2].part = 2
  <2>1. CASE buf[1].m.cut \in Uncut
    <3>1. ~(L > 1)
      BY <1>1, <2>1 DEF Leftover
    <3> HIDE DEF L
    <3>2. L = 1
      BY <1>2, <3>1
    <3> QED
      BY <1>3, <2>1, <3>2
  <2>2. CASE buf[1].m.cut \notin Uncut
    <3>1. L > 1 /\ buf[2] = [m |-> buf[1].m, part |-> 2] /\ ~(L > 2)
      BY <1>1, <2>2 DEF Leftover, Whole
    <3> HIDE DEF L
    <3>2. L = 2 /\ 2 \in 1..L
      BY <1>2, <3>1
    <3>3. buf[2] = Flow(s)[2]
      BY <1>1, <3>2
    <3> QED
      BY <3>1, <3>2, <3>3
  <2> QED
    BY <2>1, <2>2
<1> HIDE DEF L
<1>5. L \in 1..2 /\ IF L = 1 THEN Flow(s)[1].m.cut \in Uncut ELSE Flow(s)[2].part = 2
  BY <1>2, <1>4
<1>6. WellCut(Flow(s))
  BY DEF Kept
<1>7. WellCut(Flow(s)')
  BY <1>1, <1>2, <1>5, <1>6, RestWellCut
<1>8. Len(partial'[s]) = 0
  OBVIOUS
<1> QED
  BY <1>7, <1>8 DEF Kept, WellCut

\* A buffer that is dropped takes no message to a reader.
LEMMA OwnNull ==
  ASSUME IInv, Own, NEW s \in Streams, NEW k \in 1..2, HandleFrame(s, k),
         Outcome(s, k) = "null"
  PROVE  Own'
<1>1. /\ XTypeOK /\ sock = "open" /\ partial' = [partial EXCEPT ![s] = <<>>]
      /\ UNCHANGED <<phase, sock, msgId, waiters, queue, calls, got, ids, loose>>
      /\ lossy' = IF Loses(partial[s] \o SubSeq(pend[s], 1, k)) THEN lossy \cup {s} ELSE lossy
  BY DEF IInv, HandleFrame, Outcome
<1>2. partial'[s] = <<>> /\ \A t \in Streams : t # s => Flow(t)' = Flow(t) /\ partial'[t] = partial[t]
  <2>1. \A t \in Streams : t # s => Flow(t)' = Flow(t) /\ partial'[t] = partial[t]
    BY <1>1, FlowOfFrame
  <2> QED
    BY <1>1, <2>1 DEF XTypeOK
<1>3. \A t \in Streams : \E d \in Nat :
         /\ Len(Flow(t)') = Len(Flow(t)) - d /\ Len(Flow(t)') \in Nat
         /\ \A i \in 1..Len(Flow(t)') : i + d \in 1..Len(Flow(t)) /\ Flow(t)'[i] = Flow(t)[i + d]
  BY <1>1, <1>2, Shifts
<1>4. ASSUME NEW t \in Streams \ lossy' PROVE Kept(t)'
  <2>1. t \in Streams \ lossy /\ Kept(t)
    BY <1>1, <1>4 DEF Own
  <2>2. CASE t # s
    BY <1>1, <1>2, <2>1, <2>2 DEF Kept
  <2>3. CASE t = s
    <3>1. /\ Whole(partial[s] \o SubSeq(pend[s], 1, k))
          /\ ~Leftover(partial[s] \o SubSeq(pend[s], 1, k))
      BY <1>1, <1>4, <2>3 DEF Loses
    <3> QED
      BY <1>1, <1>2, <2>1, <2>3, <3>1, KeptBehind
  <2> QED
    BY <2>2, <2>3
<1>5. Phases' /\ Handed'
  BY <1>1 DEF Own, Phases, Handed
<1>6. ASSUME ~loose' PROVE Alone'
  <2>1. Alone
    BY <1>1, <1>6 DEF Own
  <2>2. OneReader' /\ Numbered'
    BY <1>1, <2>1 DEF Alone, OneReader, Numbered
  <2>4. ASSUME NEW t \in Streams, NEW i \in 1..Len(Flow(t)'), Start(t, i)' PROVE Newest(Flow(t)[i].m)'
    <3>1. PICK d \in Nat : i + d \in 1..Len(Flow(t)) /\ Flow(t)'[i] = Flow(t)[i + d]
      BY <1>3
    <3>2. Start(t, i + d)
      BY <2>4, <3>1 DEF Start
    <3>3. Newest(Flow(t)[i + d].m)
      BY <2>1, <3>1, <3>2 DEF Alone, OneMessage
    <3> QED
      BY <1>1, <3>1, <3>3 DEF Newest
  <2>5. ASSUME NEW t \in Streams, NEW u \in Streams, NEW i \in 1..Len(Flow(t)'), NEW j \in 1..Len(Flow(u)'),
               Start(t, i)', Start(u, j)'
        PROVE  t = u /\ i = j
    <3>1. PICK d \in Nat : \A n \in 1..Len(Flow(t)') : n + d \in 1..Len(Flow(t)) /\ Flow(t)'[n] = Flow(t)[n + d]
      BY <1>3
    <3>2. PICK e \in Nat : \A n \in 1..Len(Flow(u)') : n + e \in 1..Len(Flow(u)) /\ Flow(u)'[n] = Flow(u)[n + e]
      BY <1>3
    <3>3. Start(t, i + d) /\ Start(u, j + e) /\ i + d \in 1..Len(Flow(t)) /\ j + e \in 1..Len(Flow(u))
      BY <2>5, <3>1, <3>2 DEF Start
    <3>4. t = u /\ i + d = j + e
      BY <2>1, <3>3 DEF Alone, OneMessage
    <3>5. i \in Nat /\ j \in Nat
      OBVIOUS
    <3>6. CASE i = j
      BY <3>4, <3>6
    <3>7. CASE i # j
      <4>1. Start(t, i + d) /\ i + d \in 1..Len(Flow(t)) /\ Start(t, j + d) /\ j + d \in 1..Len(Flow(t))
        BY <2>5, <3>1, <3>4 DEF Start
      <4>2. i + d = j + d
        BY <2>1, <4>1 DEF Alone, OneMessage
      <4> QED
        BY <3>5, <3>7, <4>2
    <3> QED
      BY <3>6, <3>7
  <2> QED
    BY <2>2, <2>4, <2>5 DEF Alone, OneMessage
<1> QED
  BY <1>4, <1>5, <1>6 DEF Own

\* A message that is decoded goes to the one reader, if it runs alone.
LEMMA OwnMessage ==
  ASSUME IInv, Own, NEW s \in Streams, NEW k \in 1..2, HandleFrame(s, k),
         Outcome(s, k) = "message"
  PROVE  Own'
<1> DEFINE buf == partial[s] \o SubSeq(pend[s], 1, k)
           m == [for |-> buf[1].m.for, id |-> buf[1].m.id, cut |-> buf[1].m.cut,
                 n |-> decoded', whole |-> Whole(buf)]
<1>1. /\ XTypeOK /\ Shared /\ sock = "open" /\ partial' = [partial EXCEPT ![s] = <<>>]
      /\ UNCHANGED <<sock, ids, loose>>
      /\ msgId' = [msgId EXCEPT ![s] = NextId(buf[1].m)]
      /\ lossy' = IF Loses(buf) THEN lossy \cup {s} ELSE lossy
  BY SharedTypes DEF IInv, HandleFrame, Outcome
<1>2. /\ buf \in Seq(Pieces) /\ Len(buf) = Len(partial[s]) + k /\ Len(buf) \in 1..Len(Flow(s))
      /\ \A i \in 1..Len(buf) : buf[i] = Flow(s)[i]
      /\ \A t \in Streams : t # s => Flow(t)' = Flow(t) /\ partial'[t] = partial[t]
      /\ partial'[s] = <<>> => /\ Len(Flow(s)') = Len(Flow(s)) - Len(buf)
                               /\ \A i \in 1..Len(Flow(s)') : Flow(s)'[i] = Flow(s)[i + Len(buf)]
  BY <1>1, FlowOfFrame
<1>3. partial'[s] = <<>>
  BY <1>1 DEF XTypeOK
<1>4. \/ /\ waiters # <<>> /\ got' = [got EXCEPT ![Head(waiters)] = m]
         /\ calls' = [calls EXCEPT ![Head(waiters)] = "ok"]
         /\ waiters' = Tail(waiters) /\ ConnectReturns(calls') /\ queue' = queue
      \/ waiters = <<>> /\ queue' = Append(queue, m) /\ UNCHANGED <<phase, waiters, calls, got>>
  BY DEF HandleFrame, Outcome
<1>5. Decode(buf) = "message"
  BY DEF Outcome
<1>6. \A t \in Streams : \E d \in Nat :
           /\ Len(Flow(t)') = Len(Flow(t)) - d /\ Len(Flow(t)') \in Nat /\ (t = s => d >= 1)
           /\ \A i \in 1..Len(Flow(t)') : i + d \in 1..Len(Flow(t)) /\ Flow(t)'[i] = Flow(t)[i + d]
  BY <1>1, <1>3, Shifts
<1> DEFINE L == Len(buf)
           W == Len(waiters)
<1>7. L \in Nat /\ L >= 1 /\ buf \in Seq(Pieces) /\ Flow(s) \in Seq(Pieces) /\ 1 \in 1..Len(Flow(s)) /\ 1 \in 1..Len(buf) /\ Len(buf) \in Nat
  <2>1. Flow(s) \in Seq(Pieces)
    BY <1>1, FlowIs
  <2>2. buf \in Seq(Pieces) /\ L \in 1..Len(Flow(s)) /\ Len(Flow(s)) \in Nat
    BY <1>1, <1>2, FlowIs
  <2> HIDE DEF L
  <2>3. L \in Nat /\ L >= 1 /\ 1 \in 1..L /\ 1 \in 1..Len(Flow(s))
    BY <2>2
  <2> QED
    BY <2>1, <2>2, <2>3 DEF L
<1> HIDE DEF buf
<1>8. /\ buf[1].part = 1 /\ (Whole(buf) \/ buf[1].m.cut \in Endings) /\ buf[1] = Flow(s)[1]
      /\ buf[1].m \in Messages /\ buf[1].m.cut # "bare"
  <2>1. buf[1].part = 1 /\ (Whole(buf) \/ buf[1].m.cut \in Endings) /\ buf[1].m.cut # "bare"
    BY <1>5 DEF Decode
  <2>2. buf[1] = Flow(s)[1] /\ Flow(s)[1].m \in Messages
    BY <1>1, <1>2, <1>7, PieceIs
  <2> QED
    BY <2>1, <2>2
<1>9. m.for = Flow(s)[1].m.for /\ m.cut = buf[1].m.cut /\ m.whole = Whole(buf) /\ (m.whole \/ m.cut \in Endings)
  BY <1>8
<1> HIDE DEF m
<1>10. waiters # <<>> => /\ Head(waiters) \in Readers /\ calls[Head(waiters)] = "waiting" /\ Head(waiters) = waiters[1]
                         /\ 1 \in 1..Len(waiters)
  <2> SUFFICES ASSUME waiters # <<>>
               PROVE  /\ Head(waiters) \in Readers /\ calls[Head(waiters)] = "waiting" /\ Head(waiters) = waiters[1]
                      /\ 1 \in 1..Len(waiters)
    OBVIOUS
  <2>1. Head(waiters) \in Readers /\ Head(waiters) = waiters[1] /\ 1 \in 1..Len(waiters)
    BY <1>1, TailIs DEF Shared
  <2> QED
    BY <2>1 DEF IInv, Line
<1>11. ASSUME NEW t \in Streams \ lossy' PROVE Kept(t)'
  <2>1. t \in Streams \ lossy /\ Kept(t)
    BY <1>1, <1>11 DEF Own
  <2>2. CASE t # s
    BY <1>1, <1>2, <2>1, <2>2 DEF Kept
  <2>3. CASE t = s
    <3>1. Whole(buf) /\ ~Leftover(buf)
      BY <1>1, <1>11, <2>3 DEF Loses
    <3> QED
      BY <1>1, <1>3, <2>1, <2>3, <3>1, KeptBehind DEF buf
  <2> QED
    BY <2>2, <2>3
<1>12. Phases'
  <2>1. phase \notin {"new", "dialing"} /\ sock' = "open" /\ Phases
    BY <1>1 DEF Own, Phases
  <2>2. CASE waiters = <<>>
    BY <1>1, <1>4, <2>1, <2>2 DEF Phases
  <2>3. CASE waiters # <<>>
    <3>1. calls' = [calls EXCEPT ![Head(waiters)] = "ok"] /\ ConnectReturns(calls')
      BY <1>4, <2>3
    <3>2. calls'[Connector] = calls[Connector] \/ (calls[Connector] = "waiting" /\ calls'[Connector] \in {"ok", "empty", "timeout"})
      BY <1>1, <1>10, <2>3, <3>1 DEF Shared
    <3>3. /\ phase' = "handshake" <=> calls'[Connector] = "waiting"
          /\ phase' # phase => phase = "handshake" /\ phase' \in {"ready", "failed"}
      BY <1>1, <2>1, <3>1, <3>2, PhaseIs
    <3>4. ids' # <<>> => phase' = "ready"
      BY <1>1, <2>1, <3>3 DEF Phases
    <3> QED
      BY <2>1, <3>3, <3>4 DEF Phases
  <2> QED
    BY <2>2, <2>3
<1>13. Handed'
  <2>1. CASE waiters = <<>>
    <3>1. queue' = Append(queue, m) /\ UNCHANGED <<calls, got>>
      BY <1>4, <2>1
    <3>2. \A i \in 1..Len(queue') : (i \in 1..Len(queue) /\ queue'[i] = queue[i]) \/ queue'[i] = m
      BY <1>1, <3>1 DEF Shared
    <3> QED
      BY <1>9, <3>1, <3>2 DEF Own, Handed
  <2>2. CASE waiters # <<>>
    <3>1. queue' = queue /\ calls' = [calls EXCEPT ![Head(waiters)] = "ok"] /\ got' = [got EXCEPT ![Head(waiters)] = m]
      BY <1>4, <2>2
    <3>2. ASSUME NEW c \in Readers, calls'[c] = "ok" PROVE got'[c].whole \/ got'[c].cut \in Endings
      <4>1. CASE c = Head(waiters)
        BY <1>1, <1>9, <3>1, <4>1 DEF Shared
      <4>2. CASE c # Head(waiters)
        BY <1>1, <3>1, <3>2, <4>2 DEF Shared, Own, Handed
      <4> QED
        BY <4>1, <4>2
    <3> QED
      BY <3>1, <3>2 DEF Own, Handed
  <2> QED
    BY <2>1, <2>2
<1>14. ASSUME ~loose' PROVE Alone'
  <2> DEFINE c == Flow(s)[1].m.for
  <2>1. Alone
    BY <1>1, <1>14 DEF Own
  <2>2. Start(s, 1) /\ Newest(Flow(s)[1].m)
    BY <1>7, <1>8, <2>1 DEF Alone, OneMessage, Start
  <2>3. c \in Readers /\ calls[c] = "waiting"
    BY <2>2 DEF Newest
  <2>4. waiters # <<>> /\ Head(waiters) = c /\ Len(waiters) = 1
    <3>1. PICK i \in 1..Len(waiters) : waiters[i] = c
      BY <2>3 DEF IInv, Line
    <3>2. Len(waiters) \in Nat /\ Len(waiters) <= 1
      BY <1>1, <2>1 DEF Shared, Alone, OneReader
    <3>3. i = 1 /\ Len(waiters) = 1
      <4>1. i \in 1..W /\ W \in Nat /\ W <= 1
        BY <3>2
      <4> HIDE DEF W
      <4>2. i = 1 /\ W = 1
        BY <4>1
      <4> QED
        BY <4>2 DEF W
    <3>4. waiters # <<>>
      BY <3>3
    <3> QED
      BY <1>10, <3>1, <3>3, <3>4
  <2> HIDE DEF c
  <2>5. /\ queue' = queue /\ calls' = [calls EXCEPT ![c] = "ok"] /\ got' = [got EXCEPT ![c] = m]
        /\ waiters' = Tail(waiters) /\ Len(waiters') = 0
    <3>1. waiters' = Tail(waiters) /\ Len(Tail(waiters)) = Len(waiters) - 1
      BY <1>1, <1>4, <2>4, TailIs DEF Shared
    <3> QED
      BY <1>4, <2>4, <3>1
  <2>6. /\ calls'[c] = "ok" /\ got'[c] = m
        /\ \A d \in Readers : d # c => calls'[d] = calls[d] /\ got'[d] = got[d]
    BY <1>1, <2>3, <2>5 DEF Shared
  <2>7. OneReader'
    <3>1. \A d \in Readers : calls'[d] \in {"idle", "waiting", "ok"} /\ (calls'[d] = "ok" => got'[d].for = d)
      <4>1. m.for = c
        BY <1>9 DEF c
      <4> QED
        BY <2>1, <2>6, <4>1 DEF Alone, OneReader
    <3> QED
      BY <2>1, <2>5, <3>1 DEF Alone, OneReader
  <2>8. ASSUME NEW t \in Streams, NEW i \in 1..Len(Flow(t)') PROVE ~Start(t, i)'
    <3>1. PICK d \in Nat : (t = s => d >= 1) /\ i + d \in 1..Len(Flow(t)) /\ Flow(t)'[i] = Flow(t)[i + d]
      BY <1>6
    <3>2. ~(t = s /\ i + d = 1)
      BY <3>1
    <3>3. ~Start(t, i + d)
      BY <1>7, <2>1, <2>2, <3>1, <3>2 DEF Alone, OneMessage
    <3> QED
      BY <3>1, <3>3 DEF Start
  <2>9. OneMessage'
    BY <2>8 DEF OneMessage
  <2>10. Numbered'
    <3>0. ids \in Seq([id : Nat, from : Call]) /\ Len(ids) \in Nat
      BY <1>1 DEF XTypeOK
    <3>1. \A n \in 1..Len(ids) : ids[n].from \in Readers /\ ids[n].id \in Nat
      <4>1. \A n \in 1..Len(ids) : ids[n] \in [id : Nat, from : Call]
        BY <3>0, ElementOfSeq
      <4> QED
        BY <4>1 DEF Readers
    <3>2. \A n \in 1..Len(ids) : calls'[ids[n].from] # "idle" /\ (calls'[ids[n].from] = "waiting" => n = Len(ids))
      BY <2>1, <2>6, <3>1 DEF Alone, Numbered
    <3>3. ASSUME NEW n \in 1..Len(ids) PROVE ids[n].id < msgId'[Root]
      <4>1. CASE s # Root
        BY <1>1, <2>1, <4>1 DEF Alone, Numbered, XTypeOK, Streams
      <4>2. CASE s = Root
        <5>1. ids # <<>>
          BY <3>3
        <5>2. c # Connector
          BY <2>3, <5>1 DEF Own, Phases
        <5>3. ids[Len(ids)].id = Flow(s)[1].m.id
          BY <2>2, <5>2 DEF Newest, c
        <5>4. Len(ids) \in 1..Len(ids) /\ (n = Len(ids) \/ n < Len(ids))
          BY <3>0, <3>3
        <5>5. ids[n].id <= ids[Len(ids)].id
          <6>1. n < Len(ids) => ids[n].id < ids[Len(ids)].id
            BY <2>1, <5>4 DEF Alone, Numbered
          <6>2. ids[n].id \in Nat /\ ids[Len(ids)].id \in Nat
            BY <3>1, <5>4
          <6> QED
            BY <5>4, <6>1, <6>2
        <5>6. msgId'[Root] = ids[Len(ids)].id + 1
          BY <1>1, <1>8, <4>2, <5>3 DEF NextId, XTypeOK
        <5>7. ids[n].id \in Nat /\ ids[Len(ids)].id \in Nat
          BY <3>1, <5>4
        <5> QED
          BY <5>5, <5>6, <5>7
      <4> QED
        BY <4>1, <4>2
    <3> QED
      BY <1>1, <2>1, <3>2, <3>3 DEF Alone, Numbered
  <2> QED
    BY <2>7, <2>9, <2>10 DEF Alone
<1> QED
  BY <1>11, <1>12, <1>13, <1>14 DEF Own

\* What the device sends goes behind what flows.
LEMMA SendFlow ==
  ASSUME XTypeOK, NEW for \in Readers \cup {None}, NEW id \in Nat, NEW s \in Streams, NEW cut \in Cuts,
         Send(for, id, s, cut)
  PROVE  /\ Flow(s)' = Flow(s) \o Cut([for |-> for, id |-> id, cut |-> cut])
         /\ \A t \in Streams : t # s => Flow(t)' = Flow(t)
<1> DEFINE m == [for |-> for, id |-> id, cut |-> cut]
           added == Cut(m)
<1>1. pend' = [pend EXCEPT ![s] = pend[s] \o added] /\ partial' = partial
  BY DEF Send
<1>2. added \in Seq(Pieces)
  <2>1. m \in Messages
    BY DEF Messages
  <2> HIDE DEF m
  <2>2. [m |-> m, part |-> 1] \in Pieces /\ [m |-> m, part |-> 2] \in Pieces
    BY <2>1 DEF Pieces
  <2> QED
    BY <2>2 DEF Cut
<1> HIDE DEF added
<1>3. partial[s] \in Seq(Pieces) /\ pend[s] \in Seq(Pieces)
  BY FlowIs
<1>4. pend'[s] = pend[s] \o added /\ \A t \in Streams : t # s => pend'[t] = pend[t]
  BY <1>1 DEF XTypeOK
<1>5. partial[s] \o (pend[s] \o added) = (partial[s] \o pend[s]) \o added
  <2> DEFINE a == partial[s]
             p == pend[s]
  <2>1. a \in Seq(Pieces) /\ p \in Seq(Pieces) /\ added \in Seq(Pieces)
    BY <1>2, <1>3
  <2> HIDE DEF a, p
  <2>2. a \o (p \o added) = (a \o p) \o added
    BY <2>1
  <2> QED
    BY <2>2 DEF a, p
<1>6. Flow(s)' = Flow(s) \o added
  BY <1>1, <1>4, <1>5 DEF Flow
<1>7. \A t \in Streams : t # s => Flow(t)' = Flow(t)
  BY <1>1, <1>4 DEF Flow
<1> QED
  BY <1>6, <1>7 DEF added, m

\* A message behind well-cut ones.
Behind(q, m, r) ==
  /\ Len(q) \in Nat /\ Len(r) \in Nat /\ Len(r) >= Len(q) + 1
  /\ \A i \in 1..Len(q) : r[i] = q[i]
  /\ r[Len(q) + 1] = [m |-> m, part |-> 1]
  /\ IF m.cut \in Uncut THEN Len(r) = Len(q) + 1
     ELSE Len(r) = Len(q) + 2 /\ r[Len(q) + 2] = [m |-> m, part |-> 2]

\* Cut puts a message, or its two pieces, at the end.
LEMMA AddedIs ==
  ASSUME NEW q \in Seq(Pieces), NEW m \in Messages
  PROVE  Behind(q, m, q \o Cut(m))
<1>1. [m |-> m, part |-> 1] \in Pieces /\ [m |-> m, part |-> 2] \in Pieces
  BY DEF Pieces
<1>2. CASE m.cut \in Uncut
  BY <1>1, <1>2 DEF Cut, Behind
<1>3. CASE m.cut \notin Uncut
  BY <1>1, <1>3 DEF Cut, Behind
<1> QED
  BY <1>2, <1>3

\* A message behind well-cut ones leaves the stream well cut.
LEMMA AddedWellCut ==
  ASSUME NEW q, NEW m, NEW r, Behind(q, m, r), WellCut(q)
  PROVE  WellCut(r)
<1> DEFINE n == Len(q)
           w == Len(r)
<1>1. /\ n \in Nat /\ w \in Nat /\ w >= n + 1
      /\ \A i \in 1..n : r[i] = q[i]
      /\ r[n + 1] = [m |-> m, part |-> 1]
      /\ IF m.cut \in Uncut THEN w = n + 1 ELSE w = n + 2 /\ r[n + 2] = [m |-> m, part |-> 2]
  BY DEF Behind
<1>2. \A i \in 1..n :
        /\ q[i].part = 1 /\ q[i].m.cut \notin Uncut => i + 1 <= n /\ q[i + 1] = [m |-> q[i].m, part |-> 2]
        /\ q[i].part = 2 => i > 1 /\ q[i - 1].part = 1 /\ q[i - 1].m.cut \notin Uncut
  BY DEF WellCut
<1> HIDE DEF n, w
<1>3. ASSUME NEW i \in 1..w
      PROVE  /\ r[i].part = 1 /\ r[i].m.cut \notin Uncut => i + 1 <= w /\ r[i + 1] = [m |-> r[i].m, part |-> 2]
             /\ r[i].part = 2 => i > 1 /\ r[i - 1].part = 1 /\ r[i - 1].m.cut \notin Uncut
  <2>1. CASE i \in 1..n
    <3>1. r[i] = q[i]
      BY <1>1, <2>1
    <3>2. ASSUME r[i].part = 1, r[i].m.cut \notin Uncut
          PROVE  i + 1 <= w /\ r[i + 1] = [m |-> r[i].m, part |-> 2]
      <4>1. i + 1 <= n /\ q[i + 1] = [m |-> q[i].m, part |-> 2]
        BY <1>2, <2>1, <3>1, <3>2
      <4>2. i + 1 \in 1..n /\ i + 1 <= w
        BY <1>1, <2>1, <4>1
      <4> QED
        BY <1>1, <3>1, <4>1, <4>2
    <3>3. ASSUME r[i].part = 2 PROVE i > 1 /\ r[i - 1].part = 1 /\ r[i - 1].m.cut \notin Uncut
      <4>1. i > 1 /\ q[i - 1].part = 1 /\ q[i - 1].m.cut \notin Uncut
        BY <1>2, <2>1, <3>1, <3>3
      <4>2. i - 1 \in 1..n
        BY <1>1, <2>1, <4>1
      <4> QED
        BY <1>1, <4>1, <4>2
    <3> QED
      BY <3>2, <3>3
  <2>2. CASE i = n + 1
    <3>1. r[i].part = 1 /\ r[i].m = m
      BY <1>1, <2>2
    <3>2. m.cut \notin Uncut => i + 1 <= w /\ r[i + 1] = [m |-> m, part |-> 2]
      <4>1. i + 1 = n + 2
        BY <1>1, <2>2
      <4> QED
        BY <1>1, <4>1
    <3> QED
      BY <3>1, <3>2
  <2>3. CASE m.cut \notin Uncut /\ i = n + 2
    <3>1. r[i].part = 2 /\ i - 1 = n + 1 /\ i > 1
      BY <1>1, <2>3
    <3>2. r[i - 1].part = 1 /\ r[i - 1].m = m
      BY <1>1, <3>1
    <3> QED
      BY <2>3, <3>1, <3>2
  <2>4. i \in 1..n \/ i = n + 1 \/ (m.cut \notin Uncut /\ i = n + 2)
    BY <1>1
  <2> QED
    BY <2>1, <2>2, <2>3, <2>4
<1> QED
  BY <1>3 DEF WellCut, w

\* Who is waiting, when one waits at most.
LEMMA OneWaiter ==
  ASSUME IInv, OneReader, NEW c \in Readers, NEW d \in Readers, calls[c] = "waiting", calls[d] = "waiting"
  PROVE  c = d
<1> DEFINE w == Len(waiters)
<1>1. w \in Nat /\ w <= 1
  BY SharedTypes DEF IInv, OneReader, Shared
<1>2. PICK i \in 1..w : waiters[i] = c
  BY DEF IInv, Line
<1>3. PICK j \in 1..w : waiters[j] = d
  BY DEF IInv, Line
<1> HIDE DEF w
<1>4. i = j
  BY <1>1
<1> QED
  BY <1>2, <1>3, <1>4

\* Nobody answers a reader twice.
LEMMA Unanswered ==
  ASSUME XTypeOK, NEW c, ~Answered(c)
  PROVE  /\ \A t \in Streams : \A i \in 1..Len(Flow(t)) : Flow(t)[i].m.for # c
         /\ \A r \in Readers : got[r].for # c
<1>1. ASSUME NEW t \in Streams, NEW i \in 1..Len(Flow(t)) PROVE Flow(t)[i].m.for # c
  <2> DEFINE a == partial[t]
             p == pend[t]
             pa == p \o a
             f == Flow(t)
  <2>1. a \in Seq(Pieces) /\ p \in Seq(Pieces) /\ f = a \o p /\ i \in 1..Len(f)
    BY FlowIs DEF Flow
  <2>2. \A x \in ToSet(pa) : x.m.for # c
    BY DEF Answered
  <2> HIDE DEF a, p, f
  <2>3. \E j \in 1..Len(pa) : pa[j] = f[i]
    <3>1. /\ Len(a) \in Nat /\ Len(p) \in Nat /\ Len(f) = Len(a) + Len(p) /\ Len(pa) = Len(p) + Len(a)
          /\ Part(a, f, 0) /\ Part(p, f, Len(a)) /\ Part(p, pa, 0) /\ Part(a, pa, Len(p))
      BY <2>1, ConcatIs
    <3> HIDE DEF pa
    <3>2. CASE i \in 1..Len(a)
      <4>1. i + Len(p) \in 1..Len(pa) /\ i + 0 = i
        BY <2>1, <3>1, <3>2
      <4>2. f[i] = a[i] /\ pa[i + Len(p)] = a[i]
        BY <3>1, <3>2, <4>1 DEF Part
      <4> QED
        BY <4>1, <4>2
    <3>3. CASE i \notin 1..Len(a)
      <4> DEFINE j == i - Len(a)
                 la == Len(a)
                 lp == Len(p)
                 lpa == Len(pa)
                 lf == Len(f)
      <4>1. i \in 1..lf /\ i \notin 1..la /\ la \in Nat /\ lp \in Nat /\ lf = la + lp /\ lpa = lp + la
        BY <2>1, <3>1, <3>3
      <4>2. j \in 1..lp /\ j \in 1..lpa /\ j + la = i /\ j + 0 = j
        <5>1. i \in 1..lf /\ j = i - la
          BY <4>1
        <5> HIDE DEF la, lp, lpa, lf, j
        <5> QED
          BY <4>1, <5>1
      <4> HIDE DEF j
      <4>3. f[i] = p[j] /\ pa[j] = p[j]
        BY <3>1, <4>2 DEF Part
      <4> QED
        BY <4>2, <4>3
    <3> QED
      BY <3>2, <3>3
  <2>4. DOMAIN pa = 1..Len(pa)
    <3>1. pa \in Seq(Pieces)
      BY <2>1, ConcatIs
    <3> QED
      BY <3>1
  <2>5. f[i] \in ToSet(pa)
    BY <2>3, <2>4 DEF ToSet
  <2> QED
    BY <2>2, <2>5 DEF f
<1> QED
  BY <1>1 DEF Answered

\* Steps keep what readers own: what the device sends.
LEMMA OwnSend ==
  ASSUME IInv, Own, DeviceSends
  PROVE  Own'
<1>1. XTypeOK /\ ids \in Seq([id : Nat, from : Call]) /\ DOMAIN ids = 1..Len(ids)
  BY DEF IInv, XTypeOK
<1>2. \A k \in 1..Len(ids) : ids[k].from \in Call /\ ids[k].id \in Nat
  <2>1. \A k \in 1..Len(ids) : ids[k] \in [id : Nat, from : Call]
    BY <1>1, ElementOfSeq
  <2> QED
    BY <2>1
<1>3. PICK for \in Readers \cup {None}, id \in Nat, s \in Streams, cut \in Cuts :
        /\ Send(for, id, s, cut) /\ (cut = "bare" => for = None)
        /\ \/ for = None
           \/ for = Connector /\ phase = "handshake" /\ ~Answered(for)
           \/ ~Answered(for) /\ \E k \in 1..Len(ids) : ids[k].from = for /\ ids[k].id = id
  <2>1. PICK s \in Streams, cut \in Cuts :
          \/ /\ cut # "bare"
             /\ \/ phase = "handshake" /\ ~Answered(Connector) /\ Send(Connector, 0, s, cut)
                \/ \E k \in DOMAIN ids : ~Answered(ids[k].from) /\ Send(ids[k].from, ids[k].id, s, cut)
          \/ Send(None, 0, s, cut)
    BY DEF DeviceSends, Cuts
  <2>2. CASE cut # "bare" /\ phase = "handshake" /\ ~Answered(Connector) /\ Send(Connector, 0, s, cut)
    BY <2>2 DEF Readers
  <2>3. ASSUME NEW k \in DOMAIN ids, ~Answered(ids[k].from), Send(ids[k].from, ids[k].id, s, cut)
        PROVE  \E for \in Readers \cup {None}, id \in Nat :
                 Send(for, id, s, cut) /\ ~Answered(for) /\ \E n \in 1..Len(ids) : ids[n].from = for /\ ids[n].id = id
    BY <1>1, <1>2, <2>3 DEF Readers
  <2>4. CASE Send(None, 0, s, cut)
    BY <2>4
  <2>5. CASE cut # "bare" /\ \E k \in DOMAIN ids : ~Answered(ids[k].from) /\ Send(ids[k].from, ids[k].id, s, cut)
    BY <2>3, <2>5
  <2> QED
    BY <2>1, <2>2, <2>4, <2>5
<1> DEFINE m == [for |-> for, id |-> id, cut |-> cut]
           q == Flow(s)
           n == Len(q)
<1>4. /\ sock = "open" /\ loose' = (loose \/ (for = None /\ cut # "bare"))
      /\ UNCHANGED <<phase, sock, msgId, partial, waiters, queue, calls, got, ids, lossy>>
  BY <1>3 DEF Send
<1>5. m \in Messages /\ m.for = for /\ m.id = id /\ m.cut = cut /\ q \in Seq(Pieces)
  BY <1>1, FlowIs DEF Messages
<1>6. Flow(s)' = q \o Cut(m) /\ \A t \in Streams : t # s => Flow(t)' = Flow(t)
  BY <1>1, <1>3, SendFlow
<1> HIDE DEF m, q
<1>10. Behind(q, m, Flow(s)')
  BY <1>5, <1>6, AddedIs
<1>7. ASSUME NEW t \in Streams \ lossy' PROVE Kept(t)'
  <2>1. Kept(t) /\ sock' = "open" /\ partial' = partial
    BY <1>4 DEF Own
  <2>2. CASE t = s
    <3>1. WellCut(q)
      BY <1>4, <2>1, <2>2 DEF Kept, q
    <3>2. WellCut(Flow(s)')
      BY <1>10, <3>1, AddedWellCut
    <3> QED
      BY <2>1, <2>2, <3>2 DEF Kept, WellCut
  <2>3. CASE t # s
    BY <1>4, <1>6, <2>1, <2>3 DEF Kept
  <2> QED
    BY <2>2, <2>3
<1>8. Phases' /\ Handed'
  BY <1>4 DEF Own, Phases, Handed
<1>9. ASSUME ~loose', cut # "bare" PROVE Alone'
  <2>1. Alone /\ for # None /\ for \in Readers /\ Phases
    BY <1>3, <1>4, <1>9 DEF Own
  <2>2. ~Answered(for)
    BY <1>3, <2>1
  <2>3. calls[for] = "waiting" /\ (for # Connector => ids # <<>> /\ ids[Len(ids)].id = id)
    <3>1. CASE for = Connector /\ phase = "handshake"
      BY <2>1, <3>1 DEF Phases
    <3>2. ASSUME NEW k \in 1..Len(ids), ids[k].from = for, ids[k].id = id
          PROVE  calls[for] = "waiting" /\ ids # <<>> /\ ids[Len(ids)].id = id
      <4>1. calls[for] # "idle" /\ (calls[for] = "waiting" => k = Len(ids))
        BY <2>1, <3>2 DEF Alone, Numbered
      <4>2. calls[for] # "ok"
        <5>1. got[for].for # for
          BY <1>1, <2>1, <2>2, Unanswered
        <5> QED
          BY <2>1, <5>1 DEF Alone, OneReader
      <4>3. calls[for] = "waiting"
        BY <2>1, <4>1, <4>2 DEF Alone, OneReader
      <4>4. ids # <<>>
        BY <1>1, <3>2
      <4> QED
        BY <3>2, <4>1, <4>3, <4>4
    <3> QED
      BY <1>3, <2>1, <3>1, <3>2
  <2>4. \A t \in Streams : \A i \in 1..Len(Flow(t)) : ~Start(t, i)
    <3> SUFFICES ASSUME NEW t \in Streams, NEW i \in 1..Len(Flow(t)), Start(t, i) PROVE FALSE
      OBVIOUS
    <3>1. Flow(t)[i].m.for \in Readers /\ calls[Flow(t)[i].m.for] = "waiting"
      BY <2>1 DEF Alone, OneMessage, Newest
    <3>2. Flow(t)[i].m.for = for
      BY <2>1, <2>3, <3>1, OneWaiter DEF Alone
    <3> QED
      BY <1>1, <2>2, <3>2, Unanswered
  <2>5. ASSUME NEW t \in Streams, NEW i \in 1..Len(Flow(t)'), Start(t, i)'
        PROVE  t = s /\ i = n + 1 /\ Newest(Flow(t)[i].m)'
    <3>1. t = s
      BY <1>6, <2>4, <2>5 DEF Start
    <3> DEFINE r == Flow(s)'
               w == Len(r)
    <3>2. /\ n \in Nat /\ w \in Nat
          /\ \A j \in 1..n : r[j] = q[j]
          /\ r[n + 1] = [m |-> m, part |-> 1]
          /\ IF m.cut \in Uncut THEN w = n + 1 ELSE w = n + 2 /\ r[n + 2] = [m |-> m, part |-> 2]
      BY <1>10 DEF Behind
    <3>3. i \in 1..w /\ r[i].part = 1 /\ r[i].m.cut # "bare"
      BY <2>5, <3>1 DEF Start
    <3>4. \A j \in 1..n : ~(q[j].part = 1 /\ q[j].m.cut # "bare")
      BY <2>4 DEF Start, q
    <3> HIDE DEF r, w, n
    <3>5. i = n + 1
      <4>1. i \in 1..n \/ i = n + 1 \/ (m.cut \notin Uncut /\ i = n + 2)
        BY <3>2, <3>3
      <4>2. i \notin 1..n
        BY <3>2, <3>3, <3>4
      <4>3. ~(m.cut \notin Uncut /\ i = n + 2)
        BY <3>2, <3>3
      <4> QED
        BY <4>1, <4>2, <4>3
    <3>6. r[i].m = m
      BY <3>2, <3>5
    <3>7. Flow(t)'[i].m = m
      BY <3>1, <3>6 DEF r
    <3> QED
      BY <1>4, <1>5, <2>1, <2>3, <3>1, <3>5, <3>7 DEF Newest
  <2>6. OneMessage'
    BY <2>5 DEF OneMessage
  <2>7. OneReader' /\ Numbered'
    BY <1>4, <2>1 DEF Alone, OneReader, Numbered
  <2> QED
    BY <2>6, <2>7 DEF Alone
<1>11. ASSUME ~loose', cut = "bare" PROVE Alone'
  <2>1. Alone
    BY <1>4, <1>11 DEF Own
  <2>2. ASSUME NEW t \in Streams, NEW i \in 1..Len(Flow(t)'), Start(t, i)'
        PROVE  i \in 1..Len(Flow(t)) /\ Flow(t)'[i] = Flow(t)[i] /\ Start(t, i)
    <3>1. CASE t = s
      <4> DEFINE f == Flow(s)'
                 w == Len(f)
      <4>1. /\ n \in Nat /\ w = n + 1
            /\ \A j \in 1..n : f[j] = q[j]
            /\ f[n + 1].m = m
        BY <1>5, <1>10, <1>11 DEF Behind, Uncut
      <4>2. i \in 1..w /\ f[i].m.cut # "bare"
        BY <2>2, <3>1 DEF Start
      <4> HIDE DEF f, w, n
      <4>3. i \in 1..n
        BY <1>5, <1>11, <4>1, <4>2
      <4>4. f[i] = q[i]
        BY <4>1, <4>3
      <4> QED
        BY <2>2, <3>1, <4>3, <4>4 DEF f, q, n, Start
    <3>2. CASE t # s
      BY <1>6, <2>2, <3>2 DEF Start
    <3> QED
      BY <3>1, <3>2
  <2>3. OneMessage'
    <3>1. ASSUME NEW t \in Streams, NEW i \in 1..Len(Flow(t)'), Start(t, i)' PROVE Newest(Flow(t)[i].m)'
      <4>1. Newest(Flow(t)[i].m) /\ Flow(t)'[i] = Flow(t)[i]
        BY <2>1, <2>2, <3>1 DEF Alone, OneMessage
      <4> QED
        BY <1>4, <4>1 DEF Newest
    <3>2. ASSUME NEW t \in Streams, NEW u \in Streams, NEW i \in 1..Len(Flow(t)'), NEW j \in 1..Len(Flow(u)'),
                 Start(t, i)', Start(u, j)'
          PROVE  t = u /\ i = j
      BY <2>1, <2>2, <3>2 DEF Alone, OneMessage
    <3> QED
      BY <3>1, <3>2 DEF OneMessage
  <2>4. OneReader' /\ Numbered'
    BY <1>4, <2>1 DEF Alone, OneReader, Numbered
  <2> QED
    BY <2>3, <2>4 DEF Alone
<1> QED
  BY <1>7, <1>8, <1>9, <1>11 DEF Own

\* Steps keep what readers own: connect() reads, with nothing sent yet.
LEMMA OwnDialed ==
  ASSUME IInv, Own, Dialed
  PROVE  Own'
<1>1. XTypeOK /\ Shared /\ Phases /\ Handed /\ phase = "dialing" /\ Connector \in Readers
  BY SharedTypes DEF IInv, Own, Dialed, Readers
<1>2. queue = <<>> /\ waiters = <<>> /\ sock = "none" /\ ids = <<>>
  BY <1>1 DEF Phases
<1>3. /\ phase' = "handshake" /\ sock' = "open"
      /\ waiters' = <<Connector>> /\ calls' = [calls EXCEPT ![Connector] = "waiting"]
      /\ UNCHANGED <<pend, partial, ids, lossy, loose, got, queue>>
  BY <1>2 DEF Dialed, ReceiveResponse
<1>4. \A s \in Streams : Len(Flow(s)) = 0 /\ Len(Flow(s)') = 0
  BY <1>1, <1>2, <1>3 DEF Phases, Flow
<1>5. /\ calls'[Connector] = "waiting"
      /\ \A c \in Readers : c # Connector => calls'[c] = calls[c]
  BY <1>1, <1>3 DEF Shared
<1>6. \A s \in Streams \ lossy' : Kept(s)'
  BY <1>3, <1>4 DEF Own, Kept, WellCut
<1>7. Phases' /\ Handed'
  BY <1>1, <1>2, <1>3, <1>5 DEF Phases, Handed
<1>8. ~loose' => Alone'
  <2>1. Len(waiters') = 1 /\ Len(ids) = 0
    BY <1>2, <1>3
  <2> QED
    BY <1>2, <1>3, <1>4, <1>5, <2>1 DEF Own, Alone, OneReader, OneMessage, Numbered
<1> QED
  BY <1>6, <1>7, <1>8 DEF Own

\* Steps keep what readers own: a request.
LEMMA OwnRequest ==
  ASSUME IInv, Own, NEW c \in Call, Request(c)
  PROVE  Own'
<1>1. XTypeOK /\ Shared /\ Phases /\ Handed /\ phase = "ready" /\ c \in Readers /\ c # Connector
      /\ Connector \in Readers /\ calls[c] = "idle"
  BY CallAssumption, SharedTypes DEF IInv, Own, Request, Readers
<1>2. /\ UNCHANGED <<phase, sock, pend, partial, lossy>> /\ ReceiveResponse(c)
      /\ ids' = Append(ids, [id |-> msgId[Root], from |-> c])
      /\ msgId' = [msgId EXCEPT ![Root] = @ + 1]
      /\ loose' = (loose \/ waiters # <<>> \/ queue # <<>>)
  BY DEF Request
<1>3. \A s : Flow(s)' = Flow(s)
  BY <1>2 DEF Flow
<1>4. /\ calls'[c] \in {"ok", "waiting"}
      /\ \A d \in Readers : d # c => calls'[d] = calls[d] /\ got'[d] = got[d]
  BY <1>1, <1>2 DEF ReceiveResponse, Shared
<1>5. \A s \in Streams \ lossy' : Kept(s)'
  BY <1>2, <1>3 DEF Own, Kept
<1>6. Phases'
  <2>1. calls'[Connector] = calls[Connector]
    BY <1>1, <1>4
  <2> QED
    BY <1>1, <1>2, <1>3, <2>1 DEF Phases
<1>7. Handed'
  <2>1. CASE queue # <<>>
    <3>1. got' = [got EXCEPT ![c] = Head(queue)] /\ queue' = Tail(queue)
      BY <1>2, <2>1 DEF ReceiveResponse
    <3>2. /\ Head(queue) = queue[1] /\ 1 \in 1..Len(queue) /\ Len(queue') = Len(queue) - 1
          /\ Len(queue) \in Nat /\ \A i \in 1..(Len(queue) - 1) : queue'[i] = queue[i + 1]
      BY <1>1, <2>1, <3>1, TailIs DEF Shared
    <3>3. got'[c].whole \/ got'[c].cut \in Endings
      BY <1>1, <3>1, <3>2 DEF Handed, Shared
    <3>4. \A i \in 1..Len(queue') : i + 1 \in 1..Len(queue) /\ queue'[i] = queue[i + 1]
      BY <3>2
    <3> QED
      BY <1>1, <1>4, <3>3, <3>4 DEF Handed
  <2>2. CASE queue = <<>>
    <3>1. calls'[c] = "waiting" /\ got' = got /\ queue' = queue
      BY <1>1, <1>2, <2>2 DEF ReceiveResponse, Shared
    <3> QED
      BY <1>1, <1>4, <3>1 DEF Handed
  <2> QED
    BY <2>1, <2>2
<1>8. ASSUME ~loose' PROVE Alone'
  <2>1. Alone /\ waiters = <<>> /\ queue = <<>>
    BY <1>2, <1>8 DEF Own
  <2>2. waiters' = <<c>> /\ calls'[c] = "waiting" /\ got' = got /\ queue' = <<>>
    BY <1>1, <1>2, <2>1 DEF ReceiveResponse, Shared
  <2>3. \A d \in Readers : calls[d] # "waiting"
    <3>1. Len(waiters) = 0
      BY <2>1
    <3> QED
      BY <3>1 DEF IInv, Line
  <2>4. OneReader'
    <3>1. Len(waiters') = 1
      BY <2>2
    <3> QED
      BY <1>4, <2>1, <2>2, <3>1 DEF Alone, OneReader
  <2>5. \A s \in Streams : \A i \in 1..Len(Flow(s)) : ~Start(s, i)
    BY <2>1, <2>3 DEF Alone, OneMessage, Newest
  <2>6. OneMessage'
    BY <1>3, <2>5 DEF OneMessage, Start
  <2>7. Numbered'
    <3> DEFINE e == [id |-> msgId[Root], from |-> c]
               E == [id : Nat, from : Call]
               n == Len(ids)
               w == Len(ids')
    <3>1. msgId[Root] \in Nat /\ msgId'[Root] = msgId[Root] + 1
      BY <1>1, <1>2 DEF XTypeOK, Streams
    <3>2. ids \in Seq(E) /\ e \in E
      BY <1>1, <3>1 DEF XTypeOK
    <3>3. n \in Nat /\ w = n + 1 /\ (\A k \in 1..n : ids'[k] = ids[k] /\ ids[k] \in E) /\ ids'[n + 1] = e
      <4> HIDE DEF E, e
      <4>1. ids' = Append(ids, e)
        BY <1>2 DEF e
      <4>2. \A k \in 1..n : ids[k] \in E
        BY <3>2, ElementOfSeq
      <4> QED
        BY <3>2, <4>1, <4>2, AppendIs
    <3>4. \A k \in 1..n : ids[k].from \in Readers /\ ids[k].id \in Nat
      BY <3>3 DEF Readers
    <3>5. /\ \A k \in 1..n : calls[ids[k].from] # "idle" /\ ids[k].id < msgId[Root]
          /\ \A j, k \in 1..n : j < k => ids[j].id < ids[k].id
      BY <2>1 DEF Alone, Numbered
    <3> HIDE DEF n, w
    <3>6. \A k \in 1..w : k \in 1..n \/ k = n + 1
      BY <3>3
    <3>7. \A k \in 1..w : calls'[ids'[k].from] # "idle" /\ (calls'[ids'[k].from] = "waiting" => k = w)
      <4>1. \A k \in 1..n : ids[k].from # c /\ calls'[ids[k].from] = calls[ids[k].from] /\ calls[ids[k].from] # "waiting"
        BY <1>1, <1>4, <2>3, <3>4, <3>5
      <4> QED
        BY <2>2, <3>3, <3>5, <3>6, <4>1
    <3>8. \A k \in 1..w : ids'[k].id < msgId'[Root]
      BY <3>1, <3>3, <3>4, <3>5, <3>6
    <3>9. ASSUME NEW j \in 1..w, NEW k \in 1..w, j < k PROVE ids'[j].id < ids'[k].id
      <4>1. j \in 1..n
        BY <3>3, <3>9
      <4>2. CASE k \in 1..n
        BY <3>3, <3>5, <3>9, <4>1, <4>2
      <4>3. CASE k = n + 1
        <5>1. ids'[j] = ids[j] /\ ids'[k].id = msgId[Root]
          BY <3>3, <4>1, <4>3
        <5> QED
          BY <3>5, <4>1, <5>1
      <4> QED
        BY <3>6, <4>2, <4>3
    <3> QED
      BY <3>7, <3>8, <3>9 DEF Numbered, w
  <2> QED
    BY <2>4, <2>6, <2>7 DEF Alone
<1> QED
  BY <1>5, <1>6, <1>7, <1>8 DEF Own

\* Steps keep what readers own: a timer.
LEMMA OwnTimeout ==
  ASSUME IInv, Own, NEW c \in Readers, Timeout(c)
  PROVE  Own'
<1>1. XTypeOK /\ Shared /\ Phases /\ Handed
  BY SharedTypes DEF IInv, Own
<1>2. /\ LeavesLine(c) /\ calls' = [calls EXCEPT ![c] = "timeout"] /\ ConnectReturns(calls') /\ loose' = TRUE
      /\ UNCHANGED <<sock, pend, partial, queue, got, ids, lossy>>
      /\ UNCHANGED <<queue, handed, decoded, got>>
  BY DEF Timeout
<1>3. calls[c] = "waiting"
  BY <1>2, Leaves
<1>4. \A s : Flow(s)' = Flow(s)
  BY <1>2 DEF Flow
<1>5. waiters # <<>>
  BY <1>1, <1>2 DEF LeavesLine, Shared
<1>6. calls'[Connector] = calls[Connector] \/ (calls[Connector] = "waiting" /\ calls'[Connector] \in {"ok", "empty", "timeout"})
  BY <1>1, <1>2, <1>3 DEF Shared
<1>7. /\ phase' = "handshake" <=> calls'[Connector] = "waiting"
      /\ phase' # phase => phase = "handshake" /\ phase' \in {"ready", "failed"}
  BY <1>1, <1>2, <1>6, PhaseIs
<1>8. Phases'
  BY <1>1, <1>2, <1>4, <1>5, <1>7 DEF Phases
<1>9. Handed'
  BY <1>1, <1>2 DEF Handed, Shared
<1>10. \A s \in Streams \ lossy' : Kept(s)'
  BY <1>2, <1>4 DEF Own, Kept
<1> QED
  BY <1>2, <1>8, <1>9, <1>10 DEF Own

\* Steps keep what readers own: the socket ends.
LEMMA OwnEnd ==
  ASSUME IInv, Own, OnClose \/ Close
  PROVE  Own'
<1>1. XTypeOK /\ Shared /\ Phases /\ Handed /\ Connector \in Readers
  BY SharedTypes DEF IInv, Own, Readers
<1>2. /\ WakeAll /\ sock \in {"open", "null"} /\ sock' \in {"closed", "null"} /\ loose' = TRUE
      /\ UNCHANGED <<partial, queue, got, ids, lossy>>
  BY DEF OnClose, Close
<1>3. /\ calls' = [c \in Readers |-> IF c \in ToSet(waiters) THEN "empty" ELSE calls[c]]
      /\ ConnectReturns(calls')
  BY <1>2 DEF WakeAll
<1>4. \A c \in ToSet(waiters) : calls[c] = "waiting"
  BY <1>1 DEF IInv, Line, Shared, ToSet
<1>5. calls'[Connector] = calls[Connector] \/ (calls[Connector] = "waiting" /\ calls'[Connector] \in {"ok", "empty", "timeout"})
  BY <1>1, <1>3, <1>4
<1>6. /\ phase' = "handshake" <=> calls'[Connector] = "waiting"
      /\ phase' # phase => phase = "handshake" /\ phase' \in {"ready", "failed"}
  BY <1>1, <1>3, <1>5, PhaseIs
<1>7. Phases'
  BY <1>1, <1>2, <1>6 DEF Phases
<1>8. Handed'
  BY <1>1, <1>2, <1>3 DEF Handed
<1>9. \A s \in Streams \ lossy' : Kept(s)'
  BY <1>2 DEF Own, Kept
<1> QED
  BY <1>2, <1>7, <1>8, <1>9 DEF Own

\* Steps keep what readers own: those that leave pieces and readers alone.
LEMMA OwnSame ==
  ASSUME Own, Phases', UNCHANGED <<sock, msgId, pend, partial, waiters, queue, calls, got, ids, lossy, loose>>
  PROVE  Own'
<1>1. \A s : Flow(s)' = Flow(s)
  BY DEF Flow
<1>2. \A s \in Streams \ lossy' : Kept(s)'
  BY <1>1 DEF Own, Kept
<1>3. Handed'
  BY DEF Own, Handed
<1>4. ~loose' => OneReader' /\ Numbered'
  BY DEF Own, Alone, OneReader, Numbered
<1>5. ~loose' => OneMessage'
  BY <1>1 DEF Own, Alone, OneMessage, Start, Newest
<1> QED
  BY <1>2, <1>3, <1>4, <1>5 DEF Own, Alone

\* Steps keep what readers own.
LEMMA OwnKept == IInv /\ Own /\ [Next]_vars => Own'
<1> SUFFICES ASSUME IInv, Own, [Next]_vars PROVE Own'
  OBVIOUS
<1>1. CASE UNCHANGED xvars
  <2>1. UNCHANGED <<phase, sock, msgId, pend, partial, waiters, queue, calls, got, ids, lossy, loose>>
    BY <1>1 DEF xvars
  <2>2. Phases'
    BY <2>1 DEF Own, Phases, Flow
  <2> QED
    BY <2>1, <2>2, OwnSame
<1>2. CASE Dial \/ DialFails \/ SocketError
  <2>1. /\ UNCHANGED <<sock, msgId, pend, partial, waiters, queue, calls, got, ids, lossy, loose>>
        /\ \/ phase = "new" /\ phase' = "dialing"
           \/ phase = "dialing" /\ phase' = "failed"
           \/ phase' = phase
    BY <1>2 DEF Dial, DialFails, SocketError
  <2>2. Phases'
    BY <2>1 DEF Own, Phases, Flow
  <2> QED
    BY <2>1, <2>2, OwnSame
<1>3. ASSUME NEW s \in Streams, NEW k \in 1..2, HandleFrame(s, k) PROVE Own'
  <2>1. Outcome(s, k) \in {"throw", "null", "message"}
    BY DEF Outcome, Decode
  <2> QED
    BY <1>3, <2>1, OwnThrow, OwnNull, OwnMessage
<1>4. CASE XNext
  BY <1>2, <1>3, <1>4, OwnDialed, OwnRequest, OwnTimeout, OwnEnd, OwnSend DEF XNext
<1>5. CASE Next
  BY <1>1, <1>4, <1>5 DEF Next, StartService, ServiceDialed, ServiceDialFails, CheckinWritten, ServiceError,
        ServiceClose, ServiceChunk
<1> QED
  BY <1>1, <1>5 DEF vars

\* A reader gets whole messages, a stream that lost nothing keeps the start of one, and
\* requests made one after the other get their own replies and ids, for any number of
\* readers and messages, however they are cut and framed on the two streams.
THEOREM OwnResponseTheorem == Spec => []OwnResponse
<1>1. Init => Own
  <2> SUFFICES ASSUME Init PROVE Own
    OBVIOUS
  <2>1. \A s \in Streams : Len(partial[s]) = 0 /\ Len(Flow(s)) = 0
    BY DEF Init, XInit, Flow
  <2>2. \A s \in Streams : Kept(s)
    BY <2>1 DEF Kept, WellCut
  <2>3. Phases /\ Handed
    BY <2>1 DEF Init, XInit, Phases, Handed, Readers
  <2>4. Alone
    BY <2>1 DEF Init, XInit, Alone, OneReader, OneMessage, Numbered
  <2> QED
    BY <2>2, <2>3, <2>4 DEF Own
<1> QED
  BY <1>1, OwnKept, OwnImplied, Invariance, PTL DEF Spec
=============================================================================
