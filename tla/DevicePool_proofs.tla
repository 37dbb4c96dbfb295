--------------------------- MODULE DevicePool_proofs ---------------------------
(* What holds of every number of serials and of device ids, plugged in and   *)
(* out in whatever order.                                                     *)
EXTENDS DevicePool, FiniteSetTheorems, SequenceTheorems, TLAPS

\* A new Map has no entry.
LEMMA EmptyDomain == DOMAIN Empty = {}
BY DEF Empty

Message == [type : {"Attached", "Detached"}, dev : ever]

\* The pool listens after it has listed, and not once it is closed.
Phases ==
  /\ phase \in {"new", "listed"} => socket = "none"
  /\ phase \in {"new", "listed", "failed"} => socket # "open" /\ loop = "off"
  /\ phase = "closed" => socket = "gone" /\ ~bonjour
  /\ loop # "running" => held = <<>>
  /\ phase # "closed" => raised = 0
  /\ raised # 0 => held = <<>>
  /\ IsFiniteSet(present)

\* What the loop has still to apply, in order: what it holds, then the queue.
coming == held \o queue

\* A device id is never used again.
DetachedGone == \A i \in 1..Len(coming) : coming[i].type = "Detached" => coming[i].dev \notin present

\* The messages that are coming about a serial and about a device.
Attaches(i, s) == coming[i].type = "Attached" /\ SerialOf[coming[i].dev] = s
NoAttach(s) == \A i \in 1..Len(coming) : ~Attaches(i, s)
Says(i, type, d) == coming[i].type = type /\ coming[i].dev = d

\* While an Attached message about a serial waits, that of its latest transport
\* does, and none about the serial comes after it.
Pending(s) ==
  /\ latest[s] # None => SerialOf[latest[s]] = s
  /\ \A i \in 1..Len(coming) : Attaches(i, s) =>
       latest[s] # None /\ \E j \in 1..Len(coming) : j >= i /\ Says(j, "Attached", latest[s])

\* When the latest transport is gone, its Detached message waits behind every
\* Attached message about the serial, or has been applied.
Departure(s) ==
  latest[s] # None /\ latest[s] \notin present =>
    \/ \E j \in 1..Len(coming) : /\ Says(j, "Detached", latest[s])
                                /\ \A i \in 1..Len(coming) : Attaches(i, s) => i < j
    \/ NoAttach(s) /\ Shown(s) \in {None, Bonjour}

\* With no Attached message about the serial waiting, what is shown is the latest
\* transport, or nothing of usbmux, or a device of the list that has gone.
Display(s) ==
  NoAttach(s) =>
    /\ latest[s] = None => Shown(s) \in {None, Bonjour} \/ Shown(s) \notin present
    /\ latest[s] # None => Shown(s) \in {latest[s], None, Bonjour}
    /\ latest[s] # None /\ latest[s] \in present => Shown(s) = latest[s]

Stream ==
  loop = "running" /\ socket = "open" => \A s \in Serial : Pending(s) /\ Departure(s) /\ Display(s)

\* The inductive invariant.
IInv == TypeOK /\ Phases /\ DetachedGone /\ Stream

------------------------------------------------------------------------------
\* What Append and Tail do to a sequence.
LEMMA AppendIs ==
  ASSUME NEW S, NEW q \in Seq(S), NEW e \in S
  PROVE  /\ Append(q, e) \in Seq(S)
         /\ Len(q) \in Nat /\ Len(Append(q, e)) = Len(q) + 1
         /\ \A i \in 1..Len(q) : Append(q, e)[i] = q[i]
         /\ Append(q, e)[Len(q) + 1] = e
OBVIOUS

LEMMA TailIs ==
  ASSUME NEW S, NEW q \in Seq(S), q # <<>>
  PROVE  /\ Head(q) \in S /\ Head(q) = q[1]
         /\ Len(q) \in Nat /\ Len(q) >= 1
         /\ Tail(q) \in Seq(S) /\ Len(Tail(q)) = Len(q) - 1
         /\ \A i \in 1..(Len(q) - 1) : Tail(q)[i] = q[i + 1]
OBVIOUS

LEMMA SeqGrows ==
  ASSUME NEW S, NEW T, S \subseteq T, NEW q \in Seq(S)
  PROVE  q \in Seq(T)
OBVIOUS

\* A message at the end of the queue is the last that is coming; reading one
\* changes nothing of what is coming, applying one takes it away.
LEMMA ConcatAppend ==
  ASSUME NEW S, NEW h \in Seq(S), NEW q \in Seq(S), NEW e \in S
  PROVE  h \o Append(q, e) = Append(h \o q, e)
OBVIOUS

LEMMA ConcatRead ==
  ASSUME NEW S, NEW q \in Seq(S), q # <<>>
  PROVE  /\ <<Head(q)>> \in Seq(S) /\ Len(<<Head(q)>>) <= 1 /\ Tail(q) \in Seq(S)
         /\ <<Head(q)>> \o Tail(q) = <<>> \o q
OBVIOUS

LEMMA ConcatEmpty ==
  ASSUME NEW S, NEW q \in Seq(S)
  PROVE  <<>> \o q = q
OBVIOUS

LEMMA ConcatApply ==
  ASSUME NEW S, NEW h \in Seq(S), NEW q \in Seq(S), h # <<>>, Len(h) <= 1
  PROVE  h \o q # <<>> /\ Head(h \o q) = h[1] /\ Tail(h \o q) = <<>> \o q
<1>1. Len(h) = 1 /\ Len(q) \in Nat /\ h[1] \in S
  <2>1. PICK n \in Nat \ {0} : n = Len(h)
    BY EmptySeq
  <2>2. Len(h) = 1
    BY <2>1
  <2> QED
    BY <2>2, ElementOfSeq
<1>2. /\ h \o q \in Seq(S) /\ Len(h \o q) = Len(q) + 1 /\ (h \o q)[1] = h[1]
      /\ \A i \in 1..Len(q) : (h \o q)[i + 1] = q[i]
  BY <1>1, ConcatProperties
<1>3. h \o q # <<>>
  BY <1>1, <1>2
<1>4. /\ Head(h \o q) = h[1] /\ Tail(h \o q) \in Seq(S) /\ Len(Tail(h \o q)) = Len(q)
      /\ \A i \in 1..Len(q) : Tail(h \o q)[i] = q[i]
  BY <1>1, <1>2, <1>3, TailIs
<1>5. Tail(h \o q) = q
  BY <1>4, SeqEqual
<1> QED
  BY <1>3, <1>4, <1>5, ConcatEmpty

\* The messages and the map of TypeOK.
LEMMA Types ==
  ASSUME TypeOK
  PROVE  /\ queue \in Seq(Message) /\ held \in Seq(Message) /\ Len(held) <= 1
         /\ coming \in Seq(Message) /\ Len(coming) \in Nat
         /\ \A i \in 1..Len(coming) : coming[i] \in Message
         /\ \A d \in ever : SerialOf[d] \in Serial /\ d # Bonjour /\ d # None
         /\ \A s \in DOMAIN devices : s \in Serial /\ devices[s] # None
         /\ \A s \in Serial : Shown(s) \in ever \cup {None, Bonjour}
         /\ \A s \in Serial : Shown(s) \in ever => SerialOf[Shown(s)] = s
<1>0. queue \in Seq(Message) /\ held \in Seq(Message) /\ Len(held) <= 1
  BY DEF TypeOK, Message
<1>1. coming \in Seq(Message) /\ Len(coming) \in Nat
  BY <1>0 DEF coming
<1>2. \A i \in 1..Len(coming) : coming[i] \in Message
  BY <1>1, ElementOfSeq
<1>3. \A d \in ever : SerialOf[d] \in Serial /\ d # Bonjour /\ d # None
  BY DevAssumption DEF TypeOK
<1>4. \A s \in DOMAIN devices : s \in Serial /\ (devices[s] = Bonjour \/ devices[s] \in ever)
  BY DEF TypeOK
<1>5. \A s \in DOMAIN devices : s \in Serial /\ devices[s] # None
  BY <1>3, <1>4, DevAssumption
<1>6. \A s \in Serial : Shown(s) \in ever \cup {None, Bonjour}
  BY <1>4 DEF Shown
<1>7. \A s \in Serial : Shown(s) \in ever => SerialOf[Shown(s)] = s
  BY <1>3 DEF Shown, TypeOK
<1> QED
  BY <1>0, <1>1, <1>2, <1>3, <1>5, <1>6, <1>7

\* The invariant is what FollowsLatest says.
LEMMA Implied == IInv => FollowsLatest
<1> SUFFICES ASSUME IInv, loop = "running", socket = "open", queue = <<>>, held = <<>>, NEW s \in Serial
             PROVE  IF latest[s] \in present THEN Shown(s) = latest[s]
                    ELSE Shown(s) \in {None, Bonjour} \/ (latest[s] = None /\ Shown(s) \notin present)
  BY DEF FollowsLatest
<1>1. coming = <<>> /\ Len(coming) = 0 /\ NoAttach(s)
  BY DEF NoAttach, coming
<1>2. Departure(s) /\ Display(s)
  BY DEF IInv, Stream
<1>3. None \notin present
  BY DevAssumption DEF IInv, TypeOK
<1> QED
  BY <1>1, <1>2, <1>3 DEF Departure, Display

------------------------------------------------------------------------------
\* Steps keep the invariant: a transport is attached.
LEMMA AttachStep ==
  ASSUME IInv, NEW d \in Dev, Attach(d)
  PROVE  IInv'
<1>1. TypeOK
  BY DEF IInv
<1>2. /\ d \notin ever /\ ever' = ever \cup {d} /\ present' = present \cup {d}
      /\ UNCHANGED <<phase, bonjour, socket, loop, held, devices, raised>>
  BY DEF Attach, poolVars
<1>3. SerialOf[d] \in Serial /\ d # Bonjour /\ d # None
  BY DevAssumption
<1>4. Phases'
  BY <1>2, FS_AddElement DEF IInv, Phases
<1>5. CASE socket # "open"
  <2>1. queue' = queue /\ latest' = latest
    BY <1>5 DEF Attach, Report
  <2>2. queue' \in Seq(Message') /\ held' \in Seq(Message') /\ coming' = coming
    <3>1. Message \subseteq Message'
      BY <1>2 DEF Message
    <3> QED
      BY <1>1, <1>2, <2>1, <3>1, Types, SeqGrows DEF coming
  <2>3. TypeOK'
    BY <1>1, <1>2, <2>1, <2>2 DEF TypeOK, Message
  <2>4. DetachedGone'
    BY <1>1, <1>2, <2>2, Types DEF IInv, DetachedGone, Message
  <2> QED
    BY <1>2, <1>4, <1>5, <2>3, <2>4 DEF IInv, Stream
<1>6. CASE socket = "open"
  <2>1. queue' = Append(queue, Attached(d)) /\ latest' = [latest EXCEPT ![SerialOf[d]] = d]
    BY <1>6 DEF Attach, Report
  <2>2. Message \subseteq Message' /\ Attached(d) \in Message'
    BY <1>2 DEF Message, Attached
  <2>3. /\ queue' \in Seq(Message') /\ held' \in Seq(Message')
        /\ Len(coming') = Len(coming) + 1 /\ Len(coming) \in Nat
        /\ \A i \in 1..Len(coming) : coming'[i] = coming[i]
        /\ coming'[Len(coming) + 1] = Attached(d)
    <3>1. queue \in Seq(Message') /\ held \in Seq(Message') /\ coming \in Seq(Message')
      BY <1>1, <2>2, Types, SeqGrows
    <3>2. coming' = Append(coming, Attached(d))
      BY <1>2, <2>1, <2>2, <3>1, ConcatAppend DEF coming
    <3> QED
      BY <1>2, <2>1, <2>2, <3>1, <3>2, AppendIs
  <2>4. latest' \in [Serial -> ever' \cup {None}]
    BY <1>1, <1>2, <1>3, <2>1 DEF TypeOK
  <2>5. TypeOK'
    BY <1>1, <1>2, <2>3, <2>4 DEF TypeOK, Message
  <2>6. \A i \in 1..Len(coming') : i \in 1..Len(coming) \/ i = Len(coming) + 1
    BY <2>3
  <2>7. Attached(d).type = "Attached" /\ Attached(d).dev = d
    BY DEF Attached
  <2>8. DetachedGone'
    BY <1>1, <1>2, <2>3, <2>6, <2>7, Types DEF IInv, DetachedGone, Message
  <2>9. ASSUME NEW s \in Serial, loop = "running"
        PROVE  Pending(s)' /\ Departure(s)' /\ Display(s)'
    <3>1. Pending(s) /\ Departure(s) /\ Display(s)
      BY <1>6, <2>9 DEF IInv, Stream
    <3>2. CASE s = SerialOf[d]
      <4>1. latest'[s] = d
        BY <1>1, <2>1, <3>2 DEF TypeOK
      <4>0. PICK n \in Nat : n = Len(coming) + 1
        BY <2>3
      <4>2. n \in 1..Len(coming') /\ Says(n, "Attached", d)' /\ Attaches(n, s)'
        BY <2>3, <2>7, <3>2, <4>0 DEF Says, Attaches
      <4>3. \A i \in 1..Len(coming') : n >= i
        BY <2>3, <4>0
      <4> QED
        BY <1>2, <1>3, <3>2, <4>1, <4>2, <4>3 DEF Pending, Departure, Display, NoAttach
    <3>3. CASE s # SerialOf[d]
      <4>1. latest'[s] = latest[s] /\ Shown(s)' = Shown(s)
        BY <1>1, <1>2, <2>1, <3>3 DEF TypeOK, Shown
      <4>2. \A i \in 1..Len(coming') : Attaches(i, s)' => i \in 1..Len(coming) /\ Attaches(i, s)
        BY <2>3, <2>6, <2>7, <3>3 DEF Attaches
      <4>3. \A i \in 1..Len(coming) : /\ i \in 1..Len(coming') /\ (Attaches(i, s) => Attaches(i, s)')
                                     /\ \A t, e : Says(i, t, e) => Says(i, t, e)'
        BY <2>3 DEF Attaches, Says
      <4>4. latest[s] # d /\ Shown(s) # d
        BY <1>1, <1>2, <1>3, Types DEF TypeOK
      <4>5. Pending(s)'
        BY <3>1, <4>1, <4>2, <4>3 DEF Pending
      <4>6. Departure(s)'
        BY <1>2, <3>1, <4>1, <4>2, <4>3 DEF Departure, NoAttach
      <4>7. Display(s)'
        BY <1>2, <3>1, <4>1, <4>3, <4>4 DEF Display, NoAttach
      <4> QED
        BY <4>5, <4>6, <4>7
    <3> QED
      BY <3>2, <3>3
  <2> QED
    BY <1>2, <1>4, <2>5, <2>8, <2>9 DEF IInv, Stream
<1> QED
  BY <1>5, <1>6

\* Steps keep the invariant: a transport is detached.
LEMMA DetachStep ==
  ASSUME IInv, NEW d \in Dev, Detach(d)
  PROVE  IInv'
<1>1. TypeOK
  BY DEF IInv
<1>2. /\ d \in present /\ present' = present \ {d} /\ d \in ever
      /\ UNCHANGED <<ever, latest, phase, bonjour, socket, loop, held, devices, raised>>
  BY <1>1 DEF Detach, poolVars, TypeOK
<1>3. Phases'
  BY <1>2, FS_RemoveElement DEF IInv, Phases
<1>4. CASE socket # "open"
  <2>1. queue' = queue /\ coming' = coming
    BY <1>2, <1>4 DEF Detach, Report, coming
  <2>2. TypeOK' /\ DetachedGone'
    BY <1>1, <1>2, <2>1 DEF TypeOK, IInv, DetachedGone
  <2> QED
    BY <1>2, <1>3, <1>4, <2>2 DEF IInv, Stream
<1>5. CASE socket = "open"
  <2>1. queue' = Append(queue, Detached(d)) /\ Detached(d) \in Message
        /\ Detached(d).type = "Detached" /\ Detached(d).dev = d
    BY <1>2, <1>5 DEF Detach, Report, Detached, Message
  <2>2. /\ queue' \in Seq(Message) /\ Len(coming') = Len(coming) + 1 /\ Len(coming) \in Nat
        /\ \A i \in 1..Len(coming) : coming'[i] = coming[i]
        /\ coming'[Len(coming) + 1] = Detached(d)
    <3>1. coming' = Append(coming, Detached(d))
      BY <1>1, <1>2, <2>1, Types, ConcatAppend DEF coming
    <3> QED
      BY <1>1, <2>1, <3>1, Types, AppendIs
  <2>3. TypeOK'
    BY <1>1, <1>2, <2>2 DEF TypeOK, Message
  <2>4. \A i \in 1..Len(coming') : i \in 1..Len(coming) \/ i = Len(coming) + 1
    BY <2>2
  <2>5. DetachedGone'
    BY <1>2, <2>1, <2>2, <2>4 DEF IInv, DetachedGone
  <2>6. ASSUME NEW s \in Serial, loop = "running"
        PROVE  Pending(s)' /\ Departure(s)' /\ Display(s)'
    <3>1. Pending(s) /\ Departure(s) /\ Display(s)
      BY <1>5, <2>6 DEF IInv, Stream
    <3>2. latest'[s] = latest[s] /\ Shown(s)' = Shown(s)
      BY <1>2 DEF Shown
    <3>3. \A i \in 1..Len(coming') : Attaches(i, s)' => i \in 1..Len(coming) /\ Attaches(i, s)
      BY <2>1, <2>2, <2>4 DEF Attaches
    <3>4. \A i \in 1..Len(coming) : /\ i \in 1..Len(coming') /\ (Attaches(i, s) => Attaches(i, s)')
                                   /\ \A t, e : Says(i, t, e) => Says(i, t, e)'
      BY <2>2 DEF Attaches, Says
    <3>5. Pending(s)'
      BY <1>2, <3>1, <3>2, <3>3, <3>4 DEF Pending
    <3>6. Departure(s)'
      <4>1. CASE latest[s] = d
        <5>0. PICK n \in Nat : n = Len(coming) + 1
          BY <2>2
        <5>1. n \in 1..Len(coming') /\ Says(n, "Detached", d)'
          BY <2>1, <2>2, <5>0 DEF Says
        <5>2. \A i \in 1..Len(coming') : Attaches(i, s)' => i < n
          BY <2>2, <3>3, <5>0
        <5> QED
          BY <3>2, <4>1, <5>1, <5>2 DEF Departure
      <4>2. CASE latest[s] # d
        BY <1>2, <3>1, <3>2, <3>3, <3>4, <4>2 DEF Departure, NoAttach
      <4> QED
        BY <4>1, <4>2
    <3>7. Display(s)'
      BY <1>2, <3>1, <3>2, <3>4 DEF Display, NoAttach
    <3> QED
      BY <3>5, <3>6, <3>7
  <2> QED
    BY <1>2, <1>3, <2>3, <2>5, <2>6 DEF IInv, Stream
<1> QED
  BY <1>4, <1>5

------------------------------------------------------------------------------
\* Steps keep the invariant: connect() and the Bonjour handler.
LEMMA ListStep ==
  ASSUME IInv, NEW b \in BOOLEAN, List(b)
  PROVE  IInv'
<1>1. /\ phase = "new" /\ phase' = "listed" /\ bonjour' = b /\ loop = "off" /\ socket = "none"
      /\ coming' = coming /\ UNCHANGED <<present, ever, queue, latest, socket, loop, held, raised>>
  BY DEF List, muxVars, IInv, Phases, coming
<1>2. DOMAIN devices' \subseteq Serial
      /\ \A s \in DOMAIN devices' : devices'[s] \in present /\ SerialOf[devices'[s]] = s
  BY DevAssumption DEF List, IInv, TypeOK
<1>3. TypeOK'
  BY <1>1, <1>2 DEF IInv, TypeOK
<1> QED
  BY <1>1, <1>3 DEF IInv, Phases, DetachedGone, Stream

LEMMA FoundStep ==
  ASSUME IInv, NEW s \in Serial, Found(s)
  PROVE  IInv'
<1>1. /\ s \notin DOMAIN devices /\ devices' = Put(devices, s, Bonjour)
      /\ coming' = coming /\ bonjour
      /\ UNCHANGED <<present, ever, queue, latest, phase, bonjour, socket, loop, held>>
  BY DEF Found, muxVars, poolVars, coming
<1>0. phase # "closed" /\ raised' = raised
  BY <1>1 DEF Found, Raise, IInv, Phases
<1>2. /\ DOMAIN devices' = DOMAIN devices \cup {s} /\ devices'[s] = Bonjour
      /\ \A x \in DOMAIN devices \ {s} : devices'[x] = devices[x]
  BY <1>1 DEF Put
<1>3. TypeOK'
  BY <1>0, <1>1, <1>2 DEF IInv, TypeOK
<1>4. Shown(s)' = Bonjour /\ Shown(s) = None /\ \A t \in Serial : t # s => Shown(t)' = Shown(t)
  BY <1>1, <1>2 DEF Shown
<1>5. ASSUME NEW t \in Serial, loop = "running", socket = "open"
      PROVE  Pending(t)' /\ Departure(t)' /\ Display(t)'
  <2>1. Pending(t) /\ Departure(t) /\ Display(t)
    BY <1>5 DEF IInv, Stream
  <2>2. NoAttach(t)' = NoAttach(t) /\ Pending(t)'
    BY <1>1, <2>1 DEF NoAttach, Attaches, Says, Pending
  <2>3. \A i, x, d : Says(i, x, d)' = Says(i, x, d) /\ Attaches(i, x)' = Attaches(i, x)
    BY <1>1 DEF Says, Attaches
  <2>4. Departure(t)'
    BY <1>1, <1>4, <2>1, <2>2, <2>3 DEF Departure
  <2>5. Display(t)'
    BY <1>1, <1>4, <2>1, <2>2 DEF Display
  <2> QED
    BY <2>2, <2>4, <2>5
<1> QED
  BY <1>0, <1>1, <1>3, <1>5 DEF IInv, Phases, DetachedGone, Stream

LEMMA ListenStep ==
  ASSUME IInv, Listen
  PROVE  IInv'
<1>1. /\ phase = "listed" /\ phase' = "open" /\ socket' = "open" /\ loop' = "running"
      /\ UNCHANGED <<present, ever, bonjour, held, devices, raised>>
      /\ held = <<>> /\ raised = 0
  BY DEF Listen, IInv, Phases
<1>2. PICK replay \in [1..Cardinality(present) -> present] :
        /\ \A d \in present : \E i \in DOMAIN replay : replay[i] = d
        /\ queue' = [i \in DOMAIN replay |-> Attached(replay[i])]
        /\ latest' \in {f \in [Serial -> present \cup {None}] :
                          \A s \in Serial : AttachedLast(f[s], s, replay)}
  BY DEF Listen
<1>3. Cardinality(present) \in Nat
  BY FS_CardinalityType DEF IInv, Phases
<1>4. PICK n \in Nat : n = Cardinality(present)
  BY <1>3
<1>5. \A d \in present : d \in ever /\ SerialOf[d] \in Serial /\ d # None /\ d # Bonjour
  BY DevAssumption DEF IInv, TypeOK
<1>6. /\ queue' \in Seq(Message) /\ coming' = queue' /\ Len(queue') = n /\ DOMAIN replay = 1..n
      /\ \A i \in 1..n : queue'[i].type = "Attached" /\ queue'[i].dev = replay[i] /\ replay[i] \in present
  <2>1. \A d \in present : Attached(d) \in Message /\ Attached(d).type = "Attached" /\ Attached(d).dev = d
    BY <1>5 DEF Attached, Message
  <2>2. queue' = [i \in 1..n |-> Attached(replay[i])] /\ \A i \in 1..n : replay[i] \in present
    BY <1>2, <1>4
  <2>3. queue' \in [1..n -> Message]
    BY <2>1, <2>2
  <2> QED
    BY <1>1, <1>2, <1>4, <2>1, <2>2, <2>3, ConcatEmpty DEF coming
<1>7. TypeOK'
  BY <1>1, <1>2, <1>5, <1>6 DEF IInv, TypeOK, Message
<1>8. Phases' /\ DetachedGone'
  BY <1>1, <1>6 DEF IInv, Phases, DetachedGone
<1>9. ASSUME NEW s \in Serial PROVE Pending(s)' /\ Departure(s)' /\ Display(s)'
  <2>1. AttachedLast(latest'[s], s, replay) /\ latest'[s] \in present \cup {None}
    BY <1>2
  <2>2. \A i \in 1..Len(coming') : Attaches(i, s)' <=> SerialOf[replay[i]] = s
    BY <1>6 DEF Attaches
  <2>3. CASE latest'[s] = None
    <3>1. \A i \in 1..n : SerialOf[replay[i]] # s
      BY <1>6, <2>1, <2>3 DEF AttachedLast
    <3>2. NoAttach(s)'
      BY <1>6, <2>2, <3>1 DEF NoAttach
    <3>3. \A d \in present : SerialOf[d] # s
      BY <1>2, <1>6, <3>1
    <3>4. Shown(s) \notin present \/ Shown(s) \in {None, Bonjour}
      BY <1>5, <3>3, Types DEF IInv, TypeOK
    <3>5. Shown(s)' = Shown(s)
      BY <1>1 DEF Shown
    <3> QED
      BY <1>1, <2>3, <3>2, <3>4, <3>5 DEF Pending, Departure, Display, NoAttach
  <2>4. CASE latest'[s] # None
    <3>1. PICK j \in 1..n : /\ replay[j] = latest'[s] /\ SerialOf[latest'[s]] = s
                            /\ \A i \in 1..n : i > j => SerialOf[replay[i]] # s
      BY <1>6, <2>1, <2>4 DEF AttachedLast
    <3>2. Says(j, "Attached", latest[s])' /\ j \in 1..Len(coming') /\ Attaches(j, s)'
      BY <1>6, <2>2, <3>1 DEF Says
    <3>3. \A i \in 1..Len(coming') : Attaches(i, s)' => j >= i
      BY <1>6, <2>2, <3>1
    <3> QED
      BY <1>1, <2>1, <2>4, <3>1, <3>2, <3>3 DEF Pending, Departure, Display, NoAttach
  <2> QED
    BY <2>3, <2>4
<1> QED
  BY <1>7, <1>8, <1>9 DEF IInv, Stream

------------------------------------------------------------------------------
\* Steps keep the invariant: the loop reads a message.
LEMMA ReadStep ==
  ASSUME IInv, Read
  PROVE  IInv'
<1>1. /\ loop = "running" /\ socket = "open" /\ held = <<>> /\ queue # <<>>
      /\ held' = <<Head(queue)>> /\ queue' = Tail(queue)
      /\ UNCHANGED <<present, ever, latest, phase, bonjour, socket, loop, devices, raised>>
  BY DEF Read, poolVars
<1>2. TypeOK /\ phase # "closed"
  BY <1>1 DEF IInv, Phases
<1>3. coming' = coming /\ held' \in Seq(Message) /\ Len(held') <= 1 /\ queue' \in Seq(Message)
  BY <1>1, <1>2, Types, ConcatRead DEF coming
<1>4. TypeOK'
  BY <1>1, <1>2, <1>3 DEF TypeOK, Message
<1>5. Phases'
  BY <1>1, <1>2 DEF IInv, Phases
<1> QED
  BY <1>1, <1>3, <1>4, <1>5
  DEF IInv, DetachedGone, Stream, Pending, Departure, Display, NoAttach, Attaches, Says, Shown

\* Steps keep the invariant: the loop applies a message.
LEMMA ApplyStep ==
  ASSUME IInv, Apply
  PROVE  IInv'
<1>1. TypeOK
  BY DEF IInv
<1>0. /\ held # <<>> /\ held' = <<>> /\ loop = "running" /\ raised = 0
      /\ raised' = raised \/ (phase = "closed" /\ raised' = raised + 1)
      /\ queue' = queue
  BY DEF Apply, Announce, Raise, IInv, Phases, muxVars
<1>2. /\ coming # <<>> /\ coming' = Tail(coming) /\ Head(coming) = held[1]
      /\ loop' \in {"running", "stopped"}
      /\ UNCHANGED <<present, ever, queue, latest, phase, bonjour, socket>>
  <2>1. loop' \in {"running", "stopped"} /\ UNCHANGED <<present, ever, queue, latest, phase, bonjour, socket>>
    BY <1>0 DEF Apply, Announce, muxVars
  <2> QED
    BY <1>0, <1>1, <2>1, Types, ConcatApply DEF coming
<1>3. /\ Head(coming) \in Message /\ Head(coming) = coming[1] /\ Len(coming) \in Nat /\ Len(coming) >= 1
      /\ coming' \in Seq(Message) /\ Len(coming') = Len(coming) - 1
      /\ \A i \in 1..(Len(coming) - 1) : coming'[i] = coming[i + 1]
  BY <1>1, <1>2, Types, TailIs
<1>4. PICK d \in ever : d = Head(coming).dev /\ d = held[1].dev
  BY <1>2, <1>3 DEF Message
<1>5. SerialOf[d] \in Serial /\ d # None /\ d # Bonjour
  BY <1>1, Types
<1>6. \/ Head(coming).type = "Attached" /\ devices' = Put(devices, SerialOf[d], d)
      \/ Head(coming).type = "Detached" /\ devices' = Restrict(devices, {s \in DOMAIN devices : devices[s] # d})
  BY <1>2, <1>4 DEF Apply, RemoveDevice
<1>7. Phases' /\ DetachedGone'
  BY <1>0, <1>2, <1>3 DEF IInv, Phases, DetachedGone
<1>8. ASSUME NEW s \in Serial, socket = "open"
      PROVE  /\ Pending(s) /\ Departure(s) /\ Display(s) /\ latest'[s] = latest[s]
             /\ \A i \in 1..Len(coming') : /\ i + 1 \in 1..Len(coming) /\ (Attaches(i, s)' <=> Attaches(i + 1, s))
                                          /\ \A t, e : Says(i, t, e)' <=> Says(i + 1, t, e)
             /\ \A i \in 1..Len(coming) : i = 1 \/ (i - 1 \in 1..Len(coming') /\ (i - 1) + 1 = i)
             /\ \A i \in 1..Len(coming) : i # 1 =>
                  (Attaches(i - 1, s)' <=> Attaches(i, s)) /\ \A t, e : Says(i - 1, t, e)' <=> Says(i, t, e)
             /\ NoAttach(s)' /\ ~Attaches(1, s) => NoAttach(s)
             /\ NoAttach(s) => NoAttach(s)'
             /\ 1 \in 1..Len(coming)
  <2>1. Pending(s) /\ Departure(s) /\ Display(s) /\ latest'[s] = latest[s] /\ 1 \in 1..Len(coming)
    BY <1>0, <1>2, <1>3, <1>8 DEF IInv, Stream
  <2>2. \A i \in 1..Len(coming') : /\ i + 1 \in 1..Len(coming) /\ (Attaches(i, s)' <=> Attaches(i + 1, s))
                                  /\ \A t, e : Says(i, t, e)' <=> Says(i + 1, t, e)
    BY <1>3 DEF Attaches, Says
  <2>3. \A i \in 1..Len(coming) : i = 1 \/ (i - 1 \in 1..Len(coming') /\ (i - 1) + 1 = i)
    BY <1>3
  <2>4. \A i \in 1..Len(coming) : i # 1 =>
          (Attaches(i - 1, s)' <=> Attaches(i, s)) /\ \A t, e : Says(i - 1, t, e)' <=> Says(i, t, e)
    BY <1>3, <2>3 DEF Attaches, Says
  <2>5. NoAttach(s)' /\ ~Attaches(1, s) => NoAttach(s)
    BY <2>3, <2>4 DEF NoAttach
  <2>6. NoAttach(s) => NoAttach(s)'
    BY <2>2 DEF NoAttach
  <2> QED
    BY <2>1, <2>2, <2>3, <2>4, <2>5, <2>6
<1>9. ASSUME NEW s \in Serial, socket = "open" PROVE Pending(s)'
  <2>1. ASSUME NEW i \in 1..Len(coming'), Attaches(i, s)'
        PROVE  latest[s] # None /\ \E j \in 1..Len(coming') : j >= i /\ Says(j, "Attached", latest[s])'
    <3>1. i + 1 \in 1..Len(coming) /\ Attaches(i + 1, s)
      BY <1>8, <1>9, <2>1
    <3>2. latest[s] # None /\ \E j \in 1..Len(coming) : j >= i + 1 /\ Says(j, "Attached", latest[s])
      BY <1>9, <1>8, <3>1 DEF Pending
    <3>3. PICK j \in 1..Len(coming) : j >= i + 1 /\ Says(j, "Attached", latest[s])
      BY <3>2
    <3>4. j # 1 /\ j - 1 >= i
      BY <3>3
    <3>5. j - 1 \in 1..Len(coming') /\ (j - 1) + 1 = j
      BY <1>9, <1>8, <3>4
    <3>6. Says(j - 1, "Attached", latest[s])'
      BY <1>2, <1>3, <3>3, <3>5 DEF Says
    <3> QED
      BY <3>2, <3>4, <3>5, <3>6
  <2> QED
    BY <1>9, <1>2, <1>8, <2>1 DEF Pending
<1>10. ASSUME NEW s \in Serial, socket = "open", NEW j \in 1..Len(coming), j # 1, Says(j, "Detached", latest[s]),
              \A i \in 1..Len(coming) : Attaches(i, s) => i < j
       PROVE  Departure(s)'
  <2>1. j - 1 \in 1..Len(coming') /\ (j - 1) + 1 = j
    BY <1>8, <1>10
  <2>2. Says(j - 1, "Detached", latest[s])'
    BY <1>3, <1>8, <1>10, <2>1 DEF Says
  <2>3. \A i \in 1..Len(coming') : Attaches(i, s)' => i < j - 1
    BY <1>8, <1>10, <2>1
  <2> QED
    BY <2>1, <2>2, <2>3 DEF Departure
<1>11. CASE Head(coming).type = "Attached" /\ devices' = Put(devices, SerialOf[d], d)
  <2>1. /\ DOMAIN devices' = DOMAIN devices \cup {SerialOf[d]} /\ devices'[SerialOf[d]] = d
        /\ \A x \in DOMAIN devices \ {SerialOf[d]} : devices'[x] = devices[x]
    BY <1>11 DEF Put
  <2>2. \A s \in Serial : Shown(s)' = IF s = SerialOf[d] THEN d ELSE Shown(s)
    BY <2>1 DEF Shown
  <2>3. TypeOK'
    BY <1>0, <1>1, <1>2, <1>3, <1>5, <2>1 DEF TypeOK, Message
  <2>4. ASSUME NEW s \in Serial, socket = "open" PROVE Departure(s)' /\ Display(s)'
    <3>1. (Attaches(1, s) <=> s = SerialOf[d]) /\ \A t, e : Says(1, t, e) <=> t = "Attached" /\ e = d
      BY <1>3, <1>4, <1>11 DEF Attaches, Says
    <3>2. Departure(s)'
      <4>1. CASE latest[s] = None \/ latest[s] \in present
        BY <1>2, <4>1 DEF Departure
      <4>2. CASE \E j \in 1..Len(coming) : /\ Says(j, "Detached", latest[s])
                                          /\ \A i \in 1..Len(coming) : Attaches(i, s) => i < j
        <5>1. PICK j \in 1..Len(coming) : /\ Says(j, "Detached", latest[s])
                                         /\ \A i \in 1..Len(coming) : Attaches(i, s) => i < j
          BY <4>2
        <5>2. j # 1
          BY <3>1, <5>1
        <5> QED
          BY <2>4, <1>10, <5>1, <5>2
      <4>3. CASE NoAttach(s) /\ Shown(s) \in {None, Bonjour}
        <5>1. s # SerialOf[d]
          BY <2>4, <1>8, <3>1, <4>3 DEF NoAttach
        <5> QED
          BY <2>4, <1>8, <2>2, <4>3, <5>1 DEF Departure
      <4> QED
        BY <2>4, <1>8, <4>1, <4>2, <4>3 DEF Departure
    <3>3. CASE s # SerialOf[d]
      BY <2>4, <1>2, <1>8, <2>2, <3>1, <3>2, <3>3 DEF Display
    <3>4. CASE s = SerialOf[d]
      <4>1. latest[s] # None /\ SerialOf[latest[s]] = s
            /\ \E j \in 1..Len(coming) : Says(j, "Attached", latest[s])
        BY <2>4, <1>8, <3>1, <3>4 DEF Pending
      <4>2. PICK j \in 1..Len(coming) : Says(j, "Attached", latest[s])
        BY <4>1
      <4>3. CASE j = 1
        <5>1. latest[s] = d
          BY <3>1, <4>2, <4>3
        <5> QED
          BY <1>2, <2>2, <3>2, <3>4, <4>1, <5>1 DEF Display
      <4>4. CASE j # 1
        <5>1. j - 1 \in 1..Len(coming') /\ Attaches(j, s)
          BY <2>4, <1>8, <4>1, <4>2, <4>4 DEF Attaches, Says
        <5>2. Attaches(j - 1, s)'
          BY <2>4, <1>8, <4>4, <5>1
        <5> QED
          BY <3>2, <5>1, <5>2 DEF Display, NoAttach
      <4> QED
        BY <4>3, <4>4
    <3> QED
      BY <3>3, <3>4
  <2> QED
    BY <1>2, <1>7, <1>9, <2>3, <2>4 DEF IInv, Stream
<1>12. CASE /\ Head(coming).type = "Detached"
            /\ devices' = Restrict(devices, {s \in DOMAIN devices : devices[s] # d})
  <2>1. /\ DOMAIN devices' = {s \in DOMAIN devices : devices[s] # d}
        /\ \A x \in DOMAIN devices' : devices'[x] = devices[x]
    BY <1>12 DEF Restrict
  <2>2. \A s \in Serial : Shown(s)' = IF Shown(s) = d THEN None ELSE Shown(s)
    BY <1>5, <2>1 DEF Shown
  <2>3. TypeOK'
    BY <1>0, <1>1, <1>2, <1>3, <2>1 DEF TypeOK, Message
  <2>4. d \notin present
    BY <1>3, <1>4, <1>12 DEF IInv, DetachedGone
  <2>5. ASSUME NEW s \in Serial, socket = "open" PROVE Departure(s)' /\ Display(s)'
    <3>1. ~Attaches(1, s) /\ \A t, e : Says(1, t, e) <=> t = "Detached" /\ e = d
      BY <1>3, <1>4, <1>12 DEF Attaches, Says
    <3>2. Departure(s)'
      <4>1. CASE latest[s] = None \/ latest[s] \in present
        BY <1>2, <4>1 DEF Departure
      <4>2. CASE latest[s] # None /\ \E j \in 1..Len(coming) : /\ Says(j, "Detached", latest[s])
                                                              /\ \A i \in 1..Len(coming) : Attaches(i, s) => i < j
        <5>1. PICK j \in 1..Len(coming) : /\ Says(j, "Detached", latest[s])
                                         /\ \A i \in 1..Len(coming) : Attaches(i, s) => i < j
          BY <4>2
        <5>2. CASE j = 1
          <6>1. latest[s] = d
            BY <3>1, <5>1, <5>2
          <6>2. NoAttach(s)
            BY <1>3, <5>1, <5>2 DEF NoAttach
          <6>3. Shown(s)' \in {None, Bonjour}
            BY <2>5, <1>8, <2>2, <4>2, <6>1, <6>2 DEF Display
          <6> QED
            BY <2>5, <1>8, <6>2, <6>3 DEF Departure
        <5>3. CASE j # 1
          BY <2>5, <1>10, <5>1, <5>3
        <5> QED
          BY <5>2, <5>3
      <4>3. CASE NoAttach(s) /\ Shown(s) \in {None, Bonjour}
        BY <2>5, <1>5, <1>8, <2>2, <4>3 DEF Departure
      <4> QED
        BY <2>5, <1>8, <4>1, <4>2, <4>3 DEF Departure
    <3>3. None \notin present
      BY <1>1, DevAssumption DEF TypeOK
    <3>4. Display(s)'
      BY <2>5, <1>2, <1>8, <2>2, <2>4, <3>1, <3>3 DEF Display
    <3> QED
      BY <3>2, <3>4
  <2> QED
    BY <1>2, <1>7, <1>9, <2>3, <2>5 DEF IInv, Stream
<1> QED
  BY <1>6, <1>11, <1>12

------------------------------------------------------------------------------
\* Whatever is plugged in and out: the messages on their way and the map agree on
\* the transport each serial was attached with last.
THEOREM Invariance == Spec => []IInv
<1>1. Init => IInv
  <2>1. Init => TypeOK
    <3>1. Init => queue \in Seq(Message) /\ held \in Seq(Message) /\ Len(held) <= 1 /\ latest \in [Serial -> ever \cup {None}]
      BY DEF Init
    <3>2. Init => bonjour \in BOOLEAN
      BY DEF Init
    <3>3. Init => DOMAIN devices = {}
      BY EmptyDomain DEF Init
    <3> QED
      BY <3>1, <3>2, <3>3 DEF Init, TypeOK, Message
  <2>2. Init => Phases
    BY FS_EmptySet DEF Init, Phases
  <2>3. Init => DetachedGone /\ Stream
    <3>1. Init => Len(coming) = 0
      BY DEF Init, coming
    <3> QED
      BY <3>1 DEF Init, DetachedGone, Stream
  <2> QED
    BY <2>1, <2>2, <2>3 DEF IInv
<1>2. IInv /\ [Next]_vars => IInv'
  <2> SUFFICES ASSUME IInv, [Next]_vars PROVE IInv'
    OBVIOUS
  <2>1. CASE /\ MuxGone \/ ConnectFails \/ ReceiveTimeout \/ ReceiveError \/ Close
    <3>1. /\ UNCHANGED <<present, ever, queue, latest, held, devices, raised>> /\ coming' = coming
          /\ loop' \in {loop, "stopped"} /\ socket' \in {socket, "left", "gone"}
          /\ socket' = "open" => socket = "open"
          /\ phase' \in {phase, "failed", "closed"} /\ (bonjour' = bonjour \/ bonjour' = FALSE)
      BY <2>1 DEF MuxGone, ConnectFails, ReceiveTimeout, ReceiveError, Close, muxVars, IInv, Phases, coming
    <3>2. bonjour' \in BOOLEAN
      BY <3>1 DEF IInv, TypeOK
    <3>3. TypeOK'
      BY <3>1, <3>2 DEF IInv, TypeOK
    <3>4. Phases'
      BY <2>1, <3>1 DEF MuxGone, ConnectFails, ReceiveTimeout, ReceiveError, Close, IInv, Phases
    <3> QED
      BY <3>1, <3>3, <3>4
      DEF IInv, DetachedGone, Stream, Pending, Departure, Display, NoAttach, Attaches, Says, Shown
  <2>2. CASE UNCHANGED vars
    <3>1. /\ UNCHANGED <<present, ever, queue, latest, phase, bonjour, socket, loop, held, devices, raised>>
          /\ coming' = coming
      BY <2>2 DEF vars, muxVars, poolVars, coming
    <3> QED
      BY <3>1
      DEF IInv, TypeOK, Phases, DetachedGone, Stream, Pending, Departure,
          Display, NoAttach, Attaches, Says, Shown
  <2> QED
    BY <2>1, <2>2, AttachStep, DetachStep, ListStep, FoundStep, ListenStep, ReadStep, ApplyStep DEF Next
<1> QED
  BY <1>1, <1>2, PTL DEF Spec

\* The map is keyed by serial, and an entry is a transport of that serial.
THEOREM TypeTheorem == Spec => []TypeOK
<1>1. IInv => TypeOK
  BY DEF IInv
<1> QED
  BY <1>1, Invariance, PTL

\* The loop brings the pool to what usbmuxd attached last, for any number of devices,
\* transports and plugs: no older message undoes a newer one.
THEOREM FollowsTheorem == Spec => []FollowsLatest
BY Invariance, Implied, PTL

\* After close() nothing is read, no Bonjour answer counts, and at most the one
\* message that had been read is applied and announced.
THEOREM QuietTheorem == Spec => QuietAfterClose
<1> DEFINE Quiet == \/ UNCHANGED <<held, devices, raised>>
                    \/ /\ held # <<>> /\ held' = <<>> /\ raised = 0 /\ raised' <= 1
                       /\ \A s \in Serial \ {SerialOf[held[1].dev]} : Shown(s)' = Shown(s)
<1>1. IInv /\ [Next]_vars => [phase = "closed" => Quiet]_vars
  <2> SUFFICES ASSUME IInv, Next, phase = "closed" PROVE Quiet
    BY DEF vars
  <2>1. socket = "gone" /\ ~bonjour
    BY DEF IInv, Phases
  <2>2. CASE Apply
    <3>1. held # <<>> /\ held' = <<>> /\ raised = 0
      BY <2>2 DEF Apply, IInv, Phases
    <3>2. raised' <= 1
      BY <2>2, <3>1 DEF Apply, Announce, Raise
    <3>3. PICK d \in ever : d = held[1].dev
      <4>1. held \in Seq(Message) /\ queue \in Seq(Message) /\ Len(held) <= 1
        BY Types DEF IInv
      <4>2. coming # <<>> /\ Head(coming) = held[1] /\ coming \in Seq(Message)
        BY <3>1, <4>1, ConcatApply, Types DEF coming, IInv
      <4>3. held[1] \in Message
        BY <4>2, TailIs
      <4> QED
        BY <4>3 DEF Message
    <3>4. ASSUME NEW s \in Serial \ {SerialOf[d]} PROVE Shown(s)' = Shown(s)
      <4>1. s \in DOMAIN devices => devices[s] # d
        BY <3>4, DevAssumption DEF IInv, TypeOK
      <4> QED
        BY <2>2, <3>3, <3>4, <4>1 DEF Apply, RemoveDevice, Put, Restrict, Shown
    <3> QED
      BY <3>1, <3>2, <3>3, <3>4
  <2>3. CASE ~Apply
    BY <2>1, <2>3
    DEF Next, Attach, Detach, MuxGone, List, Found, Listen, ConnectFails, Read, ReceiveTimeout,
        ReceiveError, Close
  <2> QED
    BY <2>2, <2>3
<1> QED
  BY <1>1, Invariance, PTL DEF Spec, QuietAfterClose
==============================================================================
