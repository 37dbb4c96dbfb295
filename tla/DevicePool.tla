------------------------------ MODULE DevicePool ------------------------------
(***************************************************************************)
(* The device pool (packages/core/src/pool/DevicePool.ts): connect() lists *)
(* the devices of usbmuxd over one connection, may start Bonjour           *)
(* discovery, asks usbmuxd over a second connection for hot-plug messages  *)
(* and leaves a background loop that applies them; close() ends it.        *)
(*                                                                         *)
(* usbmuxd is external. It gives every transport of a device (a cable, the *)
(* network) a device id of its own, never used again; the pool is keyed by *)
(* serial number, which the transports of a device share.                  *)
(***************************************************************************)
EXTENDS Naturals, Sequences, FiniteSets, JsMap

CONSTANTS
  Serial,    \* the serial numbers
  Dev,       \* the device ids usbmuxd will give
  SerialOf,  \* the serial number behind each device id
  Wifi,      \* the serial numbers that answer Bonjour
  Bonjour,   \* stands for device id 0, which the Bonjour handler gives
  None       \* no device id

ASSUME DevAssumption ==
  /\ SerialOf \in [Dev -> Serial]
  /\ Wifi \subseteq Serial
  /\ Bonjour \notin Dev /\ None \notin Dev /\ Bonjour # None

VARIABLES
  present,  \* the transports attached to usbmuxd
  ever,     \* the device ids given so far
  queue,    \* the hot-plug messages sent and not yet read
  latest,   \* the transport of each serial attached last in that stream
  phase,    \* of the pool: "new", "listed", "open", "failed", "closed"
  bonjour,  \* Bonjour discovery runs
  socket,   \* of listenConn: "none", "open", "left" (open, with nobody to read or
            \* to close it), or "gone": destroyed or reset
  loop,     \* the background loop: "off", "running", "stopped"
  held,     \* the message receive() has read and the loop not yet applied, if any
  devices,  \* the devices map: serial -> device id
  raised    \* (history) how many device events were raised after close()

muxVars == <<present, ever, queue, latest>>
poolVars == <<phase, bonjour, socket, loop>>
vars == <<muxVars, poolVars, held, devices, raised>>


Attached(d) == [type |-> "Attached", dev |-> d]
Detached(d) == [type |-> "Detached", dev |-> d]

Init ==
  /\ present = {} /\ ever = {} /\ queue = <<>>
  /\ latest = [s \in Serial |-> None]
  /\ phase = "new" /\ bonjour = FALSE /\ socket = "none" /\ loop = "off"
  /\ held = <<>> /\ devices = Empty /\ raised = 0

------------------------------------------------------------------------------
\* usbmuxd reports to listenConn once it listens.
Report(message) == queue' = IF socket = "open" THEN Append(queue, message) ELSE queue

Attach(d) ==
  /\ d \notin ever
  /\ ever' = ever \cup {d} /\ present' = present \cup {d}
  /\ Report(Attached(d))
  /\ latest' = IF socket = "open" THEN [latest EXCEPT ![SerialOf[d]] = d] ELSE latest
  /\ UNCHANGED <<poolVars, held, devices, raised>>

Detach(d) ==
  /\ d \in present
  /\ present' = present \ {d}
  /\ Report(Detached(d))
  /\ UNCHANGED <<ever, latest, poolVars, held, devices, raised>>

\* usbmuxd stops or resets the connection.
MuxGone ==
  /\ socket \in {"open", "left"}
  /\ socket' = "gone"
  /\ UNCHANGED <<muxVars, phase, bonjour, loop, held, devices, raised>>

------------------------------------------------------------------------------
\* connect() up to its wait for the Listen reply. Of the transports of one
\* serial the map keeps the one usbmuxd lists last.
List(enableBonjour) ==
  /\ phase = "new"
  /\ devices' \in {f \in [{SerialOf[d] : d \in present} -> present] :
                     \A s \in DOMAIN f : SerialOf[f[s]] = s}
  /\ phase' = "listed" /\ bonjour' = enableBonjour
  /\ UNCHANGED <<muxVars, socket, loop, held, raised>>

\* An event of the pool; those after close() are counted.
Raise == raised' = IF phase = "closed" THEN raised + 1 ELSE raised

\* The Bonjour 'device' handler.
Found(s) ==
  /\ bonjour /\ s \in Wifi \ DOMAIN devices
  /\ devices' = Put(devices, s, Bonjour)
  /\ Raise
  /\ UNCHANGED <<muxVars, poolVars, held>>

\* Of the transports of s in that order, d is the last; None if there is none.
AttachedLast(d, s, order) ==
  IF d = None THEN \A i \in DOMAIN order : SerialOf[order[i]] # s
  ELSE \E i \in DOMAIN order : /\ order[i] = d /\ SerialOf[d] = s
                               /\ \A j \in DOMAIN order : j > i => SerialOf[order[j]] # s

\* usbmuxd accepts Listen and reports every transport that is attached, in an
\* order of its own; the loop starts.
Listen ==
  /\ phase = "listed"
  /\ \E replay \in [1..Cardinality(present) -> present] :
       /\ \A d \in present : \E i \in DOMAIN replay : replay[i] = d
       /\ queue' = [i \in DOMAIN replay |-> Attached(replay[i])]
       /\ latest' \in {f \in [Serial -> present \cup {None}] :
                         \A s \in Serial : AttachedLast(f[s], s, replay)}
  /\ phase' = "open" /\ socket' = "open" /\ loop' = "running"
  /\ UNCHANGED <<present, ever, bonjour, held, devices, raised>>

\* connect() rejects: usbmuxd cannot be reached, refuses, or does not answer in
\* time. Bonjour discovery, once started, is left running, and so is the
\* connection on which listen() was refused.
ConnectFails ==
  /\ phase \in {"new", "listed"}
  /\ phase' = "failed"
  /\ socket' \in IF phase = "listed" THEN {"none", "left"} ELSE {"none"}
  /\ UNCHANGED <<muxVars, bonjour, loop, held, devices, raised>>

------------------------------------------------------------------------------
\* (mutant) The entry is looked up by serial number instead of device id.
RemoveBySerial(d) == devices' = Drop(devices, SerialOf[d])

\* The entry with that device id, if there is one, leaves the map.
RemoveDevice(d) == devices' = Restrict(devices, {s \in DOMAIN devices : devices[s] # d})

\* (mutant) A message about a device that the pool does not know is left unread.
ReadKnown ==
  /\ loop = "running" /\ socket = "open" /\ held = <<>> /\ queue # <<>>
  /\ Head(queue).dev \in {devices[s] : s \in DOMAIN devices}
  /\ held' = <<Head(queue)>> /\ queue' = Tail(queue)
  /\ UNCHANGED <<present, ever, latest, poolVars, devices, raised>>

\* The readExactly of the body resolves: the message is off the socket, and on
\* its way to the loop through the awaits of recvPacket and receive.
Read ==
  /\ loop = "running" /\ socket = "open" /\ held = <<>> /\ queue # <<>>
  /\ held' = <<Head(queue)>> /\ queue' = Tail(queue)
  /\ UNCHANGED <<present, ever, latest, poolVars, devices, raised>>

\* (mutant) The map is keyed by device id.
ApplyByDeviceId ==
  /\ held # <<>> /\ held' = <<>>
  /\ LET d == held[1].dev IN
     \/ held[1].type = "Attached" /\ devices' = Put(devices, d, d)
     \/ held[1].type = "Detached" /\ RemoveDevice(d)
  /\ UNCHANGED <<muxVars, poolVars, raised>>

\* The emit of an event: a listener that throws does so inside the loop's try.
Announce == Raise /\ loop' \in {"running", "stopped"}

\* The rest of a turn of the loop: the message is applied, and the change, if it
\* is one, announced. Nothing asks whether the pool has been closed since Read.
Apply ==
  /\ held # <<>> /\ held' = <<>>
  /\ LET d == held[1].dev IN
     \/ /\ held[1].type = "Attached"
        /\ devices' = Put(devices, SerialOf[d], d)
        /\ Announce
     \/ /\ held[1].type = "Detached"
        /\ RemoveDevice(d)
        /\ IF devices' = devices THEN UNCHANGED <<loop, raised>> ELSE Announce
  /\ UNCHANGED <<muxVars, phase, bonjour, socket>>

\* readExactly rejects after ten seconds without a message.
ReceiveTimeout ==
  /\ loop = "running" /\ held = <<>>
  /\ loop' = "stopped"
  /\ UNCHANGED <<muxVars, phase, bonjour, socket, held, devices, raised>>

\* (mutant) The catch block reports the error and goes on.
ReceiveErrorGoesOn ==
  /\ loop = "running" /\ socket = "gone" /\ held = <<>>
  /\ UNCHANGED vars

\* readExactly rejects because the socket is closed, or recvExactly because
\* close() has taken it away; a read begun on a socket usbmuxd has reset since
\* the last message rejects with its timer.
ReceiveError ==
  /\ loop = "running" /\ socket = "gone" /\ held = <<>>
  /\ loop' = "stopped"
  /\ UNCHANGED <<muxVars, phase, bonjour, socket, held, devices, raised>>

\* (mutant) close() forgets Bonjour.
CloseListenerOnly ==
  /\ phase = "open"
  /\ phase' = "closed" /\ socket' = "gone"
  /\ UNCHANGED <<muxVars, bonjour, loop, held, devices, raised>>

\* close()
Close ==
  /\ phase = "open"
  /\ phase' = "closed" /\ socket' = "gone" /\ bonjour' = FALSE
  /\ UNCHANGED <<muxVars, loop, held, devices, raised>>

------------------------------------------------------------------------------
Next ==
  \/ \E d \in Dev : Attach(d) \/ Detach(d)
  \/ MuxGone
  \/ \E b \in BOOLEAN : List(b)
  \/ \E s \in Serial : Found(s)
  \/ Listen \/ ConnectFails
  \/ Read \/ Apply \/ ReceiveTimeout \/ ReceiveError
  \/ Close

\* Readable bytes and a closed socket wake the loop up, and what it holds is
\* applied by continuations that are already queued.
Spec == Init /\ [][Next]_vars /\ WF_vars(Read) /\ WF_vars(Apply) /\ WF_vars(ReceiveError)

------------------------------------------------------------------------------
TypeOK ==
  /\ present \subseteq ever /\ ever \subseteq Dev
  /\ queue \in Seq([type : {"Attached", "Detached"}, dev : ever])
  /\ held \in Seq([type : {"Attached", "Detached"}, dev : ever]) /\ Len(held) <= 1
  /\ latest \in [Serial -> ever \cup {None}]
  /\ phase \in {"new", "listed", "open", "failed", "closed"}
  /\ bonjour \in BOOLEAN /\ socket \in {"none", "open", "left", "gone"}
  /\ loop \in {"off", "running", "stopped"} /\ raised \in Nat
  /\ DOMAIN devices \subseteq Serial
  /\ \A s \in DOMAIN devices :
       devices[s] = Bonjour \/ (devices[s] \in ever /\ SerialOf[devices[s]] = s)

\* What the pool shows of a serial.
Shown(s) == IF s \in DOMAIN devices THEN devices[s] ELSE None

\* With every hot-plug message applied, the pool shows for each serial the
\* transport that usbmuxd attached last, or no usbmux transport at all once
\* that one is detached: an older message never undoes a newer one, although
\* devices come and go between the list and the Listen, the replay repeats
\* devices the pool has, and ids change on every plug. Only a device that came
\* from the list and was gone before the Listen can be out of date.
FollowsLatest ==
  loop = "running" /\ socket = "open" /\ queue = <<>> /\ held = <<>> =>
    \A s \in Serial :
      IF latest[s] \in present THEN Shown(s) = latest[s]
      ELSE Shown(s) \in {None, Bonjour} \/ (latest[s] = None /\ Shown(s) \notin present)

\* After close() nothing more is read, and no Bonjour answer counts. Only the
\* message that had left the socket when close() came, one at most, is still
\* applied: it changes the entry of its own serial and raises one event.
QuietAfterClose ==
  [][phase = "closed" =>
       \/ UNCHANGED <<held, devices, raised>>
       \/ /\ held # <<>> /\ held' = <<>> /\ raised = 0 /\ raised' <= 1
          /\ \A s \in Serial \ {SerialOf[held[1].dev]} : Shown(s)' = Shown(s)]_vars

\* The loop never outlives its connection: when close() or usbmuxd ends it, the
\* read that is waiting fails and the loop with it.
LoopEnds == socket = "gone" ~> loop # "running"

\* A message usbmuxd has sent is read and applied, unless the loop has stopped.
EveryMessageRead == queue # <<>> ~> (queue = <<>> /\ held = <<>>) \/ loop = "stopped"

\* "Listen for device attach/detach events in real-time (Ctrl+C to exit)": the
\* pool listens as long as it is open and usbmuxd is there.
ListensUntilClosed ==
  phase = "open" /\ socket = "open" => loop = "running"
==============================================================================
