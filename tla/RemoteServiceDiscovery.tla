----------------------- MODULE RemoteServiceDiscovery -----------------------
(***************************************************************************)
(* packages/core/src/remote/RemoteServiceDiscovery.ts on its RemoteXPC     *)
(* connection: what connect() leaves in peerInfo, and startService, a TCP  *)
(* connection of its own with the check-in: one request, then two replies, *)
(* each read by a listener of 'data' that keeps what its own reply needs   *)
(* and drops the rest of the chunk. What arrives before the first listener *)
(* is there is held by the socket and flows to it in one go.               *)
(*                                                                         *)
(* The owner of the connection sends requests on it or starts a service:   *)
(* the two share nothing but peerInfo.                                     *)
(***************************************************************************)
EXTENDS RemoteXpc

VARIABLES
  owner,   \* "requests" or "service"
  checkin, \* "idle", "dial", "write", "ack", "start" (which reply it reads),
           \* "done", "failed"
  peer,    \* the other end of the service's socket: "none", "open", "closed"
  line,    \* the halves of the replies that the device has still to send
  held,    \* what arrived while nobody listened
  have,    \* what the listener has of its reply
  lost     \* what was dropped

svars == <<owner, checkin, peer, line, held, have, lost>>
vars == <<xvars, svars>>

Half(reply, half) == [reply |-> reply, half |-> half]
Replies == <<Half(1, 1), Half(1, 2), Half(2, 1), Half(2, 2)>>

Init ==
  /\ XInit
  /\ owner \in {"requests", "service"} /\ checkin = "idle" /\ peer = "none"
  /\ line = <<>> /\ held = <<>> /\ have = <<>> /\ lost = <<>>

------------------------------------------------------------------------------
\* getServicePort throws when connect() ended with an empty peerInfo.
StartService ==
  /\ ~crashed /\ owner = "service" /\ phase = "ready" /\ checkin = "idle"
  /\ checkin' = IF calls[Connector] = "ok" THEN "dial" ELSE "failed"
  /\ UNCHANGED <<owner, peer, line, held, have, lost, xvars>>

ServiceDialed ==
  /\ ~crashed /\ checkin = "dial" /\ checkin' = "write" /\ peer' = "open" /\ line' = Replies
  /\ UNCHANGED <<owner, held, have, lost, xvars>>

\* An error or ten seconds.
ServiceDialFails ==
  /\ ~crashed /\ checkin = "dial" /\ checkin' = "failed"
  /\ UNCHANGED <<owner, peer, line, held, have, lost, xvars>>

\* onData, for what it has and a chunk: once its reply is there the listener is
\* gone, with what is left of the chunk; bytes that do not start with a length
\* make it wait for more than there is.
Starts(units) == Len(units) >= 2 /\ units[1].half = 1
OnData(units, reading) ==
  IF Starts(units)
  THEN /\ checkin' = IF reading = "ack" THEN "start" ELSE "done"
       /\ have' = <<>> /\ lost' = lost \o SubSeq(units, 3, Len(units))
  ELSE checkin' = reading /\ have' = units /\ UNCHANGED lost

\* The callback of the write; the first listener.
CheckinWritten ==
  /\ ~crashed /\ checkin = "write" /\ peer = "open"
  /\ OnData(held, "ack") /\ held' = <<>>
  /\ UNCHANGED <<owner, peer, line, xvars>>

ServiceChunk(k) ==
  /\ ~crashed /\ peer = "open" /\ k <= Len(line)
  /\ line' = SubSeq(line, k + 1, Len(line))
  /\ \/ checkin = "write" /\ held' = held \o SubSeq(line, 1, k) /\ UNCHANGED <<checkin, have, lost>>
     \/ checkin \in {"ack", "start"} /\ OnData(have \o SubSeq(line, 1, k), checkin) /\ UNCHANGED held
  /\ UNCHANGED <<owner, peer, xvars>>

\* 'error' ends the read. 'close' alone does not, and there is no timer.
ServiceError ==
  /\ ~crashed /\ peer = "open" /\ checkin \in {"write", "ack", "start"}
  /\ checkin' = "failed" /\ peer' = "closed" /\ line' = <<>>
  /\ UNCHANGED <<owner, held, have, lost, xvars>>

ServiceClose ==
  /\ ~crashed /\ peer = "open" /\ checkin \in {"ack", "start"}
  /\ peer' = "closed" /\ line' = <<>>
  /\ UNCHANGED <<owner, checkin, held, have, lost, xvars>>

Next ==
  \/ XNext /\ (owner = "service" => ids' = ids) /\ UNCHANGED svars
  \/ StartService \/ ServiceDialed \/ ServiceDialFails \/ CheckinWritten
  \/ ServiceError \/ ServiceClose \/ \E k \in 1..4 : ServiceChunk(k)

\* The timers, and the callback of a write. Nothing makes the device answer, and
\* no timer stands in for it while a check-in reads its replies.
Fairness ==
  /\ WF_vars(DialFails /\ UNCHANGED svars)
  /\ \A c \in Readers : WF_vars(Timeout(c) /\ UNCHANGED svars)
  /\ WF_vars(ServiceDialFails) /\ WF_vars(CheckinWritten)

Spec == Init /\ [][Next]_vars /\ Fairness

------------------------------------------------------------------------------
TypeOK ==
  /\ XTypeOK
  /\ owner \in {"requests", "service"} /\ peer \in {"none", "open", "closed"}
  /\ checkin \in {"idle", "dial", "write", "ack", "start", "done", "failed"}
  /\ ToSet(line \o held \o have \o lost) \subseteq ToSet(Replies)

\* What has a timer ends, if the process lives: a receive by a message, the close
\* or fifteen seconds, connect() with it, and the dialing of a service. A check-in
\* that has been written may wait for ever, and is not spoken of: the device may be
\* silent, close without an error, or have its second reply dropped.
CallsSettle ==
  /\ \A c \in Readers : (calls[c] = "waiting") ~> (calls[c] # "waiting" \/ crashed)
  /\ (phase \in {"dialing", "handshake"}) ~> (phase \in {"ready", "failed"} \/ crashed)
  /\ (checkin \in {"dial", "write"}) ~> (checkin \notin {"dial", "write"} \/ crashed)
==============================================================================
