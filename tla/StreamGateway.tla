---------------------------- MODULE StreamGateway ----------------------------
(***************************************************************************)
(* The WebSocket gateways of the server (packages/server/src/gateway):     *)
(* logs.gateway.ts streams syslog lines and perf.gateway.ts performance    *)
(* samples of a device to a client, each from a stream of its own that an  *)
(* AbortController stops. The controllers are kept by client and device;   *)
(* the model is of one such key, since keys do not interact.               *)
(*                                                                         *)
(* A stream opens a lockdown session and the service (withFactory), reads, *)
(* and closes both again, all of it awaited; the controller it has entered *)
(* in the map is removed by unsubscribe, by the disconnect and by its own  *)
(* finally, which looks at the key only.                                   *)
(***************************************************************************)
EXTENDS Naturals, FiniteSets

CONSTANTS
  Sub,      \* the subscribe messages of the client for the device
  None      \* no stream

ASSUME NoneAssumption == None \notin Sub
ASSUME SubAssumption == IsFiniteSet(Sub)

VARIABLES
  kind,     \* the gateway: "logs" or "perf"
  client,   \* the client is connected
  current,  \* abortControllers: the stream whose controller the key has
  phase,    \* of each stream, one of Phases
  aborted   \* the streams whose signal is aborted

vars == <<kind, client, current, phase, aborted>>

Phases == {"idle", "connecting", "streaming", "closing", "done"}
Live(s) == phase[s] \in {"connecting", "streaming", "closing"}

Init ==
  /\ kind \in {"logs", "perf"}
  /\ client = TRUE /\ current = None
  /\ phase = [s \in Sub |-> "idle"]
  /\ aborted = {}

\* (mutant) The check that the key has no controller yet is missing.
SubscribeAnyway(s) ==
  /\ client /\ phase[s] = "idle"
  /\ current' = s
  /\ phase' = [phase EXCEPT ![s] = "connecting"]
  /\ UNCHANGED <<kind, client, aborted>>

\* subscribe: ignored when the key has a controller.
Subscribe(s) ==
  /\ client /\ phase[s] = "idle" /\ current = None
  /\ current' = s
  /\ phase' = [phase EXCEPT ![s] = "connecting"]
  /\ UNCHANGED <<kind, client, aborted>>

\* The service is open. A syslog stream that has been aborted ends before its
\* first read, a perf stream has yet to see a sample.
Connected(s) ==
  /\ phase[s] = "connecting"
  /\ phase' = [phase EXCEPT ![s] =
                 IF kind = "logs" /\ s \in aborted THEN "closing" ELSE "streaming"]
  /\ UNCHANGED <<kind, client, current, aborted>>

\* The device, the session or the service cannot be had; withFactory closes what
\* it has opened.
ConnectFails(s) ==
  /\ phase[s] = "connecting"
  /\ phase' = [phase EXCEPT ![s] = "closing"]
  /\ UNCHANGED <<kind, client, current, aborted>>

\* A sample arrives for a perf stream that has been aborted: the loop breaks.
SampleAfterAbort(s) ==
  /\ kind = "perf" /\ phase[s] = "streaming" /\ s \in aborted
  /\ phase' = [phase EXCEPT ![s] = "closing"]
  /\ UNCHANGED <<kind, client, current, aborted>>

\* The device closes the stream, or the 30 s timer of recv rejects (perf).
StreamEnds(s) ==
  /\ phase[s] = "streaming"
  /\ phase' = [phase EXCEPT ![s] = "closing"]
  /\ UNCHANGED <<kind, client, current, aborted>>

\* (mutant) .then for .finally: a stream that ends leaves its controller.
ClosedKeepsEntry(s) ==
  /\ phase[s] = "closing"
  /\ phase' = [phase EXCEPT ![s] = "done"]
  /\ UNCHANGED <<kind, client, current, aborted>>

\* The service and the session are closed, which takes a StopSession exchange;
\* the finally deletes whatever controller the key has by now.
Closed(s) ==
  /\ phase[s] = "closing"
  /\ phase' = [phase EXCEPT ![s] = "done"]
  /\ current' = None
  /\ UNCHANGED <<kind, client, aborted>>

\* (mutant) The stream's signal is aborted but nobody listens to it.
AbortUnheard ==
  /\ aborted' = aborted \cup ({current} \cap Sub)
  /\ current' = None
  /\ UNCHANGED phase

\* abort() and delete of the key's controller, if there is one. The abort
\* listener of SyslogService.lines ends a wait for the next line at once.
Abort ==
  /\ aborted' = aborted \cup ({current} \cap Sub)
  /\ current' = None
  /\ phase' = [s \in Sub |->
       IF s = current /\ kind = "logs" /\ phase[s] = "streaming" THEN "closing"
                                                               ELSE phase[s]]

\* unsubscribe
Unsubscribe ==
  /\ client
  /\ Abort
  /\ UNCHANGED <<kind, client>>

\* handleDisconnect
Disconnect ==
  /\ client
  /\ client' = FALSE
  /\ Abort
  /\ UNCHANGED <<kind>>

Next ==
  \/ \E s \in Sub :
       \/ Subscribe(s) \/ Connected(s) \/ ConnectFails(s)
       \/ SampleAfterAbort(s) \/ StreamEnds(s) \/ Closed(s)
  \/ Unsubscribe
  \/ Disconnect

\* A perf stream that has been aborted gets a sample or its recv times out after
\* 30 s; the reads of the StopSession exchange time out. A syslog stream has no
\* timer, and the TLS handshake of a service none either.
Fairness ==
  \A s \in Sub :
    /\ WF_vars(SampleAfterAbort(s) \/ (kind = "perf" /\ s \in aborted /\ StreamEnds(s)))
    /\ WF_vars(Closed(s))

Spec == Init /\ [][Next]_vars /\ Fairness

------------------------------------------------------------------------------
TypeOK ==
  /\ kind \in {"logs", "perf"} /\ client \in BOOLEAN
  /\ current \in Sub \cup {None}
  /\ phase \in [Sub -> Phases]
  /\ aborted \subseteq Sub

\* The key never has the controller of a stream that is over or aborted: a
\* subscribe that is ignored is so because a stream runs, and a stream that
\* failed to connect or ended can be subscribed to again.
EntryIsLive == current # None => Live(current) /\ current \notin aborted

\* The streams of the key that nothing can stop any more.
Orphans == {s \in Sub : Live(s) /\ s \notin aborted /\ current # s}

\* The streams that have been aborted and are over.
Stopped == {s \in aborted : phase[s] = "done"}

\* The finally of a stream can take the controller of another one away, but each
\* abort accounts for one such orphan at most, whatever the orphans themselves do
\* when they end; without an abort a key never has two streams.
OneOrphanPerAbort == Cardinality(Orphans) <= Cardinality(Stopped)

\* A stream that reads when it is aborted comes to its end, and with it its
\* service and its session, even if the device is silent.
AbortEndsStream ==
  \A s \in Sub : phase[s] = "streaming" /\ s \in aborted ~> phase[s] = "done"

\* "AbortSignal Cancel: all streams": while a stream runs and has not been
\* aborted, its key has its controller, so unsubscribe and disconnect stop it.
EveryStreamCanBeStopped ==
  \A s \in Sub : phase[s] = "streaming" /\ s \notin aborted => current = s
==============================================================================
