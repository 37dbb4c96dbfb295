--------------------------------- MODULE Rpc ---------------------------------
(***************************************************************************)
(* What a request/response client of a device service promises its        *)
(* callers, whatever the wire format: every call is settled exactly once,  *)
(* it is answered only if the device has served that very call, and it     *)
(* never stays open for ever.  AfcService is shown to implement this       *)
(* specification, DtxConnection its safety: there a message may end the    *)
(* process with calls still open.                                          *)
(***************************************************************************)

CONSTANT Call  \* the calls an application makes

VARIABLES
  oneWay,   \* the calls that expect no reply: settled once written
  outcome,  \* what each caller has seen: "idle", "open", "answered", "sent", "failed"
  served    \* the calls the device has replied to

vars == <<oneWay, outcome, served>>

Init ==
  /\ outcome = [c \in Call |-> "idle"]
  /\ oneWay = {} /\ served = {}

\* The application makes the call.
Start(c) ==
  /\ outcome[c] = "idle"
  /\ outcome' = [outcome EXCEPT ![c] = "open"]
  /\ oneWay' \in {oneWay, oneWay \cup {c}}
  /\ UNCHANGED served

\* The device replies; the caller may have given up already.
Serve(c) ==
  /\ outcome[c] # "idle"
  /\ c \notin oneWay
  /\ served' = served \cup {c}
  /\ UNCHANGED <<oneWay, outcome>>

\* The call's promise resolves with the device's reply to it.
Answer(c) ==
  /\ outcome[c] = "open"
  /\ c \in served
  /\ outcome' = [outcome EXCEPT ![c] = "answered"]
  /\ UNCHANGED <<oneWay, served>>

\* A one-way call's promise resolves.
Sent(c) ==
  /\ outcome[c] = "open"
  /\ c \in oneWay
  /\ outcome' = [outcome EXCEPT ![c] = "sent"]
  /\ UNCHANGED <<oneWay, served>>

\* Some calls' promises reject together: a timeout or a failed write is one
\* call, a lost connection is every call waiting on it.
Fail(S) ==
  /\ S # {}
  /\ \A c \in S : outcome[c] = "open"
  /\ outcome' = [c \in Call |-> IF c \in S THEN "failed" ELSE outcome[c]]
  /\ UNCHANGED <<oneWay, served>>

Next ==
  \/ \E c \in Call : Start(c) \/ Serve(c) \/ Answer(c) \/ Sent(c)
  \/ \E S \in SUBSET Call : Fail(S)

SafeSpec == Init /\ [][Next]_vars

\* No call stays open for ever.
EveryCallSettles == \A c \in Call : outcome[c] = "open" ~> outcome[c] # "open"

Spec == SafeSpec /\ EveryCallSettles
==============================================================================
