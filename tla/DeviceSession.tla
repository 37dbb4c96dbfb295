---------------------------- MODULE DeviceSession ----------------------------
(***************************************************************************)
(* What a command does with its sockets: a mux connection to usbmuxd that  *)
(* Connect turns into a pipe to lockdownd, a session on it with or without *)
(* TLS, and for each service a mux connection of its own turned into a     *)
(* pipe to the service; or the pairing of a device. One command runs at a  *)
(* time; Table (see CommandTable) says what each opens and closes.         *)
(*                                                                         *)
(* A request is one step with its answer: it may be answered, refused, or  *)
(* fail with its socket left open (a timeout), the worst case for what is  *)
(* left behind. usbmuxd, lockdownd and the services are external.          *)
(***************************************************************************)
EXTENDS Naturals, Sequences

CONSTANTS
  Table,       \* the commands, a function to their rows
  MaxCommands, \* bound: commands of a behaviour
  None         \* no command

Uses == {"lockdown", "list", "pool", "local", "dvt", "afc", "syslog", "installationProxy",
         "diagnostics", "webInspector", "misagent", "simulateLocation", "crashReports",
         "springBoard", "screenshot"}
UseRows == [via : Uses, attempts : 1..4, closed : {"always", "done", "late", "never"}]
Row == [host : {"cli", "app"}, lockdown : BOOLEAN, uses : {q \in Seq(UseRows) : Len(q) <= 2},
        badOpen : {"exit", "close", "leave"}, badRun : {"exit", "close", "leave"},
        onEnd : {"close", "leave"}, lasts : {"once", "stream", "forever", "held", "pair"}]

ASSUME TableAssumption ==
  /\ Table \in [DOMAIN Table -> Row]
  /\ \A c \in DOMAIN Table :    \* a command without lockdown talks to usbmuxd
       ~Table[c].lockdown => Table[c].uses # <<>> /\ Table[c].uses[1].via \in {"list", "pool"}
  /\ None \notin DOMAIN Table
  /\ MaxCommands \in Nat

Lockdown == 0           \* the socket of the lockdown session
Sockets == 0..2         \* and one for each service the command uses
Peers == {"closed", "usbmuxd", "lockdownd", "lockdownd/tls", "service"}
Records == {"none", "full", "noBuid"}

VARIABLES
  cmd,      \* the command that runs, or ran last
  at,       \* where it is; "over" when it has ended
  ran,      \* how many commands were started
  net,      \* who is at the other end of each socket of the command
  client,   \* the LockdownClient and its mux connection: piped (connected), pair
            \* record, sid (sessionId is set), tls (its socket is the TLS one)
  use,      \* the use it is at
  tries,    \* the StartService requests made for it
  last,     \* the last thing written: the language and who got it
  ended,    \* (history) how it went with each socket: "none" as yet, "done", "early"
            \* (the work returned early), "run" (it failed), "open" (the opening of the
            \* use failed), "spoilt" (it did once the socket was connected); of the
            \* lockdown socket, how the last use went
  probed,   \* probeCache: usbmuxd answered this process before
  daemon    \* record: usbmuxd's pair record of the device; trusts: the device
            \* takes this host; accepted: it took the pairing of this command

vars == <<cmd, at, ran, net, client, use, tries, last, ended, probed, daemon>>

Places == {"over", "probe", "mux", "list", "record", "buid", "connect", "initialize",
           "session", "tls", "pair", "save", "start", "dial", "attach", "serviceTls",
           "shake", "run", "stop"}
NoClient == [piped |-> FALSE, record |-> "none", sid |-> FALSE, tls |-> FALSE]
AllClosed == [s \in Sockets |-> "closed"]
Fresh == [s \in Sockets |-> "none"]

Init ==
  /\ cmd = None /\ at = "over" /\ ran = 0
  /\ net = AllClosed /\ client = NoClient /\ use = 0 /\ tries = 0
  /\ last = <<"usbmuxd", "usbmuxd">>
  /\ ended = Fresh /\ probed = FALSE
  /\ daemon \in [record : Records, trusts : BOOLEAN, accepted : {FALSE}]

------------------------------------------------------------------------------
R == Table[cmd]
Pairs == R.lasts = "pair"
Via == R.uses[use].via
Put(s, peer) == [net EXCEPT ![s] = peer]
Says(lang, s) == last' = <<lang, net[s]>>

\* lockdown requests go out on this.socket, plain or TLS.
LockdownLang == IF client.tls THEN "lockdownd/tls" ELSE "lockdownd"

\* So much for the use, and as yet for the command.
Ends(how) == ended' = [ended EXCEPT ![use] = how, ![Lockdown] = how]

\* What becomes of the process and the session after an exception.
After(how) == IF how = "run" THEN R.badRun ELSE R.badOpen

\* An exception leaves the command with these sockets open.
Throw(how, left) ==
  /\ net' = IF After(how) = "exit" THEN AllClosed ELSE left
  /\ at' = IF After(how) = "close" /\ R.lockdown THEN "stop" ELSE "over"
  /\ Ends(how)

\* (mutant) The catch throws on without closing.
CreateThrows == at' = "over" /\ UNCHANGED net

\* The catch of LockdownService.create, the finally of pair.
CreateFails == at' = "over" /\ net' = Put(Lockdown, "closed")

\* Where a use begins: a service is asked for at lockdownd first.
Entry(via) == CASE via = "lockdown" -> "run"
                [] via \in {"list", "pool"} -> "dial"
                [] OTHER -> "start"

\* On to the next use, or to the end.
Advance(how, open) ==
  /\ use' = use + 1 /\ tries' = 0
  /\ at' = IF use < Len(R.uses) THEN Entry(R.uses[use + 1].via)
           ELSE IF R.onEnd = "close" /\ R.lockdown THEN "stop" ELSE "over"
  /\ net' = open
  /\ Ends(how)

------------------------------------------------------------------------------
\* A command of the CLI starts a process of its own.
Begin(c) ==
  /\ at = "over" /\ ran < MaxCommands
  /\ cmd' = c /\ ran' = ran + 1
  /\ LET same == cmd # None /\ R.host = "app" /\ Table[c].host = "app" IN
     /\ probed' = (same /\ probed)
     /\ at' = IF ~Table[c].lockdown THEN "dial" ELSE IF probed' THEN "mux" ELSE "probe"
  /\ use' = IF Table[c].lockdown THEN 0 ELSE 1
  /\ net' = AllClosed /\ client' = NoClient /\ tries' = 0 /\ ended' = Fresh
  /\ daemon' = [daemon EXCEPT !.accepted = FALSE]
  /\ UNCHANGED last

\* UsbMuxConnection.create: a first connection only asks whether usbmuxd is
\* there; a reply or half a second without one will do, and it is destroyed.
Probe ==
  /\ at = "probe"
  /\ \/ at' = "mux" /\ probed' = TRUE /\ last' = <<"usbmuxd", "usbmuxd">>
     \/ at' = "over" /\ UNCHANGED <<probed, last>>
  /\ UNCHANGED <<cmd, ran, net, client, use, tries, ended, daemon>>

OpenMux ==
  /\ at = "mux"
  /\ \/ at' = "list" /\ net' = Put(Lockdown, "usbmuxd")
     \/ at' = "over" /\ UNCHANGED net
  /\ UNCHANGED <<cmd, ran, client, use, tries, last, ended, probed, daemon>>

\* send: assertNotConnected, then the request is written.
ControlRequest == ~client.piped /\ Says("usbmuxd", Lockdown)

ListDevices ==
  /\ at = "list" /\ ControlRequest
  /\ \/ at' = (IF Pairs THEN "buid" ELSE "record") /\ UNCHANGED net
     \/ CreateFails                     \* no such device, or an error
  /\ UNCHANGED <<cmd, ran, client, use, tries, ended, probed, daemon>>

\* NotPairedError is no failure: the session goes on without a record.
GetPairRecord ==
  /\ at = "record" /\ ControlRequest
  /\ \/ /\ client' = [client EXCEPT !.record = daemon.record]
        /\ at' = IF daemon.record = "noBuid" THEN "buid" ELSE "connect"
        /\ UNCHANGED net
     \/ CreateFails /\ UNCHANGED client
  /\ UNCHANGED <<cmd, ran, use, tries, ended, probed, daemon>>

GetBuid ==
  /\ at = "buid" /\ ControlRequest
  /\ \/ at' = "connect" /\ UNCHANGED net
     \/ CreateFails
  /\ UNCHANGED <<cmd, ran, client, use, tries, ended, probed, daemon>>

\* connectDevice: from here the connection is a pipe to the device.
ConnectDevice ==
  /\ at = "connect" /\ ControlRequest
  /\ \/ /\ client' = [client EXCEPT !.piped = TRUE]
        /\ net' = Put(Lockdown, "lockdownd") /\ at' = "initialize"
     \/ CreateFails /\ UNCHANGED client
  /\ UNCHANGED <<cmd, ran, use, tries, ended, probed, daemon>>

\* QueryType, GetValue.
Initialize ==
  /\ at = "initialize" /\ Says(LockdownLang, Lockdown)
  /\ \/ /\ \/ Pairs /\ at' = "pair" /\ UNCHANGED <<use, tries, net, ended>>
           \/ ~Pairs /\ client.record # "none" /\ at' = "session" /\ UNCHANGED <<use, tries, net, ended>>
           \/ ~Pairs /\ client.record = "none" /\ Advance("done", net)
     \/ CreateFails /\ UNCHANGED <<use, tries, ended>>
  /\ UNCHANGED <<cmd, ran, client, probed, daemon>>

\* validatePairing: a MuxException (the device refuses the session) is no
\* failure, and LockdownService.create does not look at the result.
StartSession ==
  /\ at = "session" /\ Says(LockdownLang, Lockdown)
  /\ \/ /\ daemon.trusts /\ client' = [client EXCEPT !.sid = TRUE]
        /\ \/ net' = Put(Lockdown, "lockdownd/tls") /\ at' = "tls" /\ UNCHANGED <<use, tries, ended>>
           \/ Advance("done", net)              \* EnableSessionSSL is not set
     \/ Advance("done", net) /\ UNCHANGED client
     \/ CreateFails /\ UNCHANGED <<client, use, tries, ended>>
  /\ UNCHANGED <<cmd, ran, probed, daemon>>

\* (mutant) The secure socket is made, and this.socket stays the plain one.
UpgradeKeepsSocket ==
  /\ at = "tls"
  /\ Advance("done", net)
  /\ UNCHANGED <<cmd, ran, client, last, probed, daemon>>

\* upgradeToSSL: an error or ten seconds fail it; an error whose message
\* names a session is swallowed, with the socket gone.
UpgradeToSSL ==
  /\ at = "tls"
  /\ \/ client' = [client EXCEPT !.tls = TRUE] /\ Advance("done", net)
     \/ Advance("done", Put(Lockdown, "closed")) /\ UNCHANGED client
     \/ CreateFails /\ UNCHANGED <<client, use, tries, ended>>
  /\ UNCHANGED <<cmd, ran, last, probed, daemon>>

------------------------------------------------------------------------------
\* LockdownClient.pair, its polls of the dialog included (60 s at most), and
\* savePairRecord: a control request on the connection that is a pipe by now.
PairDevice ==
  /\ at = "pair" /\ Says(LockdownLang, Lockdown)
  /\ \/ daemon' = [daemon EXCEPT !.trusts = TRUE, !.accepted = TRUE] /\ at' = "save" /\ UNCHANGED net
     \/ CreateFails /\ UNCHANGED daemon
  /\ UNCHANGED <<cmd, ran, client, use, tries, ended, probed>>

SavePairRecord ==
  /\ at = "save"
  /\ \/ ControlRequest /\ daemon' = [daemon EXCEPT !.record = "full"]
     \/ ControlRequest /\ UNCHANGED daemon
     \/ client.piped /\ UNCHANGED <<last, daemon>>
  /\ CreateFails                        \* the finally, whatever came of it
  /\ UNCHANGED <<cmd, ran, client, use, tries, ended, probed>>

------------------------------------------------------------------------------
\* (mutant) One name too many is tried.
StartServiceOnceMore ==
  /\ at = "start" /\ client.sid /\ Says(LockdownLang, Lockdown)
  /\ \/ at' = "dial" /\ UNCHANGED <<net, tries>>
     \/ tries < R.uses[use].attempts /\ tries' = tries + 1 /\ UNCHANGED <<at, net>>
  /\ UNCHANGED <<cmd, ran, client, use, ended, probed, daemon>>

\* startService, for each name the use may try; without a session it throws.
StartService ==
  /\ at = "start"
  /\ \/ /\ client.sid /\ net[Lockdown] # "closed" /\ Says(LockdownLang, Lockdown)
        /\ at' = "dial" /\ UNCHANGED <<net, tries, ended>>
     \/ /\ \/ client.sid /\ net[Lockdown] # "closed" /\ Says(LockdownLang, Lockdown)
           \/ ~(client.sid /\ net[Lockdown] # "closed") /\ UNCHANGED last
        /\ \/ tries + 1 < R.uses[use].attempts /\ tries' = tries + 1 /\ UNCHANGED <<at, net, ended>>
           \/ tries + 1 >= R.uses[use].attempts /\ Throw("open", net) /\ UNCHANGED tries
           \/ tries = 1 /\ Throw("open", net) /\ UNCHANGED tries   \* no disk image mounted
  /\ UNCHANGED <<cmd, ran, client, use, probed, daemon>>

\* A connection of its own to usbmuxd; the diagnostics socket of enterRecovery
\* is a local one.
Dial ==
  /\ at = "dial"
  /\ \/ /\ net' = Put(use, IF Via = "local" THEN "service" ELSE "usbmuxd")
        /\ at' = CASE Via \in {"local", "list"} -> "run"
                   [] Via = "pool" -> "shake"
                   [] OTHER -> "attach"
        /\ UNCHANGED ended
     \/ Throw("open", net)
  /\ UNCHANGED <<cmd, ran, client, use, tries, last, probed, daemon>>

\* A failure past this point leaves a socket nobody has a hand on.
Spoil == Throw("spoilt", net)

Opened == IF Via = "dvt" THEN "shake" ELSE "run"

Attach ==
  /\ at = "attach" /\ Says("usbmuxd", use)
  /\ \/ net' = Put(use, "service") /\ at' = Opened /\ UNCHANGED ended
     \/ /\ client.record # "none" /\ UNCHANGED ended
        /\ net' = Put(use, "service") /\ at' = "serviceTls"
     \/ Spoil
  /\ UNCHANGED <<cmd, ran, client, use, tries, probed, daemon>>

\* TLS on a service socket; DvtFactory has a timer that destroys it.
ServiceSecure ==
  /\ at = "serviceTls" /\ at' = Opened
  /\ UNCHANGED <<cmd, ran, net, client, use, tries, last, ended, probed, daemon>>

ServiceTlsFails ==
  /\ at = "serviceTls" /\ Throw("open", Put(use, "closed"))
  /\ UNCHANGED <<cmd, ran, client, use, tries, last, probed, daemon>>

\* The handshake of an open that has one: DvtServiceProvider.connect, Listen.
Shake ==
  /\ at = "shake"
  /\ \/ at' = "run" /\ UNCHANGED <<net, ended>>
     \/ Spoil
  /\ UNCHANGED <<cmd, ran, client, use, tries, last, probed, daemon>>

\* The work itself, and the close of what it was done with.
Close(when) ==
  IF Via # "lockdown" /\ R.uses[use].closed \in when THEN Put(use, "closed") ELSE net

Working ==
  IF Via = "lockdown" /\ net[Lockdown] # "closed" THEN Says(LockdownLang, Lockdown) ELSE UNCHANGED last

Finish ==
  /\ at = "run" /\ R.lasts # "forever" /\ Working
  /\ \/ Advance("done", Close({"always", "done", "late"}))
     \/ R.uses[use].closed = "late" /\ Advance("early", Close({"always"}))
  /\ UNCHANGED <<cmd, ran, client, probed, daemon>>

Fail ==
  /\ at = "run" /\ R.lasts \notin {"forever", "held"} /\ Working
  /\ Throw("run", Close({"always"}))
  /\ UNCHANGED <<cmd, ran, client, use, tries, probed, daemon>>

\* SIGINT: the handler closes what it knows and calls process.exit.
Interrupt ==
  /\ at = "run" /\ R.host = "cli" /\ R.lasts \in {"stream", "forever"}
  /\ at' = "over" /\ net' = AllClosed
  /\ UNCHANGED <<cmd, ran, client, use, tries, last, ended, probed, daemon>>

\* (mutant) The socket is destroyed when StopSession has been answered.
StopSessionWaits ==
  /\ at = "stop" /\ ~client.sid
  /\ at' = "over" /\ net' = Put(Lockdown, "closed")
  /\ UNCHANGED <<cmd, ran, client, use, tries, last, ended, probed, daemon>>

\* LockdownClient.close: StopSession if there is a session, its failure
\* ignored, then the socket is destroyed.
StopSession ==
  /\ at = "stop"
  /\ IF client.sid /\ net[Lockdown] # "closed" THEN Says(LockdownLang, Lockdown) ELSE UNCHANGED last
  /\ at' = "over" /\ net' = Put(Lockdown, "closed")
  /\ UNCHANGED <<cmd, ran, client, use, tries, ended, probed, daemon>>

------------------------------------------------------------------------------
\* Steps the code takes by itself, or its timers force.
Step ==
  \/ Probe \/ OpenMux \/ ListDevices \/ GetPairRecord \/ GetBuid \/ ConnectDevice
  \/ Initialize \/ StartSession \/ UpgradeToSSL \/ PairDevice \/ SavePairRecord
  \/ StartService \/ Dial \/ Attach \/ Shake \/ StopSession

Secured == ServiceSecure \/ ServiceTlsFails
Work == Finish \/ Fail

Next == Step \/ Secured \/ Work \/ Interrupt \/ \E c \in DOMAIN Table : Begin(c)

\* The TLS of a service has a timer only under DvtFactory; one request and its
\* reply are timed, a stream or what a caller holds is not.
Fairness ==
  /\ WF_vars(Step)
  /\ WF_vars(Secured /\ Via = "dvt")
  /\ WF_vars(Work /\ R.lasts = "once")

Spec == Init /\ [][Next]_vars /\ Fairness

------------------------------------------------------------------------------
TypeOK ==
  /\ cmd \in DOMAIN Table \cup {None} /\ at \in Places /\ ran \in Nat
  /\ net \in [Sockets -> Peers]
  /\ client \in [piped : BOOLEAN, record : Records, sid : BOOLEAN, tls : BOOLEAN]
  /\ use \in 0..3 /\ tries \in 0..3
  /\ last \in Peers \X Peers
  /\ ended \in [Sockets -> {"none", "done", "early", "run", "open", "spoilt"}] /\ probed \in BOOLEAN
  /\ daemon \in [record : Records, trusts : BOOLEAN, accepted : BOOLEAN]

\* Whatever is written goes to one who speaks that language: no control request
\* reaches lockdownd through a connection that has become a pipe, no lockdown
\* request reaches usbmuxd, and none is sent in the clear once the device waits
\* for TLS, nor in TLS before.
Understood == last[1] = last[2]

\* The way the use of s went is one on which the row does not close it.
Slipped(s) ==
  \/ ended[s] = "run" /\ R.uses[s].closed \in {"done", "late"}
  \/ ended[s] = "early" /\ R.uses[s].closed = "late"
  \/ ended[s] \in {"run", "done"} /\ R.uses[s].closed = "never"

\* When a command is over, a socket is open only for what happened to it: its
\* opening failed once it was connected; its work failed, or returned early,
\* where the row closes it after work that was done; the row never closes it; or,
\* the lockdown socket, the row leaves it after just that end. No other error on
\* the way, no refused session, retry or earlier use leaves anything behind.
NothingLeftOpen ==
  (at = "over" /\ cmd # None) =>
    \A s \in Sockets : net[s] # "closed" =>
      IF s = Lockdown
      THEN IF ended[s] \in {"done", "early"} THEN R.onEnd = "leave" ELSE After(ended[s]) = "leave"
      ELSE s \in DOMAIN R.uses /\ (ended[s] = "spoilt" \/ Slipped(s))

\* A command ends, whatever the device and usbmuxd answer or do not answer; the
\* exceptions are the TLS handshake of ServiceFactory, which has no timer, and
\* work that lasts by its nature.
CommandEnds ==
  (at # "over") ~>
    \/ at = "over"
    \/ at = "serviceTls" /\ Via # "dvt"
    \/ at = "run" /\ R.lasts # "once"

\* What `lockdown pair` says of itself: it "generates host certificate + saves
\* pair record". When the device has accepted, the last thing the command says
\* is the SavePairRecord request, to usbmuxd.
PairingSaved == (at = "over" /\ daemon.accepted) => last = <<"usbmuxd", "usbmuxd">>
==============================================================================
