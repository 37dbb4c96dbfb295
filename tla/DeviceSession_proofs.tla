------------------------- MODULE DeviceSession_proofs -------------------------
(* What holds of every table of commands, however many of them run.           *)
EXTENDS DeviceSession, SequenceTheorems, TLAPS

Early == {"probe", "mux", "list", "record", "buid", "connect", "initialize", "session",
          "tls", "pair", "save"}
Opening == {"start", "dial", "attach", "serviceTls", "shake"}
Late == Opening \cup {"run", "stop"}

\* Where a command is says which use it is at.
UseInRange ==
  /\ at # "over" => cmd \in DOMAIN Table
  /\ at \in Early => use = 0 /\ R.lockdown /\ ~client.tls
  /\ at \in Opening \cup {"run"} => use \in 1..Len(R.uses)
  /\ at \in Opening => Via # "lockdown"
  /\ at = "stop" => R.lockdown

\* The other end of the lockdown socket, from the probe to the close: once it is a
\* pipe, TLS is on at both ends or at none.
LockdownPeer ==
  /\ at \in {"probe", "mux"} => net[Lockdown] = "closed"
  /\ at \in {"list", "record", "buid", "connect"} => net[Lockdown] = "usbmuxd"
  /\ at \in {"initialize", "session", "pair"} => net[Lockdown] = "lockdownd"
  /\ at \in {"initialize", "pair", "save"} => client.piped
  /\ at = "tls" => net[Lockdown] = "lockdownd/tls"
  /\ at \in Late => net[Lockdown] \in {"closed", LockdownLang}
  /\ (cmd # None /\ ~R.lockdown) => net[Lockdown] = "closed"

\* A socket that was left behind, for what happened to it.
Excused(s) == s \in DOMAIN R.uses /\ (ended[s] = "spoilt" \/ Slipped(s))
Endings == {"none", "done", "early", "run", "open", "spoilt"}

\* The other ends of the service sockets: none before its use has dialed, usbmuxd
\* until Connect, and those of the uses that are over are closed or excused.
ServicePeers ==
  /\ \A s \in 1..2 : s > use => net[s] = "closed"
  /\ at \in {"start", "dial"} => net[use] = "closed"
  /\ at = "attach" => net[use] = "usbmuxd"
  /\ (at = "run" /\ Via = "lockdown") => net[use] = "closed"
  /\ cmd # None => \A s \in 1..2 :
       (s < use \/ at \in {"over", "stop"}) /\ net[s] # "closed" => Excused(s)

\* The inductive invariant.
IInv == TypeOK /\ UseInRange /\ LockdownPeer /\ ServicePeers /\ Understood /\ NothingLeftOpen

------------------------------------------------------------------------------
\* What the table says of one command.
LEMMA RowOf ==
  ASSUME NEW c \in DOMAIN Table
  PROVE  /\ Table[c] \in Row
         /\ Table[c].lockdown \in BOOLEAN
         /\ Len(Table[c].uses) \in 0..2 /\ DOMAIN Table[c].uses = 1..Len(Table[c].uses)
         /\ \A k \in 1..Len(Table[c].uses) :
              Table[c].uses[k] \in UseRows /\ Table[c].uses[k].via \in Uses
         /\ ~Table[c].lockdown => Len(Table[c].uses) # 0 /\ Table[c].uses[1].via \in {"list", "pool"}
<1>1. Table[c] \in Row
  BY TableAssumption
<1>2. Table[c].uses \in Seq(UseRows) /\ Len(Table[c].uses) <= 2
  BY <1>1 DEF Row
<1>3. Len(Table[c].uses) \in Nat /\ DOMAIN Table[c].uses = 1..Len(Table[c].uses)
  BY <1>2, LenProperties
<1>4. \A k \in 1..Len(Table[c].uses) : Table[c].uses[k] \in UseRows
  BY <1>2, ElementOfSeq
<1>5. \A r \in UseRows : r.via \in Uses
  BY DEF UseRows
<1>6. Table[c].uses # <<>> => Len(Table[c].uses) # 0
  BY <1>2, EmptySeq
<1>7. \A n \in Nat : n <= 2 => n \in 0..2
  OBVIOUS
<1> QED
  BY <1>1, <1>2, <1>3, <1>4, <1>5, <1>6, <1>7, TableAssumption DEF Row

\* The invariant about sockets holds after a command has gone on to its next use
\* with these sockets open.
LEMMA AfterAdvance ==
  ASSUME IInv, at # "over", NEW open \in [Sockets -> Peers],
         NEW how \in {"done", "early"}, Advance(how, open), cmd' = cmd,
         at = "run" \/ use = 0,
         \A s \in 1..2 : s > use => open[s] = "closed",
         \A s \in 1..2 : s <= use /\ open[s] # "closed" => Excused(s)',
         open[Lockdown] \in {"closed", LockdownLang'},
         ~R.lockdown => open[Lockdown] = "closed"
  PROVE  UseInRange' /\ LockdownPeer' /\ ServicePeers' /\ NothingLeftOpen'
<1>1. cmd \in DOMAIN Table /\ use \in 0..2 /\ use <= Len(R.uses)
  BY RowOf DEF IInv, TypeOK, UseInRange, R, Early, Opening, Places
<1>0. ended' = [ended EXCEPT ![use] = how, ![Lockdown] = how] /\ ended'[Lockdown] = how
  BY DEF Advance, Ends, IInv, TypeOK, Sockets, Lockdown
<1>2. UseInRange'
  BY <1>1, RowOf DEF UseInRange, Advance, R, Via, Entry, Early, Opening, Uses
<1>3. LockdownPeer'
  BY <1>1, RowOf DEF LockdownPeer, Advance, R, Entry, Late, Opening, Lockdown, Uses
<1>4. ServicePeers'
  BY <1>1, RowOf DEF ServicePeers, Advance, R, Via, Entry, Sockets, Uses
<1>5. NothingLeftOpen'
  BY <1>0, <1>1, <1>4, RowOf
  DEF NothingLeftOpen, ServicePeers, Excused, Advance, R, Entry, Sockets, Lockdown, Row
<1> QED
  BY <1>2, <1>3, <1>4, <1>5

\* The same after an exception in an opening or in the work of a use.
LEMMA AfterThrow ==
  ASSUME IInv, at \in Opening \cup {"run"},
         NEW left \in [Sockets -> Peers], NEW how \in {"run", "open", "spoilt"}, Throw(how, left),
         cmd' = cmd, use' = use, client' = client,
         \A s \in 1..2 : s # use => left[s] = net[s],
         left[use] # "closed" => Excused(use)',
         left[Lockdown] = net[Lockdown]
  PROVE  UseInRange' /\ LockdownPeer' /\ ServicePeers' /\ NothingLeftOpen'
<1>1. cmd \in DOMAIN Table /\ use \in 1..2 /\ use <= Len(R.uses)
  BY RowOf DEF IInv, UseInRange, R, Opening
<1>0. /\ ended' = [ended EXCEPT ![use] = how, ![Lockdown] = how] /\ ended'[Lockdown] = how
      /\ \A s \in 1..2 : s # use => ended'[s] = ended[s]
      /\ After(how) \in {"exit", "close", "leave"} /\ After(ended[Lockdown])' = After(how)
  <2>1. R \in Row
    BY <1>1, RowOf DEF R
  <2> QED
    BY <1>1, <2>1 DEF Throw, Ends, After, R, Row, IInv, TypeOK, Sockets, Lockdown
<1>2. UseInRange'
  BY <1>1, RowOf DEF UseInRange, Throw, R, Early, Opening
<1>3. LockdownPeer'
  BY <1>1, RowOf DEF IInv, LockdownPeer, Throw, R, Late, Opening, Lockdown, AllClosed, Sockets, LockdownLang
<1>4. ServicePeers'
  <2>1. \A s \in 1..2 : s # use /\ Excused(s) => Excused(s)'
    BY <1>0 DEF Excused, Slipped, R
  <2> QED
    BY <1>0, <1>1, <2>1, RowOf DEF IInv, ServicePeers, Throw, R, AllClosed, Sockets, Opening
<1>5. NothingLeftOpen'
  <2>1. CASE After(how) = "exit"
    BY <2>1 DEF Throw, NothingLeftOpen, AllClosed
  <2>2. CASE After(how) = "close" /\ R.lockdown
    BY <2>2 DEF Throw, NothingLeftOpen
  <2>3. CASE After(how) = "leave" \/ ~R.lockdown
    <3>1. net'[Lockdown] # "closed" => After(ended[Lockdown])' = "leave" /\ ended'[Lockdown] \notin {"done", "early"}
      BY <1>0, <1>3, <2>3, <1>1, TableAssumption DEF LockdownPeer, R
    <3>2. \A s \in Sockets : s # Lockdown => s \in 1..2
      BY DEF Sockets, Lockdown
    <3> QED
      BY <1>4, <3>1, <3>2 DEF NothingLeftOpen, ServicePeers, Excused
  <2> QED
    BY <1>0, <2>1, <2>2, <2>3
<1> QED
  BY <1>2, <1>3, <1>4, <1>5

\* The same when the catch of LockdownService.create, or the finally of pair, has
\* closed the lockdown socket.
LEMMA AfterCreateFails ==
  ASSUME IInv, at \in Early, CreateFails, cmd' = cmd, use' = use
  PROVE  UseInRange' /\ LockdownPeer' /\ ServicePeers' /\ NothingLeftOpen'
<1>1. cmd \in DOMAIN Table /\ use = 0
  BY DEF IInv, UseInRange, Early
<1>2. net' = [net EXCEPT ![0] = "closed"] /\ at' = "over" /\ net \in [Sockets -> Peers]
  BY DEF CreateFails, Put, IInv, TypeOK, Lockdown
<1>3. \A s \in Sockets : net'[s] = "closed"
  BY <1>1, <1>2 DEF IInv, ServicePeers, Sockets
<1> QED
  BY <1>1, <1>2, <1>3
  DEF UseInRange, LockdownPeer, ServicePeers, NothingLeftOpen, Early, Opening, Late, Sockets, Lockdown

------------------------------------------------------------------------------
\* The types, after each of the three ways on.
LEMMA TypesOfMoves ==
  ASSUME TypeOK, cmd \in DOMAIN Table
  PROVE  /\ R \in Row /\ LockdownLang \in Peers
         /\ \A s \in Sockets, p \in Peers : Put(s, p) \in [Sockets -> Peers]
         /\ AllClosed \in [Sockets -> Peers]
         /\ CreateFails => at' \in Places /\ net' \in [Sockets -> Peers]
         /\ \A open \in [Sockets -> Peers], how \in Endings :
              use \in 0..2 /\ use <= Len(R.uses) /\ Advance(how, open) =>
                /\ use' \in 0..3 /\ tries' \in 0..3 /\ at' \in Places /\ net' \in [Sockets -> Peers]
                /\ ended' \in [Sockets -> Endings]
         /\ \A left \in [Sockets -> Peers], how \in Endings : Throw(how, left) =>
              at' \in Places /\ net' \in [Sockets -> Peers] /\ ended' \in [Sockets -> Endings]
<1>1. R \in Row /\ R.lockdown \in BOOLEAN
  BY RowOf DEF R
<1>2. LockdownLang \in Peers /\ AllClosed \in [Sockets -> Peers]
  BY DEF LockdownLang, Peers, AllClosed
<1>3. \A s \in Sockets, p \in Peers : Put(s, p) \in [Sockets -> Peers]
  BY DEF Put, TypeOK
<1>4. "closed" \in Peers /\ Lockdown \in Sockets
  BY DEF Peers, Lockdown, Sockets
<1>5. CreateFails => at' \in Places /\ net' \in [Sockets -> Peers]
  BY <1>3, <1>4 DEF CreateFails, Places
<1>0. \A how \in Endings : Ends(how) => ended' \in [Sockets -> Endings]
  BY DEF Ends, TypeOK, Endings
<1>6. ASSUME NEW open \in [Sockets -> Peers], NEW how \in Endings, use \in 0..2, Advance(how, open)
      PROVE  /\ use' \in 0..3 /\ tries' \in 0..3 /\ at' \in Places /\ net' \in [Sockets -> Peers]
             /\ ended' \in [Sockets -> Endings]
  <2>1. \A via : Entry(via) \in Places
    BY DEF Entry, Places
  <2>2. at' \in Places
    BY <1>6, <2>1 DEF Advance, Places
  <2> QED
    BY <1>0, <1>6, <2>2 DEF Advance
<1>7. ASSUME NEW left \in [Sockets -> Peers], NEW how \in Endings, Throw(how, left)
      PROVE  at' \in Places /\ net' \in [Sockets -> Peers] /\ ended' \in [Sockets -> Endings]
  BY <1>0, <1>2, <1>7 DEF Throw, Places
<1> QED
  BY <1>1, <1>2, <1>3, <1>5, <1>6, <1>7

\* The peers of the control requests and of the lockdown session are peers.
LEMMA PeersOfMoves ==
  ASSUME TypeOK
  PROVE  /\ {"closed", "usbmuxd", "lockdownd", "lockdownd/tls", "service"} \subseteq Peers
         /\ \A s \in Sockets : net[s] \in Peers
         /\ 0..2 = Sockets /\ Lockdown \in Sockets
BY DEF Peers, TypeOK, Sockets, Lockdown

\* The LockdownClient of TypeOK, and what is set in it.
Clients == [piped : BOOLEAN, record : Records, sid : BOOLEAN, tls : BOOLEAN]

LEMMA ClientTypes ==
  ASSUME NEW c \in Clients
  PROVE  /\ [c EXCEPT !.piped = TRUE] \in Clients
         /\ [c EXCEPT !.sid = TRUE] \in Clients
         /\ [c EXCEPT !.tls = TRUE] \in Clients
BY DEF Clients

\* The ways on from the session request and from its TLS handshake.
LEMMA SecureWays ==
  /\ StartSession =>
       \/ net' = Put(Lockdown, "lockdownd/tls") /\ at' = "tls" /\ UNCHANGED <<use, tries, ended>>
       \/ Advance("done", net)
       \/ CreateFails /\ UNCHANGED <<use, tries, ended>>
  /\ UpgradeToSSL =>
       \/ Advance("done", net) \/ Advance("done", Put(Lockdown, "closed"))
       \/ CreateFails /\ UNCHANGED <<use, tries, ended>>
<1>1. StartSession =>
       \/ net' = Put(Lockdown, "lockdownd/tls") /\ at' = "tls" /\ UNCHANGED <<use, tries, ended>>
       \/ Advance("done", net)
       \/ CreateFails /\ UNCHANGED <<use, tries, ended>>
  BY DEF StartSession
<1>2. UpgradeToSSL =>
       \/ Advance("done", net) \/ Advance("done", Put(Lockdown, "closed"))
       \/ CreateFails /\ UNCHANGED <<use, tries, ended>>
  BY DEF UpgradeToSSL
<1> QED
  BY <1>1, <1>2

\* Steps keep the invariant: until there is a session.
LEMMA EarlySteps ==
  ASSUME IInv,
         Probe \/ OpenMux \/ ListDevices \/ GetPairRecord \/ GetBuid \/ ConnectDevice \/ Initialize
           \/ StartSession \/ UpgradeToSSL \/ PairDevice \/ SavePairRecord
  PROVE  IInv'
<1> USE DEF IInv
<1> DEFINE Rest == UseInRange' /\ LockdownPeer' /\ ServicePeers' /\ NothingLeftOpen'
<1>1. at \in Early /\ cmd \in DOMAIN Table /\ use = 0 /\ ~client.tls /\ LockdownLang = "lockdownd"
      /\ at # "over" /\ R.lockdown
  BY DEF Probe, OpenMux, ListDevices, GetPairRecord, GetBuid, ConnectDevice, Initialize,
         StartSession, UpgradeToSSL, PairDevice, SavePairRecord, Early, UseInRange, LockdownLang
<1>2. Understood'
  BY <1>1 DEF Understood, LockdownPeer, Probe, OpenMux, ListDevices, GetPairRecord, GetBuid,
         ConnectDevice, Initialize, StartSession, UpgradeToSSL, PairDevice, SavePairRecord,
         Says, ControlRequest, Lockdown, LockdownLang, Early
<1>3. use \in 0..2 /\ use <= Len(R.uses) /\ net \in [Sockets -> Peers]
  BY <1>1, RowOf DEF TypeOK, R
<1>4. \A s \in 1..2 : s \in Sockets /\ net[s] = "closed"
  BY <1>1 DEF ServicePeers, Sockets
<1>5. ASSUME CreateFails, cmd' = cmd, use' = use  PROVE Rest
  BY <1>1, <1>5, AfterCreateFails
<1>6. ASSUME NEW open \in [Sockets -> Peers], Advance("done", open), cmd' = cmd,
             \A s \in 1..2 : open[s] = "closed", open[Lockdown] \in {"closed", LockdownLang'}
      PROVE  Rest
  BY <1>1, <1>4, <1>6, AfterAdvance
<1>7. ASSUME at' \in Early, cmd' = cmd, use' = use, ~client'.tls, LockdownPeer',
             \A s \in 1..2 : net'[s] = "closed"
      PROVE  Rest
  BY <1>1, <1>3, <1>7
  DEF UseInRange, ServicePeers, NothingLeftOpen, Early, Opening, Late, R
<1>8. /\ \A p \in Peers : Put(Lockdown, p) \in [Sockets -> Peers]
      /\ \A p \in Peers : Put(Lockdown, p)[Lockdown] = p
      /\ \A p \in Peers : \A s \in 1..2 : Put(Lockdown, p)[s] = "closed"
  BY <1>3, <1>4 DEF Put, Lockdown, Sockets
<1> DEFINE TypeOfWay == /\ use' \in 0..3 /\ tries' \in 0..3 /\ at' \in Places
                        /\ net' \in [Sockets -> Peers] /\ ended' \in [Sockets -> Endings]
<1>9. /\ use \in 0..3 /\ tries \in 0..3 /\ ended \in [Sockets -> Endings]
      /\ CreateFails => at' \in Places /\ net' \in [Sockets -> Peers]
      /\ \A open \in [Sockets -> Peers] : Advance("done", open) => TypeOfWay
  <2>1. "done" \in Endings /\ ended \in [Sockets -> Endings]
    BY DEF Endings, TypeOK
  <2> QED
    BY <1>1, <1>3, <2>1, TypesOfMoves DEF TypeOK
<1> USE DEF Early, LockdownPeer, Late, Opening, R
<1>11. CASE Probe
  <2>1. TypeOK'
    <3>1. probed' \in BOOLEAN
      BY <1>11 DEF Probe, TypeOK
    <3> QED
      BY <3>1, <1>11 DEF Probe, TypeOK, Places, Peers
  <2>2. CASE at' = "mux"
    BY <1>2, <2>1, <1>1, <1>4, <1>7, <2>2, <1>11 DEF Probe
  <2>3. CASE at' = "over"
    BY <1>2, <2>1, <1>1, <1>4, <2>3, <1>11
    DEF Probe, UseInRange, ServicePeers, NothingLeftOpen, Sockets, Lockdown
  <2> QED
    BY <1>2, <2>1, <2>2, <2>3, <1>11 DEF Probe
<1>12. CASE OpenMux
  <2>1. TypeOK'
    BY <1>12, <1>8 DEF OpenMux, TypeOK, Places, Peers
  <2>2. CASE at' = "list" /\ net' = Put(Lockdown, "usbmuxd")
    BY <1>2, <2>1, <1>1, <1>7, <1>8, <2>2, <1>12 DEF OpenMux, Peers
  <2>3. CASE at' = "over" /\ net' = net
    BY <1>2, <2>1, <1>1, <1>4, <2>3, <1>12
    DEF OpenMux, UseInRange, ServicePeers, NothingLeftOpen, Sockets, Lockdown
  <2> QED
    BY <1>2, <2>1, <2>2, <2>3, <1>12 DEF OpenMux
<1>13. CASE ListDevices
  <2>1. TypeOK'
    BY <1>1, <1>13, TypesOfMoves, PeersOfMoves DEF ListDevices, ControlRequest, Says, TypeOK, Places
  <2>2. CASE CreateFails
    BY <1>2, <2>1, <1>5, <2>2, <1>13 DEF ListDevices
  <2>3. CASE at' \in {"buid", "record"} /\ net' = net
    BY <1>2, <2>1, <1>1, <1>4, <1>7, <2>3, <1>13 DEF ListDevices
  <2> QED
    BY <1>2, <2>1, <2>2, <2>3, <1>13 DEF ListDevices
<1>14. CASE GetPairRecord
  <2>1. TypeOK'
    BY <1>1, <1>14, TypesOfMoves, PeersOfMoves DEF GetPairRecord, ControlRequest, Says, TypeOK, Places
  <2>2. CASE CreateFails
    BY <1>2, <2>1, <1>5, <2>2, <1>14 DEF GetPairRecord
  <2>3. CASE at' \in {"buid", "connect"} /\ net' = net /\ client'.tls = client.tls
    BY <1>2, <2>1, <1>1, <1>4, <1>7, <2>3, <1>14 DEF GetPairRecord
  <2> QED
    BY <1>2, <2>1, <2>2, <2>3, <1>14 DEF GetPairRecord, TypeOK
<1>15. CASE GetBuid
  <2>1. TypeOK'
    BY <1>1, <1>15, TypesOfMoves, PeersOfMoves DEF GetBuid, ControlRequest, Says, TypeOK, Places
  <2>2. CASE CreateFails
    BY <1>2, <2>1, <1>5, <2>2, <1>15 DEF GetBuid
  <2>3. CASE at' = "connect" /\ net' = net
    BY <1>2, <2>1, <1>1, <1>4, <1>7, <2>3, <1>15 DEF GetBuid
  <2> QED
    BY <1>2, <2>1, <2>2, <2>3, <1>15 DEF GetBuid
<1>16. CASE ConnectDevice
  <2>1. TypeOK'
    <3>1. client \in Clients
      BY DEF TypeOK, Clients
    <3>2. client' = [client EXCEPT !.piped = TRUE] \/ client' = client
      BY <1>16 DEF ConnectDevice
    <3>3. client' \in Clients
      BY <3>1, <3>2, ClientTypes
    <3>9. Put(Lockdown, "lockdownd") \in [Sockets -> Peers] /\ tries \in 0..3
          /\ (CreateFails => at' \in Places /\ net' \in [Sockets -> Peers])
      BY <1>1, <1>8, TypesOfMoves, PeersOfMoves DEF TypeOK
    <3>4. /\ UNCHANGED <<use, tries>>
          /\ ((net' = Put(Lockdown, "lockdownd") /\ at' = "initialize") \/ CreateFails)
      BY <1>16 DEF ConnectDevice
    <3>5. net' \in [Sockets -> Peers] /\ at' \in Places /\ use' \in 0..3 /\ tries' \in 0..3
      BY <3>4, <3>9, <1>1, <1>3 DEF Places
    <3>6. last' \in Peers \X Peers
      BY <1>1, <1>16, <1>8, TypesOfMoves, PeersOfMoves DEF TypeOK, ConnectDevice, ControlRequest, Says, Places
    <3> QED
      BY <3>3, <3>5, <3>6, <1>1, <1>16 DEF TypeOK, Clients, ConnectDevice
  <2>2. CASE CreateFails
    BY <1>2, <2>1, <1>5, <2>2, <1>16 DEF ConnectDevice
  <2>3. CASE at' = "initialize" /\ net' = Put(Lockdown, "lockdownd")
             /\ client' = [client EXCEPT !.piped = TRUE]
    BY <1>2, <2>1, <1>1, <1>7, <1>8, <2>3, <1>16 DEF ConnectDevice, Peers, TypeOK
  <2> QED
    BY <1>2, <2>1, <2>2, <2>3, <1>16 DEF ConnectDevice
<1>17. CASE Initialize
  <2>1. TypeOK'
    <3>1. UNCHANGED <<cmd, ran, client, probed, daemon>> /\ last' \in Peers \X Peers
      BY <1>17, PeersOfMoves DEF Initialize, Says, LockdownLang, TypeOK
    <3>2. \/ at' \in {"pair", "session"} /\ UNCHANGED <<use, tries, net, ended>>
          \/ Advance("done", net)
          \/ CreateFails /\ UNCHANGED <<use, tries, ended>>
      BY <1>17 DEF Initialize
    <3>3. TypeOfWay
      BY <1>3, <1>9, <3>2 DEF Places, TypeOK, Endings
    <3> QED
      BY <3>1, <3>3 DEF TypeOK, Endings
  <2>2. CASE CreateFails /\ UNCHANGED <<use, tries, ended>>
    BY <1>2, <2>1, <1>5, <2>2, <1>17 DEF Initialize
  <2>3. CASE at' \in {"pair", "session"} /\ net' = net /\ use' = use
    BY <1>2, <2>1, <1>1, <1>4, <1>7, <2>3, <1>17 DEF Initialize
  <2>4. CASE Advance("done", net)
    BY <1>2, <2>1, <1>1, <1>3, <1>4, <1>6, <2>4, <1>17 DEF Initialize, LockdownLang
  <2> QED
    BY <1>2, <2>1, <2>2, <2>3, <2>4, <1>17 DEF Initialize
<1>18. CASE StartSession
  <2>1. TypeOK'
    <3>1. client \in Clients
      BY DEF TypeOK, Clients
    <3>2. client' = [client EXCEPT !.sid = TRUE] \/ client' = client
      BY <1>18 DEF StartSession
    <3>3. client' \in Clients
      BY <3>1, <3>2, ClientTypes
    <3>4. \/ net' = Put(Lockdown, "lockdownd/tls") /\ at' = "tls" /\ UNCHANGED <<use, tries, ended>>
          \/ Advance("done", net)
          \/ CreateFails /\ UNCHANGED <<use, tries, ended>>
      BY <1>18, SecureWays
    <3>5. TypeOfWay
      BY <3>4, <1>3, <1>8, <1>9, PeersOfMoves DEF Places
    <3>6. last' \in Peers \X Peers
      BY <1>1, <1>18, PeersOfMoves DEF TypeOK, StartSession, Says
    <3>7. UNCHANGED <<cmd, ran, probed, daemon>>
      BY <1>18 DEF StartSession
    <3> QED
      BY <3>3, <3>5, <3>6, <3>7 DEF TypeOK, Clients, Endings
  <2>2. CASE CreateFails /\ UNCHANGED <<client, use, tries, ended>>
    BY <1>2, <2>1, <1>5, <2>2, <1>18 DEF StartSession
  <2>3. CASE client' = [client EXCEPT !.sid = TRUE]
             /\ net' = Put(Lockdown, "lockdownd/tls") /\ at' = "tls" /\ use' = use
    BY <1>2, <2>1, <1>1, <1>7, <1>8, <2>3, <1>18 DEF StartSession, Peers, TypeOK
  <2>4. CASE Advance("done", net) /\ client'.tls = client.tls
    BY <1>2, <2>1, <1>1, <1>3, <1>4, <1>6, <2>4, <1>18 DEF StartSession, LockdownLang
  <2> QED
    BY <1>2, <2>1, <2>2, <2>3, <2>4, <1>18 DEF StartSession, TypeOK
<1>19. CASE UpgradeToSSL
  <2>1. TypeOK'
    <3>1. client \in Clients
      BY DEF TypeOK, Clients
    <3>2. client' = [client EXCEPT !.tls = TRUE] \/ client' = client
      BY <1>19 DEF UpgradeToSSL
    <3>3. client' \in Clients
      BY <3>1, <3>2, ClientTypes
    <3>4. \/ Advance("done", net) \/ Advance("done", Put(Lockdown, "closed"))
          \/ CreateFails /\ UNCHANGED <<use, tries, ended>>
      BY <1>19, SecureWays
    <3>5. TypeOfWay
      BY <3>4, <1>3, <1>8, <1>9, PeersOfMoves DEF Places
    <3>6. last' \in Peers \X Peers /\ UNCHANGED <<cmd, ran, probed, daemon>>
      BY <1>19 DEF TypeOK, UpgradeToSSL
    <3> QED
      BY <3>3, <3>5, <3>6 DEF TypeOK, Clients, Endings
  <2>2. CASE CreateFails /\ UNCHANGED <<client, use, tries, ended>>
    BY <1>2, <2>1, <1>5, <2>2, <1>19 DEF UpgradeToSSL
  <2>3. CASE client' = [client EXCEPT !.tls = TRUE] /\ Advance("done", net)
    BY <1>2, <2>1, <1>1, <1>3, <1>4, <1>6, <2>3, <1>19 DEF UpgradeToSSL, LockdownLang, TypeOK
  <2>4. CASE Advance("done", Put(Lockdown, "closed"))
    BY <1>2, <2>1, <1>6, <1>8, <2>4, <1>19, PeersOfMoves DEF UpgradeToSSL
  <2> QED
    BY <1>2, <2>1, <2>2, <2>3, <2>4, <1>19 DEF UpgradeToSSL
<1>20. CASE PairDevice
  <2>1. TypeOK'
    BY <1>1, <1>20, TypesOfMoves, PeersOfMoves DEF PairDevice, Says, TypeOK, Places
  <2>2. CASE CreateFails
    BY <1>2, <2>1, <1>5, <2>2, <1>20 DEF PairDevice
  <2>3. CASE at' = "save" /\ net' = net
    BY <1>2, <2>1, <1>1, <1>4, <1>7, <2>3, <1>20 DEF PairDevice
  <2> QED
    BY <1>2, <2>1, <2>2, <2>3, <1>20 DEF PairDevice
<1>21. CASE SavePairRecord
  <2>1. TypeOK'
    BY <1>1, <1>21, TypesOfMoves, PeersOfMoves DEF SavePairRecord, ControlRequest, Says, TypeOK, Records
  <2>2. CreateFails
    BY <1>21 DEF SavePairRecord
  <2> QED
    BY <1>2, <1>5, <2>1, <2>2, <1>21 DEF SavePairRecord
<1> QED
  BY <1>11, <1>12, <1>13, <1>14, <1>15, <1>16, <1>17, <1>18, <1>19, <1>20, <1>21

------------------------------------------------------------------------------
\* What the row of the command and the use it is at say, for an action of a use.
LEMMA AtAUse ==
  ASSUME IInv, at \in Opening \cup {"run"}
  PROVE  /\ cmd \in DOMAIN Table /\ use \in 1..2 /\ use <= Len(R.uses) /\ use \in DOMAIN R.uses
         /\ R.uses[use] \in UseRows /\ R.uses[use].attempts \in 1..4
         /\ R.badOpen \in {"exit", "close", "leave"} /\ R.badRun \in {"exit", "close", "leave"}
         /\ net \in [Sockets -> Peers] /\ use \in Sockets /\ use # Lockdown
         /\ net[Lockdown] \in {"closed", LockdownLang} /\ LockdownLang \in Peers
         /\ \A p \in Peers : /\ Put(use, p) \in [Sockets -> Peers]
                             /\ Put(use, p)[use] = p
                             /\ \A s \in Sockets : s # use => Put(use, p)[s] = net[s]
<1>1. cmd \in DOMAIN Table /\ use \in 1..Len(R.uses)
  BY DEF IInv, UseInRange, Opening
<1>2. /\ R \in Row /\ Len(R.uses) \in 0..2 /\ DOMAIN R.uses = 1..Len(R.uses)
      /\ R.uses[use] \in UseRows
  BY <1>1, RowOf DEF R
<1>3. use \in 1..2 /\ use <= Len(R.uses) /\ use \in DOMAIN R.uses /\ use \in Sockets /\ use # Lockdown
  BY <1>1, <1>2 DEF Sockets, Lockdown
<1>4. net \in [Sockets -> Peers]
  BY DEF IInv, TypeOK
<1>5. R.uses[use].attempts \in 1..4
  BY <1>2 DEF UseRows
<1>6. R.badOpen \in {"exit", "close", "leave"} /\ R.badRun \in {"exit", "close", "leave"}
  BY <1>2 DEF Row
<1>7. net[Lockdown] \in {"closed", LockdownLang}
  BY DEF IInv, LockdownPeer, Late
<1>8. LockdownLang \in Peers
  BY DEF LockdownLang, Peers
<1>9. \A p \in Peers : /\ Put(use, p) \in [Sockets -> Peers]
                       /\ Put(use, p)[use] = p
                       /\ \A s \in Sockets : s # use => Put(use, p)[s] = net[s]
  BY <1>3, <1>4 DEF Put
<1> QED
  BY <1>1, <1>2, <1>3, <1>4, <1>5, <1>6, <1>7, <1>8, <1>9

\* The invariant about sockets holds after a step within the opening of a use.
LEMMA AfterOpeningMove ==
  ASSUME IInv, at \in Opening, at' \in Opening \cup {"run"},
         cmd' = cmd, use' = use, client' = client, ended' = ended,
         \A s \in Sockets : s # use => net'[s] = net[s],
         at' \in {"start", "dial"} => net'[use] = "closed",
         at' = "attach" => net'[use] = "usbmuxd"
  PROVE  UseInRange' /\ LockdownPeer' /\ ServicePeers' /\ NothingLeftOpen'
<1>1. cmd \in DOMAIN Table /\ use \in 1..2 /\ use <= Len(R.uses)
  BY AtAUse
<1>2. UseInRange'
  BY <1>1 DEF IInv, UseInRange, R, Via, Early, Opening
<1>3. LockdownPeer'
  BY <1>1 DEF IInv, LockdownPeer, R, Late, Opening, Lockdown, Sockets, LockdownLang
<1>4. ServicePeers'
  BY <1>1 DEF IInv, UseInRange, ServicePeers, Excused, Slipped, R, Via, Sockets, Opening
<1>5. NothingLeftOpen'
  BY DEF NothingLeftOpen, Opening
<1> QED
  BY <1>2, <1>3, <1>4, <1>5

\* Steps keep the invariant: the opening of a service.
LEMMA OpeningSteps ==
  ASSUME IInv, StartService \/ Dial \/ Attach \/ ServiceSecure \/ ServiceTlsFails \/ Shake
  PROVE  IInv'
<1> DEFINE Rest == UseInRange' /\ LockdownPeer' /\ ServicePeers' /\ NothingLeftOpen'
<1>1. at \in Opening /\ at \in {"start", "dial", "attach", "serviceTls", "shake"}
  BY DEF StartService, Dial, Attach, ServiceSecure, ServiceTlsFails, Shake, Opening
<1>2. /\ cmd \in DOMAIN Table /\ use \in 1..2 /\ use <= Len(R.uses)
      /\ R.uses[use].attempts \in 1..4 /\ R.badOpen \in {"exit", "close", "leave"}
      /\ net \in [Sockets -> Peers] /\ use \in Sockets
      /\ LockdownLang \in Peers /\ net[Lockdown] \in {"closed", LockdownLang}
      /\ \A p \in Peers : /\ Put(use, p) \in [Sockets -> Peers]
                          /\ Put(use, p)[use] = p
                          /\ \A s \in Sockets : s # use => Put(use, p)[s] = net[s]
  BY <1>1, AtAUse
<1>3. TypeOK /\ at \in {"start", "dial"} => net[use] = "closed"
  BY DEF IInv, ServicePeers
<1>4. at = "attach" => net[use] = "usbmuxd"
  BY DEF IInv, ServicePeers
<1>5. Understood'
  <2>1. CASE StartService
    BY <1>2, <2>1 DEF IInv, Understood, StartService, Says, Throw
  <2>2. CASE Attach
    BY <1>4, <2>2 DEF Understood, Attach, Says
  <2>3. CASE UNCHANGED last
    BY <2>3 DEF IInv, Understood
  <2> QED
    BY <2>1, <2>2, <2>3 DEF Dial, ServiceSecure, ServiceTlsFails, Shake
<1>6. \A p \in {"closed", "usbmuxd", "service"} : p \in Peers
  BY DEF Peers
<1>7. ASSUME NEW left \in [Sockets -> Peers], NEW how \in {"open", "spoilt"}, Throw(how, left),
             cmd' = cmd, use' = use, client' = client,
             \A s \in Sockets : s # use => left[s] = net[s],
             left[use] # "closed" => how = "spoilt"
      PROVE  /\ Rest /\ at' \in Places /\ net' \in [Sockets -> Peers]
             /\ ended' \in [Sockets -> Endings]
  <2>1. left[Lockdown] = net[Lockdown] /\ \A s \in 1..2 : s # use => left[s] = net[s]
    BY <1>2, <1>7 DEF Sockets, Lockdown
  <2>2. left[use] # "closed" => Excused(use)'
    <3>1. ended'[use] = how
      BY <1>2, <1>7 DEF Throw, Ends, IInv, TypeOK
    <3>2. use \in DOMAIN R.uses /\ R' = R
      BY <1>1, <1>7, AtAUse DEF R
    <3> QED
      BY <1>7, <3>1, <3>2 DEF Excused
  <2>3. Rest
    BY <1>1, <1>2, <1>7, <2>1, <2>2, AfterThrow
  <2>4. at' \in Places /\ net' \in [Sockets -> Peers] /\ ended' \in [Sockets -> Endings]
    BY <1>2, <1>7, TypesOfMoves DEF IInv, Endings
  <2> QED
    BY <2>3, <2>4
<1>8. ASSUME at' \in Opening \cup {"run"}, cmd' = cmd, use' = use, client' = client, ended' = ended,
             \A s \in Sockets : s # use => net'[s] = net[s],
             at' \in {"start", "dial"} => net'[use] = "closed",
             at' = "attach" => net'[use] = "usbmuxd"
      PROVE  Rest /\ at' \in Places /\ ended' \in [Sockets -> Endings]
  BY <1>1, <1>8, AfterOpeningMove DEF Opening, Places, IInv, TypeOK, Endings
<1>11. CASE StartService
  <2>1. cmd' = cmd /\ use' = use /\ client' = client /\ at = "start"
    BY <1>11 DEF StartService
  <2>2. Rest /\ at' \in Places /\ net' \in [Sockets -> Peers] /\ ended' \in [Sockets -> Endings]
    <3>1. CASE net' = net /\ ended' = ended /\ at' \in {"start", "dial"}
      BY <1>2, <1>3, <1>8, <2>1, <3>1 DEF Opening, IInv
    <3>2. CASE Throw("open", net)
      BY <1>2, <1>3, <1>7, <2>1, <3>2 DEF IInv
    <3> QED
      BY <3>1, <3>2, <2>1, <1>11 DEF StartService
  <2>3. tries' \in 0..3
    BY <1>2, <1>11 DEF StartService, IInv, TypeOK
  <2>4. last' \in Peers \X Peers
    BY <1>2, <1>11, PeersOfMoves DEF StartService, Says, IInv, TypeOK
  <2> QED
    BY <1>5, <1>11, <2>1, <2>2, <2>3, <2>4 DEF IInv, TypeOK, Endings, StartService
<1>12. CASE Dial
  <2>1. /\ cmd' = cmd /\ use' = use /\ client' = client /\ at = "dial"
        /\ UNCHANGED <<tries, last>>
    BY <1>12 DEF Dial
  <2>2. Rest /\ at' \in Places /\ net' \in [Sockets -> Peers] /\ ended' \in [Sockets -> Endings]
    <3>1. CASE /\ net' = Put(use, IF Via = "local" THEN "service" ELSE "usbmuxd")
               /\ at' = CASE Via \in {"local", "list"} -> "run"
                          [] Via = "pool" -> "shake"
                          [] OTHER -> "attach"
               /\ ended' = ended
      <4>1. \E p \in {"usbmuxd", "service"} : net' = Put(use, p) /\ (Via # "local" => p = "usbmuxd")
        BY <3>1
      <4>2. at' \in {"run", "shake", "attach"} /\ (at' = "attach" => Via # "local")
        BY <3>1
      <4> QED
        <5>1. PICK p \in {"usbmuxd", "service"} : net' = Put(use, p) /\ (Via # "local" => p = "usbmuxd")
          BY <4>1
        <5>2. /\ net' \in [Sockets -> Peers] /\ net'[use] = p
              /\ \A s \in Sockets : s # use => net'[s] = net[s]
          BY <1>2, <1>6, <5>1
        <5>3. Rest /\ at' \in Places /\ ended' \in [Sockets -> Endings]
          BY <1>8, <2>1, <3>1, <4>2, <5>1, <5>2 DEF Opening
        <5> QED
          BY <5>2, <5>3
    <3>2. CASE Throw("open", net)
      BY <1>2, <1>3, <1>7, <2>1, <3>2 DEF IInv
    <3> QED
      BY <3>1, <3>2, <1>12 DEF Dial
  <2> QED
    BY <1>5, <1>12, <2>1, <2>2 DEF IInv, TypeOK, Endings, Dial
<1>13. CASE Attach
  <2>1. cmd' = cmd /\ use' = use /\ client' = client /\ at = "attach" /\ UNCHANGED tries
    BY <1>13 DEF Attach
  <2>2. Rest /\ at' \in Places /\ net' \in [Sockets -> Peers] /\ ended' \in [Sockets -> Endings]
    <3>1. CASE net' = Put(use, "service") /\ at' \in {"shake", "run", "serviceTls"} /\ ended' = ended
      BY <1>2, <1>6, <1>8, <2>1, <3>1 DEF Opening, IInv, TypeOK
    <3>2. CASE Spoil
      BY <1>2, <1>7, <2>1, <3>2 DEF IInv, TypeOK, Spoil
    <3> QED
      BY <3>1, <3>2, <1>13 DEF Attach, Opened
  <2>3. last' \in Peers \X Peers
    BY <1>2, <1>6, <1>13 DEF Attach, Says
  <2> QED
    BY <1>5, <1>13, <2>1, <2>2, <2>3 DEF IInv, TypeOK, Endings, Attach
<1>14. CASE ServiceSecure
  <2>1. Rest /\ at' \in Places /\ ended' \in [Sockets -> Endings]
    BY <1>8, <1>14 DEF ServiceSecure, Opened, Opening
  <2> QED
    BY <1>5, <1>14, <2>1 DEF IInv, TypeOK, Endings, ServiceSecure
<1>15. CASE ServiceTlsFails
  <2>1. Rest /\ at' \in Places /\ net' \in [Sockets -> Peers] /\ ended' \in [Sockets -> Endings]
    BY <1>2, <1>6, <1>7, <1>15 DEF ServiceTlsFails
  <2> QED
    BY <1>5, <1>15, <2>1 DEF IInv, TypeOK, Endings, ServiceTlsFails
<1>16. CASE Shake
  <2>1. cmd' = cmd /\ use' = use /\ client' = client /\ at = "shake"
    BY <1>16 DEF Shake
  <2>2. Rest /\ at' \in Places /\ net' \in [Sockets -> Peers] /\ ended' \in [Sockets -> Endings]
    <3>1. CASE at' = "run" /\ UNCHANGED <<net, ended>>
      BY <1>2, <1>8, <2>1, <3>1 DEF IInv, TypeOK
    <3>2. CASE Spoil
      BY <1>2, <1>7, <2>1, <3>2 DEF IInv, TypeOK, Spoil
    <3> QED
      BY <3>1, <3>2, <1>16 DEF Shake
  <2> QED
    BY <1>5, <1>16, <2>2 DEF IInv, TypeOK, Endings, Shake
<1> QED
  BY <1>11, <1>12, <1>13, <1>14, <1>15, <1>16

------------------------------------------------------------------------------
\* Steps keep the invariant: the work of a use, and the close.
LEMMA WorkingSteps ==
  ASSUME IInv, Finish \/ Fail \/ Interrupt \/ StopSession
  PROVE  IInv'
<1> DEFINE Rest == UseInRange' /\ LockdownPeer' /\ ServicePeers' /\ NothingLeftOpen'
<1>1. CASE Finish \/ Fail
  <2>1. at = "run" /\ at \in Opening \cup {"run"} /\ at # "over"
    BY <1>1 DEF Finish, Fail
  <2>2. /\ cmd \in DOMAIN Table /\ use \in 1..2 /\ use <= Len(R.uses) /\ use \in DOMAIN R.uses
        /\ R.uses[use] \in UseRows
        /\ net \in [Sockets -> Peers] /\ use \in Sockets /\ use # Lockdown
        /\ LockdownLang \in Peers /\ net[Lockdown] \in {"closed", LockdownLang}
        /\ \A p \in Peers : /\ Put(use, p) \in [Sockets -> Peers]
                            /\ Put(use, p)[use] = p
                            /\ \A s \in Sockets : s # use => Put(use, p)[s] = net[s]
    BY <2>1, AtAUse
  <2>3. cmd' = cmd /\ client' = client /\ R' = R
    BY <1>1 DEF Finish, Fail, R
  <2>4. Understood' /\ last' \in Peers \X Peers
    <3>1. CASE Via = "lockdown" /\ net[Lockdown] # "closed" /\ Says(LockdownLang, Lockdown)
      BY <2>2, <3>1, PeersOfMoves DEF Understood, Says, IInv
    <3>2. CASE UNCHANGED last
      BY <3>2 DEF IInv, TypeOK, Understood
    <3> QED
      BY <3>1, <3>2, <1>1 DEF Finish, Fail, Working
  <2>5. ASSUME NEW how \in {"done", "early", "run"}, Ends(how),
               NEW when \in {{"always"}, {"always", "done", "late"}},
               how = "done" => when = {"always", "done", "late"},
               how = "early" => R.uses[use].closed = "late"
        PROVE  /\ Close(when) \in [Sockets -> Peers]
               /\ \A s \in Sockets : s # use => Close(when)[s] = net[s]
               /\ \A s \in 1..2 : s = use /\ Close(when)[s] # "closed" => Excused(s)'
    <3>1. CASE Close(when) = Put(use, "closed")
      <4>1. "closed" \in Peers
        BY DEF Peers
      <4>2. Close(when) \in [Sockets -> Peers] /\ \A s \in Sockets : s # use => Close(when)[s] = net[s]
        BY <2>2, <3>1, <4>1
      <4>3. \A s \in 1..2 : s = use => Close(when)[s] = "closed"
        BY <2>2, <3>1, <4>1
      <4> QED
        BY <4>2, <4>3
    <3>2. CASE Close(when) = net /\ Via = "lockdown"
      <4>1. net[use] = "closed" /\ Close(when) = net
        BY <2>1, <3>2 DEF IInv, ServicePeers
      <4>2. \A s \in 1..2 : s = use => Close(when)[s] = "closed"
        BY <4>1
      <4>3. Close(when) \in [Sockets -> Peers] /\ \A s \in Sockets : s # use => Close(when)[s] = net[s]
        BY <2>2, <4>1
      <4> QED
        BY <4>2, <4>3
    <3>3. CASE Close(when) = net /\ R.uses[use].closed \notin when
      <4>1. ended'[use] = how
        BY <2>2, <2>5 DEF Ends, IInv, TypeOK
      <4>2. R.uses[use].closed \in {"always", "done", "late", "never"}
        BY <2>2 DEF UseRows
      <4>3. ASSUME NEW s \in 1..2, s = use  PROVE Excused(s)'
        <5>1. s \in DOMAIN R'.uses /\ ended'[s] = how /\ R'.uses[s].closed = R.uses[use].closed
          BY <2>2, <2>3, <4>1, <4>3
        <5>2. CASE how = "run"
          BY <2>5, <3>3, <4>2, <5>1, <5>2 DEF Excused, Slipped
        <5>3. CASE how = "early"
          BY <2>5, <4>2, <5>1, <5>3 DEF Excused, Slipped
        <5>4. CASE how = "done"
          BY <2>5, <3>3, <4>2, <5>1, <5>4 DEF Excused, Slipped
        <5> QED
          BY <5>2, <5>3, <5>4
      <4> QED
        BY <2>2, <3>3, <4>3
    <3> QED
      BY <3>1, <3>2, <3>3 DEF Close
  <2>6. \A s \in 1..2 : s \in Sockets /\ s # Lockdown
    BY DEF Sockets, Lockdown
  <2>7. \A s \in 1..2 : s > use => net[s] = "closed"
    BY DEF IInv, ServicePeers
  <2>8. \A s \in 1..2 : s < use /\ net[s] # "closed" => Excused(s)
    BY <2>1, <2>2, TableAssumption DEF IInv, ServicePeers
  <2>9. LockdownLang' = LockdownLang
    BY <2>3 DEF LockdownLang
  <2>10. ~R.lockdown => net[Lockdown] = "closed"
    BY <2>2, TableAssumption DEF IInv, LockdownPeer
  <2>11. CASE Finish
    <3>1. PICK how \in {"done", "early"}, when \in {{"always"}, {"always", "done", "late"}} :
            /\ Advance(how, Close(when))
            /\ how = "done" => when = {"always", "done", "late"}
            /\ how = "early" => R.uses[use].closed = "late"
      BY <2>11 DEF Finish
    <3> DEFINE open == Close(when)
    <3>2. Ends(how) /\ Advance(how, open)
      BY <3>1 DEF Advance
    <3>3. /\ open \in [Sockets -> Peers]
          /\ \A s \in Sockets : s # use => open[s] = net[s]
          /\ \A s \in 1..2 : s = use /\ open[s] # "closed" => Excused(s)'
      BY <2>5, <3>1, <3>2
    <3> HIDE DEF open
    <3>4. \A s \in 1..2 : s # use /\ Excused(s) => Excused(s)'
      BY <2>2, <2>3, <2>6, <3>2 DEF Excused, Slipped, Ends, IInv, TypeOK
    <3>5. /\ \A s \in 1..2 : s > use => open[s] = "closed"
          /\ \A s \in 1..2 : s <= use /\ open[s] # "closed" => Excused(s)'
      <4>1. \A s \in 1..2 : s > use => open[s] = "closed"
        BY <2>2, <2>6, <2>7, <3>3
      <4>2. ASSUME NEW s \in 1..2, s < use, open[s] # "closed"  PROVE Excused(s)'
        BY <2>2, <2>6, <2>8, <3>3, <3>4, <4>2
      <4> QED
        BY <2>2, <3>3, <4>1, <4>2
    <3>6. open[Lockdown] = net[Lockdown]
      BY <2>2, <3>3 DEF Sockets, Lockdown
    <3>7. Rest
      BY <2>1, <2>2, <2>3, <2>9, <2>10, <3>2, <3>3, <3>5, <3>6, AfterAdvance
    <3>8. /\ use' \in 0..3 /\ tries' \in 0..3 /\ at' \in Places /\ net' \in [Sockets -> Peers]
          /\ ended' \in [Sockets -> Endings]
      <4>1. use \in 0..2 /\ how \in Endings
        BY <2>2 DEF Endings
      <4> QED
        BY <4>1, <2>2, <3>2, <3>3, TypesOfMoves DEF IInv
    <3> QED
      BY <2>4, <2>11, <3>7, <3>8 DEF IInv, TypeOK, Endings, Finish
  <2>12. CASE Fail
    <3> DEFINE left == Close({"always"})
    <3>1. Throw("run", left) /\ Ends("run") /\ use' = use /\ tries' = tries
      BY <2>12 DEF Fail, Throw
    <3>2. /\ left \in [Sockets -> Peers]
          /\ \A s \in Sockets : s # use => left[s] = net[s]
          /\ left[use] # "closed" => Excused(use)'
      <4>1. \A s \in 1..2 : s = use /\ left[s] # "closed" => Excused(s)'
        BY <2>5, <3>1
      <4>2. PICK s \in 1..2 : s = use
        BY <2>2
      <4>3. left[use] # "closed" => Excused(use)'
        <5>1. left[use] # "closed" => Excused(s)'
          BY <4>1, <4>2
        <5>2. use' = s
          BY <4>2, <3>1
        <5> QED
          BY <5>1, <5>2 DEF Excused, Slipped
      <4>4. left \in [Sockets -> Peers] /\ \A q \in Sockets : q # use => left[q] = net[q]
        BY <2>5, <3>1
      <4> QED
        BY <4>3, <4>4
    <3> HIDE DEF left
    <3>3. left[Lockdown] = net[Lockdown] /\ \A s \in 1..2 : s # use => left[s] = net[s]
      BY <2>2, <2>6, <3>2 DEF Sockets, Lockdown
    <3>4. Rest
      BY <2>1, <2>2, <2>3, <3>1, <3>2, <3>3, AfterThrow
    <3>5. at' \in Places /\ net' \in [Sockets -> Peers] /\ ended' \in [Sockets -> Endings]
      BY <2>2, <3>1, <3>2, TypesOfMoves DEF IInv, Endings
    <3> QED
      BY <2>4, <2>12, <3>1, <3>4, <3>5 DEF IInv, TypeOK, Endings, Fail
  <2> QED
    BY <1>1, <2>11, <2>12
<1>2. CASE Interrupt
  <2>1. at' = "over" /\ \A s \in Sockets : net'[s] = "closed"
    BY <1>2 DEF Interrupt, AllClosed
  <2>2. TypeOK'
    BY <1>2, PeersOfMoves DEF IInv, TypeOK, Interrupt, AllClosed, Places
  <2>3. Rest
    BY <1>2, <2>1
    DEF Interrupt, UseInRange, LockdownPeer, ServicePeers, NothingLeftOpen, Early, Opening, Late,
        Sockets, Lockdown
  <2> QED
    BY <1>2, <2>2, <2>3 DEF IInv, Understood, Interrupt
<1>3. CASE StopSession
  <2>1. cmd \in DOMAIN Table /\ at = "stop" /\ at \in Late /\ R.lockdown
    BY <1>3 DEF StopSession, Late, IInv, UseInRange
  <2>2. net[Lockdown] \in {"closed", LockdownLang} /\ LockdownLang \in Peers
    BY <2>1 DEF IInv, LockdownPeer, LockdownLang, Peers
  <2>3. net' = [net EXCEPT ![0] = "closed"] /\ net \in [Sockets -> Peers] /\ at' = "over"
    BY <1>3 DEF StopSession, Put, IInv, TypeOK, Lockdown
  <2>4. Understood' /\ last' \in Peers \X Peers
    BY <1>3, <2>2 DEF StopSession, Says, IInv, TypeOK, Understood
  <2>5. TypeOK'
    BY <1>3, <2>3, <2>4, PeersOfMoves DEF IInv, TypeOK, StopSession, Places
  <2>6. UseInRange' /\ LockdownPeer'
    BY <1>3, <2>3 DEF StopSession, UseInRange, LockdownPeer, Early, Opening, Late, Lockdown, Sockets
  <2>7. ServicePeers'
    BY <1>3, <2>1, <2>3 DEF StopSession, IInv, ServicePeers, Excused, Slipped, R, Sockets
  <2>8. NothingLeftOpen'
    BY <2>3, <2>7 DEF ServicePeers, NothingLeftOpen, Excused, Sockets, Lockdown
  <2> QED
    BY <2>4, <2>5, <2>6, <2>7, <2>8 DEF IInv
<1> QED
  BY <1>1, <1>2, <1>3

\* Steps keep the invariant: a command begins.
LEMMA BeginSteps ==
  ASSUME IInv, NEW c \in DOMAIN Table, Begin(c)
  PROVE  IInv'
<1>1. cmd' = c /\ net' = AllClosed /\ client' = NoClient /\ tries' = 0 /\ ended' = Fresh /\ ran' = ran + 1
      /\ last' = last /\ use' = (IF Table[c].lockdown THEN 0 ELSE 1)
      /\ at' = (IF ~Table[c].lockdown THEN "dial" ELSE IF probed' THEN "mux" ELSE "probe")
  BY DEF Begin
<1>2. \A s \in Sockets : net'[s] = "closed"
  BY <1>1 DEF AllClosed
<1>3. TypeOK'
  <2>1. probed' \in BOOLEAN
    BY DEF Begin, IInv, TypeOK
  <2>2. daemon' \in [record : Records, trusts : BOOLEAN, accepted : BOOLEAN]
    BY DEF Begin, IInv, TypeOK
  <2>3. NoClient \in [piped : BOOLEAN, record : Records, sid : BOOLEAN, tls : BOOLEAN]
    BY DEF NoClient, Records
  <2>4. at' \in Places /\ use' \in 0..3 /\ net' \in [Sockets -> Peers]
    BY <1>1, PeersOfMoves DEF Places, AllClosed, IInv
  <2>5. Fresh \in [Sockets -> Endings]
    BY DEF Fresh, Endings
  <2> QED
    BY <1>1, <2>1, <2>2, <2>3, <2>4, <2>5 DEF IInv, TypeOK, Endings
<1>4. UseInRange'
  BY <1>1, RowOf DEF UseInRange, Early, Opening, R, Via, NoClient
<1>5. LockdownPeer' /\ ServicePeers'
  BY <1>1, <1>2 DEF LockdownPeer, ServicePeers, Late, Opening, Sockets, Lockdown
<1>6. Understood' /\ NothingLeftOpen'
  BY <1>1, <1>2 DEF IInv, Understood, NothingLeftOpen
<1> QED
  BY <1>3, <1>4, <1>5, <1>6 DEF IInv

------------------------------------------------------------------------------
\* Whatever table of commands, the other end of every socket is the one its place
\* in the command calls for: create, startService, dial and close keep the order.
THEOREM Invariance == Spec => []IInv
<1>1. Init => IInv
  <2>1. AllClosed \in [Sockets -> Peers] /\ \A s \in Sockets : AllClosed[s] = "closed"
    BY DEF AllClosed, Peers
  <2>2. NoClient \in [piped : BOOLEAN, record : Records, sid : BOOLEAN, tls : BOOLEAN]
    BY DEF NoClient, Records
  <2>3. Init => TypeOK
    <3>1. Init => daemon \in [record : Records, trusts : BOOLEAN, accepted : BOOLEAN]
      BY DEF Init
    <3>2. Init => probed \in BOOLEAN
      BY DEF Init
    <3>3. Init => ended \in [Sockets -> Endings] /\ last \in Peers \X Peers
      BY DEF Init, Peers, Fresh, Endings
    <3> QED
      BY <2>1, <2>2, <3>1, <3>2, <3>3 DEF Init, TypeOK, Endings, Places
  <2>4. Init => UseInRange /\ LockdownPeer /\ ServicePeers /\ Understood /\ NothingLeftOpen
    BY <2>1
    DEF Init, UseInRange, LockdownPeer, ServicePeers, Understood, NothingLeftOpen, Early, Opening,
        Late, Sockets, Lockdown
  <2> QED
    BY <2>3, <2>4 DEF IInv
<1>2. IInv /\ [Next]_vars => IInv'
  <2> SUFFICES ASSUME IInv, [Next]_vars PROVE IInv'
    OBVIOUS
  <2>1. CASE Step
    BY <2>1, EarlySteps, OpeningSteps, WorkingSteps DEF Step
  <2>2. CASE Secured
    BY <2>2, OpeningSteps DEF Secured
  <2>3. CASE Work
    BY <2>3, WorkingSteps DEF Work
  <2>4. CASE Interrupt
    BY <2>4, WorkingSteps
  <2>5. CASE \E c \in DOMAIN Table : Begin(c)
    BY <2>5, BeginSteps
  <2>6. CASE UNCHANGED vars
    BY <2>6
    DEF vars, IInv, TypeOK, UseInRange, LockdownPeer, ServicePeers, Excused, Slipped, After,
        Understood, NothingLeftOpen, LockdownLang, R, Via
  <2> QED
    BY <2>1, <2>2, <2>3, <2>4, <2>5, <2>6 DEF Next
<1> QED
  BY <1>1, <1>2, PTL DEF Spec

\* The state keeps its types: no use, retry or place out of range, for any table.
THEOREM TypeCorrect == Spec => []TypeOK
<1>1. IInv => TypeOK
  BY DEF IInv
<1> QED
  BY <1>1, Invariance, PTL

\* Nothing is written to one who speaks another language: ReadPairRecord and Connect
\* reach usbmuxd, lockdown requests reach lockdownd, in TLS when and only when the
\* device has turned TLS on (LockdownService.create, LockdownClient.startSession).
THEOREM SpeakersUnderstood == Spec => []Understood
<1>1. IInv => Understood
  BY DEF IInv
<1> QED
  BY <1>1, Invariance, PTL

\* When a command is over, a socket it leaves open is one whose own end - a failed
\* opening, failed work, an early return - is one on which its row does not close it;
\* nothing else on the way leaves one, whatever the rows are.
THEOREM LeftoversExcused == Spec => []NothingLeftOpen
<1>1. IInv => NothingLeftOpen
  BY DEF IInv
<1> QED
  BY <1>1, Invariance, PTL
==============================================================================
