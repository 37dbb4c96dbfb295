----------------------------- MODULE ServiceTable -----------------------------
(***************************************************************************)
(* The services of packages/core/src, as data for ServiceSocket: the       *)
(* programs of writes and reads their methods are, and how they are framed.*)
(***************************************************************************)
EXTENDS Naturals, Sequences, SequencesExt

\* A request, with what the service may answer: the statuses of its frames, or
\* "raw" bytes of a known length.
Write(replies) == [do |-> "write", replies |-> replies, name |-> "", check |-> ""]
Ask == Write({<<"good">>, <<"bad">>})
Tell == Write({<<>>})
Named(name) == [Ask EXCEPT !.name = name]

\* A read of a frame, and what it must be to be accepted.
Read(check) == [do |-> "read", replies |-> {}, name |-> "", check |-> check]
ReadNamed(name) == [Read("name") EXCEPT !.name = name]
Raw   == [Read("") EXCEPT !.do = "raw"]
Race(check) == [Read(check) EXCEPT !.do = "race"]
Drain == [Read("") EXCEPT !.do = "drain"]

\* What may be unread at each step, from what may be at the first: the requests
\* before it add their replies, each read takes one; some take what is not theirs
\* before it, too, and a greeting may have been taken by a call that failed.
Unread(start, steps) ==
  LET After(step, us) ==
        IF step.do = "write" THEN {u \o r : u \in us, r \in step.replies}
        ELSE {Tail(u) : u \in {v \in us : v # <<>> /\ Head(v) # "more"}}
      Here(k, us) ==
        IF k <= Len(steps) /\ steps[k].check \in {"push", "final", "list", "until"}
        THEN us \cup {Tail(u) : u \in us \ {<<>>}} ELSE us
      at[k \in 1..(Len(steps) + 1)] ==
        Here(k, IF k = 1 THEN start ELSE After(steps[k - 1], at[k - 1]))
  IN [k \in 1..(Len(steps) + 1) |-> at[k]]

\* loop: the step a stream comes round to; first: the steps of a greeting;
\* neat: it reads all it asked for; ends: the end of the data ends it;
\* opens, finally: the read that opens a file, the write that closes it.
Op(steps) ==
  [steps |-> steps, loop |-> 0, first |-> 0, neat |-> TRUE, ends |-> FALSE, opens |-> 0, finally |-> 0,
   unread |-> Unread({<<>>}, steps)]
Greeting(steps, first) ==
  [Op(steps) EXCEPT !.first = first, !.unread = Unread({<<"event">>}, steps)]
Stream(steps, loop) == [Op(steps) EXCEPT !.loop = loop]

Plain   == Op(<<Ask, Read("any")>>)
Checked == Op(<<Ask, Read("status")>>)
Twice   == Op(<<Ask, Read("status"), Ask, Read("status")>>)

Service(ops) ==
  [framing |-> "bytes", timed |-> TRUE, greets |-> FALSE, pushes |-> FALSE, tagged |-> FALSE, channel |-> FALSE,
   ops |-> ops]
Pushing(ops) == [Service(ops) EXCEPT !.pushes = TRUE]

------------------------------------------------------------------------------
\* install and uninstall read until the status is Complete or there is an error.
InstallationProxy ==
  Service(<<Plain, Op(<<Write({<<"good">>, <<"bad">>, <<"more", "good">>}), Read("final")>>)>>)

\* removeProfile asks for the list first; eraseDevice ignores how it ends.
MobileConfigService == Service(<<Checked, Twice>>)

CompanionProxyService == Pushing(<<Plain, Checked, Stream(<<Tell, Read("push")>>, 2)>>)

\* uploadImage: ReceiveBytes and its ack, the image and Complete.
MobileImageMounterService == Service(<<Plain, Checked, Twice>>)

MisagentService == Service(<<Checked>>)

\* A command is echoed. getFile with maxBytes leaves the rest of the file.
DtFetchSymbolsService ==
  LET File == <<Write({<<"raw">>}), Raw, Write({<<"raw", "raw", "raw">>}), Raw, Raw>> IN
  Service(<<Op(<<Write({<<"raw", "good">>}), Raw, Read("any")>>),
           Op(Append(File, Raw)),
           [Op(File) EXCEPT !.neat = FALSE]>>)

SpringBoardService == Service(<<Plain>>)

\* takeScreenshot exchanges versions first, once.
ScreenshotService ==
  [Service(<<Greeting(<<Read("push"), Ask, Read("status"), Ask, Read("status")>>, 3)>>)
     EXCEPT !.greets = TRUE]

\* The archive is what comes until the end, with no timer.
FileRelayService == Service(<<[Op(<<Ask, Read("status"), Drain>>) EXCEPT !.ends = TRUE]>>)
DiagnosticsService == Service(<<Checked>>)
AmfiService == Service(<<Checked>>)

\* A count, then as many frames.
RemoteFetchSymbolsService ==
  Service(<<Op(<<Write({<<"good", "good", "good">>}), Read("any"), Read("any"), Read("any")>>)>>)

MobileActivationService  == Service(<<Plain>>)
DeviceArbitrationService == Service(<<Plain, Checked>>)
RestoreService           == Service(<<Plain, Checked>>)
PowerAssertionService    == Service(<<Plain>>)
WdaService               == Service(<<Plain>>)
PreboardService          == Service(<<Plain>>)
IDAMService              == Service(<<Plain>>)
AccessibilityAuditService == Service(<<Plain>>)

PcapdService      == Pushing(<<Stream(<<Tell, Read("push")>>, 2)>>)
OsTraceService    == Pushing(<<Stream(<<Ask, Read("any"), Read("push")>>, 3)>>)
NotificationProxy == Pushing(<<Op(<<Tell>>), Stream(<<Read("push")>>, 1)>>)

\* Polo is sent with sendRecv, which reads the next Marco and drops it.
HeartbeatService == Pushing(<<Stream(<<Read("push"), Tell, Read("push")>>, 1)>>)

SimulateLocationService == Service(<<Op(<<Tell>>)>>)

\* get() takes what comes, whatever it is; a close does not end it, an end does.
DebugServerAppListService == Service(<<Op(<<Drain>>)>>)

------------------------------------------------------------------------------
\* Over AFC, and over a channel of a DTX connection.
Matched(ops) == [Service(ops) EXCEPT !.framing = "matched"]
Dtx(ops) == [Matched(ops) EXCEPT !.pushes = TRUE, !.channel = TRUE]
Asks(k) == FlattenSeq([j \in 1..k |-> <<Ask, Read("status")>>])

\* n requests, the last of them FILE_OPEN; m reads or writes; FILE_CLOSE.
OnFile(n, m) == [Op(Asks(n + m + 1)) EXCEPT !.opens = 2 * n, !.finally = 2 * (n + m) + 1]

\* getFileContents: stat twice, FILE_OPEN, READ until all is there.
GetFile == OnFile(3, 1)
SetFile == OnFile(1, 2)
Walk == Op(Asks(2))

\* CrashReportsManager is one too, HouseArrestService after its open().
AfcService == Matched(<<Checked, GetFile, SetFile, Walk>>)

\* The recv of a channel, until it is told of the close.
Recv == [Stream(<<Read("push")>>, 1) EXCEPT !.ends = TRUE]
StartTap == Op(<<Tell, Write({<<"event">>}), Read("ack")>>)
Tells == Op(<<Tell, Tell>>)

DeviceInfoService          == Dtx(<<Plain, Checked>>)
ApplicationListingService  == Dtx(<<Plain>>)
ConditionInducerService    == Dtx(<<Plain, Op(<<Ask, Read("any"), Ask, Read("any")>>), Op(<<Tell>>)>>)
LocationSimulationService  == Dtx(<<Plain, Op(<<Tell>>)>>)
ScreenshotDvtService       == Dtx(<<Plain>>)
ProcessControlService      == Dtx(<<Plain, Op(<<Tell>>), Recv>>)
GraphicsService            == Dtx(<<Plain, Op(<<Tell>>), Recv>>)
EnergyMonitorService       == Dtx(<<Plain, Tells, Op(<<Tell>>), Recv>>)
NetworkMonitorService      == Dtx(<<Op(<<Tell>>), Recv>>)
NotificationsService       == Dtx(<<Tells, Recv>>)
CoreProfileSessionTapService == Dtx(<<Plain, StartTap, Op(<<Tell>>), Recv>>)
SysmontapService           == Dtx(<<StartTap, Op(<<Tell>>), Recv>>)
ActivityTraceTapService    == Dtx(<<StartTap, Op(<<Tell>>), Recv>>)

------------------------------------------------------------------------------
\* open(), before the socket goes to AfcService.
HouseArrestService == Service(<<Checked>>)

\* DeviceLink: versions once, by create(); then messages, others skipped.
MobileBackup2Service ==
  [Pushing(<<Greeting(<<Read("push"), Ask, Read("status")>>, 3),
            Op(<<Ask, Read("process")>>),
            Stream(<<Tell, Read("push")>>, 2)>>) EXCEPT !.greets = TRUE]

\* getOpenPages reads for three seconds, first until the list of applications.
WebInspectorService ==
  Pushing(<<Op(<<Write({<<"good">>}), Race("list"), Write({<<"good">>}), Race("until")>>), Op(<<Tell>>), Plain, Stream(<<Read("push")>>, 1)>>)

\* _forwardCommand reads on until the id is its own and drops the rest.
InspectorSession ==
  [Pushing(<<Op(<<Tell>>), Plain, Op(<<Ask, Read("id")>>), Stream(<<Read("push")>>, 1)>>)
     EXCEPT !.framing = "queue", !.timed = FALSE]

------------------------------------------------------------------------------
\* usbmuxd: each reply must carry the tag expected. Listen, then events.
PlistMuxConnection ==
  [Pushing(<<Op(<<Ask, Read("tag")>>), Stream(<<Ask, Read("tag"), Read("push")>>, 3)>>)
     EXCEPT !.tagged = TRUE]

\* lockdownd: GetValue and StartService want a reply of that name; QueryType,
\* StopSession take any; StartSession, Pair look at the error.
LockdownClient ==
  Service(<<Op(<<Named("GetValue"), ReadNamed("GetValue")>>),
           Op(<<Named("StartService"), ReadNamed("StartService")>>),
           Plain, Checked,
           Op(<<Named("GetValue"), ReadNamed("GetValue"), Ask, Read("status")>>)>>)

------------------------------------------------------------------------------
\* Services whose rows are the same are one.
AllServices == {
  InstallationProxy, MobileConfigService, CompanionProxyService,
  MobileImageMounterService, MisagentService, DtFetchSymbolsService,
  SpringBoardService, ScreenshotService, FileRelayService, DiagnosticsService,
  AmfiService, RemoteFetchSymbolsService, MobileActivationService,
  DeviceArbitrationService, RestoreService, PowerAssertionService, WdaService,
  PreboardService, IDAMService, AccessibilityAuditService, PcapdService,
  OsTraceService, NotificationProxy, HeartbeatService, SimulateLocationService,
  DebugServerAppListService, HouseArrestService, MobileBackup2Service,
  WebInspectorService, InspectorSession, PlistMuxConnection, LockdownClient,
  AfcService, DeviceInfoService, ApplicationListingService, ConditionInducerService,
  LocationSimulationService, ScreenshotDvtService, ProcessControlService,
  GraphicsService, EnergyMonitorService, NetworkMonitorService, NotificationsService,
  CoreProfileSessionTapService, SysmontapService, ActivityTraceTapService}
==============================================================================
