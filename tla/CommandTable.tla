----------------------------- MODULE CommandTable -----------------------------
(***************************************************************************)
(* Every command of the program that talks to a device, as data for        *)
(* DeviceSession: the commands of the CLI (packages/cli/src/index.ts), the *)
(* requests of the server's controllers and gateways, the methods of the   *)
(* pool's Device and of RecoveryService.                                   *)
(*                                                                         *)
(*   host      "cli": a process of its own; "app": one that lives on       *)
(*   lockdown  it starts with LockdownService.create                       *)
(*   uses      what it opens then, one after the other                     *)
(*   badOpen   after an open that failed: "exit" the process, "close" the  *)
(*             lockdown session, or "leave" it                             *)
(*   badRun    the same, after work that failed                            *)
(*   onEnd     "close" or "leave" the lockdown session at the end          *)
(*   lasts     "once"; "stream": until it ends, fails or is interrupted;   *)
(*             "forever": until interrupted; "held": until the caller      *)
(*             closes it; "pair": LockdownService.pair                     *)
(*                                                                         *)
(* A use names the factory method, how many StartService requests it may   *)
(* make, and whether its socket is closed "always" (a finally), "done"     *)
(* (only after work that succeeded), "late" (the same, but not when that   *)
(* work returns early) or "never".                                         *)
(***************************************************************************)
EXTENDS Naturals, Sequences, TLC

Use(via, attempts, closed) == <<[via |-> via, attempts |-> attempts, closed |-> closed]>>
Finally(via)   == Use(via, 1, "always")
OnSuccess(via) == Use(via, 1, "done")
Dvt(closed)    == Use("dvt", 2, closed)

\* withDvt: a factory.dvt() that finds neither of its two service names is
\* tried once more when the disk image could be mounted.
WithDvt(closed) == Use("dvt", 4, closed)

\* getService, and the try ... catch { process.exit(1) } finally of a command.
Cli(uses) ==
  [host |-> "cli", lockdown |-> TRUE, uses |-> uses, badOpen |-> "exit",
   badRun |-> "exit", onEnd |-> "close", lasts |-> "once"]

CliStream(uses, onEnd) == [Cli(uses) EXCEPT !.onEnd = onEnd, !.lasts = "stream"]
CliMux(via, lasts) == [Cli(Finally(via)) EXCEPT !.lockdown = FALSE, !.lasts = lasts]

\* screenshotOne and runOne report the error instead.
CliReport(uses) == [Cli(uses) EXCEPT !.badOpen = "close", !.badRun = "close"]

\* withFactory, withLockdown: a try ... finally in a process that goes on.
App(uses) == [CliReport(uses) EXCEPT !.host = "app"]

\* A Device method that hands the open service to its caller.
Held(uses) == [App(uses) EXCEPT !.badOpen = "leave", !.lasts = "held"]

------------------------------------------------------------------------------
UsbmuxCommands ==
  ("usbmux list" :> CliMux("list", "once")) @@ ("usbmux listen" :> CliMux("pool", "forever"))

LockdownCommands ==
  ("lockdown info" :> Cli(<<>>)) @@ ("lockdown pair" :> [Cli(<<>>) EXCEPT !.lasts = "pair"])

AfcCommands == [c \in {"afc ls", "afc pull", "afc push"} |-> Cli(Finally("afc"))]
AfcShell == "afc shell" :> [Cli(Finally("afc")) EXCEPT !.lasts = "held"]

AppsCommands ==
  [c \in {"apps list", "apps uninstall"} |-> Cli(Finally("installationProxy"))] @@
  ("apps install" :> Cli(OnSuccess("afc") \o Finally("installationProxy")))

DiagCommands == [c \in {"diag battery", "diag info"} |-> Cli(Finally("diagnostics"))]
SyslogLive == "syslog live" :> CliStream(Finally("syslog"), "close")

DeveloperCommands ==
  ("developer screenshot" :> Cli(WithDvt("always"))) @@
  [c \in {"developer screenshot --all", "developer processes"} |-> CliReport(WithDvt("always"))]

PoolCommands ==
  [c \in {"pool devices", "pool screenshot"} |-> CliMux("pool", "once")] @@
  ("pool watch" :> CliMux("pool", "forever"))

\* No try around the stream: at its end nothing is closed.
PerfCommand == "developer perf" :> CliStream(WithDvt("never"), "leave")
MonitorCommands ==
  [c \in {"developer energy", "developer network", "developer graphics"} |->
     CliStream(WithDvt("never"), "leave")]

WebInspectorCommand == "webinspector list" :> Cli(Finally("webInspector"))

ConditionCommands ==
  [c \in {"condition list", "condition clear"} |->
     [Cli(WithDvt("always")) EXCEPT !.badRun = "close"]] @@
  ("condition set" :> Cli(WithDvt("always")))

\* A device without profiles: the list returns before its svc.close().
ProfileCommands ==
  ("profile list" :> Cli(Use("misagent", 1, "late"))) @@
  [c \in {"profile install", "profile remove"} |-> Cli(OnSuccess("misagent"))]

LocationCommands ==
  [c \in {"location set", "location reset"} |-> Cli(Finally("simulateLocation"))]

CrashCommands ==
  [c \in {"crash list", "crash pull", "crash delete"} |-> Cli(Finally("crashReports"))]

SpringBoardCommands ==
  [c \in {"springboard icon", "springboard wallpaper", "springboard orientation"} |->
     Cli(Finally("springBoard"))]

------------------------------------------------------------------------------
\* The server. getDevice works on the lockdown socket itself.
DevicesController ==
  ("GET device" :> App(Use("lockdown", 1, "never"))) @@ ("GET battery" :> App(Finally("diagnostics")))
AppsController == "GET apps" :> App(Finally("installationProxy"))
ScreenshotController == "GET screenshot" :> App(Finally("screenshot"))
LocationController ==
  [c \in {"POST location", "DELETE location"} |-> App(Finally("simulateLocation"))]
CrashController == "GET crashes" :> App(Finally("crashReports"))

LogsSubscription == "subscribe:logs" :> [App(Finally("syslog")) EXCEPT !.lasts = "stream"]
PerfSubscription == "subscribe:perf" :> [App(Dvt("never")) EXCEPT !.lasts = "stream"]

\* The pool's Device. Its syslog() closes the lockdown session only.
DeviceInfo == "Device.info" :> App(Use("lockdown", 1, "never"))
DeviceDvt == [c \in {"Device.screenshot", "Device.processes"} |-> App(Dvt("always"))]
DeviceSyslog == "Device.syslog" :> Held(Use("syslog", 1, "never"))
DeviceHeld ==
  ("Device.afc" :> Held(Finally("afc"))) @@ ("Device.apps" :> Held(Finally("installationProxy")))

IsInRecovery == "isInRecovery" :> App(<<>>)
EnterRecovery == "enterRecovery" :> App(OnSuccess("local"))

------------------------------------------------------------------------------
CliTable ==
  UsbmuxCommands @@ LockdownCommands @@ AfcCommands @@ AfcShell @@ AppsCommands @@
  DiagCommands @@ SyslogLive @@ DeveloperCommands @@ PoolCommands @@ PerfCommand @@
  MonitorCommands @@ WebInspectorCommand @@ ConditionCommands @@ ProfileCommands @@
  LocationCommands @@ CrashCommands @@ SpringBoardCommands

AppTable ==
  DevicesController @@ AppsController @@ ScreenshotController @@ LocationController @@
  CrashController @@ LogsSubscription @@ PerfSubscription @@ DeviceInfo @@ DeviceDvt @@
  DeviceSyslog @@ DeviceHeld @@ IsInRecovery @@ EnterRecovery

AllCommands == CliTable @@ AppTable
==============================================================================
