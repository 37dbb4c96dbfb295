---------------------------- MODULE MCDeviceSession ----------------------------
(* The whole program: every command of CommandTable, two in a row.           *)
EXTENDS CommandTable, DeviceSession

\* The commands that leave a socket open by their code, apart from the CLI's that
\* call process.exit: the CLI streams when their stream ends, `profile list` when
\* there is no profile, the perf gateway (its DTX connection), the Device methods
\* whose open fails.
ASSUME KeepersAssumption ==
  {c \in DOMAIN AllCommands :
     LET row == AllCommands[c] IN
       \/ row.onEnd = "leave"
       \/ row.badOpen = "leave"
       \/ \E k \in DOMAIN row.uses : row.uses[k].closed = "late"
       \/ row.badRun # "exit" /\ \E k \in DOMAIN row.uses :
              row.uses[k].via # "lockdown" /\ row.uses[k].closed # "always"}
  = {"developer perf", "developer energy", "developer network", "developer graphics",
     "profile list", "subscribe:perf", "Device.syslog", "Device.afc", "Device.apps", "enterRecovery"}
==============================================================================
