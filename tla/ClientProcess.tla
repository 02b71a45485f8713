--------------------------- MODULE ClientProcess ----------------------------
(***************************************************************************)
(* The client process: client.Run's supervisor loop and the heartbeat      *)
(* goroutine it starts run side by side, report to the same Stats and end  *)
(* with the same context.  When Run returns the process exits, whatever    *)
(* the heartbeat is doing.                                                 *)
(***************************************************************************)
EXTENDS HeartbeatClient

VARIABLES
  precheck, pc, cancelled, timer, stale, connected, since, overtaken,
  hb    \* the heartbeat goroutine: off, running, ended

Supervisor == INSTANCE ClientSupervisor

supVars  == <<precheck, pc, cancelled, timer, stale, connected, since, overtaken>>
procVars == <<vars, supVars, hb>>

\* RunClient is started when a port and a (valid) name are configured.
ProcInit == Init /\ Supervisor!Init /\ hb \in {"off", "running"}

Supervise == Supervisor!Next /\ UNCHANGED <<vars, hb>>

Heartbeat == hb = "running" /\ pc # "end" /\ Next /\ UNCHANGED <<supVars, hb>>

\* ctx.Done() in the select of RunClient.
HeartbeatDone ==
  /\ hb = "running" /\ pc # "end" /\ cancelled /\ phase = "wait"
  /\ hb' = "ended"
  /\ UNCHANGED <<vars, supVars>>

ProcNext == Supervise \/ Heartbeat \/ HeartbeatDone

\* The scheduler runs both; the fairness is the supervisor's.
ProcSpec == ProcInit /\ [][ProcNext]_procVars /\ Supervisor!Fairness

(***************************************************************************)
(* Properties: those of the parts, in the composition.                     *)
(***************************************************************************)

\* The supervisor reports "connected" for an ssh that is up (ClientSupervisor).
ConnectedMeansUp == Supervisor!ConnectedMeansUp

\* An ssh that stays up is reported (ClientSupervisor).
StayingUpIsReported == Supervisor!StayingUpIsReported

\* A stop signal ends the process, and the heartbeat does not keep it
\* (ClientSupervisor).
StopsOnSignal == Supervisor!StopsOnSignal
=============================================================================
