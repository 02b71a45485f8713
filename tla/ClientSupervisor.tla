-------------------------- MODULE ClientSupervisor --------------------------
(***************************************************************************)
(* client.Run: the loop that probes the server, runs ssh, waits for it to  *)
(* end and starts again after ReconnectDelay, until a stop signal; the     *)
(* timer that reports "connected" once ssh has stayed up for               *)
(* connectSettle; and the state /metrics and /healthz report (Stats).      *)
(* The ssh process, the server it talks to and the signal are external.    *)
(***************************************************************************)

VARIABLES
  precheck,   \* configuration: probe the server before each ssh
  pc,         \* where the loop is
  cancelled,  \* a stop signal arrived (ctx is done)
  timer,      \* settle timer of the current ssh: off, armed, fired (callback
              \* started, SetConnectedSince not yet called)
  stale,      \* a fired callback of an earlier ssh is still to run
  connected,  \* Stats.connected
  since,      \* whose start Stats.sessionAt is: none, cur, old
  overtaken   \* history: a callback that had fired was still to run when the
              \* end of its session was recorded

vars == <<precheck, pc, cancelled, timer, stale, connected, since, overtaken>>
statVars == <<connected, since, overtaken>>
timerVars == <<timer, stale>>

Init ==
  /\ precheck \in BOOLEAN
  /\ pc = "top" /\ cancelled = FALSE
  /\ timer = "off" /\ stale = FALSE
  /\ connected = FALSE /\ since = "none" /\ overtaken = FALSE

RecordDisconnect ==
  /\ connected' = FALSE
  /\ overtaken' = (timer = "fired" \/ stale)
  /\ UNCHANGED since

HasSession == pc \in {"up", "exited", "stopped"}

\* for ctx.Err() == nil
Top ==
  /\ pc = "top"
  /\ pc' = IF cancelled THEN "end" ELSE IF precheck THEN "probe" ELSE "start"
  /\ UNCHANGED <<precheck, cancelled, timerVars, statVars>>

\* The pre-flight probe, bounded by its own timeouts.
ProbeOK ==
  /\ pc = "probe"
  /\ pc' = "start"
  /\ UNCHANGED <<precheck, cancelled, timerVars, statVars>>

ProbeFails ==
  /\ pc = "probe"
  /\ RecordDisconnect
  /\ pc' = "delay"
  /\ UNCHANGED <<precheck, cancelled, timerVars>>

StartFails ==
  /\ pc = "start"
  /\ RecordDisconnect
  /\ pc' = "delay"
  /\ UNCHANGED <<precheck, cancelled, timerVars>>

\* A fault: the timer is not set.
StartUntimed ==
  /\ pc = "start"
  /\ pc' = "up"
  /\ UNCHANGED <<precheck, cancelled, timerVars, statVars>>

\* ssh runs; a callback that already started belongs to the ssh before.
StartOK ==
  /\ pc = "start"
  /\ pc' = "up"
  /\ timer' = "armed"
  /\ stale' = (stale \/ timer = "fired")
  /\ since' = IF since = "cur" THEN "old" ELSE since
  /\ UNCHANGED <<precheck, cancelled, connected, overtaken>>

\* connectSettle has passed and nobody has stopped the timer.
Settle ==
  /\ timer = "armed"
  /\ timer' = "fired"
  /\ UNCHANGED <<precheck, pc, cancelled, stale, statVars>>

\* The callback: SetConnectedSince(start).  Nothing makes it come before the
\* RecordDisconnect of its session.
SetConnectedSince ==
  /\ timer = "fired"
  /\ timer' = "off"
  /\ connected' = TRUE /\ since' = "cur"
  /\ overtaken' = (overtaken /\ (stale \/ ~HasSession))
  /\ UNCHANGED <<precheck, pc, cancelled, stale>>

SetConnectedLate ==
  /\ stale
  /\ stale' = FALSE
  /\ connected' = TRUE /\ since' = "old"
  /\ UNCHANGED <<precheck, pc, cancelled, timer, overtaken>>

\* cmd.Wait returns: ssh ended, or was killed because ctx is done.
Exit ==
  /\ pc = "up"
  /\ pc' = "exited"
  /\ UNCHANGED <<precheck, cancelled, timerVars, statVars>>

\* settled.Stop(): a timer that fired is not stopped.  A fault would be not to
\* stop it.
TimerRuns == timer
TimerStopped == IF timer = "armed" THEN "off" ELSE timer

StopTimer ==
  /\ pc = "exited"
  /\ timer' = TimerStopped
  /\ pc' = "stopped"
  /\ UNCHANGED <<precheck, cancelled, stale, statVars>>

AfterExit ==
  /\ pc = "stopped"
  /\ RecordDisconnect
  /\ pc' = IF cancelled THEN "end" ELSE "delay"
  /\ UNCHANGED <<precheck, cancelled, timerVars>>

\* ReconnectDelay is over.
Delay ==
  /\ pc = "delay"
  /\ pc' = "top"
  /\ UNCHANGED <<precheck, cancelled, timerVars, statVars>>

\* ctx.Done() in the select.
DelayCancelled ==
  /\ pc = "delay" /\ cancelled
  /\ pc' = "end"
  /\ UNCHANGED <<precheck, cancelled, timerVars, statVars>>

\* SIGINT or SIGTERM.
Signal ==
  /\ ~cancelled /\ pc # "end"
  /\ cancelled' = TRUE
  /\ UNCHANGED <<precheck, pc, timerVars, statVars>>

\* The process exits when Run returns: no callback runs any more.
Callback == pc # "end" /\ (Settle \/ SetConnectedSince \/ SetConnectedLate)
Loop == \/ Top \/ ProbeOK \/ ProbeFails \/ StartFails \/ StartOK
        \/ StopTimer \/ AfterExit \/ Delay \/ DelayCancelled

Next == Loop \/ Callback \/ Exit \/ Signal

\* A fault: ssh is not started under the context, so the signal does not end it.
KillsNothing == FALSE
\* exec.CommandContext kills ssh when ctx is done.
Killed == cancelled /\ Exit

\* The loop runs and its timers fire; ssh owes nothing until it is killed.
Fairness == /\ WF_vars(Loop) /\ WF_vars(Killed)
            /\ WF_vars(pc # "end" /\ Settle)
            /\ WF_vars(pc # "end" /\ SetConnectedSince)
            /\ WF_vars(pc # "end" /\ SetConnectedLate)

FairSpec == Init /\ [][Next]_vars /\ Fairness

(***************************************************************************)
(* Properties.                                                             *)
(***************************************************************************)

\* "Connected" is reported only for an ssh that stayed up past connectSettle
\* and whose end has not been recorded, and with that ssh's start -- unless
\* the callback of a timer that had already fired ran after its session was
\* recorded as ended.
ConnectedMeansUp ==
  connected /\ ~overtaken => HasSession /\ since = "cur"

\* An ssh that stays up is reported as connected.
StayingUpIsReported == <>[](pc = "up") => <>[]connected

\* A stop signal ends the supervisor, wherever its loop is.
StopsOnSignal == cancelled ~> pc = "end"
=============================================================================
