---------------------------- MODULE AgentLifecycle ----------------------------
(***************************************************************************)
(* internal/agent/agent.go Start and Stop, the loops of the heartbeat      *)
(* service (internal/agent/heartbeat.go), of the metrics system            *)
(* (internal/metrics/system.go) and of the agent's own workers, and the    *)
(* two drivers of cmd/castleops-client/main.go: run, which starts the      *)
(* agent in a goroutine of its own and may stop it at any point of its     *)
(* start, and runAgent, which starts it synchronously.                     *)
(*                                                                         *)
(* A loop is "busy" in the body its ticker triggers and "ready" in its     *)
(* select. The end of the driver ends the process: nothing moves then.     *)
(***************************************************************************)
CONSTANT Modes     \* the drivers explored, a subset of {"foreground", "service"}

ASSUME ModesAssumption == Modes \subseteq {"foreground", "service"}

VARIABLES
  mode,        \* "foreground": run; "service": runAgent
  main,        \* where the driver stands
  reason,      \* why it is stopping the agent: "none", "signal" or "error"
  cancelled,   \* the context given to Start is done
  start,       \* next statement of Start
  running,     \* Agent.running
  services,    \* "metrics" and "heartbeat": those whose own running flag is set
  loop,        \* per loop: "none", "ready", "busy" or "gone"
  closed,      \* stop channels closed: "agent", "metrics", "heartbeat"
  stop,        \* the call of Stop: "idle", "waiting", or how it returned
  expired,     \* shutdownCtx of Stop is done
  shutdown,    \* next statement of the goroutine Stop starts
  stoppedCh,   \* Agent.stoppedCh is closed
  cacheClosed, \* cleanup has closed the cache
  overlap      \* history: Stop began before Start had launched everything

driverVars == <<mode, main, reason, cancelled>>
startVars == <<start, running>>
loopVars == <<services, loop, closed>>
stopVars == <<stop, expired, shutdown, stoppedCh, cacheClosed, overlap>>
vars == <<driverVars, startVars, loopVars, stopVars>>

Workers == {"upload", "poll", "maintenance"}
Services == {"metrics", "heartbeat"}
Loops == Workers \cup Services
\* heartbeatLoop never uses the cache.
CacheUsers == Loops \ {"heartbeat"}

InProcess == main # "exited"
Alive(l) == loop[l] \in {"ready", "busy"}

\* startSubsystems in order: each service sets its flag, then starts its loop.
Launches == [flagMetrics |-> "goMetrics", goMetrics |-> "flagHeartbeat",
             flagHeartbeat |-> "goHeartbeat", goHeartbeat |-> "goUpload",
             goUpload |-> "goPoll", goPoll |-> "goMaintenance", goMaintenance |-> "started"]
Flags == [flagMetrics |-> "metrics", flagHeartbeat |-> "heartbeat"]
Gos == [goMetrics |-> "metrics", goHeartbeat |-> "heartbeat", goUpload |-> "upload",
        goPoll |-> "poll", goMaintenance |-> "maintenance"]

Init ==
  /\ mode \in Modes
  /\ main = IF mode = "foreground" THEN "select" ELSE "starting"
  /\ reason = "none" /\ cancelled = FALSE
  /\ start = "prepare" /\ running = FALSE
  /\ services = {} /\ loop = [l \in Loops |-> "none"] /\ closed = {}
  /\ stop = "idle" /\ expired = FALSE /\ shutdown = "none"
  /\ stoppedCh = FALSE /\ cacheClosed = FALSE /\ overlap = FALSE

-----------------------------------------------------------------------------
(* Start *)

\* Registration, initMetrics and initHeartbeat: all of it, or an error that
\* leaves running unset. A done context does not always make registration fail.
Prepare ==
  /\ InProcess /\ start = "prepare"
  /\ start' \in {"setRunning", "failed"}
  /\ UNCHANGED <<driverVars, running, loopVars, stopVars>>

SetRunning ==
  /\ InProcess /\ start = "setRunning"
  /\ running' = TRUE
  /\ start' = "flagMetrics"
  /\ UNCHANGED <<driverVars, loopVars, stopVars>>

LaunchFlag ==
  /\ InProcess /\ start \in DOMAIN Flags
  /\ services' = services \cup {Flags[start]}
  /\ start' = Launches[start]
  /\ UNCHANGED <<driverVars, running, loop, closed, stopVars>>

\* wg.Add(1); go ... The services work at once, the workers wait for a tick.
LaunchLoop ==
  /\ InProcess /\ start \in DOMAIN Gos
  /\ loop' = [loop EXCEPT ![Gos[start]] = IF Gos[start] \in Services THEN "busy" ELSE "ready"]
  /\ start' = Launches[start]
  /\ UNCHANGED <<driverVars, running, services, closed, stopVars>>

-----------------------------------------------------------------------------
(* The loops *)

StopChannel(l) == IF l \in Workers THEN "agent" ELSE l

Tick(l) ==
  /\ InProcess /\ loop[l] = "ready"
  /\ loop' = [loop EXCEPT ![l] = "busy"]
  /\ UNCHANGED <<driverVars, startVars, services, closed, stopVars>>

Work(l) ==
  /\ InProcess /\ loop[l] = "busy"
  /\ loop' = [loop EXCEPT ![l] = "ready"]
  /\ UNCHANGED <<driverVars, startVars, services, closed, stopVars>>

\* The select takes the stop channel or ctx.Done.
Leave(l) ==
  /\ InProcess /\ loop[l] = "ready"
  /\ cancelled \/ StopChannel(l) \in closed
  /\ loop' = [loop EXCEPT ![l] = "gone"]
  /\ UNCHANGED <<driverVars, startVars, services, closed, stopVars>>
-----------------------------------------------------------------------------
(* Stop *)

\* Stop without running set does nothing. Otherwise stopCh is closed, the 10
\* second shutdownCtx armed and the shutdown goroutine started.
StopBegin ==
  /\ InProcess /\ main = "stopping" /\ stop = "idle"
  /\ IF running
       THEN /\ closed' = closed \cup {"agent"}
            /\ stop' = "waiting"
            /\ shutdown' = "heartbeat"
            /\ overlap' = (start # "started")
       ELSE /\ stop' = "noop"
            /\ UNCHANGED <<closed, shutdown, overlap>>
  /\ UNCHANGED <<driverVars, startVars, services, loop, expired, stoppedCh, cacheClosed>>

Deadline ==
  /\ InProcess /\ stop = "waiting" /\ ~expired
  /\ expired' = TRUE
  /\ UNCHANGED <<driverVars, startVars, loopVars, stop, shutdown, stoppedCh, cacheClosed, overlap>>

\* The Stop of a service: nothing when its flag is unset, else its channel is
\* closed and its loop awaited.
StopService(service, waiting, next) ==
  /\ InProcess /\ shutdown = service
  /\ IF service \in services
       THEN shutdown' = waiting /\ closed' = closed \cup {service}
       ELSE shutdown' = next /\ UNCHANGED closed
  /\ UNCHANGED <<driverVars, startVars, services, loop, stop, expired, stoppedCh, cacheClosed,
                 overlap>>

ServiceStopped(service, waiting, next) ==
  /\ InProcess /\ shutdown = waiting
  /\ services' = services \ {service}
  /\ shutdown' = next
  /\ UNCHANGED <<driverVars, startVars, loop, closed, stop, expired, stoppedCh, cacheClosed,
                 overlap>>

StopHeartbeat == StopService("heartbeat", "waitHeartbeat", "metrics")

\* (mutant) the heartbeat service does not wait for its loop
HeartbeatStoppedAtOnce == ServiceStopped("heartbeat", "waitHeartbeat", "metrics")

HeartbeatStopped ==
  /\ ~Alive("heartbeat") \/ expired
  /\ ServiceStopped("heartbeat", "waitHeartbeat", "metrics")

StopMetrics == StopService("metrics", "waitMetrics", "waitWorkers")

\* (mutant) the metrics system's Stop returns without its wg.Wait
MetricsStoppedAtOnce == ServiceStopped("metrics", "waitMetrics", "waitWorkers")

MetricsStopped ==
  /\ ~Alive("metrics")
  /\ ServiceStopped("metrics", "waitMetrics", "waitWorkers")

ShutdownStep(from, to) ==
  /\ InProcess /\ shutdown = from
  /\ shutdown' = to
  /\ UNCHANGED <<driverVars, startVars, loopVars, stop, expired, stoppedCh, overlap>>

\* a.wg.Wait: the workers launched so far have ended.
WorkersDone ==
  /\ \A w \in Workers : ~Alive(w)
  /\ ShutdownStep("waitWorkers", "flush")
  /\ UNCHANGED cacheClosed

\* flushMetrics, bounded by shutdownCtx; an error is only logged.
Flush == ShutdownStep("flush", "cleanup") /\ UNCHANGED cacheClosed

Cleanup == ShutdownStep("cleanup", "done") /\ cacheClosed' = TRUE

\* (mutants) running stays set; the select has no timeout branch; the channel
\* done is closed early
StopReturnsRunning ==
  /\ InProcess /\ stop = "waiting"
  /\ \/ shutdown = "done" /\ stop' = "graceful"
     \/ expired /\ stop' = "timeout"
  /\ stoppedCh' = TRUE /\ expired' = TRUE
  /\ UNCHANGED <<driverVars, startVars, loopVars, shutdown, cacheClosed, overlap>>

StopReturnsWhenDone ==
  /\ InProcess /\ stop = "waiting"
  /\ shutdown = "done" /\ stop' = "graceful"
  /\ running' = FALSE /\ stoppedCh' = TRUE /\ expired' = TRUE
  /\ UNCHANGED <<driverVars, start, loopVars, shutdown, cacheClosed, overlap>>

StopReturnsEarly ==
  /\ InProcess /\ stop = "waiting"
  /\ \/ shutdown \in {"cleanup", "done"} /\ stop' = "graceful"
     \/ expired /\ stop' = "timeout"
  /\ running' = FALSE /\ stoppedCh' = TRUE /\ expired' = TRUE
  /\ UNCHANGED <<driverVars, start, loopVars, shutdown, cacheClosed, overlap>>

\* The select of Stop, and its end: running is cleared, stoppedCh closed and
\* shutdownCtx cancelled. The shutdown goroutine may still be under way.
StopReturns ==
  /\ InProcess /\ stop = "waiting"
  /\ \/ shutdown = "done" /\ stop' = "graceful"
     \/ expired /\ stop' = "timeout"
  /\ running' = FALSE /\ stoppedCh' = TRUE /\ expired' = TRUE
  /\ UNCHANGED <<driverVars, start, loopVars, shutdown, cacheClosed, overlap>>

-----------------------------------------------------------------------------
(* The drivers *)

Drive(to) == main' = to /\ UNCHANGED <<mode, startVars, loopVars, stopVars>>

\* run: a signal arrives; run cancels the context and calls Stop.
Signal ==
  /\ mode = "foreground" /\ main = "select"
  /\ Drive("stopping") /\ reason' = "signal" /\ cancelled' = TRUE

\* run: Start failed and its error is on errChan.
StartFailed ==
  /\ mode = "foreground" /\ main = "select" /\ start = "failed"
  /\ Drive("stopping") /\ reason' = "error" /\ cancelled' = TRUE

\* The service manager cancels runAgent's context, at any point of its start.
CancelService ==
  /\ mode = "service" /\ main \in {"starting", "serving"} /\ ~cancelled
  /\ cancelled' = TRUE
  /\ UNCHANGED <<mode, main, reason, startVars, loopVars, stopVars>>

\* runAgent: Start returns; the cancelled context is noticed after that.
StartReturns ==
  /\ mode = "service" /\ main = "starting"
  /\ \/ start = "started" /\ Drive("serving")
     \/ start = "failed" /\ Drive("exited")
  /\ UNCHANGED <<reason, cancelled>>

ServiceStop ==
  /\ mode = "service" /\ main = "serving" /\ cancelled
  /\ Drive("stopping") /\ reason' = "signal" /\ UNCHANGED cancelled

\* After Stop: run returns the error of a failed start, else WaitForShutdown.
AfterStop ==
  /\ main = "stopping" /\ stop \in {"noop", "graceful", "timeout"}
  /\ Drive(IF reason = "error" THEN "exited" ELSE "awaiting")
  /\ UNCHANGED <<reason, cancelled>>

ShutdownAwaited ==
  /\ main = "awaiting" /\ stoppedCh
  /\ Drive("exited") /\ UNCHANGED <<reason, cancelled>>

\* Only run gives up waiting, after the 30 seconds it allows for everything.
AwaitTimesOut ==
  /\ mode = "foreground" /\ main = "awaiting"
  /\ Drive("exited") /\ UNCHANGED <<reason, cancelled>>

-----------------------------------------------------------------------------

StartNext == Prepare \/ SetRunning \/ LaunchFlag \/ LaunchLoop
LoopNext == \E l \in Loops : Tick(l) \/ Work(l) \/ Leave(l)
ShutdownNext ==
  \/ StopHeartbeat \/ HeartbeatStopped \/ StopMetrics \/ MetricsStopped
  \/ WorkersDone \/ Flush \/ Cleanup
DriverNext ==
  \/ Signal \/ StartFailed \/ CancelService \/ StartReturns \/ ServiceStop
  \/ StopBegin \/ Deadline \/ StopReturns \/ AfterStop \/ ShutdownAwaited \/ AwaitTimesOut

Next == StartNext \/ LoopNext \/ ShutdownNext \/ DriverNext

Spec == Init /\ [][Next]_vars

\* Goroutines run and timers fire. Start, its registration included, is bounded
\* by retry limits and timeouts. Nothing is assumed of the loops: a collector
\* may hang in a system call whatever its context says.
Fairness ==
  /\ WF_vars(StartNext)
  /\ WF_vars(StartFailed) /\ WF_vars(StartReturns) /\ WF_vars(ServiceStop)
  /\ WF_vars(StopBegin) /\ WF_vars(Deadline) /\ WF_vars(StopReturns)
  /\ WF_vars(AfterStop) /\ WF_vars(ShutdownAwaited) /\ WF_vars(AwaitTimesOut)

FairSpec == Spec /\ Fairness

-----------------------------------------------------------------------------

TypeOK ==
  /\ mode \in Modes
  /\ main \in {"select", "starting", "serving", "stopping", "awaiting", "exited"}
  /\ reason \in {"none", "signal", "error"} /\ cancelled \in BOOLEAN
  /\ start \in {"prepare", "setRunning", "started", "failed"} \cup DOMAIN Launches
  /\ running \in BOOLEAN
  /\ services \subseteq Services /\ closed \subseteq Services \cup {"agent"}
  /\ loop \in [Loops -> {"none", "ready", "busy", "gone"}]
  /\ stop \in {"idle", "waiting", "noop", "graceful", "timeout"} /\ expired \in BOOLEAN
  /\ shutdown \in {"none", "heartbeat", "waitHeartbeat", "metrics", "waitMetrics",
                   "waitWorkers", "flush", "cleanup", "done"}
  /\ stoppedCh \in BOOLEAN /\ cacheClosed \in BOOLEAN /\ overlap \in BOOLEAN
  /\ stoppedCh => ~running /\ "agent" \in closed

\* Whether Stop's caller can have overtaken Start: never under runAgent.
StopAfterStart == mode = "service" \/ ~overlap

\* "It ensures all resources are properly released and data is flushed" (agent.go,
\* Stop): the final flush and the closing of the cache come when no loop that
\* uses the cache is left, so nothing is stored after the flush has read it and
\* nothing uses a closed cache, however slow a collection or an upload is. run
\* can call Stop in the middle of Start, where this fails (see overlap).
FlushIsLast ==
  (StopAfterStart /\ shutdown \in {"flush", "cleanup", "done"}) =>
    \A l \in CacheUsers : loop[l] = "gone"

\* "Stop components in reverse order": before the deadline, the metrics system and
\* the workers are only awaited when the heartbeat loop has ended.
HeartbeatEndsFirst ==
  (StopAfterStart /\ ~expired
     /\ shutdown \notin {"none", "heartbeat", "waitHeartbeat"}) => loop["heartbeat"] = "gone"

\* "Agent stopped gracefully" is logged only when the shutdown has run to its
\* end: with the cache closed and no loop left that uses it.
GracefulIsComplete ==
  (stop = "graceful" /\ StopAfterStart) =>
     cacheClosed /\ \A l \in CacheUsers : loop[l] = "gone"

\* "WaitForShutdown blocks until the agent has completely stopped" (agent.go): a
\* Stop that times out closes stoppedCh all the same, with the shutdown goroutine
\* and the loops it waits for still there.
CompletelyStopped == stoppedCh => shutdown = "done" /\ \A l \in Loops : ~Alive(l)

\* "Attempt cleanup even after error" (main.go, run): a failed Start has left
\* running unset, and Stop without running returns at once.
ErrorPathCleansUp == (main = "exited" /\ reason = "error") => cacheClosed

\* A signal or a cancelled service context ends the driver, wherever Start stands
\* and although a collection may hang for ever.
ShutdownCompletes == cancelled ~> main = "exited"
=============================================================================
