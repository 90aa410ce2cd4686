-------------------------- MODULE AgentLifecycleProofs --------------------------
(***************************************************************************)
(* Theorems about the order of the agent's shutdown, for both drivers and  *)
(* every interleaving of Start, Stop, the deadline and the loops.          *)
(*                                                                         *)
(* None of the properties is inductive. Launched and Flagged say what Start*)
(* has set up by the statement it stands at: a loop that is awaited and not*)
(* alive has ended, and was not forgotten. Called ties the call of Stop to *)
(* its shutdown goroutine and to Start, and Awaited says what the shutdown *)
(* has waited for by the statement it stands at.                           *)
(***************************************************************************)
EXTENDS AgentLifecycle, TLAPS

Early == {"prepare", "setRunning", "failed"}
BeforeMetrics == Early \cup {"flagMetrics", "goMetrics"}
BeforeHeartbeat == BeforeMetrics \cup {"flagHeartbeat", "goHeartbeat"}
BeforeUpload == BeforeHeartbeat \cup {"goUpload"}
BeforePoll == BeforeUpload \cup {"goPoll"}
BeforeMaintenance == BeforePoll \cup {"goMaintenance"}

StartStates == BeforeMaintenance \cup {"started"}
ShutdownStates == {"none", "heartbeat", "waitHeartbeat", "metrics", "waitMetrics",
                   "waitWorkers", "flush", "cleanup", "done"}
LoopStates == {"none", "ready", "busy", "gone"}

\* Loops that Start has passed exist.
Launched ==
  /\ start \notin BeforeMetrics => loop["metrics"] # "none"
  /\ start \notin BeforeHeartbeat => loop["heartbeat"] # "none"
  /\ start \notin BeforeUpload => loop["upload"] # "none"
  /\ start \notin BeforePoll => loop["poll"] # "none"
  /\ start \notin BeforeMaintenance => loop["maintenance"] # "none"

\* The flag of a service is set from its Start to the end of its Stop.
Flagged ==
  /\ (start \notin Early \cup {"flagMetrics"}
        /\ shutdown \in {"none", "heartbeat", "waitHeartbeat", "metrics", "waitMetrics"})
       => "metrics" \in services
  /\ (start \notin BeforeMetrics \cup {"flagHeartbeat"}
        /\ shutdown \in {"none", "heartbeat", "waitHeartbeat"}) => "heartbeat" \in services

\* Stop gets past its first test only when Start has set running.
Called ==
  /\ stop = "idle" => shutdown = "none"
  /\ stop \in {"idle", "waiting", "noop"} => ~stoppedCh
  /\ stop \in {"waiting", "graceful", "timeout"} => start \notin Early /\ "agent" \in closed
  /\ running => start \notin Early
  /\ (mode = "service" /\ main \in {"serving", "stopping", "awaiting"}) => start = "started"
  /\ (shutdown # "none" /\ StopAfterStart) => start = "started"

\* What the shutdown has waited for.
Awaited ==
  /\ (StopAfterStart /\ shutdown \in {"waitWorkers", "flush", "cleanup", "done"})
       => loop["metrics"] = "gone"
  /\ (StopAfterStart /\ shutdown \in {"flush", "cleanup", "done"})
       => \A w \in Workers : loop[w] = "gone"
  /\ shutdown = "done" => cacheClosed
  /\ stop = "graceful" => shutdown = "done"

IndInv == TypeOK /\ Launched /\ Flagged /\ Called /\ Awaited /\ HeartbeatEndsFirst

LEMMA StartStatesAre == {"prepare", "setRunning", "started", "failed"} \cup DOMAIN Launches = StartStates
BY DEF Launches, StartStates, BeforeMaintenance, BeforePoll, BeforeUpload, BeforeHeartbeat,
       BeforeMetrics, Early

LEMMA InitIndInv == Init => IndInv
<1> SUFFICES ASSUME Init PROVE IndInv
  OBVIOUS
<1>1. TypeOK
  BY ModesAssumption, StartStatesAre
     DEF Init, TypeOK, StartStates, BeforeMaintenance, BeforePoll, BeforeUpload, BeforeHeartbeat,
         BeforeMetrics, Early
<1>2. Launched /\ Flagged
  BY DEF Init, Launched, Flagged, BeforeMaintenance, BeforePoll, BeforeUpload, BeforeHeartbeat,
         BeforeMetrics, Early
<1>3. Called /\ Awaited /\ HeartbeatEndsFirst
  BY DEF Init, Called, Awaited, HeartbeatEndsFirst
<1> QED BY <1>1, <1>2, <1>3 DEF IndInv

\* A step that leaves Start, the services and the shutdown alone, and in which
\* no loop comes into being or comes back.
LoopsOnlyEnd == \A l \in Loops : /\ loop[l] # "none" => loop'[l] # "none"
                                 /\ loop[l] = "gone" => loop'[l] = "gone"

LEMMA LoopsKeepIndInv == IndInv /\ LoopNext => IndInv'
<1> SUFFICES ASSUME IndInv, NEW l \in Loops, Tick(l) \/ Work(l) \/ Leave(l) PROVE IndInv'
  BY DEF LoopNext
<1>1. UNCHANGED <<driverVars, startVars, services, closed, stopVars>>
  BY DEF Tick, Work, Leave
<1>2. loop' \in [Loops -> LoopStates] /\ LoopsOnlyEnd
  BY DEF IndInv, TypeOK, Tick, Work, Leave, LoopStates, LoopsOnlyEnd
<1>3. TypeOK'
  BY <1>1, <1>2 DEF IndInv, TypeOK, LoopStates, driverVars, startVars, stopVars
<1>4. Launched' /\ Flagged'
  BY <1>1, <1>2 DEF IndInv, Launched, Flagged, LoopsOnlyEnd, Loops, Workers, Services,
                    startVars, stopVars
<1>5. Called'
  BY <1>1 DEF IndInv, Called, StopAfterStart, driverVars, startVars, stopVars
<1>6. Awaited' /\ HeartbeatEndsFirst'
  BY <1>1, <1>2 DEF IndInv, Awaited, HeartbeatEndsFirst, StopAfterStart, LoopsOnlyEnd, Loops,
                    Workers, Services, driverVars, startVars, stopVars
<1> QED BY <1>3, <1>4, <1>5, <1>6 DEF IndInv

-----------------------------------------------------------------------------
(* Start *)

\* The six launching statements, one by one.
LEMMA LaunchSteps ==
  ASSUME LaunchFlag \/ LaunchLoop
  PROVE
  /\ UNCHANGED <<driverVars, running, closed, stopVars>>
  /\ \/ start = "flagMetrics" /\ start' = "goMetrics" /\ services' = services \cup {"metrics"}
        /\ loop' = loop
     \/ start = "flagHeartbeat" /\ start' = "goHeartbeat" /\ services' = services \cup {"heartbeat"}
        /\ loop' = loop
     \/ start = "goMetrics" /\ start' = "flagHeartbeat" /\ services' = services
        /\ loop' = [loop EXCEPT !["metrics"] = "busy"]
     \/ start = "goHeartbeat" /\ start' = "goUpload" /\ services' = services
        /\ loop' = [loop EXCEPT !["heartbeat"] = "busy"]
     \/ start = "goUpload" /\ start' = "goPoll" /\ services' = services
        /\ loop' = [loop EXCEPT !["upload"] = "ready"]
     \/ start = "goPoll" /\ start' = "goMaintenance" /\ services' = services
        /\ loop' = [loop EXCEPT !["poll"] = "ready"]
     \/ start = "goMaintenance" /\ start' = "started" /\ services' = services
        /\ loop' = [loop EXCEPT !["maintenance"] = "ready"]
<1>1. UNCHANGED <<driverVars, running, closed, stopVars>>
  BY DEF LaunchFlag, LaunchLoop
<1>2. CASE LaunchFlag
  <2>1. start \in {"flagMetrics", "flagHeartbeat"}
    BY <1>2 DEF LaunchFlag, Flags
  <2> QED BY <1>1, <1>2, <2>1 DEF LaunchFlag, Flags, Launches
<1>3. CASE LaunchLoop
  <2>1. start \in {"goMetrics", "goHeartbeat", "goUpload", "goPoll", "goMaintenance"}
    BY <1>3 DEF LaunchLoop, Gos
  <2>2. /\ loop' = [loop EXCEPT ![Gos[start]] = IF Gos[start] \in Services THEN "busy" ELSE "ready"]
        /\ start' = Launches[start] /\ services' = services
    BY <1>3 DEF LaunchLoop
  <2>3. CASE start = "goMetrics"
    BY <1>1, <2>2, <2>3 DEF Gos, Launches, Services
  <2>4. CASE start = "goHeartbeat"
    BY <1>1, <2>2, <2>4 DEF Gos, Launches, Services
  <2>5. CASE start = "goUpload"
    BY <1>1, <2>2, <2>5 DEF Gos, Launches, Services
  <2>6. CASE start = "goPoll"
    BY <1>1, <2>2, <2>6 DEF Gos, Launches, Services
  <2>7. CASE start = "goMaintenance"
    BY <1>1, <2>2, <2>7 DEF Gos, Launches, Services
  <2> QED BY <2>1, <2>3, <2>4, <2>5, <2>6, <2>7
<1> QED BY <1>2, <1>3

LEMMA StartKeepsIndInv == IndInv /\ StartNext => IndInv'
<1> USE DEF StartStates, BeforeMaintenance, BeforePoll, BeforeUpload, BeforeHeartbeat,
            BeforeMetrics, Early
<1> SUFFICES ASSUME IndInv, StartNext PROVE IndInv'
  OBVIOUS
<1>1. CASE Prepare
  <2>1. TypeOK'
    BY <1>1, StartStatesAre DEF Prepare, IndInv, TypeOK, driverVars, loopVars, stopVars
  <2>2. Launched' /\ Flagged'
    BY <1>1 DEF Prepare, IndInv, Launched, Flagged, loopVars, stopVars
  <2>3. Called' /\ Awaited' /\ HeartbeatEndsFirst'
    BY <1>1 DEF Prepare, IndInv, Called, Awaited, HeartbeatEndsFirst, StopAfterStart,
                driverVars, loopVars, stopVars
  <2> QED BY <2>1, <2>2, <2>3 DEF IndInv
<1>2. CASE SetRunning
  <2>1. ~stoppedCh
    BY <1>2 DEF SetRunning, IndInv, TypeOK, Called
  <2>2. TypeOK'
    BY <1>2, <2>1, StartStatesAre DEF SetRunning, IndInv, TypeOK, driverVars, loopVars, stopVars
  <2>3. Launched' /\ Flagged'
    BY <1>2 DEF SetRunning, IndInv, Launched, Flagged, loopVars, stopVars
  <2>4. Called' /\ Awaited' /\ HeartbeatEndsFirst'
    BY <1>2 DEF SetRunning, IndInv, Called, Awaited, HeartbeatEndsFirst, StopAfterStart,
                driverVars, loopVars, stopVars
  <2> QED BY <2>2, <2>3, <2>4 DEF IndInv
<1>3. CASE LaunchFlag \/ LaunchLoop
  <2>1. TypeOK'
    <3>1. start' \in StartStates /\ services' \subseteq Services /\ loop' \in [Loops -> LoopStates]
      BY <1>3, LaunchSteps DEF IndInv, TypeOK, LoopStates, Services, Loops, Workers
    <3>2. UNCHANGED <<driverVars, running, closed, stopVars>>
      BY <1>3, LaunchSteps
    <3> QED BY <3>1, <3>2, StartStatesAre
            DEF IndInv, TypeOK, LoopStates, driverVars, stopVars
  <2>2. Launched'
    <3>1. loop \in [Loops -> LoopStates]
      BY DEF IndInv, TypeOK, LoopStates
    <3> QED BY <1>3, <3>1, LaunchSteps DEF IndInv, Launched, Loops, Workers, Services
  <2>3. Flagged'
    BY <1>3, LaunchSteps DEF IndInv, Flagged, stopVars
  <2>4. Called' /\ start # "started"
    BY <1>3, LaunchSteps DEF IndInv, Called, StopAfterStart, driverVars, stopVars
  <2>5. Awaited' /\ HeartbeatEndsFirst'
    <3>1. UNCHANGED <<mode, overlap, shutdown, stop, expired, cacheClosed>>
      BY <1>3, LaunchSteps DEF driverVars, stopVars
    <3>2. ~(shutdown # "none" /\ StopAfterStart)
      BY <2>4 DEF IndInv, Called
    <3> QED BY <3>1, <3>2 DEF IndInv, Awaited, HeartbeatEndsFirst, StopAfterStart
  <2> QED BY <2>1, <2>2, <2>3, <2>4, <2>5 DEF IndInv
<1> QED BY <1>1, <1>2, <1>3 DEF StartNext

-----------------------------------------------------------------------------
(* The shutdown goroutine *)

\* What one of its statements changes, and under which condition it moves on.
LEMMA ShutdownSteps ==
  ASSUME ShutdownNext
  PROVE
  /\ UNCHANGED <<driverVars, startVars, loop, stop, expired, stoppedCh, overlap>>
  /\ closed \subseteq closed' /\ closed' \subseteq closed \cup Services
  /\ \/ /\ shutdown = "heartbeat" /\ shutdown' = "waitHeartbeat" /\ UNCHANGED <<services, cacheClosed>>
     \/ /\ shutdown = "heartbeat" /\ shutdown' = "metrics" /\ UNCHANGED <<services, cacheClosed>>
        /\ "heartbeat" \notin services
     \/ /\ shutdown = "waitHeartbeat" /\ shutdown' = "metrics" /\ UNCHANGED cacheClosed
        /\ services' = services \ {"heartbeat"} /\ (~Alive("heartbeat") \/ expired)
     \/ /\ shutdown = "metrics" /\ shutdown' = "waitMetrics" /\ UNCHANGED <<services, cacheClosed>>
     \/ /\ shutdown = "metrics" /\ shutdown' = "waitWorkers" /\ UNCHANGED <<services, cacheClosed>>
        /\ "metrics" \notin services
     \/ /\ shutdown = "waitMetrics" /\ shutdown' = "waitWorkers" /\ UNCHANGED cacheClosed
        /\ services' = services \ {"metrics"} /\ ~Alive("metrics")
     \/ /\ shutdown = "waitWorkers" /\ shutdown' = "flush" /\ UNCHANGED <<services, cacheClosed>>
        /\ \A w \in Workers : ~Alive(w)
     \/ /\ shutdown = "flush" /\ shutdown' = "cleanup" /\ UNCHANGED <<services, cacheClosed>>
     \/ /\ shutdown = "cleanup" /\ shutdown' = "done" /\ UNCHANGED services /\ cacheClosed' = TRUE
<1> USE DEF loopVars, Services
<1>1. CASE StopHeartbeat \/ StopMetrics
  BY <1>1 DEF StopHeartbeat, StopMetrics, StopService
<1>2. CASE HeartbeatStopped \/ MetricsStopped
  BY <1>2 DEF HeartbeatStopped, MetricsStopped, ServiceStopped
<1>3. CASE WorkersDone \/ Flush \/ Cleanup
  BY <1>3 DEF WorkersDone, Flush, Cleanup, ShutdownStep
<1> QED BY <1>1, <1>2, <1>3 DEF ShutdownNext

LEMMA ShutdownKeepsIndInv == IndInv /\ ShutdownNext => IndInv'
<1> USE DEF BeforeMaintenance, BeforePoll, BeforeUpload, BeforeHeartbeat, BeforeMetrics, Early
<1> SUFFICES ASSUME IndInv, ShutdownNext PROVE IndInv'
  OBVIOUS
<1>1. UNCHANGED <<driverVars, startVars, loop, stop, expired, stoppedCh, overlap>>
  BY ShutdownSteps
<1>2. shutdown # "none" /\ stop # "idle" /\ shutdown # "done"
  BY ShutdownSteps DEF IndInv, Called
<1>3. TypeOK'
  <2>1. services' \subseteq Services /\ closed' \subseteq Services \cup {"agent"}
        /\ ("agent" \in closed => "agent" \in closed')
    BY ShutdownSteps DEF IndInv, TypeOK
  <2>2. shutdown' \in ShutdownStates /\ cacheClosed' \in BOOLEAN
    BY ShutdownSteps DEF IndInv, TypeOK, ShutdownStates
  <2> QED BY <1>1, <2>1, <2>2 DEF IndInv, TypeOK, ShutdownStates, driverVars, startVars
<1>4. Launched'
  BY <1>1 DEF IndInv, Launched, startVars
<1>5. Flagged'
  BY <1>1, ShutdownSteps DEF IndInv, Flagged, startVars
<1>6. Called'
  BY <1>1, <1>2, ShutdownSteps DEF IndInv, Called, StopAfterStart, driverVars, startVars
<1>7. Awaited' /\ HeartbeatEndsFirst'
  <2>1. StopAfterStart' <=> StopAfterStart
    BY <1>1 DEF StopAfterStart, driverVars
  <2>2. StopAfterStart => start = "started"
    BY <1>2 DEF IndInv, Called
  <2>3. StopAfterStart => \A l \in Loops : ~Alive(l) => loop[l] = "gone"
    BY <2>2 DEF IndInv, TypeOK, Launched, Alive, Loops, Workers, Services
  <2>4. StopAfterStart => /\ shutdown \in {"heartbeat", "waitHeartbeat"} => "heartbeat" \in services
                          /\ shutdown \in {"metrics", "waitMetrics"} => "metrics" \in services
    BY <2>2 DEF IndInv, Flagged
  <2>5. (StopAfterStart /\ shutdown' \in {"waitWorkers", "flush", "cleanup", "done"})
          => loop'["metrics"] = "gone"
    BY <1>1, <2>3, <2>4, ShutdownSteps DEF IndInv, Awaited, Loops, Services
  <2>6. (StopAfterStart /\ shutdown' \in {"flush", "cleanup", "done"})
          => \A w \in Workers : loop'[w] = "gone"
    BY <1>1, <2>3, ShutdownSteps DEF IndInv, Awaited, Loops
  <2>7. (shutdown' = "done" => cacheClosed') /\ (stop' = "graceful" => shutdown' = "done")
    BY <1>1, <1>2, ShutdownSteps DEF IndInv, Awaited
  <2>8. HeartbeatEndsFirst'
    BY <1>1, <2>1, <2>3, <2>4, ShutdownSteps DEF IndInv, HeartbeatEndsFirst, Loops, Services
  <2> QED BY <2>1, <2>5, <2>6, <2>7, <2>8 DEF Awaited
<1> QED BY <1>3, <1>4, <1>5, <1>6, <1>7 DEF IndInv

-----------------------------------------------------------------------------
(* The drivers and the call of Stop *)

\* Driver steps outside Stop.
LEMMA DriversKeepIndInv ==
  ASSUME IndInv,
         \/ Signal \/ StartFailed \/ CancelService \/ StartReturns \/ ServiceStop
         \/ AfterStop \/ ShutdownAwaited \/ AwaitTimesOut
  PROVE  IndInv'
<1>1. UNCHANGED <<mode, startVars, loopVars, stopVars>>
  BY DEF Signal, StartFailed, CancelService, StartReturns, ServiceStop, AfterStop,
         ShutdownAwaited, AwaitTimesOut, Drive
<1>2. /\ main' \in {"select", "starting", "serving", "stopping", "awaiting", "exited"}
      /\ reason' \in {"none", "signal", "error"} /\ cancelled' \in BOOLEAN
  BY DEF IndInv, TypeOK, Signal, StartFailed, CancelService, StartReturns, ServiceStop, AfterStop,
         ShutdownAwaited, AwaitTimesOut, Drive
<1>3. (mode = "service" /\ main' \in {"serving", "stopping", "awaiting"}) => start = "started"
  BY DEF IndInv, Called, Signal, StartFailed, CancelService, StartReturns, ServiceStop, AfterStop,
         ShutdownAwaited, AwaitTimesOut, Drive
<1>4. TypeOK'
  BY <1>1, <1>2 DEF IndInv, TypeOK, startVars, loopVars, stopVars
<1>5. Launched' /\ Flagged'
  BY <1>1 DEF IndInv, Launched, Flagged, startVars, loopVars, stopVars
<1>6. Called'
  BY <1>1, <1>3 DEF IndInv, Called, StopAfterStart, startVars, loopVars, stopVars
<1>7. Awaited' /\ HeartbeatEndsFirst'
  BY <1>1 DEF IndInv, Awaited, HeartbeatEndsFirst, StopAfterStart, startVars, loopVars, stopVars
<1> QED BY <1>4, <1>5, <1>6, <1>7 DEF IndInv

LEMMA StopKeepsIndInv ==
  ASSUME IndInv, StopBegin \/ Deadline \/ StopReturns
  PROVE  IndInv'
<1> USE DEF BeforeMaintenance, BeforePoll, BeforeUpload, BeforeHeartbeat, BeforeMetrics, Early
<1>1. CASE StopBegin
  <2>1. /\ UNCHANGED <<driverVars, startVars, services, loop, expired, stoppedCh, cacheClosed>>
        /\ main = "stopping" /\ stop = "idle" /\ shutdown = "none" /\ ~stoppedCh
    BY <1>1 DEF StopBegin, IndInv, Called
  <2>2. CASE running
    <3>1. /\ closed' = closed \cup {"agent"} /\ stop' = "waiting" /\ shutdown' = "heartbeat"
          /\ overlap' = (start # "started") /\ start \notin Early
      BY <1>1, <2>2 DEF StopBegin, IndInv, Called
    <3>2. overlap' \in BOOLEAN /\ (~overlap' => start = "started")
      BY <3>1
    <3>3. TypeOK'
      BY <2>1, <3>1, <3>2 DEF IndInv, TypeOK, driverVars, startVars
    <3>4. Launched' /\ Flagged'
      BY <2>1, <3>1 DEF IndInv, Launched, Flagged, startVars
    <3>5. Called'
      BY <2>1, <3>1, <3>2 DEF IndInv, Called, StopAfterStart, driverVars, startVars
    <3>6. Awaited' /\ HeartbeatEndsFirst'
      BY <3>1 DEF Awaited, HeartbeatEndsFirst
    <3> QED BY <3>3, <3>4, <3>5, <3>6 DEF IndInv
  <2>3. CASE ~running
    <3>1. stop' = "noop" /\ UNCHANGED <<closed, shutdown, overlap>>
      BY <1>1, <2>3 DEF StopBegin
    <3>2. TypeOK'
      BY <2>1, <3>1 DEF IndInv, TypeOK, driverVars, startVars
    <3>3. Launched' /\ Flagged' /\ Called'
      BY <2>1, <3>1 DEF IndInv, Launched, Flagged, Called, StopAfterStart, driverVars, startVars
    <3>4. Awaited' /\ HeartbeatEndsFirst'
      BY <2>1, <3>1 DEF IndInv, Awaited, HeartbeatEndsFirst, StopAfterStart, driverVars
    <3> QED BY <3>2, <3>3, <3>4 DEF IndInv
  <2> QED BY <2>2, <2>3
<1>2. CASE Deadline
  <2>1. TypeOK'
    BY <1>2 DEF Deadline, IndInv, TypeOK, driverVars, startVars, loopVars
  <2>2. Launched' /\ Flagged' /\ Called'
    BY <1>2 DEF Deadline, IndInv, Launched, Flagged, Called, StopAfterStart, driverVars, startVars,
                loopVars
  <2>3. Awaited' /\ HeartbeatEndsFirst'
    BY <1>2 DEF Deadline, IndInv, Awaited, HeartbeatEndsFirst, StopAfterStart, driverVars, loopVars
  <2> QED BY <2>1, <2>2, <2>3 DEF IndInv
<1>3. CASE StopReturns
  <2>1. /\ UNCHANGED <<driverVars, start, loopVars, shutdown, cacheClosed, overlap>>
        /\ ~running' /\ stoppedCh' /\ expired' /\ running' = FALSE /\ stoppedCh' = TRUE /\ expired' = TRUE
        /\ stop = "waiting" /\ stop' \in {"graceful", "timeout"}
        /\ stop' = "graceful" => shutdown = "done"
    BY <1>3 DEF StopReturns
  <2>2. "agent" \in closed /\ start \notin Early
    BY <2>1 DEF IndInv, Called
  <2>3. TypeOK'
    BY <2>1, <2>2 DEF IndInv, TypeOK, driverVars, loopVars
  <2>4. Launched' /\ Flagged'
    BY <2>1 DEF IndInv, Launched, Flagged, loopVars
  <2>5. Called'
    BY <2>1, <2>2 DEF IndInv, Called, StopAfterStart, driverVars, loopVars
  <2>6. Awaited' /\ HeartbeatEndsFirst'
    BY <2>1 DEF IndInv, Awaited, HeartbeatEndsFirst, StopAfterStart, driverVars, loopVars
  <2> QED BY <2>3, <2>4, <2>5, <2>6 DEF IndInv
<1> QED BY <1>1, <1>2, <1>3

LEMMA StepKeepsIndInv == IndInv /\ [Next]_vars => IndInv'
<1> SUFFICES ASSUME IndInv, [Next]_vars PROVE IndInv'
  OBVIOUS
<1>1. CASE UNCHANGED vars
  <2>1. TypeOK' /\ Launched' /\ Flagged'
    BY <1>1 DEF IndInv, TypeOK, Launched, Flagged, vars, driverVars, startVars, loopVars, stopVars
  <2>2. Called' /\ Awaited' /\ HeartbeatEndsFirst'
    BY <1>1 DEF IndInv, Called, Awaited, HeartbeatEndsFirst, StopAfterStart,
                vars, driverVars, startVars, loopVars, stopVars
  <2> QED BY <2>1, <2>2 DEF IndInv
<1>2. CASE DriverNext
  BY <1>2, DriversKeepIndInv, StopKeepsIndInv DEF DriverNext
<1> QED BY <1>1, <1>2, StartKeepsIndInv, LoopsKeepIndInv, ShutdownKeepsIndInv DEF Next

LEMMA IndInvHolds == Spec => []IndInv
<1> QED BY InitIndInv, StepKeepsIndInv, PTL DEF Spec

-----------------------------------------------------------------------------

\* Types, and that stoppedCh is closed only when running is cleared and stopCh
\* closed.
THEOREM TypeCorrect == Spec => []TypeOK
<1>1. IndInv => TypeOK
  BY DEF IndInv
<1> QED BY <1>1, IndInvHolds, PTL

\* A Stop that does not overtake Start flushes and closes the cache only when no
\* loop that uses it is left, wherever the loops, the deadline and the driver are.
THEOREM FlushComesLast == Spec => []FlushIsLast
<1>1. IndInv => FlushIsLast
  <2> SUFFICES ASSUME IndInv, StopAfterStart, shutdown \in {"flush", "cleanup", "done"},
                      NEW l \in CacheUsers
               PROVE  loop[l] = "gone"
    BY DEF FlushIsLast
  <2>1. l \in Workers \cup {"metrics"}
    BY DEF CacheUsers, Loops, Services
  <2> QED BY <2>1 DEF IndInv, Awaited
<1> QED BY <1>1, IndInvHolds, PTL

\* Before the deadline nothing but the heartbeat is awaited until its loop has
\* ended.
THEOREM HeartbeatEndsBeforeOthers == Spec => []HeartbeatEndsFirst
<1>1. IndInv => HeartbeatEndsFirst
  BY DEF IndInv
<1> QED BY <1>1, IndInvHolds, PTL

\* A Stop that reports a graceful end has closed the cache, with no loop left
\* that uses it, whatever the deadline did.
THEOREM GracefulStopIsComplete == Spec => []GracefulIsComplete
<1>1. IndInv => GracefulIsComplete
  BY DEF IndInv, Awaited, GracefulIsComplete, CacheUsers, Loops, Services
<1> QED BY <1>1, IndInvHolds, PTL

-----------------------------------------------------------------------------
(* Nothing happens twice *)

\* Loops that Start has not passed do not exist.
Unlaunched ==
  /\ start \in BeforeMetrics => loop["metrics"] = "none"
  /\ start \in BeforeHeartbeat => loop["heartbeat"] = "none"
  /\ start \in BeforeUpload => loop["upload"] = "none"
  /\ start \in BeforePoll => loop["poll"] = "none"
  /\ start \in BeforeMaintenance => loop["maintenance"] = "none"

\* Channels that Stop has not passed are open, and the cache is open to the end.
Unclosed ==
  /\ stop \in {"idle", "noop"} => shutdown = "none" /\ closed = {}
  /\ shutdown \in {"none", "heartbeat"} => "heartbeat" \notin closed
  /\ shutdown \in {"none", "heartbeat", "waitHeartbeat", "metrics"} => "metrics" \notin closed
  /\ shutdown # "done" => ~cacheClosed

Once == Unlaunched /\ Unclosed /\ (reason = "error" => start = "failed")

\* A step of Start.
StartOnce ==
  /\ UNCHANGED <<driverVars, closed, stopVars>>
  /\ start # "failed"
  /\ Unlaunched'

LEMMA StartIsOnce == ASSUME IndInv, Once, StartNext PROVE StartOnce
<1> USE DEF BeforeMaintenance, BeforePoll, BeforeUpload, BeforeHeartbeat, BeforeMetrics, Early
<1>1. CASE Prepare
  BY <1>1 DEF Prepare, Once, Unlaunched, StartOnce, loopVars
<1>2. CASE SetRunning
  BY <1>2 DEF SetRunning, Once, Unlaunched, StartOnce, loopVars
<1>3. CASE LaunchFlag \/ LaunchLoop
  <2>1. loop \in [Loops -> LoopStates]
    BY DEF IndInv, TypeOK, LoopStates
  <2>2. UNCHANGED <<driverVars, closed, stopVars>> /\ start # "failed"
    BY <1>3, LaunchSteps
  <2>3. Unlaunched'
    BY <1>3, <2>1, LaunchSteps DEF Once, Unlaunched, Loops, Workers, Services
  <2> QED BY <2>2, <2>3 DEF StartOnce
<1> QED BY <1>1, <1>2, <1>3 DEF StartNext

\* A step of a loop: it existed before.
LEMMA LoopSteps ==
  ASSUME IndInv, LoopNext
  PROVE  /\ UNCHANGED <<driverVars, startVars, services, closed, stopVars>>
         /\ \A l \in Loops : /\ loop[l] = "none" => loop'[l] = "none"
                             /\ loop[l] = "gone" => loop'[l] = "gone"
<1>1. PICK l \in Loops : Tick(l) \/ Work(l) \/ Leave(l)
  BY DEF LoopNext
<1>2. loop \in [Loops -> LoopStates]
  BY DEF IndInv, TypeOK, LoopStates
<1> QED BY <1>1, <1>2 DEF Tick, Work, Leave

\* A step of a driver leaves what Start has launched alone.
LEMMA DriverSteps ==
  ASSUME DriverNext
  PROVE  /\ UNCHANGED <<mode, start, services, loop, cacheClosed>>
         /\ shutdown' = IF StopBegin /\ running THEN "heartbeat" ELSE shutdown
         /\ closed' = IF StopBegin /\ running THEN closed \cup {"agent"} ELSE closed
<1>1. CASE StopBegin
  BY <1>1 DEF StopBegin, driverVars, startVars
<1>2. CASE Deadline \/ StopReturns
  <2>1. stop = "waiting"
    BY <1>2 DEF Deadline, StopReturns
  <2> QED BY <1>2, <2>1 DEF Deadline, StopReturns, StopBegin, driverVars, startVars, loopVars
<1>3. CASE \/ Signal \/ StartFailed \/ CancelService \/ StartReturns \/ ServiceStop
           \/ AfterStop \/ ShutdownAwaited \/ AwaitTimesOut
  <2>1. UNCHANGED <<mode, startVars, loopVars, stopVars>> /\ ~StopBegin
    BY <1>3 DEF Signal, StartFailed, CancelService, StartReturns, ServiceStop, AfterStop,
       ShutdownAwaited, AwaitTimesOut, Drive, StopBegin, stopVars
  <2> QED BY <2>1 DEF startVars, loopVars, stopVars
<1> QED BY <1>1, <1>2, <1>3 DEF DriverNext

LEMMA OnceKept == ASSUME IndInv, Once, [Next]_vars PROVE Once'
<1>1. CASE StartNext
  <2>1. StartOnce /\ (reason' = "error" => start' = "failed")
    BY <1>1, StartIsOnce DEF StartOnce, Once, driverVars
  <2> QED BY <2>1 DEF StartOnce, Once, Unclosed, driverVars, stopVars
<1>2. CASE LoopNext
  <2>1. Unlaunched'
    BY <1>2, LoopSteps DEF Once, Unlaunched, Loops, Workers, Services, startVars
  <2> QED BY <1>2, <2>1, LoopSteps DEF Once, Unclosed, driverVars, startVars, stopVars
<1>3. CASE ShutdownNext
  <2>1. UNCHANGED <<driverVars, startVars, loop, stop>>
    BY <1>3, ShutdownSteps
  <2>2. stop \notin {"idle", "noop"}
    BY <1>3, ShutdownSteps DEF Once, Unclosed
  <2>3. closed' = closed
        \/ (shutdown = "heartbeat" /\ shutdown' = "waitHeartbeat" /\ closed' = closed \cup {"heartbeat"})
        \/ (shutdown = "metrics" /\ shutdown' = "waitMetrics" /\ closed' = closed \cup {"metrics"})
    BY <1>3 DEF ShutdownNext, StopHeartbeat, StopMetrics, StopService, HeartbeatStopped,
       MetricsStopped, ServiceStopped, WorkersDone, Flush, Cleanup, ShutdownStep, loopVars
  <2>4. /\ shutdown' = "waitHeartbeat" => shutdown = "heartbeat"
        /\ shutdown' = "metrics" => shutdown \in {"heartbeat", "waitHeartbeat"}
        /\ shutdown' \notin {"none", "heartbeat"}
    BY <1>3, ShutdownSteps
  <2>5. "metrics" \in closed' => "metrics" \in closed \/ shutdown' = "waitMetrics"
    BY <2>3
  <2>6. shutdown' # "done" => ~cacheClosed'
    BY <1>3, ShutdownSteps DEF Once, Unclosed
  <2>7. Unclosed'
    BY <2>1, <2>2, <2>4, <2>5, <2>6 DEF Once, Unclosed
  <2> QED BY <2>1, <2>7 DEF Once, Unlaunched, driverVars, startVars
<1>4. CASE DriverNext
  <2>1. UNCHANGED <<start, loop, cacheClosed>>
    BY <1>4, DriverSteps
  <2>2. reason' = "error" => start = "failed"
    <3>1. CASE Signal \/ StartFailed \/ ServiceStop
      BY <3>1 DEF Signal, StartFailed, ServiceStop
    <3>2. CASE \/ CancelService \/ StartReturns \/ StopBegin \/ Deadline \/ StopReturns
               \/ AfterStop \/ ShutdownAwaited \/ AwaitTimesOut
      <4>1. reason' = reason
        BY <3>2 DEF CancelService, StartReturns, StopBegin, Deadline, StopReturns, AfterStop,
           ShutdownAwaited, AwaitTimesOut, driverVars
      <4> QED BY <4>1 DEF Once
    <3> QED BY <1>4, <3>1, <3>2 DEF DriverNext
  <2>3. CASE StopBegin /\ running
    <3>1. shutdown' = "heartbeat" /\ closed' = closed \cup {"agent"} /\ stop' = "waiting"
          /\ shutdown = "none"
      BY <1>4, <2>3, DriverSteps DEF StopBegin, IndInv, Called
    <3> QED BY <2>1, <2>2, <3>1 DEF Once, Unlaunched, Unclosed
  <2>4. CASE ~(StopBegin /\ running)
    <3>1. UNCHANGED <<shutdown, closed>>
      BY <1>4, <2>4, DriverSteps
    <3>2. stop' \in {"idle", "noop"} => stop \in {"idle", "noop"}
      BY <1>4, <2>4 DEF DriverNext, Signal, StartFailed, CancelService, StartReturns, ServiceStop,
         StopBegin, Deadline, StopReturns, AfterStop, ShutdownAwaited, AwaitTimesOut, Drive, stopVars
    <3> QED BY <2>1, <2>2, <3>1, <3>2 DEF Once, Unlaunched, Unclosed
  <2> QED BY <2>3, <2>4
<1>5. CASE UNCHANGED vars
  BY <1>5 DEF Once, Unlaunched, Unclosed, vars, driverVars, startVars, loopVars, stopVars
<1> QED BY <1>1, <1>2, <1>3, <1>4, <1>5 DEF Next

LEMMA OnceHolds == Spec => [](IndInv /\ Once)
<1>1. Init => Once
  BY DEF Init, Once, Unlaunched, Unclosed, Loops, Workers, Services
<1>2. IndInv /\ Once /\ [Next]_vars => Once'
  BY OnceKept
<1> QED BY <1>1, <1>2, IndInvHolds, PTL DEF Spec

\* A loop that has ended is not there again, nor is one launched a second time.
NoLoopComesBack ==
  [][\A l \in Loops : loop[l] = "gone" => loop'[l] = "gone"]_vars

\* Whatever Stop has waited for stays ended: while Start is still launching loops, in
\* the time the shutdown flushes and closes the cache, and after it (agent.go, Start
\* and Stop, each with the loops of heartbeat.go and system.go).
THEOREM EndedLoopsStayEnded == Spec => NoLoopComesBack
<1>1. ASSUME IndInv, Once, [Next]_vars, NEW l \in Loops, loop[l] = "gone" PROVE loop'[l] = "gone"
  <2>1. CASE Prepare \/ SetRunning
    BY <1>1, <2>1 DEF Prepare, SetRunning, loopVars
  <2>2. CASE LaunchFlag \/ LaunchLoop
    <3>1. loop \in [Loops -> LoopStates]
      BY <1>1 DEF IndInv, TypeOK, LoopStates
    <3> QED
      BY <1>1, <2>2, <3>1, LaunchSteps DEF Once, Unlaunched, BeforeMaintenance, BeforePoll,
         BeforeUpload, BeforeHeartbeat, BeforeMetrics
  <2>3. CASE LoopNext
    BY <1>1, <2>3, LoopSteps
  <2>4. CASE ShutdownNext \/ DriverNext \/ UNCHANGED vars
    BY <1>1, <2>4, ShutdownSteps, DriverSteps DEF vars, loopVars
  <2> QED BY <1>1, <2>1, <2>2, <2>3, <2>4 DEF Next, StartNext
<1>2. IndInv /\ Once /\ [Next]_vars =>
        [\A l \in Loops : loop[l] = "gone" => loop'[l] = "gone"]_vars
  BY <1>1
<1> QED BY <1>2, OnceHolds, PTL DEF Spec, NoLoopComesBack

\* Closing a closed channel panics in Go: no channel of the shutdown is closed twice,
\* neither stopCh and stoppedCh of the agent nor the stop channels of the services.
NoDoubleClose ==
  [][/\ StopBegin /\ running => "agent" \notin closed
     /\ StopReturns => ~stoppedCh
     /\ StopHeartbeat /\ "heartbeat" \in services => "heartbeat" \notin closed
     /\ StopMetrics /\ "metrics" \in services => "metrics" \notin closed]_vars

\* Each driver's one call of Stop closes every channel at most once, although services
\* may still be set running while it goes through them (agent.go, Stop; Stop of
\* heartbeat.go and system.go).
THEOREM ChannelsAreClosedOnce == Spec => NoDoubleClose
<1>1. IndInv /\ Once =>
        /\ StopBegin /\ running => "agent" \notin closed
        /\ StopReturns => ~stoppedCh
        /\ StopHeartbeat /\ "heartbeat" \in services => "heartbeat" \notin closed
        /\ StopMetrics /\ "metrics" \in services => "metrics" \notin closed
  BY DEF IndInv, Called, Once, Unclosed, StopBegin, StopReturns, StopHeartbeat, StopMetrics,
         StopService
<1> QED BY <1>1, OnceHolds, PTL DEF Spec, NoDoubleClose

\* What a failed Start leaves behind.
FailedStartIsLeftAlone ==
  (start = "failed" \/ reason = "error") =>
    /\ start = "failed" /\ stop \in {"idle", "noop"} /\ ~running
    /\ shutdown = "none" /\ closed = {} /\ ~cacheClosed
    /\ \A l \in Loops : loop[l] = "none"

\* When Start fails no loop runs, and the Stop that run calls then never gets to the
\* shutdown, so that the cache is never closed: ErrorPathCleansUp, what the comment
\* in main.go promises, fails on every such path and not only on a rare one.
THEOREM FailedStartIsNeverCleanedUp == Spec => []FailedStartIsLeftAlone
<1>1. IndInv /\ Once => FailedStartIsLeftAlone
  <2> SUFFICES ASSUME IndInv, Once, start = "failed" PROVE FailedStartIsLeftAlone
    BY DEF Once, FailedStartIsLeftAlone
  <2>1. stop \in {"idle", "noop"} /\ ~running
    BY DEF IndInv, TypeOK, Called, Early
  <2>2. \A l \in Loops : loop[l] = "none"
    BY DEF Once, Unlaunched, BeforeMaintenance, BeforePoll, BeforeUpload, BeforeHeartbeat,
       BeforeMetrics, Early, Loops, Workers, Services
  <2> QED BY <2>1, <2>2 DEF Once, Unclosed, FailedStartIsLeftAlone
<1> QED BY <1>1, OnceHolds, PTL
=============================================================================
