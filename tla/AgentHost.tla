------------------------------- MODULE AgentHost --------------------------------
(***************************************************************************)
(* The agent as a service of its host: ServiceControl and Registration     *)
(* composed. The worker of a process is an agent with an identity: a new   *)
(* process reads the file again, a Start that cannot register makes the    *)
(* worker return an error, and a process that goes takes with it what its  *)
(* memory knew. The memory is that of the process the manager serves; a    *)
(* worker that hangs in a process on its way out is left to itself.        *)
(***************************************************************************)
EXTENDS ServiceControl, Registration

\* What happens around the agent: commands of administrators while the server is not
\* to be reached, or calls and revocations on a service that is only lost
\* and started again. (A bound: the two are explored one at a time.)
CONSTANT Scenarios
ASSUME ScenarioAssumption == Scenarios \subseteq {"commands", "calls"}

VARIABLE scenario

vars == <<serviceVars, registrationVars, scenario>>

Lives == \E p \in Processes : Serving(p) /\ worker[p] = "up"

Init ==
  /\ ServiceInit /\ RegistrationInit
  /\ scenario \in Scenarios
  /\ scenario = "calls" => entry = "present"
  /\ scenario = "commands" => valid = {}

\* The process comes up, main loads the configuration and the worker makes its agent.
ProcessBegins(p) == RunBegins(p) /\ NewAgent

StartFails(p) == WorkerFails(p) /\ stage = "failed" /\ UNCHANGED registrationVars

\* Before the registration and after it something may fail too: the cache, the API
\* client, the metrics. (The end of Start is not told from what follows it.)
SetUpFails(p) ==
  /\ call = "start" /\ stage \in {"fresh", "ready"}
  /\ WorkerFails(p) /\ UNCHANGED registrationVars

\* Agent.Stop returns no error, but only an agent that has started gets there.
AgentStops(p) ==
  /\ WorkerEnds(p) /\ UNCHANGED registrationVars
  /\ Serving(p) => stage = "ready" \/ call # "start"

Agent ==
  /\ Lives /\ RegistrationStep /\ UNCHANGED serviceVars
  /\ scenario = "commands" => UNCHANGED serverVars

Embedder ==
  /\ scenario = "calls" /\ Lives /\ UNCHANGED serviceVars
  /\ \E k \in AgentCalls \cup ApiCalls : Call(k)

Server == scenario = "calls" /\ Revoke /\ UNCHANGED serviceVars

Administrator(a) == scenario = "commands" /\ Command(a) /\ UNCHANGED registrationVars
Asks == scenario = "commands" /\ Ask /\ UNCHANGED registrationVars

Next ==
  /\ \/ Asks \/ \E a \in Administrators : Administrator(a)
     \/ ManagerNext /\ UNCHANGED registrationVars
     \/ \E p \in Processes :
          \/ ProcessBegins(p) \/ StartFails(p) \/ SetUpFails(p) \/ AgentStops(p)
          \/ (RunStep(p) \/ Crash(p)) /\ UNCHANGED registrationVars
     \/ Agent \/ Embedder \/ Server
  /\ UNCHANGED scenario

Spec == Init /\ [][Next]_vars

\* Processes run, calls of the service manager return, and the polls of the commands
\* have a time limit. The worker need not end: Execute and the exit of the process
\* do without it.
Fairness ==
  /\ \A a \in Administrators : WF_vars(Administrator(a) /\ UNCHANGED scenario)
  /\ \A p \in Processes :
       /\ WF_vars(ProcessBegins(p) /\ UNCHANGED scenario)
       /\ WF_vars(StartFails(p) /\ UNCHANGED scenario)
       /\ WF_vars(RunStep(p) /\ UNCHANGED <<registrationVars, scenario>>)

FairSpec == Spec /\ Fairness

-----------------------------------------------------------------------------

TypeOK == ServiceTypeOK /\ RegistrationTypeOK /\ scenario \in Scenarios

\* Every command returns, every process that is asked to stop goes, and so does one
\* whose agent could not start: no wait is for something that may never come, be it
\* a worker that hangs, a poll, or a context that was cancelled by the waiter.
EverythingEnds ==
  /\ \A a \in Administrators : step[a] # "idle" ~> step[a] = "done"
  /\ \A p \in Processes :
       /\ asked[p] /\ proc[p] # "none" ~> proc[p] = "none"
       /\ worker[p] = "failed" ~> worker[p] = "none"
=============================================================================
