----------------------------- MODULE ServiceControl -----------------------------
(***************************************************************************)
(* internal/service and the commands of cmd/castleops-client that use it:  *)
(* administrators install, remove, start, stop and restart the agent as a  *)
(* service of Windows or of macOS, beside the service manager, which       *)
(* starts processes, and the processes, which run Run with a worker, the   *)
(* agent. A process may be lost at any moment.                             *)
(*                                                                         *)
(* A step of an administrator is one call of the service manager or of     *)
(* launchctl; any such call may fail. The manager itself is external: the  *)
(* model takes of it what the calls rely on.                               *)
(***************************************************************************)
EXTENDS Naturals

CONSTANTS Administrators,  \* callers of the commands, one command each
          Processes,       \* processes of the service that exist at one time
          Hosts,           \* values of runtime.GOOS explored
          Mixes            \* the commands that come together

Commands == {"install", "uninstall", "start", "stop", "restart"}

ASSUME ServiceAssumption ==
  Hosts \subseteq {"windows", "darwin"} /\ Mixes \subseteq [Administrators -> Commands]

VARIABLES
  host,       \* runtime.GOOS
  entry,      \* the service's entry: in the SCM's database, or its plist file
  loaded,     \* macOS: launchd has loaded the job
  state,      \* Windows: the state the SCM shows
  recovery,   \* Windows: the recovery actions have been set
  due,        \* the service manager is going to start the service by itself
  proc,       \* per process: where Run stands
  worker,     \* per process: its worker, runAgent
  asked,      \* per process: a stop control or a signal waits for Run
  hung,       \* per process: Run has given up waiting for the worker
  failed,     \* per process: Run has returned an error, and main exits with 1
  cmd, step, answer  \* per administrator: command, next call, what was returned

entryVars == <<host, entry, loaded, state, recovery, due>>
processVars == <<proc, worker, asked, hung, failed>>
adminVars == <<cmd, step, answer>>
serviceVars == <<entryVars, processVars, adminVars>>

Steps == {"idle", "install", "create", "load", "erase", "uninstall", "open", "query", "control",
          "awaitStopped", "delete", "check", "start", "awaitRunning", "stop", "unload",
          "remove", "done"}

Serving(p) == proc[p] \in {"new", "handling", "stopping"}
Windows == host = "windows"
Darwin == host = "darwin"

-----------------------------------------------------------------------------
(* What the commands ask of the service manager. *)

Answer(a, r) == step' = [step EXCEPT ![a] = "done"] /\ answer' = [answer EXCEPT ![a] = r]
Goes(a, s) == step' = [step EXCEPT ![a] = s] /\ UNCHANGED answer
At(a, s) == step[a] = s /\ UNCHANGED cmd

\* A process is created; the SCM shows START_PENDING until the process says more.
Launch(p) ==
  /\ proc[p] = "none"
  /\ proc' = [proc EXCEPT ![p] = "new"]
  /\ UNCHANGED <<worker, asked, hung, failed>>
  /\ state' = IF Windows THEN "start_pending" ELSE state

\* launchctl start, or RunAtLoad: a job has one process at a time.
StartJob ==
  IF \E p \in Processes : proc[p] # "none" THEN UNCHANGED <<processVars, state>>
  ELSE \E p \in Processes : Launch(p)

\* launchctl stop and unload send SIGTERM.
Signal ==
  /\ asked' = [p \in Processes |-> asked[p] \/ Serving(p)]
  /\ UNCHANGED <<proc, worker, hung, failed>>

Ask ==
  \E a \in Administrators :
    /\ At(a, "idle")
    /\ Goes(a, CASE cmd[a] = "install" -> "install" [] cmd[a] = "uninstall" -> "uninstall"
                 [] cmd[a] = "start" -> "open"
                 [] OTHER -> IF Windows THEN "query" ELSE "stop")
    /\ UNCHANGED <<entryVars, processVars>>

-----------------------------------------------------------------------------
(* Windows *)

WindowsInstall(a) ==
  /\ Windows /\ UNCHANGED <<host, loaded, state, due, processVars>>
  /\ \/ /\ At(a, "install") /\ UNCHANGED <<entry, recovery>>
        /\ \/ entry = "absent" /\ Goes(a, "create")
           \/ Answer(a, "error")
     \/ /\ At(a, "create") /\ entry = "absent"
        /\ entry' = "present" /\ recovery' \in BOOLEAN /\ Answer(a, "nil")
     \/ At(a, "create") /\ Answer(a, "error") /\ UNCHANGED <<entry, recovery>>

\* (mutant) Stop ignores it too
StopEndsRegardless(a, r) ==
  CASE cmd[a] = "uninstall" -> Goes(a, "delete")
    [] cmd[a] = "restart" /\ r = "nil" -> Goes(a, "open")
    [] OTHER -> Answer(a, "nil")

\* What the callers of stopService do with its result; Uninstall ignores it.
StopEnds(a, r) ==
  CASE cmd[a] = "uninstall" -> Goes(a, "delete")
    [] cmd[a] = "restart" /\ r = "nil" -> Goes(a, "open")
    [] OTHER -> Answer(a, r)

stopService(a) ==
  /\ Windows /\ UNCHANGED <<entryVars, proc, worker, hung, failed>>
  /\ \/ /\ At(a, "query") /\ UNCHANGED asked
        /\ \/ entry # "absent" /\ state = "stopped" /\ StopEnds(a, "nil")
           \/ entry # "absent" /\ state # "stopped" /\ Goes(a, "control")
           \/ StopEnds(a, "error")
     \/ /\ At(a, "control")
        /\ \/ /\ state = "running" /\ Goes(a, "awaitStopped")
              /\ asked' = [p \in Processes |-> asked[p] \/ Serving(p)]
           \/ StopEnds(a, "error") /\ UNCHANGED asked
     \/ /\ At(a, "awaitStopped") /\ UNCHANGED asked
        /\ \/ state = "stopped" /\ StopEnds(a, "nil")
           \/ state # "stopped" /\ StopEnds(a, "error")

\* Delete marks the entry; the SCM removes it when nobody uses it any more.
WindowsUninstall(a) ==
  /\ Windows /\ UNCHANGED <<host, loaded, state, recovery, due, processVars>>
  /\ \/ /\ At(a, "uninstall") /\ UNCHANGED entry
        /\ \/ entry # "absent" /\ Goes(a, "query")
           \/ Answer(a, "error")
     \/ /\ At(a, "delete")
        /\ \/ entry = "present" /\ entry' = "deleting" /\ Answer(a, "nil")
           \/ Answer(a, "error") /\ UNCHANGED entry

WindowsStart(a) ==
  /\ Windows /\ UNCHANGED <<host, entry, loaded, recovery, due>>
  /\ \/ /\ At(a, "open") /\ UNCHANGED <<state, processVars>>
        /\ \/ entry # "absent" /\ Goes(a, "check")
           \/ Answer(a, "error")
     \/ /\ At(a, "check") /\ UNCHANGED <<state, processVars>>
        /\ \/ state = "running" /\ Answer(a, "nil")
           \/ state # "running" /\ Goes(a, "start")
           \/ Answer(a, "error")
     \/ /\ At(a, "start")
        /\ \/ /\ entry = "present" /\ state = "stopped"
              /\ (\E p \in Processes : Launch(p)) /\ Goes(a, "awaitRunning")
           \/ Answer(a, "error") /\ UNCHANGED <<state, processVars>>
     \/ /\ At(a, "awaitRunning") /\ UNCHANGED <<state, processVars>>
        /\ \/ state = "running" /\ Answer(a, "nil")
           \/ state # "running" /\ Answer(a, "error")

-----------------------------------------------------------------------------
(* macOS *)

\* The plist is written between the first two steps; a failed load removes it.
DarwinInstall(a) ==
  /\ Darwin /\ UNCHANGED <<host, recovery, due>>
  /\ \/ /\ At(a, "install") /\ UNCHANGED <<entry, loaded, state, processVars>>
        /\ \/ entry = "absent" /\ Goes(a, "create")
           \/ Answer(a, "error")
     \/ /\ At(a, "create") /\ UNCHANGED <<loaded, state, processVars>>
        /\ \/ entry' = "present" /\ Goes(a, "load")
           \/ Answer(a, "error") /\ UNCHANGED entry
     \/ /\ At(a, "load") /\ UNCHANGED entry
        /\ \/ /\ entry = "present" /\ ~loaded /\ loaded' = TRUE
              /\ StartJob /\ Answer(a, "nil")
           \/ Goes(a, "erase") /\ UNCHANGED <<loaded, state, processVars>>
     \/ /\ At(a, "erase") /\ entry' = "absent" /\ Answer(a, "error")
        /\ UNCHANGED <<loaded, state, processVars>>

DarwinUninstall(a) ==
  /\ Darwin /\ UNCHANGED <<host, state, recovery>>
  /\ \/ /\ At(a, "uninstall") /\ UNCHANGED <<entry, loaded, due, processVars>>
        /\ \/ entry = "present" /\ Goes(a, "stop")
           \/ entry # "present" /\ Answer(a, "error")
     \/ /\ At(a, "unload") /\ Goes(a, "remove") /\ UNCHANGED entry
        /\ \/ loaded /\ loaded' = FALSE /\ due' = FALSE /\ Signal
           \/ UNCHANGED <<loaded, due, processVars>>
     \/ /\ At(a, "remove") /\ UNCHANGED <<loaded, due, processVars>>
        /\ \/ entry = "present" /\ entry' = "absent" /\ Answer(a, "nil")
           \/ Answer(a, "error") /\ UNCHANGED entry

\* Uninstall and Restart ignore what Stop returns.
DarwinStop(a) ==
  /\ Darwin /\ At(a, "stop") /\ UNCHANGED entryVars
  /\ \E r \in {"nil", "error"} :
       /\ IF r = "nil" THEN loaded /\ Signal ELSE UNCHANGED processVars
       /\ CASE cmd[a] = "uninstall" -> Goes(a, "unload")
            [] cmd[a] = "restart" -> Goes(a, "open")
            [] OTHER -> Answer(a, r)

DarwinStart(a) ==
  /\ Darwin /\ UNCHANGED <<host, entry, loaded, recovery, due>>
  /\ \/ /\ At(a, "open") /\ UNCHANGED <<state, processVars>>
        /\ IF entry = "present" THEN Goes(a, "start") ELSE Answer(a, "error")
     \/ /\ At(a, "start")
        /\ \/ loaded /\ StartJob /\ Answer(a, "nil")
           \/ Answer(a, "error") /\ UNCHANGED <<state, processVars>>

-----------------------------------------------------------------------------
(* A process of the service. *)

Shows(s) == state' = IF Windows THEN s ELSE state
Moves(p, s) == proc' = [proc EXCEPT ![p] = s]

\* SIGTERM before Run has called signal.Notify ends the process.
Killed(p) == Darwin /\ proc[p] = "new" /\ asked[p]

\* Execute and Run start the worker in a goroutine; Execute reports RUNNING at once.
RunBegins(p) ==
  /\ proc[p] = "new" /\ ~Killed(p) /\ Moves(p, "handling")
  /\ worker' = [worker EXCEPT ![p] = "up"]
  /\ Shows("running")
  /\ UNCHANGED <<host, entry, loaded, recovery, due, asked, hung, failed, adminVars>>

\* The process is about to exit. STOPPED is shown by then: Execute reports it before
\* it returns, and the library reports it once more, with the exit code.
Leaves(p) ==
  /\ Moves(p, "exiting") /\ Shows("stopped")
  /\ UNCHANGED <<host, entry, loaded, recovery, worker, asked, adminVars>>

ExecuteStop(p) ==
  /\ Windows /\ proc[p] = "handling" /\ asked[p]
  /\ Moves(p, "stopping") /\ Shows("stop_pending")
  /\ UNCHANGED <<host, entry, loaded, recovery, due, worker, asked, hung, failed, adminVars>>

\* (mutant) nobody waits for the worker
ExecuteStoppedAtOnce(p) ==
  /\ Windows /\ proc[p] = "stopping"
  /\ UNCHANGED <<due, failed, hung>> /\ Leaves(p)

\* The worker has returned, or 30 seconds have passed.
ExecuteStopped(p) ==
  /\ Windows /\ proc[p] = "stopping"
  /\ \/ worker[p] # "up" /\ UNCHANGED hung
     \/ worker[p] = "up" /\ hung' = [hung EXCEPT ![p] = TRUE]
  /\ UNCHANGED <<due, failed>> /\ Leaves(p)

ExecuteWorkerExited(p) ==
  /\ Windows /\ proc[p] = "handling" /\ worker[p] # "up"
  /\ UNCHANGED <<due, failed, hung>> /\ Leaves(p)

\* A signal cancels the context of the worker.
RunSignalled(p) ==
  /\ Darwin /\ proc[p] = "handling" /\ asked[p] /\ Moves(p, "stopping")
  /\ UNCHANGED <<entryVars, worker, asked, hung, failed, adminVars>>

\* (mutant) Run waits for the worker alone
RunReturnsWithWorker(p) ==
  /\ Darwin
  /\ \/ proc[p] = "stopping" /\ worker[p] = "ended" /\ UNCHANGED failed
     \/ Serving(p) /\ worker[p] = "failed" /\ failed' = [failed EXCEPT ![p] = TRUE]
  /\ UNCHANGED <<due, hung>> /\ Leaves(p)

\* Then the worker's result and the context just cancelled are both awaited; the
\* error of the context makes main exit with 1.
RunReturns(p) ==
  /\ Darwin
  /\ \/ proc[p] = "stopping" /\ worker[p] = "ended" /\ UNCHANGED failed
     \/ /\ proc[p] = "stopping" \/ (proc[p] = "handling" /\ worker[p] = "failed")
        /\ failed' = [failed EXCEPT ![p] = TRUE]
  /\ UNCHANGED <<due, hung>> /\ Leaves(p)

\* A process goes, and its worker with it. The SCM takes it for a failure when the
\* service does not show STOPPED; KeepAlive starts the job again after any exit but
\* with code 0, as long as it is loaded.
Owner(p) == \A q \in Processes : Serving(q) => q = p
IsGone(p, bad) ==
  /\ Moves(p, "none")
  /\ worker' = [worker EXCEPT ![p] = "none"]
  /\ asked' = [asked EXCEPT ![p] = FALSE]
  /\ hung' = [hung EXCEPT ![p] = FALSE]
  /\ failed' = [failed EXCEPT ![p] = FALSE]
  /\ due' = (due \/ IF Windows THEN recovery /\ Owner(p) /\ state # "stopped" ELSE loaded /\ bad)
  /\ IF Owner(p) THEN Shows("stopped") ELSE UNCHANGED state
  /\ UNCHANGED <<host, entry, loaded, recovery, adminVars>>

ProcessExits(p) == \/ proc[p] = "exiting" /\ IsGone(p, failed[p])
                   \/ Killed(p) /\ IsGone(p, TRUE)
Crash(p) == Serving(p) /\ IsGone(p, TRUE)

\* runAgent: Start has failed, or after the cancellation Stop has returned.
WorkerFails(p) ==
  /\ Serving(p) /\ worker[p] = "up"
  /\ worker' = [worker EXCEPT ![p] = "failed"]
  /\ UNCHANGED <<entryVars, proc, asked, hung, failed, adminVars>>
WorkerEnds(p) ==
  /\ proc[p] \in {"stopping", "exiting"} /\ worker[p] = "up"
  /\ worker' = [worker EXCEPT ![p] = "ended"]
  /\ UNCHANGED <<entryVars, proc, asked, hung, failed, adminVars>>

-----------------------------------------------------------------------------
(* The service manager by itself. *)

\* Recovery or KeepAlive; on Windows a service that runs again is left alone.
ManagerStarts ==
  /\ due /\ due' = FALSE
  /\ IF Windows THEN IF entry = "present" /\ state = "stopped"
                       THEN \E p \in Processes : Launch(p) ELSE UNCHANGED <<state, processVars>>
     ELSE StartJob
  /\ UNCHANGED <<host, entry, loaded, recovery, adminVars>>

Opened(a) == step[a] \in {"query", "control", "awaitStopped", "delete", "check", "start", "awaitRunning"}

EntryGoes ==
  /\ Windows /\ entry = "deleting" /\ state = "stopped"
  /\ \A a \in Administrators : ~Opened(a)
  /\ entry' = "absent" /\ due' = FALSE
  /\ UNCHANGED <<host, loaded, state, recovery, processVars, adminVars>>

\* The host comes up with the service installed or not, and starts it.
ServiceInit ==
  /\ host \in Hosts
  /\ entry \in {"absent", "present"} /\ loaded = (host = "darwin" /\ entry = "present")
  /\ state = "stopped" /\ recovery = TRUE
  /\ due = (entry = "present")
  /\ proc = [p \in Processes |-> "none"] /\ worker = [p \in Processes |-> "none"]
  /\ asked = [p \in Processes |-> FALSE] /\ hung = [p \in Processes |-> FALSE]
  /\ failed = [p \in Processes |-> FALSE]
  /\ cmd \in Mixes /\ step = [a \in Administrators |-> "idle"]
  /\ answer = [a \in Administrators |-> "none"]

Command(a) ==
  \/ WindowsInstall(a) \/ WindowsUninstall(a) \/ stopService(a) \/ WindowsStart(a)
  \/ DarwinInstall(a) \/ DarwinUninstall(a) \/ DarwinStop(a) \/ DarwinStart(a)
RunStep(p) ==
  \/ ExecuteStop(p) \/ ExecuteStopped(p) \/ ExecuteWorkerExited(p)
  \/ RunSignalled(p) \/ RunReturns(p) \/ ProcessExits(p)
ManagerNext == ManagerStarts \/ EntryGoes

ServiceNext ==
  \/ Ask \/ ManagerNext
  \/ \E a \in Administrators : Command(a)
  \/ \E p \in Processes : RunBegins(p) \/ RunStep(p) \/ Crash(p) \/ WorkerFails(p) \/ WorkerEnds(p)

ServiceSpec == ServiceInit /\ [][ServiceNext]_serviceVars

-----------------------------------------------------------------------------

ServiceTypeOK ==
  /\ host \in Hosts /\ entry \in {"absent", "present", "deleting"}
  /\ loaded \in BOOLEAN /\ recovery \in BOOLEAN /\ due \in BOOLEAN
  /\ state \in {"stopped", "start_pending", "running", "stop_pending"}
  /\ proc \in [Processes -> {"none", "new", "handling", "stopping", "exiting"}]
  /\ worker \in [Processes -> {"none", "up", "ended", "failed"}]
  /\ asked \in [Processes -> BOOLEAN] /\ hung \in [Processes -> BOOLEAN]
  /\ failed \in [Processes -> BOOLEAN]
  /\ cmd \in [Administrators -> Commands] /\ step \in [Administrators -> Steps]
  /\ answer \in [Administrators -> {"none", "nil", "error"}]

\* However commands, recovery and the exits of processes overlap, no two processes
\* of the service serve at the same time. Two workers can still be up, sharing a cache
\* and an identity: on Windows, when the shutdown of one takes longer than the 30
\* seconds Execute waits (service_windows.go), from the next start until the old
\* process is gone. In no other way, and on macOS not at all. (An agent in the
\* foreground is no process of the service.)
OneWorker ==
  \A p, q \in Processes : p # q =>
    /\ ~(Serving(p) /\ Serving(q))
    /\ worker[p] = "up" /\ worker[q] = "up" =>
         Windows /\ \E r \in {p, q} : proc[r] = "exiting" /\ hung[r]

\* What a command that returns nil tells its caller, at the step that returns it.
Tells(a) ==
  /\ cmd[a] = "install" => entry' = "present"
  /\ cmd[a] = "uninstall" => entry' # "present"
  /\ cmd[a] = "stop" => IF Windows THEN \A p \in Processes : ~Serving(p)
                        ELSE \A p \in Processes : Serving(p) => asked'[p]
  /\ cmd[a] \in {"start", "restart"} =>
       IF Windows THEN \E p \in Processes : proc[p] = "handling"
       ELSE \E p \in Processes : proc'[p] # "none"

\* The least a caller may conclude from nil, whatever other commands, recovery and
\* crashes did since the command's first call. On Windows, where Stop and Start poll:
\* no process serves, or one is in Execute. On macOS, where launchctl waits for
\* nothing: after a stop every process has its signal; after a start or a restart
\* there is a process, which may be the old one with its signal pending. An
\* installation: the entry is there. An uninstallation: the entry is gone or marked,
\* and nothing about the agent, as a stop that failed is ignored.
SuccessTells ==
  [][\A a \in Administrators : answer'[a] = "nil" /\ answer[a] # "nil" => Tells(a)]_serviceVars
=============================================================================
