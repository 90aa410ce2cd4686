----------------------------- MODULE CommandHandler -----------------------------
(***************************************************************************)
(* internal/api/commands.go: the CommandHandler, its worker pool, the rows *)
(* of internal/cache it drives, shutdown, and the loss and restart of the  *)
(* process.                                                                *)
(*                                                                         *)
(* Every goroutine started by `go h.executeCommand(cmd)` is a task; pc[t]  *)
(* is the statement of executeCommand it is about to run:                  *)
(*                                                                         *)
(*   waiting     the select on the worker pool and the handler's context   *)
(*   running     the executor                                              *)
(*   submitting  submitResult                                              *)
(*   marking     cache.MarkCommandComplete                                 *)
(*   releasing   the deferred receive that gives the pool slot back        *)
(*   finishing   the deferred wg.Done                                      *)
(*   idle        no goroutine                                              *)
(*                                                                         *)
(* One caller at a time is inside HandleCommand (the polling loop) and one *)
(* inside ProcessPendingCommands; the two may overlap unless ResumeFirst.  *)
(***************************************************************************)
EXTENDS Naturals, FiniteSets

CONSTANTS Commands,       \* command ids the server may deliver, each any number of times
          Tasks,          \* goroutine identities: bounds how many are alive at once
          Types,          \* command types
          TypeOf,         \* [Commands -> Types]
          Timed,          \* the commands whose Timeout is positive
          PolledOnly,     \* commands only Agent.pollCommands stores: rows with no payload
          MaxConcurrent,  \* capacity of workerPool
          Backend,        \* "memory" (MemoryCache) or "sqlite" (SQLiteCache)
          ResumeFirst,    \* ProcessPendingCommands runs only before the first HandleCommand
          None

ASSUME HandlerAssumption ==
  /\ IsFiniteSet(Tasks)
  /\ TypeOf \in [Commands -> Types]
  /\ Timed \subseteq Commands
  /\ PolledOnly \subseteq Commands
  /\ MaxConcurrent \in Nat \ {0}
  /\ Backend \in {"memory", "sqlite"}
  /\ ResumeFirst \in BOOLEAN
  /\ None \notin Commands

VARIABLES
  row,         \* [Commands -> status]: the cache's commands table
  attempted,   \* history: commands whose result was submitted since accepted
  delivered,   \* history: commands whose result the server has received
  started,     \* history: commands whose executor this process has invoked
  handing,     \* commands stored by a HandleCommand that has not spawned yet
  resume,      \* rows ProcessPendingCommands has read and not yet handled
  fresh,       \* no HandleCommand or ProcessPendingCommands in this process yet
  executors,   \* h.executors: types with a registered executor
  pc, cmd,     \* per task: statement and command
  timed,       \* per task: execCtx carries a deadline
  late,        \* per task: spawned after wg.Wait had returned
  slots,       \* number of values in the workerPool channel
  wg,          \* the WaitGroup's counter
  cancelled,   \* h.ctx is done
  stop,        \* state of the call to Stop
  drained      \* the channel `done` of Stop is closed

storeVars  == <<row, attempted, delivered, started>>
callerVars == <<handing, resume, fresh>>
taskVars   == <<pc, cmd, timed, late, slots, wg>>
stopVars   == <<cancelled, stop, drained>>
vars == <<storeVars, callerVars, executors, taskVars, stopVars>>

PcStates == {"idle", "waiting", "running", "submitting", "marking", "releasing", "finishing"}
StopStates == {"notCalled", "waiting", "returnedNil", "returnedTimeout"}

\* Statements executed while a pool slot is held.
Holding == {"running", "submitting", "marking", "releasing"}
\* Statements before the row is marked complete.
Unmarked == {"waiting", "running", "submitting", "marking"}

Live(t) == pc[t] # "idle"
Holders == {t \in Tasks : pc[t] \in Holding}

Init ==
  /\ row = [c \in Commands |-> "absent"]
  /\ attempted = {} /\ delivered = {} /\ started = {}
  /\ handing = {} /\ resume = {} /\ fresh = TRUE
  /\ executors = {}
  /\ pc = [t \in Tasks |-> "idle"]
  /\ cmd = [t \in Tasks |-> None]
  /\ timed = [t \in Tasks |-> FALSE]
  /\ late = [t \in Tasks |-> FALSE]
  /\ slots = 0 /\ wg = 0
  /\ cancelled = FALSE /\ stop = "notCalled" /\ drained = FALSE

-----------------------------------------------------------------------------
(* Callers of the handler. *)

RegisterExecutor(ty) ==
  /\ ty \notin executors
  /\ executors' = executors \cup {ty}
  /\ UNCHANGED <<storeVars, callerVars, taskVars, stopVars>>

\* (mutants) INSERT OR REPLACE, for any row or for completed ones
StoreReplaces(c) ==
  /\ row' = [row EXCEPT ![c] = "pending"]
  /\ UNCHANGED <<attempted, delivered, started>>

StoreReplacesCompleted(c) ==
  /\ Backend = "sqlite" => row[c] # "pending"
  /\ row' = [row EXCEPT ![c] = "pending"]
  /\ UNCHANGED <<attempted, delivered, started>>

\* cache.StoreCommand of a pending row. The SQLite table holds one row per
\* command id and refuses another; the memory cache overwrites the row.
StoreCommand(c) ==
  /\ Backend = "sqlite" => row[c] = "absent"
  /\ row' = [row EXCEPT ![c] = "pending"]
  /\ UNCHANGED <<attempted, delivered, started>>

\* HandleCommand up to the store. A refused store returns an error and changes
\* nothing; serialising the payload cannot fail for a decoded command.
HandleStore(c) ==
  /\ c \notin PolledOnly
  /\ handing = {}
  /\ StoreCommand(c)
  /\ handing' = {c}
  /\ fresh' = FALSE
  /\ UNCHANGED <<resume, executors, taskVars, stopVars>>

\* Agent.pollCommands stores a row without a payload and spawns nothing.
PollStore(c) ==
  /\ c \in PolledOnly
  /\ StoreCommand(c)
  /\ UNCHANGED <<callerVars, executors, taskVars, stopVars>>

\* (mutant) wg.Add forgotten
SpawnUncounted(t, c, hasTimeout) ==
  /\ pc[t] = "idle"
  /\ pc' = [pc EXCEPT ![t] = "waiting"]
  /\ cmd' = [cmd EXCEPT ![t] = c]
  /\ timed' = [timed EXCEPT ![t] = hasTimeout]
  /\ late' = [late EXCEPT ![t] = drained]
  /\ UNCHANGED <<slots, wg>>

\* wg.Add(1); go h.executeCommand(cmd)
Spawn(t, c, hasTimeout) ==
  /\ pc[t] = "idle"
  /\ pc' = [pc EXCEPT ![t] = "waiting"]
  /\ cmd' = [cmd EXCEPT ![t] = c]
  /\ timed' = [timed EXCEPT ![t] = hasTimeout]
  /\ late' = [late EXCEPT ![t] = drained]
  /\ wg' = wg + 1
  /\ UNCHANGED slots

\* HandleCommand after the store: the goroutine gets the server's command.
HandleSpawn(t, c) ==
  /\ c \in handing
  /\ Spawn(t, c, c \in Timed)
  /\ handing' = {}
  /\ UNCHANGED <<storeVars, resume, fresh, executors, stopVars>>

\* (mutant) the query has lost its WHERE status clause
ResumeReadAllRows ==
  /\ resume = {}
  /\ ResumeFirst => fresh
  /\ resume' = {c \in Commands : row[c] # "absent"}
  /\ fresh' = FALSE
  /\ UNCHANGED <<storeVars, handing, executors, taskVars, stopVars>>

\* ProcessPendingCommands reads every pending row. The rows are processed in
\* order of creation; the goroutines they become run in any order anyway.
ResumeRead ==
  /\ resume = {}
  /\ ResumeFirst => fresh
  /\ resume' = {c \in Commands : row[c] = "pending"}
  /\ fresh' = FALSE
  /\ UNCHANGED <<storeVars, handing, executors, taskVars, stopVars>>

\* The loop body: the command is rebuilt from the row, which has no timeout.
ResumeSpawn(t, c) ==
  /\ c \in resume \ PolledOnly
  /\ Spawn(t, c, FALSE)
  /\ resume' = resume \ {c}
  /\ UNCHANGED <<storeVars, handing, fresh, executors, stopVars>>

\* The loop's `continue`: an empty payload is not JSON.
ResumeSkip(c) ==
  /\ c \in resume \cap PolledOnly
  /\ resume' = resume \ {c}
  /\ UNCHANGED <<storeVars, handing, fresh, executors, taskVars, stopVars>>

-----------------------------------------------------------------------------
(* The goroutine: executeCommand and submitResult. *)

Goto(t, next) == pc' = [pc EXCEPT ![t] = next]

\* (mutant) a return for a missing executor placed before the deferred release
AcquireLeaks(t) ==
  /\ pc[t] = "waiting"
  /\ slots < MaxConcurrent
  /\ slots' = slots + 1
  /\ Goto(t, IF TypeOf[cmd[t]] \in executors THEN "running" ELSE "finishing")
  /\ started' = IF TypeOf[cmd[t]] \in executors THEN started \cup {cmd[t]} ELSE started
  /\ UNCHANGED <<row, attempted, delivered, callerVars, executors, stopVars, cmd, timed, late, wg>>

\* The select takes the slot, then the executor is looked up: without one the
\* command fails at once. The lookup sees every registration made before it.
Acquire(t) ==
  /\ pc[t] = "waiting"
  /\ slots < MaxConcurrent
  /\ slots' = slots + 1
  /\ Goto(t, IF TypeOf[cmd[t]] \in executors THEN "running" ELSE "submitting")
  /\ started' = IF TypeOf[cmd[t]] \in executors THEN started \cup {cmd[t]} ELSE started
  /\ UNCHANGED <<row, attempted, delivered, callerVars, executors, stopVars, cmd, timed, late, wg>>

\* (mutant) a default branch of the select: a full pool drops the command
CancelWaitingWhenFull(t) ==
  /\ pc[t] = "waiting"
  /\ cancelled \/ slots = MaxConcurrent
  /\ Goto(t, "finishing")
  /\ UNCHANGED <<storeVars, callerVars, executors, stopVars, cmd, timed, late, slots, wg>>

\* The select takes ctx.Done: the row stays pending. With a slot free as well,
\* the runtime chooses either branch.
CancelWaiting(t) ==
  /\ pc[t] = "waiting"
  /\ cancelled
  /\ Goto(t, "finishing")
  /\ UNCHANGED <<storeVars, callerVars, executors, stopVars, cmd, timed, late, slots, wg>>

\* (mutant) the row is marked before the result is submitted
ExecuteUnreported(t) ==
  /\ pc[t] = "running"
  /\ Goto(t, "marking")
  /\ UNCHANGED <<storeVars, callerVars, executors, stopVars, cmd, timed, late, slots, wg>>

\* The executor returns, with a result, nil or an error.
Execute(t) ==
  /\ pc[t] = "running"
  /\ Goto(t, "submitting")
  /\ UNCHANGED <<storeVars, callerVars, executors, stopVars, cmd, timed, late, slots, wg>>

\* (mutants) the context of the executor derives from context.Background, or
\* carries no deadline
DetachedContext(t) == timed[t]
UntimedContext(t) == cancelled

\* execCtx is a child of the handler's context, with a deadline for a timed
\* command: once it is done, an executor that honours it returns.
ContextCanExpire(t) == timed[t] \/ cancelled

ExecuteExpired(t) == ContextCanExpire(t) /\ Execute(t)

\* submitResult, bounded by its own 30 second context: the server gets the
\* result or does not, and a failure is only logged.
Submit(t) ==
  /\ pc[t] = "submitting"
  /\ Goto(t, "marking")
  /\ attempted' = attempted \cup {cmd[t]}
  /\ \/ delivered' = delivered \cup {cmd[t]}
     \/ UNCHANGED delivered
  /\ UNCHANGED <<row, started, callerVars, executors, stopVars, cmd, timed, late, slots, wg>>

\* MarkCommandComplete; the SQLite update may fail or find no row, the memory
\* one ignores a missing row. The error is only logged.
Mark(t) ==
  /\ pc[t] = "marking"
  /\ Goto(t, "releasing")
  /\ \/ /\ row[cmd[t]] # "absent"
        /\ row' = [row EXCEPT ![cmd[t]] = "complete"]
     \/ /\ Backend = "sqlite"
        /\ UNCHANGED row
  /\ UNCHANGED <<attempted, delivered, started, callerVars, executors, stopVars,
                 cmd, timed, late, slots, wg>>

\* The first deferred call to run gives the slot back.
Release(t) ==
  /\ pc[t] = "releasing"
  /\ Goto(t, "finishing")
  /\ slots' = slots - 1
  /\ UNCHANGED <<storeVars, callerVars, executors, stopVars, cmd, timed, late, wg>>

\* The last one is wg.Done, and the goroutine is gone.
Finish(t) ==
  /\ pc[t] = "finishing"
  /\ Goto(t, "idle")
  /\ cmd' = [cmd EXCEPT ![t] = None]
  /\ timed' = [timed EXCEPT ![t] = FALSE]
  /\ late' = [late EXCEPT ![t] = FALSE]
  /\ wg' = wg - 1
  /\ UNCHANGED <<storeVars, callerVars, executors, stopVars, slots>>

-----------------------------------------------------------------------------
(* Shutdown, retention and loss of the process. *)

\* Stop: h.cancel(), then the goroutine that waits for the group is started.
StopCall ==
  /\ stop = "notCalled"
  /\ stop' = "waiting"
  /\ cancelled' = TRUE
  /\ UNCHANGED <<storeVars, callerVars, executors, taskVars, drained>>

\* wg.Wait returns and done is closed; the waiting goroutine outlives a Stop
\* that timed out.
WaitReturns ==
  /\ stop # "notCalled"
  /\ ~drained
  /\ wg = 0
  /\ drained' = TRUE
  /\ UNCHANGED <<storeVars, callerVars, executors, taskVars, cancelled, stop>>

StopReturns ==
  /\ stop = "waiting"
  /\ \/ drained /\ stop' = "returnedNil"
     \/ stop' = "returnedTimeout"
  /\ UNCHANGED <<storeVars, callerVars, executors, taskVars, cancelled, drained>>

\* SQLiteCache.cleanup deletes completed rows older than the retention period;
\* the histories of the command start over.
Cleanup(c) ==
  /\ Backend = "sqlite"
  /\ row[c] = "complete"
  /\ row' = [row EXCEPT ![c] = "absent"]
  /\ attempted' = attempted \ {c}
  /\ delivered' = delivered \ {c}
  /\ started' = started \ {c}
  /\ UNCHANGED <<callerVars, executors, taskVars, stopVars>>

\* The process dies anywhere and NewCommandHandler runs again. SQLite rows
\* survive; the memory cache is empty and forgets what it had accepted.
Restart ==
  /\ IF Backend = "sqlite"
       THEN UNCHANGED <<row, attempted, delivered>>
       ELSE /\ row' = [c \in Commands |-> "absent"]
            /\ attempted' = {} /\ delivered' = {}
  /\ started' = {}
  /\ handing' = {} /\ resume' = {} /\ fresh' = TRUE
  /\ executors' = {}
  /\ pc' = [t \in Tasks |-> "idle"]
  /\ cmd' = [t \in Tasks |-> None]
  /\ timed' = [t \in Tasks |-> FALSE]
  /\ late' = [t \in Tasks |-> FALSE]
  /\ slots' = 0 /\ wg' = 0
  /\ cancelled' = FALSE /\ stop' = "notCalled" /\ drained' = FALSE

-----------------------------------------------------------------------------

CallerNext ==
  \/ \E ty \in Types : RegisterExecutor(ty)
  \/ \E c \in Commands : HandleStore(c) \/ PollStore(c) \/ ResumeSkip(c)
  \/ \E t \in Tasks, c \in Commands : HandleSpawn(t, c) \/ ResumeSpawn(t, c)
  \/ ResumeRead

TaskNext(t) ==
  Acquire(t) \/ CancelWaiting(t) \/ Execute(t) \/ Submit(t) \/ Mark(t) \/ Release(t) \/ Finish(t)

StopNext == StopCall \/ WaitReturns \/ StopReturns

Next ==
  \/ CallerNext
  \/ \E t \in Tasks : TaskNext(t)
  \/ StopNext
  \/ \E c \in Commands : Cleanup(c)
  \/ Restart

Spec == Init /\ [][Next]_vars

\* The Go scheduler runs every goroutine that can move. Senders on a full
\* channel queue first in first out, so a waiting task is not overtaken for
\* ever: strong fairness. Nothing makes an executor return but its context.
Fairness ==
  \A t \in Tasks :
    /\ SF_vars(Acquire(t))
    /\ WF_vars(CancelWaiting(t))
    /\ WF_vars(ExecuteExpired(t))
    /\ WF_vars(Submit(t))
    /\ WF_vars(Mark(t))
    /\ WF_vars(Release(t))
    /\ WF_vars(Finish(t))

FairSpec == Spec /\ Fairness

-----------------------------------------------------------------------------
(* Safety *)

TypeOK ==
  /\ row \in [Commands -> {"absent", "pending", "complete"}]
  /\ attempted \subseteq Commands /\ delivered \subseteq Commands /\ started \subseteq Commands
  /\ handing \subseteq Commands /\ resume \subseteq Commands /\ fresh \in BOOLEAN
  /\ executors \subseteq Types
  /\ pc \in [Tasks -> PcStates]
  /\ cmd \in [Tasks -> Commands \cup {None}]
  /\ \A t \in Tasks : Live(t) => cmd[t] \in Commands
  /\ timed \in [Tasks -> BOOLEAN] /\ late \in [Tasks -> BOOLEAN]
  /\ slots \in Nat /\ wg \in Nat
  /\ cancelled \in BOOLEAN /\ stop \in StopStates /\ drained \in BOOLEAN

\* The worker pool limits concurrent executions (commands.go, the comment of
\* workerPool): the channel holds one value per task between the select and
\* its deferred receive, on every path, and never more than its capacity.
PoolBoundsExecution ==
  /\ slots = Cardinality(Holders)
  /\ slots <= MaxConcurrent

\* "It waits for all running commands to complete": when Stop has returned nil,
\* a goroutine is alive only if it was spawned after wg.Wait had returned.
StopMeansQuiet == stop = "returnedNil" => \A t \in Tasks : Live(t) => late[t]

\* Two goroutines never work on one command at the same time, although the
\* server redelivers it, the row outlives the process and recovery replays it
\* (SQLite rows, recovery before the first delivery).
NoConcurrentDuplicate ==
  \A t, u \in Tasks :
    (t # u /\ pc[t] \in Unmarked /\ pc[u] \in Unmarked) => cmd[t] # cmd[u]

\* In one life of the process the executor of a command is invoked once, until
\* retention deletes the row: no redelivery, no recovery pass and no failed
\* update of the row runs a package operation again.
ExecutesOncePerLife ==
  [][\A t \in Tasks :
       (pc[t] = "waiting" /\ pc'[t] = "running") => cmd[t] \notin started]_vars

\* With the memory cache, a command that HandleCommand accepted and that is
\* still pending is being worked on, until Stop cancels the handler: no path
\* through executeCommand drops it.
PendingHasOwner ==
  (Backend = "memory" /\ ~cancelled) =>
    \A c \in Commands \ PolledOnly : row[c] = "pending" =>
      \/ c \in handing
      \/ \E t \in Tasks : pc[t] \in Unmarked /\ cmd[t] = c

\* A row is complete only after a submission of the result: a crash between the
\* two can repeat the command, never lose it.
CompleteWasSubmitted == \A c \in Commands : row[c] = "complete" => c \in attempted

\* "Retries on failure to ensure results are delivered" (commands.go, submitResult):
\* a complete command's result has reached the server. The code marks the row
\* whether or not the submission succeeded.
ResultsDelivered == \A c \in Commands : row[c] = "complete" => c \in delivered

\* "Timeout specifies max execution time in seconds (0=no timeout)" (models.go):
\* the executor of a command with a timeout runs under a deadline. The rows
\* recovery reads have no timeout.
TimeoutHonoured == \A t \in Tasks : (pc[t] = "running" /\ cmd[t] \in Timed) => timed[t]

Ledger == INSTANCE CommandLedger WITH ledger <- row

\* The handler implements the ledger of commands (SQLite rows, recovery before
\* the first delivery), with crashes as stuttering steps.
ImplementsLedger == Ledger!LedgerSpec

(* Liveness *)

\* After Stop every goroutine ends, the waiting ones through ctx.Done and the
\* running ones because their context is done, also when Stop has timed out.
StopDrains == \A t \in Tasks : (cancelled /\ Live(t)) ~> ~Live(t)

\* A command executed under its deadline gives its slot back and ends.
TimedFinishes == \A t \in Tasks : (pc[t] = "running" /\ timed[t]) ~> ~Live(t)

\* Unless an executor hangs, every task gets past the worker pool, however many
\* commands keep arriving.
QueueServed ==
  (\A t \in Tasks : []<>(pc[t] # "running")) =>
    \A t \in Tasks : pc[t] = "waiting" ~> pc[t] # "waiting"
=============================================================================
