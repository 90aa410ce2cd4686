# Verification of the CastleOps client

TLA+ models of the CastleOps client agent (Go), the TLC configurations that
check them, and TLAPS proofs about them. Every definition is translated from
the code at the lines `PROJECT.json` names under `map`; documents and comments
are only used as statements the code is compared with.

Contents: [inventory](#inventory), [plan](#plan), [modules](#modules),
[runs and bounds](#runs-and-bounds), [fairness](#fairness), [proofs](#proofs),
[disagreements](#disagreements-between-code-and-documentation),
[not modelled](#what-is-not-modelled), [running](#running-the-checks).

## Inventory

The agent runs on a managed machine. It registers with a server, sends
heartbeats, collects and uploads metrics, polls for commands that install or
remove packages, executes them and reports their results. It keeps metrics and
commands in a local cache (memory or SQLite) so that they survive times without
a connection.

| component | source | state it keeps | operations |
|---|---|---|---|
| command handler | `internal/api/commands.go` | worker pool (a channel), wait group, executors by type, its context | `RegisterExecutor`, `HandleCommand(s)`, `executeCommand`, `submitResult`, `ProcessPendingCommands`, `Stop` |
| cache | `internal/cache/memory.go`, `sqlite.go`, `batch.go` | command rows, metric rows, retention | `StoreCommand`, `GetPendingCommands`, `MarkCommandComplete`, `StoreMetrics`, `GetMetrics`, batches, cleanup, `Close` |
| API client | `internal/api/client.go` | client id and token under a lock, HTTP client, buffer pool | `doRequest` (retry loop), `executeRequest`, one method per endpoint, `SetCredentials` |
| request queue | `internal/api/queue.go` | `isOnline`, retry ticker, context, wait group | `EnqueueMetrics`, `SetOnline`, `uploadPendingMetrics`, `HealthCheck`, `Flush`, `Stop` |
| agent | `internal/agent/agent.go` | `running`, `stopCh`, `stoppedCh`, wait group of three workers | `Start`, `Stop`, upload, poll and maintenance workers, `WaitForShutdown` |
| heartbeat service | `internal/agent/heartbeat.go` | `running`, stop channel, interval, last heartbeat | `Start`, `Stop`, loop, retry, configuration updates |
| registration | `internal/api/registration.go`, `internal/agent/registration.go` | credentials in the client and in the configuration file | register, verify, re-register |
| metrics system | `internal/metrics/system.go`, `average.go`, `collector.go` | `running`, collectors, a shared buffer, moving averages | `Start`, `Stop`, `collectOnce`, `CollectNow` |
| collectors | `internal/metrics/{cpu,memory,disk,network}.go` | previous counters | `Collect` into the buffer |
| package managers | `internal/packagemgr` | registry of managers under a lock, path of Homebrew's executable | `Register`, `Unregister`, `Clear`, `AutoDetect`, `EnsurePackageManager`, `GetDefaultOrInstall`; install, uninstall, update, list and query packages; the executors of commands |
| system service | `internal/service` | the host's: an entry of the Windows service manager, or a plist launchd has loaded; context and error channel of one run | `Install`, `Uninstall`, `Start`, `Stop`, `Restart`, `Run` |
| drivers | `cmd/castleops-client/main.go` | context, signal and error channels | `run` (foreground), `runAgent` (under a service manager) |
| configuration | `internal/config` | one structure and its file | load, validate, save |

How they interact. A driver starts the `Agent`, which registers through the
API client, then launches the metrics system and the heartbeat service (each
with its own loop) and three workers. The metrics loop stores samples in the
cache, the upload worker reads them back and sends them, the poll worker
fetches commands and stores them as rows; the heartbeat loop only talks to the
server. `Stop` closes channels the loops select on, waits for them, flushes and
closes the cache, all raced by a deadline. The command handler and the request
queue are components of `internal/api` that share the cache and the client;
they are exercised by their tests and examples, the agent binary does not
construct them yet. They are modelled as the library they are. The same holds
for the package managers: `InitializePackageManagement` gives a command handler
their executors, and no driver calls it. As a service, the agent is the worker
of `Run`, inside a process that the host's service manager starts, stops and
starts again; each such process reads the configuration file anew.

What is hard here, and the properties that make each part correct:

| component | hard behaviour | properties |
|---|---|---|
| command handler | goroutines against a bounded pool; redelivery of a command that is pending, running or complete; recovery after a crash; a cancelled context racing a free slot; `Stop` giving up on its wait | `PoolBoundsExecution`, `NoConcurrentDuplicate`, `ExecutesOncePerLife`, `ImplementsLedger`, `StopMeansQuiet`, `PendingHasOwner`, `CompleteWasSubmitted`, `StopDrains`, `TimedFinishes`, `QueueServed`; refuted: `ResultsDelivered`, `TimeoutHonoured` |
| API client | retries of requests that did take effect, requests that arrive after the client gave up, errors wrapped on their way up | `EffectsBounded`, `NeverBareRequestError`, `ImplementsRemoteCall`, `CallReturns` |
| request queue | upload passes that overlap each other and run out of time, connectivity changing while a sample is stored, batches the server refuses, `Stop` beside uncounted goroutines | `StopEndsLoops`, `NoneSkipped`, `GoodSamplesArrive`, `StopTerminates`; refuted: `OfflineDetected` |
| agent, services, drivers | a stop at any point of the start, loops that hang, a deadline racing the shutdown | `FlushIsLast`, `HeartbeatEndsFirst`, `GracefulIsComplete`, `ShutdownCompletes`; refuted: `CompletelyStopped`, `ErrorPathCleansUp` |
| registration | copies of the identity in the file, the configuration and the client, written one after the other by two services; registrations whose answer is lost; restarts | `CredentialsAgree`, `ReturnedIsConfirmed`, `IdentityIsKept` |
| system service | commands of administrators, each several calls, beside recovery, crashes and workers that hang; a wait on the very context that was cancelled | `OneWorker`, `SuccessTells`, `EverythingEnds` |
| package managers | check, act and report with nothing locked, on a host others change; a registry lock held through probes that may hang; several steps to bring a manager, each of which may fail | `AnswersAreTrue`, `RefusedIsUntouched`, `RightPlatform`, `OnlyInstallationsBootstrap`, `OperationsEnd`, `WritersGetIn` |
| uploads of the agent, heartbeat exchange, metrics collection, batch stores | see [not modelled](#what-is-not-modelled) | |

The complete list of hazards, each with its line and the properties that cover
it, is under `hazards` in `PROJECT.json`.

## Plan

The order is by what an error would cost: a package operation run twice or a
result lost first, then the transport everything uses, then the life of the
process and what the host does with it, then the flow of metrics.

1. `CommandLedger`, `CommandHandler` (which implements it), `MCCommandHandler`,
   `CommandHandlerProofs`.
2. `RemoteCall`, `RetryClient` (which implements it), `MCRetryClient`,
   `RetryClientProofs`.
3. `AgentLifecycle`, `MCAgentLifecycle`, `AgentLifecycleProofs`.
4. `RequestQueue`, `MCRequestQueue`, `RequestQueueProofs`.
5. `PackageManager`, `MCPackageManager`, `PackageManagerProofs`: what an
   executor of the command handler really does.
6. `ServiceControl` and `Registration`, composed by `AgentHost` (which
   implements both), `MCAgentHost`, `AgentHostProofs`.

All six are done. What could still be added, in this order: the contents of an
upload (every sample the collectors delivered is uploaded at least once or has
expired), the exchange of one heartbeat with its retries, the shared buffer of
the collectors.

## Modules

### CommandHandler

Models `internal/api/commands.go`, the command rows of both caches and
`Agent.pollCommands`.

State. `row` is the cache's command table (`absent`, `pending`, `complete`);
`pc[t]` and `cmd[t]` are the statement and the command of a goroutine running
`executeCommand`; `slots` is the number of values in the `workerPool` channel,
`wg` the wait group, `cancelled` whether `h.ctx` is done, `stop` and `drained`
the call of `Stop` and its `done` channel. `handing` is a command stored by a
`HandleCommand` that has not started its goroutine yet, `resume` the rows a
`ProcessPendingCommands` has read and not yet handled. `attempted`,
`delivered`, `started`, `late` are history.

Actions. `HandleStore` and `HandleSpawn` are the two halves of `HandleCommand`,
with everything else between them; `ResumeRead`, `ResumeSpawn`, `ResumeSkip`
are `ProcessPendingCommands`; `Acquire`, `CancelWaiting`, `Execute`, `Submit`,
`Mark`, `Release`, `Finish` are `executeCommand` from its select to its
deferred calls; `StopCall`, `WaitReturns`, `StopReturns` are `Stop`; `Cleanup`
is SQLite retention; `Restart` is the loss of the process at any point and
`NewCommandHandler` after it. `Backend` chooses how a store treats an existing
row (SQLite refuses, memory overwrites), whether an update can fail and whether
rows survive a restart.

`CommandLedger` is the abstract promise: a command is accepted, its result
submitted at least once, then settled, never settled before a submission and
never submitted again after it, until retention forgets it. `CommandHandler`
implements it with `ledger <- row`; a crash is a stuttering step.

Assumption `ResumeFirst`: recovery runs once, before the first delivery: its
comment calls it useful for resuming after a restart, and nothing in the
repository calls it. Without it `ProcessPendingCommands` can read the row of
a command between `HandleStore` and the end of its goroutine and start a second
goroutine for it: `NoConcurrentDuplicate` and `ExecutesOncePerLife` then fail.
Nothing in the code enforces the order.

### RetryClient

Models `doRequest`, `executeRequest` and `isRetryable` for several concurrent
calls. `pc`, `attempt` and `outcome` are the loop of one call; `ctxDone` its
context; `processed`, `arrived` and `stray` are what the network and the server
did: a request may take effect and its response be lost, or take effect after
the client gave it up. Errors are classes by what `isRetryable` and the callers
can distinguish. `Fail` is what `doRequest` makes of an error: next attempt,
the error as it is, or the last error wrapped.

`RemoteCall` is the abstract promise to the callers: a bounded number of
requests, none after a return or a final answer; effects that may come late but
never outnumber the requests; success only after an effect; a refused call
never makes a request. `RetryClient` implements it: `Requests` counts the
requests handed to the network from where the loop stands, `Standing` says how
the call has returned. The backoffs and the context are stutters.

### AgentLifecycle

Models `Agent.Start`, `startSubsystems`, `Stop`, `cleanup` and
`WaitForShutdown`, `Start` and `Stop` of the heartbeat service and of the
metrics system, the five loops, and both drivers. `start` and `shutdown` are
the statements of `Start` and of the goroutine inside `Stop`; `loop` is where
each loop stands; `services` are the services' own `running` flags; `closed`
the closed channels. A loop's body is one step (`Work`) that may never come: a
collector may hang in a system call. `run` starts the agent in a goroutine, so
`Signal` and `StopBegin` may come at any point of `Start`; `overlap` records
that they did.

### RequestQueue

Models `internal/api/queue.go`. Samples are numbered in storage order. A pass
(`Read`, then one of `BatchAccepted`, `BatchRefused`, `BatchUnreachable`,
`BatchLate` per batch) runs in the retry loop or in a goroutine or caller of its
own (`Passes`), any number overlapping. One context of 30 seconds serves a whole
pass: `ContextDone` ends it at any moment, with the network up or not, and from
then on (`late`) every batch fails in the client while the loop goes on.
A goroutine that would be one more than there are `Passes` is left out
(`StartPass`); whoever starts it goes on. `EnqueueStore` and `EnqueueTrigger` are the
two halves of `EnqueueMetrics`: it stores first and reads `isOnline` after
that. `SetOnline` is called by the application and by health checks.
`network` is the environment. What the client returns for an unreachable server
is taken from `RetryClient`, where `NeverBareRequestError` is proved: a wrapped
or a context error, which `err.(*RequestError)` does not match.

Restrictions: one `EnqueueMetrics` at a time, health checks are started at
most once and not on a stopped queue, and no sample leaves the seven days a pass
looks back. `Enqueue` stores nothing and
`PriorityQueue` is used by nothing, so neither has state. As nothing marks a
sample as synced, every pass sends everything again and `Flush` always reports
zero.

### PackageManager

Models `internal/packagemgr`: the registry, the installer, the executors,
Homebrew and Chocolatey, for several operations at once. `at[p]` is where an
operation stands, `kind`, `wants` and `pkg` what was asked for, `uses` the
manager it got (a name and the object, because a manager that is registered
again is a new object while operations keep the old one), `next` its index in
the preferred managers. `managers`, `readers` and `writer` are the registry with
its `RWMutex`; `brew` says of each `Homebrew` object whether the path it found is
that of a real brew. `present` and `installed` are the host.

Actions. The steps of an operation are the points where something may come in
between: a lock, a probe (`brew --version`), the start and the end of a child.
`AutoDetect`, `EnsurePackageManager`, `ensureAutoDetected`,
`GetDefaultOrInstall`, the operations of the installer and of each manager have
the names of the code. `ChecksFirst`, `ScriptExits`, `Verifies` are
the parts of a manager's `Install` in order. `ChildActs` is the moment at which a child
changes the host; `UserActs` is anybody else. A probe and a child may fail at
any time (timeout, cancelled context, exit code), so a child that has done its
work may still be reported as a failure; the torn read of `executable` that the
unsynchronised write in `Install` allows is one more failing probe. `saw` is
history: what the host was like, for this package and for the managers, since
the operation began.

Assumptions about brew and choco, which are external: exit code 0 of an
installation means the package is there, "already installed" and "already
up-to-date" in an error are about the package asked for and not about one of
its dependencies, and a listing is what was there when the child looked.

Further restrictions: `EnsureManagerInstalled` makes a registry of its own as
`GetDefaultOrInstall` does and adds nothing to it; `List`, `HasManager`,
`ListInstalled` and `GetAllManagerInfo` only read.

### ServiceControl

Models `internal/service` and the service commands of the driver. An
administrator's command is a sequence of calls of the service manager
(`step[a]`), any of which may fail; `entry`, `loaded`, `state`, `recovery`,
`due` are what the service manager holds, and external. `proc[p]` is where
`Run` (macOS) or `Execute` (Windows) stands in a process, `worker[p]` is its
agent. `Crash` loses a process at any point. `hung[p]` says that `Execute` has
given up on its worker after 30 seconds. Both platforms are in one module
because the driver and the process have the same shape; `host` chooses.

### Registration

Models `internal/agent/registration.go`, the credentials in
`internal/agent/agent.go` and the registration service of `internal/api`. An
identity, a client id with its token, is a number. `file`, `config` and `client`
hold an identity each, `registered` is the agent's flag; `issued` and `valid`
belong to the server, which issues an identity for every registration it
processes, whether the answer arrives or not. `stage` is the statement of the
call under way. `dropped` is history: the identity a `ReRegister` has cleared in
the configuration and not in the client. One call of a registration service is under way at a time:
nothing in the code locks the calls against each other, and two at once could
leave the client and the configuration with different identities.

### AgentHost

The two composed: a process that begins makes a new agent from the file, an
agent whose registration fails ends its worker, a process that goes takes the
memory with it. Either administrators act while the server is out of reach, or
the registration services are called in an agent whose process is lost and
restarted (`Scenarios`); the product of both would only multiply states that do
not meet. `AgentHost` implements `ServiceControl` and `Registration` as they
are by themselves (`ImplementsBoth`).

## Runs and bounds

| run | configuration | what it shows |
|---|---|---|
| `handler_sqlite` | three commands (one only polled), three goroutines, two slots, two types, SQLite rows | types, the pool bound, the meaning of a nil from `Stop`, no command worked on twice at once or executed twice per process, no row complete before a submission, refinement of the ledger; with crashes, failed updates and retention |
| `handler_memory` | two commands (one with a timeout), two goroutines, one slot, memory rows | no accepted command is dropped; under fairness, `Stop` drains, deadlines free slots, the pool serves everyone |
| `handler_result_lost` | one command | `ResultsDelivered` is violated |
| `handler_timeout_lost` | one timed command | `TimeoutHonoured` is violated |
| `retry_client` | two calls, three attempts each | effects, error classes, the contract of a remote call (bounded requests, none after a final answer, success only with an effect), every call returns |
| `agent_lifecycle` | both drivers | order of the shutdown, meaning of graceful, termination with hanging loops |
| `agent_wait` | both drivers | `CompletelyStopped` is violated |
| `agent_error` | both drivers | `ErrorPathCleansUp` is violated |
| `request_queue` | three samples, batches of two of which the first is refused, one pass beside the loop | a pass that is in time skips nothing; under fairness, delivery of what the loop's passes get to, behind a refused batch and beside passes that are late, and the end of `Stop` |
| `request_queue_offline` | the same with two passes beside the loop | `OfflineDetected` is violated |
| `package_manager` | two operations (four pairs of kinds), one package, two platforms, two Homebrew objects, one write to the registry or act of the user | reports are true, refusals leave nothing running, nothing is run with another platform's manager, no manager is installed unasked; an operation ends if its own processes and the probes under the lock do, a writer if those probes do |
| `agent_host` | two administrators (four pairs of commands), two processes, Windows and macOS, two attempts, two identities | one serving process, what nil of a command tells, copies of the identity differ only by a `ReRegister`, what is returned was confirmed, a configured identity stays; every command and every exit comes to its end |

Why the bounds are enough. In the handler, three goroutines on two slots make
one wait while two run; one of three commands makes the goroutine identities a
limit only for the number alive at once, and they are reused without end.
Redelivery, restarts and retention are unbounded. With the memory cache two
commands and one slot are the smallest contention. Retries are bounded by
`MaxRetries` = 2: first, middle and last attempt differ. The agent's lifecycle
is finite and explored completely. In the queue, three samples in batches of two
give a full, refused first batch and a short last one; a pass beside the
loop overlaps with it in every way, and passes share nothing but what the server
has received, so that a further one adds nothing to the properties of the run.
With packages, the
pairs put every operation beside one that works against it (an installation
beside an uninstallation, an update beside a query, a detection on a registry
of its own beside one that holds the shared lock); one change by the user or one writer is
enough to make any earlier check stale, and a second Homebrew object is what a
registry that is written to, or `GetDefaultOrInstall`, creates. Linux stands for
macOS: the code treats them alike. For the service, two processes are the one
that leaves and the one that comes. The pairs of commands are those that work
against each other; crashes and restarts are not bounded. Two identities are
one of the file and one issued, or an issued one whose answer was lost and its successor.
The theorems remove the bounds for the properties they cover.

`CHECK_DEADLOCK FALSE` is set where the system may really stop: calls that have
returned, a driver that has exited.

Every property of a passing run has a mutant of the code's model, listed in
`PROJECT.json`, that violates it; the mutated operators stand before the
definition they replace, marked `(mutant)`.

## Fairness

- Goroutines: the Go scheduler runs what can run, hence weak fairness of single
  steps. Network calls are bounded by timeouts or contexts, so `Submit` and the
  health check always end, and a batch at the latest with the context of its
  pass. That a pass is in time is not assumed anywhere in the fairness.
- `SF(Acquire)`: senders on a full channel queue in order, so a waiting
  goroutine is not overtaken for ever.
- An executor is only fair once its context is done (`ExecuteExpired`): nothing
  makes a package manager return otherwise. `QueueServed` assumes executors
  return; `TimedFinishes` and `StopDrains` do not.
- `SF(LoopEnds)`, `SF(HealthEnds)`: a select with ticker and `ctx.Done` both
  ready chooses at random.
- Of the cache, the queue assumes only that the retry loop does not fail to read
  it at every pass; passes of other goroutines may fail always.
- `AgentLifecycle` assumes nothing of the loops; the driver's own timers and
  `Start`'s bounded registration are enough for `ShutdownCompletes`.
- `PackageManager`: an operation under way goes on, except where it waits for a
  process (`Waits`): of that nothing is assumed. The timeouts kill the child,
  but its output goes to buffers and no `WaitDelay` is set, so that `Run` waits
  for every descendant that holds the pipes. `OperationsEnd` and `WritersGetIn`
  name what they need: that the operation's own processes end
  (`ProcessesEnd`) and that the probes run under the registry's lock do
  (`LockedProbesEnd`). A child need not ever do its work (`ChildActs` is not
  fair). A writer of the registry that has the lock releases it. That it gets the
  lock rests on Go's `RWMutex`, which keeps new readers out once a writer waits;
  the model has this in `MayRead`.
- `AgentHost`: commands go on, because each poll has a time limit; processes go on;
  the service manager need not restart anything and a worker need not end.
- `GoodSamplesArrive` states its assumptions itself: the server stays
  reachable, the queue is online again and again, nobody stops it, and from some
  time on the retry loop is not late before it has tried the batch of the sample
  (`InTime`). The last one the code does not guarantee: nothing is marked as
  synced, so each pass starts at the first sample again, and what does not fit
  into 30 seconds is never sent. Without it TLC finds that behaviour.

## Proofs

All proofs hold for every value of the constants that satisfies the named
`ASSUME` of the module.

`CommandHandlerProofs`. `IndInv` is: types; the wait group counts the live
goroutines and `slots` the tasks between select and release (`Counting`); once
the group has been empty under a stop, every live goroutine is late (`Quiet`).
It gives `TypeCorrect`, `PoolIsBounded` (no number of goroutines exceeds the
pool on any path) and `StopWaitsForAll`. `Counting` is needed because the
bound on `slots` says nothing of the goroutines until the two are tied together by
cardinality. For SQLite rows with recovery first (`Discipline`), `SingleOwner`
says that a command is in one place only (being handed over, read by recovery, or owned by
one unfinished goroutine), that its row is then pending, and that a started
command is not owned by a waiting goroutine. It gives `NeverTwice`,
`ExecutesOnce` and, with the same invariant, `HandlerImplementsLedger`, by one
case per action. `CompleteMeansSubmitted` uses it too, because retention
forgets a submission and no other task may be about to mark that row; with the
memory cache it needs no such argument. `PendingIsOwned` (memory cache) adds
that one `HandleCommand` is under way at a time. `OnlyRecoveryLosesDeadlines`
delimits the finding about `TimeoutHonoured`: with the memory cache and
recovery first the property holds, because recovery then finds nothing but rows
of `pollCommands`, which it skips (`NothingToRecover`).

`RetryClientProofs`. `EffectsBounded` is not inductive; `Budget` counts by
where the loop stands: requests processed or still under way never exceed the
attempts begun. It gives `CallEffectsBounded`: the server sees one call at most
`MaxRetries + 1` times, whatever the network delays. `RequestErrorIsAlwaysWrapped`
shows that no caller ever receives a bare `*RequestError`, which is why the
queue's type assertion can not succeed. `Evidence` says what the place of the
loop tells of the past: a call that has sent nothing has no effect, one that
succeeded has one. With `Budget` it makes each step of the loop a step of
`RemoteCall` or a stutter (`CallImplementsContract`, one case per action), and
gives `OutcomeIsEvidence`, what a caller may conclude from each outcome. A
consequence of the contract is `FinalAnswerEndsCall`. `CallsAreFinite` gives
the loop a variant: no step takes a call back, and its way has at most
`3 * MaxRetries + 3` steps.

`AgentLifecycleProofs`. `Launched` and `Flagged` say which loops and service flags
exist by the statement `Start` stands at, so that a loop which is not alive has
ended and was not skipped; `Called` ties `Stop` to its shutdown goroutine and,
unless it overtook `Start`, to a completed start; `Awaited` says what the
shutdown has waited for. Together they give `FlushComesLast`,
`HeartbeatEndsBeforeOthers` and `GracefulStopIsComplete`. The deadline and the
loops appear in no argument: the order holds however long they take. A second
invariant, `Once`, says which loops can not have been launched yet and which
channels not been closed (`Unlaunched`, `Unclosed`). It gives
`EndedLoopsStayEnded`, `ChannelsAreClosedOnce` (a second close panics in Go) and
`FailedStartIsNeverCleanedUp`, which turns the counterexample of
`ErrorPathCleansUp` into a statement about every failed start.

`RequestQueueProofs`. A batch lies within the snapshot of its pass and the
snapshot within what is stored: the type invariant. `StoppedIsCancelled` makes
`StopEndsLoops` inductive. It gives `StopEndsItsLoops` for any number of
overlapping passes. `PassesSkipNothing` needs that a pass always stands at the first sample of a
batch (`AllAligned`, with a lemma on the division that `BatchOf` is): then the
batches of a pass tile its snapshot, and a sample it has put behind it was
received, unless the server was out of reach, the pass's 30 seconds were over or
the server refuses its batch.
`OfflineOnlyByReport` is the positive form of the finding about
`OfflineDetected`: only `SetOnline(false)`, called from outside, clears
`isOnline`.

`PackageManagerProofs`. The invariant `Inv` speaks of one operation at a time
(`OpInv`): what it knows by the stage it stands at (`Standing`: only
installations get to a script, a script and a run have the platform's manager,
no child before one), that it has seen what the host is like now (`Watching`),
what its child has found and done (`Worked`), and that its result is true of
what it has seen (`Answered`). `AnswersAreTrue` is not inductive without
`Worked`, and `Worked` not without `Watching`: a child looks at the host of its
own moment. Every step of an operation is either `Advances` (later steps) or
`Begins` (its first), which say once what such a step leaves alone, so that
types and the other operations need one argument for all steps; `GoesOn` and
`Returns` are the two ways a stage can change. It gives `TypeCorrect`,
`ReportsWereTrue`, `RefusalIsClean`, `PlatformIsRespected` and
`BootstrapIsAskedFor`.

The registry lock has an invariant of its own, `LockInv`: its readers are
exactly the detections under way (`DetectionsHoldTheLock`). From it follow
`DetectionSeesOneRegistry`, since a write needs a lock without readers, and
`WritersAreNotOvertaken`. `OperationsAreFinite` has a variant, `Left`: the steps
an operation has left at most, which every step of its own makes fewer. It is
not simply the order of the stages, because the walk over the preferred
managers probes, installs and probes again (`next`).

`AgentHostProofs`. `ServiceInv` and `RegistrationInv` are proved for the two
components by themselves and carried over to their composition by
`ImplementsBoth`. `ServiceInv` says that the service manager's state is what its
one serving process has reported (`Shown`), that at most one process serves
(`OneServing`, with `OneJob` for macOS) and which workers can be alive
(`WorkersServe`); from it follows `OneServingProcess`: a second worker is up
only on Windows, beside one `Execute` has given up on and whose process is
leaving.
`RegistrationInv` says which copies agree at which stage (`Copies`) and what a
call knows of the identity it holds (`Known`); from it follow
`CopiesDifferByReRegister` (they are equal, or the configuration has none and
the client what a `ReRegister` cleared there),
`AnswersAreConfirmed`, `IdentitySurvives` and `IdentitiesHaveASource`: neither
copy of the identity ever takes one that is not from the file, from the server
or confirmed. `CommandInv` says which calls belong to which command (`Keeps`)
and that the service manager shows RUNNING only while a process is in `Execute`
(`RunningIsShown`, which rests on `OneServing`). It gives
`CommandsTell`: the least a caller may conclude from nil, with others at work
between the calls. It is little on macOS, where launchctl waits for nothing: a
stop has signalled, and the process there is after a restart may be the one it
signalled. An uninstallation tells nothing of the agent. `CommandsAreFinite`
counts the calls a command has left (`Calls`).

Every safety property of the passing runs is proved. Only model-checked are the
liveness properties `StopDrains`, `TimedFinishes`, `QueueServed`,
`CallReturns`, `ShutdownCompletes`, `GoodSamplesArrive`, `StopTerminates`,
`OperationsEnd`, `WritersGetIn` and `EverythingEnds`: fairness and `ENABLED` are
out of the prover's reach. What they rest on besides fairness is proved where
it is not obvious: `CallsAreFinite` and `OperationsAreFinite` (variants) for
`CallReturns` and `OperationsEnd`, `WritersAreNotOvertaken` for `WritersGetIn`,
`PassesSkipNothing` for `GoodSamplesArrive`, `CommandsAreFinite` for the part of
`EverythingEnds` that is about commands.

Of the properties that runs refute, three are answered by theorems that say where
they do hold or why they fail: `OnlyRecoveryLosesDeadlines`,
`FailedStartIsNeverCleanedUp`, `OfflineOnlyByReport`. The invariants of the
proofs were checked by TLC on the bounds of the runs before they were proved.

## Disagreements between code and documentation

Each is a run that TLC finds violated, listed under `findings`:

1. `ResultsDelivered`: a command is marked complete when the submission of its
   result failed; the comment promises retries.
2. `TimeoutHonoured`: a command recovered from its row has lost its timeout.
3. `CompletelyStopped`: `WaitForShutdown` returns after a `Stop` that timed
   out, with loops still running.
4. `ErrorPathCleansUp`: the cleanup after a failed start is a `Stop` that
   returns at once.
5. `OfflineDetected`: the queue never notices a lost connection.

Further behaviour seen while modelling, without a run.

Commands and agent:

- `ProcessPendingCommands` beside `HandleCommand` (see `ResumeFirst`).
- `running` is set before the subsystems are started. A signal while `Start`
  registers finds it unset: `Stop` does nothing, `Start` may launch everything
  and the driver waits out its 30 seconds. A stop in the middle of the launch
  skips services whose flag is not set yet and closes the cache before the last
  loops start (`overlap` records this).
- Rows stored by `pollCommands` carry no payload and recovery skips them.
- `uploadMetrics` ends at the first batch that fails, so a batch the server
  always refuses keeps every later sample back; nothing marks a sample as synced,
  so each upload sends the last 24 hours again.
- `CollectNow` swaps the buffer of the collectors while the loop's `collectOnce`
  fills and resets it: samples of the two may be mixed or lost.
- `SetInterval` never reaches the heartbeat's ticker (`heartbeat.go:370`).

API client and request queue:

- Context errors. The comment at `client.go:439` says "Context errors are not
  retryable", `internal/api/SUMMARY.md:406` "Never retryable" and line 413 "Pass
  through → No retry". `executeRequest` hands the context's error up inside a
  `*RequestError`, which `isRetryable` accepts at `client.go:434` before it
  comes to that comment. The retry loop then waits, and what ends the call is
  the backoff, which sees that the context is done. `NeverBareRequestError`
  states what the code as it is gives its callers; the documented behaviour would hand
  them a bare `*RequestError`, which the queue takes for a lost connection.
- Each upload pass has 30 seconds for all its batches (`queue.go:199`), nothing is
  marked as synced, and each pass starts at the first sample: what does not fit is
  never sent, although `internal/api/README.md:178` promises "Zero data loss
  during offline periods". A batch that is retried until the context is done
  keeps those behind it back.

Registration:

- A `ReRegister` whose registration fails has cleared the configuration
  (`internal/agent/registration.go:229`, "Clear existing credentials") and not
  the API client, which goes on sending the old identity. `CredentialsAgree`
  says that nothing else makes the two differ.
- A client with credentials in its file does not verify or renew them at start,
  and while it runs nothing notices that they were revoked.
- Issued credentials are never written to the file by the agent: each restart of
  an unconfigured client registers a new identity.
- A verification that fails for any reason, the network included, discards the
  identity.

Service:

- macOS: `Run` cancels the context and then selects on the worker's result and
  on that same context, so it may return without waiting for the worker, with
  `context.Canceled`; the driver then exits with code 1, and `KeepAlive` with
  `SuccessfulExit` false makes launchd start the agent again after a stop.
- Windows: the recovery actions do not apply to a worker that fails, as the
  service shows STOPPED when its process goes; `internal/service/README.md:161`
  says "Auto-recovery: Restart on failure". `Start` sees RUNNING before the agent
  has registered.
- Windows: `Execute` gives up on its worker after 30 seconds
  (`service_windows.go:430`) and reports STOPPED. Until the process is gone, the
  next start runs beside an agent that is still shutting down.
- macOS: "Restart stops and starts the service" (`service.go:33`), but launchctl
  does not wait: a nil from `Restart` may mean the old process, which has
  its signal and is about to go, a nil from `Stop` only that the signal was sent.
- `Uninstall` ignores a stop that failed and may return nil while the agent runs:
  its nil only says that the entry is gone or marked for deletion.
- Of two installations at once on macOS, the one whose load fails removes the
  plist of the other.
- `AgentHost` lets the set-up of an agent fail up to the end of its `Start`; the
  end of `Start` is not told from what follows it (`SetUpFails`).

Package managers:

- Two operations that need a missing manager may both run its installation
  script.
- A timeout kills the direct child only; processes it has started go on. As the
  commands capture output in buffers and set no `WaitDelay` (`homebrew.go:88`, `140`,
  `424`, `chocolatey.go:63`, `122`, `398`), `Run` then waits for each descendant
  that holds the pipes: a timeout does not bound a probe or a command. For a
  probe of a detection, which runs under the registry's read lock
  (`registry.go:83`), that means that a writer, and every detection after it, may
  wait for ever.
- The code `TIMEOUT` that the documentation of the package lists is always
  wrapped in the error of the operation (`homebrew.go:242`).
- `IsInstalled` never returns an error: a probe that fails is a manager that is
  not installed. An uninstallation that is repeated after one that timed out
  but succeeded reports a failure.

## What is not modelled

- The contents of an upload and of a heartbeat: the loops that send them are in
  `AgentLifecycle`, each body as one step; what they read, retry and update is
  not modelled beyond the observations above.
- The shared buffer of the collectors, the moving averages and the differences
  of counters: arithmetic on readings of the operating system.
- The batch stores of the cache: nothing but tests calls them, and their
  atomicity is that of SQLite's transactions. A batch that fails half-way reports
  the rows it had inserted before the rollback (`batch.go:57`).
- Which pair of client id and token one request carries when they change
  between its attempts: `RetryClient` has no credentials, `Registration` no
  requests.
- Two calls of `Agent.Stop` at once, which no driver makes.
- Payloads, wording, logging, TLS, JSON, the durations of backoffs and tickers,
  the parsing of a manager's output, loading and validating the configuration:
  input and output without a state of their own.

`PROJECT.json` lists every component with its status.

## Running the checks

    tlc -workers 2 -config handler_sqlite.cfg MCCommandHandler
    tlapm CommandHandlerProofs.tla

A run's module and configuration are listed under `runs`.
