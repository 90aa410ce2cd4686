----------------------------- MODULE RequestQueue -----------------------------
(***************************************************************************)
(* internal/api/queue.go: the uploads of unsynced samples, the connectivity*)
(* state, health checks, Flush and Stop.                                   *)
(*                                                                         *)
(* Samples are numbered in the order they are stored, which is the order   *)
(* GetMetrics returns them in. Nothing ever marks one as synced, so        *)
(* 1..stored is what every pass finds. A pass is one run of                *)
(* uploadPendingMetrics: by the retry loop, or by a goroutine or caller    *)
(* of its own (Passes).                                                    *)
(*                                                                         *)
(* The queue never hands requests of other kinds on (Enqueue stores        *)
(* nothing), so Enqueue and PriorityQueue have no state to model. No       *)
(* sample is old enough to leave the seven days a pass looks back.         *)
(***************************************************************************)
EXTENDS Naturals, FiniteSetsExt

CONSTANTS Passes,      \* passes outside the retry loop: bounds how many are modelled at once
          Loop,        \* the retry loop, processRetries
          MaxSamples,  \* bound on the samples stored
          BatchSize,   \* uploadPendingMetrics' batchSize
          Poison       \* samples whose batch the server refuses
                       \* (a final status, or a retryable one at every attempt)

ASSUME QueueAssumption ==
  /\ Loop \notin Passes
  /\ MaxSamples \in Nat
  /\ BatchSize \in Nat \ {0}
  /\ Poison \subseteq 1..MaxSamples

VARIABLES
  stored,      \* number of samples in the cache
  enqueuing,   \* EnqueueMetrics has stored its sample and not read isOnline yet
  received,    \* history: samples the server has accepted
  online,      \* isOnline
  network,     \* the server can be reached
  pc,          \* per pass: "idle", "read", "upload"; the loop also "gone"
  pos, last,   \* per pass: first sample of its next batch, end of its snapshot
  late,        \* the passes whose 30 seconds are over while they run
  health,      \* the health checker: "off", "idle", "checking", "gone"
  cancelled,   \* the queue's context is done
  stop         \* Stop: "notCalled", "waiting", "returned"

passVars == <<pc, pos, last, late>>
lifeVars == <<health, cancelled, stop>>
vars == <<stored, enqueuing, received, online, network, passVars, lifeVars>>

Uploaders == Passes \cup {Loop}

Init ==
  /\ stored = 0 /\ enqueuing = FALSE /\ received = {}
  /\ online = TRUE /\ network \in BOOLEAN
  /\ pc = [u \in Uploaders |-> "idle"]
  /\ pos = [u \in Uploaders |-> 1] /\ last = [u \in Uploaders |-> 0]
  /\ late = {}
  /\ health = "off" /\ cancelled = FALSE /\ stop = "notCalled"

-----------------------------------------------------------------------------
(* One pass: uploadPendingMetrics and uploadMetricsBatch. *)

Begin(u) == pc[u] = "idle" /\ pc' = [pc EXCEPT ![u] = "read"]

\* The snapshot: every sample stored so far.
Read(u) ==
  /\ pc[u] = "read"
  /\ last' = [last EXCEPT ![u] = stored]
  /\ pos' = [pos EXCEPT ![u] = 1]
  /\ IF stored = 0
       THEN pc' = [pc EXCEPT ![u] = "idle"] /\ late' = late \ {u}
       ELSE pc' = [pc EXCEPT ![u] = "upload"] /\ UNCHANGED late
  /\ UNCHANGED <<stored, enqueuing, received, online, network, lifeVars>>

\* (mutant) the last sample of a snapshot is cut off its batch
BatchCutShort(u) == pos[u]..Min({pos[u] + BatchSize - 1, last[u] - 1})

Batch(u) == pos[u]..Min({pos[u] + BatchSize - 1, last[u]})

EndPass(u) ==
  /\ pc' = [pc EXCEPT ![u] = "idle"]
  /\ pos' = [pos EXCEPT ![u] = 1]
  /\ last' = [last EXCEPT ![u] = 0]
  /\ late' = late \ {u}

\* The cache cannot be read: the pass is over.
ReadFails(u) ==
  /\ pc[u] = "read"
  /\ EndPass(u)
  /\ UNCHANGED <<stored, enqueuing, received, online, network, lifeVars>>

NextBatch(u) == pos' = [pos EXCEPT ![u] = @ + BatchSize] /\ UNCHANGED <<pc, last, late>>

\* (mutants) one batch too many; the loop returns at the first error, as
\* Agent.uploadMetrics does
AdvanceBeyond(u, ok) ==
  IF pos[u] + BatchSize > last[u] + 1 THEN EndPass(u) ELSE NextBatch(u)

AdvanceUnlessFailed(u, ok) ==
  IF pos[u] + BatchSize > last[u] \/ ~ok THEN EndPass(u) ELSE NextBatch(u)

\* The loop goes on to the next batch, whether or not this one was uploaded.
Advance(u, ok) ==
  IF pos[u] + BatchSize > last[u] THEN EndPass(u) ELSE NextBatch(u)

\* What UploadMetrics returns when the server cannot be reached or the context is
\* done: doRequest has wrapped the *RequestError (RetryClient, NeverBareRequestError).
NetworkErrors == {"exhausted", "cancelled"}
IsRequestError(e) == e \in {"request", "context"}

\* The check for a network error, which sets the queue offline.
NoticeOffline == \E e \in NetworkErrors : online' = IF IsRequestError(e) THEN FALSE ELSE online

BatchAccepted(u) ==
  /\ pc[u] = "upload" /\ network /\ u \notin late
  /\ Batch(u) \cap Poison = {}
  /\ received' = received \cup Batch(u)
  /\ Advance(u, TRUE)
  /\ UNCHANGED <<stored, enqueuing, online, network, lifeVars>>

BatchRefused(u) ==
  /\ pc[u] = "upload" /\ network /\ u \notin late
  /\ Batch(u) \cap Poison # {}
  /\ Advance(u, FALSE)
  /\ UNCHANGED <<stored, enqueuing, received, online, network, lifeVars>>

\* The server may have accepted a batch whose answer is lost.
BatchUnreachable(u) ==
  /\ pc[u] = "upload" /\ ~network /\ u \notin late
  /\ \/ UNCHANGED received
     \/ Batch(u) \cap Poison = {} /\ received' = received \cup Batch(u)
  /\ NoticeOffline
  /\ Advance(u, FALSE)
  /\ UNCHANGED <<stored, enqueuing, network, lifeVars>>

\* One context of 30 seconds serves the read and all batches of a pass. It may be
\* over at any moment, with the network up or not; the batch under way may have
\* been accepted without its answer coming through.
ContextDone(u) ==
  /\ pc[u] \in {"read", "upload"} /\ u \notin late
  /\ late' = late \cup {u}
  /\ \/ UNCHANGED received
     \/ /\ pc[u] = "upload" /\ network /\ Batch(u) \cap Poison = {}
        /\ received' = received \cup Batch(u)
  /\ UNCHANGED <<stored, enqueuing, online, network, pc, pos, last, lifeVars>>

\* From then on every batch fails in the client, and the loop goes on all the same.
BatchLate(u) ==
  /\ pc[u] = "upload" /\ u \in late
  /\ NoticeOffline
  /\ Advance(u, FALSE)
  /\ UNCHANGED <<stored, enqueuing, received, network, lifeVars>>

-----------------------------------------------------------------------------
(* Callers, the retry loop and the health checker. *)

\* A goroutine with a pass of its own. Any number of them may run; one more than
\* there are Passes is left out, and whoever starts it goes on.
StartPass ==
  \/ \E u \in Passes : Begin(u)
  \/ (\A u \in Passes : pc[u] # "idle") /\ UNCHANGED pc

\* Coming back online starts a pass.
SetOnline(b) ==
  /\ online' = b
  /\ IF b /\ ~online THEN StartPass ELSE UNCHANGED pc
  /\ UNCHANGED <<pos, last, late>>

\* The application reports a change of connectivity.
ReportConnectivity(b) ==
  /\ SetOnline(b)
  /\ UNCHANGED <<stored, enqueuing, received, network, lifeVars>>

\* EnqueueMetrics stores the sample first and looks at isOnline after that.
EnqueueStore ==
  /\ ~enqueuing /\ stored < MaxSamples
  /\ stored' = stored + 1
  /\ enqueuing' = TRUE
  /\ UNCHANGED <<received, online, network, passVars, lifeVars>>

EnqueueTrigger ==
  /\ enqueuing
  /\ enqueuing' = FALSE
  /\ IF online THEN StartPass ELSE UNCHANGED pc
  /\ UNCHANGED <<stored, received, online, network, pos, last, late, lifeVars>>

\* Flush: refused while offline, else a pass in the caller's goroutine. The two
\* sizes it compares only feed the number it returns.
Flush ==
  /\ online
  /\ \E u \in Passes : Begin(u)
  /\ UNCHANGED <<stored, enqueuing, received, online, network, pos, last, late, lifeVars>>

\* The ticker of processRetries fires.
RetryTick ==
  /\ online
  /\ Begin(Loop)
  /\ UNCHANGED <<stored, enqueuing, received, online, network, pos, last, late, lifeVars>>

\* The application starts health checks at most once, and not on a stopped queue.
StartHealthChecks ==
  /\ health = "off" /\ ~cancelled
  /\ health' = "idle"
  /\ UNCHANGED <<stored, enqueuing, received, online, network, passVars, cancelled, stop>>

HealthTick ==
  /\ health = "idle"
  /\ health' = "checking"
  /\ UNCHANGED <<stored, enqueuing, received, online, network, passVars, cancelled, stop>>

\* HealthCheck: an answer, or any error that is not a bare *RequestError, counts
\* as connected.
HealthAnswer ==
  /\ health = "checking"
  /\ health' = "idle"
  /\ \E e \in IF network THEN {"none", "api"} ELSE NetworkErrors : SetOnline(~IsRequestError(e))
  /\ UNCHANGED <<stored, enqueuing, received, network, cancelled, stop>>

\* Stop: the ticker is stopped, the context cancelled, the wait group awaited.
StopCall ==
  /\ stop = "notCalled"
  /\ stop' = "waiting" /\ cancelled' = TRUE
  /\ UNCHANGED <<stored, enqueuing, received, online, network, passVars, health>>

LoopEnds ==
  /\ pc[Loop] = "idle" /\ cancelled
  /\ pc' = [pc EXCEPT ![Loop] = "gone"]
  /\ UNCHANGED <<stored, enqueuing, received, online, network, pos, last, late, lifeVars>>

\* (mutant) the health checker's select has no ctx.Done
HealthEndsNever == FALSE /\ UNCHANGED vars

HealthEnds ==
  /\ health = "idle" /\ cancelled
  /\ health' = "gone"
  /\ UNCHANGED <<stored, enqueuing, received, online, network, passVars, cancelled, stop>>

\* (mutant) Stop does not wait
StopReturnsAtOnce ==
  /\ stop = "waiting"
  /\ stop' = "returned"
  /\ UNCHANGED <<stored, enqueuing, received, online, network, passVars, health, cancelled>>

\* The wait group counts the retry loop and the health checker only.
StopReturns ==
  /\ stop = "waiting"
  /\ pc[Loop] = "gone" /\ health \in {"off", "gone"}
  /\ stop' = "returned"
  /\ UNCHANGED <<stored, enqueuing, received, online, network, passVars, health, cancelled>>

NetworkChanges ==
  /\ network' = ~network
  /\ UNCHANGED <<stored, enqueuing, received, online, passVars, lifeVars>>

-----------------------------------------------------------------------------

UploadNext(u) == BatchAccepted(u) \/ BatchRefused(u) \/ BatchUnreachable(u) \/ BatchLate(u)

Next ==
  \/ \E u \in Uploaders : Read(u) \/ ReadFails(u) \/ UploadNext(u) \/ ContextDone(u)
  \/ \E b \in BOOLEAN : ReportConnectivity(b)
  \/ EnqueueStore \/ EnqueueTrigger \/ Flush \/ RetryTick
  \/ StartHealthChecks \/ HealthTick \/ HealthAnswer \/ HealthEnds
  \/ StopCall \/ LoopEnds \/ StopReturns
  \/ NetworkChanges

Spec == Init /\ [][Next]_vars

\* Goroutines run; every batch ends, at the latest with the context of its pass, in
\* success or not, and a health check with its 10 seconds; the tickers fire. The
\* cache is not unreadable at every pass of the retry loop. No pass is assumed to
\* be in time. A select that finds its ticker and ctx.Done ready takes either, so
\* the end is not passed over for ever.
Fairness ==
  /\ \A u \in Passes : WF_vars(Read(u) \/ ReadFails(u) \/ UploadNext(u))
  /\ SF_vars(Read(Loop) \/ UploadNext(Loop))
  /\ WF_vars(EnqueueTrigger)
  /\ SF_vars(RetryTick) /\ SF_vars(LoopEnds)
  /\ SF_vars(HealthTick \/ HealthAnswer) /\ SF_vars(HealthEnds)
  /\ WF_vars(StopReturns)

FairSpec == Spec /\ Fairness

-----------------------------------------------------------------------------

TypeOK ==
  /\ stored \in 0..MaxSamples /\ enqueuing \in BOOLEAN
  /\ received \subseteq 1..stored
  /\ online \in BOOLEAN /\ network \in BOOLEAN
  /\ pc \in [Uploaders -> {"idle", "read", "upload", "gone"}]
  /\ \A u \in Uploaders :
       /\ last[u] \in 0..stored
       /\ pc[u] = "upload" => pos[u] \in 1..last[u]
  /\ \A u \in Passes : pc[u] # "gone"
  /\ late \subseteq {u \in Uploaders : pc[u] \in {"read", "upload"}}
  /\ health \in {"off", "idle", "checking", "gone"}
  /\ cancelled \in BOOLEAN /\ stop \in {"notCalled", "waiting", "returned"}

\* "Wait for background operations" (queue.go, Stop): the retry loop and the
\* health checker have ended when Stop returns, and neither starts again.
StopEndsLoops == stop = "returned" => pc[Loop] = "gone" /\ health \in {"off", "gone"}

BatchOf(s) == {t \in 1..MaxSamples : (t - 1) \div BatchSize = (s - 1) \div BatchSize}

\* The samples a pass has done with in one of its steps.
Settled(u) == pos[u]..(IF pc'[u] = "upload" THEN pos'[u] - 1 ELSE last[u])

\* A pass goes through its snapshot without a gap, forwards and to the end, and every
\* sample it puts behind it has arrived, except in three cases: the server could not
\* be reached at that moment, the 30 seconds of the pass were over, or the server
\* refuses the batch that the sample is always part of (queue.go, the loop of
\* uploadPendingMetrics).
NoneSkipped ==
  [][\A u \in Uploaders : pc[u] = "upload" =>
       /\ pc'[u] \in {"upload", "idle"}
       /\ pc'[u] = "upload" => last'[u] = last[u] /\ pos'[u] >= pos[u]
       /\ network /\ u \notin late =>
            \A s \in Settled(u) : s \in received' \/ BatchOf(s) \cap Poison # {}]_vars

\* The retry loop does not run out of time before it has tried the batch of s.
InTime(s) == Loop \in late => pos[Loop] > s

\* "Zero data loss during offline periods" (README of internal/api): once the
\* server stays reachable and the queue is online again and again, a sample gets
\* there unless its own batch is refused, provided that from some time on the passes
\* of the retry loop get past it within their 30 seconds. No wake-up is lost between
\* storing and coming online, a refused batch does not hold up those behind it, and
\* a pass that is late further on does no harm. The proviso is needed: nothing is
\* ever marked as synced, so a pass that is late never gets beyond where it was late.
GoodSamplesArrive ==
  \A s \in 1..MaxSamples :
    (<>[]network /\ []<>online /\ []~cancelled /\ <>[]InTime(s)) =>
       ((s <= stored /\ BatchOf(s) \cap Poison = {}) ~> s \in received)

\* Stop returns although samples keep arriving and the server may be unreachable.
StopTerminates == stop = "waiting" ~> stop = "returned"

\* "Check if it's a network error - if so, mark as offline" (queue.go,
\* uploadMetricsBatch): an upload that cannot reach the server leaves the queue
\* offline. The error has been wrapped on its way and the check fails.
OfflineDetected == [][\A u \in Uploaders : BatchUnreachable(u) => ~online']_vars
=============================================================================
