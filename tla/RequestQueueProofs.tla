--------------------------- MODULE RequestQueueProofs ---------------------------
(***************************************************************************)
(* Theorems about RequestQueue for any number of overlapping passes, any   *)
(* number of samples and any batch size.                                   *)
(*                                                                         *)
(* A batch lies within the snapshot of its pass, and the snapshot within   *)
(* what is stored: that is the type invariant, which the bounds of the     *)
(* batches make inductive. StopEndsLoops needs that the context is done    *)
(* from the moment Stop is called: then no health checker starts.          *)
(***************************************************************************)
EXTENDS RequestQueue, TLAPS

StoppedIsCancelled == stop # "notCalled" => cancelled

IndInv ==
  /\ TypeOK
  /\ pos \in [Uploaders -> Nat] /\ last \in [Uploaders -> Nat]
  /\ StoppedIsCancelled
  /\ StopEndsLoops

LEMMA InitIndInv == Init => IndInv
<1> SUFFICES ASSUME Init PROVE IndInv
  OBVIOUS
<1>1. stored = 0 /\ received \subseteq 1..stored
  BY DEF Init
<1>2. \A u \in Uploaders : pc[u] = "idle" /\ last[u] = 0
  BY DEF Init
<1>3. TypeOK
  <2>1. stored \in 0..MaxSamples /\ last \in [Uploaders -> 0..stored]
    BY <1>1, QueueAssumption DEF Init
  <2>2. pc \in [Uploaders -> {"idle", "read", "upload", "gone"}] /\ \A u \in Passes : pc[u] # "gone"
    BY DEF Init, Uploaders
  <2>3. network \in BOOLEAN /\ cancelled \in BOOLEAN /\ online \in BOOLEAN /\ enqueuing \in BOOLEAN
    BY DEF Init
  <2>4. health = "off" /\ stop = "notCalled" /\ late = {}
    BY DEF Init
  <2> QED BY <1>1, <1>2, <2>1, <2>2, <2>3, <2>4 DEF TypeOK
<1>4. pos \in [Uploaders -> Nat] /\ last \in [Uploaders -> Nat]
  BY DEF Init
<1>5. StoppedIsCancelled /\ StopEndsLoops
  BY DEF Init, StoppedIsCancelled, StopEndsLoops
<1> QED BY <1>3, <1>4, <1>5 DEF IndInv

\* The smaller of two numbers, as Batch uses it.
LEMMA MinOfTwo ==
  ASSUME NEW a \in Nat, NEW b \in Nat
  PROVE  Min({a, b}) = IF a <= b THEN a ELSE b
<1> DEFINE m == IF a <= b THEN a ELSE b
<1>1. m \in {a, b} /\ \A y \in {a, b} : m <= y
  OBVIOUS
<1>2. \A x \in {a, b} : (\A y \in {a, b} : x <= y) => x = m
  OBVIOUS
<1> QED BY <1>1, <1>2 DEF Min

\* A batch is a part of what is stored.
LEMMA BatchIsStored ==
  ASSUME IndInv, NEW u \in Uploaders, pc[u] = "upload"
  PROVE  Batch(u) \subseteq 1..stored
<1> DEFINE e == pos[u] + BatchSize - 1
<1>1. pos[u] \in 1..last[u] /\ last[u] \in 0..stored /\ stored \in Nat
  BY QueueAssumption DEF IndInv, TypeOK
<1>2. e \in Nat /\ last[u] \in Nat
  BY <1>1, QueueAssumption
<1>3. Min({e, last[u]}) = IF e <= last[u] THEN e ELSE last[u]
  BY <1>2, MinOfTwo
<1> HIDE DEF e
<1>4. pos[u]..(IF e <= last[u] THEN e ELSE last[u]) \subseteq 1..stored
  BY <1>1, <1>2
<1> QED BY <1>3, <1>4 DEF Batch, e

\* What the passes hold, apart from which samples have arrived.
PassesOK ==
  /\ pc \in [Uploaders -> {"idle", "read", "upload", "gone"}]
  /\ pos \in [Uploaders -> Nat] /\ last \in [Uploaders -> Nat]
  /\ \A u \in Uploaders :
       /\ last[u] \in 0..stored
       /\ pc[u] = "upload" => pos[u] \in 1..last[u]
       /\ u \in late => pc[u] \in {"read", "upload"}
  /\ \A u \in Passes : pc[u] # "gone"
  /\ late \subseteq Uploaders

\* The next batch is again within the snapshot, or the pass is over.
LEMMA AdvanceKeepsPasses ==
  ASSUME IndInv, NEW u \in Uploaders, NEW ok, pc[u] = "upload", Advance(u, ok), stored' = stored
  PROVE  /\ PassesOK'
         /\ \A v \in Uploaders : pc'[v] = "gone" <=> pc[v] = "gone"
<1>1. PassesOK /\ stored \in Nat
  BY QueueAssumption DEF IndInv, TypeOK, PassesOK
<1>2. CASE pos[u] + BatchSize > last[u]
  <2>1. EndPass(u)
    BY <1>2 DEF Advance
  <2> QED BY <1>1, <2>1, QueueAssumption DEF EndPass, PassesOK, Uploaders
<1>3. CASE ~(pos[u] + BatchSize > last[u])
  <2>1. NextBatch(u)
    BY <1>3 DEF Advance
  <2>2. pos[u] \in 1..last[u] /\ last[u] \in Nat /\ pos[u] \in Nat
    BY <1>1 DEF PassesOK
  <2>3. pos[u] + BatchSize \in 1..last[u] /\ pos[u] + BatchSize \in Nat
    BY <1>3, <2>2, QueueAssumption
  <2>4. pos'[u] = pos[u] + BatchSize /\ \A v \in Uploaders \ {u} : pos'[v] = pos[v]
    BY <2>1, <1>1 DEF NextBatch, PassesOK
  <2>5. pos' \in [Uploaders -> Nat] /\ late' = late
    BY <2>1, <2>3, <1>1 DEF NextBatch, PassesOK
  <2> QED BY <1>1, <2>1, <2>3, <2>4, <2>5 DEF NextBatch, PassesOK
<1> QED BY <1>2, <1>3

\* A pass begins: only idle ones do, so never a loop that has ended.
LEMMA BeginKeepsPasses ==
  ASSUME IndInv, NEW u \in Uploaders, Begin(u), UNCHANGED <<pos, last, late, stored>>
  PROVE  /\ PassesOK'
         /\ \A v \in Uploaders : pc'[v] = "gone" <=> pc[v] = "gone"
BY DEF IndInv, TypeOK, Begin, PassesOK, Uploaders

\* The same of a pass of its own, which may be one too many to be modelled.
LEMMA StartKeepsPasses ==
  ASSUME IndInv, StartPass, UNCHANGED <<pos, last, late, stored>>
  PROVE  /\ PassesOK'
         /\ \A v \in Uploaders : pc'[v] = "gone" <=> pc[v] = "gone"
<1>1. CASE \E u \in Passes : Begin(u)
  BY <1>1, BeginKeepsPasses DEF Uploaders
<1>2. CASE UNCHANGED pc
  BY <1>2 DEF IndInv, TypeOK, PassesOK
<1> QED BY <1>1, <1>2 DEF StartPass

\* Connectivity, with the pass it may start.
LEMMA SetOnlineKeepsPasses ==
  ASSUME IndInv, NEW b \in BOOLEAN, SetOnline(b), stored' = stored
  PROVE  /\ online' \in BOOLEAN /\ PassesOK'
         /\ \A v \in Uploaders : pc'[v] = "gone" <=> pc[v] = "gone"
<1>1. CASE b /\ ~online
  BY <1>1, StartKeepsPasses DEF SetOnline
<1>2. CASE ~(b /\ ~online)
  <2>1. UNCHANGED <<pc, pos, last, late>>
    BY <1>2 DEF SetOnline
  <2> QED BY <2>1 DEF SetOnline, IndInv, TypeOK, PassesOK
<1> QED BY <1>1, <1>2

-----------------------------------------------------------------------------
(* Steps that leave Stop and the health checker alone: it is enough that the *)
(* passes stay in order, the samples typed, and no pass comes back.          *)

LEMMA PassStepKeepsIndInv ==
  ASSUME IndInv, PassesOK', UNCHANGED lifeVars,
         \A v \in Uploaders : pc[v] = "gone" => pc'[v] = "gone",
         stored' \in 0..MaxSamples, received' \subseteq 1..stored',
         enqueuing' \in BOOLEAN, online' \in BOOLEAN, network' \in BOOLEAN
  PROVE  IndInv'
<1>1. TypeOK'
  BY DEF IndInv, TypeOK, PassesOK, lifeVars
<1>2. StoppedIsCancelled' /\ StopEndsLoops'
  BY DEF IndInv, TypeOK, StoppedIsCancelled, StopEndsLoops, lifeVars, Uploaders
<1> QED BY <1>1, <1>2 DEF IndInv, PassesOK

LEMMA UploadsKeepIndInv ==
  ASSUME IndInv, NEW u \in Uploaders,
         Read(u) \/ ReadFails(u) \/ UploadNext(u) \/ ContextDone(u)
  PROVE  IndInv'
<1> USE QueueAssumption
<1>1. PassesOK /\ stored \in 0..MaxSamples /\ received \subseteq 1..stored
      /\ enqueuing \in BOOLEAN /\ online \in BOOLEAN /\ network \in BOOLEAN
  BY DEF IndInv, TypeOK, PassesOK
<1>2. CASE Read(u)
  <2>1. PassesOK'
    <3>1. pc' \in [Uploaders -> {"idle", "read", "upload", "gone"}]
          /\ pos' \in [Uploaders -> Nat] /\ last' \in [Uploaders -> Nat]
      BY <1>1, <1>2 DEF Read, PassesOK
    <3>2. \A v \in Uploaders : last'[v] \in 0..stored' /\ (pc'[v] = "upload" => pos'[v] \in 1..last'[v])
      BY <1>1, <1>2 DEF Read, PassesOK
    <3>3. \A v \in Passes : pc'[v] # "gone"
      BY <1>1, <1>2 DEF Read, PassesOK, Uploaders
    <3>4. late' \subseteq Uploaders /\ \A v \in Uploaders : v \in late' => pc'[v] \in {"read", "upload"}
      BY <1>1, <1>2 DEF Read, PassesOK
    <3> QED BY <3>1, <3>2, <3>3, <3>4 DEF PassesOK
  <2>2. \A v \in Uploaders : pc[v] = "gone" => pc'[v] = "gone"
    BY <1>1, <1>2 DEF Read, PassesOK
  <2> QED BY <1>1, <1>2, <2>1, <2>2, PassStepKeepsIndInv DEF Read
<1>3. CASE ReadFails(u)
  <2>1. PassesOK' /\ \A v \in Uploaders : pc[v] = "gone" => pc'[v] = "gone"
    BY <1>1, <1>3 DEF ReadFails, EndPass, PassesOK, Uploaders
  <2> QED BY <1>1, <1>3, <2>1, PassStepKeepsIndInv DEF ReadFails
<1>4. CASE BatchAccepted(u)
  <2>1. received' \subseteq 1..stored'
    BY <1>1, <1>4, BatchIsStored DEF BatchAccepted
  <2> QED BY <1>1, <1>4, <2>1, AdvanceKeepsPasses, PassStepKeepsIndInv DEF BatchAccepted
<1>5. CASE BatchRefused(u)
  BY <1>1, <1>5, AdvanceKeepsPasses, PassStepKeepsIndInv DEF BatchRefused
<1>6. CASE BatchUnreachable(u)
  <2>1. received' \subseteq 1..stored'
    BY <1>1, <1>6, BatchIsStored DEF BatchUnreachable
  <2>2. online' \in BOOLEAN
    BY <1>1, <1>6 DEF BatchUnreachable, NoticeOffline
  <2> QED BY <1>1, <1>6, <2>1, <2>2, AdvanceKeepsPasses, PassStepKeepsIndInv DEF BatchUnreachable
<1>7. CASE BatchLate(u)
  <2>1. online' \in BOOLEAN
    BY <1>1, <1>7 DEF BatchLate, NoticeOffline
  <2> QED BY <1>1, <1>7, <2>1, AdvanceKeepsPasses, PassStepKeepsIndInv DEF BatchLate
<1>8. CASE ContextDone(u)
  <2>1. received' \subseteq 1..stored'
    BY <1>1, <1>8, BatchIsStored DEF ContextDone
  <2>2. PassesOK' /\ pc' = pc
    BY <1>1, <1>8 DEF ContextDone, PassesOK
  <2> QED BY <1>1, <1>8, <2>1, <2>2, PassStepKeepsIndInv DEF ContextDone
<1> QED BY <1>2, <1>3, <1>4, <1>5, <1>6, <1>7, <1>8 DEF UploadNext

\* Storing, triggering, flushing, the retry ticker, the network.
LEMMA CallersKeepIndInv ==
  ASSUME IndInv,
         \/ \E b \in BOOLEAN : ReportConnectivity(b)
         \/ EnqueueStore \/ EnqueueTrigger \/ Flush \/ RetryTick \/ NetworkChanges
  PROVE  IndInv'
<1> USE QueueAssumption
<1>1. PassesOK /\ stored \in 0..MaxSamples /\ received \subseteq 1..stored
      /\ enqueuing \in BOOLEAN /\ online \in BOOLEAN /\ network \in BOOLEAN
  BY DEF IndInv, TypeOK, PassesOK
<1>2. ASSUME NEW b \in BOOLEAN, ReportConnectivity(b) PROVE IndInv'
  BY <1>1, <1>2, SetOnlineKeepsPasses, PassStepKeepsIndInv DEF ReportConnectivity
<1>3. CASE EnqueueStore
  <2>1. PassesOK'
    BY <1>1, <1>3 DEF EnqueueStore, PassesOK, passVars
  <2>2. stored' \in 0..MaxSamples /\ received' \subseteq 1..stored'
    BY <1>1, <1>3 DEF EnqueueStore
  <2> QED BY <1>1, <1>3, <2>1, <2>2, PassStepKeepsIndInv DEF EnqueueStore, passVars
<1>4. CASE EnqueueTrigger
  <2>1. CASE online
    BY <1>1, <1>4, <2>1, StartKeepsPasses, PassStepKeepsIndInv DEF EnqueueTrigger
  <2>2. CASE ~online
    <3>1. PassesOK' /\ pc' = pc
      BY <1>1, <1>4, <2>2 DEF EnqueueTrigger, PassesOK
    <3> QED BY <1>1, <1>4, <3>1, PassStepKeepsIndInv DEF EnqueueTrigger
  <2> QED BY <2>1, <2>2
<1>5. CASE Flush
  BY <1>1, <1>5, BeginKeepsPasses, PassStepKeepsIndInv DEF Flush, Uploaders
<1>6. CASE RetryTick
  BY <1>1, <1>6, BeginKeepsPasses, PassStepKeepsIndInv DEF RetryTick, Uploaders
<1>7. CASE NetworkChanges
  <2>1. PassesOK' /\ network' \in BOOLEAN
    BY <1>1, <1>7 DEF NetworkChanges, PassesOK, passVars
  <2> QED BY <1>1, <1>7, <2>1, PassStepKeepsIndInv DEF NetworkChanges, passVars
<1> QED BY <1>2, <1>3, <1>4, <1>5, <1>6, <1>7

\* The health checker, and Stop with what it waits for.
LEMMA LifeKeepsIndInv ==
  ASSUME IndInv,
         \/ StartHealthChecks \/ HealthTick \/ HealthAnswer \/ HealthEnds
         \/ StopCall \/ LoopEnds \/ StopReturns
  PROVE  IndInv'
<1>1. CASE StartHealthChecks
  BY <1>1 DEF StartHealthChecks, IndInv, TypeOK, StoppedIsCancelled, StopEndsLoops, passVars
<1>2. CASE HealthTick
  BY <1>2 DEF HealthTick, IndInv, TypeOK, StoppedIsCancelled, StopEndsLoops, passVars
<1>3. CASE HealthAnswer
  <2>1. PICK b \in BOOLEAN : SetOnline(b)
    BY <1>3 DEF HealthAnswer
  <2>2. /\ online' \in BOOLEAN /\ PassesOK'
        /\ \A v \in Uploaders : pc'[v] = "gone" <=> pc[v] = "gone"
    BY <1>3, <2>1, SetOnlineKeepsPasses DEF HealthAnswer
  <2>3. TypeOK'
    BY <1>3, <2>2 DEF HealthAnswer, IndInv, TypeOK, PassesOK
  <2> QED BY <1>3, <2>2, <2>3
          DEF HealthAnswer, IndInv, PassesOK, StoppedIsCancelled, StopEndsLoops, Uploaders
<1>4. CASE HealthEnds
  BY <1>4 DEF HealthEnds, IndInv, TypeOK, StoppedIsCancelled, StopEndsLoops, passVars
<1>5. CASE StopCall
  BY <1>5 DEF StopCall, IndInv, TypeOK, StoppedIsCancelled, StopEndsLoops, passVars
<1>6. CASE LoopEnds
  BY <1>6, QueueAssumption
     DEF LoopEnds, IndInv, TypeOK, StoppedIsCancelled, StopEndsLoops, lifeVars, Uploaders
<1>7. CASE StopReturns
  BY <1>7 DEF StopReturns, IndInv, TypeOK, StoppedIsCancelled, StopEndsLoops, passVars
<1> QED BY <1>1, <1>2, <1>3, <1>4, <1>5, <1>6, <1>7

LEMMA StepKeepsIndInv == IndInv /\ [Next]_vars => IndInv'
<1> SUFFICES ASSUME IndInv, [Next]_vars PROVE IndInv'
  OBVIOUS
<1>1. CASE UNCHANGED vars
  BY <1>1 DEF IndInv, TypeOK, StoppedIsCancelled, StopEndsLoops, vars, passVars, lifeVars
<1>2. CASE Next
  BY <1>2, UploadsKeepIndInv, CallersKeepIndInv, LifeKeepsIndInv DEF Next
<1> QED BY <1>1, <1>2

LEMMA IndInvHolds == Spec => []IndInv
<1> QED BY InitIndInv, StepKeepsIndInv, PTL DEF Spec

-----------------------------------------------------------------------------

\* The types of the queue: what has been received was stored, and every batch
\* of a pass lies within its snapshot.
THEOREM TypeCorrect == Spec => []TypeOK
<1>1. IndInv => TypeOK
  BY DEF IndInv
<1> QED BY <1>1, IndInvHolds, PTL

\* When Stop has returned, the retry loop and the health checker have ended and
\* neither starts again, whatever callers and passes are still under way.
THEOREM StopEndsItsLoops == Spec => []StopEndsLoops
<1>1. IndInv => StopEndsLoops
  BY DEF IndInv
<1> QED BY <1>1, IndInvHolds, PTL

-----------------------------------------------------------------------------
(* What a pass does with the samples of its snapshot *)

\* Every step, as a pass sees it that is uploading.
LEMMA UploaderSteps ==
  ASSUME IndInv, [Next]_vars, NEW u \in Uploaders, pc[u] = "upload"
  PROVE  UploadNext(u) \/ (pc'[u] = pc[u] /\ pos'[u] = pos[u] /\ last'[u] = last[u])
<1> DEFINE Same == pc'[u] = pc[u] /\ pos'[u] = pos[u] /\ last'[u] = last[u]
<1>0. /\ pc \in [Uploaders -> {"idle", "read", "upload", "gone"}]
      /\ pos \in [Uploaders -> Nat] /\ last \in [Uploaders -> Nat]
  BY DEF IndInv, TypeOK
<1>1. ASSUME NEW v \in Uploaders, Read(v) \/ ReadFails(v) \/ ContextDone(v) PROVE Same
  BY <1>0, <1>1 DEF Read, ReadFails, EndPass, ContextDone
<1>2. ASSUME NEW v \in Uploaders, v # u, UploadNext(v) PROVE Same
  <2>1. \E ok \in BOOLEAN : Advance(v, ok)
    BY <1>2 DEF UploadNext, BatchAccepted, BatchRefused, BatchUnreachable, BatchLate
  <2> QED BY <1>0, <1>2, <2>1 DEF Advance, EndPass, NextBatch
<1>3. ASSUME \/ \E v \in Uploaders : Begin(v)
             \/ StartPass,
             UNCHANGED <<pos, last>>
      PROVE  Same
  BY <1>0, <1>3 DEF StartPass, Begin, Uploaders
<1>4. ASSUME NEW b \in BOOLEAN, SetOnline(b) PROVE Same
  BY <1>3, <1>4 DEF SetOnline
<1>5. CASE (\E b \in BOOLEAN : ReportConnectivity(b)) \/ HealthAnswer
  BY <1>4, <1>5 DEF ReportConnectivity, HealthAnswer
<1>6. CASE EnqueueStore \/ EnqueueTrigger \/ Flush \/ RetryTick
  BY <1>3, <1>6 DEF EnqueueStore, EnqueueTrigger, Flush, RetryTick, passVars, Uploaders
<1>7. CASE \/ StartHealthChecks \/ HealthTick \/ HealthEnds \/ StopCall \/ StopReturns
           \/ NetworkChanges \/ UNCHANGED vars
  BY <1>7 DEF StartHealthChecks, HealthTick, HealthEnds, StopCall, StopReturns, NetworkChanges,
     vars, passVars
<1>8. CASE LoopEnds
  BY <1>0, <1>8 DEF LoopEnds, Uploaders
<1> QED BY <1>1, <1>2, <1>5, <1>6, <1>7, <1>8 DEF Next

\* Where a batch ends.
End(u) == IF pos[u] + BatchSize > last[u] THEN last[u] ELSE pos[u] + BatchSize - 1

LEMMA BatchEnds ==
  ASSUME IndInv, NEW u \in Uploaders, pc[u] = "upload"
  PROVE  Batch(u) = pos[u]..End(u) /\ End(u) \in pos[u]..last[u]
<1> DEFINE e == pos[u] + BatchSize - 1
<1>1. pos[u] \in 1..last[u] /\ last[u] \in Nat /\ pos[u] \in Nat /\ BatchSize \in Nat \ {0}
  BY QueueAssumption DEF IndInv, TypeOK
<1>2. e \in Nat
  BY <1>1
<1>3. Min({e, last[u]}) = IF e <= last[u] THEN e ELSE last[u]
  BY <1>1, <1>2, MinOfTwo
<1>4. End(u) = IF e <= last[u] THEN e ELSE last[u]
  BY <1>1 DEF End
<1>5. End(u) \in pos[u]..last[u]
  BY <1>1 DEF End
<1> QED BY <1>3, <1>4, <1>5 DEF Batch

\* Batches begin where the numbering of BatchOf begins a new one.
Aligned(u) == pc[u] = "upload" => \E k \in Nat : pos[u] = k * BatchSize + 1
AllAligned == \A u \in Uploaders : Aligned(u)

LEMMA AdvanceMoves ==
  ASSUME IndInv, NEW u \in Uploaders, NEW ok, pc[u] = "upload", Advance(u, ok)
  PROVE  \/ pc'[u] = "idle" /\ End(u) = last[u]
         \/ pc'[u] = "upload" /\ pos'[u] = pos[u] + BatchSize /\ pos'[u] = End(u) + 1
            /\ last'[u] = last[u]
<1>1. /\ pc \in [Uploaders -> {"idle", "read", "upload", "gone"}]
      /\ pos \in [Uploaders -> Nat] /\ pos[u] \in Nat /\ BatchSize \in Nat \ {0}
  BY QueueAssumption DEF IndInv, TypeOK
<1>2. CASE pos[u] + BatchSize > last[u]
  BY <1>1, <1>2 DEF Advance, EndPass, End
<1>3. CASE ~(pos[u] + BatchSize > last[u])
  <2>1. pos'[u] = pos[u] + BatchSize /\ UNCHANGED <<pc, last>>
    BY <1>1, <1>3 DEF Advance, NextBatch
  <2>2. End(u) = pos[u] + BatchSize - 1
    BY <1>3 DEF End
  <2> QED BY <1>1, <2>1, <2>2
<1> QED BY <1>2, <1>3

LEMMA UploadAdvances ==
  ASSUME NEW u \in Uploaders, UploadNext(u)
  PROVE  pc[u] = "upload" /\ \E ok \in BOOLEAN : Advance(u, ok)
BY DEF UploadNext, BatchAccepted, BatchRefused, BatchUnreachable, BatchLate

\* A pass gets to its first batch by reading.
LEMMA FirstBatch ==
  ASSUME IndInv, [Next]_vars, NEW u \in Uploaders, pc[u] # "upload", pc'[u] = "upload"
  PROVE  pos'[u] = 1
<1>0. /\ pc \in [Uploaders -> {"idle", "read", "upload", "gone"}] /\ pos \in [Uploaders -> Nat]
  BY DEF IndInv, TypeOK
<1>1. ASSUME NEW v \in Uploaders, Read(v) \/ ReadFails(v) \/ ContextDone(v) PROVE pos'[u] = 1
  BY <1>0, <1>1 DEF Read, ReadFails, EndPass, ContextDone
<1>2. ASSUME NEW v \in Uploaders, UploadNext(v) PROVE FALSE
  <2>1. pc[v] = "upload" /\ \E ok \in BOOLEAN : Advance(v, ok)
    BY <1>2, UploadAdvances
  <2> QED BY <1>0, <2>1 DEF Advance, EndPass, NextBatch
<1>3. ASSUME (\E v \in Uploaders : Begin(v)) \/ StartPass PROVE FALSE
  BY <1>0, <1>3 DEF StartPass, Begin, Uploaders
<1>4. ASSUME NEW b \in BOOLEAN, SetOnline(b) PROVE FALSE
  BY <1>3, <1>4 DEF SetOnline
<1>5. CASE (\E b \in BOOLEAN : ReportConnectivity(b)) \/ HealthAnswer
  BY <1>4, <1>5 DEF ReportConnectivity, HealthAnswer
<1>6. CASE EnqueueStore \/ EnqueueTrigger \/ Flush \/ RetryTick
  BY <1>3, <1>6 DEF EnqueueStore, EnqueueTrigger, Flush, RetryTick, passVars, Uploaders
<1>7. CASE \/ StartHealthChecks \/ HealthTick \/ HealthEnds \/ StopCall \/ StopReturns
           \/ NetworkChanges \/ UNCHANGED vars
  BY <1>7 DEF StartHealthChecks, HealthTick, HealthEnds, StopCall, StopReturns, NetworkChanges,
     vars, passVars
<1>8. CASE LoopEnds
  BY <1>0, <1>8 DEF LoopEnds, Uploaders
<1> QED BY <1>1, <1>2, <1>5, <1>6, <1>7, <1>8 DEF Next

LEMMA AlignedKept == ASSUME IndInv, AllAligned, [Next]_vars PROVE AllAligned'
<1> SUFFICES ASSUME NEW u \in Uploaders, pc'[u] = "upload"
             PROVE  \E k \in Nat : pos'[u] = k * BatchSize + 1
  BY DEF AllAligned, Aligned
<1>0. BatchSize \in Nat \ {0}
  BY QueueAssumption
<1>1. CASE pc[u] # "upload"
  <2>1. pos'[u] = 0 * BatchSize + 1
    BY <1>0, <1>1, FirstBatch
  <2> QED BY <2>1
<1>2. CASE pc[u] = "upload"
  <2>1. PICK k \in Nat : pos[u] = k * BatchSize + 1
    BY <1>2 DEF AllAligned, Aligned
  <2>2. CASE pos'[u] = pos[u]
    BY <2>1, <2>2
  <2>3. CASE pos'[u] = pos[u] + BatchSize
    <3>1. pos'[u] = (k + 1) * BatchSize + 1
      BY <1>0, <2>1, <2>3
    <3> QED BY <3>1
  <2>4. pos'[u] = pos[u] \/ pos'[u] = pos[u] + BatchSize
    BY <1>2, UploaderSteps, UploadAdvances, AdvanceMoves
  <2> QED BY <2>2, <2>3, <2>4
<1> QED BY <1>1, <1>2

\* The batches of a pass are those of BatchOf: they do not depend on the pass.
LEMMA BatchIsBatchOf ==
  ASSUME IndInv, AllAligned, NEW u \in Uploaders, pc[u] = "upload", NEW s \in Batch(u)
  PROVE  Batch(u) \subseteq BatchOf(s)
<1>1. PICK k \in Nat : pos[u] = k * BatchSize + 1
  BY DEF AllAligned, Aligned
<1>2. BatchSize \in Nat \ {0} /\ MaxSamples \in Nat /\ pos[u] \in Nat /\ last[u] \in 0..MaxSamples
  BY QueueAssumption DEF IndInv, TypeOK
<1>3. Batch(u) = pos[u]..End(u) /\ End(u) \in pos[u]..last[u]
  BY BatchEnds
<1>4. End(u) <= pos[u] + BatchSize - 1
  BY <1>2, <1>3 DEF End
<1>5. ASSUME NEW t \in Batch(u) PROVE (t - 1) \div BatchSize = k /\ t \in 1..MaxSamples
  <2>1. t \in Nat /\ t >= pos[u] /\ t <= End(u)
    BY <1>2, <1>3, <1>5
  <2>2. k * BatchSize \in Nat /\ k * BatchSize <= t - 1 /\ t - 1 <= k * BatchSize + (BatchSize - 1)
    BY <1>1, <1>2, <1>3, <1>4, <2>1
  <2>3. PICK r \in 0..(BatchSize - 1) : t - 1 = k * BatchSize + r
    <3> DEFINE r == t - 1 - k * BatchSize
    <3>1. r \in 0..(BatchSize - 1) /\ t - 1 = k * BatchSize + r
      BY <1>2, <2>1, <2>2
    <3> QED BY <3>1
  <2>4. (k * BatchSize + r) \div BatchSize = k
    BY <1>2
  <2> QED BY <1>2, <1>3, <2>1, <2>3, <2>4
<1> QED BY <1>5 DEF BatchOf

\* Zero data loss, as far as steps go: offline, overlapping, failing or refused uploads
\* make no pass miss a sample, nor lose good samples with a refused batch (queue.go,
\* the loop of uploadPendingMetrics). What a pass puts behind it without uploading it,
\* it could not reach, had no time for (one context of 30 seconds serves all its
\* batches), or the server refuses. That a later pass has the luck this one lacked is
\* no part of the theorem: GoodSamplesArrive says under which provisos it has.
THEOREM PassesSkipNothing == Spec => NoneSkipped
<1> DEFINE Goes(u) ==
      /\ pc'[u] \in {"upload", "idle"}
      /\ pc'[u] = "upload" => last'[u] = last[u] /\ pos'[u] >= pos[u]
      /\ network /\ u \notin late =>
           \A s \in Settled(u) : s \in received' \/ BatchOf(s) \cap Poison # {}
<1>1. Init => AllAligned
  BY DEF Init, AllAligned, Aligned
<1>2. IndInv /\ AllAligned /\ [Next]_vars => AllAligned'
  BY AlignedKept
<1>3. ASSUME IndInv, AllAligned, [Next]_vars, NEW u \in Uploaders, pc[u] = "upload" PROVE Goes(u)
  <2>0. pos[u] \in Nat /\ last[u] \in Nat /\ pos[u] \in 1..last[u] /\ BatchSize \in Nat \ {0}
    BY <1>3, QueueAssumption DEF IndInv, TypeOK
  <2>1. CASE pc'[u] = pc[u] /\ pos'[u] = pos[u] /\ last'[u] = last[u]
    <3>1. Settled(u) = {}
      BY <1>3, <2>0, <2>1 DEF Settled
    <3> QED BY <1>3, <2>0, <2>1, <3>1
  <2>2. CASE UploadNext(u)
    <3>1. \/ pc'[u] = "idle" /\ End(u) = last[u]
          \/ pc'[u] = "upload" /\ pos'[u] = pos[u] + BatchSize /\ pos'[u] = End(u) + 1
             /\ last'[u] = last[u]
      BY <1>3, <2>2, UploadAdvances, AdvanceMoves
    <3>2. Batch(u) = pos[u]..End(u) /\ End(u) \in pos[u]..last[u]
      BY <1>3, BatchEnds
    <3>3. Settled(u) = Batch(u)
      BY <2>0, <3>1, <3>2 DEF Settled
    <3>4. network /\ u \notin late => Batch(u) \subseteq received' \/ Batch(u) \cap Poison # {}
      BY <2>2 DEF UploadNext, BatchAccepted, BatchRefused, BatchUnreachable, BatchLate
    <3>5. ASSUME network, u \notin late, NEW s \in Batch(u) PROVE s \in received' \/ BatchOf(s) \cap Poison # {}
      BY <1>3, <3>4, <3>5, BatchIsBatchOf
    <3> QED BY <2>0, <3>1, <3>3, <3>5
  <2> QED BY <1>3, <2>1, <2>2, UploaderSteps
<1>4. IndInv /\ AllAligned /\ [Next]_vars => [\A u \in Uploaders : pc[u] = "upload" => Goes(u)]_vars
  BY <1>3
<1> QED BY <1>1, <1>2, <1>4, IndInvHolds, PTL DEF Spec, NoneSkipped

\* The queue goes offline only when the application says so: no failed upload, and no
\* failed health check, does it.
OnlyToldOffline == [][(online /\ ~online') => ReportConnectivity(FALSE)]_vars

\* Neither uploadMetricsBatch nor HealthCheck recognises a network error, since
\* client.go has wrapped it on the way: of all that happens in queue.go only
\* SetOnline(false), called from outside, clears isOnline. OfflineDetected, what the
\* comment there promises, fails for this reason at every size.
THEOREM OfflineOnlyByReport == Spec => OnlyToldOffline
<1>1. ASSUME Next, online, ~online' PROVE ReportConnectivity(FALSE)
  <2>1. ASSUME NEW u \in Uploaders, Read(u) \/ ReadFails(u) \/ UploadNext(u) \/ ContextDone(u)
        PROVE  FALSE
    BY <1>1, <2>1 DEF Read, ReadFails, ContextDone, UploadNext, BatchAccepted, BatchRefused,
       BatchUnreachable, BatchLate, NoticeOffline, NetworkErrors, IsRequestError
  <2>2. CASE \E b \in BOOLEAN : ReportConnectivity(b)
    BY <1>1, <2>2 DEF ReportConnectivity, SetOnline
  <2>3. ASSUME HealthAnswer PROVE FALSE
    BY <1>1, <2>3 DEF HealthAnswer, SetOnline, NetworkErrors, IsRequestError
  <2>4. ASSUME \/ EnqueueStore \/ EnqueueTrigger \/ Flush \/ RetryTick \/ StartHealthChecks
               \/ HealthTick \/ HealthEnds \/ StopCall \/ LoopEnds \/ StopReturns \/ NetworkChanges
        PROVE  FALSE
    BY <1>1, <2>4 DEF EnqueueStore, EnqueueTrigger, Flush, RetryTick, StartHealthChecks,
       HealthTick, HealthEnds, StopCall, LoopEnds, StopReturns, NetworkChanges
  <2> QED BY <1>1, <2>1, <2>2, <2>3, <2>4 DEF Next
<1>2. [Next]_vars => [(online /\ ~online') => ReportConnectivity(FALSE)]_vars
  BY <1>1
<1> QED BY <1>2, PTL DEF Spec, OnlyToldOffline
=============================================================================
