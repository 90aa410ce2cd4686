-------------------------- MODULE CommandHandlerProofs --------------------------
(***************************************************************************)
(* Theorems about CommandHandler for every set of commands and tasks, every*)
(* pool size and, where they do not say otherwise, both caches.            *)
(*                                                                         *)
(* Counting relates the two counters to the goroutines they count; it is   *)
(* what makes the type invariant inductive (a counter never goes below     *)
(* zero). Quiet is the inductive form of StopMeansQuiet. SingleOwner is    *)
(* the one of the execute-once properties and of the refinement: each      *)
(* pending row is claimed by at most one of the HandleCommand in progress, *)
(* the recovery loop and the goroutines.                                   *)
(***************************************************************************)
EXTENDS CommandHandler, FiniteSetTheorems, TLAPS

LiveStates == PcStates \ {"idle"}

\* The tasks of f whose statement is in P.
In(P, f) == {t \in Tasks : f[t] \in P}

\* How the number of tasks in a set of statements follows one task's move.
LEMMA CountMoves ==
  ASSUME NEW P, NEW f, f \in [Tasks -> PcStates], NEW t \in Tasks, NEW s \in PcStates
  PROVE  LET g == [f EXCEPT ![t] = s]
         IN /\ Cardinality(In(P, f)) \in Nat
            /\ (f[t] \in P <=> s \in P) => Cardinality(In(P, g)) = Cardinality(In(P, f))
            /\ f[t] \notin P /\ s \in P => Cardinality(In(P, g)) = Cardinality(In(P, f)) + 1
            /\ f[t] \in P /\ s \notin P =>
                 /\ Cardinality(In(P, g)) = Cardinality(In(P, f)) - 1
                 /\ Cardinality(In(P, g)) \in Nat
<1> DEFINE g == [f EXCEPT ![t] = s]
<1>1. IsFiniteSet(In(P, f)) /\ IsFiniteSet(In(P, g))
  BY FS_Subset, HandlerAssumption DEF In
<1>2. Cardinality(In(P, f)) \in Nat /\ Cardinality(In(P, g)) \in Nat
  BY <1>1, FS_CardinalityType
<1>3. (f[t] \in P <=> s \in P) => In(P, g) = In(P, f)
  BY DEF In
<1>4. ASSUME f[t] \notin P, s \in P
      PROVE  Cardinality(In(P, g)) = Cardinality(In(P, f)) + 1
  <2>1. In(P, g) = In(P, f) \cup {t} /\ t \notin In(P, f)
    BY <1>4 DEF In
  <2> QED BY <2>1, <1>1, FS_AddElement
<1>5. ASSUME f[t] \in P, s \notin P
      PROVE  Cardinality(In(P, g)) = Cardinality(In(P, f)) - 1
  <2>1. In(P, g) = In(P, f) \ {t} /\ t \in In(P, f)
    BY <1>5 DEF In
  <2> QED BY <2>1, <1>1, FS_RemoveElement
<1> QED BY <1>2, <1>3, <1>4, <1>5

\* No task is in P exactly when their number is zero.
LEMMA CountZero ==
  ASSUME NEW P, NEW f
  PROVE  Cardinality(In(P, f)) = 0 <=> \A t \in Tasks : f[t] \notin P
<1>1. IsFiniteSet(In(P, f))
  BY FS_Subset, HandlerAssumption DEF In
<1>2. Cardinality(In(P, f)) = 0 <=> In(P, f) = {}
  BY <1>1, FS_EmptySet
<1> QED BY <1>2 DEF In

-----------------------------------------------------------------------------
Counting == /\ slots = Cardinality(In(Holding, pc))
            /\ wg = Cardinality(In(LiveStates, pc))
            /\ slots <= MaxConcurrent

Quiet == /\ stop = "returnedNil" => drained
         /\ drained => \A t \in Tasks : Live(t) => late[t]

IndInv == TypeOK /\ Counting /\ Quiet

\* How a move of task t to statement s changes the two counts.
LEMMA MoveCounts ==
  ASSUME pc \in [Tasks -> PcStates], NEW t \in Tasks, NEW s \in PcStates,
         pc' = [pc EXCEPT ![t] = s]
  PROVE  /\ (pc[t] \in Holding <=> s \in Holding) =>
              Cardinality(In(Holding, pc')) = Cardinality(In(Holding, pc))
         /\ pc[t] \notin Holding /\ s \in Holding =>
              Cardinality(In(Holding, pc')) = Cardinality(In(Holding, pc)) + 1
         /\ pc[t] \in Holding /\ s \notin Holding =>
              /\ Cardinality(In(Holding, pc')) = Cardinality(In(Holding, pc)) - 1
              /\ Cardinality(In(Holding, pc')) \in Nat
         /\ (pc[t] \in LiveStates <=> s \in LiveStates) =>
              Cardinality(In(LiveStates, pc')) = Cardinality(In(LiveStates, pc))
         /\ pc[t] \notin LiveStates /\ s \in LiveStates =>
              Cardinality(In(LiveStates, pc')) = Cardinality(In(LiveStates, pc)) + 1
         /\ pc[t] \in LiveStates /\ s \notin LiveStates =>
              /\ Cardinality(In(LiveStates, pc')) = Cardinality(In(LiveStates, pc)) - 1
              /\ Cardinality(In(LiveStates, pc')) \in Nat
BY CountMoves

LEMMA InitIndInv == Init => IndInv
<1> SUFFICES ASSUME Init PROVE IndInv
  OBVIOUS
<1>1. TypeOK
  BY HandlerAssumption DEF Init, TypeOK, PcStates, StopStates, Live
<1>2. Cardinality(In(Holding, pc)) = 0
  BY CountZero DEF Init, Holding
<1>3. Cardinality(In(LiveStates, pc)) = 0
  BY CountZero DEF Init, LiveStates
<1>4. Counting
  BY <1>2, <1>3, HandlerAssumption DEF Init, Counting
<1>5. Quiet
  BY DEF Init, Quiet, Live
<1> QED BY <1>1, <1>4, <1>5 DEF IndInv

\* Steps that move no goroutine.
LEMMA CallersKeepIndInv ==
  ASSUME IndInv, UNCHANGED taskVars,
         \/ \E ty \in Types : RegisterExecutor(ty)
         \/ \E c \in Commands : HandleStore(c) \/ PollStore(c) \/ ResumeSkip(c) \/ Cleanup(c)
         \/ ResumeRead
         \/ StopNext
  PROVE  IndInv'
<1> USE DEF taskVars, IndInv
<1>1. Counting'
  BY DEF Counting, In
<1>2. CASE \E ty \in Types : RegisterExecutor(ty)
  BY <1>1, <1>2 DEF RegisterExecutor, TypeOK, Live, Quiet, storeVars, callerVars, stopVars
<1>3. CASE \E c \in Commands : HandleStore(c) \/ PollStore(c) \/ ResumeSkip(c) \/ Cleanup(c)
  <2>1. UNCHANGED <<executors, stopVars>>
    BY <1>3 DEF HandleStore, PollStore, ResumeSkip, Cleanup
  <2>2. Quiet'
    BY <2>1 DEF Quiet, Live, stopVars
  <2>3. row' \in [Commands -> {"absent", "pending", "complete"}]
    BY <1>3 DEF HandleStore, PollStore, StoreCommand, ResumeSkip, Cleanup, TypeOK, storeVars
  <2>4. /\ attempted' \subseteq Commands /\ delivered' \subseteq Commands
        /\ started' \subseteq Commands
    BY <1>3 DEF HandleStore, PollStore, StoreCommand, ResumeSkip, Cleanup, TypeOK, storeVars
  <2>5. handing' \subseteq Commands /\ resume' \subseteq Commands /\ fresh' \in BOOLEAN
    BY <1>3 DEF HandleStore, PollStore, ResumeSkip, Cleanup, TypeOK, callerVars
  <2> QED BY <1>1, <2>1, <2>2, <2>3, <2>4, <2>5 DEF TypeOK, Live, stopVars
<1>4. CASE ResumeRead
  BY <1>1, <1>4 DEF ResumeRead, TypeOK, Live, Quiet, storeVars, stopVars
<1>5. CASE StopCall \/ StopReturns
  <2>1. stop' \in StopStates /\ cancelled' \in BOOLEAN /\ drained' = drained
    BY <1>5 DEF StopCall, StopReturns, TypeOK, StopStates
  <2>2. UNCHANGED <<storeVars, callerVars, executors>>
    BY <1>5 DEF StopCall, StopReturns
  <2>3. stop' = "returnedNil" => drained
    BY <1>5 DEF StopCall, StopReturns
  <2> QED BY <1>1, <2>1, <2>2, <2>3 DEF TypeOK, Live, Quiet, storeVars, callerVars
<1>6. CASE WaitReturns
  <2>0. \A t \in Tasks : pc[t] \notin LiveStates
    BY <1>6, CountZero DEF WaitReturns, Counting
  <2>1. \A t \in Tasks : ~Live(t)
    BY <2>0 DEF LiveStates, TypeOK, Live
  <2> QED BY <1>1, <1>6, <2>1 DEF WaitReturns, TypeOK, Live, Quiet, storeVars, callerVars
<1> QED BY <1>2, <1>3, <1>4, <1>5, <1>6 DEF StopNext

LEMMA SpawnKeepsIndInv ==
  ASSUME IndInv, NEW t \in Tasks, NEW c \in Commands, HandleSpawn(t, c) \/ ResumeSpawn(t, c)
  PROVE  IndInv'
<1> USE DEF IndInv
<1>1. PICK b \in BOOLEAN : Spawn(t, c, b)
  <2>1. (c \in Timed) \in BOOLEAN
    OBVIOUS
  <2>2. CASE HandleSpawn(t, c)
    BY <2>1, <2>2 DEF HandleSpawn
  <2>3. CASE ResumeSpawn(t, c)
    BY <2>3 DEF ResumeSpawn
  <2> QED BY <2>2, <2>3
<1>2. Counting'
  <2>0. /\ pc[t] = "idle" /\ pc' = [pc EXCEPT ![t] = "waiting"]
        /\ "waiting" \in PcStates /\ "waiting" \notin Holding /\ "idle" \notin Holding
        /\ "waiting" \in LiveStates /\ "idle" \notin LiveStates
    BY <1>1 DEF Spawn, PcStates, LiveStates, Holding
  <2>1. /\ Cardinality(In(Holding, pc')) = Cardinality(In(Holding, pc))
        /\ Cardinality(In(LiveStates, pc')) = Cardinality(In(LiveStates, pc)) + 1
    BY <2>0, MoveCounts DEF TypeOK
  <2> QED BY <1>1, <2>1 DEF Counting, Spawn
<1>3. TypeOK'
  BY <1>1 DEF Spawn, HandleSpawn, ResumeSpawn, TypeOK, PcStates, Live, storeVars, stopVars
<1>4. Quiet'
  BY <1>1 DEF Spawn, HandleSpawn, ResumeSpawn, TypeOK, Quiet, Live, stopVars
<1> QED BY <1>2, <1>3, <1>4

LEMMA TaskKeepsIndInv ==
  ASSUME IndInv, NEW t \in Tasks, TaskNext(t)
  PROVE  IndInv'
<1> USE DEF IndInv
<1>1. UNCHANGED stopVars
  BY DEF TaskNext, Acquire, CancelWaiting, Execute, Submit, Mark, Release, Finish
<1>2. CASE Acquire(t)
  <2>1. PICK s \in {"running", "submitting"} : pc' = [pc EXCEPT ![t] = s]
    BY <1>2 DEF Acquire, Goto
  <2>0. /\ pc[t] = "waiting" /\ "waiting" \notin Holding /\ "waiting" \in LiveStates
        /\ s \in PcStates /\ s \in Holding /\ s \in LiveStates
    BY <1>2 DEF Acquire, PcStates, Holding, LiveStates
  <2>2. /\ Cardinality(In(Holding, pc')) = Cardinality(In(Holding, pc)) + 1
        /\ Cardinality(In(LiveStates, pc')) = Cardinality(In(LiveStates, pc))
    BY <2>0, <2>1, MoveCounts DEF TypeOK
  <2>3. Counting'
    BY <1>2, <2>2, HandlerAssumption DEF Acquire, Counting, TypeOK
  <2> QED BY <1>1, <1>2, <2>1, <2>3
          DEF Acquire, TypeOK, Quiet, Live, PcStates, callerVars, stopVars
<1>3. CASE CancelWaiting(t) \/ Execute(t) \/ Submit(t) \/ Mark(t)
  <2>1. PICK s \in {"finishing", "submitting", "marking", "releasing"} :
          /\ pc' = [pc EXCEPT ![t] = s]
          /\ pc[t] \in Holding <=> s \in Holding
          /\ pc[t] \in LiveStates /\ s \in LiveStates /\ s \in PcStates /\ Live(t)
    BY <1>3 DEF CancelWaiting, Execute, Submit, Mark, Goto, Holding, LiveStates, PcStates, Live
  <2>2. UNCHANGED <<cmd, timed, late, slots, wg>>
    BY <1>3 DEF CancelWaiting, Execute, Submit, Mark
  <2>3. /\ Cardinality(In(Holding, pc')) = Cardinality(In(Holding, pc))
        /\ Cardinality(In(LiveStates, pc')) = Cardinality(In(LiveStates, pc))
    BY <2>1, MoveCounts DEF TypeOK
  <2>4. Counting'
    BY <2>2, <2>3 DEF Counting
  <2>5. UNCHANGED <<callerVars, executors>>
        /\ row' \in [Commands -> {"absent", "pending", "complete"}]
        /\ attempted' \subseteq Commands /\ delivered' \subseteq Commands
        /\ started' \subseteq Commands
    BY <1>3 DEF CancelWaiting, Execute, Submit, Mark, TypeOK, Live, storeVars
  <2> QED BY <1>1, <2>1, <2>2, <2>4, <2>5
          DEF TypeOK, Quiet, Live, PcStates, callerVars, stopVars
<1>4. CASE Release(t)
  <2>0. /\ pc[t] \in Holding /\ pc' = [pc EXCEPT ![t] = "finishing"]
        /\ "finishing" \in PcStates /\ "finishing" \notin Holding
        /\ pc[t] \in LiveStates /\ "finishing" \in LiveStates
    BY <1>4 DEF Release, Goto, PcStates, Holding, LiveStates
  <2>1. /\ Cardinality(In(Holding, pc')) = Cardinality(In(Holding, pc)) - 1
        /\ Cardinality(In(Holding, pc')) \in Nat
        /\ Cardinality(In(LiveStates, pc')) = Cardinality(In(LiveStates, pc))
    BY <2>0, MoveCounts DEF TypeOK
  <2>2. Counting' /\ slots' \in Nat
    BY <1>4, <2>1, HandlerAssumption DEF Release, Counting, TypeOK
  <2> QED BY <1>1, <1>4, <2>2
          DEF Release, Goto, TypeOK, Quiet, Live, PcStates, storeVars, callerVars, stopVars
<1>5. CASE Finish(t)
  <2>0. /\ pc[t] \notin Holding /\ pc' = [pc EXCEPT ![t] = "idle"]
        /\ "idle" \in PcStates /\ "idle" \notin Holding
        /\ pc[t] \in LiveStates /\ "idle" \notin LiveStates
    BY <1>5 DEF Finish, Goto, PcStates, Holding, LiveStates
  <2>1. /\ Cardinality(In(LiveStates, pc')) = Cardinality(In(LiveStates, pc)) - 1
        /\ Cardinality(In(LiveStates, pc')) \in Nat
        /\ Cardinality(In(Holding, pc')) = Cardinality(In(Holding, pc))
    BY <2>0, MoveCounts DEF TypeOK
  <2>2. Counting' /\ wg' \in Nat
    BY <1>5, <2>1, HandlerAssumption DEF Finish, Counting, TypeOK
  <2> QED BY <1>1, <1>5, <2>2
          DEF Finish, Goto, TypeOK, Quiet, Live, PcStates, storeVars, callerVars, stopVars
<1> QED BY <1>2, <1>3, <1>4, <1>5 DEF TaskNext

LEMMA RestartKeepsIndInv ==
  ASSUME IndInv, Restart
  PROVE  IndInv'
<1>1. TypeOK'
  BY HandlerAssumption DEF IndInv, Restart, TypeOK, PcStates, StopStates, Live
<1>2. Cardinality(In(Holding, pc')) = 0
  BY CountZero DEF Restart, Holding
<1>3. Cardinality(In(LiveStates, pc')) = 0
  BY CountZero DEF Restart, LiveStates
<1>4. Counting'
  BY <1>2, <1>3, HandlerAssumption DEF Restart, Counting
<1>5. Quiet'
  BY DEF Restart, Quiet, Live
<1> QED BY <1>1, <1>4, <1>5 DEF IndInv

LEMMA NextKeepsIndInv == IndInv /\ [Next]_vars => IndInv'
<1> SUFFICES ASSUME IndInv, [Next]_vars PROVE IndInv'
  OBVIOUS
<1>1. CASE CallerNext
  <2>1. CASE \E t \in Tasks, c \in Commands : HandleSpawn(t, c) \/ ResumeSpawn(t, c)
    BY <2>1, SpawnKeepsIndInv
  <2>2. CASE ~ \E t \in Tasks, c \in Commands : HandleSpawn(t, c) \/ ResumeSpawn(t, c)
    <3>1. UNCHANGED taskVars
      BY <1>1, <2>2 DEF CallerNext, RegisterExecutor, HandleStore, PollStore, ResumeSkip, ResumeRead
    <3> QED BY <1>1, <2>2, <3>1, CallersKeepIndInv DEF CallerNext
  <2> QED BY <2>1, <2>2
<1>2. CASE \E t \in Tasks : TaskNext(t)
  BY <1>2, TaskKeepsIndInv
<1>3. CASE StopNext
  <2>1. UNCHANGED taskVars
    BY <1>3 DEF StopNext, StopCall, WaitReturns, StopReturns
  <2> QED BY <1>3, <2>1, CallersKeepIndInv
<1>4. CASE \E c \in Commands : Cleanup(c)
  <2>1. UNCHANGED taskVars
    BY <1>4 DEF Cleanup
  <2> QED BY <1>4, <2>1, CallersKeepIndInv
<1>5. CASE Restart
  BY <1>5, RestartKeepsIndInv
<1>6. CASE UNCHANGED vars
  BY <1>6 DEF vars, storeVars, callerVars, taskVars, stopVars, IndInv, TypeOK, Counting, Quiet,
     Live, In
<1> QED BY <1>1, <1>2, <1>3, <1>4, <1>5, <1>6 DEF Next

LEMMA IndInvHolds == Spec => []IndInv
<1>1. Init => IndInv
  BY InitIndInv
<1>2. IndInv /\ [Next]_vars => IndInv'
  BY NextKeepsIndInv
<1> QED BY <1>1, <1>2, PTL DEF Spec

\* Every variable of the handler keeps its type; the two counters never go
\* below zero, so no receive from the pool and no wg.Done is one too many.
THEOREM TypeCorrect == Spec => []TypeOK
<1>1. IndInv => TypeOK
  BY DEF IndInv
<1> QED BY <1>1, IndInvHolds, PTL

\* The worker pool holds one value per task past the select of executeCommand,
\* for any number of goroutines and any capacity.
THEOREM PoolIsBounded == Spec => []PoolBoundsExecution
<1>1. IndInv => PoolBoundsExecution
  BY DEF IndInv, Counting, PoolBoundsExecution, Holders, In
<1> QED BY <1>1, IndInvHolds, PTL

\* Stop returns nil only after every goroutine it can have waited for is gone.
THEOREM StopWaitsForAll == Spec => []StopMeansQuiet
<1>1. IndInv => StopMeansQuiet
  BY DEF IndInv, Quiet, StopMeansQuiet
<1> QED BY <1>1, IndInvHolds, PTL

-----------------------------------------------------------------------------
(* The handler over SQLite rows, with recovery before the first delivery. *)

Discipline == Backend = "sqlite" /\ ResumeFirst

\* A task that has not marked its row claims the command alone.
TaskClaims(t) ==
  pc[t] \in Unmarked => /\ row[cmd[t]] = "pending"
                        /\ cmd[t] \notin handing
                        /\ cmd[t] \notin resume
                        /\ pc[t] = "waiting" => cmd[t] \notin started
                        /\ pc[t] = "marking" => cmd[t] \in attempted

\* So does a HandleCommand between its store and its spawn, or a row the
\* recovery loop has read.
CallerClaims ==
  \A c \in Commands : /\ c \in handing => row[c] = "pending" /\ c \notin started /\ c \notin resume
                      /\ c \in resume => row[c] = "pending" /\ c \notin started

\* What a new process starts from, and what retention leaves.
CleanSlate ==
  /\ fresh => /\ handing = {} /\ resume = {} /\ started = {}
              /\ \A t \in Tasks : ~Live(t)
  /\ \A c \in Commands : row[c] = "absent" => c \notin started

SingleOwner ==
  /\ NoConcurrentDuplicate
  /\ \A t \in Tasks : TaskClaims(t)
  /\ CallerClaims
  /\ CleanSlate

LEMMA InitSingleOwner == Init => SingleOwner
BY DEF Init, SingleOwner, NoConcurrentDuplicate, TaskClaims, CallerClaims, CleanSlate, Unmarked, Live

LEMMA StoreKeepsOwner ==
  ASSUME Discipline, TypeOK, SingleOwner, NEW c \in Commands, HandleStore(c) \/ PollStore(c)
  PROVE  SingleOwner'
<1> USE DEF SingleOwner
<1>1. /\ row[c] = "absent" /\ row' = [row EXCEPT ![c] = "pending"]
      /\ UNCHANGED <<attempted, delivered, started, taskVars>>
  BY DEF Discipline, HandleStore, PollStore, StoreCommand
<1>2. resume' = resume /\ (handing' = handing \/ (handing' = {c} /\ fresh' = FALSE))
      /\ (fresh' => fresh /\ handing' = handing)
  BY DEF HandleStore, PollStore, callerVars
<1>3. c \notin handing /\ c \notin resume /\ c \notin started
      /\ \A t \in Tasks : pc[t] \in Unmarked => cmd[t] # c
  BY <1>1 DEF CallerClaims, CleanSlate, TaskClaims
<1>4. NoConcurrentDuplicate'
  BY <1>1 DEF NoConcurrentDuplicate, taskVars
<1>5. ASSUME NEW t \in Tasks PROVE TaskClaims(t)'
  <2>1. cmd[t] \in Commands \/ pc[t] \notin Unmarked
    BY DEF TypeOK, Unmarked, Live
  <2> QED BY <2>1, <1>1, <1>2, <1>3 DEF TaskClaims, taskVars, TypeOK
<1>6. CallerClaims'
  BY <1>1, <1>2, <1>3 DEF CallerClaims, TypeOK
<1>7. CleanSlate'
  BY <1>1, <1>2 DEF CleanSlate, TypeOK, Live, taskVars
<1> QED BY <1>4, <1>5, <1>6, <1>7

LEMMA SpawnKeepsOwner ==
  ASSUME Discipline, TypeOK, SingleOwner, NEW t \in Tasks, NEW c \in Commands,
         HandleSpawn(t, c) \/ ResumeSpawn(t, c)
  PROVE  SingleOwner'
<1> USE DEF SingleOwner
<1>1. /\ pc[t] = "idle" /\ pc' = [pc EXCEPT ![t] = "waiting"] /\ cmd' = [cmd EXCEPT ![t] = c]
      /\ UNCHANGED <<storeVars, fresh>>
  BY DEF HandleSpawn, ResumeSpawn, Spawn
<1>2. /\ c \in handing \/ c \in resume
      /\ handing' \subseteq handing /\ resume' \subseteq resume
      /\ c \notin handing' /\ c \notin resume'
  BY DEF HandleSpawn, ResumeSpawn, CallerClaims
<1>3. row[c] = "pending" /\ c \notin started /\ ~fresh
  BY <1>2 DEF CallerClaims, CleanSlate
<1>4. \A u \in Tasks : pc[u] \in Unmarked => cmd[u] # c
  BY <1>2 DEF TaskClaims
<1>5. NoConcurrentDuplicate'
  BY <1>1, <1>4 DEF NoConcurrentDuplicate, TypeOK
<1>6. ASSUME NEW u \in Tasks PROVE TaskClaims(u)'
  <2>1. CASE u = t
    BY <2>1, <1>1, <1>2, <1>3 DEF TaskClaims, TypeOK, storeVars
  <2>2. CASE u # t
    BY <2>2, <1>1, <1>2 DEF TaskClaims, TypeOK, storeVars
  <2> QED BY <2>1, <2>2
<1>7. CallerClaims'
  BY <1>1, <1>2 DEF CallerClaims, storeVars
<1>8. CleanSlate'
  BY <1>1, <1>3 DEF CleanSlate, storeVars
<1> QED BY <1>5, <1>6, <1>7, <1>8

LEMMA RecoveryKeepsOwner ==
  ASSUME Discipline, TypeOK, SingleOwner, ResumeRead \/ \E c \in Commands : ResumeSkip(c)
  PROVE  SingleOwner'
<1> USE DEF SingleOwner
<1>1. UNCHANGED <<storeVars, handing, taskVars>>
  BY DEF ResumeRead, ResumeSkip
<1>2. NoConcurrentDuplicate'
  BY <1>1 DEF NoConcurrentDuplicate, taskVars
<1>3. CASE ResumeRead
  <2>1. /\ fresh /\ fresh' = FALSE /\ handing = {} /\ started = {}
        /\ \A t \in Tasks : ~Live(t)
    BY <1>3 DEF ResumeRead, Discipline, CleanSlate
  <2>2. \A t \in Tasks : TaskClaims(t)'
    BY <1>1, <2>1 DEF TaskClaims, Unmarked, Live, taskVars
  <2> QED BY <1>1, <1>2, <1>3, <2>1, <2>2 DEF ResumeRead, CallerClaims, CleanSlate, storeVars
<1>4. CASE \E c \in Commands : ResumeSkip(c)
  <2>1. resume' \subseteq resume /\ fresh' = fresh
    BY <1>4 DEF ResumeSkip
  <2> QED BY <1>1, <1>2, <2>1
          DEF TaskClaims, CallerClaims, CleanSlate, storeVars, taskVars, Live
<1> QED BY <1>3, <1>4

LEMMA TaskKeepsOwner ==
  ASSUME Discipline, TypeOK, SingleOwner, NEW t \in Tasks, TaskNext(t)
  PROVE  SingleOwner'
<1> USE DEF SingleOwner
<1>1. UNCHANGED callerVars
  BY DEF TaskNext, Acquire, CancelWaiting, Execute, Submit, Mark, Release, Finish
<1>2. Live(t) /\ ~fresh /\ cmd[t] \in Commands
  BY DEF TaskNext, Acquire, CancelWaiting, Execute, Submit, Mark, Release, Finish,
     Live, CleanSlate, TypeOK
<1>3. /\ pc' = [pc EXCEPT ![t] = pc'[t]]
      /\ pc'[t] \in Unmarked => pc[t] \in Unmarked /\ pc'[t] # "waiting" /\ cmd' = cmd
      /\ \A u \in Tasks \ {t} : pc'[u] = pc[u] /\ cmd'[u] = cmd[u]
  BY DEF TaskNext, Acquire, CancelWaiting, Execute, Submit, Mark, Release, Finish, Goto,
     Unmarked, TypeOK
<1>4. NoConcurrentDuplicate'
  BY <1>3 DEF NoConcurrentDuplicate
<1>5. \/ row' = row
      \/ /\ row' = [row EXCEPT ![cmd[t]] = "complete"]
         /\ row[cmd[t]] = "pending"
         /\ pc[t] = "marking"
  BY DEF TaskNext, Acquire, CancelWaiting, Execute, Submit, Mark, Release, Finish, storeVars,
     TaskClaims, Unmarked
<1>6. \/ started' = started
      \/ started' = started \cup {cmd[t]} /\ pc[t] = "waiting" /\ row' = row
  BY DEF TaskNext, Acquire, CancelWaiting, Execute, Submit, Mark, Release, Finish, storeVars
<1>7. /\ attempted \subseteq attempted'
      /\ pc'[t] = "marking" => cmd[t] \in attempted' /\ row' = row
  BY DEF TaskNext, Acquire, CancelWaiting, Execute, Submit, Mark, Release, Finish, Goto,
     storeVars, TypeOK
<1>8. ASSUME NEW u \in Tasks PROVE TaskClaims(u)'
  <2>1. CASE u = t
    <3> SUFFICES ASSUME pc'[t] \in Unmarked PROVE TaskClaims(t)'
      BY <2>1 DEF TaskClaims
    <3>1. pc[t] \in Unmarked /\ pc'[t] # "waiting" /\ cmd' = cmd
      BY <1>3
    <3>2. row' = row
      BY <1>5, <1>3, <3>1 DEF TaskNext, Acquire, CancelWaiting, Execute, Submit, Mark, Release,
         Finish, Goto, Unmarked, TypeOK, storeVars
    <3> QED BY <3>1, <3>2, <1>1, <1>7 DEF TaskClaims, callerVars
  <2>2. CASE u # t /\ pc[u] \in Unmarked
    <3>1. pc'[u] = pc[u] /\ cmd'[u] = cmd[u] /\ cmd[u] \in Commands
      BY <2>2, <1>3 DEF TypeOK, Unmarked, Live
    <3>2. pc[t] \in Unmarked => cmd[u] # cmd[t]
      BY <2>2 DEF NoConcurrentDuplicate
    <3>3. row'[cmd[u]] = row[cmd[u]]
      BY <3>1, <3>2, <1>5 DEF Unmarked, TypeOK
    <3>4. cmd[u] \in started' => cmd[u] \in started
      BY <3>2, <1>6 DEF Unmarked
    <3> QED BY <2>2, <3>1, <3>3, <3>4, <1>1, <1>7 DEF TaskClaims, callerVars
  <2>3. CASE u # t /\ pc[u] \notin Unmarked
    BY <2>3, <1>3 DEF TaskClaims
  <2> QED BY <2>1, <2>2, <2>3
<1>9. CallerClaims'
  <2>1. pc[t] \in Unmarked => cmd[t] \notin handing /\ cmd[t] \notin resume
    BY DEF TaskClaims
  <2> QED BY <2>1, <1>1, <1>5, <1>6 DEF CallerClaims, callerVars, Unmarked, TypeOK
<1>10. CleanSlate'
  <2>1. pc[t] = "waiting" => row[cmd[t]] = "pending"
    BY DEF TaskClaims, Unmarked
  <2> QED BY <2>1, <1>1, <1>2, <1>5, <1>6 DEF CleanSlate, callerVars, TypeOK
<1> QED BY <1>4, <1>8, <1>9, <1>10

LEMMA OthersKeepOwner ==
  ASSUME Discipline, TypeOK, SingleOwner,
         \/ \E ty \in Types : RegisterExecutor(ty)
         \/ StopNext
         \/ \E c \in Commands : Cleanup(c)
         \/ UNCHANGED vars
  PROVE  SingleOwner'
<1> USE DEF SingleOwner
<1>1. UNCHANGED <<callerVars, taskVars>>
  BY DEF RegisterExecutor, StopNext, StopCall, WaitReturns, StopReturns, Cleanup, vars
<1>2. NoConcurrentDuplicate'
  BY <1>1 DEF NoConcurrentDuplicate, taskVars
<1>3. CASE UNCHANGED storeVars
  BY <1>1, <1>2, <1>3 DEF TaskClaims, CallerClaims, CleanSlate, callerVars, taskVars, storeVars, Live
<1>4. CASE \E c \in Commands : Cleanup(c)
  <2>1. PICK c \in Commands : /\ row[c] = "complete"
                              /\ row' = [row EXCEPT ![c] = "absent"]
                              /\ started' = started \ {c}
                              /\ attempted' = attempted \ {c}
    BY <1>4 DEF Cleanup
  <2>2. \A t \in Tasks : TaskClaims(t)'
    <3> SUFFICES ASSUME NEW t \in Tasks, pc[t] \in Unmarked PROVE TaskClaims(t)'
      BY <1>1 DEF TaskClaims, taskVars
    <3>1. cmd[t] \in Commands /\ cmd[t] # c
      BY <2>1 DEF TaskClaims, TypeOK, Unmarked, Live
    <3> QED BY <1>1, <2>1, <3>1 DEF TaskClaims, callerVars, taskVars, TypeOK
  <2>3. CallerClaims' /\ CleanSlate'
    BY <1>1, <2>1 DEF CallerClaims, CleanSlate, callerVars, taskVars, TypeOK, Live
  <2> QED BY <1>2, <2>2, <2>3
<1> QED BY <1>3, <1>4 DEF RegisterExecutor, StopNext, StopCall, WaitReturns, StopReturns, vars

LEMMA RestartKeepsOwner ==
  ASSUME Restart
  PROVE  SingleOwner'
BY DEF Restart, SingleOwner, NoConcurrentDuplicate, TaskClaims, CallerClaims, CleanSlate, Unmarked,
   Live

LEMMA SingleOwnerHolds == ASSUME Discipline PROVE Spec => []SingleOwner
<1>1. Init => SingleOwner
  BY InitSingleOwner
<1>2. IndInv /\ SingleOwner /\ [Next]_vars => SingleOwner'
  BY StoreKeepsOwner, SpawnKeepsOwner, RecoveryKeepsOwner, TaskKeepsOwner, OthersKeepOwner,
     RestartKeepsOwner DEF IndInv, Next, CallerNext
<1> QED BY <1>1, <1>2, IndInvHolds, PTL DEF Spec

\* Over SQLite rows, with recovery before the first delivery, no command is
\* ever in the hands of two goroutines.
THEOREM NeverTwice == ASSUME Discipline PROVE Spec => []NoConcurrentDuplicate
<1>1. SingleOwner => NoConcurrentDuplicate
  BY DEF SingleOwner
<1> QED BY <1>1, SingleOwnerHolds, PTL

\* And its executor runs once in the life of the process, until retention
\* deletes its row: a failed update of the row does not run it again.
THEOREM ExecutesOnce == ASSUME Discipline PROVE Spec => ExecutesOncePerLife
<1>1. SingleOwner /\ [Next]_vars =>
        [\A t \in Tasks : (pc[t] = "waiting" /\ pc'[t] = "running") => cmd[t] \notin started]_vars
  BY DEF SingleOwner, TaskClaims, Unmarked
<1> QED BY <1>1, SingleOwnerHolds, PTL DEF Spec, ExecutesOncePerLife

-----------------------------------------------------------------------------
(* The refinement. *)

LEMMA TaskStepIsLedgerStep ==
  ASSUME Discipline, TypeOK, SingleOwner, NEW t \in Tasks, TaskNext(t)
  PROVE  [Ledger!LedgerNext]_<<row, attempted>>
<1> USE DEF SingleOwner
<1>1. cmd[t] \in Commands
  BY DEF TaskNext, Acquire, CancelWaiting, Execute, Submit, Mark, Release, Finish, TypeOK, Live
<1>2. CASE Submit(t)
  <2>1. row[cmd[t]] = "pending"
    BY <1>2 DEF Submit, TaskClaims, Unmarked
  <2>2. Ledger!Attempt(cmd[t])
    BY <1>2, <2>1 DEF Submit, Ledger!Attempt
  <2> QED BY <1>1, <2>2 DEF Ledger!LedgerNext
<1>3. CASE Mark(t)
  <2>1. row[cmd[t]] = "pending" /\ cmd[t] \in attempted
    BY <1>3 DEF Mark, TaskClaims, Unmarked
  <2>2. Ledger!Settle(cmd[t]) \/ UNCHANGED <<row, attempted>>
    BY <1>3, <2>1 DEF Mark, Ledger!Settle
  <2> QED BY <1>1, <2>2 DEF Ledger!LedgerNext
<1>4. CASE Acquire(t) \/ CancelWaiting(t) \/ Execute(t) \/ Release(t) \/ Finish(t)
  BY <1>4 DEF Acquire, CancelWaiting, Execute, Release, Finish, storeVars
<1> QED BY <1>2, <1>3, <1>4 DEF TaskNext

LEMMA StepIsLedgerStep ==
  ASSUME Discipline, TypeOK, SingleOwner, [Next]_vars
  PROVE  [Ledger!LedgerNext]_<<row, attempted>>
<1>1. CASE \E c \in Commands : HandleStore(c) \/ PollStore(c)
  <2>1. PICK c \in Commands : StoreCommand(c)
    BY <1>1 DEF HandleStore, PollStore
  <2>2. Ledger!Accept(c)
    BY <2>1 DEF StoreCommand, Discipline, Ledger!Accept
  <2> QED BY <2>2 DEF Ledger!LedgerNext
<1>2. CASE \E c \in Commands : Cleanup(c)
  <2>1. PICK c \in Commands : Cleanup(c)
    BY <1>2
  <2>2. Ledger!Forget(c)
    BY <2>1 DEF Cleanup, Ledger!Forget
  <2> QED BY <2>2 DEF Ledger!LedgerNext
<1>3. CASE \E t \in Tasks : TaskNext(t)
  BY <1>3, TaskStepIsLedgerStep
<1>4. CASE Restart
  BY <1>4 DEF Restart, Discipline
<1>5. CASE \/ \E ty \in Types : RegisterExecutor(ty)
           \/ \E c \in Commands : ResumeSkip(c)
           \/ \E t \in Tasks, c \in Commands : HandleSpawn(t, c) \/ ResumeSpawn(t, c)
           \/ ResumeRead
           \/ StopNext
           \/ UNCHANGED vars
  BY <1>5 DEF RegisterExecutor, ResumeSkip, HandleSpawn, ResumeSpawn, ResumeRead, StopNext,
     StopCall, WaitReturns, StopReturns, vars, storeVars
<1> QED BY <1>1, <1>2, <1>3, <1>4, <1>5 DEF Next, CallerNext

\* Over SQLite rows, with recovery before the first delivery, the handler
\* implements CommandLedger: a result is submitted only for an owed command, a
\* command is settled only after that, and a crash loses or repeats no entry.
THEOREM HandlerImplementsLedger == ASSUME Discipline PROVE Spec => ImplementsLedger
<1>1. Init => Ledger!LedgerInit
  BY DEF Init, Ledger!LedgerInit
<1>2. IndInv /\ SingleOwner /\ [Next]_vars => [Ledger!LedgerNext]_(Ledger!ledgerVars)
  BY StepIsLedgerStep DEF IndInv, Ledger!ledgerVars
<1> QED BY <1>1, <1>2, IndInvHolds, SingleOwnerHolds, PTL
        DEF Spec, ImplementsLedger, Ledger!LedgerSpec

-----------------------------------------------------------------------------
(* Complete rows. *)

\* A row is marked only by a task that has submitted before.
Reported ==
  /\ \A t \in Tasks : pc[t] = "marking" => cmd[t] \in attempted
  /\ CompleteWasSubmitted

\* Only retention forgets a submission, and it deletes the row with it. It
\* exists for SQLite rows, where no other task is about to mark that row.
LEMMA StepKeepsReported ==
  ASSUME TypeOK, Backend = "memory" \/ SingleOwner, Reported, [Next]_vars
  PROVE  Reported'
<1>1. CASE \/ \E c \in Commands : HandleStore(c) \/ PollStore(c)
  <2>1. PICK c \in Commands : StoreCommand(c)
    BY <1>1 DEF HandleStore, PollStore
  <2>2. UNCHANGED <<pc, cmd>>
    BY <1>1 DEF HandleStore, PollStore, taskVars
  <2> QED BY <2>1, <2>2 DEF StoreCommand, Reported, CompleteWasSubmitted, TypeOK
<1>2. ASSUME NEW t \in Tasks, NEW c \in Commands, HandleSpawn(t, c) \/ ResumeSpawn(t, c)
      PROVE  Reported'
  <2>1. /\ pc' = [pc EXCEPT ![t] = "waiting"] /\ cmd' = [cmd EXCEPT ![t] = c]
        /\ UNCHANGED storeVars
    BY <1>2 DEF HandleSpawn, ResumeSpawn, Spawn
  <2> QED BY <2>1 DEF Reported, CompleteWasSubmitted, TypeOK, storeVars
<1>3. ASSUME NEW t \in Tasks, TaskNext(t) PROVE Reported'
  <2>1. CASE Submit(t)
    BY <1>3, <2>1 DEF Submit, Goto, Reported, CompleteWasSubmitted, TypeOK
  <2>2. CASE Mark(t)
    <3>1. pc'[t] = "releasing" /\ UNCHANGED <<cmd, attempted>>
          /\ \A u \in Tasks \ {t} : pc'[u] = pc[u]
      BY <2>2 DEF Mark, Goto, TypeOK
    <3>2. cmd[t] \in attempted
      BY <2>2 DEF Mark, Reported
    <3>3. CompleteWasSubmitted'
      BY <2>2, <3>1, <3>2 DEF Mark, Reported, CompleteWasSubmitted, TypeOK
    <3> QED BY <3>1, <3>3 DEF Reported
  <2>3. CASE Acquire(t) \/ CancelWaiting(t) \/ Execute(t) \/ Release(t) \/ Finish(t)
    <3>1. pc'[t] # "marking" /\ UNCHANGED <<row, attempted>>
          /\ \A u \in Tasks \ {t} : pc'[u] = pc[u] /\ cmd'[u] = cmd[u]
      BY <2>3 DEF Acquire, CancelWaiting, Execute, Release, Finish, Goto, storeVars, TypeOK
    <3> QED BY <3>1 DEF Reported, CompleteWasSubmitted
  <2> QED BY <1>3, <2>1, <2>2, <2>3 DEF TaskNext
<1>4. ASSUME NEW c \in Commands, Cleanup(c) PROVE Reported'
  <2>1. SingleOwner /\ row[c] = "complete" /\ UNCHANGED <<pc, cmd>>
        /\ row' = [row EXCEPT ![c] = "absent"] /\ attempted' = attempted \ {c}
    BY <1>4 DEF Cleanup, taskVars
  <2>2. \A t \in Tasks : pc[t] = "marking" => cmd[t] # c
    BY <2>1 DEF SingleOwner, TaskClaims, Unmarked
  <2> QED BY <2>1, <2>2 DEF Reported, CompleteWasSubmitted, TypeOK
<1>5. CASE Restart
  <2>1. \A t \in Tasks : pc'[t] = "idle"
    BY <1>5 DEF Restart
  <2>2. CompleteWasSubmitted'
    BY <1>5 DEF Restart, Reported, CompleteWasSubmitted
  <2> QED BY <2>1, <2>2 DEF Reported
<1>6. CASE \/ \E ty \in Types : RegisterExecutor(ty)
           \/ \E c \in Commands : ResumeSkip(c)
           \/ ResumeRead \/ StopNext \/ UNCHANGED vars
  BY <1>6 DEF RegisterExecutor, ResumeSkip, ResumeRead, StopNext, StopCall, WaitReturns,
     StopReturns, vars, storeVars, taskVars, Reported, CompleteWasSubmitted
<1> QED BY <1>1, <1>2, <1>3, <1>4, <1>5, <1>6 DEF Next, CallerNext

\* With the memory cache, or over SQLite rows with recovery first, a row is
\* complete only after a submission of the command's result was attempted.
THEOREM CompleteMeansSubmitted ==
  ASSUME Backend = "memory" \/ Discipline
  PROVE  Spec => []CompleteWasSubmitted
<1>1. Init => Reported
  BY DEF Init, Reported, CompleteWasSubmitted
<1>2. Reported => CompleteWasSubmitted
  BY DEF Reported
<1>3. CASE Backend = "memory"
  <2>1. IndInv /\ Reported /\ [Next]_vars => Reported'
    BY <1>3, StepKeepsReported DEF IndInv
  <2> QED BY <1>1, <1>2, <2>1, IndInvHolds, PTL DEF Spec
<1>4. CASE Discipline
  <2>1. IndInv /\ SingleOwner /\ Reported /\ [Next]_vars => Reported'
    BY StepKeepsReported DEF IndInv
  <2>2. Spec => []SingleOwner
    BY <1>4, SingleOwnerHolds
  <2> QED BY <1>1, <1>2, <2>1, <2>2, IndInvHolds, PTL DEF Spec
<1> QED BY <1>3, <1>4

-----------------------------------------------------------------------------
(* Pending rows of the memory cache. *)

Owned(c) == c \in handing \/ \E t \in Tasks : pc[t] \in Unmarked /\ cmd[t] = c

\* Only the task that works on a command gives it up before the row is marked,
\* and only under a cancelled handler.
LEMMA TaskKeepsOwned ==
  ASSUME TypeOK, Backend = "memory", ~cancelled, PendingHasOwner, NEW t \in Tasks, TaskNext(t)
  PROVE  PendingHasOwner'
<1>1. SUFFICES ASSUME NEW c \in Commands \ PolledOnly, row'[c] = "pending" PROVE Owned(c)'
  BY DEF PendingHasOwner, Owned
<1>2. handing' = handing /\ \A u \in Tasks \ {t} : pc'[u] = pc[u] /\ cmd'[u] = cmd[u]
  BY DEF TaskNext, Acquire, CancelWaiting, Execute, Submit, Mark, Release, Finish, Goto, TypeOK,
         callerVars
<1>3. CASE Mark(t)
  <2>1. row[cmd[t]] # "absent" /\ row' = [row EXCEPT ![cmd[t]] = "complete"]
    BY <1>3 DEF Mark
  <2>2. cmd[t] \in Commands
    BY <1>3 DEF Mark, TypeOK, Live
  <2>3. c # cmd[t] /\ row[c] = "pending"
    BY <1>1, <2>1, <2>2 DEF TypeOK
  <2>4. Owned(c)
    BY <2>3 DEF PendingHasOwner, Owned
  <2> QED BY <1>2, <2>3, <2>4 DEF Owned
<1>4. CASE ~Mark(t)
  <2>1. row' = row
    BY <1>4 DEF TaskNext, Acquire, CancelWaiting, Execute, Submit, Release, Finish, storeVars
  <2>2. Owned(c)
    BY <1>1, <2>1 DEF PendingHasOwner, Owned
  <2>3. pc[t] \in Unmarked => pc'[t] \in Unmarked /\ cmd'[t] = cmd[t]
    BY <1>4 DEF TaskNext, Acquire, CancelWaiting, Execute, Submit, Release, Finish, Goto, TypeOK,
                Unmarked
  <2> QED BY <1>2, <2>2, <2>3 DEF Owned
<1> QED BY <1>3, <1>4

\* The polling loop is inside at most one HandleCommand.
OneCaller == \A c, d \in handing : c = d

LEMMA StepKeepsOneCaller == OneCaller /\ [Next]_vars => OneCaller'
<1> SUFFICES ASSUME OneCaller, [Next]_vars
             PROVE  handing' = handing \/ handing' = {} \/ \E c \in Commands : handing' = {c}
  BY DEF OneCaller
<1> QED BY DEF Next, CallerNext, RegisterExecutor, HandleStore, PollStore, ResumeSkip, HandleSpawn,
           ResumeSpawn, ResumeRead, TaskNext, Acquire, CancelWaiting, Execute, Submit, Mark,
           Release, Finish, StopNext, StopCall, WaitReturns, StopReturns, Cleanup, Restart,
           callerVars, vars

LEMMA StepKeepsOwned ==
  ASSUME TypeOK, OneCaller, PendingHasOwner, [Next]_vars
  PROVE  PendingHasOwner'
<1> SUFFICES ASSUME Backend = "memory", ~cancelled' PROVE PendingHasOwner'
  BY DEF PendingHasOwner
<1>1. CASE Restart
  BY <1>1 DEF Restart, PendingHasOwner
<1>2. CASE ~Restart
  <2>1. ~cancelled
    <3>1. cancelled' = cancelled \/ StopCall
      BY <1>2 DEF Next, CallerNext, RegisterExecutor, HandleStore, PollStore, ResumeSkip,
         HandleSpawn, ResumeSpawn, ResumeRead, TaskNext, Acquire, CancelWaiting, Execute, Submit,
         Mark, Release, Finish, StopNext, WaitReturns, StopReturns, Cleanup, stopVars, vars
    <3> QED BY <3>1 DEF StopCall
  <2>2. ASSUME NEW c \in Commands, HandleStore(c) PROVE PendingHasOwner'
    <3>1. /\ handing = {} /\ handing' = {c} /\ UNCHANGED <<pc, cmd>>
          /\ row' = [row EXCEPT ![c] = "pending"]
      BY <2>2 DEF HandleStore, StoreCommand, taskVars
    <3> QED BY <2>1, <3>1 DEF PendingHasOwner, TypeOK
  <2>3. ASSUME NEW c \in Commands, PollStore(c) PROVE PendingHasOwner'
    <3>1. /\ c \in PolledOnly /\ row' = [row EXCEPT ![c] = "pending"]
          /\ UNCHANGED <<handing, pc, cmd>>
      BY <2>3 DEF PollStore, StoreCommand, taskVars, callerVars
    <3> QED BY <2>1, <3>1 DEF PendingHasOwner, TypeOK
  <2>4. ASSUME NEW t \in Tasks, NEW c \in Commands, HandleSpawn(t, c) \/ ResumeSpawn(t, c)
        PROVE  PendingHasOwner'
    <3>1. /\ pc[t] = "idle" /\ pc' = [pc EXCEPT ![t] = "waiting"] /\ cmd' = [cmd EXCEPT ![t] = c]
          /\ row' = row /\ handing \subseteq handing' \cup {c}
      <4>1. CASE HandleSpawn(t, c)
        BY <4>1 DEF HandleSpawn, Spawn, OneCaller, storeVars
      <4>2. CASE ResumeSpawn(t, c)
        BY <4>2 DEF ResumeSpawn, Spawn, storeVars
      <4> QED BY <2>4, <4>1, <4>2
    <3>2. SUFFICES ASSUME NEW d \in Commands \ PolledOnly, row[d] = "pending" PROVE Owned(d)'
      BY <3>1 DEF PendingHasOwner, Owned
    <3>3. Owned(d)
      BY <2>1, <3>2 DEF PendingHasOwner, Owned
    <3>4. pc'[t] = "waiting" /\ cmd'[t] = c
          /\ \A u \in Tasks \ {t} : pc'[u] = pc[u] /\ cmd'[u] = cmd[u]
      BY <3>1 DEF TypeOK
    <3> QED BY <3>1, <3>3, <3>4 DEF Owned, Unmarked
  <2>5. ASSUME NEW t \in Tasks, TaskNext(t) PROVE PendingHasOwner'
    BY <2>1, <2>5, TaskKeepsOwned
  <2>6. CASE \/ \E ty \in Types : RegisterExecutor(ty)
             \/ \E c \in Commands : ResumeSkip(c)
             \/ ResumeRead \/ StopNext \/ UNCHANGED vars
    BY <2>1, <2>6 DEF RegisterExecutor, ResumeSkip, ResumeRead, StopNext, StopCall, WaitReturns,
       StopReturns, vars, storeVars, callerVars, taskVars, PendingHasOwner
  <2>7. ~\E c \in Commands : Cleanup(c)
    BY DEF Cleanup
  <2> QED BY <1>2, <2>2, <2>3, <2>4, <2>5, <2>6, <2>7 DEF Next, CallerNext
<1> QED BY <1>1, <1>2

\* With the memory cache, no accepted command is dropped before Stop: its row is
\* pending only while a HandleCommand or a goroutine is working on it.
THEOREM PendingIsOwned == Spec => []PendingHasOwner
<1>1. Init => PendingHasOwner /\ OneCaller
  BY DEF Init, PendingHasOwner, OneCaller
<1>2. IndInv /\ OneCaller /\ PendingHasOwner /\ [Next]_vars => PendingHasOwner' /\ OneCaller'
  BY StepKeepsOwned, StepKeepsOneCaller DEF IndInv
<1> QED BY <1>1, <1>2, IndInvHolds, PTL DEF Spec

-----------------------------------------------------------------------------
(* Deadlines. *)

\* With the memory cache recovery finds no row that HandleCommand has stored, as
\* long as it runs first: what is there then pollCommands has put there.
NothingToRecover ==
  /\ fresh => \A c \in Commands \ PolledOnly : row[c] = "absent"
  /\ resume \subseteq PolledOnly
  /\ \A t \in Tasks : Live(t) => (timed[t] <=> cmd[t] \in Timed)

LEMMA StepKeepsNothingToRecover ==
  ASSUME TypeOK, Backend = "memory", ResumeFirst, NothingToRecover, [Next]_vars
  PROVE  NothingToRecover'
<1> USE DEF NothingToRecover
<1>1. ASSUME NEW c \in Commands, HandleStore(c) \/ PollStore(c) PROVE NothingToRecover'
  <2>1. /\ row' = [row EXCEPT ![c] = "pending"] /\ UNCHANGED <<taskVars, resume>>
        /\ fresh' => fresh /\ c \in PolledOnly
    BY <1>1 DEF HandleStore, PollStore, StoreCommand, callerVars
  <2> QED
    BY <2>1 DEF TypeOK, Live, taskVars
<1>2. ASSUME NEW t \in Tasks, NEW c \in Commands, HandleSpawn(t, c) PROVE NothingToRecover'
  <2>1. /\ pc' = [pc EXCEPT ![t] = "waiting"] /\ cmd' = [cmd EXCEPT ![t] = c]
        /\ timed' = [timed EXCEPT ![t] = c \in Timed] /\ UNCHANGED <<row, fresh, resume>>
    BY <1>2 DEF HandleSpawn, Spawn, storeVars
  <2>2. /\ timed'[t] <=> cmd'[t] \in Timed
        /\ \A u \in Tasks \ {t} : pc'[u] = pc[u] /\ cmd'[u] = cmd[u] /\ timed'[u] = timed[u]
    BY <2>1 DEF TypeOK
  <2> QED
    BY <2>1, <2>2 DEF Live
<1>3. \A t \in Tasks, c \in Commands : ~ResumeSpawn(t, c)
  BY DEF ResumeSpawn
<1>4. CASE ResumeRead \/ \E c \in Commands : ResumeSkip(c)
  BY <1>4 DEF ResumeRead, ResumeSkip, Live, taskVars, storeVars
<1>5. ASSUME NEW t \in Tasks, TaskNext(t) PROVE NothingToRecover'
  <2>1. UNCHANGED callerVars
    BY <1>5 DEF TaskNext, Acquire, CancelWaiting, Execute, Submit, Mark, Release, Finish
  <2>2. row' = row \/ (row[cmd[t]] # "absent" /\ row' = [row EXCEPT ![cmd[t]] = "complete"])
    BY <1>5 DEF TaskNext, Acquire, CancelWaiting, Execute, Submit, Mark, Release, Finish, storeVars
  <2>3. fresh' => \A c \in Commands \ PolledOnly : row'[c] = "absent"
    BY <2>1, <2>2 DEF TypeOK, callerVars
  <2>4. /\ pc'[t] # "idle" => pc[t] # "idle" /\ cmd'[t] = cmd[t] /\ timed'[t] = timed[t]
        /\ \A u \in Tasks \ {t} : pc'[u] = pc[u] /\ cmd'[u] = cmd[u] /\ timed'[u] = timed[u]
    BY <1>5 DEF TaskNext, Acquire, CancelWaiting, Execute, Submit, Mark, Release, Finish, Goto, TypeOK
  <2> QED
    BY <2>1, <2>3, <2>4 DEF callerVars, Live
<1>6. CASE \/ \E ty \in Types : RegisterExecutor(ty)
           \/ StopNext \/ UNCHANGED vars
  BY <1>6 DEF RegisterExecutor, StopNext, StopCall, WaitReturns, StopReturns, vars, callerVars,
     storeVars, taskVars, Live
<1>7. \A c \in Commands : ~Cleanup(c)
  BY DEF Cleanup
<1>8. CASE Restart
  BY <1>8 DEF Restart, Live
<1> QED
  BY <1>1, <1>2, <1>3, <1>4, <1>5, <1>6, <1>7, <1>8 DEF Next, CallerNext

\* Where the deadlines of commands are kept: a command handed over by the server runs
\* under its timeout, through any restart, as long as recovery has nothing to read,
\* that is with the memory cache when ProcessPendingCommands runs first. Rows that
\* outlive the process are what the timeout is lost with.
THEOREM OnlyRecoveryLosesDeadlines ==
  ASSUME Backend = "memory", ResumeFirst
  PROVE  Spec => []TimeoutHonoured
<1>1. Init => NothingToRecover
  BY DEF Init, NothingToRecover, Live
<1>2. IndInv /\ NothingToRecover /\ [Next]_vars => NothingToRecover'
  BY StepKeepsNothingToRecover DEF IndInv
<1>3. NothingToRecover => TimeoutHonoured
  BY DEF NothingToRecover, TimeoutHonoured, Live
<1> QED BY <1>1, <1>2, <1>3, IndInvHolds, PTL DEF Spec
=============================================================================
