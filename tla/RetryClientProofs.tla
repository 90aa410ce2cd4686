--------------------------- MODULE RetryClientProofs ---------------------------
(***************************************************************************)
(* Theorems about doRequest for any number of calls and any MaxRetries.    *)
(* EffectsBounded is not inductive: Budget counts what has arrived or may  *)
(* still arrive against the requests made so far, and splits the current   *)
(* attempt by whether its request has arrived. Evidence says what the place*)
(* of a call in the loop tells of its attempts and of the server. Both are *)
(* what the refinement of RemoteCall rests on.                             *)
(***************************************************************************)
EXTENDS RetryClient, TLAPS

Budget(r) ==
  processed[r] + stray[r] <=
    IF pc[r] = "sent" /\ ~arrived[r] THEN attempt[r] ELSE Requests(r)

Evidence(r) ==
  /\ pc[r] = "idle" => attempt[r] = 0
  /\ pc[r] = "backoff" => attempt[r] > 0
  /\ pc[r] = "sent" /\ arrived[r] => processed[r] > 0
  /\ outcome[r] = "none" => processed[r] > 0
  /\ outcome[r] = "unregistered" => attempt[r] = 0
  /\ outcome[r] = "cancelled" => attempt[r] > 0
  /\ pc[r] = "returned" <=> outcome[r] # Pending

IndInv ==
  /\ TypeOK
  /\ \A r \in Calls : Budget(r) /\ Evidence(r)
  /\ NoAttemptAfterVerdict
  /\ NeverBareRequestError

LEMMA InitIndInv == Init => IndInv
<1> SUFFICES ASSUME Init PROVE IndInv
  OBVIOUS
<1>1. TypeOK
  <2>1. 0 \in 0..MaxRetries
    BY ClientAssumption
  <2> QED BY <2>1 DEF Init, TypeOK, Outcomes, Errors, Pending
<1>2. ASSUME NEW r \in Calls PROVE Budget(r) /\ Evidence(r)
  <2>1. /\ pc[r] = "idle" /\ attempt[r] = 0 /\ processed[r] = 0 /\ stray[r] = 0
        /\ outcome[r] = Pending
    BY DEF Init
  <2> QED BY <2>1 DEF Budget, Evidence, Requests, Pending
<1>3. NoAttemptAfterVerdict /\ NeverBareRequestError
  BY DEF Init, NoAttemptAfterVerdict, NeverBareRequestError, Pending
<1> QED BY <1>1, <1>2, <1>3 DEF IndInv

\* The two ways out of the loop body: a next attempt within the limit, or the
\* error, wrapped when it is retryable.
LEMMA FailContinuesOrReturns ==
  ASSUME TypeOK, NEW r \in Calls, NEW e \in Errors, Fail(r, e)
  PROVE  \/ /\ Retryable(e) /\ attempt[r] + 1 \in 0..MaxRetries
            /\ pc' = [pc EXCEPT ![r] = "backoff"]
            /\ attempt' = [attempt EXCEPT ![r] = attempt[r] + 1]
            /\ outcome' = outcome
         \/ /\ pc' = [pc EXCEPT ![r] = "returned"]
            /\ attempt' = attempt
            /\ \E o \in {"api", "opaque", "exhausted"} : outcome' = [outcome EXCEPT ![r] = o]
<1>1. attempt[r] \in 0..MaxRetries
  BY DEF TypeOK
<1>2. CASE Retryable(e) /\ attempt[r] < MaxRetries
  BY <1>1, <1>2, ClientAssumption DEF Fail
<1>3. CASE ~(Retryable(e) /\ attempt[r] < MaxRetries)
  <2> DEFINE o == IF Retryable(e) THEN "exhausted" ELSE e
  <2>1. o \in {"api", "opaque", "exhausted"}
    BY DEF Errors, Retryable
  <2>2. Return(r, o) /\ attempt' = attempt
    BY <1>3 DEF Fail
  <2> QED BY <2>1, <2>2 DEF Return
<1> QED BY <1>2, <1>3

\* What one step of call r does to r's own components: enough for each conjunct.
LEMMA CallKeepsTypes ==
  ASSUME IndInv, NEW r \in Calls, CallNext(r)
  PROVE  TypeOK'
<1> USE ClientAssumption DEF IndInv, TypeOK, Outcomes, Errors, Pending, Return
<1>0. CASE Begin(r)
  BY <1>0 DEF Begin
<1>1. CASE ContextDone(r) \/ Send(r) \/ ServerProcesses(r)
  <2>1. CASE ContextDone(r)
    BY <2>1 DEF ContextDone
  <2>2. CASE Send(r)
    BY <2>2 DEF Send
  <2>3. CASE ServerProcesses(r)
    BY <2>3 DEF ServerProcesses
  <2> QED BY <1>1, <2>1, <2>2, <2>3
<1>2. CASE Succeed(r)
  BY <1>2 DEF Succeed
<1>3. ASSUME NEW e \in Errors, Fail(r, e),
             FailForGood(r) \/ FailStatus(r) \/ FailTransport(r)
      PROVE  TypeOK'
  <2>1. CASE FailForGood(r)
    BY <1>3, <2>1, FailContinuesOrReturns DEF FailForGood
  <2>2. CASE FailStatus(r)
    BY <1>3, <2>2, FailContinuesOrReturns DEF FailStatus
  <2>3. CASE FailTransport(r)
    BY <1>3, <2>3, FailContinuesOrReturns DEF FailTransport
  <2> QED BY <1>3, <2>1, <2>2, <2>3
<1>5. FailForGood(r) \/ FailStatus(r) \/ FailTransport(r) => \E e \in Errors : Fail(r, e)
  BY DEF FailForGood, FailStatus, FailTransport
<1>4. CASE StrayProcessed(r) \/ BackoffEnds(r) \/ BackoffCancelled(r)
  BY <1>4 DEF StrayProcessed, BackoffEnds, BackoffCancelled
<1> QED BY <1>0, <1>1, <1>2, <1>3, <1>4, <1>5 DEF CallNext

\* A step of r leaves every other call alone.
LEMMA CallsAreIndependent ==
  ASSUME TypeOK, NEW r \in Calls, CallNext(r), NEW q \in Calls, q # r
  PROVE  /\ pc'[q] = pc[q] /\ attempt'[q] = attempt[q] /\ outcome'[q] = outcome[q]
         /\ processed'[q] = processed[q] /\ arrived'[q] = arrived[q]
         /\ stray'[q] = stray[q] /\ verdict'[q] = verdict[q]
BY DEF TypeOK, CallNext, Return, Begin, ContextDone, Send, ServerProcesses, Succeed, FailForGood,
   FailStatus, FailTransport, Fail, StrayProcessed, BackoffEnds, BackoffCancelled

LEMMA CallKeepsBudget ==
  ASSUME IndInv, NEW r \in Calls, CallNext(r)
  PROVE  Budget(r)'
<1> USE ClientAssumption DEF IndInv, TypeOK, Budget, Requests, Return
<1>1. CASE Begin(r) \/ ContextDone(r) \/ Send(r) \/ ServerProcesses(r)
  BY <1>1 DEF Begin, ContextDone, Send, ServerProcesses
<1>2. CASE Succeed(r)
  BY <1>2 DEF Succeed
<1>3. ASSUME NEW e \in Errors, Fail(r, e),
             FailForGood(r) \/ FailStatus(r) \/ FailTransport(r)
      PROVE  Budget(r)'
  <2>1. CASE FailForGood(r)
    BY <1>3, <2>1, FailContinuesOrReturns DEF FailForGood
  <2>2. CASE FailStatus(r)
    BY <1>3, <2>2, FailContinuesOrReturns DEF FailStatus
  <2>3. CASE FailTransport(r)
    BY <1>3, <2>3, FailContinuesOrReturns DEF FailTransport
  <2> QED BY <1>3, <2>1, <2>2, <2>3
<1>5. FailForGood(r) \/ FailStatus(r) \/ FailTransport(r) => \E e \in Errors : Fail(r, e)
  BY DEF FailForGood, FailStatus, FailTransport, Errors
<1>4. CASE StrayProcessed(r) \/ BackoffEnds(r) \/ BackoffCancelled(r)
  BY <1>4 DEF StrayProcessed, BackoffEnds, BackoffCancelled
<1> QED BY <1>1, <1>2, <1>3, <1>4, <1>5 DEF CallNext

LEMMA CallKeepsEvidence ==
  ASSUME IndInv, NEW r \in Calls, CallNext(r)
  PROVE  Evidence(r)'
<1> USE ClientAssumption DEF IndInv, TypeOK, Evidence, Return, Outcomes, Errors, Pending
<1>1. CASE Begin(r) \/ ContextDone(r) \/ Send(r) \/ ServerProcesses(r)
  BY <1>1 DEF Begin, ContextDone, Send, ServerProcesses
<1>2. CASE Succeed(r)
  BY <1>2 DEF Succeed
<1>3. ASSUME NEW e \in Errors, Fail(r, e),
             FailForGood(r) \/ FailStatus(r) \/ FailTransport(r)
      PROVE  Evidence(r)'
  <2>1. /\ pc[r] = "sent" /\ processed' = processed /\ arrived' = arrived
    BY <1>3 DEF FailForGood, FailStatus, FailTransport
  <2> QED BY <1>3, <2>1 DEF Fail, Retryable
<1>4. CASE StrayProcessed(r) \/ BackoffEnds(r) \/ BackoffCancelled(r)
  BY <1>4 DEF StrayProcessed, BackoffEnds, BackoffCancelled
<1>5. FailForGood(r) \/ FailStatus(r) \/ FailTransport(r) => \E e \in Errors : Fail(r, e)
  BY DEF FailForGood, FailStatus, FailTransport
<1> QED BY <1>1, <1>2, <1>3, <1>4, <1>5 DEF CallNext

LEMMA CallKeepsVerdict ==
  ASSUME IndInv, NEW r \in Calls, CallNext(r)
  PROVE  /\ verdict'[r] => pc'[r] = "returned"
         /\ outcome'[r] \notin {"request", "context"}
<1> USE DEF IndInv, TypeOK, NoAttemptAfterVerdict, NeverBareRequestError, Return
<1>1. CASE Begin(r) \/ ContextDone(r) \/ Send(r) \/ ServerProcesses(r)
  BY <1>1 DEF Begin, ContextDone, Send, ServerProcesses
<1>2. CASE Succeed(r)
  BY <1>2 DEF Succeed
<1>3. ASSUME NEW e \in Errors, Fail(r, e),
             FailForGood(r) \/ FailStatus(r) \/ FailTransport(r)
      PROVE  /\ verdict'[r] => pc'[r] = "returned"
             /\ outcome'[r] \notin {"request", "context"}
  <2>1. CASE FailForGood(r)
    <3>1. PICK a \in {"api", "opaque"} : Fail(r, a)
      BY <2>1 DEF FailForGood
    <3>2. a \in Errors /\ ~Retryable(a)
      BY DEF Errors, Retryable
    <3> QED BY <3>1, <3>2, FailContinuesOrReturns
  <2>2. CASE FailStatus(r)
    BY <1>3, <2>2, FailContinuesOrReturns DEF FailStatus
  <2>3. CASE FailTransport(r)
    BY <1>3, <2>3, FailContinuesOrReturns DEF FailTransport
  <2> QED BY <1>3, <2>1, <2>2, <2>3
<1>5. FailForGood(r) \/ FailStatus(r) \/ FailTransport(r) => \E e \in Errors : Fail(r, e)
  BY DEF FailForGood, FailStatus, FailTransport, Errors
<1>4. CASE StrayProcessed(r) \/ BackoffEnds(r) \/ BackoffCancelled(r)
  BY <1>4 DEF StrayProcessed, BackoffEnds, BackoffCancelled
<1> QED BY <1>1, <1>2, <1>3, <1>4, <1>5 DEF CallNext

LEMMA NextKeepsIndInv == IndInv /\ [Next]_vars => IndInv'
<1> SUFFICES ASSUME IndInv, [Next]_vars PROVE IndInv'
  OBVIOUS
<1>1. CASE SetCredentials \/ UNCHANGED vars
  BY <1>1 DEF SetCredentials, vars, callVars, IndInv, TypeOK, Budget, Requests, Evidence,
     NoAttemptAfterVerdict, NeverBareRequestError
<1>2. ASSUME NEW r \in Calls, CallNext(r) PROVE IndInv'
  <2>1. TypeOK'
    BY <1>2, CallKeepsTypes
  <2>2. ASSUME NEW q \in Calls
        PROVE  /\ Budget(q)' /\ Evidence(q)'
               /\ verdict'[q] => pc'[q] = "returned"
               /\ outcome'[q] \notin {"request", "context"}
    <3>1. CASE q = r
      BY <3>1, <1>2, CallKeepsBudget, CallKeepsEvidence, CallKeepsVerdict
    <3>2. CASE q # r
      <4>1. TypeOK /\ Budget(q) /\ Evidence(q) /\ (verdict[q] => pc[q] = "returned") /\ outcome[q] \notin {"request", "context"}
        BY DEF IndInv, NoAttemptAfterVerdict, NeverBareRequestError
      <4> QED BY <1>2, <3>2, <4>1, CallsAreIndependent DEF Budget, Requests, Evidence
    <3> QED BY <3>1, <3>2
  <2> QED BY <2>1, <2>2 DEF IndInv, NoAttemptAfterVerdict, NeverBareRequestError
<1> QED BY <1>1, <1>2 DEF Next

LEMMA IndInvHolds == Spec => []IndInv
<1>1. Init => IndInv
  BY InitIndInv
<1>2. IndInv /\ [Next]_vars => IndInv'
  BY NextKeepsIndInv
<1> QED BY <1>1, <1>2, PTL DEF Spec

\* Every variable of the client's calls keeps its type; in particular the loop
\* variable never passes MaxRetries.
THEOREM TypeCorrect == Spec => []TypeOK
<1>1. IndInv => TypeOK
  BY DEF IndInv
<1> QED BY <1>1, IndInvHolds, PTL

\* However requests and responses are lost or delayed and contexts end, a call
\* takes effect at most MaxRetries + 1 times.
THEOREM CallEffectsBounded == Spec => []EffectsBounded
<1>1. IndInv => EffectsBounded
  <2> SUFFICES ASSUME IndInv, NEW r \in Calls PROVE processed[r] + stray[r] <= MaxRetries + 1
    BY DEF EffectsBounded
  <2>1. processed[r] \in Nat /\ stray[r] \in Nat /\ attempt[r] \in 0..MaxRetries /\ Budget(r)
    BY DEF IndInv, TypeOK
  <2> QED BY <2>1, ClientAssumption DEF Budget, Requests
<1> QED BY <1>1, IndInvHolds, PTL

\* A call never returns a bare *RequestError.
THEOREM RequestErrorIsAlwaysWrapped == Spec => []NeverBareRequestError
<1>1. IndInv => NeverBareRequestError
  BY DEF IndInv
<1> QED BY <1>1, IndInvHolds, PTL

\* Once the server has given a final answer, the call makes no further attempt.
THEOREM FinalAnswerEndsCall == Spec => []NoAttemptAfterVerdict
<1>1. IndInv => NoAttemptAfterVerdict
  BY DEF IndInv
<1> QED BY <1>1, IndInvHolds, PTL

-----------------------------------------------------------------------------
(* The refinement: each step of a call is one of the contract's, or none. *)

Others(r) == \A q \in Calls \ {r} : Standing(q)' = Standing(q) /\ Requests(q)' = Requests(q)

LEMMA OthersStand ==
  ASSUME TypeOK, NEW r \in Calls, CallNext(r) PROVE Others(r)
BY CallsAreIndependent DEF Others, Standing, Requests

\* What a step does to the state functions of the mapping, as whole functions.
LEMMA Maps ==
  ASSUME NEW r \in Calls, Others(r)
  PROVE  /\ [q \in Calls |-> Standing(q)]' = [[q \in Calls |-> Standing(q)] EXCEPT ![r] = Standing(r)']
         /\ [q \in Calls |-> Requests(q)]' = [[q \in Calls |-> Requests(q)] EXCEPT ![r] = Requests(r)']
         /\ Standing(r)' = Standing(r) => UNCHANGED [q \in Calls |-> Standing(q)]
         /\ Requests(r)' = Requests(r) => UNCHANGED [q \in Calls |-> Requests(q)]
BY DEF Others

LEMMA InitMaps == Init => Contract!CallInit
BY DEF Init, Contract!CallInit, Standing, Requests, Pending

LEMMA CallMaps ==
  ASSUME IndInv, NEW r \in Calls, CallNext(r)
  PROVE  Contract!CallStep(r) \/ UNCHANGED Contract!callVars
<1> USE DEF Contract!CallStep, Contract!callVars, Pending
<1>0. /\ TypeOK /\ Budget(r) /\ Evidence(r) /\ Others(r)
      /\ attempt[r] \in 0..MaxRetries /\ processed[r] \in Nat /\ stray[r] \in Nat
  BY OthersStand DEF IndInv, TypeOK
<1>1. CASE Begin(r)
  <2>1. CASE registered
    <3>1. Standing(r)' = Standing(r) /\ Requests(r)' = Requests(r)
      BY <1>0, <1>1, <2>1 DEF Begin, TypeOK, Standing, Requests
    <3> QED BY <1>0, <1>1, <3>1, Maps DEF Begin
  <2>2. CASE ~registered
    <3>1. /\ Standing(r) = "open" /\ Requests(r) = 0
          /\ Standing(r)' = "refused" /\ Requests(r)' = Requests(r)
      BY <1>0, <1>1, <2>2 DEF Begin, TypeOK, Standing, Requests, Return, Evidence
    <3> QED BY <1>0, <1>1, <3>1, Maps DEF Begin, Contract!Refuse
  <2> QED BY <2>1, <2>2
<1>2. CASE ContextDone(r) \/ BackoffEnds(r)
  <2>1. Standing(r)' = Standing(r) /\ Requests(r)' = Requests(r)
    BY <1>0, <1>2 DEF ContextDone, BackoffEnds, TypeOK, Standing, Requests
  <2> QED BY <1>0, <1>2, <2>1, Maps DEF ContextDone, BackoffEnds
<1>3. CASE Send(r)
  <2>1. /\ Standing(r) = "open" /\ ~verdict[r] /\ Requests(r) < MaxRetries + 1
        /\ Standing(r)' = Standing(r) /\ Requests(r)' = Requests(r) + 1
    BY <1>0, <1>3, ClientAssumption
       DEF Send, TypeOK, Standing, Requests, IndInv, NoAttemptAfterVerdict
  <2> QED BY <1>0, <1>3, <2>1, Maps DEF Send, Contract!Request
<1>4. CASE ServerProcesses(r) \/ StrayProcessed(r)
  <2>1. /\ Standing(r)' = Standing(r) /\ Requests(r)' = Requests(r) /\ processed[r] < Requests(r)
        /\ processed' = [processed EXCEPT ![r] = @ + 1] /\ verdict' = verdict
    BY <1>0, <1>4 DEF ServerProcesses, StrayProcessed, TypeOK, Standing, Requests, Budget
  <2> QED BY <1>0, <2>1, Maps DEF Contract!TakeEffect
<1>5. CASE Succeed(r)
  <2>1. /\ Standing(r) = "open" /\ processed[r] > 0
        /\ Standing(r)' = "ok" /\ Requests(r)' = Requests(r)
    BY <1>0, <1>5 DEF Succeed, TypeOK, Standing, Requests, Return, Evidence
  <2> QED BY <1>0, <1>5, <2>1, Maps DEF Succeed, Contract!Succeed
<1>6. CASE BackoffCancelled(r)
  <2>1. /\ Standing(r) = "open" /\ Requests(r) > 0
        /\ Standing(r)' = "failed" /\ Requests(r)' = Requests(r)
    BY <1>0, <1>6 DEF BackoffCancelled, TypeOK, Standing, Requests, Return, Evidence
  <2> QED BY <1>0, <1>6, <2>1, Maps DEF BackoffCancelled, Contract!Fail
<1>7. ASSUME NEW e \in Errors, Fail(r, e),
             FailForGood(r) \/ FailStatus(r) \/ FailTransport(r)
      PROVE  /\ Standing(r) = "open" /\ Requests(r) > 0 /\ Requests(r)' = Requests(r)
             /\ \/ Standing(r)' = "open" /\ Retryable(e)
                \/ Standing(r)' = "failed"
  <2>1. pc[r] = "sent"
    BY <1>7 DEF FailForGood, FailStatus, FailTransport
  <2> QED BY <1>0, <1>7, <2>1, FailContinuesOrReturns DEF TypeOK, Standing, Requests
<1>8. CASE FailStatus(r) \/ FailTransport(r)
  <2>1. PICK e \in Errors : Fail(r, e)
    BY <1>8 DEF FailStatus, FailTransport, Errors
  <2>2. processed' = processed /\ verdict' = verdict
    BY <1>8 DEF FailStatus, FailTransport
  <2> QED BY <1>0, <1>7, <1>8, <2>1, <2>2, Maps DEF Contract!Fail
<1>9. CASE FailForGood(r)
  <2>1. PICK e \in {"api", "opaque"} : Fail(r, e)
    BY <1>9 DEF FailForGood
  <2>2. e \in Errors /\ ~Retryable(e)
    BY DEF Errors, Retryable
  <2>3. processed' = processed /\ verdict' = [verdict EXCEPT ![r] = TRUE]
    BY <1>9 DEF FailForGood
  <2> QED BY <1>0, <1>7, <1>9, <2>1, <2>2, <2>3, Maps DEF Contract!Fail
<1> QED BY <1>1, <1>2, <1>3, <1>4, <1>5, <1>6, <1>8, <1>9 DEF CallNext

\* Every call of doRequest, over any network and wherever its context ends, is a
\* remote call in the sense of RemoteCall: at most MaxRetries + 1 requests, none
\* after a final answer, success only for a request that took effect.
THEOREM CallImplementsContract == Spec => ImplementsRemoteCall
<1>1. IndInv /\ [Next]_vars =>
        [\E r \in Calls : Contract!CallStep(r)]_(Contract!callVars)
  <2> SUFFICES ASSUME IndInv, [Next]_vars
               PROVE  (\E r \in Calls : Contract!CallStep(r)) \/ UNCHANGED Contract!callVars
    OBVIOUS
  <2>1. CASE SetCredentials \/ UNCHANGED vars
    BY <2>1 DEF SetCredentials, vars, callVars, Contract!callVars, Standing, Requests
  <2>2. ASSUME NEW r \in Calls, CallNext(r)
        PROVE  (\E q \in Calls : Contract!CallStep(q)) \/ UNCHANGED Contract!callVars
    BY <2>2, CallMaps
  <2> QED BY <2>1, <2>2 DEF Next
<1> QED
  BY <1>1, InitMaps, IndInvHolds, PTL DEF Spec, ImplementsRemoteCall, Contract!CallSpec

\* What the caller may conclude from what doRequest returned: nil only when the
\* server has processed the request, a missing client id only when it never did
\* and never will, and a cancelled backoff leaves one attempt unmade.
OutcomeTells ==
  \A r \in Calls :
    /\ outcome[r] = "none" => processed[r] > 0
    /\ outcome[r] = "unregistered" => processed[r] = 0 /\ stray[r] = 0
    /\ outcome[r] = "cancelled" => processed[r] + stray[r] <= MaxRetries

THEOREM OutcomeIsEvidence == Spec => []OutcomeTells
<1>1. IndInv => OutcomeTells
  <2> SUFFICES ASSUME IndInv, NEW r \in Calls
               PROVE  /\ outcome[r] = "none" => processed[r] > 0
                      /\ outcome[r] = "unregistered" => processed[r] = 0 /\ stray[r] = 0
                      /\ outcome[r] = "cancelled" => processed[r] + stray[r] <= MaxRetries
    BY DEF OutcomeTells
  <2>1. /\ Budget(r) /\ Evidence(r) /\ attempt[r] \in 0..MaxRetries
        /\ processed[r] \in Nat /\ stray[r] \in Nat
    BY DEF IndInv, TypeOK
  <2> QED BY <2>1, ClientAssumption DEF Budget, Evidence, Requests, Pending
<1> QED BY <1>1, IndInvHolds, PTL

-----------------------------------------------------------------------------
(* The loop ends: what CallReturns needs besides fairness. *)

\* How far a call has come. An attempt takes three steps of the loop.
Progress(r) ==
  CASE pc[r] = "idle" -> 0
    [] pc[r] = "backoff" -> 3 * attempt[r]
    [] pc[r] = "ready" -> 3 * attempt[r] + 1
    [] pc[r] = "sent" -> 3 * attempt[r] + 2
    [] pc[r] = "returned" -> 3 * MaxRetries + 3

\* A call only goes forward, whatever the network, its context and the other calls
\* do, and its way is bounded: at most 3 * MaxRetries + 3 steps to its return.
CallsGoForward ==
  [][\A r \in Calls :
       /\ Progress(r)' \in Progress(r)..(3 * MaxRetries + 3)
       /\ pc'[r] # pc[r] => Progress(r)' > Progress(r)]_vars

THEOREM CallsAreFinite == Spec => CallsGoForward
<1>1. ASSUME IndInv, IndInv', NEW r \in Calls, [Next]_vars
      PROVE  /\ Progress(r)' \in Progress(r)..(3 * MaxRetries + 3)
             /\ pc'[r] # pc[r] => Progress(r)' > Progress(r)
  <2>1. /\ pc[r] \in {"idle", "ready", "sent", "backoff", "returned"}
        /\ pc'[r] \in {"idle", "ready", "sent", "backoff", "returned"}
        /\ attempt[r] \in 0..MaxRetries /\ attempt'[r] \in 0..MaxRetries
    BY <1>1 DEF IndInv, TypeOK
  <2>2. Progress(r)' \in 0..(3 * MaxRetries + 3)
    BY <2>1, ClientAssumption DEF Progress
  <2>3. CASE pc'[r] = pc[r] /\ attempt'[r] = attempt[r]
    BY <2>1, <2>2, <2>3, ClientAssumption DEF Progress
  <2>4. CASE CallNext(r) /\ ~(pc'[r] = pc[r] /\ attempt'[r] = attempt[r])
    <3>1. CASE Begin(r) \/ Send(r) \/ Succeed(r) \/ BackoffEnds(r) \/ BackoffCancelled(r)
      BY <1>1, <2>1, <3>1, ClientAssumption
         DEF Begin, Send, Succeed, BackoffEnds, BackoffCancelled, Return, Progress, IndInv, TypeOK,
             Evidence
    <3>2. CASE FailForGood(r) \/ FailStatus(r) \/ FailTransport(r)
      <4>1. pc[r] = "sent" /\ \E e \in Errors : Fail(r, e)
        BY <3>2 DEF FailForGood, FailStatus, FailTransport, Errors
      <4> QED BY <1>1, <2>1, <4>1, FailContinuesOrReturns, ClientAssumption
              DEF Progress, IndInv, TypeOK
    <3>3. CASE ContextDone(r) \/ ServerProcesses(r) \/ StrayProcessed(r)
      BY <2>4, <3>3 DEF ContextDone, ServerProcesses, StrayProcessed
    <3> QED BY <2>4, <3>1, <3>2, <3>3 DEF CallNext
  <2>5. CASE ~CallNext(r)
    <3>1. pc'[r] = pc[r] /\ attempt'[r] = attempt[r]
      <4>1. CASE SetCredentials \/ UNCHANGED vars
        BY <4>1 DEF SetCredentials, vars, callVars
      <4>2. ASSUME NEW q \in Calls, CallNext(q) PROVE pc'[r] = pc[r] /\ attempt'[r] = attempt[r]
        BY <1>1, <2>5, <4>2, CallsAreIndependent DEF IndInv
      <4> QED BY <1>1, <4>1, <4>2 DEF Next
    <3> QED BY <2>3, <3>1
  <2> QED BY <2>3, <2>4, <2>5
<1>2. IndInv /\ IndInv' /\ [Next]_vars =>
        [\A r \in Calls :
           /\ Progress(r)' \in Progress(r)..(3 * MaxRetries + 3)
           /\ pc'[r] # pc[r] => Progress(r)' > Progress(r)]_vars
  BY <1>1
<1> QED BY <1>2, IndInvHolds, PTL DEF Spec, CallsGoForward
=============================================================================
