------------------------------ MODULE RetryClient ------------------------------
(***************************************************************************)
(* internal/api/client.go: doRequest, its retry loop and its error classes,*)
(* as run by several calls of one Client at once, over a network that      *)
(* loses requests and responses.                                           *)
(*                                                                         *)
(* A call is one invocation of Heartbeat, UploadMetrics, GetCommands or    *)
(* SubmitCommandResult. One attempt has two steps: Send, executeRequest up *)
(* to httpClient.Do, and the answer, which decides the error executeRequest*)
(* returns and what doRequest makes of it. Between them the server may or  *)
(* may not have processed the request, whatever the client gets to see.    *)
(*                                                                         *)
(* Which client id and token a request carries is left to the model of     *)
(* registration; here a call only needs to know whether there is one.      *)
(***************************************************************************)
EXTENDS Naturals

CONSTANTS Calls,
          MaxRetries   \* retryConfig.MaxRetries

ASSUME ClientAssumption == MaxRetries \in Nat

VARIABLES
  pc,           \* per call: "idle", "ready", "sent", "backoff", "returned"
  attempt,      \* per call: the loop variable
  outcome,      \* per call: class of the error doRequest returned
  ctxDone,      \* per call: its context is done
  processed,    \* per call: how many times the server has processed it
  arrived,      \* per call: the request of the current attempt has been processed
  stray,        \* per call: requests given up on that the network may still deliver
  verdict,      \* per call: history, a final answer has been seen
  registered    \* the client has a clientID

callVars == <<pc, attempt, outcome, ctxDone, processed, arrived, stray, verdict>>
vars == <<callVars, registered>>

(* Errors executeRequest returns, by what isRetryable and the callers can    *)
(* tell apart:                                                             *)
(*   status     *APIError with a status of RetryableStatusCodes            *)
(*   api        *APIError with any other status                            *)
(*   opaque     the request cannot be built, or the response not be read or*)
(*              decoded                                                    *)
(*   request    *RequestError: the transport failed                        *)
(*   context    *RequestError around the error of the call's own context   *)
(* What doRequest and the methods return on top of these:                  *)
(*   none       nil                                                        *)
(*   unregistered   the method's own refusal, before any request           *)
(*   cancelled  ctx.Err() out of the backoff                               *)
(*   exhausted  the last error, wrapped                                    *)
Errors == {"status", "api", "opaque", "request", "context"}
Outcomes == Errors \cup {"none", "unregistered", "cancelled", "exhausted"}
Pending == "pending"

Init ==
  /\ pc = [r \in Calls |-> "idle"]
  /\ attempt = [r \in Calls |-> 0]
  /\ outcome = [r \in Calls |-> Pending]
  /\ ctxDone = [r \in Calls |-> FALSE]
  /\ processed = [r \in Calls |-> 0]
  /\ arrived = [r \in Calls |-> FALSE]
  /\ stray = [r \in Calls |-> 0]
  /\ verdict = [r \in Calls |-> FALSE]
  /\ registered = FALSE

Return(r, o) ==
  /\ pc' = [pc EXCEPT ![r] = "returned"]
  /\ outcome' = [outcome EXCEPT ![r] = o]

\* SetCredentials, after a registration or from the stored configuration;
\* Reregister clears them again.
SetCredentials ==
  /\ registered' = ~registered
  /\ UNCHANGED callVars

\* The method reads the client id; without one it refuses.
Begin(r) ==
  /\ pc[r] = "idle"
  /\ IF registered
       THEN pc' = [pc EXCEPT ![r] = "ready"] /\ UNCHANGED outcome
       ELSE Return(r, "unregistered")
  /\ UNCHANGED <<attempt, ctxDone, processed, arrived, stray, verdict, registered>>

\* The caller's deadline passes or the caller cancels.
ContextDone(r) ==
  /\ pc[r] \in {"ready", "sent", "backoff"}
  /\ ~ctxDone[r]
  /\ ctxDone' = [ctxDone EXCEPT ![r] = TRUE]
  /\ UNCHANGED <<pc, attempt, outcome, processed, arrived, stray, verdict, registered>>

\* executeRequest hands the request to the transport.
Send(r) ==
  /\ pc[r] = "ready"
  /\ pc' = [pc EXCEPT ![r] = "sent"]
  /\ arrived' = [arrived EXCEPT ![r] = FALSE]
  /\ UNCHANGED <<attempt, outcome, ctxDone, processed, stray, verdict, registered>>

\* The request reaches the server and takes effect. A request whose context is
\* done before it is written is not sent.
ServerProcesses(r) ==
  /\ pc[r] = "sent"
  /\ ~arrived[r]
  /\ ~ctxDone[r]
  /\ arrived' = [arrived EXCEPT ![r] = TRUE]
  /\ processed' = [processed EXCEPT ![r] = @ + 1]
  /\ UNCHANGED <<pc, attempt, outcome, ctxDone, stray, verdict, registered>>

\* Status below 400, the body read and decoded.
Succeed(r) ==
  /\ pc[r] = "sent"
  /\ arrived[r]
  /\ verdict' = [verdict EXCEPT ![r] = TRUE]
  /\ Return(r, "none")
  /\ UNCHANGED <<attempt, ctxDone, processed, arrived, stray, registered>>

\* (mutant) unknown errors are retried
RetryableByDefault(e) == e # "api"

\* isRetryable looks at the outermost type only. An error of the context arrives
\* inside a *RequestError, like every error of the transport, and is retried: its
\* own test for context errors, meant to prevent that, comes after and never applies.
Retryable(e) == e \in {"status", "request", "context"}

\* (mutants) one attempt too many; an attempt that does not count; the last error
\* returned as it is
FailBeyondLast(r, e) ==
  IF Retryable(e) /\ attempt[r] <= MaxRetries
    THEN /\ pc' = [pc EXCEPT ![r] = "backoff"]
         /\ attempt' = [attempt EXCEPT ![r] = @ + 1]
         /\ UNCHANGED outcome
    ELSE Return(r, IF Retryable(e) THEN "exhausted" ELSE e) /\ UNCHANGED attempt

FailUncounted(r, e) ==
  IF Retryable(e)
    THEN pc' = [pc EXCEPT ![r] = "backoff"] /\ UNCHANGED <<attempt, outcome>>
    ELSE Return(r, e) /\ UNCHANGED attempt

FailUnwrapped(r, e) ==
  IF Retryable(e) /\ attempt[r] < MaxRetries
    THEN /\ pc' = [pc EXCEPT ![r] = "backoff"]
         /\ attempt' = [attempt EXCEPT ![r] = @ + 1]
         /\ UNCHANGED outcome
    ELSE Return(r, e) /\ UNCHANGED attempt

\* The loop of doRequest after the error e: the next iteration begins with a
\* backoff; after the last one the error is returned wrapped.
Fail(r, e) ==
  IF Retryable(e) /\ attempt[r] < MaxRetries
    THEN /\ pc' = [pc EXCEPT ![r] = "backoff"]
         /\ attempt' = [attempt EXCEPT ![r] = @ + 1]
         /\ UNCHANGED outcome
    ELSE Return(r, IF Retryable(e) THEN "exhausted" ELSE e) /\ UNCHANGED attempt

\* An answer decides the call: a status outside the table, or a response that
\* breaks off or does not decode. The server may have acted all the same.
FailForGood(r) ==
  /\ pc[r] = "sent"
  /\ verdict' = [verdict EXCEPT ![r] = TRUE]
  /\ \E e \in {"api", "opaque"} : Fail(r, e)
  /\ UNCHANGED <<ctxDone, processed, arrived, stray, registered>>

\* A retryable status; the server may have acted on the request before failing.
FailStatus(r) ==
  /\ pc[r] = "sent"
  /\ Fail(r, "status")
  /\ UNCHANGED <<ctxDone, processed, arrived, stray, verdict, registered>>

\* Do fails: a lost or late request, a lost response, or the context is done. A
\* request that has not arrived is lost or still on its way.
FailTransport(r) ==
  /\ pc[r] = "sent"
  /\ \/ Fail(r, "request")
     \/ ctxDone[r] /\ Fail(r, "context")
  /\ \/ ~arrived[r] /\ stray' = [stray EXCEPT ![r] = @ + 1]
     \/ UNCHANGED stray
  /\ UNCHANGED <<ctxDone, processed, arrived, verdict, registered>>

\* The network delivers a request the client has given up on.
StrayProcessed(r) ==
  /\ stray[r] > 0
  /\ stray' = [stray EXCEPT ![r] = @ - 1]
  /\ processed' = [processed EXCEPT ![r] = @ + 1]
  /\ UNCHANGED <<pc, attempt, outcome, ctxDone, arrived, verdict, registered>>

\* The backoff timer fires. With the context done too, the select takes either.
BackoffEnds(r) ==
  /\ pc[r] = "backoff"
  /\ pc' = [pc EXCEPT ![r] = "ready"]
  /\ UNCHANGED <<attempt, outcome, ctxDone, processed, arrived, stray, verdict, registered>>

BackoffCancelled(r) ==
  /\ pc[r] = "backoff"
  /\ ctxDone[r]
  /\ Return(r, "cancelled")
  /\ UNCHANGED <<attempt, ctxDone, processed, arrived, stray, verdict, registered>>

CallNext(r) ==
  \/ Begin(r) \/ ContextDone(r) \/ Send(r) \/ ServerProcesses(r)
  \/ Succeed(r) \/ FailForGood(r) \/ FailStatus(r) \/ FailTransport(r)
  \/ StrayProcessed(r) \/ BackoffEnds(r) \/ BackoffCancelled(r)

Next == SetCredentials \/ \E r \in Calls : CallNext(r)

Spec == Init /\ [][Next]_vars

\* The goroutine of a call runs, its timer fires and http.Client's own Timeout
\* ends every attempt. The server owes nothing.
Answer(r) == Succeed(r) \/ FailForGood(r) \/ FailStatus(r) \/ FailTransport(r)

Fairness ==
  \A r \in Calls : /\ WF_vars(Send(r))
                   /\ WF_vars(Answer(r))
                   /\ WF_vars(BackoffEnds(r))

FairSpec == Spec /\ Fairness

-----------------------------------------------------------------------------

TypeOK ==
  /\ pc \in [Calls -> {"idle", "ready", "sent", "backoff", "returned"}]
  /\ attempt \in [Calls -> 0..MaxRetries]
  /\ outcome \in [Calls -> Outcomes \cup {Pending}]
  /\ ctxDone \in [Calls -> BOOLEAN]
  /\ processed \in [Calls -> Nat]
  /\ arrived \in [Calls -> BOOLEAN]
  /\ stray \in [Calls -> Nat]
  /\ verdict \in [Calls -> BOOLEAN]
  /\ registered \in BOOLEAN

\* A call that is retried over lost and late requests takes effect on the server
\* at most once per attempt, MaxRetries + 1 times in all, the copies still on
\* their way included, wherever its context ends.
EffectsBounded == \A r \in Calls : processed[r] + stray[r] <= MaxRetries + 1

\* Once the server has answered for good (a success, a status that is not
\* retryable, a response that does not decode) no further attempt is made:
\* "Default to not retrying unknown errors" (client.go, isRetryable).
NoAttemptAfterVerdict == \A r \in Calls : verdict[r] => pc[r] = "returned"

\* A bare *RequestError never leaves doRequest: isRetryable takes every one of them,
\* and the one of the last attempt is wrapped. The type assertions by which queue.go
\* detects that the client is offline, on the error of a call, can therefore never
\* succeed. That this holds with the context done as well is due to the code as it
\* is, not as it is described: by "Context errors are not retryable" (client.go,
\* isRetryable) such an error would be returned at once and bare.
NeverBareRequestError == \A r \in Calls : outcome[r] \notin {"request", "context"}

\* Requests a call has handed to the network, and how it stands.
Requests(r) ==
  IF pc[r] = "sent" \/ (pc[r] = "returned" /\ outcome[r] \notin {"unregistered", "cancelled"})
    THEN attempt[r] + 1 ELSE attempt[r]
Standing(r) ==
  IF pc[r] # "returned" THEN "open"
  ELSE CASE outcome[r] = "none" -> "ok"
         [] outcome[r] = "unregistered" -> "refused"
         [] OTHER -> "failed"

Contract == INSTANCE RemoteCall WITH
  Limit <- MaxRetries + 1,
  standing <- [r \in Calls |-> Standing(r)], requests <- [r \in Calls |-> Requests(r)],
  effects <- processed, answered <- verdict

\* Through any loss and delay a call keeps the contract of a remote call: success
\* means that the server has acted, a refusal that it never will, and no request
\* follows a final answer or exceeds MaxRetries + 1 ("Default to not retrying
\* unknown errors", client.go, isRetryable).
ImplementsRemoteCall == Contract!CallSpec

\* A call that begins returns, also when every attempt fails.
CallReturns == \A r \in Calls : pc[r] = "ready" ~> pc[r] = "returned"
=============================================================================
