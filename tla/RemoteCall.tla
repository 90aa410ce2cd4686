------------------------------- MODULE RemoteCall -------------------------------
(***************************************************************************)
(* What doRequest promises about a call over an unreliable network:        *)
(*   - it makes at most Limit requests, none after it has returned or the  *)
(*     server has given a final answer, and each takes effect at most once;*)
(*   - it reports success only after at least one of them took effect;     *)
(*   - a call that is refused by the client never makes a request.         *)
(* An effect may come late, after the call has returned.                   *)
(***************************************************************************)
EXTENDS Naturals

CONSTANTS Calls, Limit

VARIABLES standing,   \* per call: "open", or how it has returned
          requests,   \* per call: requests handed to the network
          effects,    \* per call: requests that have taken effect on the server
          answered    \* per call: the server has given a final answer

callVars == <<standing, requests, effects, answered>>

CallInit ==
  /\ standing = [r \in Calls |-> "open"]
  /\ requests = [r \in Calls |-> 0]
  /\ effects = [r \in Calls |-> 0]
  /\ answered = [r \in Calls |-> FALSE]

Refuse(r) ==
  /\ standing[r] = "open" /\ requests[r] = 0
  /\ standing' = [standing EXCEPT ![r] = "refused"]
  /\ UNCHANGED <<requests, effects, answered>>

Request(r) ==
  /\ standing[r] = "open" /\ ~answered[r] /\ requests[r] < Limit
  /\ requests' = [requests EXCEPT ![r] = @ + 1]
  /\ UNCHANGED <<standing, effects, answered>>

TakeEffect(r) ==
  /\ effects[r] < requests[r]
  /\ effects' = [effects EXCEPT ![r] = @ + 1]
  /\ UNCHANGED <<standing, requests, answered>>

Succeed(r) ==
  /\ standing[r] = "open" /\ effects[r] > 0
  /\ standing' = [standing EXCEPT ![r] = "ok"]
  /\ answered' = [answered EXCEPT ![r] = TRUE]
  /\ UNCHANGED <<requests, effects>>

\* With a final answer, or for want of one.
Fail(r) ==
  /\ standing[r] = "open" /\ requests[r] > 0
  /\ standing' = [standing EXCEPT ![r] = "failed"]
  /\ \/ answered' = [answered EXCEPT ![r] = TRUE]
     \/ UNCHANGED answered
  /\ UNCHANGED <<requests, effects>>

CallStep(r) == Refuse(r) \/ Request(r) \/ TakeEffect(r) \/ Succeed(r) \/ Fail(r)

CallSpec == CallInit /\ [][\E r \in Calls : CallStep(r)]_callVars
=============================================================================
