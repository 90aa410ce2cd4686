------------------------------ MODULE Registration ------------------------------
(***************************************************************************)
(* The identity of the client in one process of the agent: the credentials *)
(* in its configuration and in its API client, how internal/agent obtains  *)
(* and verifies them, and the second registration service of internal/api, *)
(* which programs that embed the packages may call as well.                *)
(*                                                                         *)
(* An identity is a client id with the token issued for it. The server     *)
(* issues one for every registration request it processes, whether its     *)
(* answer arrives or not, and accepts it until it is revoked.              *)
(***************************************************************************)
EXTENDS Naturals

CONSTANTS MaxAttempts,    \* maxRegistrationRetries, or maxRetries + 1 of internal/api
          MaxIdentities   \* bound on the identities the server issues

ASSUME RegistrationAssumption == MaxAttempts \in Nat \ {0} /\ MaxIdentities \in Nat \ {0}

VARIABLES
  file,       \* the identity in the configuration file, 0 for none
  config,     \* Config.Client
  client,     \* id and token of the API client
  registered, \* Agent.registered
  issued,     \* identities the server has issued are 1..issued
  valid,      \* those it accepts
  call,       \* the call of a registration service under way
  stage,      \* where it stands
  attempt,    \* its registration attempt
  holds,      \* the identity it has read from the configuration or received
  returned,   \* the identity the last call returned, 0 for an error
  confirmed,  \* history: identities the server has issued to the call or accepted from it
  dropped,    \* history: the identity a ReRegister took from the configuration alone
  strays      \* history: identities issued while Start registered

memoryVars ==
  <<config, client, registered, call, stage, attempt, holds, returned, confirmed, dropped>>
serverVars == <<issued, valid>>
registrationVars == <<file, memoryVars, serverVars, strays>>

Identities == 1..MaxIdentities
None == 0

\* Start of the agent; EnsureRegistered and ReRegister of internal/agent; Register,
\* EnsureRegistered and Reregister of internal/api.
AgentCalls == {"start", "ensure", "force"}
ApiCalls == {"apiRegister", "apiEnsure", "apiForce"}
Stages == {"fresh", "ready", "failed", "verify", "clear", "clearClient", "attempt", "set", "store"}

Keep == UNCHANGED <<file, serverVars, strays>>

\* The call returns; a Start that fails ends the worker.
Returns(id) ==
  /\ returned' = id
  /\ stage' = IF call = "start" /\ id = None THEN "failed" ELSE "ready"

-----------------------------------------------------------------------------

\* (mutant) credentials of the file are used, but the flag is left to Start
NewAgentUnflagged ==
  /\ config' = file /\ client' = file /\ registered' = FALSE
  /\ call' = "start" /\ stage' = "fresh" /\ attempt' = 0 /\ holds' = None /\ returned' = None
  /\ confirmed' = {} /\ dropped' = None
  /\ UNCHANGED <<file, serverVars, strays>>

\* A new process: the configuration as it is in the file, and initAPIClient.
NewAgent ==
  /\ config' = file /\ client' = file
  /\ registered' = (file # None)
  /\ call' = "start" /\ stage' = "fresh" /\ attempt' = 0 /\ holds' = None /\ returned' = None
  /\ confirmed' = {} /\ dropped' = None
  /\ UNCHANGED <<file, serverVars, strays>>

Attempts == stage' = "attempt" /\ attempt' = 1 /\ UNCHANGED returned

\* What EnsureRegistered does first; the service of internal/api refuses to register
\* a client that has an identity.
Ensure ==
  /\ holds' = config
  /\ IF config # None THEN stage' = "verify" /\ UNCHANGED <<attempt, returned>> ELSE Attempts

Start ==
  /\ stage = "fresh" /\ UNCHANGED <<config, client, registered, call, confirmed, dropped>> /\ Keep
  /\ \/ registered /\ stage' = "ready" /\ UNCHANGED <<attempt, holds, returned>>
     \/ ~registered /\ Ensure

\* A call made to a registration service in a running agent, one at a time.
Call(k) ==
  /\ stage = "ready" /\ k # "start"
  /\ call' = k /\ confirmed' = {}
  /\ CASE k \in {"ensure", "apiEnsure"} -> Ensure
       [] k \in {"force", "apiForce"} ->
            stage' = "clear" /\ UNCHANGED <<attempt, holds, returned>>
       [] OTHER ->
            IF config # None THEN returned' = None /\ UNCHANGED <<stage, attempt, holds>>
            ELSE Attempts /\ UNCHANGED holds
  /\ UNCHANGED <<config, client, registered, dropped>> /\ Keep

\* (mutant) only a refusal makes credentials invalid: a lost heartbeat verifies them
VerifyUnlessRefused ==
  /\ stage = "verify"
  /\ UNCHANGED <<config, client, registered, call, holds, attempt, confirmed, dropped>> /\ Keep
  /\ \/ Returns(holds)
     \/ stage' = "clear" /\ UNCHANGED returned

\* verifyCredentials and ValidateCredentials send a heartbeat with the identity of
\* the API client; any error, of the network too, makes the credentials invalid.
Verify ==
  /\ stage = "verify" /\ UNCHANGED <<config, client, registered, call, holds, dropped>> /\ Keep
  /\ \/ /\ client \in valid /\ confirmed' = confirmed \cup {client}
        /\ Returns(holds) /\ UNCHANGED attempt
     \/ IF call \in AgentCalls THEN Attempts /\ UNCHANGED confirmed
        ELSE stage' = "clear" /\ UNCHANGED <<attempt, returned, confirmed>>

\* ReRegister clears the configuration, Reregister the API client as well. If the
\* registration fails then, the client goes on sending what ReRegister has not cleared.
ClearConfig ==
  /\ stage = "clear" /\ config' = None
  /\ IF call \in AgentCalls
       THEN Attempts /\ dropped' = IF config # None THEN config ELSE dropped
       ELSE stage' = "clearClient" /\ UNCHANGED <<attempt, returned, dropped>>
  /\ UNCHANGED <<client, registered, call, holds, confirmed>> /\ Keep
ClearClient ==
  /\ stage = "clearClient" /\ client' = None /\ dropped' = None /\ Attempts
  /\ UNCHANGED <<config, registered, call, holds, confirmed>> /\ Keep

\* (mutant) the loop makes one attempt too many
RequestFailsLate ==
  \/ attempt <= MaxAttempts /\ attempt' = attempt + 1 /\ UNCHANGED <<stage, returned>>
  \/ Returns(None) /\ UNCHANGED attempt

\* A request to register: the server may process it, the answer may be lost, and
\* doRequest may send it again within the attempt.
\* Between attempts, and after the last, the context may also be done.
RequestFails ==
  \/ attempt < MaxAttempts /\ attempt' = attempt + 1 /\ UNCHANGED <<stage, returned>>
  \/ Returns(None) /\ UNCHANGED attempt

Issues(id) ==
  /\ id = issued + 1 /\ id <= MaxIdentities
  /\ issued' = id /\ valid' = valid \cup {id}
  /\ confirmed' = confirmed \cup {id}
  /\ strays' = IF call = "start" THEN strays \cup {id} ELSE strays

Register ==
  /\ stage = "attempt" /\ UNCHANGED <<file, config, client, registered, call, dropped>>
  /\ \/ \E id \in Identities :
          /\ Issues(id)
          /\ \/ holds' = id /\ stage' = "set" /\ UNCHANGED <<attempt, returned>>
             \/ RequestFails /\ UNCHANGED holds
             \/ UNCHANGED <<attempt, stage, returned, holds>>
     \/ RequestFails /\ UNCHANGED <<holds, serverVars, strays, confirmed>>

\* (mutant) the client keeps sending what it sent before
SetForgotten ==
  /\ stage = "set" /\ stage' = "store"
  /\ UNCHANGED <<config, client, registered, call, attempt, holds, returned, confirmed, dropped>>
  /\ Keep

\* Client.Register sets the credentials of the client; then its caller those of the
\* configuration, in memory only; Start remembers that there are some.
SetCredentials ==
  /\ stage = "set" /\ stage' = "store" /\ client' = holds /\ dropped' = None
  /\ UNCHANGED <<config, registered, call, attempt, holds, returned, confirmed>> /\ Keep
UpdateClientCredentials ==
  /\ stage = "store" /\ config' = holds /\ Returns(holds)
  /\ registered' = (registered \/ call = "start")
  /\ UNCHANGED <<client, call, attempt, holds, confirmed, dropped>> /\ Keep

\* The server revokes an identity.
Revoke ==
  /\ \E id \in valid : valid' = valid \ {id}
  /\ UNCHANGED <<file, memoryVars, issued, strays>>

\* The client comes with an identity in its file, issued before, or with none.
RegistrationInit ==
  /\ file \in {None, 1} /\ issued = file /\ valid \in SUBSET {id \in Identities : id <= file}
  /\ config = file /\ client = file /\ registered = (file # None)
  /\ call = "start" /\ stage = "fresh" /\ attempt = 0 /\ holds = None /\ returned = None
  /\ confirmed = {} /\ dropped = None /\ strays = {}

RegistrationStep ==
  \/ Start \/ Verify \/ ClearConfig \/ ClearClient \/ Register
  \/ SetCredentials \/ UpdateClientCredentials

RegistrationNext ==
  NewAgent \/ RegistrationStep \/ Revoke \/ \E k \in AgentCalls \cup ApiCalls : Call(k)

RegistrationSpec == RegistrationInit /\ [][RegistrationNext]_registrationVars

-----------------------------------------------------------------------------

RegistrationTypeOK ==
  /\ file \in 0..MaxIdentities /\ config \in 0..MaxIdentities /\ client \in 0..MaxIdentities
  /\ registered \in BOOLEAN /\ issued \in 0..MaxIdentities /\ valid \subseteq 1..issued
  /\ call \in AgentCalls \cup ApiCalls /\ stage \in Stages
  /\ attempt \in 0..MaxAttempts /\ holds \in 0..MaxIdentities /\ returned \in 0..MaxIdentities
  /\ confirmed \subseteq Identities /\ dropped \in 0..MaxIdentities /\ strays \subseteq Identities

\* The configuration and the API client keep copies of the identity and are written
\* one after the other, by two services that clear and fail in different ways. Between
\* calls they are the same, except where a ReRegister cleared the configuration
\* (registration.go of internal/agent, "Clear existing credentials") and no
\* registration has succeeded since: then the client still sends exactly the identity
\* cleared there. Two different identities, or a configured one that is not sent,
\* never occur.
CredentialsAgree ==
  stage = "ready" => client = config \/ (config = None /\ client = dropped)

\* What EnsureRegistered reads is in the configuration, what it verifies is in the
\* client, and what it returns must be an identity the server has confirmed to this
\* call, whatever forced registrations failed before, and although any failure of
\* the verification throws the identity away.
ReturnedIsConfirmed == stage = "ready" /\ returned # None => returned \in confirmed

\* A client with an identity in its file is never given another one by the agent's
\* own start, through any sequence of crashes, restarts, revocations and timeouts.
IdentityIsKept == file # None => strays = {}
=============================================================================
