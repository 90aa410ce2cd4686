---------------------------- MODULE AgentHostProofs -----------------------------
(***************************************************************************)
(* Theorems about the agent as a service of its host, for any number of    *)
(* administrators, processes, attempts and identities.                     *)
(*                                                                         *)
(* AgentHost is a composition: each of its steps is a step of the service  *)
(* beside one of the registration, or leaves one of them as it is. So it   *)
(* implements both specifications, and the invariants are proved where the *)
(* state is: OneWorker from what the service manager shows of the          *)
(* processes, what the success of a command tells from that and from the   *)
(* calls that belong to each command, the others from where the identity   *)
(* has been copied at each stage of a registration.                        *)
(***************************************************************************)
EXTENDS AgentHost, TLAPS

USE ServiceAssumption, RegistrationAssumption, ScenarioAssumption

-----------------------------------------------------------------------------
(* Registration *)

\* The steps of Registration, with the helpers they share.
LEMMA RegistrationTypeStep ==
  ASSUME RegistrationTypeOK, RegistrationNext PROVE RegistrationTypeOK'
<1> USE DEF RegistrationTypeOK, Identities, None, Stages, AgentCalls, ApiCalls, Keep, serverVars
<1>1. CASE NewAgent
  BY <1>1 DEF NewAgent
<1>2. CASE Start
  BY <1>2 DEF Start, Ensure, Attempts
<1>a. /\ 1 \in 0..MaxAttempts
      /\ \A n \in 0..MaxAttempts : n < MaxAttempts => n + 1 \in 0..MaxAttempts
  OBVIOUS
<1>b. \A id \in valid : id \in Identities
  OBVIOUS
<1>3. CASE Verify
  <2>1. CASE confirmed' = confirmed
    BY <1>3, <1>a, <2>1 DEF Verify, Returns, Attempts
  <2>2. CASE client \in valid /\ confirmed' = confirmed \cup {client} /\ Returns(holds) /\ UNCHANGED attempt
    BY <1>3, <1>b, <2>2 DEF Verify, Returns
  <2> QED
    BY <1>3, <2>1, <2>2 DEF Verify
<1>4. CASE ClearConfig \/ ClearClient
  <2>1. CASE ClearConfig
    BY <2>1, <1>a DEF ClearConfig, Attempts
  <2>2. CASE ClearClient
    BY <2>2, <1>a DEF ClearClient, Attempts
  <2> QED
    BY <1>4, <2>1, <2>2
<1>5. CASE Register
  <2>1. ASSUME NEW id \in Identities, Issues(id)
        PROVE  /\ issued' \in 0..MaxIdentities /\ valid' \subseteq 1..issued'
               /\ confirmed' \subseteq Identities /\ strays' \subseteq Identities
    BY <2>1 DEF Issues
  <2>2. RequestFails => attempt' \in 0..MaxAttempts /\ stage' \in Stages /\ returned' \in 0..MaxIdentities
    BY <1>a DEF RequestFails, Returns
  <2>3. CASE RequestFails /\ UNCHANGED <<holds, serverVars, strays, confirmed>>
    BY <1>5, <2>2, <2>3 DEF Register
  <2>4. ASSUME NEW id \in Identities, Issues(id),
               \/ holds' = id /\ stage' = "set" /\ UNCHANGED <<attempt, returned>>
               \/ RequestFails /\ UNCHANGED holds
               \/ UNCHANGED <<attempt, stage, returned, holds>>
        PROVE  RegistrationTypeOK'
    <3>1. holds' \in 0..MaxIdentities /\ attempt' \in 0..MaxAttempts
          /\ stage' \in Stages /\ returned' \in 0..MaxIdentities
      BY <2>2, <2>4
    <3> QED
      BY <1>5, <2>1, <2>4, <3>1 DEF Register
  <2> QED
    BY <1>5, <2>3, <2>4 DEF Register
<1>6. CASE SetCredentials \/ UpdateClientCredentials
  <2>1. CASE SetCredentials
    BY <2>1 DEF SetCredentials
  <2>2. CASE UpdateClientCredentials
    BY <2>2 DEF UpdateClientCredentials, Returns
  <2> QED
    BY <1>6, <2>1, <2>2
<1>7. CASE Revoke
  BY <1>7 DEF Revoke, memoryVars
<1>8. ASSUME NEW k \in AgentCalls \cup ApiCalls, Call(k) PROVE RegistrationTypeOK'
  BY <1>8 DEF Call, Ensure, Attempts
<1> QED
  BY <1>1, <1>2, <1>3, <1>4, <1>5, <1>6, <1>7, <1>8 DEF RegistrationNext, RegistrationStep

LEMMA RegistrationTypeInvariant == RegistrationSpec => []RegistrationTypeOK
<1>1. RegistrationInit => RegistrationTypeOK
  BY DEF RegistrationInit, RegistrationTypeOK, Identities, None, Stages, AgentCalls, ApiCalls
<1>2. RegistrationTypeOK /\ [RegistrationNext]_registrationVars => RegistrationTypeOK'
  <2>1. RegistrationTypeOK /\ UNCHANGED registrationVars => RegistrationTypeOK'
    BY DEF RegistrationTypeOK, registrationVars, memoryVars, serverVars
  <2> QED
    BY RegistrationTypeStep, <2>1
<1> QED
  BY <1>1, <1>2, PTL DEF RegistrationSpec

\* Where the copies of the identity are at each stage: what is verified is what the
\* configuration and the client both have, and what is stored the client has already.
Copies ==
  /\ (stage # "store" /\ config # None) => client = config
  /\ (stage \notin {"store", "clearClient"} /\ config = None) => client \in {None, dropped}
  /\ stage = "store" => client = holds
  /\ stage = "clearClient" => config = None
  /\ stage = "verify" => holds = config /\ config # None
  /\ stage \in {"set", "store"} => holds \in confirmed
  /\ stage = "fresh" => returned = None

\* An agent with an identity in its file has it from the start and does not register.
Known ==
  (call = "start" /\ file # None) =>
    stage \in {"fresh", "ready"} /\ (stage = "fresh" => registered)

RegistrationInv == Copies /\ Known /\ ReturnedIsConfirmed /\ IdentityIsKept

LEMMA RegistrationInvStep ==
  ASSUME RegistrationTypeOK, RegistrationInv, RegistrationNext PROVE RegistrationInv'
<1> USE DEF RegistrationInv, Copies, Known, ReturnedIsConfirmed, IdentityIsKept, Keep, serverVars,
            None, AgentCalls, ApiCalls
<1>1. CASE NewAgent
  BY <1>1 DEF NewAgent
<1>2. CASE Start
  BY <1>2 DEF Start, Ensure, Attempts
<1>3. CASE Verify
  BY <1>3 DEF Verify, Returns, Attempts
<1>4. CASE ClearConfig \/ ClearClient
  <2>1. CASE ClearConfig
    BY <2>1 DEF ClearConfig, Attempts
  <2>2. CASE ClearClient
    BY <2>2 DEF ClearClient, Attempts
  <2> QED
    BY <1>4, <2>1, <2>2
<1>5. CASE Register
  <2>1. CASE RequestFails /\ UNCHANGED <<holds, serverVars, strays, confirmed>>
    BY <1>5, <2>1 DEF Register, RequestFails, Returns
  <2>2. ASSUME NEW id \in Identities, Issues(id), stage = "attempt",
               UNCHANGED <<file, config, client, registered, call, dropped>>,
               \/ holds' = id /\ stage' = "set" /\ UNCHANGED <<attempt, returned>>
               \/ RequestFails /\ UNCHANGED holds
               \/ UNCHANGED <<attempt, stage, returned, holds>>
        PROVE  RegistrationInv'
    <3>1. strays' = strays \/ file = None
      BY <2>2 DEF Issues
    <3>2. confirmed' = confirmed \cup {id}
      BY <2>2 DEF Issues
    <3> QED
      BY <2>2, <3>1, <3>2 DEF RequestFails, Returns
  <2> QED
    BY <1>5, <2>1, <2>2 DEF Register
<1>6. CASE SetCredentials \/ UpdateClientCredentials
  BY <1>6 DEF SetCredentials, UpdateClientCredentials, Returns
<1>7. CASE Revoke
  BY <1>7 DEF Revoke, memoryVars
<1>8. ASSUME NEW k \in AgentCalls \cup ApiCalls, Call(k) PROVE RegistrationInv'
  BY <1>8 DEF Call, Ensure, Attempts
<1> QED
  BY <1>1, <1>2, <1>3, <1>4, <1>5, <1>6, <1>7, <1>8 DEF RegistrationNext, RegistrationStep

LEMMA RegistrationInvariant == RegistrationSpec => []RegistrationInv
<1>1. RegistrationInit => RegistrationInv
  BY DEF RegistrationInit, RegistrationInv, Copies, Known, ReturnedIsConfirmed, IdentityIsKept, None
<1>2. RegistrationTypeOK /\ RegistrationInv /\ [RegistrationNext]_registrationVars => RegistrationInv'
  <2>1. RegistrationInv /\ UNCHANGED registrationVars => RegistrationInv'
    BY DEF RegistrationInv, Copies, Known, ReturnedIsConfirmed, IdentityIsKept,
           registrationVars, memoryVars, serverVars
  <2> QED
    BY RegistrationInvStep, <2>1
<1> QED
  BY <1>1, <1>2, RegistrationTypeInvariant, PTL DEF RegistrationSpec

\* An identity comes to the configuration or to the API client only from the file of a
\* new process, or after the server has issued it to, or accepted it from, the call
\* under way: no interrupted, failed or repeated registration leaves another one.
IdentitiesAreGiven ==
  [][\A old, new \in 0..MaxIdentities :
       ((old = config /\ new = config') \/ (old = client /\ new = client')) /\ new # old =>
         \/ new = None \/ new \in confirmed'
         \/ new = file /\ stage' = "fresh"]_registrationVars

GivenStep ==
  \A old, new \in 0..MaxIdentities :
    ((old = config /\ new = config') \/ (old = client /\ new = client')) /\ new # old =>
      \/ new = None \/ new \in confirmed'
      \/ new = file /\ stage' = "fresh"

LEMMA GivenSteps ==
  ASSUME RegistrationInv, RegistrationNext PROVE GivenStep
<1>1. CASE NewAgent
  BY <1>1 DEF NewAgent, GivenStep
<1>2. CASE SetCredentials \/ UpdateClientCredentials
  BY <1>2 DEF SetCredentials, UpdateClientCredentials, RegistrationInv, Copies, GivenStep
<1>3. CASE ClearConfig \/ ClearClient
  BY <1>3 DEF ClearConfig, ClearClient, GivenStep, None
<1>4. CASE UNCHANGED <<config, client>>
  BY <1>4 DEF GivenStep
<1>5. Start \/ Verify \/ Register \/ Revoke \/ (\E k \in AgentCalls \cup ApiCalls : Call(k))
        => UNCHANGED <<config, client>>
  BY DEF Start, Verify, Register, Revoke, Call, memoryVars
<1> QED
  BY <1>1, <1>2, <1>3, <1>4, <1>5 DEF RegistrationNext, RegistrationStep

LEMMA GivenInvariant == RegistrationSpec => IdentitiesAreGiven
<1>1. RegistrationInv /\ [RegistrationNext]_registrationVars => [GivenStep]_registrationVars
  BY GivenSteps
<1> QED
  BY <1>1, RegistrationInvariant, PTL DEF RegistrationSpec, IdentitiesAreGiven, GivenStep

-----------------------------------------------------------------------------
(* The service *)

\* The parts of a step that several actions share.
LEMMA SharedTypes ==
  ASSUME ServiceTypeOK
  PROVE  /\ \A a \in Administrators, s \in Steps :
              Goes(a, s) => /\ step' \in [Administrators -> Steps]
                            /\ answer' \in [Administrators -> {"none", "nil", "error"}]
         /\ \A a \in Administrators, r \in {"nil", "error"} :
              Answer(a, r) => /\ step' \in [Administrators -> Steps]
                              /\ answer' \in [Administrators -> {"none", "nil", "error"}]
         /\ \A p \in Processes : Launch(p) =>
              /\ proc' \in [Processes -> {"none", "new", "handling", "stopping", "exiting"}]
              /\ state' \in {"stopped", "start_pending", "running", "stop_pending"}
              /\ UNCHANGED <<worker, asked, hung, failed>>
         /\ Signal => asked' \in [Processes -> BOOLEAN] /\ UNCHANGED <<proc, worker, hung, failed>>
<1>1. ASSUME NEW a \in Administrators, NEW s \in Steps, Goes(a, s)
      PROVE  step' \in [Administrators -> Steps] /\ answer' = answer
  BY <1>1 DEF Goes, ServiceTypeOK
<1>2. ASSUME NEW a \in Administrators, NEW r \in {"nil", "error"}, Answer(a, r)
      PROVE  /\ step' \in [Administrators -> Steps]
             /\ answer' \in [Administrators -> {"none", "nil", "error"}]
  BY <1>2 DEF Answer, ServiceTypeOK, Steps
<1>3. ASSUME NEW p \in Processes, Launch(p)
      PROVE  /\ proc' \in [Processes -> {"none", "new", "handling", "stopping", "exiting"}]
             /\ state' \in {"stopped", "start_pending", "running", "stop_pending"}
             /\ UNCHANGED <<worker, asked, hung, failed>>
  BY <1>3 DEF Launch, ServiceTypeOK
<1>4. ASSUME Signal
      PROVE  asked' \in [Processes -> BOOLEAN] /\ UNCHANGED <<proc, worker, hung, failed>>
  BY <1>4 DEF Signal, ServiceTypeOK, Serving
<1>5. answer \in [Administrators -> {"none", "nil", "error"}]
  BY DEF ServiceTypeOK
<1> QED
  BY <1>1, <1>2, <1>3, <1>4, <1>5

LEMMA CommandTypes ==
  ASSUME ServiceTypeOK, NEW a \in Administrators, Command(a) PROVE ServiceTypeOK'
<1>1. CASE WindowsInstall(a)
  BY <1>1, SharedTypes DEF WindowsInstall, At, Steps, ServiceTypeOK, processVars
<1>2. CASE WindowsUninstall(a)
  BY <1>2, SharedTypes DEF WindowsUninstall, At, Steps, ServiceTypeOK, processVars
<1>3. CASE stopService(a)
  <2>1. ASSUME NEW r \in {"nil", "error"}, StopEnds(a, r)
        PROVE  /\ step' \in [Administrators -> Steps]
               /\ answer' \in [Administrators -> {"none", "nil", "error"}]
    BY <2>1, SharedTypes DEF StopEnds, Steps
  <2>2. /\ step' \in [Administrators -> Steps]
        /\ answer' \in [Administrators -> {"none", "nil", "error"}]
    BY <1>3, <2>1, SharedTypes DEF stopService, Steps
  <2>3. asked' \in [Processes -> BOOLEAN]
    BY <1>3 DEF stopService, ServiceTypeOK, Serving
  <2> QED
    BY <1>3, <2>2, <2>3 DEF stopService, At, entryVars, ServiceTypeOK
<1>4. CASE WindowsStart(a)
  BY <1>4, SharedTypes DEF WindowsStart, At, Steps, ServiceTypeOK, processVars
<1>5. CASE DarwinInstall(a)
  BY <1>5, SharedTypes DEF DarwinInstall, StartJob, At, Steps, ServiceTypeOK, processVars
<1>6. CASE DarwinUninstall(a)
  BY <1>6, SharedTypes DEF DarwinUninstall, At, Steps, ServiceTypeOK, processVars
<1>7. CASE DarwinStop(a)
  BY <1>7, SharedTypes DEF DarwinStop, At, Steps, ServiceTypeOK, processVars, entryVars
<1>8. CASE DarwinStart(a)
  BY <1>8, SharedTypes DEF DarwinStart, StartJob, At, Steps, ServiceTypeOK, processVars
<1> QED
  BY <1>1, <1>2, <1>3, <1>4, <1>5, <1>6, <1>7, <1>8 DEF Command

LEMMA ProcessTypes ==
  ASSUME ServiceTypeOK, NEW p \in Processes,
         RunBegins(p) \/ RunStep(p) \/ Crash(p) \/ WorkerFails(p) \/ WorkerEnds(p)
  PROVE  ServiceTypeOK'
<1> USE DEF ServiceTypeOK, entryVars, adminVars, Moves, Shows, Leaves
<1>1. CASE RunBegins(p)
  BY <1>1 DEF RunBegins
<1>2. CASE ExecuteStop(p) \/ ExecuteWorkerExited(p) \/ RunSignalled(p)
  BY <1>2 DEF ExecuteStop, ExecuteWorkerExited, RunSignalled
<1>3. CASE ExecuteStopped(p)
  BY <1>3 DEF ExecuteStopped
<1>4. CASE RunReturns(p)
  BY <1>4 DEF RunReturns
<1>5. CASE ProcessExits(p) \/ Crash(p)
  BY <1>5 DEF ProcessExits, Crash, IsGone
<1>6. CASE WorkerFails(p) \/ WorkerEnds(p)
  BY <1>6 DEF WorkerFails, WorkerEnds
<1> QED
  BY <1>1, <1>2, <1>3, <1>4, <1>5, <1>6 DEF RunStep

LEMMA ServiceTypeInvariant == ServiceSpec => []ServiceTypeOK
<1>1. ServiceInit => ServiceTypeOK
  BY DEF ServiceInit, ServiceTypeOK, Steps
<1>2. ServiceTypeOK /\ [ServiceNext]_serviceVars => ServiceTypeOK'
  <2>1. ASSUME ServiceTypeOK, Ask PROVE ServiceTypeOK'
    BY <2>1, SharedTypes DEF Ask, At, Steps, ServiceTypeOK, entryVars, processVars
  <2>2. ASSUME ServiceTypeOK, ManagerStarts PROVE ServiceTypeOK'
    BY <2>2, SharedTypes DEF ManagerStarts, StartJob, ServiceTypeOK, adminVars, processVars
  <2>3. ASSUME ServiceTypeOK, EntryGoes PROVE ServiceTypeOK'
    BY <2>3 DEF EntryGoes, ServiceTypeOK, adminVars, processVars
  <2>4. ASSUME ServiceTypeOK, UNCHANGED serviceVars PROVE ServiceTypeOK'
    BY <2>4 DEF ServiceTypeOK, serviceVars, entryVars, adminVars, processVars
  <2> QED
    BY <2>1, <2>2, <2>3, <2>4, CommandTypes, ProcessTypes DEF ServiceNext, ManagerNext
<1> QED
  BY <1>1, <1>2, PTL DEF ServiceSpec

\* The SCM shows STOPPED exactly when no process serves, whatever is on its way out;
\* launchd has one process at a time; and a worker that outlives its process's
\* service is one Execute has waited for.
Shown == Windows => (state = "stopped" <=> \A p \in Processes : ~Serving(p))
OneServing == \A p, q \in Processes : Serving(p) /\ Serving(q) => p = q
OneJob == Darwin => \A p, q \in Processes : proc[p] # "none" /\ proc[q] # "none" => p = q
WorkersServe ==
  \A p \in Processes : worker[p] = "up" =>
    /\ proc[p] \in {"handling", "stopping", "exiting"}
    /\ Windows /\ proc[p] = "exiting" => hung[p]

ServiceInv == Shown /\ OneServing /\ OneJob /\ WorkersServe

\* A process is only created where there is no other.
LEMMA LaunchKeeps ==
  ASSUME ServiceTypeOK, ServiceInv, NEW p \in Processes, Launch(p), host' = host,
         Windows => state = "stopped",
         Darwin => \A q \in Processes : proc[q] = "none"
  PROVE  ServiceInv'
<1>1. /\ proc[p] = "none" /\ proc' = [proc EXCEPT ![p] = "new"]
      /\ worker' = worker /\ hung' = hung
      /\ Windows => state' = "start_pending"
  BY DEF Launch
<1>2. proc \in [Processes -> {"none", "new", "handling", "stopping", "exiting"}]
  BY DEF ServiceTypeOK
<1>3. \A q \in Processes : ~Serving(q)
  BY <1>2 DEF ServiceInv, Shown, Serving, Windows, Darwin, ServiceTypeOK
<1>4. /\ proc'[p] = "new"
      /\ \A q \in Processes : q # p => proc'[q] = proc[q]
  BY <1>1, <1>2
<1>5. Shown'
  BY <1>1, <1>4 DEF Shown, Serving, Windows
<1>6. OneServing'
  BY <1>3, <1>4 DEF OneServing, Serving
<1>7. OneJob'
  BY <1>4 DEF OneJob, Darwin
<1>8. WorkersServe'
  BY <1>1, <1>4 DEF ServiceInv, WorkersServe, Windows
<1> QED
  BY <1>5, <1>6, <1>7, <1>8 DEF ServiceInv

LEMMA UntouchedKeeps ==
  ASSUME ServiceInv, UNCHANGED <<host, state, proc, worker, hung>> PROVE ServiceInv'
BY DEF ServiceInv, Shown, OneServing, OneJob, WorkersServe, Serving, Windows, Darwin

LEMMA StartJobKeeps ==
  ASSUME ServiceTypeOK, ServiceInv, Darwin, StartJob, host' = host PROVE ServiceInv'
<1>1. CASE \E p \in Processes : proc[p] # "none"
  BY <1>1, UntouchedKeeps DEF StartJob, processVars
<1>2. CASE \A p \in Processes : proc[p] = "none"
  BY <1>2, LaunchKeeps DEF StartJob, Darwin, Windows
<1> QED
  BY <1>1, <1>2

LEMMA CommandKeeps ==
  ASSUME ServiceTypeOK, ServiceInv, NEW a \in Administrators, Command(a)
  PROVE  ServiceInv' /\ (due' => due)
<1> USE DEF processVars, entryVars
<1>1. CASE WindowsInstall(a) \/ WindowsUninstall(a) \/ stopService(a)
  BY <1>1, UntouchedKeeps DEF WindowsInstall, WindowsUninstall, stopService
<1>2. CASE WindowsStart(a)
  <2>1. CASE UNCHANGED <<state, processVars>>
    BY <1>2, <2>1, UntouchedKeeps DEF WindowsStart
  <2>2. CASE state = "stopped" /\ \E p \in Processes : Launch(p)
    BY <1>2, <2>2, LaunchKeeps DEF WindowsStart, Windows, Darwin
  <2> QED
    BY <1>2, <2>1, <2>2 DEF WindowsStart
<1>3. CASE DarwinInstall(a)
  <2>1. CASE UNCHANGED <<state, processVars>>
    BY <1>3, <2>1, UntouchedKeeps DEF DarwinInstall
  <2>2. CASE StartJob
    BY <1>3, <2>2, StartJobKeeps DEF DarwinInstall
  <2> QED
    BY <1>3, <2>1, <2>2 DEF DarwinInstall
<1>4. CASE DarwinUninstall(a) \/ DarwinStop(a)
  BY <1>4, UntouchedKeeps DEF DarwinUninstall, DarwinStop, Signal
<1>5. CASE DarwinStart(a)
  <2>1. CASE UNCHANGED <<state, processVars>>
    BY <1>5, <2>1, UntouchedKeeps DEF DarwinStart
  <2>2. CASE StartJob
    BY <1>5, <2>2, StartJobKeeps DEF DarwinStart
  <2> QED
    BY <1>5, <2>1, <2>2 DEF DarwinStart
<1> QED
  BY <1>1, <1>2, <1>3, <1>4, <1>5 DEF Command

\* What a process does. STOPPED is shown only when the one process that served no
\* longer does, and only a serving process whose loss is shown can be restarted.
LEMMA ProcessKeeps ==
  ASSUME ServiceTypeOK, ServiceInv, NEW p \in Processes,
         RunBegins(p) \/ RunStep(p) \/ Crash(p) \/ WorkerFails(p) \/ WorkerEnds(p)
  PROVE  /\ ServiceInv'
         /\ Windows /\ due' /\ ~due => Serving(p) /\ proc'[p] = "none"
<1>0. /\ proc \in [Processes -> {"none", "new", "handling", "stopping", "exiting"}]
      /\ worker \in [Processes -> {"none", "up", "ended", "failed"}]
      /\ hung \in [Processes -> BOOLEAN]
      /\ host \in {"windows", "darwin"}
  BY DEF ServiceTypeOK
<1>1. ASSUME NEW s \in {"handling", "stopping"}, Serving(p), Moves(p, s), UNCHANGED <<host, hung>>,
             worker' = worker \/ worker' = [worker EXCEPT ![p] = "up"],
             Windows => state' \in {"running", "stop_pending"}
      PROVE  ServiceInv'
  <2>1. /\ proc'[p] = s
        /\ \A q \in Processes : q # p => proc'[q] = proc[q] /\ worker'[q] = worker[q]
    BY <1>0, <1>1 DEF Moves
  <2>2. Shown' /\ OneServing' /\ OneJob'
    BY <1>1, <2>1 DEF ServiceInv, Shown, OneServing, OneJob, Serving, Windows, Darwin
  <2>3. WorkersServe'
    BY <1>1, <2>1 DEF ServiceInv, WorkersServe, Windows
  <2> QED
    BY <2>2, <2>3 DEF ServiceInv
<1>2. CASE RunBegins(p)
  BY <1>1, <1>2 DEF RunBegins, Serving, Shows, Windows
<1>3. CASE ExecuteStop(p) \/ RunSignalled(p)
  BY <1>1, <1>3 DEF ExecuteStop, RunSignalled, Serving, Shows, Windows, Darwin, entryVars
<1>4. ASSUME Serving(p), Leaves(p),
             Windows /\ worker[p] = "up" => hung'[p],
             \A q \in Processes : q # p => hung'[q] = hung[q]
      PROVE  ServiceInv'
  <2>1. /\ proc'[p] = "exiting" /\ host' = host /\ worker' = worker
        /\ \A q \in Processes : q # p => proc'[q] = proc[q]
        /\ Windows => state' = "stopped"
    BY <1>0, <1>4 DEF Leaves, Moves, Shows
  <2>2. Shown' /\ OneServing' /\ OneJob'
    BY <1>4, <2>1 DEF ServiceInv, Shown, OneServing, OneJob, Serving, Windows, Darwin
  <2>3. WorkersServe'
    BY <1>4, <2>1 DEF ServiceInv, WorkersServe, Windows
  <2> QED
    BY <2>2, <2>3 DEF ServiceInv
<1>5. CASE ExecuteStopped(p) \/ ExecuteWorkerExited(p)
  <2>1. /\ Serving(p) /\ Leaves(p) /\ due' = due
        /\ \A q \in Processes : q # p => hung'[q] = hung[q]
    BY <1>0, <1>5 DEF ExecuteStopped, ExecuteWorkerExited, Serving
  <2>2. worker[p] = "up" => hung'[p]
    BY <1>0, <1>5 DEF ExecuteStopped, ExecuteWorkerExited
  <2> QED
    BY <1>4, <2>1, <2>2
<1>6. CASE RunReturns(p)
  BY <1>4, <1>6 DEF RunReturns, Serving, Windows, Darwin
<1>7. ASSUME IsGone(p, TRUE) \/ IsGone(p, failed[p])
      PROVE  /\ ServiceInv'
             /\ Windows /\ due' /\ ~due => Owner(p) /\ state # "stopped" /\ proc'[p] = "none"
  <2>1. /\ proc'[p] = "none" /\ host' = host /\ worker'[p] = "none"
        /\ \A q \in Processes : q # p =>
             proc'[q] = proc[q] /\ worker'[q] = worker[q] /\ hung'[q] = hung[q]
        /\ IF Owner(p) THEN Windows => state' = "stopped" ELSE state' = state
    BY <1>0, <1>7 DEF IsGone, Moves, Shows
  <2>2. Shown'
    BY <2>1 DEF ServiceInv, Shown, OneServing, Serving, Owner, Windows
  <2>3. OneServing' /\ OneJob'
    BY <2>1 DEF ServiceInv, OneServing, OneJob, Serving, Darwin
  <2>4. WorkersServe'
    BY <2>1 DEF ServiceInv, WorkersServe, Windows
  <2>5. Windows /\ due' /\ ~due => Owner(p) /\ state # "stopped"
    BY <1>7 DEF IsGone
  <2> QED
    BY <2>1, <2>2, <2>3, <2>4, <2>5 DEF ServiceInv
<1>8. CASE ProcessExits(p) \/ Crash(p)
  BY <1>7, <1>8 DEF ProcessExits, Crash, Killed, Owner, Serving, ServiceInv, Shown, Windows, Darwin
<1>9. CASE WorkerFails(p) \/ WorkerEnds(p)
  <2>1. /\ UNCHANGED <<host, state, proc, hung, due>>
        /\ worker'[p] # "up" /\ \A q \in Processes : q # p => worker'[q] = worker[q]
    BY <1>0, <1>9 DEF WorkerFails, WorkerEnds, entryVars
  <2> QED
    BY <2>1 DEF ServiceInv, Shown, OneServing, OneJob, WorkersServe, Serving, Windows, Darwin
<1>10. RunBegins(p) \/ ExecuteStop(p) \/ RunSignalled(p) \/ RunReturns(p) => due' = due
  BY DEF RunBegins, ExecuteStop, RunSignalled, RunReturns, entryVars
<1> QED
  BY <1>2, <1>3, <1>5, <1>6, <1>8, <1>9, <1>10 DEF RunStep, ExecuteStopped, ExecuteWorkerExited,
     WorkerFails, WorkerEnds, entryVars

LEMMA ManagerKeeps ==
  ASSUME ServiceTypeOK, ServiceInv, ManagerNext PROVE ServiceInv' /\ (due' => due)
<1>1. CASE EntryGoes
  BY <1>1, UntouchedKeeps DEF EntryGoes, processVars
<1>2. CASE ManagerStarts
  <2>1. CASE UNCHANGED <<state, processVars>>
    BY <1>2, <2>1, UntouchedKeeps DEF ManagerStarts, processVars
  <2>2. CASE Windows /\ state = "stopped" /\ \E p \in Processes : Launch(p)
    BY <1>2, <2>2, LaunchKeeps DEF ManagerStarts, Windows, Darwin
  <2>3. CASE ~Windows /\ StartJob
    BY <1>2, <2>3, StartJobKeeps DEF ManagerStarts, Windows, Darwin, ServiceTypeOK
  <2> QED
    BY <1>2, <2>1, <2>2, <2>3 DEF ManagerStarts
<1> QED
  BY <1>1, <1>2 DEF ManagerNext

LEMMA ServiceInvStep ==
  ServiceTypeOK /\ ServiceInv /\ [ServiceNext]_serviceVars => ServiceInv'
<1>1. ASSUME ServiceInv, UNCHANGED serviceVars PROVE ServiceInv'
  BY <1>1, UntouchedKeeps DEF serviceVars, entryVars, processVars
<1>2. ASSUME ServiceInv, Ask PROVE ServiceInv' /\ due' = due
  BY <1>2, UntouchedKeeps DEF Ask, entryVars, processVars
<1> QED
  BY <1>1, <1>2, ManagerKeeps, CommandKeeps, ProcessKeeps DEF ServiceNext

LEMMA ServiceInvariant == ServiceSpec => []ServiceInv
<1>1. ServiceInit => ServiceInv
  BY DEF ServiceInit, ServiceInv, Shown, OneServing, OneJob, WorkersServe, Serving
<1> QED
  BY <1>1, ServiceInvStep, ServiceTypeInvariant, PTL DEF ServiceSpec

-----------------------------------------------------------------------------
(* What the commands promise *)

\* How far a command can still go: the calls it may still make.
Calls(s) ==
  CASE s = "idle" -> 9 [] s = "uninstall" -> 8 [] s = "query" -> 7 [] s = "control" -> 6
    [] s \in {"awaitStopped", "stop"} -> 5 [] s \in {"open", "install"} -> 4
    [] s \in {"check", "create"} -> 3 [] s \in {"start", "load", "unload"} -> 2
    [] s \in {"awaitRunning", "erase", "delete", "remove"} -> 1 [] OTHER -> 0

\* Which calls belong to which command, and when it has been answered.
Keeps(a) ==
  /\ step[a] \in {"install", "create", "load", "erase"} => cmd[a] = "install"
  /\ step[a] \in {"uninstall", "delete", "unload", "remove"} => cmd[a] = "uninstall"
  /\ step[a] \in {"query", "control", "awaitStopped", "stop"} =>
       cmd[a] \in {"uninstall", "stop", "restart"}
  /\ step[a] \in {"open", "check", "start", "awaitRunning"} => cmd[a] \in {"start", "restart"}
  /\ (answer[a] = "none" <=> step[a] # "done")

\* The SCM shows RUNNING only while Execute handles requests.
RunningIsShown == Windows /\ state = "running" => \E p \in Processes : proc[p] = "handling"

CommandInv == RunningIsShown /\ \A a \in Administrators : Keeps(a)

\* A command makes a bounded number of calls and is answered once: each call takes
\* it on, no other administrator's does, and an answer is final.
CommandsGoOn ==
  [][\A a \in Administrators :
       step'[a] # step[a] \/ answer'[a] # answer[a] => Calls(step'[a]) < Calls(step[a])]_serviceVars

\* The calls a command may make next.
Follows(a, s) ==
  \/ step[a] = "install" /\ s = "create"
  \/ step[a] = "create" /\ s = "load"
  \/ step[a] = "load" /\ s = "erase"
  \/ step[a] = "uninstall" /\ s \in {"query", "stop"}
  \/ step[a] = "query" /\ s = "control"
  \/ step[a] = "control" /\ s = "awaitStopped"
  \/ step[a] \in {"query", "control", "awaitStopped"} /\ cmd[a] = "uninstall" /\ s = "delete"
  \/ step[a] \in {"query", "awaitStopped", "stop"} /\ cmd[a] = "restart" /\ s = "open"
  \/ step[a] = "stop" /\ cmd[a] = "uninstall" /\ s = "unload"
  \/ step[a] = "unload" /\ s = "remove"
  \/ step[a] = "open" /\ s \in {"check", "start"}
  \/ step[a] = "check" /\ s = "start"
  \/ step[a] = "start" /\ s = "awaitRunning"

GoesOn(a) == \E s \in Steps : Goes(a, s) /\ Follows(a, s)
IsAnswered(a) ==
  \E r \in {"nil", "error"} :
    Answer(a, r) /\ step[a] \notin {"idle", "done"} /\ (r = "nil" => Tells(a))

LEMMA GoingOn ==
  ASSUME ServiceTypeOK, NEW a \in Administrators, Keeps(a), UNCHANGED cmd, GoesOn(a) \/ IsAnswered(a)
  PROVE  /\ \A b \in Administrators : b # a => step'[b] = step[b] /\ answer'[b] = answer[b]
         /\ Calls(step'[a]) < Calls(step[a])
         /\ Keeps(a)'
         /\ answer'[a] = "nil" => Tells(a)
<1>1. /\ step \in [Administrators -> Steps]
      /\ answer \in [Administrators -> {"none", "nil", "error"}]
  BY DEF ServiceTypeOK
<1>2. ASSUME NEW s \in Steps, Goes(a, s), Follows(a, s)
      PROVE  /\ \A b \in Administrators : b # a => step'[b] = step[b] /\ answer'[b] = answer[b]
             /\ Calls(step'[a]) < Calls(step[a])
             /\ Keeps(a)'
             /\ answer'[a] = "nil" => Tells(a)
  <2>1. step'[a] = s /\ answer' = answer /\ \A b \in Administrators : b # a => step'[b] = step[b]
    BY <1>1, <1>2 DEF Goes
  <2>2. Calls(s) < Calls(step[a])
    BY <1>2 DEF Follows, Calls
  <2>3. Keeps(a)'
    BY <1>2, <2>1 DEF Keeps, Follows
  <2>4. answer[a] = "none"
    BY <1>2 DEF Keeps, Follows
  <2> QED
    BY <2>1, <2>2, <2>3, <2>4
<1>3. ASSUME NEW r \in {"nil", "error"}, Answer(a, r), step[a] \notin {"idle", "done"},
             r = "nil" => Tells(a)
      PROVE  /\ \A b \in Administrators : b # a => step'[b] = step[b] /\ answer'[b] = answer[b]
             /\ Calls(step'[a]) < Calls(step[a])
             /\ Keeps(a)'
             /\ answer'[a] = "nil" => Tells(a)
  <2>1. /\ step'[a] = "done" /\ answer'[a] = r
        /\ \A b \in Administrators : b # a => step'[b] = step[b] /\ answer'[b] = answer[b]
    BY <1>1, <1>3 DEF Answer
  <2>2. Calls("done") < Calls(step[a])
    BY <1>1, <1>3 DEF Calls, Steps
  <2>3. Keeps(a)'
    BY <1>3, <2>1 DEF Keeps
  <2> QED
    BY <1>3, <2>1, <2>2, <2>3
<1> QED
  BY <1>2, <1>3 DEF GoesOn, IsAnswered

\* The calls of each command, one action of the service manager after the other.
LEMMA InstallGoes ==
  ASSUME ServiceTypeOK, NEW a \in Administrators, Keeps(a), WindowsInstall(a) \/ DarwinInstall(a)
  PROVE  GoesOn(a) \/ IsAnswered(a)
<1> USE DEF At, Steps, GoesOn, IsAnswered, Follows, Tells, Keeps
<1>1. CASE WindowsInstall(a)
  BY <1>1 DEF WindowsInstall
<1>2. CASE DarwinInstall(a)
  BY <1>2 DEF DarwinInstall
<1> QED
  BY <1>1, <1>2

LEMMA UninstallGoes ==
  ASSUME ServiceTypeOK, NEW a \in Administrators, Keeps(a), WindowsUninstall(a) \/ DarwinUninstall(a)
  PROVE  GoesOn(a) \/ IsAnswered(a)
<1> USE DEF At, Steps, GoesOn, IsAnswered, Follows, Tells, Keeps
<1>1. CASE WindowsUninstall(a)
  BY <1>1 DEF WindowsUninstall
<1>2. CASE DarwinUninstall(a)
  BY <1>2 DEF DarwinUninstall
<1> QED
  BY <1>1, <1>2

LEMMA StopGoes ==
  ASSUME ServiceTypeOK, ServiceInv, NEW a \in Administrators, Keeps(a), stopService(a) \/ DarwinStop(a)
  PROVE  GoesOn(a) \/ IsAnswered(a)
<1> USE DEF At, Steps, Keeps
<1>0. cmd[a] \in Commands
  BY DEF ServiceTypeOK
<1>1. CASE stopService(a)
  <2>1. ASSUME NEW r \in {"nil", "error"}, StopEnds(a, r),
               step[a] \in {"query", "awaitStopped"} \/ (step[a] = "control" /\ r = "error"),
               r = "nil" => state = "stopped"
        PROVE  GoesOn(a) \/ IsAnswered(a)
    <3>1. CASE cmd[a] = "uninstall"
      BY <2>1, <3>1 DEF StopEnds, GoesOn, Follows
    <3>2. CASE cmd[a] = "restart" /\ r = "nil"
      BY <2>1, <3>2 DEF StopEnds, GoesOn, Follows
    <3>3. CASE cmd[a] = "restart" /\ r # "nil"
      BY <2>1, <3>3 DEF StopEnds, IsAnswered
    <3>4. CASE cmd[a] = "stop"
      <4>1. Answer(a, r)
        BY <2>1, <3>4 DEF StopEnds
      <4>2. r = "nil" => Tells(a)
        BY <1>1, <2>1, <3>4 DEF stopService, Tells, ServiceInv, Shown
      <4> QED
        BY <2>1, <4>1, <4>2 DEF IsAnswered
    <3> QED
      BY <2>1, <3>1, <3>2, <3>3, <3>4
  <2>2. CASE Goes(a, "control") /\ step[a] = "query"
    BY <2>2 DEF GoesOn, Follows
  <2>3. CASE Goes(a, "awaitStopped") /\ step[a] = "control"
    BY <2>3 DEF GoesOn, Follows
  <2> QED
    BY <1>1, <2>1, <2>2, <2>3 DEF stopService
<1>2. CASE DarwinStop(a)
  <2>1. PICK r \in {"nil", "error"} :
          /\ IF r = "nil" THEN loaded /\ Signal ELSE UNCHANGED processVars
          /\ CASE cmd[a] = "uninstall" -> Goes(a, "unload")
               [] cmd[a] = "restart" -> Goes(a, "open")
               [] OTHER -> Answer(a, r)
    BY <1>2 DEF DarwinStop
  <2>2. step[a] = "stop" /\ ~Windows
    BY <1>2 DEF DarwinStop, Darwin, Windows
  <2>3. CASE cmd[a] \in {"uninstall", "restart"}
    BY <2>1, <2>2, <2>3 DEF GoesOn, Follows
  <2>4. CASE cmd[a] = "stop"
    <3>1. Answer(a, r)
      BY <2>1, <2>4
    <3>2. r = "nil" => Tells(a)
      BY <2>1, <2>2, <2>4 DEF Tells, Signal
    <3> QED
      BY <2>2, <3>1, <3>2 DEF IsAnswered
  <2> QED
    BY <2>2, <2>3, <2>4
<1> QED
  BY <1>1, <1>2

LEMMA StartGoes ==
  ASSUME ServiceTypeOK, RunningIsShown, NEW a \in Administrators, Keeps(a),
         WindowsStart(a) \/ DarwinStart(a)
  PROVE  GoesOn(a) \/ IsAnswered(a)
<1> USE DEF At, Steps, GoesOn, IsAnswered, Follows, Keeps
<1>1. CASE WindowsStart(a)
  <2>1. state = "running" /\ cmd[a] \in {"start", "restart"} => Tells(a)
    BY <1>1 DEF WindowsStart, Tells, RunningIsShown
  <2> QED
    BY <1>1, <2>1 DEF WindowsStart
<1>2. CASE DarwinStart(a)
  <2>1. ASSUME StartJob PROVE \E p \in Processes : proc'[p] # "none"
    BY <2>1 DEF StartJob, Launch, processVars, ServiceTypeOK
  <2>2. StartJob /\ cmd[a] \in {"start", "restart"} => Tells(a)
    BY <1>2, <2>1 DEF DarwinStart, Tells, Windows, Darwin
  <2> QED
    BY <1>2, <2>2 DEF DarwinStart
<1> QED
  BY <1>1, <1>2

LEMMA CommandProgress ==
  ASSUME ServiceTypeOK, ServiceInv, CommandInv, NEW a \in Administrators, Command(a)
  PROVE  /\ UNCHANGED cmd
         /\ \A b \in Administrators : b # a => step'[b] = step[b] /\ answer'[b] = answer[b]
         /\ Calls(step'[a]) < Calls(step[a])
         /\ Keeps(a)'
         /\ answer'[a] = "nil" => Tells(a)
<1>1. UNCHANGED cmd
  BY DEF Command, WindowsInstall, WindowsUninstall, stopService, WindowsStart,
         DarwinInstall, DarwinUninstall, DarwinStop, DarwinStart, At
<1>2. GoesOn(a) \/ IsAnswered(a)
  BY InstallGoes, UninstallGoes, StopGoes, StartGoes DEF Command, CommandInv
<1> QED
  BY <1>1, <1>2, GoingOn DEF CommandInv

\* What the SCM shows changes only with the process it is about.
LEMMA RunningStaysShown ==
  ASSUME ServiceTypeOK, ServiceInv, RunningIsShown, ServiceNext PROVE RunningIsShown'
<1>0. /\ proc \in [Processes -> {"none", "new", "handling", "stopping", "exiting"}]
      /\ host' = host
  BY DEF ServiceTypeOK, ServiceNext, Ask, ManagerNext, ManagerStarts, EntryGoes, Command, WindowsInstall,
         WindowsUninstall, stopService, WindowsStart, DarwinInstall, DarwinUninstall, DarwinStop,
         DarwinStart, RunBegins, RunStep, ExecuteStop, ExecuteStopped, ExecuteWorkerExited, RunSignalled,
         RunReturns, ProcessExits, Crash, IsGone, Leaves, WorkerFails, WorkerEnds, entryVars
<1>1. ASSUME UNCHANGED <<state, proc>> PROVE RunningIsShown'
  BY <1>0, <1>1 DEF RunningIsShown, Windows
<1>2. ASSUME NEW p \in Processes, Launch(p) PROVE RunningIsShown'
  BY <1>0, <1>2 DEF RunningIsShown, Launch, Windows
<1>3. ASSUME Darwin PROVE RunningIsShown'
  BY <1>0, <1>3 DEF RunningIsShown, Darwin, Windows
<1>4. CASE Ask \/ ManagerNext
  BY <1>1, <1>2, <1>3, <1>4 DEF Ask, ManagerNext, ManagerStarts, EntryGoes, entryVars, processVars,
     Windows, Darwin, ServiceTypeOK
<1>5. ASSUME NEW a \in Administrators, Command(a) PROVE RunningIsShown'
  BY <1>1, <1>2, <1>3, <1>5 DEF Command, WindowsInstall, WindowsUninstall, stopService, WindowsStart,
     DarwinInstall, DarwinUninstall, DarwinStop, DarwinStart, entryVars, processVars
<1>6. ASSUME NEW p \in Processes, RunBegins(p) PROVE RunningIsShown'
  BY <1>0, <1>6 DEF RunBegins, Moves, RunningIsShown
<1>7. ASSUME NEW p \in Processes, RunStep(p) \/ Crash(p) PROVE RunningIsShown'
  <2>1. CASE IsGone(p, TRUE) \/ IsGone(p, failed[p])
    <3>1. CASE Owner(p)
      BY <1>0, <2>1, <3>1 DEF IsGone, Shows, RunningIsShown, Windows
    <3>2. CASE ~Owner(p)
      <4>1. PICK q \in Processes : Serving(q) /\ q # p
        BY <3>2 DEF Owner
      <4>2. proc[p] # "handling"
        BY <4>1 DEF ServiceInv, OneServing, Serving
      <4>3. state' = state /\ \A r \in Processes : r # p => proc'[r] = proc[r]
        BY <1>0, <2>1, <3>2 DEF IsGone, Moves
      <4> QED
        BY <1>0, <4>2, <4>3 DEF RunningIsShown, Windows
    <3> QED
      BY <3>1, <3>2
  <2>2. CASE Leaves(p)
    BY <1>0, <2>2 DEF Leaves, Shows, RunningIsShown, Windows
  <2>3. CASE ExecuteStop(p) \/ RunSignalled(p)
    BY <1>0, <1>3, <2>3 DEF ExecuteStop, RunSignalled, Shows, RunningIsShown, Windows
  <2> QED
    BY <1>7, <2>1, <2>2, <2>3 DEF RunStep, Crash, ExecuteStopped, ExecuteWorkerExited, RunReturns,
       ProcessExits
<1>8. ASSUME NEW p \in Processes, WorkerFails(p) \/ WorkerEnds(p) PROVE RunningIsShown'
  BY <1>1, <1>8 DEF WorkerFails, WorkerEnds, entryVars
<1> QED
  BY <1>4, <1>5, <1>6, <1>7, <1>8 DEF ServiceNext

SuccessStep == \A a \in Administrators : answer'[a] = "nil" /\ answer[a] # "nil" => Tells(a)
GoOnStep ==
  \A a \in Administrators :
    step'[a] # step[a] \/ answer'[a] # answer[a] => Calls(step'[a]) < Calls(step[a])

LEMMA CommandInvStep ==
  ASSUME ServiceTypeOK, ServiceInv, CommandInv, ServiceNext
  PROVE  CommandInv' /\ SuccessStep /\ GoOnStep
<1>1. ASSUME UNCHANGED adminVars PROVE CommandInv' /\ SuccessStep /\ GoOnStep
  BY <1>1, RunningStaysShown DEF adminVars, CommandInv, Keeps, SuccessStep, GoOnStep
<1>2. ASSUME NEW a \in Administrators, Command(a) PROVE CommandInv' /\ SuccessStep /\ GoOnStep
  <2>1. \A b \in Administrators : b # a => Keeps(b)'
    BY <1>2, CommandProgress DEF CommandInv, Keeps
  <2>2. CommandInv'
    BY <1>2, <2>1, CommandProgress, RunningStaysShown DEF CommandInv
  <2>3. SuccessStep
    BY <1>2, CommandProgress DEF SuccessStep
  <2>4. GoOnStep
    BY <1>2, CommandProgress DEF GoOnStep
  <2> QED
    BY <2>2, <2>3, <2>4
<1>3. ASSUME Ask PROVE CommandInv' /\ SuccessStep /\ GoOnStep
  <2>1. PICK a \in Administrators, s \in {"install", "uninstall", "open", "query", "stop"} :
          /\ step[a] = "idle" /\ Goes(a, s) /\ UNCHANGED cmd
          /\ s = "install" => cmd[a] = "install"
          /\ s = "uninstall" => cmd[a] = "uninstall"
          /\ s = "open" => cmd[a] = "start"
          /\ s \in {"query", "stop"} => cmd[a] \in {"stop", "restart"}
    BY <1>3 DEF Ask, At, ServiceTypeOK, Commands
  <2>2. /\ step'[a] = s /\ answer' = answer
        /\ \A b \in Administrators : b # a => step'[b] = step[b]
    BY <2>1 DEF Goes, ServiceTypeOK
  <2>3. \A b \in Administrators : Keeps(b)'
    BY <2>1, <2>2 DEF CommandInv, Keeps
  <2>4. Calls(s) < Calls(step[a])
    BY <2>1 DEF Calls
  <2>5. CommandInv'
    BY <2>3, RunningStaysShown DEF CommandInv
  <2> QED
    BY <2>2, <2>4, <2>5 DEF SuccessStep, GoOnStep
<1> QED
  BY <1>1, <1>2, <1>3 DEF ServiceNext, ManagerNext, ManagerStarts, EntryGoes, RunBegins, RunStep,
     ExecuteStop, ExecuteStopped, ExecuteWorkerExited, RunSignalled, RunReturns, ProcessExits, Crash,
     IsGone, Leaves, WorkerFails, WorkerEnds

LEMMA CommandInvariant == ServiceSpec => SuccessTells /\ CommandsGoOn
<1>1. ServiceInit => CommandInv
  BY DEF ServiceInit, CommandInv, RunningIsShown, Keeps
<1>2. ServiceTypeOK /\ ServiceInv /\ CommandInv /\ [ServiceNext]_serviceVars =>
        CommandInv' /\ [SuccessStep]_serviceVars /\ [GoOnStep]_serviceVars
  <2>1. CommandInv /\ UNCHANGED serviceVars => CommandInv'
    BY DEF CommandInv, RunningIsShown, Keeps, Windows, serviceVars, entryVars, processVars, adminVars
  <2> QED
    BY <2>1, CommandInvStep
<1> QED
  BY <1>1, <1>2, ServiceTypeInvariant, ServiceInvariant, PTL
     DEF ServiceSpec, SuccessTells, SuccessStep, CommandsGoOn, GoOnStep

-----------------------------------------------------------------------------
(* The composition *)

LEMMA NextSplits == Next => [ServiceNext]_serviceVars /\ [RegistrationNext]_registrationVars
<1> SUFFICES ASSUME Next PROVE [ServiceNext]_serviceVars /\ [RegistrationNext]_registrationVars
  OBVIOUS
<1>1. CASE Asks \/ \E a \in Administrators : Administrator(a)
  BY <1>1 DEF Asks, Administrator, ServiceNext
<1>2. CASE ManagerNext /\ UNCHANGED registrationVars
  BY <1>2 DEF ServiceNext
<1>3. ASSUME NEW p \in Processes, ProcessBegins(p)
      PROVE  ServiceNext /\ RegistrationNext
  BY <1>3 DEF ProcessBegins, ServiceNext, RegistrationNext
<1>4. ASSUME NEW p \in Processes, StartFails(p) \/ SetUpFails(p) \/ AgentStops(p)
      PROVE  ServiceNext /\ UNCHANGED registrationVars
  BY <1>4 DEF StartFails, SetUpFails, AgentStops, ServiceNext
<1>5. ASSUME NEW p \in Processes, (RunStep(p) \/ Crash(p)) /\ UNCHANGED registrationVars
      PROVE  ServiceNext /\ UNCHANGED registrationVars
  BY <1>5 DEF ServiceNext
<1>6. CASE Agent \/ Embedder \/ Server
  BY <1>6 DEF Agent, Embedder, Server, RegistrationNext
<1> QED
  BY <1>1, <1>2, <1>3, <1>4, <1>5, <1>6 DEF Next

\* The agent on its host implements the service and the registration.
THEOREM ImplementsBoth == Spec => ServiceSpec /\ RegistrationSpec
<1>1. Init => ServiceInit /\ RegistrationInit
  BY DEF Init
<1>2. [Next]_vars => [ServiceNext]_serviceVars /\ [RegistrationNext]_registrationVars
  BY NextSplits DEF vars
<1> QED
  BY <1>1, <1>2, PTL DEF Spec, ServiceSpec, RegistrationSpec

ScenarioOK == scenario \in Scenarios

\* Type correctness of the composition.
THEOREM TypeCorrect == Spec => []TypeOK
<1>1. Init => ScenarioOK
  BY DEF Init, ScenarioOK
<1>2. ScenarioOK /\ [Next]_vars => ScenarioOK'
  BY DEF Next, vars, ScenarioOK
<1>3. Spec => []ScenarioOK
  BY <1>1, <1>2, PTL DEF Spec
<1> QED
  BY <1>3, ImplementsBoth, ServiceTypeInvariant, RegistrationTypeInvariant, PTL DEF TypeOK, ScenarioOK

\* Commands, recovery, KeepAlive and crashes never start a process of the service beside
\* one that serves. They do start one beside a worker that Execute, on Windows, has
\* given up awaiting after 30 seconds, while its process is not gone: the only way in
\* which two agents of the service work on one host.
THEOREM OneServingProcess == Spec => []OneWorker
<1>1. ServiceTypeOK /\ ServiceInv => OneWorker
  BY DEF ServiceTypeOK, ServiceInv, OneServing, OneJob, WorkersServe, OneWorker, Serving,
         Windows, Darwin
<1> QED
  BY <1>1, ImplementsBoth, ServiceTypeInvariant, ServiceInvariant, PTL

\* Between calls client and configuration have the same identity, or the configuration
\* has none and the client the one a failed ReRegister has cleared there.
THEOREM CopiesDifferByReRegister == Spec => []CredentialsAgree
<1>1. RegistrationInv => CredentialsAgree
  BY DEF RegistrationInv, Copies, CredentialsAgree
<1> QED
  BY <1>1, ImplementsBoth, RegistrationInvariant, PTL

\* EnsureRegistered and Register return only identities confirmed to that call.
THEOREM AnswersAreConfirmed == Spec => []ReturnedIsConfirmed
<1>1. RegistrationInv => ReturnedIsConfirmed
  BY DEF RegistrationInv
<1> QED
  BY <1>1, ImplementsBoth, RegistrationInvariant, PTL

\* An agent that finds an identity in its file is never given another by its Start.
THEOREM IdentitySurvives == Spec => []IdentityIsKept
<1>1. RegistrationInv => IdentityIsKept
  BY DEF RegistrationInv
<1> QED
  BY <1>1, ImplementsBoth, RegistrationInvariant, PTL

\* What a service command that returns nil tells its caller, and no more than that:
\* serving processes on Windows, signals and some process on macOS, the entry of the
\* service for an installation and an uninstallation.
THEOREM CommandsTell == Spec => SuccessTells
BY ImplementsBoth, CommandInvariant, PTL

\* A command makes at most nine calls and is answered once.
THEOREM CommandsAreFinite == Spec => CommandsGoOn
BY ImplementsBoth, CommandInvariant, PTL

\* Configuration and client take an identity only from the file, the server or a
\* confirmed verification.
THEOREM IdentitiesHaveASource == Spec => IdentitiesAreGiven
BY ImplementsBoth, GivenInvariant, PTL
=============================================================================
