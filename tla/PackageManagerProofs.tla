-------------------------- MODULE PackageManagerProofs ---------------------------
(***************************************************************************)
(* Theorems about package operations, for any number of them, of packages, *)
(* of platforms and of changes to the host and to the registry.            *)
(*                                                                         *)
(* The inductive invariant says of each operation by itself what it knows  *)
(* by the stage it stands at (Standing), what its child has found and done *)
(* (Worked), and that it has seen what the host is like now (Watching). A  *)
(* step of an operation leaves the host and the other operations as they   *)
(* are; the host changes by a child or by its user, and both are seen by   *)
(* every operation under way.                                              *)
(***************************************************************************)
EXTENDS PackageManager, SequenceTheorems, TLAPS

USE PackageAssumption

LEMMA Preferred ==
  /\ Len(getPreferredManagers) = 1
  /\ getPreferredManagers[1] = IF goos = "windows" THEN "chocolatey" ELSE "homebrew"
  /\ getPreferredManagers[1] \in Names
BY DEF getPreferredManagers, Names

-----------------------------------------------------------------------------
(* Types *)

LEMMA ProbeTypes ==
  ASSUME TypeOK, NEW p \in Operations
  PROVE  /\ \A n \in Names : Lookup(p, n) \in 0..MaxObjects
         /\ Lookup(p, "homebrew") # 0 => Lookup(p, "homebrew") \in 1..Len(brew)
BY DEF TypeOK, RegistryTypeOK, OperationTypeOK, Lookup, Names

Later == Stages \ {"idle", "done"}

BrewGrows == brew' \in Seq(BOOLEAN) /\ Len(brew) <= Len(brew') /\ Len(brew') <= MaxObjects

\* What a step of one operation can change: where that operation stands, its manager,
\* its place in the list, its child, the readers' lock and the Homebrew objects.
Moves(p) ==
  /\ at' \in [Operations -> Stages] /\ result' \in [Operations -> Results]
  /\ \A q \in Operations \ {p} : at'[q] = at[q] /\ result'[q] = result[q]
Holds(p) ==
  /\ uses' \in [Operations -> [name : Names \cup {"none"}, obj : 0..MaxObjects]]
  /\ \A q \in Operations \ {p} : uses'[q] = uses[q]
  /\ uses'[p].name = "homebrew" => uses'[p].obj \in 1..Len(brew')
Counts == next' \in [Operations -> Nat \ {0}]
Spawns(p) ==
  /\ child' \in [Operations -> {"none", "running", "in", "out"}]
  /\ \A q \in Operations \ {p} : child'[q] = child[q]

Advances(p) ==
  /\ Moves(p) /\ Holds(p) /\ Counts /\ Spawns(p)
  /\ UNCHANGED <<hostVars, managers, writer, kind, wants, pkg, saw>>
  /\ readers' \subseteq Operations /\ BrewGrows

LEMMA Standstill ==
  ASSUME TypeOK, NEW p \in Operations
  PROVE  /\ UNCHANGED <<at, result>> => Moves(p)
         /\ UNCHANGED uses /\ BrewGrows => Holds(p)
         /\ UNCHANGED next => Counts
         /\ UNCHANGED child => Spawns(p)
<1>1. UNCHANGED <<at, result>> => Moves(p)
  BY DEF TypeOK, OperationTypeOK, Moves
<1>2. ASSUME UNCHANGED uses, BrewGrows PROVE Holds(p)
  <2>1. uses'[p].name = "homebrew" => uses[p].obj \in 1..Len(brew)
    BY <1>2 DEF TypeOK
  <2>2. Len(brew) \in Nat /\ Len(brew') \in Nat /\ Len(brew) <= Len(brew')
    BY <1>2, LenProperties DEF TypeOK, RegistryTypeOK, BrewGrows
  <2>3. uses'[p].name = "homebrew" => uses'[p].obj \in 1..Len(brew')
    BY <1>2, <2>1, <2>2
  <2> QED
    BY <1>2, <2>3 DEF TypeOK, OperationTypeOK, Holds
<1>3. UNCHANGED next => Counts
  BY DEF TypeOK, OperationTypeOK, Counts
<1>4. UNCHANGED child => Spawns(p)
  BY DEF TypeOK, OperationTypeOK, Spawns
<1> QED
  BY <1>1, <1>2, <1>3, <1>4

LEMMA Movement ==
  ASSUME TypeOK, NEW p \in Operations
  PROVE  /\ \A s \in Later : Goto(p, s) => Moves(p)
         /\ \A r \in Results : Return(p, r) => Moves(p)
<1>1. at \in [Operations -> Stages] /\ result \in [Operations -> Results]
      /\ "done" \in Stages /\ Later \subseteq Stages
  BY DEF TypeOK, OperationTypeOK, Stages, Later
<1>2. ASSUME NEW s \in Later, Goto(p, s) PROVE Moves(p)
  BY <1>1, <1>2 DEF Goto, Moves
<1>3. ASSUME NEW r \in Results, Return(p, r) PROVE Moves(p)
  BY <1>1, <1>3 DEF Return, Moves
<1> QED
  BY <1>2, <1>3

LEMMA Taking ==
  ASSUME TypeOK, NEW p \in Operations, NEW m \in [name : Names, obj : 1..MaxObjects],
         Takes(p, m), m.name = "homebrew" => m.obj \in 1..Len(brew')
  PROVE  Holds(p) /\ uses'[p] = m
<1>1. uses \in [Operations -> [name : Names \cup {"none"}, obj : 0..MaxObjects]]
  BY DEF TypeOK, OperationTypeOK
<1>2. m \in [name : Names \cup {"none"}, obj : 0..MaxObjects]
  OBVIOUS
<1> QED
  BY <1>1, <1>2 DEF Takes, Holds

LEMMA Counting ==
  ASSUME TypeOK, NEW p \in Operations
  PROVE  /\ next' = [next EXCEPT ![p] = 1] => Counts
         /\ next' = [next EXCEPT ![p] = @ + 1] => Counts
<1>1. next \in [Operations -> Nat \ {0}] /\ next[p] + 1 \in Nat \ {0}
  BY DEF TypeOK, OperationTypeOK
<1> QED
  BY <1>1 DEF Counts

LEMMA Spawning ==
  ASSUME TypeOK, NEW p \in Operations
  PROVE  /\ child' = [child EXCEPT ![p] = "none"] => Spawns(p) /\ child'[p] = "none"
         /\ child' = [child EXCEPT ![p] = "running"] => Spawns(p) /\ child'[p] = "running"
BY DEF TypeOK, OperationTypeOK, Spawns

LEMMA AdvanceTypes ==
  ASSUME TypeOK, NEW p \in Operations, Advances(p), UNCHANGED changes PROVE TypeOK'
<1>1. OperationTypeOK'
  BY DEF Advances, Moves, Holds, Counts, Spawns, TypeOK, OperationTypeOK
<1>2. HostTypeOK'
  BY DEF Advances, TypeOK, HostTypeOK, hostVars
<1>3. managers["homebrew"] \in Nat /\ Len(brew) \in Nat /\ Len(brew') \in Nat
      /\ managers["homebrew"] <= Len(brew) /\ Len(brew) <= Len(brew')
  BY LenProperties DEF Advances, BrewGrows, TypeOK, RegistryTypeOK, Names
<1>4. managers["homebrew"] <= Len(brew')
  BY <1>3
<1>5. RegistryTypeOK'
  BY <1>4 DEF Advances, BrewGrows, TypeOK, RegistryTypeOK
<1>6. \A q \in Operations : uses'[q].name = "homebrew" => uses'[q].obj \in 1..Len(brew')
  <2>1. TAKE q \in Operations
  <2>2. CASE q = p
    BY <2>2 DEF Advances, Holds
  <2>3. CASE q # p
    <3>1. uses'[q] = uses[q] /\ (uses[q].name = "homebrew" => uses[q].obj \in 1..Len(brew))
      BY <2>3 DEF Advances, Holds, TypeOK
    <3> QED
      BY <1>3, <3>1
  <2> QED
    BY <2>2, <2>3
<1> QED
  BY <1>1, <1>2, <1>5, <1>6 DEF TypeOK

-----------------------------------------------------------------------------
(* The invariant of an operation *)

\* What an operation knows by the stage it stands at.
Standing(p) ==
  /\ at[p] # "done" => result[p] = "none"
  /\ at[p] \notin {"script", "run", "info", "done"} => child[p] = "none"
  /\ result[p] \in Refusals => child[p] = "none"
  /\ at[p] \in {"bootstrap", "managerCheck", "script", "managerVerify", "verify"} =>
       kind[p] \in Installing
  /\ at[p] \in {"script", "managerVerify", "run", "info"} => uses[p].name = getPreferredManagers[1]

\* It has seen what the host is like now.
Watching(p) ==
  Active(p) => /\ View(pkg[p], installed) \in saw[p]
               /\ present # {} => "manager" \in saw[p]

\* What its child has found there and left behind.
Worked(p) ==
  /\ at[p] = "run" /\ child[p] \in {"in", "out"} =>
       /\ child[p] \in saw[p] /\ "manager" \in saw[p]
       /\ kind[p] = "install" => "in" \in saw[p]
       /\ kind[p] = "uninstall" /\ child[p] = "in" => "out" \in saw[p]
       /\ kind[p] = "update" /\ uses[p].name = "chocolatey" => "in" \in saw[p]
  /\ at[p] = "info" => "in" \in saw[p]

Answered(p) ==
  /\ (result[p] = "yes" \/ (result[p] = "nil" /\ kind[p] \in {"install", "update"})) => "in" \in saw[p]
  /\ (result[p] = "no" \/ (result[p] = "nil" /\ kind[p] = "uninstall")) => "out" \in saw[p]
  /\ result[p] = "nil" => "manager" \in saw[p]

OpInv(p) == Standing(p) /\ Watching(p) /\ Worked(p) /\ Answered(p)
Inv == \A p \in Operations : OpInv(p)

\* A step that gets to a stage where nothing is known of a child.
LEMMA GoesOn ==
  ASSUME TypeOK, NEW p \in Operations, OpInv(p), Active(p), Advances(p), NEW s \in Later, Goto(p, s),
         s \notin {"script", "run", "info"} => child'[p] = "none",
         s \in {"bootstrap", "managerCheck", "script", "managerVerify", "verify"} => kind[p] \in Installing,
         s \in {"script", "managerVerify", "run", "info"} => uses'[p].name = getPreferredManagers[1],
         s = "run" => child'[p] = "running",
         s = "info" => "in" \in saw[p]
  PROVE  OpInv(p)'
<1>1. at'[p] = s /\ result' = result
  BY DEF Goto, TypeOK, OperationTypeOK
<1>2. UNCHANGED <<installed, present, goos, kind, pkg, saw>>
  BY DEF Advances, hostVars
<1>3. s # "done" /\ at[p] # "done" /\ result[p] = "none"
  BY DEF Later, Active, OpInv, Standing
<1>4. Standing(p)'
  BY <1>1, <1>2, <1>3 DEF Standing, Refusals, getPreferredManagers
<1>5. Watching(p)'
  BY <1>2 DEF OpInv, Watching, Active, View
<1>6. Worked(p)' /\ Answered(p)'
  BY <1>1, <1>2, <1>3 DEF Worked, Answered
<1> QED
  BY <1>4, <1>5, <1>6 DEF OpInv

\* A return whose result is true of what the operation has seen.
LEMMA Returns ==
  ASSUME TypeOK, NEW p \in Operations, OpInv(p), Advances(p), NEW r \in Results, Return(p, r),
         r \in Refusals => child'[p] = "none",
         (r = "yes" \/ (r = "nil" /\ kind[p] \in {"install", "update"})) => "in" \in saw[p],
         (r = "no" \/ (r = "nil" /\ kind[p] = "uninstall")) => "out" \in saw[p],
         r = "nil" => "manager" \in saw[p]
  PROVE  OpInv(p)'
<1>1. at'[p] = "done" /\ result'[p] = r
  BY DEF Return, TypeOK, OperationTypeOK
<1>2. UNCHANGED <<kind, saw>>
  BY DEF Advances
<1> QED
  BY <1>1, <1>2 DEF OpInv, Standing, Watching, Worked, Answered, Active

LEMMA StaysPut ==
  ASSUME TypeOK, NEW p \in Operations, OpInv(p), Advances(p), UNCHANGED <<at, result, child>>,
         at[p] \in {"detect", "bootstrap"}
  PROVE  OpInv(p)'
<1>1. UNCHANGED <<installed, present, goos, kind, pkg, saw>>
  BY DEF Advances, hostVars
<1> QED
  BY <1>1 DEF OpInv, Standing, Watching, Worked, Answered, Active, View, Refusals, getPreferredManagers

LEMMA SameBrew == TypeOK /\ brew' = brew => BrewGrows
BY LenProperties DEF TypeOK, RegistryTypeOK, BrewGrows

\* A manager that says it is installed is on the host, and of its platform.
LEMMA ProbeYes ==
  ASSUME TypeOK, NEW m, IsInstalled(m, TRUE)
  PROVE  present # {} /\ (m.name \in Names => m.name = getPreferredManagers[1])
BY Preferred DEF TypeOK, HostTypeOK, IsInstalled, BrewIsInstalled, ChocoIsInstalled, Names

-----------------------------------------------------------------------------
(* The registry and the installer *)

LEMMA AutoDetectKeeps ==
  ASSUME TypeOK, NEW p \in Operations, OpInv(p), AutoDetect(p)
  PROVE  Advances(p) /\ OpInv(p)'
<1>0. /\ UNCHANGED <<hostVars, managers, brew, writer, kind, wants, pkg, saw, child>>
      /\ BrewGrows /\ Spawns(p)
  BY SameBrew, Standstill DEF AutoDetect, askedVars
<1>1. readers \subseteq Operations /\ next[p] \in Nat \ {0}
  BY DEF TypeOK, OperationTypeOK, RegistryTypeOK
<1>2. /\ {"detect", "check", "packageCheck", "bootstrap"} \subseteq Later
      /\ {"nil", "NO_MANAGER"} \subseteq Results
  BY DEF Later, Stages, Results, Refusals
<1>3. CASE at[p] = "pick" /\ Goto(p, "detect") /\ next' = [next EXCEPT ![p] = 1]
           /\ readers' = (IF kind[p] = "default" THEN readers ELSE readers \cup {p}) /\ UNCHANGED uses
  <2>1. Advances(p)
    BY <1>0, <1>1, <1>2, <1>3, Movement, Standstill, Counting DEF Advances
  <2>2. child'[p] = "none" /\ Active(p)
    BY <1>0, <1>3 DEF OpInv, Standing, Active
  <2> QED
    BY <1>2, <1>3, <2>1, <2>2, GoesOn
<1>4. ASSUME NEW m, m = [name |-> getPreferredManagers[next[p]], obj |-> Lookup(p, getPreferredManagers[next[p]])],
             at[p] = "detect", next[p] <= Len(getPreferredManagers),
             m.obj # 0, IsInstalled(m, TRUE), Detected(p, m), Leaves(p)
      PROVE  Advances(p) /\ OpInv(p)'
  <2>1. next[p] = 1
    BY <1>1, <1>4, Preferred
  <2>2. m \in [name : Names, obj : 1..MaxObjects] /\ (m.name = "homebrew" => m.obj \in 1..Len(brew))
    BY <1>4, <2>1, ProbeTypes, Preferred DEF Names
  <2>3. Takes(p, m) /\ UNCHANGED next /\ readers' \subseteq Operations
    BY <1>1, <1>4 DEF Detected, Leaves
  <2>4. \/ Goto(p, "check") \/ Goto(p, "packageCheck")
        \/ Return(p, "nil") /\ kind[p] \in {"default", "ensure"}
    BY <1>4 DEF Detected, Available, Installing
  <2>5. Holds(p) /\ Moves(p) /\ Counts
    BY <1>0, <1>2, <2>2, <2>3, <2>4, Taking, Movement, Standstill
  <2>6. Advances(p)
    BY <1>0, <2>3, <2>5 DEF Advances
  <2>7. child'[p] = "none" /\ Active(p) /\ "manager" \in saw[p]
    BY <1>0, <1>4, ProbeYes DEF OpInv, Standing, Active, Watching
  <2>8. CASE Goto(p, "check") \/ Goto(p, "packageCheck")
    BY <1>2, <2>6, <2>7, <2>8, GoesOn
  <2>9. CASE Return(p, "nil") /\ kind[p] \in {"default", "ensure"}
    BY <1>2, <2>6, <2>7, <2>9, Returns DEF Refusals
  <2> QED
    BY <2>4, <2>6, <2>8, <2>9
<1>5. CASE /\ at[p] = "detect" /\ next' = [next EXCEPT ![p] = @ + 1]
           /\ UNCHANGED <<at, result, uses, readers>>
  <2>1. Advances(p)
    BY <1>0, <1>1, <1>5, Standstill, Counting DEF Advances
  <2> QED
    BY <1>0, <1>5, <2>1, StaysPut
<1>6. CASE at[p] = "detect" /\ NotDetected(p) /\ Leaves(p)
  <2>1. /\ next' = [next EXCEPT ![p] = 1] /\ UNCHANGED uses /\ readers' \subseteq Operations
        /\ \/ Goto(p, "bootstrap") /\ kind[p] \in Installing
           \/ Return(p, "NO_MANAGER")
    BY <1>1, <1>6 DEF NotDetected, Leaves
  <2>2. Advances(p)
    BY <1>0, <1>2, <2>1, Movement, Standstill, Counting DEF Advances
  <2>3. child'[p] = "none" /\ Active(p)
    BY <1>0, <1>6 DEF OpInv, Standing, Active
  <2>4. CASE Goto(p, "bootstrap") /\ kind[p] \in Installing
    BY <1>2, <2>2, <2>3, <2>4, GoesOn
  <2>5. CASE Return(p, "NO_MANAGER")
    BY <1>2, <2>2, <2>3, <2>5, Returns
  <2> QED
    BY <2>1, <2>2, <2>4, <2>5
<1> QED
  BY <1>3, <1>4, <1>5, <1>6 DEF AutoDetect

\* A step that changes neither the host nor the registry.
LEMMA Quiet ==
  ASSUME TypeOK, NEW p \in Operations, UNCHANGED <<hostVars, registryVars, askedVars, saw>>,
         Moves(p), Holds(p), Counts, Spawns(p)
  PROVE  Advances(p)
<1>1. UNCHANGED <<managers, brew, readers, writer, kind, wants, pkg, saw>>
  BY DEF registryVars, askedVars
<1>2. readers' \subseteq Operations /\ BrewGrows
  BY <1>1, SameBrew DEF TypeOK, RegistryTypeOK
<1> QED
  BY <1>1, <1>2 DEF Advances

\* A step between two probes: it goes on, or returns a refusal or a failure.
Between(p) ==
  \/ \E s \in {"check", "packageCheck", "managerCheck", "bootstrap", "verify"} :
       /\ Goto(p, s)
       /\ s \in {"managerCheck", "bootstrap", "verify"} => kind[p] \in Installing
  \/ \E r \in Refusals \cup Failures : Return(p, r)
  \/ Return(p, "nil") /\ kind[p] \in {"ensure", "default"} /\ "manager" \in saw[p]

LEMMA BetweenKeeps ==
  ASSUME TypeOK, NEW p \in Operations, OpInv(p), Active(p), Between(p), child'[p] = "none",
         Moves(p) => Advances(p)
  PROVE  Advances(p) /\ OpInv(p)'
<1>1. {"check", "packageCheck", "managerCheck", "bootstrap", "verify"} \subseteq Later
      /\ Refusals \cup Failures \subseteq Results \ {"nil", "yes", "no"} /\ "nil" \in Results \ Refusals
  BY DEF Later, Stages, Results, Refusals, Failures
<1>2. Advances(p)
  BY <1>1, Movement DEF Between
<1>3. ASSUME NEW s \in {"check", "packageCheck", "managerCheck", "bootstrap", "verify"}, Goto(p, s),
             s \in {"managerCheck", "bootstrap", "verify"} => kind[p] \in Installing
      PROVE  OpInv(p)'
  BY <1>1, <1>2, <1>3, GoesOn
<1>4. ASSUME NEW r \in Refusals \cup Failures, Return(p, r) PROVE OpInv(p)'
  BY <1>1, <1>2, <1>4, Returns
<1>5. CASE Return(p, "nil") /\ kind[p] \in {"ensure", "default"} /\ "manager" \in saw[p]
  BY <1>1, <1>2, <1>5, Returns
<1> QED
  BY <1>2, <1>3, <1>4, <1>5 DEF Between

\* Away from a child's run, an operation has no child.
LEMMA NoChild ==
  ASSUME NEW p \in Operations, OpInv(p), at[p] \notin {"idle", "script", "run", "info", "done"}
  PROVE  child[p] = "none" /\ Active(p)
BY DEF OpInv, Standing, Active

LEMMA GetKeeps ==
  ASSUME TypeOK, NEW p \in Operations, OpInv(p), at[p] \in {"pick", "bootstrap"}, NEW n \in Names,
         NEW s \in {"check", "managerCheck"}, s = "managerCheck" => kind[p] \in Installing,
         Get(p, n, s, NotFound(p))
  PROVE  Advances(p) /\ OpInv(p)'
<1>1. /\ UNCHANGED <<hostVars, registryVars, askedVars, child, saw>> /\ brew' = brew
      /\ UNCHANGED next
  BY DEF Get, NotFound, registryVars
<1>2. BrewGrows /\ Spawns(p) /\ Counts /\ child'[p] = "none" /\ Active(p)
  BY <1>1, SameBrew, Standstill, NoChild
<1>3. CASE Lookup(p, n) # 0 /\ Takes(p, [name |-> n, obj |-> Lookup(p, n)]) /\ Goto(p, s)
  <2>1. /\ [name |-> n, obj |-> Lookup(p, n)] \in [name : Names, obj : 1..MaxObjects]
        /\ n = "homebrew" => Lookup(p, n) \in 1..Len(brew')
    BY <1>1, <1>3, ProbeTypes
  <2>2. Holds(p)
    BY <1>3, <2>1, Taking
  <2> QED
    BY <1>1, <1>2, <1>3, <2>2, Quiet, BetweenKeeps DEF Between
<1>4. CASE NotFound(p)
  <2>1. Return(p, "NOT_FOUND") /\ Holds(p) /\ "NOT_FOUND" \in Refusals
    BY <1>2, <1>4, Standstill DEF NotFound, Refusals
  <2> QED
    BY <1>1, <1>2, <2>1, Quiet, BetweenKeeps DEF Between
<1> QED
  BY <1>3, <1>4 DEF Get

\* A probe that is followed by one of the steps between.
LEMMA ProbeKeeps ==
  ASSUME TypeOK, NEW p \in Operations, OpInv(p), at[p] \notin {"idle", "script", "run", "info", "done"},
         UNCHANGED <<hostVars, registryVars, askedVars, uses, child, saw>>, Counts, Between(p)
  PROVE  Advances(p) /\ OpInv(p)'
<1>1. BrewGrows /\ Spawns(p) /\ Holds(p) /\ child'[p] = "none" /\ Active(p)
  BY SameBrew, Standstill, NoChild DEF registryVars
<1> QED
  BY <1>1, Quiet, BetweenKeeps

LEMMA AvailableIsBetween ==
  ASSUME TypeOK, NEW p \in Operations, OpInv(p), at[p] \in {"check", "verify"},
         kind[p] \in {"install", "ensure"}, IsInstalled(uses[p], TRUE), Available(p)
  PROVE  Between(p)
<1>1. "manager" \in saw[p]
  BY ProbeYes DEF OpInv, Watching, Active
<1> QED
  BY <1>1 DEF Available, Between

LEMMA FailureIsBetween ==
  ASSUME TypeOK, NEW p \in Operations, kind[p] \in Installing, InstallFails(p)
  PROVE  Between(p) /\ Counts
<1>1. Counts
  BY Counting, Standstill DEF InstallFails
<1>2. Between(p)
  BY DEF InstallFails, Between, Failures
<1> QED
  BY <1>1, <1>2

LEMMA EnsureKeeps ==
  ASSUME TypeOK, NEW p \in Operations, OpInv(p), at[p] # "idle", EnsurePackageManager(p)
  PROVE  Advances(p) /\ OpInv(p)'
<1>1. kind[p] \in {"install", "ensure"} /\ wants[p] # "auto" /\ wants[p] \in Wanted
      /\ "INSTALL_FAILED" \in Failures
  BY DEF EnsurePackageManager, Begin, TypeOK, OperationTypeOK, Failures
<1>2. CASE at[p] = "pick" /\ Get(p, wants[p], "check", NotFound(p))
  BY <1>1, <1>2, GetKeeps DEF Wanted
<1>3. CASE Probe(p, "check", Available(p), Goto(p, "managerCheck")) /\ UNCHANGED next
  <2>1. Between(p)
    BY <1>1, <1>3, AvailableIsBetween DEF Probe, Between, Installing
  <2> QED
    BY <1>3, <2>1, ProbeKeeps, Standstill DEF Probe
<1>4. CASE Probe(p, "verify", Available(p), Return(p, "INSTALL_FAILED")) /\ UNCHANGED next
  <2>1. Between(p)
    BY <1>1, <1>4, AvailableIsBetween DEF Probe, Between, Installing
  <2> QED
    BY <1>4, <2>1, ProbeKeeps, Standstill DEF Probe
<1> QED
  BY <1>2, <1>3, <1>4 DEF EnsurePackageManager, Begin

LEMMA AutoKeeps ==
  ASSUME TypeOK, NEW p \in Operations, OpInv(p), ensureAutoDetected(p)
  PROVE  Advances(p) /\ OpInv(p)'
<1>1. kind[p] \in {"install", "ensure"} /\ kind[p] \in Installing
  BY DEF ensureAutoDetected, Installing
<1>2. CASE at[p] = "bootstrap" /\ next[p] <= Len(getPreferredManagers)
           /\ Get(p, getPreferredManagers[next[p]], "managerCheck",
                  next' = [next EXCEPT ![p] = @ + 1] /\ UNCHANGED <<at, result, uses>>)
  <2>1. next[p] = 1
    BY <1>2, Preferred DEF TypeOK, OperationTypeOK
  <2>2. CASE Lookup(p, getPreferredManagers[1]) # 0
    <3>1. Get(p, getPreferredManagers[1], "managerCheck", NotFound(p))
      BY <1>2, <2>1, <2>2 DEF Get
    <3> QED
      BY <1>1, <1>2, <3>1, Preferred, GetKeeps
  <2>3. CASE next' = [next EXCEPT ![p] = @ + 1] /\ UNCHANGED <<at, result, uses>>
    <3>1. /\ UNCHANGED <<hostVars, registryVars, askedVars, child, saw>> /\ brew' = brew
      BY <1>2 DEF Get, registryVars
    <3>2. Advances(p)
      BY <2>3, <3>1, SameBrew, Standstill, Counting, Quiet
    <3> QED
      BY <1>2, <2>3, <3>1, <3>2, StaysPut
  <2> QED
    BY <1>2, <2>1, <2>2, <2>3 DEF Get
<1>3. CASE /\ at[p] = "bootstrap" /\ Return(p, "NO_MANAGER") /\ Keeps(p)
           /\ UNCHANGED <<hostVars, registryVars>>
  <2>1. Between(p)
    BY <1>3 DEF Between, Refusals
  <2> QED
    BY <1>3, <2>1, ProbeKeeps, Standstill DEF Keeps
<1>4. CASE Probe(p, "verify", Available(p) /\ UNCHANGED next, InstallFails(p))
  <2>1. at[p] = "verify" /\ UNCHANGED <<hostVars, registryVars, askedVars, uses, child, saw>>
        /\ \/ IsInstalled(uses[p], TRUE) /\ Available(p) /\ UNCHANGED next
           \/ InstallFails(p)
    BY <1>4 DEF Probe
  <2>2. Between(p) /\ Counts
    BY <1>1, <2>1, AvailableIsBetween, FailureIsBetween, Standstill
  <2> QED
    BY <2>1, <2>2, ProbeKeeps
<1> QED
  BY <1>2, <1>3, <1>4 DEF ensureAutoDetected

LEMMA DefaultKeeps ==
  ASSUME TypeOK, NEW p \in Operations, OpInv(p), at[p] # "idle", GetDefaultOrInstall(p)
  PROVE  Advances(p) /\ OpInv(p)'
<1>1. kind[p] = "default" /\ kind[p] \in Installing
  BY DEF GetDefaultOrInstall, Installing
<1>2. CASE at[p] = "bootstrap" /\ Get(p, getPreferredManagers[1], "managerCheck", NotFound(p))
  BY <1>1, <1>2, Preferred, GetKeeps
<1>3. CASE Probe(p, "verify", Return(p, "nil"), Return(p, "INSTALL_FAILED")) /\ UNCHANGED next
  <2>1. at[p] = "verify" /\ UNCHANGED <<hostVars, registryVars, askedVars, uses, child, saw>>
        /\ \/ IsInstalled(uses[p], TRUE) /\ Return(p, "nil")
           \/ Return(p, "INSTALL_FAILED")
    BY <1>3 DEF Probe
  <2>2. IsInstalled(uses[p], TRUE) => "manager" \in saw[p]
    BY <2>1, ProbeYes DEF OpInv, Watching, Active
  <2>3. Between(p)
    BY <1>1, <2>1, <2>2 DEF Between, Failures
  <2> QED
    BY <1>3, <2>1, <2>3, ProbeKeeps, Standstill
<1> QED
  BY <1>2, <1>3 DEF GetDefaultOrInstall

LEMMA SelectsKeeps ==
  ASSUME TypeOK, NEW p \in Operations, OpInv(p), NEW k, Selects(p, k)
  PROVE  Advances(p) /\ OpInv(p)'
<1>1. CASE at[p] = "pick" /\ ~ByPlatform(p) /\ Get(p, wants[p], "check", NotFound(p))
  <2>1. wants[p] \in Names
    BY <1>1 DEF ByPlatform, Wanted, TypeOK, OperationTypeOK
  <2> QED
    BY <1>1, <2>1, GetKeeps
<1>2. CASE Probe(p, "check", Goto(p, "packageCheck"), Return(p, "NOT_INSTALLED")) /\ UNCHANGED next
  <2>1. Between(p)
    BY <1>2 DEF Probe, Between, Refusals
  <2> QED
    BY <1>2, <2>1, ProbeKeeps, Standstill DEF Probe
<1> QED
  BY <1>1, <1>2 DEF Selects

-----------------------------------------------------------------------------
(* The managers *)

LEMMA ChecksKeeps ==
  ASSUME TypeOK, NEW p \in Operations, OpInv(p),
         ChecksFirst(p, FALSE) \/ (ChecksFirst(p, TRUE) /\ uses[p].name = getPreferredManagers[1])
  PROVE  Advances(p) /\ OpInv(p)'
<1>1. at[p] = "managerCheck" /\ UNCHANGED <<hostVars, registryVars, askedVars, uses, saw>>
  BY DEF ChecksFirst
<1>2. kind[p] \in Installing /\ child[p] = "none" /\ Active(p) /\ Holds(p)
  BY <1>1, NoChild, SameBrew, Standstill DEF OpInv, Standing, registryVars
<1>3. CASE InstallFails(p) /\ UNCHANGED child
  BY <1>1, <1>2, <1>3, FailureIsBetween, ProbeKeeps
<1>4. CASE Goto(p, "verify") /\ UNCHANGED <<child, next>>
  <2>1. Between(p)
    BY <1>2, <1>4 DEF Between
  <2> QED
    BY <1>1, <1>4, <2>1, Standstill, ProbeKeeps
<1>5. CASE Goto(p, "script") /\ child' = [child EXCEPT ![p] = "running"] /\ UNCHANGED next
           /\ uses[p].name = getPreferredManagers[1]
  <2>1. "script" \in Later
    BY DEF Later, Stages
  <2>2. Advances(p)
    BY <1>1, <1>2, <1>5, <2>1, Movement, Standstill, Spawning, Quiet
  <2> QED
    BY <1>1, <1>2, <1>5, <2>1, <2>2, GoesOn
<1> QED
  BY <1>3, <1>4, <1>5 DEF ChecksFirst

LEMMA PathLookup ==
  ASSUME TypeOK, NEW p \in Operations, uses[p].name = "homebrew",
         brew' = [brew EXCEPT ![uses[p].obj] = "homebrew" \in present]
  PROVE  BrewGrows
<1>1. uses[p].obj \in 1..Len(brew) /\ brew \in Seq(BOOLEAN) /\ Len(brew) <= MaxObjects
  BY DEF TypeOK, RegistryTypeOK
<1>2. brew' \in Seq(BOOLEAN) /\ Len(brew') = Len(brew)
  BY <1>1, ExceptSeq
<1> QED
  BY <1>1, <1>2, LenProperties DEF BrewGrows

\* After its script, whether the path of brew is looked up again or not.
LEMMA ScriptKeeps ==
  ASSUME TypeOK, NEW p \in Operations, OpInv(p), ScriptExits(p), BrewGrows,
         InstallFails(p) \/ (Goto(p, "managerVerify") /\ UNCHANGED next)
  PROVE  Advances(p) /\ OpInv(p)'
<1>1. /\ at[p] = "script" /\ child' = [child EXCEPT ![p] = "none"]
      /\ UNCHANGED <<hostVars, managers, readers, writer, kind, wants, pkg, uses, saw>>
  BY DEF ScriptExits, askedVars
<1>2. kind[p] \in Installing /\ uses[p].name = getPreferredManagers[1] /\ Active(p)
  BY <1>1 DEF OpInv, Standing, Active
<1>4. Spawns(p) /\ child'[p] = "none" /\ Holds(p) /\ readers' \subseteq Operations
  BY <1>1, Spawning, Standstill DEF TypeOK, RegistryTypeOK
<1>5. CASE InstallFails(p)
  <2>1. Between(p) /\ Counts
    BY <1>2, <1>5, FailureIsBetween
  <2>2. Moves(p) => Advances(p)
    BY <1>1, <1>4, <2>1 DEF Advances
  <2> QED
    BY <1>2, <1>4, <2>1, <2>2, BetweenKeeps
<1>6. CASE Goto(p, "managerVerify") /\ UNCHANGED next
  <2>1. "managerVerify" \in Later
    BY DEF Later, Stages
  <2>2. Advances(p)
    BY <1>1, <1>4, <1>6, <2>1, Movement, Standstill DEF Advances
  <2> QED
    BY <1>1, <1>2, <1>4, <1>6, <2>1, <2>2, GoesOn
<1> QED
  BY <1>5, <1>6

LEMMA VerifiesKeeps ==
  ASSUME TypeOK, NEW p \in Operations, OpInv(p), Verifies(p)
  PROVE  Advances(p) /\ OpInv(p)'
<1>1. at[p] = "managerVerify" /\ UNCHANGED <<hostVars, registryVars, askedVars, uses, child, saw>>
      /\ ((Goto(p, "verify") /\ UNCHANGED next) \/ InstallFails(p))
  BY DEF Verifies, Probe
<1>2. kind[p] \in Installing
  BY <1>1 DEF OpInv, Standing
<1>3. Between(p) /\ Counts
  BY <1>1, <1>2, FailureIsBetween, Standstill DEF Between
<1> QED
  BY <1>1, <1>3, ProbeKeeps

LEMMA InstallKeeps ==
  ASSUME TypeOK, NEW p \in Operations, OpInv(p), BrewInstall(p) \/ ChocoInstall(p)
  PROVE  Advances(p) /\ OpInv(p)'
<1>1. goos \in {"darwin", "linux", "windows"}
  BY DEF TypeOK, HostTypeOK
<1>2. CASE BrewInstall(p)
  <2>1. uses[p].name = "homebrew" /\ uses[p].name \in Names
    BY <1>2 DEF BrewInstall, Names
  <2>2. goos \in {"darwin", "linux"} => uses[p].name = getPreferredManagers[1]
    BY <2>1, Preferred
  <2> QED
    <3>1. CASE ChecksFirst(p, goos \in {"darwin", "linux"})
      BY <2>2, <3>1, ChecksKeeps DEF ChecksFirst
    <3>2. CASE ScriptExits(p) /\ InstallFails(p) /\ UNCHANGED brew
      BY <3>2, SameBrew, ScriptKeeps
    <3>3. CASE /\ ScriptExits(p) /\ Goto(p, "managerVerify") /\ UNCHANGED next
               /\ brew' = [brew EXCEPT ![uses[p].obj] = "homebrew" \in present]
      BY <2>1, <3>3, PathLookup, ScriptKeeps
    <3> QED
      BY <1>2, <3>1, <3>2, <3>3, VerifiesKeeps DEF BrewInstall
<1>3. CASE ChocoInstall(p)
  <2>1. uses[p].name = "chocolatey" /\ uses[p].name \in Names
    BY <1>3 DEF ChocoInstall, Names
  <2>2. goos = "windows" => uses[p].name = getPreferredManagers[1]
    BY <2>1, Preferred
  <2> QED
    <3>1. CASE ChecksFirst(p, goos = "windows")
      BY <2>2, <3>1, ChecksKeeps DEF ChecksFirst
    <3>2. CASE ScriptExits(p) /\ InstallFails(p) /\ UNCHANGED brew
      BY <3>2, SameBrew, ScriptKeeps
    <3>3. CASE ScriptExits(p) /\ Goto(p, "managerVerify") /\ UNCHANGED <<brew, next>>
      BY <3>3, SameBrew, ScriptKeeps
    <3> QED
      BY <1>3, <3>1, <3>2, <3>3, VerifiesKeeps DEF ChocoInstall
<1> QED
  BY <1>2, <1>3

LEMMA StartsKeeps ==
  ASSUME TypeOK, NEW p \in Operations, OpInv(p), Starts(p), uses[p].name \in Names
  PROVE  Advances(p) /\ OpInv(p)'
<1>1. at[p] = "packageCheck" /\ UNCHANGED <<hostVars, registryVars, askedVars, uses, next, saw>>
  BY DEF Starts
<1>2. Holds(p) /\ Counts /\ Active(p)
  BY <1>1, SameBrew, Standstill DEF registryVars, Active
<1>3. CASE Return(p, "NOT_INSTALLED") /\ UNCHANGED child
  <2>1. Between(p)
    BY <1>3 DEF Between, Refusals
  <2> QED
    BY <1>1, <1>2, <1>3, <2>1, ProbeKeeps
<1>4. CASE IsInstalled(uses[p], TRUE) /\ Goto(p, "run") /\ child' = [child EXCEPT ![p] = "running"]
  <2>1. "run" \in Later
    BY DEF Later, Stages
  <2>2. Advances(p)
    BY <1>1, <1>2, <1>4, <2>1, Movement, Spawning, Quiet
  <2>3. uses'[p].name = getPreferredManagers[1] /\ child'[p] = "running"
    BY <1>1, <1>4, ProbeYes, Spawning
  <2> QED
    BY <1>2, <1>4, <2>1, <2>2, <2>3, GoesOn
<1> QED
  BY <1>3, <1>4 DEF Starts

\* The end of a child, or of the second look of GetPackageInfo, with a true result.
LEMMA EndsKeeps ==
  ASSUME TypeOK, NEW p \in Operations, OpInv(p), NEW r \in Results \ Refusals, Ends(p, r),
         (r = "yes" \/ (r = "nil" /\ kind[p] \in {"install", "update"})) => "in" \in saw[p],
         (r = "no" \/ (r = "nil" /\ kind[p] = "uninstall")) => "out" \in saw[p],
         r = "nil" => "manager" \in saw[p]
  PROVE  Advances(p) /\ OpInv(p)'
<1>1. UNCHANGED <<hostVars, registryVars, askedVars, uses, next, child, saw>> /\ Return(p, r)
  BY DEF Ends, Keeps
<1>2. Advances(p)
  BY <1>1, SameBrew, Movement, Standstill, Quiet DEF registryVars
<1> QED
  BY <1>1, <1>2, Returns

LEMMA FailuresAreResults ==
  /\ Failures \subseteq Results \ (Refusals \cup {"nil", "yes", "no"})
  /\ {"nil", "yes", "no"} \subseteq Results \ Refusals
BY DEF Results, Refusals, Failures

LEMMA BrewKeeps ==
  ASSUME TypeOK, NEW p \in Operations, OpInv(p),
         \/ BrewInstallPackage(p) \/ BrewUninstallPackage(p) \/ BrewUpdatePackage(p)
         \/ BrewListInstalled(p) \/ BrewIsPackageInstalled(p)
  PROVE  Advances(p) /\ OpInv(p)'
<1>1. uses[p].name = "homebrew" /\ uses[p].name \in Names
  BY DEF BrewInstallPackage, BrewUninstallPackage, BrewUpdatePackage, BrewListInstalled,
     BrewIsPackageInstalled, On, Names
<1>2. CASE Starts(p)
  BY <1>1, <1>2, StartsKeeps
<1>3. ASSUME NEW ok \in BOOLEAN, BrewExecute(p, ok)
      PROVE  /\ at[p] = "run"
             /\ child[p] = "in" => "in" \in saw[p] /\ "manager" \in saw[p]
             /\ child[p] = "out" => "out" \in saw[p]
             /\ ok => child[p] = "in" \/ (child[p] = "out" /\ kind[p] \in {"install", "list"})
             /\ ok => "manager" \in saw[p]
             /\ ok /\ kind[p] = "install" => "in" \in saw[p]
             /\ ok /\ kind[p] = "uninstall" => "out" \in saw[p]
  BY <1>3 DEF BrewExecute, OpInv, Worked
<1>4. CASE BrewInstallPackage(p)
  BY <1>2, <1>3, <1>4, EndsKeeps, FailuresAreResults DEF BrewInstallPackage, On, Failures
<1>5. CASE BrewUninstallPackage(p)
  BY <1>2, <1>3, <1>5, EndsKeeps, FailuresAreResults DEF BrewUninstallPackage, On, Failures
<1>6. CASE BrewUpdatePackage(p)
  BY <1>2, <1>3, <1>6, EndsKeeps, FailuresAreResults DEF BrewUpdatePackage, On, Failures
<1>7. CASE BrewListInstalled(p)
  BY <1>2, <1>3, <1>7, EndsKeeps, FailuresAreResults DEF BrewListInstalled, On, Failures
<1>8. CASE BrewIsPackageInstalled(p)
  <2>1. kind[p] \in {"query", "info"}
    BY <1>8 DEF BrewIsPackageInstalled, On
  <2>2. CASE BrewExecute(p, TRUE) /\ Goto(p, "info") /\ Keeps(p) /\ UNCHANGED <<hostVars, registryVars>>
    <3>1. "info" \in Later /\ "in" \in saw[p] /\ Active(p) /\ at[p] = "run"
      BY <1>3, <2>1, <2>2 DEF Later, Stages, Active
    <3>2. Advances(p)
      BY <2>2, <3>1, SameBrew, Movement, Standstill, Quiet DEF Keeps, registryVars
    <3>3. uses'[p].name = getPreferredManagers[1]
      BY <2>2, <3>1 DEF Keeps, OpInv, Standing
    <3> QED
      BY <3>1, <3>2, <3>3, <2>2, GoesOn
  <2>3. CASE BrewExecute(p, TRUE) /\ Ends(p, "yes")
    BY <1>3, <2>1, <2>3, EndsKeeps, FailuresAreResults
  <2>4. CASE BrewExecute(p, FALSE) /\ child[p] = "out" /\ (Ends(p, "PACKAGE_NOT_FOUND") \/ Ends(p, "no"))
    BY <1>3, <2>4, EndsKeeps, FailuresAreResults DEF Failures
  <2>5. CASE BrewExecute(p, FALSE) /\ Ends(p, "CHECK_FAILED")
    BY <2>5, EndsKeeps, FailuresAreResults DEF Failures
  <2> QED
    BY <1>2, <1>8, <2>2, <2>3, <2>4, <2>5 DEF BrewIsPackageInstalled, Ends
<1> QED
  BY <1>4, <1>5, <1>6, <1>7, <1>8

LEMMA ChocoKeeps ==
  ASSUME TypeOK, NEW p \in Operations, OpInv(p),
         \/ ChocoInstallPackage(p) \/ ChocoUninstallPackage(p) \/ ChocoUpdatePackage(p)
         \/ ChocoListInstalled(p) \/ ChocoIsPackageInstalled(p)
  PROVE  Advances(p) /\ OpInv(p)'
<1>1. uses[p].name = "chocolatey" /\ uses[p].name \in Names
  BY DEF ChocoInstallPackage, ChocoUninstallPackage, ChocoUpdatePackage, ChocoListInstalled,
     ChocoIsPackageInstalled, On, Names
<1>2. CASE Starts(p)
  BY <1>1, <1>2, StartsKeeps
<1>3. ASSUME ChocoExecute(p, TRUE)
      PROVE  /\ "manager" \in saw[p] /\ child[p] \in saw[p] /\ child[p] \in {"in", "out"}
             /\ kind[p] \in {"install", "update"} => "in" \in saw[p]
             /\ kind[p] = "uninstall" => "out" \in saw[p]
  BY <1>1, <1>3 DEF ChocoExecute, OpInv, Worked
<1>4. CASE ChocoInstallPackage(p)
  BY <1>2, <1>3, <1>4, EndsKeeps, FailuresAreResults DEF ChocoInstallPackage, On, Failures
<1>5. CASE ChocoUninstallPackage(p)
  BY <1>2, <1>3, <1>5, EndsKeeps, FailuresAreResults DEF ChocoUninstallPackage, On, Failures
<1>6. CASE ChocoUpdatePackage(p)
  BY <1>2, <1>3, <1>6, EndsKeeps, FailuresAreResults DEF ChocoUpdatePackage, On, Failures
<1>7. CASE ChocoListInstalled(p)
  BY <1>2, <1>3, <1>7, EndsKeeps, FailuresAreResults DEF ChocoListInstalled, On, Failures
<1>8. CASE ChocoIsPackageInstalled(p)
  BY <1>2, <1>3, <1>8, EndsKeeps, FailuresAreResults DEF ChocoIsPackageInstalled, On, Failures
<1> QED
  BY <1>4, <1>5, <1>6, <1>7, <1>8

LEMMA InfoKeeps ==
  ASSUME TypeOK, NEW p \in Operations, OpInv(p), at[p] # "idle", GetPackageInfo(p)
  PROVE  Advances(p) /\ OpInv(p)'
<1>1. PICK r \in {"yes", "INFO_FAILED"} : at[p] = "info" /\ Ends(p, r)
  BY DEF GetPackageInfo
<1>2. "in" \in saw[p]
  BY <1>1 DEF OpInv, Worked
<1> QED
  BY <1>1, <1>2, EndsKeeps, FailuresAreResults DEF Failures

-----------------------------------------------------------------------------
(* The steps of an operation *)

\* The first step, which takes what was asked for.
Begins(p) ==
  /\ Moves(p) /\ Holds(p) /\ BrewGrows
  /\ UNCHANGED <<hostVars, managers, readers, writer, kind, next, child>>
  /\ wants' \in [Operations -> Wanted]
  /\ pkg' \in [Operations -> Packages] /\ \A q \in Operations \ {p} : pkg'[q] = pkg[q]
  /\ saw' \in [Operations -> SUBSET {"in", "out", "manager"}]
  /\ \A q \in Operations \ {p} : saw'[q] = saw[q]
  /\ saw'[p] = Sights(pkg'[p], installed, present)
  /\ at'[p] \in {"pick", "packageCheck"} /\ result'[p] = result[p]

LEMMA SightTypes == \A x, there, hosts : Sights(x, there, hosts) \in SUBSET {"in", "out", "manager"}
BY DEF Sights, View

LEMMA BeginKeeps ==
  ASSUME TypeOK, NEW p \in Operations, at[p] = "idle",
         \/ \E k \in Kinds : Begin(p, k, "pick")
         \/ GetDefaultOrInstall(p)
         \/ GetPackageInfo(p)
  PROVE  Begins(p)
<1> DEFINE AsksFor(x) == /\ pkg' = [pkg EXCEPT ![p] = x]
                         /\ saw' = [saw EXCEPT ![p] = Sights(x, installed, present)]
<1>1. /\ pkg \in [Operations -> Packages] /\ wants \in [Operations -> Wanted] /\ pkg[p] \in Packages
      /\ saw \in [Operations -> SUBSET {"in", "out", "manager"}]
      /\ at \in [Operations -> Stages] /\ "pick" \in Later /\ "packageCheck" \in Later
  BY DEF TypeOK, OperationTypeOK, Later, Stages
<1>2. ASSUME NEW x \in Packages, AsksFor(x)
      PROVE  /\ pkg' \in [Operations -> Packages] /\ \A q \in Operations \ {p} : pkg'[q] = pkg[q]
             /\ saw' \in [Operations -> SUBSET {"in", "out", "manager"}]
             /\ \A q \in Operations \ {p} : saw'[q] = saw[q]
             /\ saw'[p] = Sights(pkg'[p], installed, present)
  BY <1>1, <1>2, SightTypes
<1>3. ASSUME NEW s \in {"pick", "packageCheck"}, Goto(p, s)
      PROVE  Moves(p) /\ at'[p] \in {"pick", "packageCheck"} /\ result'[p] = result[p]
  BY <1>1, <1>3, Movement DEF Goto
<1>4. CASE \E k \in Kinds : Begin(p, k, "pick")
  <2>1. PICK w \in Wanted, x \in Packages : wants' = [wants EXCEPT ![p] = w] /\ AsksFor(x)
    BY <1>4 DEF Begin
  <2>2. Goto(p, "pick") /\ UNCHANGED <<hostVars, managers, brew, readers, writer, kind, uses, next, child>>
    BY <1>4 DEF Begin, registryVars
  <2>3. BrewGrows /\ Holds(p)
    BY <2>2, SameBrew, Standstill
  <2>4. wants' \in [Operations -> Wanted]
    BY <1>1, <2>1
  <2> QED
    BY <1>2, <1>3, <2>1, <2>2, <2>3, <2>4 DEF Begins
<1>5. CASE GetDefaultOrInstall(p)
  <2>1. /\ Goto(p, "pick") /\ UNCHANGED <<hostVars, managers, readers, writer, kind, wants, pkg, next, child>>
        /\ saw' = [saw EXCEPT ![p] = Sights(pkg[p], installed, present)]
        /\ \/ Takes(p, [name |-> "chocolatey", obj |-> 1]) /\ UNCHANGED brew
           \/ /\ Len(brew) < MaxObjects /\ NewHomebrew
              /\ Takes(p, [name |-> "homebrew", obj |-> Len(brew) + 1])
    BY <1>5 DEF GetDefaultOrInstall, Probe, askedVars
  <2>2. /\ saw' \in [Operations -> SUBSET {"in", "out", "manager"}]
        /\ \A q \in Operations \ {p} : saw'[q] = saw[q]
        /\ saw'[p] = Sights(pkg'[p], installed, present)
    BY <1>1, <2>1, SightTypes
  <2>3. BrewGrows /\ Holds(p)
    <3>1. CASE Takes(p, [name |-> "chocolatey", obj |-> 1]) /\ UNCHANGED brew
      <4>1. [name |-> "chocolatey", obj |-> 1] \in [name : Names, obj : 1..MaxObjects]
        BY DEF Names
      <4> QED
        BY <3>1, <4>1, SameBrew, Taking
    <3>2. CASE /\ Len(brew) < MaxObjects /\ NewHomebrew
               /\ Takes(p, [name |-> "homebrew", obj |-> Len(brew) + 1])
      <4>1. /\ brew \in Seq(BOOLEAN) /\ Len(brew) \in Nat /\ brew' = Append(brew, "homebrew" \in present)
        BY <3>2, LenProperties DEF TypeOK, RegistryTypeOK, NewHomebrew
      <4>2. brew' \in Seq(BOOLEAN) /\ Len(brew') = Len(brew) + 1
        BY <4>1, AppendProperties
      <4>3. [name |-> "homebrew", obj |-> Len(brew) + 1] \in [name : Names, obj : 1..MaxObjects]
            /\ Len(brew) + 1 \in 1..Len(brew')
        BY <3>2, <4>1, <4>2 DEF Names
      <4> QED
        BY <3>2, <4>1, <4>2, <4>3, Taking DEF BrewGrows
    <3> QED
      BY <2>1, <3>1, <3>2
  <2> QED
    BY <1>1, <1>3, <2>1, <2>2, <2>3 DEF Begins
<1>6. CASE GetPackageInfo(p)
  <2>1. PICK x \in Packages : AsksFor(x)
    BY <1>6 DEF GetPackageInfo
  <2>2. /\ Goto(p, "packageCheck") /\ managers["homebrew"] # 0
        /\ UNCHANGED <<hostVars, managers, brew, readers, writer, kind, wants, next, child>>
        /\ Takes(p, [name |-> "homebrew", obj |-> managers["homebrew"]])
    BY <1>6 DEF GetPackageInfo, registryVars
  <2>3. [name |-> "homebrew", obj |-> managers["homebrew"]] \in [name : Names, obj : 1..MaxObjects]
        /\ managers["homebrew"] \in 1..Len(brew')
    BY <2>2, LenProperties DEF TypeOK, RegistryTypeOK, Names
  <2>4. BrewGrows /\ Holds(p)
    BY <2>2, <2>3, SameBrew, Taking
  <2> QED
    BY <1>1, <1>2, <1>3, <2>1, <2>2, <2>4 DEF Begins
<1> QED
  BY <1>4, <1>5, <1>6

LEMMA RejectKeeps ==
  ASSUME TypeOK, NEW p \in Operations, OpInv(p), NEW k \in Kinds, Reject(p, k)
  PROVE  Advances(p) /\ OpInv(p)'
<1>1. /\ at[p] = "idle" /\ Return(p, "INVALID") /\ "INVALID" \in Results
      /\ UNCHANGED <<hostVars, registryVars, askedVars, uses, next, child, saw>>
  BY DEF Reject, Keeps, Results, Refusals
<1>2. Advances(p)
  BY <1>1, SameBrew, Movement, Standstill, Quiet DEF registryVars
<1>3. child'[p] = "none"
  BY <1>1 DEF OpInv, Standing
<1> QED
  BY <1>1, <1>2, <1>3, Returns

LEMMA BeginsTypes ==
  ASSUME TypeOK, NEW p \in Operations, OpInv(p), at[p] = "idle", Begins(p), UNCHANGED changes
  PROVE  TypeOK' /\ OpInv(p)'
<1>1. OperationTypeOK' /\ HostTypeOK'
  BY DEF Begins, Moves, Holds, TypeOK, OperationTypeOK, HostTypeOK, hostVars
<1>2. managers["homebrew"] \in Nat /\ Len(brew) \in Nat /\ Len(brew') \in Nat
      /\ managers["homebrew"] <= Len(brew) /\ Len(brew) <= Len(brew')
  BY LenProperties DEF Begins, BrewGrows, TypeOK, RegistryTypeOK, Names
<1>3. managers["homebrew"] <= Len(brew')
  BY <1>2
<1>4. RegistryTypeOK'
  BY <1>3 DEF Begins, BrewGrows, TypeOK, RegistryTypeOK
<1>5. \A q \in Operations : uses'[q].name = "homebrew" => uses'[q].obj \in 1..Len(brew')
  <2>1. TAKE q \in Operations
  <2>2. CASE q = p
    BY <2>2 DEF Begins, Holds
  <2>3. CASE q # p
    <3>1. uses'[q] = uses[q] /\ (uses[q].name = "homebrew" => uses[q].obj \in 1..Len(brew))
      BY <2>3 DEF Begins, Holds, TypeOK
    <3> QED
      BY <1>2, <3>1
  <2> QED
    BY <2>2, <2>3
<1>6. UNCHANGED <<installed, present>> /\ child'[p] = "none" /\ result'[p] = "none"
  BY DEF Begins, hostVars, OpInv, Standing
<1>7. OpInv(p)'
  BY <1>6 DEF Begins, OpInv, Standing, Watching, Worked, Answered, Sights, View, Refusals
<1> QED
  BY <1>1, <1>4, <1>5, <1>7 DEF TypeOK

\* Another operation under the same host.
Aside(q) ==
  /\ UNCHANGED hostVars
  /\ at'[q] = at[q] /\ kind'[q] = kind[q] /\ pkg'[q] = pkg[q] /\ uses'[q] = uses[q]
  /\ child'[q] = child[q] /\ saw'[q] = saw[q] /\ result'[q] = result[q]

LEMMA AsideKeeps == ASSUME NEW q \in Operations, OpInv(q), Aside(q) PROVE OpInv(q)'
<1>1. UNCHANGED <<goos, installed, present>>
  BY DEF Aside, hostVars
<1> QED
  BY <1>1 DEF Aside, OpInv, Standing, Watching, Worked, Answered, Active, getPreferredManagers

LEMMA StepCases ==
  ASSUME TypeOK, NEW p \in Operations, OpInv(p), Step(p)
  PROVE  \/ Advances(p) /\ OpInv(p)'
         \/ at[p] = "idle" /\ Begins(p)
<1>1. CASE AutoDetect(p)
  BY <1>1, AutoDetectKeeps
<1>2. ASSUME NEW k \in Kinds, Reject(p, k) \/ Selects(p, k) PROVE Advances(p) /\ OpInv(p)'
  BY <1>2, RejectKeeps, SelectsKeeps
<1>3. ASSUME NEW k \in Kinds, Begin(p, k, "pick") PROVE at[p] = "idle" /\ Begins(p)
  BY <1>3, BeginKeeps DEF Begin
<1>4. CASE InstallerSteps(p)
  <2>1. {"install", "uninstall", "update", "list", "query", "ensure"} \subseteq Kinds
    BY DEF Kinds, Installing
  <2>2. CASE InstallCommand(p)
    BY <1>2, <1>3, <2>1, <2>2 DEF InstallCommand, InstallPackage
  <2>3. CASE UninstallCommand(p)
    BY <1>2, <1>3, <2>1, <2>3 DEF UninstallCommand, UninstallPackage
  <2>4. CASE UpdateCommand(p)
    BY <1>2, <1>3, <2>1, <2>4 DEF UpdateCommand, UpdatePackage
  <2>5. CASE ListInstalledPackages(p)
    BY <1>2, <1>3, <2>1, <2>5 DEF ListInstalledPackages
  <2>6. CASE IsPackageInstalled(p)
    BY <1>2, <1>3, <2>1, <2>6 DEF IsPackageInstalled
  <2>7. CASE EnsurePackageManager(p)
    <3>1. at[p] = "idle" => Begin(p, "ensure", "pick")
      BY <2>7 DEF EnsurePackageManager, Probe
    <3> QED
      BY <1>3, <2>1, <2>7, <3>1, EnsureKeeps
  <2>8. CASE ensureAutoDetected(p)
    BY <2>8, AutoKeeps
  <2>9. CASE GetDefaultOrInstall(p)
    BY <2>9, DefaultKeeps, BeginKeeps
  <2> QED
    BY <1>4, <2>2, <2>3, <2>4, <2>5, <2>6, <2>7, <2>8, <2>9 DEF InstallerSteps
<1>5. CASE BrewSteps(p)
  <2>1. CASE GetPackageInfo(p)
    BY <2>1, InfoKeeps, BeginKeeps
  <2> QED
    BY <1>5, <2>1, InstallKeeps, BrewKeeps DEF BrewSteps
<1>6. CASE ChocoSteps(p)
  BY <1>6, InstallKeeps, ChocoKeeps DEF ChocoSteps
<1> QED
  BY <1>1, <1>4, <1>5, <1>6 DEF Step

LEMMA StepKeeps ==
  ASSUME TypeOK, Inv, NEW p \in Operations, Step(p), UNCHANGED changes
  PROVE  TypeOK' /\ Inv' /\ UNCHANGED hostVars
<1>1. OpInv(p)
  BY DEF Inv
<1>2. /\ TypeOK' /\ OpInv(p)' /\ UNCHANGED hostVars
      /\ \A q \in Operations \ {p} : Aside(q)
  <2>1. CASE Advances(p) /\ OpInv(p)'
    BY <2>1, AdvanceTypes DEF Advances, Moves, Holds, Spawns, Aside
  <2>2. CASE at[p] = "idle" /\ Begins(p)
    BY <1>1, <2>2, BeginsTypes DEF Begins, Moves, Holds, Aside
  <2> QED
    BY <1>1, <2>1, <2>2, StepCases
<1>3. ASSUME NEW q \in Operations PROVE OpInv(q)'
  <2>1. CASE q = p
    BY <1>2, <2>1
  <2>2. CASE q # p
    BY <1>2, <2>2, AsideKeeps DEF Inv
  <2> QED
    BY <2>1, <2>2
<1> QED
  BY <1>2, <1>3 DEF Inv

-----------------------------------------------------------------------------
(* The host and the registry *)

LEMMA HostTypes ==
  ASSUME TypeOK, NEW there \in SUBSET Packages, NEW hosts \in SUBSET Names, HostHas(there, hosts)
  PROVE  /\ saw' \in [Operations -> SUBSET {"in", "out", "manager"}]
         /\ installed' \subseteq Packages /\ present' \subseteq Names
         /\ installed' = there /\ present' = hosts
         /\ \A q \in Operations : saw[q] \subseteq saw'[q]
         /\ \A q \in Operations : Active(q) => Sights(pkg[q], there, hosts) \subseteq saw'[q]
<1>1. saw \in [Operations -> SUBSET {"in", "out", "manager"}]
  BY DEF TypeOK, OperationTypeOK
<1>2. saw' = [q \in Operations |->
         IF Active(q) THEN saw[q] \cup Sights(pkg[q], there, hosts) ELSE saw[q]]
  BY DEF HostHas
<1> QED
  BY <1>1, <1>2, SightTypes DEF HostHas

\* Whatever happens to the host, an operation that does nothing itself keeps its invariant.
LEMMA HostKeeps ==
  ASSUME TypeOK, NEW there \in SUBSET Packages, NEW hosts \in SUBSET Names, HostHas(there, hosts),
         NEW q \in Operations, OpInv(q), UNCHANGED <<goos, at, kind, pkg, uses, result>>,
         child'[q] = child[q]
  PROVE  OpInv(q)'
<1>1. saw[q] \subseteq saw'[q]
      /\ (Active(q) => Sights(pkg[q], installed', present') \subseteq saw'[q])
  BY HostTypes
<1>2. Standing(q)' /\ Worked(q)' /\ Answered(q)'
  BY <1>1 DEF OpInv, Standing, Worked, Answered, Refusals, getPreferredManagers
<1>3. Watching(q)'
  BY <1>1 DEF Watching, Active, Sights, View
<1> QED
  BY <1>2, <1>3 DEF OpInv

LEMMA ChildKeeps ==
  ASSUME TypeOK, Inv, NEW p \in Operations, ChildActs(p), UNCHANGED changes
  PROVE  TypeOK' /\ Inv'
<1>1. /\ child[p] = "running" /\ at[p] \in {"run", "script"} /\ Active(p) /\ OpInv(p)
      /\ UNCHANGED <<goos, onPath, managers, brew, readers, writer, at, kind, wants, pkg, uses, next, result>>
  BY DEF ChildActs, registryVars, askedVars, Active, Inv
<1>2. /\ pkg[p] \in Packages /\ installed \subseteq Packages /\ present \subseteq Names
      /\ child \in [Operations -> {"none", "running", "in", "out"}]
  BY DEF TypeOK, OperationTypeOK, HostTypeOK
<1>3. uses[p].name \in Names /\ View(pkg[p], installed) \in saw[p]
  BY <1>1, Preferred DEF OpInv, Standing, Watching
<1>4. PICK there \in SUBSET Packages, hosts \in SUBSET Names :
        /\ HostHas(there, hosts)
        /\ \/ /\ at[p] = "run" /\ uses[p].name \in present /\ there = After(p) /\ hosts = present
              /\ child' = [child EXCEPT ![p] = View(pkg[p], installed)]
           \/ at[p] = "script" /\ child' = [child EXCEPT ![p] = "in"]
  <2>1. After(p) \in SUBSET Packages
    BY <1>2 DEF After
  <2>2. present \cup {uses[p].name} \in SUBSET Names
    BY <1>2, <1>3
  <2> QED
    BY <1>2, <2>1, <2>2 DEF ChildActs
<1>5. saw[p] \subseteq saw'[p] /\ Sights(pkg[p], there, hosts) \subseteq saw'[p]
      /\ installed' = there /\ present' = hosts
  BY <1>1, <1>4, HostTypes
<1>6. child' \in [Operations -> {"none", "running", "in", "out"}] /\ child'[p] \in {"in", "out"}
      /\ \A q \in Operations \ {p} : child'[q] = child[q]
  BY <1>2, <1>4 DEF View
<1>7. TypeOK'
  <2>1. HostTypeOK' /\ OperationTypeOK' /\ RegistryTypeOK'
    BY <1>1, <1>4, <1>6, HostTypes DEF TypeOK, HostTypeOK, OperationTypeOK, RegistryTypeOK
  <2> QED
    BY <1>1, <2>1 DEF TypeOK
<1>8. OpInv(p)'
  <2>1. Standing(p)' /\ Answered(p)'
    BY <1>1 DEF OpInv, Standing, Answered, Refusals, getPreferredManagers
  <2>2. Watching(p)'
    BY <1>1, <1>5 DEF Watching, Sights
  <2>3. CASE at[p] = "script"
    BY <1>1, <2>1, <2>2, <2>3 DEF OpInv, Worked
  <2>4. CASE at[p] = "run"
    <3>1. child'[p] = View(pkg[p], installed) /\ there = After(p)
      BY <1>2, <1>4, <2>4
    <3>2. child'[p] \in saw'[p] /\ "manager" \in saw'[p]
      BY <1>1, <1>3, <1>4, <1>5, <2>4, <3>1 DEF OpInv, Watching
    <3>3. View(pkg[p], After(p)) \in saw'[p]
      BY <1>5, <3>1 DEF Sights
    <3>4. /\ kind[p] = "install" => "in" \in saw'[p]
          /\ kind[p] = "uninstall" => "out" \in saw'[p]
          /\ kind[p] = "update" /\ uses[p].name = "chocolatey" => "in" \in saw'[p]
      BY <3>3 DEF After, View
    <3> QED
      BY <1>1, <2>1, <2>2, <2>4, <3>2, <3>4 DEF OpInv, Worked
  <2> QED
    BY <1>1, <2>3, <2>4
<1>9. ASSUME NEW q \in Operations, q # p PROVE OpInv(q)'
  BY <1>1, <1>4, <1>6, <1>9, HostKeeps DEF Inv
<1> QED
  BY <1>7, <1>8, <1>9 DEF Inv

LEMMA UserKeeps == ASSUME TypeOK, Inv, UserActs PROVE TypeOK' /\ Inv' /\ present' \subseteq present
<1>1. UNCHANGED <<goos, onPath, managers, brew, readers, writer, at, kind, wants, pkg, uses, next, child, result>>
  BY DEF UserActs, registryVars, askedVars
<1>2. changes' \in 0..MaxChanges
  BY DEF UserActs, Changes, TypeOK, HostTypeOK
<1>3. PICK there \in SUBSET Packages, hosts \in SUBSET Names :
        HostHas(there, hosts) /\ hosts \subseteq present
  <2>1. installed \subseteq Packages /\ present \subseteq Names
    BY DEF TypeOK, HostTypeOK
  <2>2. CASE \E m \in present : HostHas(installed, present \ {m})
    BY <2>1, <2>2
  <2>3. CASE \E x \in installed : HostHas(installed \ {x}, present)
    BY <2>1, <2>3
  <2>4. CASE \E x \in Packages \ installed : HostHas(installed \cup {x}, present)
    BY <2>1, <2>4
  <2> QED
    BY <2>2, <2>3, <2>4 DEF UserActs
<1>4. HostTypeOK' /\ OperationTypeOK' /\ RegistryTypeOK'
  BY <1>1, <1>2, <1>3, HostTypes DEF TypeOK, HostTypeOK, OperationTypeOK, RegistryTypeOK
<1>5. TypeOK'
  BY <1>1, <1>4 DEF TypeOK
<1>6. ASSUME NEW q \in Operations PROVE OpInv(q)'
  BY <1>1, <1>3, HostKeeps DEF Inv
<1> QED
  BY <1>3, <1>5, <1>6, HostTypes DEF Inv

LEMMA WritersKeep == ASSUME TypeOK, Inv, Writers PROVE TypeOK' /\ Inv' /\ UNCHANGED present
<1>1. UNCHANGED <<goos, onPath, present, installed, at, kind, wants, pkg, uses, next, child, saw, result>>
  BY DEF Writers, Register, Unregister, Clear, Lock, Unlock, hostVars, opVars, askedVars
<1>2. /\ changes' \in 0..MaxChanges /\ writer' \in {"none", "register", "unregister", "clear"}
      /\ readers' = readers
  BY DEF Writers, Register, Unregister, Clear, Lock, Unlock, Changes, TypeOK, HostTypeOK, RegistryTypeOK
<1>3. /\ brew \in Seq(BOOLEAN) /\ Len(brew) \in Nat /\ Len(brew) <= MaxObjects
      /\ managers \in [Names -> 0..MaxObjects] /\ managers["homebrew"] \in Nat
      /\ managers["homebrew"] <= Len(brew)
  BY LenProperties DEF TypeOK, RegistryTypeOK, Names
<1>4. /\ BrewGrows /\ managers' \in [Names -> 0..MaxObjects] /\ managers'["homebrew"] <= Len(brew')
  <2>1. CASE brew' = brew /\ managers' = managers
    BY <1>3, <2>1 DEF BrewGrows
  <2>2. CASE Len(brew) < MaxObjects /\ NewHomebrew /\ managers' = [managers EXCEPT !["homebrew"] = Len(brew) + 1]
    <3>1. brew' \in Seq(BOOLEAN) /\ Len(brew') = Len(brew) + 1
      BY <1>3, <2>2, AppendProperties DEF NewHomebrew
    <3> QED
      BY <1>3, <2>2, <3>1 DEF BrewGrows, Names
  <2>3. CASE managers' = [managers EXCEPT !["chocolatey"] = 1] /\ UNCHANGED brew
    BY <1>3, <2>3 DEF BrewGrows, Names
  <2>4. ASSUME NEW n \in Names, managers' = [managers EXCEPT ![n] = 0], UNCHANGED brew PROVE <1>4
    BY <1>3, <2>4 DEF BrewGrows, Names
  <2>5. CASE managers' = [n \in Names |-> 0] /\ UNCHANGED brew
    BY <1>3, <2>5 DEF BrewGrows, Names
  <2> QED
    BY <2>1, <2>2, <2>3, <2>4, <2>5 DEF Writers, Register, Unregister, Clear, Lock
<1>5. HostTypeOK' /\ OperationTypeOK' /\ RegistryTypeOK'
  BY <1>1, <1>2, <1>4 DEF TypeOK, HostTypeOK, OperationTypeOK, RegistryTypeOK, BrewGrows
<1>6. ASSUME NEW q \in Operations, uses'[q].name = "homebrew" PROVE uses'[q].obj \in 1..Len(brew')
  <2>1. uses'[q] = uses[q] /\ uses[q].obj \in 1..Len(brew) /\ Len(brew') \in Nat /\ Len(brew) <= Len(brew')
    BY <1>1, <1>4, <1>6, LenProperties DEF TypeOK, BrewGrows
  <2> QED
    BY <1>3, <2>1
<1>7. ASSUME NEW q \in Operations PROVE OpInv(q)'
  BY <1>1, AsideKeeps DEF Inv, Aside, hostVars
<1> QED
  BY <1>1, <1>5, <1>6, <1>7 DEF TypeOK, Inv

-----------------------------------------------------------------------------
(* The theorems *)

LEMMA Begun == Init => TypeOK /\ Inv
<1>1. SUFFICES ASSUME Init PROVE TypeOK /\ Inv
  OBVIOUS
<1>2. (CHOOSE x \in Packages : TRUE) \in Packages
  BY DEF PackageAssumption
<1>3. HostTypeOK
  BY <1>1, Preferred DEF Init, HostTypeOK
<1>4. RegistryTypeOK
  <2>1. brew \in Seq(BOOLEAN) /\ Len(brew) = (IF goos = "windows" THEN 0 ELSE 1)
    <3>1. CASE goos = "windows"
      <4>1. brew = << >>
        BY <1>1, <3>1 DEF Init
      <4> QED
        BY <3>1, <4>1, EmptySeq
    <3>2. CASE goos # "windows"
      <4>1. brew = <<"homebrew" \in present>>
        BY <1>1, <3>2 DEF Init
      <4>2. ASSUME NEW b \in BOOLEAN PROVE <<b>> \in Seq(BOOLEAN) /\ Len(<<b>>) = 1
        OBVIOUS
      <4>3. ("homebrew" \in present) \in BOOLEAN
        OBVIOUS
      <4> QED
        BY <3>2, <4>1, <4>2, <4>3
    <3> QED
      BY <3>1, <3>2
  <2>2. managers \in [Names -> 0..MaxObjects] /\ managers["homebrew"] <= Len(brew)
    BY <1>1, <2>1, Preferred DEF Init, DefaultManagers, Names
  <2> QED
    BY <1>1, <2>1, <2>2 DEF Init, RegistryTypeOK
<1>5. OperationTypeOK
  BY <1>1, <1>2 DEF Init, OperationTypeOK, Stages, Wanted, Names, Results, Refusals
<1>6. TypeOK
  BY <1>1, <1>3, <1>4, <1>5 DEF Init, TypeOK
<1>7. Inv
  BY <1>1 DEF Init, Inv, OpInv, Standing, Watching, Worked, Answered, Active, Refusals
<1> QED
  BY <1>6, <1>7

LEMMA NextKeeps == ASSUME TypeOK, Inv, [Next]_vars PROVE TypeOK' /\ Inv'
<1>1. CASE UserActs
  BY <1>1, UserKeeps
<1>2. CASE Writers
  BY <1>2, WritersKeep
<1>3. CASE OperationNext
  <2>1. PICK p \in Operations : (Step(p) \/ ChildActs(p)) /\ UNCHANGED changes
    BY <1>3 DEF OperationNext
  <2> QED
    BY <2>1, StepKeeps, ChildKeeps
<1>4. CASE UNCHANGED vars
  <2>1. TypeOK'
    BY <1>4 DEF TypeOK, HostTypeOK, RegistryTypeOK, OperationTypeOK, vars, hostVars, registryVars,
       opVars, askedVars
  <2>2. ASSUME NEW q \in Operations PROVE OpInv(q)'
    BY <1>4, AsideKeeps DEF Inv, Aside, vars, hostVars, opVars, askedVars
  <2> QED
    BY <2>1, <2>2 DEF Inv
<1> QED
  BY <1>1, <1>2, <1>3, <1>4 DEF Next

\* The invariant of every operation holds throughout, with the types: every step of
\* installer.go, registry.go, homebrew.go and chocolatey.go keeps both.
THEOREM Invariance == Spec => [](TypeOK /\ Inv)
<1>1. Init => TypeOK /\ Inv
  BY Begun
<1>2. TypeOK /\ Inv /\ [Next]_vars => (TypeOK /\ Inv)'
  BY NextKeeps
<1> QED
  BY <1>1, <1>2, PTL DEF Spec

\* The types of all variables, and that an operation only ever holds a Homebrew
\* object that has been constructed, although the registry it got the object from is
\* changed while it works (internal/packagemgr/registry.go).
THEOREM TypeCorrect == Spec => []TypeOK
BY Invariance, PTL

\* Whatever a package operation reports was true of the host at some moment of it
\* (the InstallPackage, UninstallPackage, UpdatePackage and IsPackageInstalled of
\* homebrew.go and chocolatey.go).
THEOREM ReportsWereTrue == Spec => []AnswersAreTrue
<1>1. TypeOK /\ Inv => AnswersAreTrue
  BY DEF Inv, OpInv, Answered, AnswersAreTrue
<1> QED
  BY <1>1, Invariance, PTL

\* A refused operation has left nothing running (installer.go, IsInstalled before
\* every child process).
THEOREM RefusalIsClean == Spec => []RefusedIsUntouched
<1>1. TypeOK /\ Inv => RefusedIsUntouched
  BY DEF Inv, OpInv, Standing, RefusedIsUntouched
<1> QED
  BY <1>1, Invariance, PTL

\* Nothing is run with the manager of another platform, whatever is registered and
\* asked for (the runtime.GOOS checks of homebrew.go and chocolatey.go).
THEOREM PlatformIsRespected == Spec => []RightPlatform
<1>1. TypeOK /\ Inv => RightPlatform
  BY DEF Inv, OpInv, Standing, RightPlatform
<1> QED
  BY <1>1, Invariance, PTL

\* Only an installation brings a manager onto the host (installer.go, GetOrAuto
\* against EnsurePackageManager).
THEOREM BootstrapIsAskedFor == Spec => OnlyInstallationsBootstrap
<1> DEFINE Bootstrap ==
      \A m \in present' \ present : \E p \in Operations :
        at[p] = "script" /\ uses[p].name = m /\ kind[p] \in Installing
<1>1. ASSUME TypeOK, Inv, [Next]_vars PROVE Bootstrap
  <2>1. CASE UserActs \/ Writers \/ UNCHANGED vars
    BY <1>1, <2>1, UserKeeps, WritersKeep DEF vars, hostVars
  <2>2. CASE OperationNext
    <3>1. PICK p \in Operations : (Step(p) \/ ChildActs(p)) /\ UNCHANGED changes
      BY <2>2 DEF OperationNext
    <3>2. CASE Step(p)
      BY <1>1, <3>1, <3>2, StepKeeps DEF hostVars
    <3>3. CASE ChildActs(p)
      BY <1>1, <3>3 DEF ChildActs, HostHas, Inv, OpInv, Standing
    <3> QED
      BY <3>1, <3>2, <3>3
  <2> QED
    BY <1>1, <2>1, <2>2 DEF Next
<1>2. TypeOK /\ Inv /\ [Next]_vars => [Bootstrap]_vars
  BY <1>1
<1> QED
  BY <1>2, Invariance, PTL DEF Spec, OnlyInstallationsBootstrap

-----------------------------------------------------------------------------
(* The end of an operation, and its lock *)

\* How far an operation is from its return at the latest. The bootstrap of a listed
\* manager comes before the end of the list, which is reached with the next index.
Left(p) ==
  CASE at[p] = "idle" -> 17
    [] at[p] = "pick" -> 16
    [] at[p] = "detect" -> IF next[p] = 1 THEN 15 ELSE 14
    [] at[p] = "check" -> 13
    [] at[p] = "bootstrap" -> IF kind[p] = "default" \/ next[p] = 1 THEN 12 ELSE 7
    [] at[p] = "managerCheck" -> 11
    [] at[p] = "script" -> 10
    [] at[p] = "managerVerify" -> 9
    [] at[p] = "verify" -> 8
    [] at[p] = "packageCheck" -> 6
    [] at[p] = "run" -> 5
    [] at[p] = "info" -> 4
    [] OTHER -> 0

\* The operation whose detection holds the lock of the agent's registry.
Detects(p) == at[p] = "detect" /\ kind[p] # "default"

\* The lock is held for reading by the detections, and by nothing else.
LockInv == \A p \in Operations : p \in readers <=> Detects(p)

Apart(p) ==
  /\ UNCHANGED kind
  /\ \A q \in Operations \ {p} : at'[q] = at[q] /\ next'[q] = next[q]

\* A step of an operation that is not a detection.
Nears(p) ==
  /\ Apart(p) /\ Left(p)' < Left(p)
  /\ at[p] # "detect" /\ at'[p] # "detect" /\ UNCHANGED readers

LEMMA Arriving ==
  ASSUME TypeOK, NEW p \in Operations
  PROVE  /\ \A s : Goto(p, s) => at'[p] = s /\ \A q \in Operations \ {p} : at'[q] = at[q]
         /\ \A r : Return(p, r) => at'[p] = "done" /\ \A q \in Operations \ {p} : at'[q] = at[q]
BY DEF TypeOK, OperationTypeOK, Goto, Return

LEMMA Listing ==
  ASSUME TypeOK, NEW p \in Operations
  PROVE  /\ next[p] \in Nat \ {0}
         /\ UNCHANGED next => next'[p] = next[p] /\ \A q \in Operations \ {p} : next'[q] = next[q]
         /\ next' = [next EXCEPT ![p] = @ + 1] =>
              next'[p] = next[p] + 1 /\ \A q \in Operations \ {p} : next'[q] = next[q]
         /\ next' = [next EXCEPT ![p] = 1] =>
              next'[p] = 1 /\ \A q \in Operations \ {p} : next'[q] = next[q]
BY DEF TypeOK, OperationTypeOK

\* The steps that keep the place in the list: the stages come in one order.
Order(s) ==
  CASE s = "idle" -> 17 [] s = "pick" -> 16 [] s = "check" -> 13 [] s = "managerCheck" -> 11
    [] s = "script" -> 10 [] s = "managerVerify" -> 9 [] s = "verify" -> 8
    [] s = "packageCheck" -> 6 [] s = "run" -> 5 [] s = "info" -> 4 [] OTHER -> 0

LEMMA Onward ==
  ASSUME TypeOK, NEW p \in Operations, UNCHANGED <<kind, next, readers>>,
         at[p] \in Stages \ {"detect", "bootstrap"},
         \/ \E s \in Stages \ {"detect", "bootstrap"} : Goto(p, s) /\ Order(s) < Order(at[p])
         \/ (\E r : Return(p, r)) /\ at[p] # "done"
  PROVE  Nears(p)
<1>1. Apart(p) /\ at'[p] \in Stages \ {"detect", "bootstrap"} /\ Order(at'[p]) < Order(at[p])
  BY Arriving, Listing DEF Apart, Order, Stages
<1> QED
  BY <1>1 DEF Nears, Left, Order, Stages

\* What the operations share: asking, refusing, selecting a manager, starting a child.
LEMMA CommonNears ==
  ASSUME TypeOK, NEW p \in Operations, NEW k
  PROVE  /\ Begin(p, k, "pick") => Nears(p)
         /\ Reject(p, k) => Nears(p)
         /\ Selects(p, k) => Nears(p)
         /\ Starts(p) => Nears(p)
         /\ \A r : at[p] \in {"run", "info"} /\ Ends(p, r) => Nears(p)
<1>1. ASSUME Begin(p, k, "pick") PROVE Nears(p)
  BY <1>1, Onward DEF Begin, Order, Stages, registryVars
<1>2. ASSUME Reject(p, k) PROVE Nears(p)
  BY <1>2, Onward DEF Reject, Stages, Keeps, askedVars, registryVars
<1>3. ASSUME Selects(p, k) PROVE Nears(p)
  BY <1>3, Onward DEF Selects, Get, NotFound, Probe, Order, Stages, askedVars, registryVars
<1>4. ASSUME Starts(p) PROVE Nears(p)
  <2>1. at[p] = "packageCheck" /\ UNCHANGED <<kind, next, readers>>
        /\ (Return(p, "NOT_INSTALLED") \/ Goto(p, "run"))
    BY <1>4 DEF Starts, askedVars, registryVars
  <2> QED
    BY <2>1, Onward DEF Order, Stages
<1>5. ASSUME NEW r, at[p] \in {"run", "info"}, Ends(p, r) PROVE Nears(p)
  BY <1>5, Onward DEF Ends, Stages, Keeps, askedVars, registryVars
<1> QED
  BY <1>1, <1>2, <1>3, <1>4, <1>5

\* A failed installation of a manager: the end, or the next one of the list.
LEMMA FailureNears ==
  ASSUME TypeOK, NEW p \in Operations, InstallFails(p), UNCHANGED <<kind, readers>>,
         at[p] \in {"managerCheck", "script", "managerVerify", "verify"}
  PROVE  Nears(p)
<1>1. CASE kind[p] # "default" /\ Goto(p, "bootstrap") /\ next' = [next EXCEPT ![p] = @ + 1]
  <2>1. next[p] \in Nat \ {0} /\ next'[p] = next[p] + 1
        /\ \A q \in Operations \ {p} : next'[q] = next[q]
    BY <1>1, Listing
  <2>2. Apart(p) /\ at'[p] = "bootstrap" /\ next'[p] # 1
    BY <1>1, <2>1, Arriving DEF Apart
  <2> QED
    BY <1>1, <2>2 DEF Nears, Left
<1>2. CASE Return(p, "INSTALL_FAILED") /\ UNCHANGED next
  BY <1>2, Onward DEF Stages
<1> QED
  BY <1>1, <1>2 DEF InstallFails

LEMMA EnsureNears ==
  ASSUME TypeOK, NEW p \in Operations, EnsurePackageManager(p) PROVE Nears(p)
<1>1. CASE Begin(p, "ensure", "pick")
  BY <1>1, CommonNears
<1>2. CASE at[p] = "pick" /\ Get(p, wants[p], "check", NotFound(p))
  BY <1>2, Onward DEF Get, NotFound, Order, Stages, askedVars, registryVars
<1>3. CASE Probe(p, "check", Available(p), Goto(p, "managerCheck")) /\ UNCHANGED next
  BY <1>3, Onward DEF Probe, Available, Order, Stages, askedVars, registryVars
<1>4. CASE Probe(p, "verify", Available(p), Return(p, "INSTALL_FAILED")) /\ UNCHANGED next
  BY <1>4, Onward DEF Probe, Available, Order, Stages, askedVars, registryVars
<1> QED
  BY <1>1, <1>2, <1>3, <1>4 DEF EnsurePackageManager

LEMMA AutoNears ==
  ASSUME TypeOK, NEW p \in Operations, ensureAutoDetected(p) PROVE Nears(p)
<1>0. kind[p] # "default"
  BY DEF ensureAutoDetected
<1>1. CASE /\ at[p] = "bootstrap" /\ next[p] <= Len(getPreferredManagers)
           /\ Get(p, getPreferredManagers[next[p]], "managerCheck",
                  next' = [next EXCEPT ![p] = @ + 1] /\ UNCHANGED <<at, result, uses>>)
  <2>1. next[p] = 1 /\ UNCHANGED <<kind, readers>>
    BY <1>1, Preferred, Listing DEF Get, askedVars, registryVars
  <2>2. \/ Goto(p, "managerCheck") /\ UNCHANGED next
        \/ next' = [next EXCEPT ![p] = @ + 1] /\ UNCHANGED at
    BY <1>1 DEF Get
  <2>3. Apart(p) /\ (at'[p] = "managerCheck" \/ (at'[p] = "bootstrap" /\ next'[p] = 2))
    BY <1>1, <2>1, <2>2, Arriving, Listing DEF Apart
  <2> QED
    BY <1>0, <1>1, <2>1, <2>3 DEF Nears, Left
<1>2. CASE /\ at[p] = "bootstrap" /\ Return(p, "NO_MANAGER") /\ Keeps(p)
           /\ UNCHANGED <<hostVars, registryVars>>
  <2>1. Apart(p) /\ at'[p] = "done" /\ UNCHANGED readers
    BY <1>2, Arriving, Listing DEF Apart, Keeps, askedVars, registryVars
  <2> QED
    BY <1>2, <2>1 DEF Nears, Left
<1>3. CASE Probe(p, "verify", Available(p) /\ UNCHANGED next, InstallFails(p))
  <2>1. at[p] = "verify" /\ UNCHANGED <<kind, readers>>
        /\ ((Available(p) /\ UNCHANGED next) \/ InstallFails(p))
    BY <1>3 DEF Probe, askedVars, registryVars
  <2>2. CASE Available(p) /\ UNCHANGED next
    BY <2>1, <2>2, Onward DEF Available, Order, Stages
  <2> QED
    BY <2>1, <2>2, FailureNears
<1> QED
  BY <1>1, <1>2, <1>3 DEF ensureAutoDetected

LEMMA DefaultNears ==
  ASSUME TypeOK, NEW p \in Operations, GetDefaultOrInstall(p) PROVE Nears(p)
<1>1. CASE at[p] = "idle"
  <2>1. Goto(p, "pick") /\ UNCHANGED <<kind, next, readers>>
    BY <1>1 DEF GetDefaultOrInstall, Probe, askedVars
  <2> QED
    BY <1>1, <2>1, Onward DEF Order, Stages
<1>2. CASE /\ kind[p] = "default" /\ at[p] = "bootstrap"
           /\ Get(p, getPreferredManagers[1], "managerCheck", NotFound(p))
  <2>1. Apart(p) /\ at'[p] \in {"managerCheck", "done"} /\ UNCHANGED readers
    BY <1>2, Arriving, Listing DEF Get, NotFound, Apart, askedVars, registryVars
  <2> QED
    BY <1>2, <2>1 DEF Nears, Left
<1>3. CASE Probe(p, "verify", Return(p, "nil"), Return(p, "INSTALL_FAILED")) /\ UNCHANGED next
  BY <1>3, Onward DEF Probe, Stages, askedVars, registryVars
<1> QED
  BY <1>1, <1>2, <1>3 DEF GetDefaultOrInstall

\* The installation of a manager by a script that is awaited.
LEMMA InstallNears ==
  ASSUME TypeOK, NEW p \in Operations, BrewInstall(p) \/ ChocoInstall(p) PROVE Nears(p)
<1>1. ASSUME NEW yes, ChecksFirst(p, yes) PROVE Nears(p)
  <2>1. at[p] = "managerCheck" /\ UNCHANGED <<kind, readers>>
        /\ (InstallFails(p) \/ ((Goto(p, "verify") \/ Goto(p, "script")) /\ UNCHANGED next))
    BY <1>1 DEF ChecksFirst, askedVars, registryVars
  <2>2. CASE (Goto(p, "verify") \/ Goto(p, "script")) /\ UNCHANGED next
    BY <2>1, <2>2, Onward DEF Order, Stages
  <2> QED
    BY <2>1, <2>2, FailureNears
<1>2. ASSUME ScriptExits(p), InstallFails(p) \/ (Goto(p, "managerVerify") /\ UNCHANGED next)
      PROVE  Nears(p)
  <2>1. at[p] = "script" /\ UNCHANGED <<kind, readers>>
    BY <1>2 DEF ScriptExits, askedVars
  <2>2. CASE Goto(p, "managerVerify") /\ UNCHANGED next
    BY <2>1, <2>2, Onward DEF Order, Stages
  <2> QED
    BY <1>2, <2>1, <2>2, FailureNears
<1>3. ASSUME Verifies(p) PROVE Nears(p)
  <2>1. at[p] = "managerVerify" /\ UNCHANGED <<kind, readers>>
        /\ ((Goto(p, "verify") /\ UNCHANGED next) \/ InstallFails(p))
    BY <1>3 DEF Verifies, Probe, askedVars, registryVars
  <2>2. CASE Goto(p, "verify") /\ UNCHANGED next
    BY <2>1, <2>2, Onward DEF Order, Stages
  <2> QED
    BY <2>1, <2>2, FailureNears
<1> QED
  BY <1>1, <1>2, <1>3 DEF BrewInstall, ChocoInstall

LEMMA InfoNears ==
  ASSUME TypeOK, NEW p \in Operations, GetPackageInfo(p) PROVE Nears(p)
<1>1. CASE at[p] = "idle"
  <2>1. Goto(p, "packageCheck") /\ UNCHANGED <<kind, next, readers>>
    BY <1>1 DEF GetPackageInfo, registryVars
  <2> QED
    BY <1>1, <2>1, Onward DEF Order, Stages
<1>2. CASE at[p] = "info"
  BY <1>2, CommonNears DEF GetPackageInfo
<1> QED
  BY <1>1, <1>2 DEF GetPackageInfo

LEMMA PackageNears ==
  ASSUME TypeOK, NEW p \in Operations,
         \/ BrewInstallPackage(p) \/ BrewUninstallPackage(p) \/ BrewUpdatePackage(p)
         \/ BrewListInstalled(p) \/ BrewIsPackageInstalled(p)
         \/ ChocoInstallPackage(p) \/ ChocoUninstallPackage(p) \/ ChocoUpdatePackage(p)
         \/ ChocoListInstalled(p) \/ ChocoIsPackageInstalled(p)
  PROVE  Nears(p)
<1>1. \/ Starts(p)
      \/ at[p] = "run" /\ \E r : Ends(p, r)
      \/ at[p] = "run" /\ Keeps(p) /\ UNCHANGED registryVars /\ (Goto(p, "info") \/ Return(p, "yes"))
  BY DEF BrewInstallPackage, BrewUninstallPackage, BrewUpdatePackage, BrewListInstalled,
     BrewIsPackageInstalled, ChocoInstallPackage, ChocoUninstallPackage, ChocoUpdatePackage,
     ChocoListInstalled, ChocoIsPackageInstalled, BrewExecute, ChocoExecute
<1>2. CASE at[p] = "run" /\ Keeps(p) /\ UNCHANGED registryVars /\ (Goto(p, "info") \/ Return(p, "yes"))
  BY <1>2, Onward DEF Order, Stages, Keeps, askedVars, registryVars
<1> QED
  BY <1>1, <1>2, CommonNears

LEMMA OthersNear ==
  ASSUME TypeOK, NEW p \in Operations, InstallerSteps(p) \/ BrewSteps(p) \/ ChocoSteps(p)
  PROVE  Nears(p)
<1>1. ASSUME NEW k, Reject(p, k) \/ Begin(p, k, "pick") \/ Selects(p, k) PROVE Nears(p)
  BY <1>1, CommonNears
<1>2. CASE InstallerSteps(p)
  BY <1>1, <1>2, EnsureNears, AutoNears, DefaultNears DEF InstallerSteps, InstallCommand,
     UninstallCommand, UpdateCommand, InstallPackage, UninstallPackage, UpdatePackage,
     ListInstalledPackages, IsPackageInstalled
<1>3. CASE BrewSteps(p) \/ ChocoSteps(p)
  BY <1>3, InstallNears, InfoNears, PackageNears DEF BrewSteps, ChocoSteps
<1> QED
  BY <1>2, <1>3

\* A detection takes the lock, or gives it back, or goes on to the next manager with it.
LEMMA DetectionNears ==
  ASSUME TypeOK, LockInv, NEW p \in Operations, AutoDetect(p)
  PROVE  /\ Apart(p) /\ Left(p)' < Left(p)
         /\ p \in readers' <=> Detects(p)'
         /\ readers' \ {p} = readers \ {p}
         /\ p \in readers' \ readers => MayRead(p)
<1>0. UNCHANGED kind /\ next[p] \in Nat \ {0} /\ (p \in readers <=> Detects(p))
  BY Listing DEF AutoDetect, askedVars, LockInv
<1>1. CASE /\ at[p] = "pick" /\ MayRead(p) /\ Goto(p, "detect") /\ next' = [next EXCEPT ![p] = 1]
           /\ readers' = IF kind[p] = "default" THEN readers ELSE readers \cup {p}
  <2>1. Apart(p) /\ at'[p] = "detect"
    BY <1>0, <1>1, Arriving, Listing DEF Apart
  <2> QED
    BY <1>0, <1>1, <2>1 DEF Left, Detects
<1>2. ASSUME at[p] = "detect", next[p] <= Len(getPreferredManagers), NEW m, Detected(p, m), Leaves(p)
      PROVE  Apart(p) /\ at'[p] \in {"check", "packageCheck", "done"} /\ readers' = readers \ {p}
  <2>1. Goto(p, "check") \/ Goto(p, "packageCheck") \/ Return(p, "nil")
    BY <1>2 DEF Detected, Available
  <2> QED
    BY <1>0, <1>2, <2>1, Arriving, Listing DEF Detected, Leaves, Apart
<1>3. CASE /\ at[p] = "detect" /\ next[p] <= Len(getPreferredManagers)
           /\ next' = [next EXCEPT ![p] = @ + 1] /\ UNCHANGED <<at, result, uses, readers>>
  <2>1. next'[p] = next[p] + 1 /\ \A q \in Operations \ {p} : next'[q] = next[q]
    BY <1>3, Listing
  <2>2. next[p] = 1 /\ next'[p] = 2 /\ Apart(p)
    BY <1>0, <1>3, <2>1, Preferred DEF Apart
  <2> QED
    BY <1>0, <1>3, <2>2 DEF Left, Detects
<1>4. CASE at[p] = "detect" /\ next[p] > Len(getPreferredManagers) /\ NotDetected(p) /\ Leaves(p)
  <2>1. Goto(p, "bootstrap") \/ Return(p, "NO_MANAGER")
    BY <1>4 DEF NotDetected
  <2>2. Apart(p) /\ at'[p] \in {"bootstrap", "done"} /\ readers' = readers \ {p}
    BY <1>0, <1>4, <2>1, Arriving, Listing DEF NotDetected, Leaves, Apart
  <2> QED
    BY <1>4, <2>2, Preferred DEF Left, Detects
<1>5. ASSUME at[p] = "detect", next[p] <= Len(getPreferredManagers), NEW m, Detected(p, m), Leaves(p)
      PROVE  /\ Apart(p) /\ Left(p)' < Left(p)
             /\ p \notin readers' /\ ~Detects(p)'
             /\ readers' \ {p} = readers \ {p}
  BY <1>0, <1>2, <1>5 DEF Left, Detects
<1> QED
  BY <1>1, <1>3, <1>4, <1>5 DEF AutoDetect

\* Nothing happens to where an operation stands, nor to the lock's readers.
Rests == UNCHANGED <<at, kind, next, readers>>

\* Every step of the system: of the host and the registry, or of one operation.
LEMMA RestsOrNears ==
  ASSUME TypeOK, Inv, [Next]_vars
  PROVE  \/ Rests
         \/ \E p \in Operations : UNCHANGED <<managers, writer>> /\ (AutoDetect(p) \/ Nears(p))
<1>1. CASE UserActs \/ Writers \/ UNCHANGED vars
  BY <1>1 DEF UserActs, Writers, Register, Unregister, Clear, Lock, Unlock, Rests,
     vars, registryVars, opVars, askedVars
<1>2. CASE OperationNext
  <2>1. PICK p \in Operations : Step(p) \/ ChildActs(p)
    BY <1>2 DEF OperationNext
  <2>2. CASE ChildActs(p)
    BY <2>2 DEF ChildActs, Rests, registryVars, askedVars
  <2>3. CASE Step(p)
    <3>1. UNCHANGED <<managers, writer>>
      BY <2>3, StepCases DEF Inv, Advances, Begins
    <3> QED
      BY <2>3, <3>1, OthersNear DEF Step
  <2> QED
    BY <2>1, <2>2, <2>3
<1> QED
  BY <1>1, <1>2 DEF Next

LEMMA LockKept == ASSUME TypeOK, Inv, LockInv, [Next]_vars PROVE LockInv'
<1>1. CASE Rests
  BY <1>1 DEF Rests, LockInv, Detects
<1>2. ASSUME NEW p \in Operations, AutoDetect(p) \/ Nears(p) PROVE LockInv'
  <2>1. /\ Apart(p) /\ (p \in readers' <=> Detects(p)')
        /\ readers' \ {p} = readers \ {p}
    BY <1>2, DetectionNears DEF Nears, LockInv, Detects
  <2>2. ASSUME NEW q \in Operations PROVE q \in readers' <=> Detects(q)'
    BY <2>1 DEF LockInv, Apart, Detects
  <2> QED
    BY <2>2 DEF LockInv
<1> QED
  BY <1>1, <1>2, RestsOrNears

\* The lock of the registry is held for reading by exactly the detections under way:
\* AutoDetect gives it back on each of its returns, and nothing else keeps it
\* (registry.go, AutoDetect's deferred RUnlock).
THEOREM DetectionsHoldTheLock == Spec => []LockInv
<1>1. Init => LockInv
  BY DEF Init, LockInv, Detects
<1>2. TypeOK /\ Inv /\ LockInv /\ [Next]_vars => LockInv'
  BY LockKept
<1> QED
  BY <1>1, <1>2, Invariance, PTL DEF Spec

\* A detection reads one registry from its first probe to its last: a manager is not
\* registered, replaced or removed while any detection is under way.
OneRegistrySeen == [][(\E p \in Operations : Detects(p)) => UNCHANGED managers]_vars

\* No write gets between the probes of a detection, however long they take
\* (registry.go, AutoDetect against Register, Unregister and Clear).
THEOREM DetectionSeesOneRegistry == Spec => OneRegistrySeen
<1>1. ASSUME TypeOK, Inv, LockInv, [Next]_vars, NEW p \in Operations, Detects(p)
      PROVE  UNCHANGED managers
  <2>1. readers # {}
    BY <1>1 DEF LockInv
  <2>2. CASE UserActs \/ Writers \/ UNCHANGED vars
    BY <2>1, <2>2 DEF UserActs, Writers, Register, Unregister, Clear, Lock, Unlock, vars, registryVars
  <2>3. ASSUME NEW q \in Operations, ChildActs(q) PROVE UNCHANGED managers
    BY <2>3 DEF ChildActs, registryVars
  <2>4. ASSUME NEW q \in Operations, Step(q) PROVE UNCHANGED managers
    BY <1>1, <2>4, StepCases DEF Inv, Advances, Begins
  <2> QED
    BY <1>1, <2>2, <2>3, <2>4 DEF Next, OperationNext
<1>2. TypeOK /\ Inv /\ LockInv /\ [Next]_vars => [(\E p \in Operations : Detects(p)) => UNCHANGED managers]_vars
  BY <1>1
<1> QED
  BY <1>2, Invariance, DetectionsHoldTheLock, PTL DEF Spec, OneRegistrySeen

\* A write that holds or waits for the lock is overtaken by no further detection.
WriterComesNext == [][writer # "none" => readers' \subseteq readers]_vars

\* Detections cannot starve a write: those under way finish, others wait for it (Go's
\* sync.RWMutex, as registry.go uses it).
THEOREM WritersAreNotOvertaken == Spec => WriterComesNext
<1>1. ASSUME TypeOK, Inv, LockInv, [Next]_vars, writer # "none" PROVE readers' \subseteq readers
  <2>1. CASE Rests
    BY <2>1 DEF Rests
  <2>2. ASSUME NEW p \in Operations, Nears(p) PROVE readers' \subseteq readers
    BY <2>2 DEF Nears
  <2>3. ASSUME NEW p \in Operations, AutoDetect(p) PROVE readers' \subseteq readers
    <3>1. p \in readers' \ readers => kind[p] = "default"
      BY <1>1, <2>3, DetectionNears DEF MayRead
    <3>2. p \in readers' => kind[p] # "default"
      BY <1>1, <2>3, DetectionNears DEF Detects, Apart
    <3> QED
      BY <1>1, <2>3, <3>1, <3>2, DetectionNears
  <2> QED
    BY <1>1, <2>1, <2>2, <2>3, RestsOrNears
<1>2. TypeOK /\ Inv /\ LockInv /\ [Next]_vars => [writer # "none" => readers' \subseteq readers]_vars
  BY <1>1
<1> QED
  BY <1>2, Invariance, DetectionsHoldTheLock, PTL DEF Spec, WriterComesNext

\* What there is left to do of an operation, at most 17 steps, only ever gets less:
\* each of its own steps brings it nearer to its return, and nothing the others do,
\* the host or the registry, sends it back.
OnlyForward ==
  [][\A p \in Operations :
       /\ Left(p) \in 0..17
       /\ Left(p)' <= Left(p)
       /\ (at'[p] # at[p] \/ next'[p] # next[p]) => Left(p)' < Left(p)]_vars

\* No operation goes round in a circle between probing, installing and probing again
\* (installer.go, EnsurePackageManager and ensureAutoDetected).
THEOREM OperationsAreFinite == Spec => OnlyForward
<1> DEFINE Forward ==
      \A p \in Operations :
        /\ Left(p) \in 0..17
        /\ Left(p)' <= Left(p)
        /\ (at'[p] # at[p] \/ next'[p] # next[p]) => Left(p)' < Left(p)
<1>1. ASSUME TypeOK, Inv, LockInv, [Next]_vars PROVE Forward
  <2>1. \A p \in Operations : Left(p) \in 0..17
    BY DEF Left
  <2>2. CASE Rests
    <3>1. \A p \in Operations : Left(p)' = Left(p)
      BY <2>2 DEF Rests, Left
    <3> QED
      BY <2>1, <2>2, <3>1 DEF Rests
  <2>3. ASSUME NEW p \in Operations, Apart(p), Left(p)' < Left(p) PROVE Forward
    <3>1. \A q \in Operations \ {p} : Left(q)' = Left(q) /\ at'[q] = at[q] /\ next'[q] = next[q]
      BY <2>3 DEF Apart, Left
    <3>2. Left(p)' <= Left(p)
      BY <2>1, <2>3 DEF Left
    <3> QED
      BY <2>1, <2>3, <3>1, <3>2
  <2>4. Rests \/ \E p \in Operations : Apart(p) /\ Left(p)' < Left(p)
    BY <1>1, RestsOrNears, DetectionNears DEF Nears
  <2> QED
    BY <2>2, <2>3, <2>4
<1>2. TypeOK /\ Inv /\ LockInv /\ [Next]_vars => [Forward]_vars
  BY <1>1
<1> QED
  BY <1>2, Invariance, DetectionsHoldTheLock, PTL DEF Spec, OnlyForward
=============================================================================
