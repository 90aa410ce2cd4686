----------------------------- MODULE PackageManager -----------------------------
(***************************************************************************)
(* internal/packagemgr: the registry, the installer, the executors of      *)
(* package commands, and the two managers, Homebrew and Chocolatey, as run *)
(* by several goroutines on one host while the registry is being changed   *)
(* and while a user of the host changes things behind their back.          *)
(*                                                                         *)
(* An operation is one call of an executor, of the installer or of the     *)
(* package's own functions. Its steps are the points where something else  *)
(* may come in between: a registry lock, a run of "brew --version" or      *)
(* "choco --version", the start and the end of a child process. What the   *)
(* child does to the host it does at a moment of its own.                  *)
(*                                                                         *)
(* Any probe and any child may fail: a timeout, a done context, an error   *)
(* of the operating system, and the torn read of Homebrew.executable that  *)
(* the unsynchronised write in Install allows, all end as a failed run.    *)
(***************************************************************************)
EXTENDS Naturals, Sequences

CONSTANTS Operations,   \* goroutines, one operation each
          Packages,
          Platforms,    \* values of runtime.GOOS explored
          Mixes,        \* the kinds of operations that come together
          MaxObjects,   \* bound on the Homebrew objects constructed
          MaxChanges    \* bound on the writes to the registry and the acts of the user

Names == {"homebrew", "chocolatey"}
\* Operations that install a manager when there is none, and the others.
Installing == {"install", "ensure", "default"}
Kinds == Installing \cup {"uninstall", "update", "list", "query", "info"}
Wanted == Names \cup {"auto"}

ASSUME PackageAssumption ==
  /\ Platforms \subseteq {"darwin", "linux", "windows"}
  /\ Mixes \subseteq [Operations -> Kinds]
  /\ Packages # {} /\ MaxObjects \in Nat \ {0} /\ MaxChanges \in Nat

VARIABLES
  goos,       \* runtime.GOOS
  onPath,     \* a bare "brew" or "choco" is found through the agent's own PATH
  present,    \* managers that are on the host
  installed,  \* packages that are on the host
  changes,    \* number of writes to the registry and of acts of the user
  managers,   \* Registry.managers: name to object, 0 when not registered
  brew,       \* per Homebrew object: its executable is the path of a real brew
  readers,    \* operations that hold Registry.mu for reading
  writer,     \* the write that holds or waits for Registry.mu: new readers wait
  at,         \* per operation: where it stands
  kind, wants, pkg,   \* per operation: what was asked for
  uses,       \* per operation: the manager it works with, a name and an object
  next,       \* per operation: index in the list of preferred managers
  child,      \* per operation: its child process, and what that found on the host
  saw,        \* per operation, history: what the host was like since it began
  result      \* per operation: "none" until it returns

hostVars == <<goos, onPath, present, installed>>
registryVars == <<managers, brew, readers, writer>>
askedVars == <<kind, wants, pkg>>
opVars == <<at, askedVars, uses, next, child, saw, result>>
vars == <<hostVars, registryVars, opVars, changes>>

Refusals == {"INVALID", "NOT_FOUND", "NO_MANAGER", "NOT_INSTALLED"}
Failures == {"INSTALL_FAILED", "UNINSTALL_FAILED", "UPDATE_FAILED", "LIST_FAILED",
             "CHECK_FAILED", "PACKAGE_NOT_FOUND", "INFO_FAILED"}
Results == Refusals \cup Failures \cup {"none", "nil", "yes", "no"}
Stages == {"idle", "pick", "detect", "check", "bootstrap", "managerCheck", "script",
           "managerVerify", "verify", "packageCheck", "run", "info", "done"}

\* The preferred managers of a platform; the other names of the lists in the
\* code have no implementation, and are skipped wherever they come up.
getPreferredManagers == IF goos = "windows" THEN <<"chocolatey">> ELSE <<"homebrew">>

View(x, there) == IF x \in there THEN "in" ELSE "out"
Active(p) == at[p] \notin {"idle", "done"}

\* What there is to see of a package and of the managers on the host.
Sights(x, there, hosts) == {View(x, there)} \cup (IF hosts = {} THEN {} ELSE {"manager"})

\* The host changes; every operation under way gets to see it.
HostHas(there, hosts) ==
  /\ installed' = there /\ present' = hosts
  /\ saw' = [p \in Operations |->
       IF Active(p) THEN saw[p] \cup Sights(pkg[p], there, hosts) ELSE saw[p]]

-----------------------------------------------------------------------------
(* Probes: a manager says it is installed only when it is; it may also fail. *)

BrewIsInstalled(obj, says) ==
  says => /\ goos \in {"darwin", "linux"}
          /\ "homebrew" \in present
          /\ brew[obj] \/ onPath

ChocoIsInstalled(says) ==
  says => goos = "windows" /\ "chocolatey" \in present /\ onPath

IsInstalled(m, says) ==
  IF m.name = "homebrew" THEN BrewIsInstalled(m.obj, says) ELSE ChocoIsInstalled(says)

-----------------------------------------------------------------------------
(* Movements of an operation. *)

Goto(p, stage) == at' = [at EXCEPT ![p] = stage] /\ UNCHANGED result
Return(p, r) == at' = [at EXCEPT ![p] = "done"] /\ result' = [result EXCEPT ![p] = r]
Takes(p, m) == uses' = [uses EXCEPT ![p] = m]
Keeps(p) == UNCHANGED <<askedVars, uses, next, child, saw>>

Begin(p, k, stage) ==
  /\ at[p] = "idle" /\ kind[p] = k
  /\ \E w \in Wanted, x \in Packages :
       /\ wants' = [wants EXCEPT ![p] = w]
       /\ pkg' = [pkg EXCEPT ![p] = x]
       /\ saw' = [saw EXCEPT ![p] = Sights(x, installed, present)]
  /\ Goto(p, stage)
  /\ UNCHANGED <<hostVars, registryVars, kind, uses, next, child>>

\* A payload that cannot be parsed, or an empty package name.
Reject(p, k) ==
  /\ at[p] = "idle" /\ kind[p] = k
  /\ Return(p, "INVALID") /\ Keeps(p) /\ UNCHANGED <<hostVars, registryVars>>

\* What the caller of EnsurePackageManager does with the manager.
Available(p) == IF kind[p] = "install" THEN Goto(p, "packageCheck") ELSE Return(p, "nil")

\* ensureAutoDetected goes on with the next preferred manager; the others give up.
InstallFails(p) ==
  IF kind[p] # "default" /\ wants[p] = "auto"
    THEN Goto(p, "bootstrap") /\ next' = [next EXCEPT ![p] = @ + 1]
    ELSE Return(p, "INSTALL_FAILED") /\ UNCHANGED next

-----------------------------------------------------------------------------
(* The registry *)

\* NewHomebrew: findBrewExecutable looks where brew is usually installed.
NewHomebrew == brew' = Append(brew, "homebrew" \in present)

\* Go's RWMutex: a writer that holds the lock or waits for it keeps new readers out.
\* The registry of GetDefaultOrInstall is its own, and nobody else locks it.
MayRead(p) == kind[p] = "default" \/ writer = "none"

Lookup(p, n) ==
  IF kind[p] # "default" THEN managers[n] ELSE IF uses[p].name = n THEN uses[p].obj ELSE 0

\* (mutant) a missing manager is returned like any other
GetUnchecked(p, n, stage, Missing) ==
  /\ MayRead(p)
  /\ Takes(p, [name |-> n, obj |-> Lookup(p, n)]) /\ Goto(p, stage) /\ UNCHANGED next
  /\ UNCHANGED <<hostVars, registryVars, askedVars, child, saw>>

\* Get: the operation goes to the stage with the manager, or Missing happens.
Get(p, n, stage, Missing) ==
  /\ MayRead(p)
  /\ \/ /\ Lookup(p, n) # 0 /\ Takes(p, [name |-> n, obj |-> Lookup(p, n)])
        /\ Goto(p, stage) /\ UNCHANGED next
     \/ Lookup(p, n) = 0 /\ Missing
  /\ UNCHANGED <<hostVars, registryVars, askedVars, child, saw>>
NotFound(p) == Return(p, "NOT_FOUND") /\ UNCHANGED <<uses, next>>

Changes == changes < MaxChanges /\ changes' = changes + 1

Lock(write) ==
  /\ writer = "none" /\ Changes
  /\ writer' = write
  /\ UNCHANGED <<hostVars, managers, brew, readers, opVars>>

\* (mutant) the writer returns without its Unlock
UnlockForgotten(write) ==
  /\ writer = write /\ readers = {}
  /\ UNCHANGED <<hostVars, readers, writer, changes, opVars>>

Unlock(write) ==
  /\ writer = write /\ readers = {}
  /\ writer' = "none"
  /\ UNCHANGED <<hostVars, readers, changes, opVars>>

\* A manager of the same name is replaced; who got the old object keeps it.
Register ==
  \/ Lock("register")
  \/ /\ Unlock("register")
     /\ \/ /\ Len(brew) < MaxObjects /\ NewHomebrew
           /\ managers' = [managers EXCEPT !["homebrew"] = Len(brew) + 1]
        \/ managers' = [managers EXCEPT !["chocolatey"] = 1] /\ UNCHANGED brew

Unregister ==
  \/ Lock("unregister")
  \/ /\ Unlock("unregister") /\ UNCHANGED brew
     /\ \E n \in Names : managers' = [managers EXCEPT ![n] = 0]

Clear ==
  \/ Lock("clear")
  \/ Unlock("clear") /\ UNCHANGED brew /\ managers' = [n \in Names |-> 0]

ByPlatform(p) == kind[p] = "default" \/ wants[p] = "auto"

\* (mutant) the lock is kept
Stays(p) == UNCHANGED readers

Leaves(p) == readers' = readers \ {p}

\* AutoDetect found m, or nothing: what its callers do next.
Detected(p, m) ==
  /\ Takes(p, m)
  /\ IF kind[p] = "default" THEN Return(p, "nil")
     ELSE IF kind[p] \in Installing THEN Available(p) ELSE Goto(p, "check")
  /\ UNCHANGED next
NotDetected(p) ==
  /\ IF kind[p] \in Installing THEN Goto(p, "bootstrap") ELSE Return(p, "NO_MANAGER")
  /\ next' = [next EXCEPT ![p] = 1] /\ UNCHANGED uses

\* The lock is held for reading through every probe, up to 10 seconds each.
AutoDetect(p) ==
  /\ \/ /\ at[p] = "pick" /\ ByPlatform(p) /\ MayRead(p)
        /\ Goto(p, "detect") /\ next' = [next EXCEPT ![p] = 1]
        /\ readers' = IF kind[p] = "default" THEN readers ELSE readers \cup {p}
        /\ UNCHANGED uses
     \/ /\ at[p] = "detect" /\ next[p] <= Len(getPreferredManagers)
        /\ LET m == [name |-> getPreferredManagers[next[p]],
                     obj  |-> Lookup(p, getPreferredManagers[next[p]])] IN
           \/ /\ m.obj # 0 /\ IsInstalled(m, TRUE)
              /\ Detected(p, m) /\ Leaves(p)
           \/ /\ m.obj = 0 \/ IsInstalled(m, FALSE)
              /\ next' = [next EXCEPT ![p] = @ + 1] /\ UNCHANGED <<at, result, uses, readers>>
     \/ /\ at[p] = "detect" /\ next[p] > Len(getPreferredManagers)
        /\ NotDetected(p) /\ Leaves(p)
  /\ UNCHANGED <<hostVars, managers, brew, writer, askedVars, child, saw>>

-----------------------------------------------------------------------------
(* The installer *)

Probe(p, stage, Yes, No) ==
  /\ at[p] = stage
  /\ \E says \in BOOLEAN : IsInstalled(uses[p], says) /\ IF says THEN Yes ELSE No
  /\ UNCHANGED <<hostVars, registryVars, askedVars, uses, child, saw>>

EnsurePackageManager(p) ==
  \/ Begin(p, "ensure", "pick")
  \/ /\ kind[p] \in {"install", "ensure"} /\ wants[p] # "auto"
     /\ \/ at[p] = "pick" /\ Get(p, wants[p], "check", NotFound(p))
        \/ Probe(p, "check", Available(p), Goto(p, "managerCheck")) /\ UNCHANGED next
        \/ Probe(p, "verify", Available(p), Return(p, "INSTALL_FAILED")) /\ UNCHANGED next

ensureAutoDetected(p) ==
  /\ kind[p] \in {"install", "ensure"} /\ wants[p] = "auto"
  /\ \/ /\ at[p] = "bootstrap" /\ next[p] <= Len(getPreferredManagers)
        /\ Get(p, getPreferredManagers[next[p]], "managerCheck",
               next' = [next EXCEPT ![p] = @ + 1] /\ UNCHANGED <<at, result, uses>>)
     \/ /\ at[p] = "bootstrap" /\ next[p] > Len(getPreferredManagers)
        /\ Return(p, "NO_MANAGER") /\ Keeps(p) /\ UNCHANGED <<hostVars, registryVars>>
     \/ Probe(p, "verify", Available(p) /\ UNCHANGED next, InstallFails(p))

\* GetDefaultOrInstall, on a DefaultRegistry of its own; only the first preferred manager.
GetDefaultOrInstall(p) ==
  \/ /\ at[p] = "idle" /\ kind[p] = "default"
     /\ Goto(p, "pick")
     /\ IF goos = "windows"
          THEN Takes(p, [name |-> "chocolatey", obj |-> 1]) /\ UNCHANGED brew
          ELSE /\ Len(brew) < MaxObjects /\ NewHomebrew
               /\ Takes(p, [name |-> "homebrew", obj |-> Len(brew) + 1])
     /\ saw' = [saw EXCEPT ![p] = Sights(pkg[p], installed, present)]
     /\ UNCHANGED <<hostVars, managers, readers, writer, askedVars, next, child>>
  \/ /\ kind[p] = "default"
     /\ \/ /\ at[p] = "bootstrap"
           /\ Get(p, getPreferredManagers[1], "managerCheck", NotFound(p))
        \/ Probe(p, "verify", Return(p, "nil"), Return(p, "INSTALL_FAILED")) /\ UNCHANGED next

\* Installer.InstallPackage: EnsurePackageManager, then the manager's InstallPackage.
InstallPackage(p) == Reject(p, "install") \/ Begin(p, "install", "pick")

\* (mutant) a missing manager is installed for these too
SelectsInstalling(p, k) ==
  /\ kind[p] = k
  /\ \/ at[p] = "pick" /\ ~ByPlatform(p) /\ Get(p, wants[p], "check", NotFound(p))
     \/ Probe(p, "check", Goto(p, "packageCheck"), Goto(p, "managerCheck")) /\ UNCHANGED next

\* The other operations of the installer never install a manager: GetOrAuto, then
\* a check of their own before the manager is called.
Selects(p, k) ==
  /\ kind[p] = k
  /\ \/ /\ at[p] = "pick" /\ ~ByPlatform(p)
        /\ Get(p, wants[p], "check", NotFound(p))
     \/ Probe(p, "check", Goto(p, "packageCheck"), Return(p, "NOT_INSTALLED")) /\ UNCHANGED next

UninstallPackage(p) ==
  Reject(p, "uninstall") \/ Begin(p, "uninstall", "pick") \/ Selects(p, "uninstall")
UpdatePackage(p) ==
  Reject(p, "update") \/ Begin(p, "update", "pick") \/ Selects(p, "update")
ListInstalledPackages(p) == Begin(p, "list", "pick") \/ Selects(p, "list")
IsPackageInstalled(p) ==
  Reject(p, "query") \/ Begin(p, "query", "pick") \/ Selects(p, "query")

\* The executors of the command handler: a bad payload is a failed command; what
\* the installer returns decides between success and failed.
InstallCommand(p) == Reject(p, "install") \/ InstallPackage(p)
UninstallCommand(p) == Reject(p, "uninstall") \/ UninstallPackage(p)
UpdateCommand(p) == Reject(p, "update") \/ UpdatePackage(p)

-----------------------------------------------------------------------------
(* The managers: their own installation. *)

\* (mutant) no look at runtime.GOOS
ChecksAnywhere(p, supported) ==
  /\ at[p] = "managerCheck"
  /\ \/ IsInstalled(uses[p], TRUE) /\ Goto(p, "verify") /\ UNCHANGED child
     \/ IsInstalled(uses[p], FALSE) /\ Goto(p, "script")
        /\ child' = [child EXCEPT ![p] = "running"]
  /\ UNCHANGED <<hostVars, registryVars, askedVars, uses, next, saw>>

\* The script is started only when the probe fails, and awaited.
ChecksFirst(p, supported) ==
  \/ /\ at[p] = "managerCheck" /\ ~supported /\ InstallFails(p)
     /\ UNCHANGED <<hostVars, registryVars, askedVars, uses, child, saw>>
  \/ /\ at[p] = "managerCheck" /\ supported
     /\ \/ IsInstalled(uses[p], TRUE) /\ Goto(p, "verify") /\ UNCHANGED child
        \/ IsInstalled(uses[p], FALSE) /\ Goto(p, "script")
           /\ child' = [child EXCEPT ![p] = "running"]
     /\ UNCHANGED <<hostVars, registryVars, askedVars, uses, next, saw>>

\* The script's exit, whatever it has done: exit 0 may follow on a failed download.
ScriptExits(p) ==
  /\ at[p] = "script"
  /\ child' = [child EXCEPT ![p] = "none"]
  /\ UNCHANGED <<hostVars, managers, readers, writer, askedVars, uses, saw>>

Verifies(p) == Probe(p, "managerVerify", Goto(p, "verify") /\ UNCHANGED next, InstallFails(p))

\* After the script the path of brew is looked up again, without a lock.
BrewInstall(p) ==
  /\ uses[p].name = "homebrew"
  /\ \/ ChecksFirst(p, goos \in {"darwin", "linux"})
     \/ ScriptExits(p) /\ InstallFails(p) /\ UNCHANGED brew
     \/ /\ ScriptExits(p) /\ Goto(p, "managerVerify") /\ UNCHANGED next
        /\ brew' = [brew EXCEPT ![uses[p].obj] = "homebrew" \in present]
     \/ Verifies(p)

ChocoInstall(p) ==
  /\ uses[p].name = "chocolatey"
  /\ \/ ChecksFirst(p, goos = "windows")
     \/ ScriptExits(p) /\ InstallFails(p) /\ UNCHANGED brew
     \/ ScriptExits(p) /\ Goto(p, "managerVerify") /\ UNCHANGED <<brew, next>>
     \/ Verifies(p)

-----------------------------------------------------------------------------
(* The managers: packages. *)

On(p, m, k) == uses[p].name = m /\ kind[p] = k

\* (mutant) the child is started while the probe is under way
StartsAtOnce(p) ==
  /\ at[p] = "packageCheck"
  /\ \/ IsInstalled(uses[p], FALSE) /\ Return(p, "NOT_INSTALLED")
     \/ IsInstalled(uses[p], TRUE) /\ Goto(p, "run")
  /\ child' = [child EXCEPT ![p] = "running"]
  /\ UNCHANGED <<hostVars, registryVars, askedVars, uses, next, saw>>

\* Every operation on a package probes the manager once more, then starts a child.
Starts(p) ==
  /\ at[p] = "packageCheck"
  /\ \/ IsInstalled(uses[p], FALSE) /\ Return(p, "NOT_INSTALLED") /\ UNCHANGED child
     \/ IsInstalled(uses[p], TRUE) /\ Goto(p, "run") /\ child' = [child EXCEPT ![p] = "running"]
  /\ UNCHANGED <<hostVars, registryVars, askedVars, uses, next, saw>>

Ends(p, r) ==
  /\ Return(p, r) /\ Keeps(p) /\ UNCHANGED <<hostVars, registryVars>>

\* (mutant) the error of the child's run is dropped
BrewExecuteBlindly(p, ok) == at[p] = "run"

\* executeCommand: exit 0 only for a child that did its work; anything, done or not,
\* may still end as an error: the exit code, the timeout, the signal.
BrewExecute(p, ok) ==
  /\ at[p] = "run"
  /\ ok => child[p] = "in" \/ (child[p] = "out" /\ kind[p] \in {"install", "list"})
ChocoExecute(p, ok) ==
  /\ at[p] = "run"
  /\ ok => child[p] = "in" \/ (child[p] = "out" /\ kind[p] \in {"install", "update", "list", "query"})

\* brew fails with "already installed" for a package that was there before.
BrewInstallPackage(p) ==
  /\ On(p, "homebrew", "install")
  /\ \/ Starts(p)
     \/ BrewExecute(p, TRUE) /\ Ends(p, "nil")
     \/ BrewExecute(p, FALSE) /\ child[p] = "in" /\ Ends(p, "nil")
     \/ BrewExecute(p, FALSE) /\ Ends(p, "INSTALL_FAILED")
BrewUninstallPackage(p) ==
  /\ On(p, "homebrew", "uninstall")
  /\ \/ Starts(p)
     \/ BrewExecute(p, TRUE) /\ Ends(p, "nil")
     \/ BrewExecute(p, FALSE) /\ Ends(p, "UNINSTALL_FAILED")
BrewUpdatePackage(p) ==
  /\ On(p, "homebrew", "update")
  /\ \/ Starts(p)
     \/ BrewExecute(p, TRUE) /\ Ends(p, "nil")
     \/ BrewExecute(p, FALSE) /\ child[p] = "in" /\ Ends(p, "nil")
     \/ BrewExecute(p, FALSE) /\ Ends(p, "UPDATE_FAILED")
BrewListInstalled(p) ==
  /\ On(p, "homebrew", "list")
  /\ \/ Starts(p)
     \/ BrewExecute(p, TRUE) /\ Ends(p, "nil")
     \/ BrewExecute(p, FALSE) /\ Ends(p, "LIST_FAILED")

\* "No such keg" is the answer no; GetPackageInfo asks the same first.
BrewIsPackageInstalled(p) ==
  /\ On(p, "homebrew", "query") \/ On(p, "homebrew", "info")
  /\ \/ Starts(p)
     \/ /\ BrewExecute(p, TRUE)
        /\ IF kind[p] = "info" THEN Goto(p, "info") ELSE Return(p, "yes")
        /\ Keeps(p) /\ UNCHANGED <<hostVars, registryVars>>
     \/ /\ BrewExecute(p, FALSE) /\ child[p] = "out"
        /\ Ends(p, IF kind[p] = "info" THEN "PACKAGE_NOT_FOUND" ELSE "no")
     \/ BrewExecute(p, FALSE) /\ Ends(p, "CHECK_FAILED")

\* GetPackageInfo, called on a Homebrew object its caller got from the registry.
GetPackageInfo(p) ==
  \/ /\ managers["homebrew"] # 0 /\ writer = "none"
     /\ at[p] = "idle" /\ kind[p] = "info"
     /\ \E x \in Packages : /\ pkg' = [pkg EXCEPT ![p] = x]
                            /\ saw' = [saw EXCEPT ![p] = Sights(x, installed, present)]
     /\ Takes(p, [name |-> "homebrew", obj |-> managers["homebrew"]])
     /\ Goto(p, "packageCheck")
     /\ UNCHANGED <<hostVars, registryVars, kind, wants, next, child>>
  \/ /\ at[p] = "info"
     /\ \E r \in {"yes", "INFO_FAILED"} : Ends(p, r)

ChocoInstallPackage(p) ==
  /\ On(p, "chocolatey", "install")
  /\ \/ Starts(p)
     \/ ChocoExecute(p, TRUE) /\ Ends(p, "nil")
     \/ ChocoExecute(p, FALSE) /\ Ends(p, "INSTALL_FAILED")
ChocoUninstallPackage(p) ==
  /\ On(p, "chocolatey", "uninstall")
  /\ \/ Starts(p)
     \/ ChocoExecute(p, TRUE) /\ Ends(p, "nil")
     \/ ChocoExecute(p, FALSE) /\ Ends(p, "UNINSTALL_FAILED")
ChocoUpdatePackage(p) ==
  /\ On(p, "chocolatey", "update")
  /\ \/ Starts(p)
     \/ ChocoExecute(p, TRUE) /\ Ends(p, "nil")
     \/ ChocoExecute(p, FALSE) /\ Ends(p, "UPDATE_FAILED")
ChocoListInstalled(p) ==
  /\ On(p, "chocolatey", "list")
  /\ \/ Starts(p)
     \/ ChocoExecute(p, TRUE) /\ Ends(p, "nil")
     \/ ChocoExecute(p, FALSE) /\ Ends(p, "LIST_FAILED")

\* The answer is read off the lines of the listing.
ChocoIsPackageInstalled(p) ==
  /\ On(p, "chocolatey", "query")
  /\ \/ Starts(p)
     \/ ChocoExecute(p, TRUE) /\ Ends(p, IF child[p] = "in" THEN "yes" ELSE "no")
     \/ ChocoExecute(p, FALSE) /\ Ends(p, "CHECK_FAILED")

-----------------------------------------------------------------------------
(* The host, outside the agent. *)

\* What the child has done to the package; choco upgrade also installs.
After(p) ==
  CASE kind[p] = "install" -> installed \cup {pkg[p]}
    [] kind[p] = "uninstall" -> installed \ {pkg[p]}
    [] kind[p] = "update" /\ uses[p].name = "chocolatey" -> installed \cup {pkg[p]}
    [] OTHER -> installed

\* A child does its work, or an installation script has put the manager in place.
ChildActs(p) ==
  /\ child[p] = "running"
  /\ \/ /\ at[p] = "run" /\ uses[p].name \in present
        /\ child' = [child EXCEPT ![p] = View(pkg[p], installed)]
        /\ HostHas(After(p), present)
     \/ /\ at[p] = "script"
        /\ child' = [child EXCEPT ![p] = "in"]
        /\ HostHas(installed, present \cup {uses[p].name})
  /\ UNCHANGED <<goos, onPath, registryVars, at, askedVars, uses, next, result>>

\* The user of the host removes a manager, or installs or removes a package.
UserActs ==
  /\ Changes
  /\ \/ \E m \in present : HostHas(installed, present \ {m})
     \/ \E x \in installed : HostHas(installed \ {x}, present)
     \/ \E x \in Packages \ installed : HostHas(installed \cup {x}, present)
  /\ UNCHANGED <<goos, onPath, registryVars, at, askedVars, uses, next, child, result>>

-----------------------------------------------------------------------------

\* The agent starts with a DefaultRegistry, on a host in any state.
DefaultManagers == [n \in Names |-> IF n = getPreferredManagers[1] THEN 1 ELSE 0]

Init ==
  /\ goos \in Platforms /\ onPath \in BOOLEAN
  /\ present \in SUBSET {getPreferredManagers[1]} /\ installed \in SUBSET Packages
  /\ changes = 0
  /\ managers = DefaultManagers
  /\ brew = IF goos = "windows" THEN << >> ELSE <<"homebrew" \in present>>
  /\ readers = {} /\ writer = "none"
  /\ at = [p \in Operations |-> "idle"]
  /\ kind \in Mixes /\ wants = [p \in Operations |-> "auto"]
  /\ pkg = [p \in Operations |-> CHOOSE x \in Packages : TRUE]
  /\ uses = [p \in Operations |-> [name |-> "none", obj |-> 0]]
  /\ next = [p \in Operations |-> 1]
  /\ child = [p \in Operations |-> "none"]
  /\ saw = [p \in Operations |-> {}]
  /\ result = [p \in Operations |-> "none"]

InstallerSteps(p) ==
  \/ InstallCommand(p) \/ UninstallCommand(p) \/ UpdateCommand(p)
  \/ ListInstalledPackages(p) \/ IsPackageInstalled(p)
  \/ EnsurePackageManager(p) \/ ensureAutoDetected(p) \/ GetDefaultOrInstall(p)
BrewSteps(p) ==
  \/ BrewInstall(p) \/ BrewInstallPackage(p) \/ BrewUninstallPackage(p) \/ BrewUpdatePackage(p)
  \/ BrewListInstalled(p) \/ BrewIsPackageInstalled(p) \/ GetPackageInfo(p)
ChocoSteps(p) ==
  \/ ChocoInstall(p) \/ ChocoInstallPackage(p) \/ ChocoUninstallPackage(p)
  \/ ChocoUpdatePackage(p) \/ ChocoListInstalled(p) \/ ChocoIsPackageInstalled(p)
Step(p) == AutoDetect(p) \/ InstallerSteps(p) \/ BrewSteps(p) \/ ChocoSteps(p)
Writers == Register \/ Unregister \/ Clear

OperationNext == (\E p \in Operations : Step(p) \/ ChildActs(p)) /\ UNCHANGED changes

Next == UserActs \/ Writers \/ OperationNext

Spec == Init /\ [][Next]_vars

\* What an operation is about to do is to wait for a process: a probe, an
\* installation script, a command.
Waits(p) ==
  \/ at[p] \in {"check", "managerCheck", "script", "managerVerify", "verify",
               "packageCheck", "run", "info"}
  \/ at[p] = "detect" /\ next[p] <= Len(getPreferredManagers)

\* Goroutines run, except that nothing is assumed of those that wait for a process:
\* the timeouts kill the child, but its output goes to buffers and there is no
\* WaitDelay, so that Run returns only when every descendant has closed the pipes.
\* A writer that holds the lock does not give it up half way.
Fairness ==
  /\ \A p \in Operations : WF_vars(Active(p) /\ ~Waits(p) /\ Step(p) /\ UNCHANGED changes)
  /\ WF_vars(writer # "none" /\ Writers)

FairSpec == Spec /\ Fairness

-----------------------------------------------------------------------------

HostTypeOK ==
  /\ goos \in Platforms /\ onPath \in BOOLEAN /\ present \subseteq Names
  /\ installed \subseteq Packages /\ changes \in 0..MaxChanges

RegistryTypeOK ==
  /\ brew \in Seq(BOOLEAN) /\ Len(brew) <= MaxObjects
  /\ managers \in [Names -> 0..MaxObjects] /\ managers["homebrew"] <= Len(brew)
  /\ readers \subseteq Operations
  /\ writer \in {"none", "register", "unregister", "clear"}

OperationTypeOK ==
  /\ at \in [Operations -> Stages] /\ kind \in [Operations -> Kinds]
  /\ wants \in [Operations -> Wanted] /\ pkg \in [Operations -> Packages]
  /\ uses \in [Operations -> [name : Names \cup {"none"}, obj : 0..MaxObjects]]
  /\ next \in [Operations -> Nat \ {0}]
  /\ child \in [Operations -> {"none", "running", "in", "out"}]
  /\ saw \in [Operations -> SUBSET {"in", "out", "manager"}]
  /\ result \in [Operations -> Results]

\* The object an operation uses has been constructed.
TypeOK ==
  /\ HostTypeOK /\ RegistryTypeOK /\ OperationTypeOK
  /\ \A p \in Operations : uses[p].name = "homebrew" => uses[p].obj \in 1..Len(brew)

\* What the server is told is true of the host: whoever answers that a package has
\* been installed, updated or found was looking at a host that had it at some moment
\* of the operation, and whoever answers that it is gone or absent at one that had
\* not, although other operations and the user of the host work on the same
\* package, an error with the right words counts as success, and what was checked
\* is stale when it is used. Success of any kind also took a manager, although the
\* script that installs one may end with 0 when nothing was downloaded.
AnswersAreTrue ==
  \A p \in Operations :
    /\ (result[p] = "yes" \/ (result[p] = "nil" /\ kind[p] \in {"install", "update"})) => "in" \in saw[p]
    /\ (result[p] = "no" \/ (result[p] = "nil" /\ kind[p] = "uninstall")) => "out" \in saw[p]
    /\ result[p] = "nil" => "manager" \in saw[p]

\* An operation that is refused, for its payload, for want of a manager or because
\* the manager is not installed, has started nothing that could touch a package,
\* whatever it had selected and installed before.
RefusedIsUntouched == \A p \in Operations : result[p] \in Refusals => child[p] = "none"

\* Whichever manager the server names and whatever the registry was made to hold:
\* nothing is run with a manager that does not belong to the platform.
RightPlatform ==
  \A p \in Operations : at[p] \in {"script", "managerVerify", "run", "info"} =>
    uses[p].name = getPreferredManagers[1]

\* "Get package manager (don't install if not present)" (installer.go): only an
\* installation, of a package or of a manager, brings a manager onto the host.
OnlyInstallationsBootstrap ==
  [][\A m \in present' \ present : \E p \in Operations :
       at[p] = "script" /\ uses[p].name = m /\ kind[p] \in Installing]_vars

\* The processes an operation waits for come to an end, with all that hold their pipes.
ProcessesEnd(p) == WF_vars(Waits(p) /\ Step(p) /\ UNCHANGED changes)

\* So do the probes that are run under the lock of the registry.
LockedProbesEnd ==
  \A q \in Operations : WF_vars(q \in readers /\ Waits(q) /\ Step(q) /\ UNCHANGED changes)

\* An operation ends if its own processes do and those of the detections, which hold
\* the lock of the registry through their probes (registry.go, AutoDetect). It waits
\* for nothing else: a script or a command of another operation that hangs for ever,
\* a writer that asks for the lock, or a manager that never comes do not stop it.
OperationsEnd ==
  \A p \in Operations : (ProcessesEnd(p) /\ LockedProbesEnd) => (Active(p) ~> at[p] = "done")

\* A writer gets the lock although detections keep taking it, if the probes of the
\* detections end, and whatever else hangs.
WritersGetIn == LockedProbesEnd => (writer # "none" ~> writer = "none")
=============================================================================
