\* Two commands beside the service manager and the processes, or calls
\* of the registration services in an agent that is lost and restarted.
SPECIFICATION FairSpec
CONSTANTS
  one = one
  other = other
  Administrators <- MCAdministrators
  Mixes <- MCMixes
  Processes = {1, 2}
  Hosts = {"windows", "darwin"}
  Scenarios = {"commands", "calls"}
  MaxAttempts = 2
  MaxIdentities = 2
INVARIANTS
  TypeOK
  OneWorker
  CredentialsAgree
  ReturnedIsConfirmed
  IdentityIsKept
PROPERTIES
  SuccessTells
  EverythingEnds
\* every command has returned and the service is gone
CHECK_DEADLOCK FALSE
