\* A package command next to any other operation, and one
\* write to the registry or act of the user of the host.
SPECIFICATION FairSpec
CONSTANTS
  command = command
  other = other
  git = git
  Operations <- MCOperations
  Packages <- MCPackages
  Platforms <- MCPlatforms
  Mixes <- MCMixes
  MaxObjects = 2
  MaxChanges = 1
INVARIANTS
  TypeOK
  AnswersAreTrue
  RefusedIsUntouched
  RightPlatform
PROPERTIES
  OnlyInstallationsBootstrap
  OperationsEnd
  WritersGetIn
\* every operation has returned
CHECK_DEADLOCK FALSE
