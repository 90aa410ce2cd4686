\* SQLite rows, recovery first: two delivered commands and one only polled.
SPECIFICATION Spec
CONSTANTS
  c1 = c1
  c2 = c2
  c3 = c3
  t1 = t1
  t2 = t2
  t3 = t3
  Commands = {c1, c2, c3}
  Tasks <- ThreeTasks
  Types <- MCTypes
  TypeOf <- MCTypeOf
  Timed = {}
  PolledOnly = {c3}
  MaxConcurrent = 2
  Backend = "sqlite"
  ResumeFirst = TRUE
  None = None
INVARIANTS
  TypeOK
  PoolBoundsExecution
  StopMeansQuiet
  NoConcurrentDuplicate
  CompleteWasSubmitted
PROPERTIES
  ExecutesOncePerLife
  ImplementsLedger
