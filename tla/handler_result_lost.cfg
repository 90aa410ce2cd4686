\* A result the server never gets, for a command marked complete.
SPECIFICATION Spec
CONSTANTS
  c1 = c1
  c2 = c2
  c3 = c3
  t1 = t1
  t2 = t2
  t3 = t3
  Commands = {c1}
  Tasks <- TwoTasks
  Types <- MCTypes
  TypeOf <- MCTypeOf
  Timed = {}
  PolledOnly = {}
  MaxConcurrent = 2
  Backend = "sqlite"
  ResumeFirst = TRUE
  None = None
INVARIANT ResultsDelivered
