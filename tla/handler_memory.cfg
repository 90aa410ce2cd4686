\* Memory cache, a timed and an untimed command redelivered at any time, one slot.
SPECIFICATION FairSpec
CONSTANTS
  c1 = c1
  c2 = c2
  c3 = c3
  t1 = t1
  t2 = t2
  t3 = t3
  Commands = {c1, c2}
  Tasks <- TwoTasks
  Types <- MCTypes
  TypeOf <- MCTypeOf
  Timed = {c1}
  PolledOnly = {}
  MaxConcurrent = 1
  Backend = "memory"
  ResumeFirst = TRUE
  None = None
INVARIANTS
  PendingHasOwner
PROPERTIES
  StopDrains
  TimedFinishes
  QueueServed
