\* Three samples in a batch of two, which the server refuses, and one of one.
SPECIFICATION FairSpec
CONSTANTS
  p1 = p1
  p2 = p2
  Passes <- OnePass
  Loop = Loop
  MaxSamples = 3
  BatchSize = 2
  Poison = {2}
INVARIANTS
  TypeOK
  StopEndsLoops
PROPERTIES
  NoneSkipped
  GoodSamplesArrive
  StopTerminates
