\* Connectivity as the uploads see it.
SPECIFICATION Spec
CONSTANTS
  p1 = p1
  p2 = p2
  Passes <- TwoPasses
  Loop = Loop
  MaxSamples = 3
  BatchSize = 2
  Poison = {2}
PROPERTY OfflineDetected
