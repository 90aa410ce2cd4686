\* Two calls of up to three attempts each.
SPECIFICATION FairSpec
CONSTANTS
  r1 = r1
  r2 = r2
  Calls <- MCCalls
  MaxRetries = 2
INVARIANTS
  TypeOK
  EffectsBounded
  NeverBareRequestError
PROPERTIES
  ImplementsRemoteCall
  CallReturns
