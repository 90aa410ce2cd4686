SPECIFICATION Spec
CONSTANT Modes <- BothModes
INVARIANT ErrorPathCleansUp
CHECK_DEADLOCK FALSE
