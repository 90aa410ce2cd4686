SPECIFICATION Spec
CONSTANT Modes <- BothModes
INVARIANT CompletelyStopped
CHECK_DEADLOCK FALSE
