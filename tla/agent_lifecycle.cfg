\* Both drivers, every point of Start at which a stop can arrive, hanging loops.
SPECIFICATION FairSpec
CONSTANT Modes <- BothModes
INVARIANTS
  TypeOK
  FlushIsLast
  HeartbeatEndsFirst
  GracefulIsComplete
PROPERTIES
  ShutdownCompletes
\* the process ends
CHECK_DEADLOCK FALSE
