SPECIFICATION Spec
CONSTANTS
  MaxId = 3
  MaxProcs = 3
  MaxRequestsBeforeRestart = 3
  AgeCeiling = FALSE
  CrashThreshold = 2
  IdleOutlastsTimeouts = FALSE
  UsedPriorities = {0, 2}
  Faults = {"stop", "exit", "spawnError"}
INVARIANTS SamePriorityFIFO NoStaleTimer OnlyCrashesCount
CHECK_DEADLOCK FALSE
