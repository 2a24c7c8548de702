SPECIFICATION FairSpec
CONSTANTS
  MaxId = 2
  MaxProcs = 2
  MaxRequestsBeforeRestart = 5
  AgeCeiling = FALSE
  CrashThreshold = 2
  IdleOutlastsTimeouts = TRUE
  UsedPriorities = {1}
  Faults = {}
PROPERTY IdleWorkerEvicted
CHECK_DEADLOCK FALSE
