SPECIFICATION Spec
CONSTANTS
  MaxId = 3
  MaxProcs = 3
  MaxRequestsBeforeRestart = 5
  AgeCeiling = FALSE
  CrashThreshold = 2
  IdleOutlastsTimeouts = TRUE
  UsedPriorities = {1}
  Faults = {"exit"}
PROPERTY NoRespawnInBackoff
CHECK_DEADLOCK FALSE
