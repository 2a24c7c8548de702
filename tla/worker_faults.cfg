SPECIFICATION TimeoutSpec
CONSTANTS
  MaxId = 2
  MaxProcs = 2
  MaxRequestsBeforeRestart = 2
  AgeCeiling = TRUE
  CrashThreshold = 2
  IdleOutlastsTimeouts = FALSE
  UsedPriorities = {1}
  Faults = {"cancel", "stop", "exit", "spawnError", "writeError", "junk"}
INVARIANTS TypeOK NoStrandedRequest WaitsOnCurrentProcess NoLostWakeup NoOrphan
PROPERTIES ImplementsService EveryRequestSettles
CHECK_DEADLOCK FALSE
