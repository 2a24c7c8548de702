SPECIFICATION Spec
CONSTANTS
  Docs = {"a"}
  Imports <- NoImports
  Texts = {"t1"}
  NoText = "none"
  RoxenTexts = {}
  MaxVersion = 1
  MaxSessions = 1
  MaxRuns = 2
  WorkerIsFast = FALSE
  Faults = {"save", "slow"}
INVARIANTS StaleNoticeMeansRunning
CHECK_DEADLOCK FALSE
