SPECIFICATION Spec
CONSTANTS
  Docs = {"a"}
  Imports <- NoImports
  Texts = {"t1", "t2"}
  NoText = "none"
  RoxenTexts = {}
  MaxVersion = 3
  MaxSessions = 2
  MaxRuns = 2
  WorkerIsFast = TRUE
  Faults = {"close", "reindex", "query", "slow", "fail", "backoff"}
INVARIANTS TypeOK RestShowsCurrentText StaleNoticeMeansRunning
CHECK_DEADLOCK FALSE
