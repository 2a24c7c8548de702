SPECIFICATION Spec
CONSTANTS
  Docs = {"a"}
  Imports <- NoImports
  Texts = {"t1"}
  NoText = "none"
  RoxenTexts = {}
  MaxVersion = 1
  MaxSessions = 1
  MaxRuns = 1
  WorkerIsFast = FALSE
  Faults = {"backoff"}
INVARIANTS BackoffIsNotAVerdict
CHECK_DEADLOCK FALSE
