SPECIFICATION Spec
CONSTANTS
  Docs = {"a"}
  Imports <- NoImports
  Texts = {"t1", "t2"}
  NoText = "none"
  RoxenTexts = {}
  MaxVersion = 2
  MaxSessions = 1
  MaxRuns = 2
  WorkerIsFast = FALSE
  Faults = {}
INVARIANTS RestShowsCurrentText
CHECK_DEADLOCK FALSE
