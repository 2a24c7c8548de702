SPECIFICATION Spec
CONSTANTS
  Docs = {"a", "b"}
  Imports <- BImportsA
  Texts = {"t1", "t2"}
  NoText = "none"
  RoxenTexts = {}
  MaxVersion = 2
  MaxSessions = 2
  MaxRuns = 3
  WorkerIsFast = TRUE
  Faults = {"close"}
INVARIANTS RestShowsCurrentDependencies
CHECK_DEADLOCK FALSE
