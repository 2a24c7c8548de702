SPECIFICATION FairSpec
CONSTANTS
  Docs = {"a", "b", "c"}
  Imports <- BesideARing
  Texts = {"t1", "t2"}
  NoText = "none"
  RoxenTexts = {}
  MaxVersion = 2
  MaxSessions = 1
  MaxRuns = 4
  WorkerIsFast = TRUE
  Faults = {}
INVARIANTS RestShowsCurrentDependencies
PROPERTIES PropagationEnds
CONSTRAINT OthersRest
CHECK_DEADLOCK FALSE
