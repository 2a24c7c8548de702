SPECIFICATION Spec
CONSTANTS
  Docs = {"a", "b"}
  Imports <- BImportsA
  Texts = {"t1", "t2"}
  NoText = "none"
  RoxenTexts = {}
  MaxVersion = 1
  MaxSessions = 2
  MaxRuns = 2
  WorkerIsFast = FALSE
  Faults = {"save", "close", "mode", "watch", "dispose", "unindexed"}
INVARIANTS ClosedShowsNothing CachedVerdictIsOfItsText
PROPERTIES NothingAfterDispose
CONSTRAINT QuietImporter
CHECK_DEADLOCK FALSE
