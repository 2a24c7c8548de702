SPECIFICATION Spec
CONSTANTS
  a = a
  b = b
  old = old
  new = new
  Files <- Pair
  Texts <- TwoTexts
  Start <- OneText
  Touched <- JustA
  Imports <- AImportsB
  Slots = {1}
  TimerHasManager = TRUE
  MaxAttempts = 1
  MaxEvents = 4
  MaxOrphans = 1
  Faults = {"scan","crash"}
INVARIANTS RestoredEdgesAreKnown
CHECK_DEADLOCK FALSE
