SPECIFICATION Spec
CONSTANTS
  a = a
  b = b
  old = old
  new = new
  Files <- Pair
  Texts <- TwoTexts
  Start <- OneText
  Touched <- JustA
  Imports <- NoImports
  Slots = {1}
  TimerHasManager = TRUE
  MaxAttempts = 1
  MaxEvents = 5
  MaxOrphans = 1
  Faults = {"open","edit","pressure"}
INVARIANTS HydrationIsNotStale
CHECK_DEADLOCK FALSE
