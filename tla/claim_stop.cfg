SPECIFICATION Spec
CONSTANTS
  a = a
  b = b
  old = old
  new = new
  Files <- JustA
  Texts <- TwoTexts
  Start <- OneText
  Touched <- JustA
  Imports <- NoImports
  Slots = {1}
  TimerHasManager = TRUE
  MaxAttempts = 1
  MaxEvents = 1
  MaxOrphans = 1
  Faults = {"stop"}
INVARIANTS StopIsNoCrash
CHECK_DEADLOCK FALSE
