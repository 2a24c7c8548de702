SPECIFICATION Spec
CONSTANTS
  a = a
  b = b
  old = old
  new = new
  Files <- JustA
  Texts <- TwoTexts
  Start <- OneText
  Touched <- JustA
  Imports <- NoImports
  Slots = {1}
  TimerHasManager = FALSE
  MaxAttempts = 1
  MaxEvents = 2
  MaxOrphans = 1
  Faults = {"stop","disk"}
INVARIANTS RefreshedIsCurrent
CHECK_DEADLOCK FALSE
