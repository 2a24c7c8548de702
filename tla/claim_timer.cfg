SPECIFICATION FairSpec
CONSTANTS
  a = a
  b = b
  old = old
  new = new
  Files <- JustA
  Texts <- TwoTexts
  Start <- OneText
  Touched <- JustA
  Imports <- NoImports
  Slots = {1}
  TimerHasManager = FALSE
  MaxAttempts = 1
  MaxEvents = 0
  MaxOrphans = 1
  Faults = {}
PROPERTIES IdleServerHibernates
CHECK_DEADLOCK FALSE
