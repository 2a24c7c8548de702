SPECIFICATION Spec
CONSTANTS
  a = a
  b = b
  old = old
  new = new
  Files <- Pair
  Texts <- TwoTexts
  Start <- OneText
  Touched <- JustA
  Imports <- NoImports
  Slots = {1}
  TimerHasManager = TRUE
  MaxAttempts = 1
  MaxEvents = 2
  MaxOrphans = 1
  Faults = {"open","edit","stop","fail","crash","stay","disk","upgrade","io","scan","pressure"}
CONSTRAINT AtMostTwo
INVARIANTS TypeOK TablesAreOfTheirText DemandedIsCurrent CrashLoopBounded
PROPERTIES SavedCacheIsWhole
CHECK_DEADLOCK FALSE
