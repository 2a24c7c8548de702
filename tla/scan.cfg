SPECIFICATION FairSpec
CONSTANTS
  a = a
  b = b
  old = old
  new = new
  Files <- Pair
  Texts <- TwoTexts
  Start <- OneText
  Touched <- Pair
  Imports <- AImportsB
  Slots = {1, 2}
  BatchSize = 1
  MaxEvents = 3
  Faults = {"scan","overBudget","query","cancel","open","close","disk","unreadable","clear","memory"}
INVARIANTS PreparedCoversFound
PROPERTIES DependentsAreRefreshed PressureIsRelieved
CHECK_DEADLOCK FALSE
