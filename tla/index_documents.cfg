SPECIFICATION Spec
CONSTANTS
  a = a
  b = b
  c = c
  old = old
  new = new
  Files <- Pair
  Texts <- TwoTexts
  Documents <- JustA
  MaxEvents = 2
  Start <- OneText
  Imports <- ADropsB
  MaxVersion = 2
  Slots = {1, 2}
  MaxRepairRounds = 4
  Faults = {"edit", "save", "close", "disk", "query", "demand", "resolve"}
CONSTRAINT AtMostThree
INVARIANTS EdgesRegistered VersionIdentifiesText
CHECK_DEADLOCK FALSE
