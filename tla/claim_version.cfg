SPECIFICATION Spec
CONSTANTS
  a = a
  b = b
  c = c
  old = old
  new = new
  Files <- Pair
  Texts <- TwoTexts
  Documents <- Pair
  MaxEvents = 0
  Start <- OneText
  Imports <- ADropsB
  MaxVersion = 1
  Slots = {1, 2}
  MaxRepairRounds = 4
  Faults = {}
INVARIANTS OpenDocumentsAreAuthoritative
CHECK_DEADLOCK FALSE
