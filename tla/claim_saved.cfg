SPECIFICATION Spec
CONSTANTS
  a = a
  b = b
  c = c
  old = old
  new = new
  Files <- Pair
  Texts <- TwoTexts
  Documents <- JustA
  MaxEvents = 1
  Start <- OneText
  Imports <- ADropsB
  MaxVersion = 1
  Slots = {1, 2}
  MaxRepairRounds = 4
  Faults = {"save"}
INVARIANTS RestHoldsBuffer
CHECK_DEADLOCK FALSE
