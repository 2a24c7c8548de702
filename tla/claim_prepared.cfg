SPECIFICATION Spec
CONSTANTS
  a = a
  b = b
  old = old
  new = new
  Files <- Pair
  Texts <- TwoTexts
  Start <- OneText
  Touched <- JustA
  Imports <- AImportsB
  Slots = {1}
  BatchSize = 1
  MaxEvents = 3
  Faults = {"query","open","close"}
INVARIANTS PreparedIsComplete

CHECK_DEADLOCK FALSE
