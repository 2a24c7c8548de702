SPECIFICATION Spec
CONSTANTS
  a = a
  b = b
  c = c
  old = old
  new = new
  Files <- Pair
  Texts <- OneText
  Documents <- Pair
  MaxEvents = 0
  Start <- OneText
  Imports <- Cycle
  MaxVersion = 1
  Slots = {1, 2}
  MaxRepairRounds = 4
  Faults = {"unreadable"}
INVARIANTS RestIsRepaired RepairOrder
CHECK_DEADLOCK FALSE
SYMMETRY Swap
