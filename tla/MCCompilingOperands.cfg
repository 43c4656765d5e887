SPECIFICATION CompilingSpec
CONSTANTS
  root = root
  x = x
  Wildcard = Wildcard
  Names = {root, x}
  InputNames <- MCInputNames
  MaxSlots = 4
  MaxConstructs = 3
  MaxOrdered = 2
INVARIANTS
  WrittenFirst
CHECK_DEADLOCK FALSE
