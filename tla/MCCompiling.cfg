SPECIFICATION CompilingSpec
CONSTANTS
  root = root
  x = x
  Wildcard = Wildcard
  Names = {root, x}
  InputNames <- MCInputNames
  MaxSlots = 3
  MaxConstructs = 3
  MaxOrdered = 3
INVARIANTS
  TypeOK
  OneSlotPerName
  TextSealed
  WrittenOrOwn
  Safe
  OrderKnown
CHECK_DEADLOCK FALSE
