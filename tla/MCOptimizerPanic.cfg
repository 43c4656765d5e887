SPECIFICATION Spec
CONSTANTS
  o1 = o1
  o2 = o2
  s = s
  t = t
  Unbound = Unbound
  Binding = {0, 1, 2, 3, 4, 5}
  Inputs = {0}
  Attribute = {"a"}
  Value <- MCValue
  Object = {o1, o2}
  tupleItems <- MCTupleItems
  Rules <- MCUnorderable
INVARIANTS
  OrderFound
CHECK_DEADLOCK FALSE
