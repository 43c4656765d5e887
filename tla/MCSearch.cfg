SPECIFICATION FairSpec
CONSTANTS
  o1 = o1
  o2 = o2
  s = s
  t = t
  Unbound = Unbound
  Binding = {0, 1, 2, 3, 4}
  Inputs = {0}
  Scratch = {4}
  Attribute = {"a"}
  Value <- MCValue
  Object = {o1, o2}
  tupleItems <- MCTupleItems
  Leftover = {o1, t}
  Applied = {o2}
  Programs <- MCPrograms
  Heaps <- MCHeaps
INVARIANTS
  TypeOK
  ScopeFound
  Enumerates
PROPERTIES
  InputsKept
  Returns
CHECK_DEADLOCK FALSE
