SPECIFICATION FairSpec
CONSTANTS
  o1 = o1
  n1 = n1
  n2 = n2
  n3 = n3
  n4 = n4
  n5 = n5
  s = s
  t = t
  zero = zero
  Zero = zero
  Binding = {0, 1, 2, 3}
  Inputs = {0}
  Attribute = {"a", "b"}
  Value <- MCValue
  Object <- MCObject
  tupleItems <- MCTupleItems
  IdSequence <- MCIdSequence
  Leftover = {o1, s}
  Changes <- MCChanges
  Needed <- MCNeeded
  Systems <- MCSystems
  Heaps <- MCHeaps
  Arguments <- MCArguments
  Limits <- MCLimits
INVARIANTS
  TypeOK
  WithinLimits
PROPERTIES
  FiresAsPromised
  Returns
CHECK_DEADLOCK FALSE
