SPECIFICATION Spec
CONSTANTS
  IntBits = 5
  Precision = 3
  Exponents = 3
  Value <- MCValue
INVARIANTS
  Ordered
  SameResults
  PatternsAgree
CHECK_DEADLOCK FALSE
