SPECIFICATION Spec
CONSTANTS
  MaxId = 2
  Names = {n}
  Data = {"symbol"}
  Tuples = {{1, 2}}
  Missing = Missing
  MaxDepth = 2
  MaxValues = 1
  MaxClones = 0
INVARIANTS
  TypeOK
  Fresh
PROPERTIES
  AbstractSpec
  AllOrNothing
