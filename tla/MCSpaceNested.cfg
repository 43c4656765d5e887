SPECIFICATION Spec
CONSTANTS
  MaxId = 1
  Names = {n}
  Data = {"symbol"}
  Tuples = {}
  Missing = Missing
  MaxDepth = 3
  MaxValues = 1
  MaxClones = 1
PROPERTIES
  AbstractSpec
  AllOrNothing
