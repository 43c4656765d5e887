SPECIFICATION Spec
CONSTANTS
  MaxId = 1
  Names = {n, m}
  Data = {"symbol"}
  Tuples = {}
  Missing = Missing
  MaxDepth = 2
  MaxValues = 2
  MaxClones = 0
PROPERTIES
  EditsAsPromised
