SPECIFICATION Spec
CONSTANTS
  A = A
  B = B
  Bad = Bad
  X = X
  x = x
  Name = {A, B, Bad}
  Path = {A, B}
  Variable = {X, Bad}
  Ident = {X}
  RuleName = {"a", "b"}
  Texts <- MCTexts
  MaxInputs = 2
  MaxOwn = 1
  MaxSystems = 2
INVARIANTS
  TypeOK
  UniqueNames
  StorageFits
  PrefixLoaded
PROPERTIES
  LoadedOnce
