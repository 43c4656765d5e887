SPECIFICATION FairSpec
CONSTANTS
  t1 = t1
  t2 = t2
  symbol = symbol
  Id = {1, 2, 3}
  Tuple = {t1, t2}
  Plain = {symbol}
  items <- MCItems
  Contents <- MCContents
  Roots <- MCRoots
INVARIANTS
  TypeOK
  OnlyReachable
  NoneMissed
PROPERTIES
  Exact
  Terminates
CHECK_DEADLOCK FALSE
