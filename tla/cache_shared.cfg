SPECIFICATION Spec
CONSTANTS
  listKey = listKey
  otherKey = otherKey
  genresKey = genresKey
  detailKey = detailKey
  None = None
  Instances = {i1, i2}
  Keys = {listKey}
  Callers = {c1, c2}
  Loads = {p1, p2, p3}
  Ttl <- MCTtl
  Swr <- MCSwr
  Sie <- MCSie
  DefaultStaleIfError <- MCDefaultStaleIfError
  L1Max = 1
  MaxTime = 5
  MaxWrites = 2
SYMMETRY Processes
INVARIANTS
  TypeOK
  SingleFlight
  WaitersAreServed
  FreshIsRecent
  StaleIsBounded
  LoadOnlyWhenExpired
  StaleIsBeingReplaced
PROPERTIES
  L1NeverGoesBack
