SPECIFICATION FairSpec
CONSTANTS
  listKey = listKey
  otherKey = otherKey
  genresKey = genresKey
  detailKey = detailKey
  None = None
  Instances = {i1}
  Keys = {listKey, genresKey}
  Callers = {c1, c2}
  Loads = {p1, p2}
  Ttl <- MCTtl
  Swr <- MCSwr
  Sie <- MCSie
  DefaultStaleIfError <- MCDefaultStaleIfError
  L1Max = 1
  MaxTime = 4
  MaxWrites = 1
PROPERTIES
  EveryRequestIsAnswered
  ImplementsContract
