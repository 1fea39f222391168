SPECIFICATION FairSpec
CONSTANTS
  Takers = {t1, t2, t3}
  Capacity = 12
  Refill = 3
  TokenCost = 4
  MaxSpan = 9
INVARIANTS
  RateIsLimited
  SleepsOnlyAsNecessary
PROPERTIES
  WaitersDrain
