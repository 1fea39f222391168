SPECIFICATION FairSpec
CONSTANTS
  Calls = {c1, c2, c3}
  FailureThreshold = 2
  OpenDuration = 3
INVARIANTS
  ShutGateHasProbe
  ClosedBelowThreshold
  ProbesAreAPeriodApart
  HalfOpenMeetsOneRecentCall
PROPERTIES
  AlwaysAdmitsAgain
