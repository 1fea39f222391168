SPECIFICATION FairSpec
CONSTANTS
  Requests = {r1, r2}
  MaxAttempts = 3
  AttemptTimeout = 2
  TotalBudget = 4
  Backoffs <- MCBackoffs
  RetryAfters <- MCRetryAfters
  FailureThreshold = 2
  OpenDuration = 10
INVARIANTS
  GateReopens
  RecoveringHostIsSpared
PROPERTIES
  NoAttemptStartsLate
  DrivesBreaker
