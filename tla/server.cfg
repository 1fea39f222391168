SPECIFICATION FairSpec
CONSTANTS
  Requests = {r1, r2}
  Emails = {e1, e2}
  Ips = {i1}
  Max <- MCMax
  Window <- MCWindow
  Capacity = 1
  Signals = {SIGTERM, SIGINT}
  ForceAfter = 2
INVARIANTS
  GuessesAreCapped
  ShutdownIsOrderly
PROPERTY
  LockoutEnds
