SPECIFICATION Spec
CONSTANTS
  Browsers = {b1, b2}
  Users = {u1}
  Movies = {m1}
  Ids = {i1, i2, i3}
  Tokens = {t1, t2}
  Requests = {r1, r2}
  None = None
SYMMETRY Interchangeable
INVARIANTS
  TypeOK
  FilmsComeFromTheirOwner
  CurrentClaimCommits
  OwnerIsKnown
PROPERTIES
  ClaimSparesOtherDevices
  CurrentClaimMerges
