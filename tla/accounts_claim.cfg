SPECIFICATION Spec
CONSTANTS
  Browsers = {b1}
  Users = {u1, u2}
  Movies = {m1}
  Ids = {i1, i2}
  Tokens = {t1}
  Requests = {r1, r2}
  None = None
PROPERTIES
  AccountKeepsFilms
