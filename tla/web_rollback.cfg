SPECIFICATION MCSpec
CONSTANTS
  f1 = f1
  f2 = f2
  Device = Device
  User = User
  Films = {f1, f2}
  MaxToggles = 2
  None = None
  Texts = {"", "a", "a ", "b"}
  Empty = ""
  Trim <- MCTrim
  Rests = {"none", "drama"}
  NoRest = "none"
  Delay = 2
  MaxChanges = 2
INVARIANT
  NeverAnothersList
SYMMETRY Renamings
CHECK_DEADLOCK FALSE
