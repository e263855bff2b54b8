\* Two requests at a time: no session turns into another user's.
SPECIFICATION Spec
CONSTANTS
  d1 = d1
  d2 = d2
  u1 = u1
  u2 = u2
  admin = admin
  clerk = clerk
  guest = guest
  Db = {d1, d2}
  User = {u1, u2}
  Account <- TwoAccounts
  Roles = {admin, clerk, guest}
  RolesOf <- MCRolesOf
  Handler = {h1, h2}
  MaxSecond = 1
  Faults = {"redis"}
  Purpose = {"call", "logout"}
  SameSecond = FALSE
  None = None
CHECK_DEADLOCK FALSE
SYMMETRY Symmetry
INVARIANTS
  ServedAsOwner
  KeysAgree
PROPERTY
  EndedByOwner
