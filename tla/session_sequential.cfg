\* The life of a session, one request at a time: keys may expire, logins share seconds.
SPECIFICATION Spec
CONSTANTS
  d1 = d1
  d2 = d2
  u1 = u1
  u2 = u2
  admin = admin
  clerk = clerk
  guest = guest
  Db = {d1, d2}
  User = {u1, u2}
  Account <- TwoAccounts
  Roles = {admin, clerk, guest}
  RolesOf <- MCRolesOf
  Handler = {h1}
  MaxSecond = 1
  Faults = {"expire"}
  Purpose = {"call", "badbody", "logout"}
  SameSecond = TRUE
  None = None
CHECK_DEADLOCK FALSE
INVARIANTS
  LogoutIsFinal
  OneSession
  SessionLasts
