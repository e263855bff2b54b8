CONSTANTS
  admin = admin
  clerk = clerk
  o1 = o1
  o2 = o2
  t1 = t1
  c1 = c1
  f1 = f1
  f2 = f2
  f3 = f3
  Users = {admin, clerk}
  Orders = {o1, o2}
  Tags = {t1}
  Children = {c1}
  Files = {f1, f2, f3}
  Requests = {r1, r2}
  Bodies <- MCBodies
  Start <- MCStart
  Filtered = {clerk}
  Reach <- MCReach
  Marks <- MCMarks
  FilterQueries = TRUE
  Conns = 2
  MaxRequests = 2
  MaxFaults = 1
  Absent = Absent
  NoVersion = NoVersion
SPECIFICATION Spec
INVARIANTS NoOrphans FilesMatchRows
PROPERTIES NoLostUpdate OthersRowsKept RequestsAnswered
CHECK_DEADLOCK FALSE
