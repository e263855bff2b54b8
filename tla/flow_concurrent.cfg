\* Two handlers, one instance or two, crashes, failures of Redis and of saves.
SPECIFICATION Spec
CONSTANTS
  r1 = r1
  r2 = r2
  Instance = {i1, i2}
  Handler = {h1, h2}
  Flow = {"lookup"}
  Node <- MCNode
  Kind <- MCKind
  Edge <- MCEdge
  Start <- MCStart
  MainSource <- MCMainSource
  KeySource <- MCKeySource
  Row = {r1, r2}
  ClientRsp <- EmptyBodies
  ServiceRsp <- RowResults
  MaxOpenConns = 2
  Cap = 1
  Faults = {"crash", "redis", "save"}
  NoNode = NoNode
  NoFlow = NoFlow
  Absent = Absent
  NoRsp = NoRsp
  NoList = NoList
  NilList = NilList
CHECK_DEADLOCK FALSE
SYMMETRY Symmetry
INVARIANTS
  TypeOK
  ExecutionFollowsGraph
  RecordedImpliesDone
  KnownIsStored
  NoForeignRows
