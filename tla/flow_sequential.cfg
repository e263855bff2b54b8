\* One request at a time, all flows, bodies and failures.
SPECIFICATION FairSpec
CONSTANTS
  r1 = r1
  r2 = r2
  Instance = {i1}
  Handler = {h1}
  Flow = {"approve", "direct", "twice", "keys", "broken", "headless"}
  Node <- MCNode
  Kind <- MCKind
  Edge <- MCEdge
  Start <- MCStart
  MainSource <- MCMainSource
  KeySource <- MCKeySource
  Row = {r1, r2}
  ClientRsp <- AllBodies
  ServiceRsp <- AllResults
  MaxOpenConns = 2
  Cap = 2
  Faults = {"crash", "redis", "save", "http", "expire"}
  NoNode = NoNode
  NoFlow = NoFlow
  Absent = Absent
  NoRsp = NoRsp
  NoList = NoList
  NilList = NilList
CHECK_DEADLOCK FALSE
INVARIANTS
  FormAnsweredOnlyIfAsked
  RepeatsPaidByFaults
PROPERTIES
  ProgressIsKept
  EveryRequestAnswered
