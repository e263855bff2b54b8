\* One query, with other requests writing between its statements.
SPECIFICATION Spec
CONSTANTS
  RolesOf <- MCRolesOf
  Datasets <- MCDatasets
  FilterData <- MCFilterData
  Requests <- MCRequests
  Databases <- MCDatabases
  Rows <- MCRows
  DefaultLimit = 2
  MaxWrites = 2
  MaxFaults = 1
  MaxDepth = 6
CHECK_DEADLOCK FALSE
INVARIANTS
  AnswerIsSound
  AnswerIsComplete
  PageIsExact
  DescentEnds
