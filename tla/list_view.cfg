SPECIFICATION Spec
CONSTANTS
  v1 = v1
  v2 = v2
  own = own
  user = user
  NoParams = NoParams
  Views <- MCViews
  First = v1
  Conds <- MCConds
  ViewFilter <- MCViewFilter
  Filters <- MCFilters
  Links <- MCLinks
  Pages <- MCPages
  MaxActs = 4
  MaxOpens = 2
  MaxOthers = 1
  MaxFaults = 1
CHECK_DEADLOCK FALSE
INVARIANTS ShownIsAsked BulkFromList
PROPERTY ListSettles
