SPECIFICATION ImportSpec
CONSTANTS
  Caller = {c1, c2}
  MaxNumber = 2
  Id <- MCId
  Format <- MCFormat
  Nothing = Nothing
  File <- MCFile
  Like <- MCLike
  MaxImports = 2
  MaxFaults = 1
SYMMETRY Symmetry
CHECK_DEADLOCK FALSE
INVARIANT NoIDClash
PROPERTIES ImplementsIdSource ImportedAsRead
