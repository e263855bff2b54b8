SPECIFICATION Spec
CONSTANTS
  p1 = p1
  p2 = p2
  c1 = c1
  c2 = c2
  k1 = k1
  k2 = k2
  a = a
  b = b
  Nothing = Nothing
  Parents = {p1, p2}
  Under <- MCUnder
  Texts = {a, b}
  Rows <- MCRows
  Keys = {k1, k2}
  MaxEdits = 3
  MaxSaves = 2
  MaxOthers = 1
  MaxReloads = 1
  MaxSearches = 1
CHECK_DEADLOCK FALSE
INVARIANTS UpdateIsDifference SavedAsShown ChildOfParent
