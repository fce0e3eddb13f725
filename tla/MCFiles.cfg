CONSTANTS
  Ids = {p1, p2, p3}
  MaxRev = 1
  MaxStoreOps = 5
  Callers = {c1, c2}
  Keys = {k1, k2}
  Values = {v1, v2}
  MaxEdits = 3
  MaxSize = 4
  FileLimits = {0, 3}
  MaxTotal = 11
  tailWindow = 6
  Sizes = {1, 3}
  MaxLines = 7
  Holdable = {0, 2}
SPECIFICATION Spec
CHECK_DEADLOCK FALSE
INVARIANTS StoreMatchesDisk SavesSurvive LogKeepsTheEnd
