CONSTANTS
  x = x
  y = y
  v1 = v1
  v2 = v2
  s1 = s1
  s2 = s2
  Clients = {c1, c2}
  Keys = {x, y}
  Values = {v1, v2}
  Env <- AllV1
  Sets = {s1, s2}
  Proposed <- Both
  Budgets <- Mixed
  None = None
SYMMETRY Symmetry
SPECIFICATION Spec
INVARIANT TypeOK
INVARIANT ApprovedFirst
INVARIANT AppliedInFull
INVARIANT RollbackRestores
CHECK_DEADLOCK FALSE
