CONSTANTS
  x = x
  y = y
  v1 = v1
  v2 = v2
  Pods = {q1}
  Keys = {x, y}
  Values = {v1, v2}
  Before = {v1}
  Admins = {a1, a2}
  Requests <- Asked
  Budgets <- Mixed
  None = None
SPECIFICATION Spec
INVARIANT TypeOK
INVARIANT NeverBehindItsToken
PROPERTY Converges
CHECK_DEADLOCK FALSE
