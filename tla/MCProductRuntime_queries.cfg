CONSTANTS
  Clients = {c1, c2}
  Admins = {a1, a2}
  p1 = p1
  p2 = p2
  Products = {p1, p2}
  Contracts = {k1, k2}
  Grants = {g1, g2}
  Sensitive = {p1}
  Limits = {0, 1}
  Offered <- Posted
  MaxTracked = 0
  LastMinute = 1
  Budgets <- Mixed
  None = None
SYMMETRY Symmetry
SPECIFICATION Spec
INVARIANT TypeOK
INVARIANT ServedInForce
INVARIANT DenialIsJust
INVARIANT MeterMatches
PROPERTY LimitIsKept
CHECK_DEADLOCK FALSE
