CONSTANTS
  x = x
  A = A
  B = B
  Collectors = {c1, c2}
  Objects = {a, x}
  Kinds = {A, B}
  KindOf <- Sorts
  Targets <- Order
  Optional = {B}
  Specs = {s1, s2}
  Budgets <- Mixed
  Agent = agent
  None = None
SYMMETRY Symmetry
SPECIFICATION Spec
INVARIANT TypeOK
INVARIANT SnapshotIsExact
INVARIANT RevisionsFollow
CHECK_DEADLOCK FALSE
