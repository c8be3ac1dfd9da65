CONSTANTS
  x = x
  A = A
  B = B
  Collectors = {c1}
  Objects = {a, b}
  Kinds = {A, B}
  KindOf <- Sorts
  Targets <- Order
  Optional = {B}
  Specs = {s1, s2}
  Budgets <- Undisturbed
  Agent = agent
  None = None
SPECIFICATION Spec
INVARIANT EveryChangeIsRecorded
CHECK_DEADLOCK FALSE
