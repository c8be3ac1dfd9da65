\* Three requests, one with rows for two tables, an event and two replays.
CONSTANTS
  r1 = r1
  r2 = r2
  r3 = r3
  e1 = e1
  Records = {r1, r2, r3}
  Events = {e1}
  LoopTables <- InOrder
  EventTables = {"event"}
  RowsOf <- Rows
  Admins = {a1, a2}
  QueueSize = 1
  BatchSize = 2
  Confs <- Some
  Budgets <- Mixed
  None = None
SPECIFICATION Spec
INVARIANT Accounted
INVARIANT OnceEach
PROPERTY Shipped
CHECK_DEADLOCK FALSE
