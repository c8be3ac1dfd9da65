\* One stop, crash or pod replacement, nothing else.
CONSTANTS
  Objects = {1}
  Other = 0
  QueueSize = 1
  MaxBatch = 2
  MaxWrites = 3
  Budgets <- OneDeath
SPECIFICATION Spec
INVARIANT InSync
CHECK_DEADLOCK FALSE
