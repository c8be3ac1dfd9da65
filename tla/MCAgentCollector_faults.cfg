\* A death and an error, or a compaction and a half-applied event.
CONSTANTS
  Objects = {1, 2}
  Other = 0
  QueueSize = 1
  MaxBatch = 2
  MaxWrites = 3
  Budgets <- Faulty
SPECIFICATION FairSpec
INVARIANT NothingSkipped
INVARIANT InOrder
INVARIANT Converged
PROPERTY CatchesUp
CHECK_DEADLOCK FALSE
