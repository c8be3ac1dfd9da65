\* Three requests on a channel of two; one death or file error; fair.
CONSTANTS
  Records = {r1, r2, r3}
  NoRecord = NoRecord
  BadLine = BadLine
  TornLine = TornLine
  QueueSize = 2
  MaxFaults = 1
SPECIFICATION FairSpec
INVARIANT CountersAddUp
INVARIANT NothingVanishes
PROPERTY LedgerSpec
PROPERTY Settles
PROPERTY StopReturns
CHECK_DEADLOCK FALSE
