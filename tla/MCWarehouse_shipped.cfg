\* Two days of retention and one of rollups; requests and queries apart.
CONSTANTS
  Admins = {a1}
  Wide = {0, 2}
  PerDay = 2
  LastDay = 2
  RollupDays = 0
  SinkDays = 1
  RequestDays = 2
  Backfill = 3
  Limit = 1
  Setups <- Mixed
  None = None
SPECIFICATION Spec
INVARIANT TypeOK
INVARIANT PurgedIsCounted
INVARIANT NothingLeftBehind
INVARIANT OnceEach
PROPERTY SumsSurvive
PROPERTY Settles
PROPERTY Ships
CHECK_DEADLOCK FALSE
