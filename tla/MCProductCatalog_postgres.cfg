\* PostgreSQL, fair: three clients on one key.
CONSTANTS
  Keys = {k1}
  Clients = {c1, c2, c3}
  Contents = {a, b}
  SingleConnection = FALSE
  MaxLives = 3
  None = None
SPECIFICATION FairSpec
INVARIANT LocksKeepTheirRow
PROPERTY TransactionsEnd
CHECK_DEADLOCK FALSE
