\* SQLite: every operation, one key with two source assets, two clients, two
\* insertions; the readiness of one of the assets may be lost again.
CONSTANTS
  Keys = {k1}
  Clients = {c1, c2}
  SingleConnection = TRUE
  MaxLives = 2
  None = None
  Ops = {"post", "publish", "submit", "approve", "reject", "archive", "review", "factory", "risk", "score", "poc", "delete", "purge"}
  Posted <- OneRow
  Assets = 2
  Volatile <- Lapsing
SPECIFICATION Spec
SYMMETRY Symmetry
INVARIANT OneLife
INVARIANT RetiredStaysGone
PROPERTY PublishIsGated
CHECK_DEADLOCK FALSE
