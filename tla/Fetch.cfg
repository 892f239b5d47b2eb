SPECIFICATION Spec
CONSTANTS
  p1 = p1
  p2 = p2
  alice = alice
  Procs = {p1, p2}
  NoOne = NoOne
  Logins = {alice}
  Desktop = TRUE
  Ttl = 1
  MaxStale = 1
  Backoff = 2
  MaxRotations = 1
SYMMETRY Symmetry
INVARIANTS
  NoNeedlessRequest
  HonestOutcome
PROPERTIES
  RotatesInTurn
