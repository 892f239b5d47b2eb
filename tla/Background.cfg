SPECIFICATION BackgroundSpec
CHECK_DEADLOCK FALSE
CONSTANTS
  NoOne = NoOne
  Procs = {p1, p2}
  Clis = {kimi}
  Stale = 2
  Heartbeat = 1
  MaxDeaths = 2
  MaxTokens = 3
  Binaries <- BinariesMC
  Platforms = {"windows", "macos", "scoop"}
  MaxVersion = 2
  MaxTroubles = 2
INVARIANTS
  LockExclusive
  WholeOrAsBefore
  HandedOffOnce
PROPERTIES
  RotatesInTurn
  AbandonedLockGoes
  NothingIsLost
  CheckIsAnswered
