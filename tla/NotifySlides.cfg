SPECIFICATION Spec
CHECK_DEADLOCK FALSE
CONSTANTS
  Procs = {p1, p2}
  Windows = {"session", "weekly"}
  Credits = {"credit"}
  Entry <- EntryMC
  Regen = {"weekly"}
  Silent = {}
  Rolling = {"session"}
  Levels <- LevelsMC
  Start <- StartMC
  Threshold = 3
  Hysteresis = 1
  Tolerance = 3
  Span = 10
  Step = 2
  MaxChanges = 2
  MaxCrashes = 1
INVARIANTS
  NeverFiresTwice
