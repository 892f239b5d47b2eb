SPECIFICATION ThreadsRun
CHECK_DEADLOCK FALSE
CONSTANTS
  MaxStarts = 2
INVARIANTS
  SavedAsSaid
  NothingIsLeftRunning
PROPERTIES
  SheetGetsAVerdict
  ReplacedFlowStops
