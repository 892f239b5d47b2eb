SPECIFICATION FairTuiSpec
CHECK_DEADLOCK FALSE
CONSTANTS
  Layouts <- LayoutsMC
  Primaries <- PrimariesMC
  MaxEdits = 1
  MaxSaves = 1
  MaxTogether = 2
  MaxRefreshes = 2
  MaxScans = 2
INVARIANTS
  TabsAreCurrent
  ScanIsTheNewest
PROPERTIES
  PendingEditIsFollowed
