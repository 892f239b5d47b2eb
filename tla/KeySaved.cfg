SPECIFICATION KeySpec
CHECK_DEADLOCK FALSE
CONSTANTS
  SentKeys = {"typed"}
  UserKeys = {"own"}
  GoodKeys = {"typed", "own"}
  OnByDefault = FALSE
  MaxSends = 1
  MaxOthers = 1
PROPERTIES
  SavedKeyStaysOn
