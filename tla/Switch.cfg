SPECIFICATION TriedSpec
CONSTANTS
  p1 = p1
  p2 = p2
  work = work
  home = home
  Stranger = stranger
  None = none
  Procs = {p1, p2}
  Accounts = {work, home}
  Crashes = TRUE
  Rivals = {}
  MaxFaults = 3
  MaxTokens = 2
  SentKeys = {"typed"}
  UserKeys = {"own"}
  GoodKeys = {"typed", "own"}
  OnByDefault = FALSE
  MaxSends = 2
  MaxOthers = 1
SYMMETRY Symmetry
INVARIANTS
  EveryLoginKeptUntilMisled
  SlotsAndMarkersAgree
  RefusedKeyIsNotKept
  SwitchIsNotPutBack
PROPERTIES
  RollBackRestores
  SavesOfOthersStay
