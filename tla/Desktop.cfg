SPECIFICATION DesktopSpec
CONSTANTS
  None = None
  Torn = Torn
  Absent = Absent
  Unknown = Unknown
  Accounts = {home, work}
  Owners = {home, work}
  Routines = {report}
  Chats = {chat}
  MaxTroubles = 1
  MaxSetbacks = 1
  MaxTokens = 4
  MaxEdits = 2
SYMMETRY Symmetry
INVARIANTS
  EveryLoginKept
  AppKeepsItsLogin
  FiledUnderItsOwn
  EndsWholeOrGoesBack
  NoEditIsLost
  DeletionsAreTheUsers
PROPERTIES
  TheNewestIsShown
