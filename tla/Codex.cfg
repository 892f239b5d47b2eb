SPECIFICATION Spec
CONSTANTS
  s1 = s1
  home = home
  work = work
  Default = Default
  Absent = Absent
  A = A
  B = B
  Switchers = {s1}
  Fetchers <- UnnamedAndHome
  Accounts <- TwoAccounts
  LockOrder <- TwoAccountOrder
  Ids = {A, B}
  MaxTroubles = 1
  MaxRotations = 1
SYMMETRY Symmetry
INVARIANTS
  EveryLoginKept
  NothingIsLeftBehind
  TokensAreLive
PROPERTIES
  FigureIsTheirs
