SPECIFICATION Spec
CONSTANTS
  p1 = p1
  p2 = p2
  a1 = a1
  a2 = a2
  b1 = b1
  Procs = {p1, p2}
  NoOne = NoOne
  Logins = {a1, a2, b1}
  AccountOf <- Accounts
  First = a1
  Ttl = 1
  MaxStale = 1
  Backoff = 1
  MaxTokens = 1
  MaxDeaths = 1
SYMMETRY Symmetry
VIEW WithoutOut
INVARIANTS
  RotatedIsKept
