SPECIFICATION AccountsSpec
CONSTANTS
  e1 = e1
  e2 = e2
  address = address
  Calls = {c1, c2, c3, c4}
  Emails = {e1, e2}
  Address <- OneAddress
  Passwords = {w1, w2}
  Nothing = Nothing
  MaxFailures = 1
SYMMETRY CallSymmetry
INVARIANTS
  AccountsTypeOK
  OneAccountPerAddress
  TokenChangesOnce
  ResetEndsSessions
  SignedOutIsOver
CHECK_DEADLOCK FALSE
