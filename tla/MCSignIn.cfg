SPECIFICATION SignInSpec
CONSTANTS
  a = a
  b = b
  Calls = {c1, c2, c3, c4}
  Emails = {a, b}
  Address <- OwnAddress
  Known = {a}
  Passwords = {w1}
  Nothing = Nothing
  MaxFailures = 1
SYMMETRY CallSymmetry
INVARIANTS
  SignInTypeOK
  OneAccountAtATime
  SignedOutForGood
CHECK_DEADLOCK FALSE
