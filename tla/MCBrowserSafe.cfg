SPECIFICATION BrowserSpec
CONSTANTS
  r1 = r1
  r2 = r2
  r3 = r3
  r4 = r4
  k1 = k1
  k2 = k2
  b1 = b1
  p1 = p1
  p2 = p2
  p3 = p3
  Orders = {r1, r2, r3, r4}
  Effects = {p1, p2, p3}
  Kinds = {"completed_paid", "completed_unpaid", "async_succeeded", "expired"}
  OtherTimes = {}
  Key <- TwoKeys
  Body <- OneBody
  NoKey = NoKey
  NoOrder = NoOrder
  Attempts = 1
  MaxTries = 2
  MaxPolls = 1
  MaxFaults = 1
SYMMETRY TabSymmetry
INVARIANTS
  BrowserTypeOK
  OneOffer
  PagesWork
  LonePageConfirms
  ConfirmationIsTrue
CHECK_DEADLOCK FALSE
