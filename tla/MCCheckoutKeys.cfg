SPECIFICATION CheckoutSpec
CONSTANTS
  r1 = r1
  r2 = r2
  r3 = r3
  k1 = k1
  b1 = b1
  b2 = b2
  Orders = {r1, r2, r3}
  Kinds = {"completed_paid", "expired"}
  OtherTimes = {}
  Key <- OneKey
  Body <- TwoBodies
  NoKey = NoKey
  NoOrder = NoOrder
  Attempts = 3
  MaxFaults = 3
SYMMETRY TwinSymmetry
INVARIANTS
  CheckoutTypeOK
  OneLiveOrderPerKey
  ShownIsRecorded
  FaultFreeIsExactlyOnce
PROPERTIES
  ImplementsPurchaseKeys
CHECK_DEADLOCK FALSE
