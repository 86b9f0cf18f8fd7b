SPECIFICATION BackendSpec
CONSTANTS
  r1 = r1
  r2 = r2
  k1 = k1
  b1 = b1
  Orders = {r1, r2}
  Kinds = {"completed_paid", "expired"}
  OtherTimes = {}
  Key <- OneKey
  Body <- OneBody
  NoKey = NoKey
  NoOrder = NoOrder
  Attempts = 3
  Handlers = {h1}
  RequestTimeout = 2
  StaleAfter = 3
  MaxFaults = 3
  Mispriced = {}
  NoEvent = NoEvent
  Half = 8
  MaxUnit = 7
  MaxQuantity = 3
  MaxItems = 1
PROPERTIES
  NoDowngrade
