SPECIFICATION BackendSpec
CONSTANTS
  r1 = r1
  r2 = r2
  k1 = k1
  b1 = b1
  Orders = {r1, r2}
  Kinds = {"completed_paid", "completed_unpaid", "async_succeeded", "async_failed", "refunded", "partially_refunded", "unhandled", "expired"}
  OtherTimes = {"open", "unpaid", "paid", "failed", "expired", "refunded"}
  Key <- OneKey
  Body <- OneBody
  NoKey = NoKey
  NoOrder = NoOrder
  Attempts = 1
  Handlers = {h1}
  RequestTimeout = 1
  StaleAfter = 1
  MaxFaults = 1
  Mispriced = {r2}
  NoEvent = NoEvent
  Half = 8
  MaxUnit = 7
  MaxQuantity = 3
  MaxItems = 3
INVARIANTS
  BackendTypeOK
  LiveOrdersFollowStripe
  PaidAmountIsExact
PROPERTIES
  CanceledIsFinal
  ProcessingTakesEffect
  CanceledTakesNothing
