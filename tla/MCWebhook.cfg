SPECIFICATION FairSpec
CONSTANTS
  Orders = {o1}
  Kinds = {"completed_unpaid", "async_succeeded", "async_failed", "expired", "refunded", "unhandled"}
  OtherTimes = {"expired"}
  Handlers = {h1, h2}
  RequestTimeout = 2
  StaleAfter = 3
  MaxFaults = 1
  Mispriced = {}
  NoEvent = NoEvent
INVARIANTS
  WebhookTypeOK
  Inv
  OrdersFollowStripe
  ProcessedIsReflected
  AckedIsProcessed
  ClaimIsExclusive
PROPERTIES
  ProcessedIsFinal
  SettledIsFinal
  ImplementsLedger
  EventuallyProcessed
