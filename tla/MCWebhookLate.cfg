SPECIFICATION FairSpec
CONSTANTS
  Orders = {o1}
  Kinds = {"completed_unpaid", "async_failed"}
  OtherTimes = {}
  Handlers = {h1}
  RequestTimeout = 2
  StaleAfter = 3
  MaxFaults = 0
  Mispriced = {}
  NoEvent = NoEvent
PROPERTIES
  LateNoticeIsAbsorbed
