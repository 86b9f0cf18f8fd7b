SPECIFICATION FairSpec
CONSTANTS
  Orders = {o1}
  Kinds = {"completed_paid"}
  OtherTimes = {}
  Handlers = {h1}
  RequestTimeout = 2
  StaleAfter = 3
  MaxFaults = 1
  Mispriced = {}
  NoEvent = NoEvent
PROPERTIES
  ReceivedMovesOn
