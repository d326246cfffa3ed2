SPECIFICATION FairSpec
CONSTANTS
  Message = {e1}
  Nothing = Nothing
  Reminder = {}
  Parts = 2
  MaxClaims = 2
  MaxGeneration = 3
  MaxArrivals = 3
  MaxStarts = 2
  MaxCrashes = 2
INVARIANTS WorkedOnce DeliveredInFull
PROPERTIES EventIsSettled ReplyIsSettled ReceiptStopsSending
CHECK_DEADLOCK FALSE
