SPECIFICATION FairSpec
CONSTANTS
  Message = {1}
  Reminder = {1}
  Nothing = Nothing
  Parts = 1
  MaxClaims = 3
  MaxGeneration = 1
  MaxTime = 1
  Lead = 0
  Interval = 0
  Quiet = {}
  Selected = {"im"}
  MaxAttempts = 3
  MaxRevision = 0
  MaxOperations = 0
  MaxCrashes = 1
PROPERTIES ReceiptIsConsulted
CHECK_DEADLOCK FALSE
