SPECIFICATION FairSpec
CONSTANTS
  Message = {1, 2}
  Reminder = {1, 2}
  Nothing = Nothing
  Parts = 1
  MaxClaims = 1
  MaxGeneration = 1
  MaxTime = 2
  Lead = 1
  Interval = 1
  Quiet = {1}
  Selected = {"desktop"}
  MaxAttempts = 2
  MaxRevision = 1
  MaxOperations = 1
  MaxCrashes = 1
INVARIANTS ProcessingIsUnderWay
PROPERTIES RowIsSettled
CHECK_DEADLOCK FALSE
