SPECIFICATION Spec
CONSTANTS
  Message = {1, 2, 3}
  Reminder = {1, 2, 3}
  Nothing = Nothing
  Parts = 1
  MaxClaims = 2
  MaxGeneration = 2
  MaxTime = 3
  Lead = 0
  Interval = 1
  Quiet = {}
  Selected = {"im"}
  MaxAttempts = 1
  MaxRevision = 1
  MaxOperations = 2
  MaxCrashes = 0
INVARIANT RecurrenceGoesOn
CHECK_DEADLOCK FALSE
