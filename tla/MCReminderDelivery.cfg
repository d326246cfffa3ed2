SPECIFICATION Spec
CONSTANTS
  Message = {1, 2}
  Reminder = {1, 2}
  Nothing = Nothing
  Parts = 1
  MaxClaims = 2
  MaxGeneration = 2
  MaxTime = 2
  Lead = 0
  Interval = 1
  Quiet = {}
  Selected = {"im"}
  MaxAttempts = 1
  MaxRevision = 1
  MaxOperations = 2
  MaxCrashes = 1
INVARIANTS WaitingIsWanted UnsentIsWanted DeliveryIsRetained DeliveredWasTaken
CHECK_DEADLOCK FALSE
