SPECIFICATION Spec
CONSTANTS
  File = {profile, memory}
  Profile = profile
  Nothing = Nothing
  EditsAt = {"down"}
  FailsIn <- BeforeComplete
  RollbackFails = FALSE
  MaxOps = 1
  MaxCrashes = 1
  MaxFailures = 0
  MaxEdits = 1
CHECK_DEADLOCK FALSE
INVARIANT ExternalEditsSurvive
