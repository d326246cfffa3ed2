SPECIFICATION Spec
CONSTANTS
  File = {profile, memory}
  Profile = profile
  Nothing = Nothing
  EditsAt <- Everywhere
  FailsIn <- BeforeComplete
  RollbackFails = FALSE
  MaxOps = 1
  MaxCrashes = 1
  MaxFailures = 0
  MaxEdits = 0
CHECK_DEADLOCK FALSE
INVARIANT RecoverySucceeds
