SPECIFICATION Spec
CONSTANTS
  File = {profile, memory}
  Profile = profile
  Nothing = Nothing
  EditsAt <- Everywhere
  FailsIn <- MutationSteps
  RollbackFails = FALSE
  MaxOps = 1
  MaxCrashes = 0
  MaxFailures = 1
  MaxEdits = 0
CHECK_DEADLOCK FALSE
INVARIANT AllAgree
