SPECIFICATION Spec
CONSTANTS
  File = {profile, memory}
  Profile = profile
  Nothing = Nothing
  EditsAt <- Everywhere
  FailsIn <- BeforeComplete
  RollbackFails = TRUE
  MaxOps = 2
  MaxCrashes = 0
  MaxFailures = 2
  MaxEdits = 0
CHECK_DEADLOCK FALSE
INVARIANT CompletedIsTerminal
