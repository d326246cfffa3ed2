SPECIFICATION FairSpec
CONSTANTS
  File = {profile, memory}
  Profile = profile
  Nothing = Nothing
  EditsAt <- Everywhere
  FailsIn <- BeforeComplete
  RollbackFails = TRUE
  MaxOps = 2
  MaxCrashes = 1
  MaxFailures = 2
  MaxEdits = 1
CHECK_DEADLOCK FALSE
INVARIANTS
  StateDescribesProjection
PROPERTIES
  StartEnds
