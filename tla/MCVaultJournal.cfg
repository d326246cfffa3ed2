SPECIFICATION Spec
CONSTANTS
  File = {profile, memory}
  Profile = profile
  Nothing = Nothing
  EditsAt <- Everywhere
  FailsIn <- BeforeComplete
  RollbackFails = FALSE
  MaxOps = 2
  MaxCrashes = 2
  MaxFailures = 1
  MaxEdits = 0
CHECK_DEADLOCK FALSE
INVARIANTS
  AllAgree
PROPERTIES
  ImplementsAtomicVault
