SPECIFICATION FairSpec
CONSTANTS
  r1 = r1
  r2 = r2
  r3 = r3
  r4 = r4
  k1 = k1
  k2 = k2
  Request = {r1, r2, r3, r4}
  Key = {k1, k2}
  KeyOf <- SharedKey
  Payload <- OtherPayload
  MayLeave = {r1, r4}
  JsonBytes = {1, 3}
  MayBeEmpty = TRUE
  MaxResponse = 2
  MaxBytes = 1
  MaxEntries = 1
  Lifetime = 0
  MaxTime = 1
CHECK_DEADLOCK FALSE
INVARIANTS
  ReplayIsOfTheSameRequest
PROPERTIES
  NothingStaleReplayed
  WaitersAreServed
