SPECIFICATION Spec
CONSTANTS
  r1 = r1
  r2 = r2
  r3 = r3
  r4 = r4
  k1 = k1
  k2 = k2
  Request = {r1, r2, r3, r4}
  Key = {k1, k2}
  KeyOf <- SharedKey
  Payload <- SamePayload
  MayLeave = {r1, r2}
  JsonBytes = {1}
  MayBeEmpty = FALSE
  MaxResponse = 2
  MaxBytes = 2
  MaxEntries = 2
  Lifetime = 1
  MaxTime = 0
CHECK_DEADLOCK FALSE
INVARIANT NoConcurrentExecution
