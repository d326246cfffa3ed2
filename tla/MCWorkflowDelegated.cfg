SPECIFICATION Spec
CONSTANTS
  v = v
  w = w
  a = a
  b = b
  c = c
  Workflow = {v}
  Node = {a, b, c}
  Of <- OneOf
  Needs <- AfterA
  Width = 2
  MaxReplays = 1
  Agent = {b}
  Capacity = 1
  MaxOthers = 1
  MaxCrashes = 1
INVARIANT PutOffIsTriedAgain
CHECK_DEADLOCK FALSE
