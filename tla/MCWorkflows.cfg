SPECIFICATION FairSpec
CONSTANTS
  v = v
  w = w
  a = a
  b = b
  c = c
  Workflow = {v}
  Node = {a, b, c}
  Of <- OneOf
  Needs <- AfterA
  Width = 1
  MaxReplays = 1
  Agent = {b}
  Capacity = 1
  MaxOthers = 1
  MaxCrashes = 2
INVARIANTS WithinBudget DependenciesFirst EndsWithItsCommands
PROPERTY StartedEnds
CHECK_DEADLOCK FALSE
