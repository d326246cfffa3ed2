SPECIFICATION Spec
CONSTANTS
  v = v
  w = w
  a = a
  b = b
  c = c
  Workflow = {v, w}
  Node = {a, b, c}
  Of <- TwoOf
  Needs <- AfterA
  Width = 1
  MaxReplays = 1
  Agent = {b}
  Capacity = 1
  MaxOthers = 0
  MaxCrashes = 1
INVARIANTS TypeOK WithinBudget DependenciesFirst NothingForgotten EndsWithItsCommands
CHECK_DEADLOCK FALSE
