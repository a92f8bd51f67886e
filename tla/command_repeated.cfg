SPECIFICATION Spec
CONSTANTS
  w1 = w1
  a1 = a1
  x1 = x1
  Workers = {w1}
  Aggregates = {a1}
  Payloads = {x1}
  MaxExecutions = 2
  MaxCrashes = 1
INVARIANTS
  ExecutedOnce
