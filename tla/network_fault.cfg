SPECIFICATION Spec
CONSTANTS
  x1 = x1
  t1 = t1
  Threads = {x1}
  Trackers = {t1}
  MaxAgentCrashes = 0
  MaxCancels = 0
INVARIANTS
  RunSettlesChild
CHECK_DEADLOCK FALSE
