SPECIFICATION Spec
SYMMETRY Symmetry
CONSTANTS
  x1 = x1
  x2 = x2
  t1 = t1
  t2 = t2
  Threads = {x1, x2}
  Trackers = {t1, t2}
  MaxAgentCrashes = 1
  MaxCancels = 1
INVARIANTS
  TypeOK
  OneInstance
  ExecutedOncePerLife
  RetryReconciled
  CompletedIsRemote
PROPERTIES
  ImplementsLocal
  ImplementsRemote
CHECK_DEADLOCK FALSE
