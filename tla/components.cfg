SPECIFICATION ComponentsSpec
CONSTANTS
  Parts = {"exchange", "events", "scheduling", "tools", "branch", "sandbox", "planning", "impact", "input"}
  x1 = x1
  x2 = x2
  t1 = t1
  Threads = {x1, x2}
  Trackers = {t1}
  MaxAgentCrashes = 1
  MaxCancels = 1
  w1 = w1
  w2 = w2
  Writers = {w1, w2}
  MaxEvents = 4
  PageLimit = 3
  MaxPolls = 1
  MaxDrops = 1
  TaskCount = 2
  Slots = {1, 2}
  Limit = 1
  AutoFix = FALSE
  RecoverLimits = {1, 2}
  MaxRequests = 2
  MaxRestarts = 1
  CallingAgents = {"fix-agent", "verify-agent"}
  ToolsCalled = {"read_file", "run_tests", "no_such_tool"}
  CallParams = {"p", "bad"}
  CallLimit = 3
  LoopLimit = 3
  MaxExecutions = 2
  MaxCalls = 4
  m1 = m1
  m2 = m2
  m3 = m3
  Writes = {m1, m2, m3}
  MaxBreaks = 2
  MaxVerifies = 2
  MaxFaults = 1
  LineCount = 5
  LineKinds = {"header", "os", "text", "secret", "call", "odd secret"}
  FindingLimit = 3
  FileLimit = 1
  OtherFiles = 1
  FileCount = 4
  RiskyFiles = {4}
  LowFiles = 1
  ThresholdFiles = 2
  MaxChanged = 3
  EditLength = 3
  Contents = {"plain", "dashes", "pluses", "secret", "sql both"}
INVARIANTS
  RestartResumes
  RecoveryStopsAtReviewed
  CallsContained
  PatchOnTaskBranch
  SufficientIsEarned
  NothingLeftBehind
  MissByOne
  FindingsTrue
PROPERTIES
  EveryTrackerEnds
  OrderedBelowLimit
  EverySeenOrLost
  StreamEnds
  QueuedRuns
  VerificationEnds
  RiskNeverFalls
CHECK_DEADLOCK FALSE
