SPECIFICATION PlanningSpec
CONSTANTS
  LineCount = 4
  LineKinds = {"header", "os", "blank", "text", "secret", "odd secret"}
  FindingLimit = 3
  FileLimit = 1
  OtherFiles = 1
INVARIANTS
  OnlyFoundLines
CHECK_DEADLOCK FALSE
