SPECIFICATION FairSpec
CONSTANTS
  r1 = r1
  Runs = {r1}
  Deciders = {}
  Mergers = {}
  Approvers = {}
  Sessions = {r1}
  ResumeKeys = {}
  ResumeTargets = {"DRAFT", "REVIEWING", "REVIEWED", "FIXING", "TESTING", "PENDING_APPROVAL", "REJECTED", "FAILED"}
  MaxCrashes = 0
PROPERTIES
  GateFailureReachesHuman
