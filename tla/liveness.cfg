SPECIFICATION FairSpec
CONSTANTS
  r1 = r1
  r2 = r2
  Runs = {r1, r2}
  Deciders = {}
  Mergers = {}
  Approvers = {}
  Sessions = {r1, r2}
  ResumeKeys = {}
  ResumeTargets = {"DRAFT", "REVIEWING", "REVIEWED", "FIXING", "TESTING", "PENDING_APPROVAL", "REJECTED", "FAILED"}
  MaxCrashes = 0
PROPERTIES
  EveryRunEnds
  ReviewSettles
