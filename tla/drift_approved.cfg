SPECIFICATION Spec
CONSTANTS
  r1 = r1
  d1 = d1
  m1 = m1
  a1 = a1
  Runs = {r1}
  Deciders = {d1}
  Mergers = {m1}
  Approvers = {a1}
  Sessions = {r1, d1, m1}
  ResumeKeys = {"k1"}
  ResumeTargets = {"DRAFT", "REVIEWING", "REVIEWED", "FIXING", "TESTING", "PENDING_APPROVAL", "REJECTED", "FAILED"}
  MaxCrashes = 0
INVARIANTS
  DriftNeverApproved
