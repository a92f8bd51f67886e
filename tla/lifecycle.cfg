SPECIFICATION Spec
SYMMETRY Symmetry
CONSTANTS
  r1 = r1
  d1 = d1
  d2 = d2
  m1 = m1
  m2 = m2
  a1 = a1
  a2 = a2
  Runs = {r1}
  Deciders = {d1, d2}
  Mergers = {m1, m2}
  Approvers = {a1, a2}
  Sessions = {r1, d1, d2, m1, m2}
  ResumeKeys = {"k1"}
  ResumeTargets = {"DRAFT", "REVIEWING", "REVIEWED", "FIXING", "TESTING", "PENDING_APPROVAL", "REJECTED", "FAILED"}
  MaxCrashes = 1
INVARIANTS
  TypeOK
  OneIntentPerVersion
  BranchNeedsApproval
  MergedIsWritten
  RejectionIsFinal
