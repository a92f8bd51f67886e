SPECIFICATION Spec
SYMMETRY Symmetry
CONSTANTS
  r1 = r1
  r2 = r2
  d1 = d1
  m1 = m1
  a1 = a1
  Runs = {r1, r2}
  Deciders = {d1}
  Mergers = {m1}
  Approvers = {a1}
  Sessions = {r1, r2, d1, m1}
  ResumeKeys = {"k1"}
  ResumeTargets = {"REVIEWING", "FIXING", "TESTING", "PENDING_APPROVAL"}
  MaxCrashes = 0
INVARIANTS
  OneExecution
PROPERTIES
  ReviewedNeedsBoth
  ResultStands
  NoStaleDecision
  LegalMoves
  GateBeforeApproval
  ImplementsLifecycle
