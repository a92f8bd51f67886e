SPECIFICATION Spec
SYMMETRY Symmetry
CONSTANTS
  w1 = w1
  w2 = w2
  a1 = a1
  a2 = a2
  x1 = x1
  x2 = x2
  Workers = {w1, w2}
  Aggregates = {a1, a2}
  Payloads = {x1, x2}
  MaxExecutions = 2
  MaxCrashes = 1
INVARIANTS
  TypeOK
  OnceUnlessFailed
  AnswersAgree
  InProgressIsServed
