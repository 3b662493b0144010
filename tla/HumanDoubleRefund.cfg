SPECIFICATION Spec
CONSTANTS
  Assignments = {a1, a2, a3}
  Workers = {w1, w2}
  Answers = {x}
  EmptyAnswer = empty
  None = none
  Required = 2
  Strategy = "any_first"
  Scheduled = FALSE
  Sessions = {s1, s2}
SYMMETRY Symmetry
CHECK_DEADLOCK FALSE
INVARIANTS
  RefundedAtMostOnce
