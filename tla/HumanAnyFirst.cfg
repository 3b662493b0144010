SPECIFICATION Spec
CONSTANTS
  Assignments = {a1, a2, a3}
  Workers = {w1, w2, w3}
  Answers = {x}
  EmptyAnswer = empty
  None = none
  Required = 2
  Strategy = "any_first"
  Scheduled = TRUE
  Sessions = {s1, s2}
SYMMETRY Symmetry
CHECK_DEADLOCK FALSE
INVARIANTS
  SlotsKept
  OutputIsWinners
PROPERTIES
  EscrowSpec
