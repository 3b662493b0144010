SPECIFICATION MCSpec
CONSTANTS
  Runners = {r1, r2, r3}
  Sessions = {s1, s2}
  MaxAiFaults = 1
  Assignments = {a1, a2}
  Workers = {w1, w2}
  Answers = {x}
  EmptyAnswer = empty
  Null = null
  Requests = {q1}
CHECK_DEADLOCK FALSE
INVARIANTS
  NoneLost
PROPERTIES
  Settles
  ExpiredClaimEnds
