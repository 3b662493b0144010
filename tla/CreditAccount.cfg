SPECIFICATION Spec
CONSTANTS
  Sessions = {s1, s2}
  Payouts = {p1, p2}
  Steps = {x}
  Amounts = {2}
  Initial = 2
  MinPayout = 1
  FreezeCost = 1
  MaxFreezes = 1
  Bonus = 1
  Ceiling = 4
  MaxClaims = 1
  MaxPooled = 2
  MaxDrift = 2
SYMMETRY Symmetry
CHECK_DEADLOCK FALSE
INVARIANTS
  BooksBalance
  PayoutsKept
  LockedAwardsOnce
