SPECIFICATION MCSpec
CONSTANTS
  t1 = t1
  t2 = t2
  t3 = t3
  Jobs = {t1, t2, t3}
  Replicas = {r1, r2}
  Editors = {e1}
  MaxReopen = 1
  Players = {u1, u2}
  Tiers = 2
  LastWeek = 1
  GroupSize = 2
  PromoSlots = 1
  DemoSlots = 1
  MaxXp = 1
  Tabs = {b1, b2}
  Pods = {p1, p2}
INVARIANTS
  OncePerTask
  SeasonOnce
PROPERTIES
  DependenciesFirst
  Unblocks
  SeasonEnds
CHECK_DEADLOCK FALSE
