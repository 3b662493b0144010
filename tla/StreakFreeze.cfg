SPECIFICATION MCSpec
CONSTANTS
  t1 = t1
  t2 = t2
  w1 = w1
  w2 = w2
  d1 = d1
  d2 = d2
  Tasks = {t1, t2}
  ByApplication = {t2}
  Workers = {w1, w2}
  Desks = {d1, d2}
  Cap = 1
  MaxRows = 3
  MaxLate = 1
  Slots <- MCSlots
  Teams = {tm}
  Mates = {m1, m2, m3}
  Letters = {w1, w2}
  Clerks = {d1, d2}
  MaxMembers = 2
  MaxRaces = 1
  NoTeam = NoTeam
  Gone = Gone
  Kinds = {k1, k2}
  DailyKind = k1
  DailyTarget = 1
  QuestTarget <- MCTarget
  WeekDays = 3
  Milestone = 2
  MaxFreezes = 2
  Shoppers = {w1, w2}
  Sweepers = {d1, d2}
  LastDay = 5
  j1 = j1
  j2 = j2
  j3 = j3
  Strikes = {w1, w2}
  NoStrike = NoStrike
  Moderators = {d1, d2}
  Rated = {j1, j2, j3}
  Raters = {d1, d2}
  Golden = {w1, w2}
  Evaluators = {d1, d2}
  Works = {j1, j2, j3}
  Updates = {d1, d2}
  Quizzes = {z1}
  Exams = {d1, d2}
  VolumeFor <- MCVolume
  VerifyAfter = 3
  Marks = {1, 2, 3}
  PassMark = 2
  MaxAttempts = 4
PROPERTIES
  FreezeProtects
CHECK_DEADLOCK FALSE
