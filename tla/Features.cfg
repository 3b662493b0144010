SPECIFICATION MCSpec
CONSTANTS
  p1 = p1
  p2 = p2
  x1 = x1
  x2 = x2
  c1 = c1
  c2 = c2
  c3 = c3
  s1 = s1
  s2 = s2
  Requests = {p1, p2}
  Resets = {l1}
  MaxLinks = 2
  MaxSecrets = 2
  MaxEnables = 2
  MaxChanges = 1
  MaxStale = 1
  Clients = {p1, p2}
  Designs = {d1}
  Raters = {x1, x2}
  Stars = {1, 3}
  Items = {c1, c2, c3}
  Authors = {x1, x2}
  MaxItems = 1
  MaxUses = 2
  MaxClashes = 1
  Absent = Absent
  Recorders = {p1, p2}
  Variants = {x1, x2}
  Trials = {k1, k2}
  MaxRecords = 2
  NotEnrolled = NotEnrolled
  Posts = {p1, p2}
  Comments = {c1, c2, c3}
  MaxComments = 2
  Messages = {1, 2, 3}
  Parties = {x1, x2}
  Shown = 2
  Searches = {c1, c2, c3}
  Seekers = {x1, x2}
  MaxSearches = 1
  Created = {n1, n2}
  MaxEvidence = 2
  MaxCrossed = 1
  Nil = Nil
  Visits = {p1, p2}
  Works = {x1, x2}
  MaxPins = 1
  Badges = {x1, x2}
  Hours = {x1, x2}
  MaxWeeks = 3
  Friends = {x1, x2}
  MaxCodes = 2
  MaxSpent = 2
  MaxMet = 1
  Sentries = {s1, s2}
  Reports = {x1, x2}
  MaxErrors = 1
  MaxRaised = 2
  Admins = {p1, p2}
  Settings = {p1, p2}
  Thresholds = {1, 2}
  MaxBalance = 3
  MaxSettings = 2
  MaxSkewed = 1
  MaxLapsed = 1
  Alarms = {a1}
  Hands = {p1, p2}
  Sweeps = {x1, x2}
  MaxTimes = 2
  MaxByHand = 1
  MaxBlurs = 1
  Callers = {p1, p2}
  MaxRows = 2
  MaxResults = 3
  MaxHits = 2
  MaxRaces = 1
  Guests = {p1, p2}
  GuideSteps = {x1, x2}
  MaxResets = 1
  MaxBonuses = 3
  MaxSlips = 1
SYMMETRY Symmetry
CHECK_DEADLOCK FALSE
INVARIANTS
  AccessKept
  TemplatesKept
  ExperimentKept
  TalkKept
  ShowcaseKept
  MonitorsKept
  TriggersKept
  CacheKept
  WelcomeKept
