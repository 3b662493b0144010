SPECIFICATION MCSpec
CONSTANTS
  k1 = k1
  k2 = k2
  k3 = k3
  v1 = v1
  v2 = v2
  v3 = v3
  x1 = x1
  x2 = x2
  Users = {o, m}
  Owner = o
  Sessions = {v1, v2}
  Hands = {v1, v2}
  Invites = {i1}
  Tasks = {x1, x2}
  Given = {"member", "admin"}
  Funds <- MCFunds
  Amount = 1
  Cost = 1
  Reward = 1
  MaxStale = 1
  MaxPast = 2
  Events = {x1, x2}
  Handlers = {v1, v2}
  Topup = 1
  MaxLosses = 2
  Calls = {v1, v2, v3}
  RpmLimits = {1, 2}
  DailyLimit = 2
  MinutesPerDay = 2
  LastMinute = 1
  Makers = {v1, v2}
  MaxPipelines = 4
  MaxOverlaps = 2
  Cap = 1
  Tokens = {k1, k2, k3}
  Browsers = {x1, x2}
  Rotations = {v1, v2}
  NoToken = NoToken
  Letters = {v1, v2}
  Rotators = {x1, x2}
  Grace = 1
  LastHour = 1
  MaxSecrets = 3
  NoSecret = NoSecret
  Subscribers = {u1}
  Replicas = {v1, v2}
  Watches = {x1, x2}
  LastDay = 1
  MaxUpsets = 1
SYMMETRY Symmetry
CHECK_DEADLOCK FALSE
INVARIANTS
  
  AppliedOnce
  RateKept
  SessionKept
  SecretsKept
  NoticesKept
