\* Two sessions of different projects reserve at the same time.
SPECIFICATION Spec
CONSTANTS
  a = a
  b = b
  p = p
  q = q
  Requests = {r1, r2}
  Identities = {a, b}
  Known = {a, b}
  ProjectOf <- OwnProjects
  NoProject = NoProject
  Operators = {}
  Estimates = {1}
  Grants <- NoGrants
  Unlimited = Unlimited
  Mode = "pause"
  PauseRequest = 5
  PauseSession = 5
  ProjectHour = 5
  LaneFiveHour = 2
  LaneWeek = 5
  CacheFreeMin = 2
  CacheFreeCalls = 1
  OverrideBound = 0
  OldestAge = 3
INVARIANT LaneWithin
