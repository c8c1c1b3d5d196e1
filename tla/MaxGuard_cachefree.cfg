\* A session makes cache-free calls while the database works.
SPECIFICATION Spec
CONSTANTS
  a = a
  b = b
  p = p
  q = q
  Requests = {r1, r2, r3}
  Identities = {a}
  Known = {}
  ProjectOf <- OneProject
  NoProject = NoProject
  Operators = {}
  Estimates = {1}
  Grants <- NoGrants
  Unlimited = Unlimited
  Mode = "pause"
  PauseRequest = 9
  PauseSession = 9
  ProjectHour = 9
  LaneFiveHour = 9
  LaneWeek = 9
  CacheFreeMin = 1
  CacheFreeCalls = 2
  OverrideBound = 0
  OldestAge = 0
PROPERTY CacheFreePauses
