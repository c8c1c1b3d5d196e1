\* One session without a project, overrides and an operator.
SPECIFICATION Spec
CONSTANTS
  a = a
  b = b
  p = p
  q = q
  Requests = {r1, r2}
  Identities = {a}
  Known = {a}
  ProjectOf <- NoProjects
  NoProject = NoProject
  Operators = {o1}
  Estimates = {1, 2}
  Grants <- BothGrants
  Unlimited = Unlimited
  Mode = "pause"
  PauseRequest = 3
  PauseSession = 3
  ProjectHour = 4
  LaneFiveHour = 5
  LaneWeek = 5
  CacheFreeMin = 3
  CacheFreeCalls = 1
  OverrideBound = 2
  OldestAge = 1
SYMMETRY Symmetry
INVARIANTS
  TypeOK
  SessionWithin
  UsageAccounted
  GrantConsumedOnce
PROPERTY PauseHolds
