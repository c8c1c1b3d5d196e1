\* Two sessions of one project that grow into its allowance.
SPECIFICATION Spec
CONSTANTS
  a = a
  b = b
  p = p
  q = q
  Requests = {r1, r2, r3}
  Identities = {a, b}
  Known = {}
  ProjectOf <- SharedProject
  NoProject = NoProject
  Operators = {}
  Estimates = {1, 2}
  Grants <- NoGrants
  Unlimited = Unlimited
  Mode = "pause"
  PauseRequest = 3
  PauseSession = 3
  ProjectHour = 4
  LaneFiveHour = 5
  LaneWeek = 5
  CacheFreeMin = 3
  CacheFreeCalls = 1
  OverrideBound = 0
  OldestAge = 2
SYMMETRY Symmetry
INVARIANTS
  ProjectWithin
