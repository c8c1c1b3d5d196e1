SPECIFICATION GatewaySpec
CONSTANTS
  Requests = {r1}
  Inputs <- TheInputs
  Tiers = {"fast", "balanced"}
  Balanced = "balanced"
  OtherTier = "odd"
  Table <- TheTable
  NoRoute = NoRoute
  Models = {"gpt", "claude"}
  Owned = {"gpt", "claude"}
  Covered = {"gpt"}
  LocalModel = "local"
  NoModel = "nomodel"
  Hints <- TheHints
  LaneState = "on"
  Threshold = 2
  Operators = {o1}
  Patches <- ThePatches
  Handlers = {h1, h2}
  Metrics = {"latency"}
  Compaction = "compaction"
  Warm = 2
  Cluster = 2
  Cap = 1
  MaxCost = 1
  AlertBound = 2
  SpendBound = 1
  Judges = {j1, j2}
  Rated <- TheRated
  JudgeCap = 1
  JudgeCost = 1
  JudgeBound = 2
  Trials = {t1, t2}
  Champions <- TheChampions
  TrialCap = 1
  ChallengerCost = 0
  CompareCost = 1
  TrialBound = 3
  ToolCalls = {0, 1}
  TextFirst = TRUE
  Makers = {m1, m2}
  Counts = {1, 2}
  BackupBound = 3
  Callers = {c1, c2}
  CacheTtl = 2
  Lifetimes = {1}
  ClockBound = 4
  Scorers = {s1, s2}
  Neutral = 5
  Demotion = 3
  Ceiling = 6
  MaxPenalty = 1
  Findings = {1, 2}
  Reward = 1
  SampleBound = 4
  BatchLimit = 5
  LedgerBound = 7
  Passes = {p1}
  Tries = 4
  Ingests = {i1, i2}
  MemoryTtl = 1
  BreakAfter = 1
  Rest = 1
  MemoryClock = 2
  SaveBound = 1
  Canaries = {a, b}
  Parallel = 1
  Cycles = {y1, y2}
  ProbeTargets = {"openai"}
  ProbeSuite <- TheSuite
  Replies <- TheReplies
  ProbeCluster = 2
  Interval = 2
  Badges = {"anthropic-oauth"}
  Unplanned = Unplanned
  ScheduleClock = 5
  Flips = 2
  Refreshers = {f1}
  Scheduler = f0
  Providing = {"openrouter", "anthropic"}
  Keyless = {"openrouter"}
  ListTtl = 1
  Unfetched = Unfetched
  ListClock = 4
  Reported = {q1, q2, q3}
  RowBound = 3
  Agents = {g1, g2}
  Hinting = {n1, n2}
  HintTtl = 1
  HintBudget = 1
  HintSlots = 1
  HintClock = 3
  Hooks = {k1, k2, k3}
  PoolBound = 3
  Normalizing = TRUE
  AnswerBound = 2
  Gateways = {l1, l2}
  Versions = 2
  Unset = Unset
  KeySettings <- TheKeySettings
  Turns = {b1}
  Confirming = TRUE
  Window = 1
  BodyClock = 3
  Hosts = {x1, x2}
  Busy = {x1}
  Askers = {w1}
  Vaults = {"anthropic"}
  OverrideTtl = 1
  LaunchTtl = 1
  KeyBound = 2
  WallBound = 1
INVARIANTS
  GatewayTypeOK ConfidentialStaysLocal  SecretsStayHome VerdictNamesWinner
  SpendAccounted   CachesExpire ScoresAreEarned
  ProofsMeanMembership ForwardedOnce AlertsAreGrounded HooksSerialise
   ProcessesAgree 
PROPERTIES
  RoutesAroundBlocked  CallsArePaced
CHECK_DEADLOCK FALSE
