\* An outage shorter than the retry budget, with crashes of both processes.
SPECIFICATION FairSpec
CONSTANTS
  Workers = {w1, w2}
  Instances = {i1}
  Keys = {k1}
  MaxReceipts = 2
  MaxAttempts = 3
  OutageLength = 2
  SequenceBound = 3
  ChangeBound = 0
  GapRowBound = 1
INVARIANT NoFalseGap
PROPERTIES
  LifecycleForward
  EventuallyVerified
CHECK_DEADLOCK FALSE
