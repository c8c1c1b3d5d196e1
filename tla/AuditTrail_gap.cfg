\* An outage that exhausts the retry budget.
SPECIFICATION Spec
CONSTANTS
  Workers = {w1}
  Instances = {i1}
  Keys = {k1}
  MaxReceipts = 2
  MaxAttempts = 2
  OutageLength = 2
  SequenceBound = 3
  ChangeBound = 0
  GapRowBound = 2
INVARIANT GapMeansMissing
CHECK_DEADLOCK FALSE
