\* Two gateway processes, two keys, two instance ids, terminal failures.
SPECIFICATION Spec
CONSTANTS
  Workers = {w1, w2}
  Instances = {i1, i2}
  Keys = {k1, k2}
  MaxReceipts = 2
  MaxAttempts = 2
  OutageLength = 2
  SequenceBound = 3
  ChangeBound = 1
  GapRowBound = 1
SYMMETRY Symmetry
INVARIANTS
  TypeOK
  OutboxIsUnstagedTail
  ChainUnbroken
  EveryReceiptHasAPath
  VerifiedMeansSigned
PROPERTY ImplementsSealedLog
CHECK_DEADLOCK FALSE
