\* Three requests and one control event.
SPECIFICATION Spec
CONSTANTS
  Decisions = {d1, d2, d3}
  Controls = {c1}
SYMMETRY Symmetry
INVARIANTS
  TypeOK
  EvidenceGapless
  SpooledIsKept
PROPERTY ReplayIsHarmless
CHECK_DEADLOCK FALSE
