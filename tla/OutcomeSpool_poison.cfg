\* Two requests, restarts for ever.
SPECIFICATION FairSpec
CONSTANTS
  Decisions = {d1, d2}
  Controls = {}
PROPERTY EventuallyWritten
