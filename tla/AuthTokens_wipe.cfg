SPECIFICATION ReuseSpec
CONSTANTS
  Users = {u1}
  Reqs = {r1, r2}
  TicksPerSecond = 1
  AccessTTL = 2
  RefreshTTL = 2
  MaxNow = 1
  MaxDisruptions = 0
SYMMETRY Symmetry
PROPERTY WipeIsFinal
