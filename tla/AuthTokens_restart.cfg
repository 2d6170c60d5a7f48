SPECIFICATION ObservedFairSpec
CONSTANTS
  Users = {u1}
  Reqs = {r1}
  TicksPerSecond = 1
  AccessTTL = 1
  RefreshTTL = 2
  MaxNow = 2
  MaxDisruptions = 1
INVARIANTS NoLiveTokenLost RefusalJustified ReuseInv
PROPERTIES ExpiredPurged ImplementsRegistry ReuseNeverIssues WipeIsFinal
