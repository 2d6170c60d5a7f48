SPECIFICATION RecordedSpec
CONSTANTS
  Users = {u1}
  Reqs = {r1, r2}
  TicksPerSecond = 2
  AccessTTL = 1
  RefreshTTL = 1
  MaxNow = 2
  MaxDisruptions = 0
SYMMETRY Symmetry
INVARIANTS TypeOK IInv NoLiveTokenLost RevokedTokenRefused RefusalJustified RegistryInv
PROPERTY RevivedOnlyBySigning
