SPECIFICATION FairSpec
CONSTANTS
  Signups = {m1}
  Resends = {m2}
  Expiration = 10000
  Prefetch = 1
  Step = 10000
  MaxNow = 10000
  MaxLosses = 1
INVARIANTS TypeOK IInv Accounted OneMailPerConnection
PROPERTY QueueServed
CHECK_DEADLOCK FALSE
