SPECIFICATION Spec
CONSTANTS
  Users = {u1}
  Reqs = {r1, r2}
  OtpTTL = 2
  MaxNow = 2
  MaxOtps = 3
SYMMETRY Symmetry
INVARIANTS TypeOK OtpInv LedgerInv OtpUntilActive
PROPERTIES ActivatedByCode ImplementsLedger
