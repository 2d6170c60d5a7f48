SPECIFICATION SerialFairSpec
CONSTANTS
  Users = {u1}
  Reqs = {r1, r2}
  OtpTTL = 1
  MaxNow = 1
  MaxOtps = 3
INVARIANTS AtMostOneActiveOtp SerialInv
PROPERTY ExpiredOtpsPurged
