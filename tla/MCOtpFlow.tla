----------------------------- MODULE MCOtpFlow -----------------------------
(* TLC instances of OtpFlow: requests are interchangeable for safety.      *)
EXTENDS OtpFlowLedger, TLC

Symmetry == Permutations(Reqs)

\* Clients that let one renewal of a user's OTP end before the next one.
SerialFairSpec ==
  /\ Init
  /\ [][Next /\ OneRenewalEach']_vars
  /\ Fairness
=============================================================================
