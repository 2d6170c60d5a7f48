------------------------- MODULE MCAuthTokensSerial -------------------------
(* AuthTokens with both sets of history variables, for a server that serves *)
(* one request of a user at a time.                                        *)
EXTENDS AuthTokensRegistry, AuthTokensReuse, TLC

ObservedNext == RecordedNext /\ Observe

ObservedFairSpec ==
  /\ RecordedInit /\ spent = Nothing /\ wiped = Nothing
  /\ [][ObservedNext]_<<RegistryVars, spent, wiped>>
  /\ Fairness
=============================================================================
