------------------------- MODULE MCAuthTokensRegistry -------------------------
(* TLC instance of AuthTokensRegistry: requests are interchangeable.       *)
EXTENDS AuthTokensRegistry, TLC

Symmetry == Permutations(Reqs)
=============================================================================
