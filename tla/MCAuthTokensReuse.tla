-------------------------- MODULE MCAuthTokensReuse --------------------------
(* TLC instance of AuthTokensReuse.                                        *)
EXTENDS AuthTokensReuse, TLC

Symmetry == Permutations(Reqs)
=============================================================================
