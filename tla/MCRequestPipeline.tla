------------------------- MODULE MCRequestPipeline -------------------------
(* TLC instance of RequestPipeline: requests are interchangeable.          *)
EXTENDS RequestPipeline, TLC

Symmetry == Permutations(Reqs)
=============================================================================
