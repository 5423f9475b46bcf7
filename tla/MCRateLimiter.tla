--------------------------- MODULE MCRateLimiter ---------------------------
(* RateLimiter for TLC.  Requests, keys and instances are model values     *)
(* that no definition tells apart.                                         *)
EXTENDS RateLimiter, TLC

Symmetry == Permutations(Reqs) \cup Permutations(Keys) \cup Permutations(Instances)
=============================================================================
