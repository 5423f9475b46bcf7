----------------------------- MODULE MCStartup -----------------------------
(* Startup for TLC.  Instances are model values that no definition tells   *)
(* apart; the liveness run goes without the symmetry.                      *)
EXTENDS Startup, TLC

Symmetry == Permutations(Instances)
=============================================================================
