-------------------------- MODULE MCRecordService --------------------------
(* RecordService and its invariants for TLC.  Requests, primary keys and   *)
(* codes are model values that no definition tells apart.                  *)
EXTENDS RecordInvariants, TLC

Symmetry == Permutations(Reqs) \cup Permutations(Ids) \cup Permutations(Codes)
=============================================================================
