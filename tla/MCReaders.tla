----------------------------- MODULE MCReaders -----------------------------
(* RecordPages and AuditTrail for TLC, which have no state in common.  A   *)
(* behaviour of this module is one of either: the other stays where it     *)
(* starts, so that the states of the two add up and do not multiply.  And  *)
(* it ends with its reader: bound of the model.                            *)
EXTENDS RecordPages, AuditTrail, TLC

VARIABLE reading

Init == ListInit /\ AuditInit /\ reading \in {"records", "audits"}

Next ==
  \/ reading = "records" /\ pc # "done" /\ ListNext /\ UNCHANGED <<auditVars, reading>>
  \/ reading = "audits" /\ at \notin {"walked", "summarized"} /\ AuditNext
     /\ UNCHANGED <<listVars, reading>>

Spec == Init /\ [][Next]_<<listVars, auditVars, reading>>

Symmetry == Permutations(Entities)
=============================================================================
