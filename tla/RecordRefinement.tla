-------------------------- MODULE RecordRefinement --------------------------
(***************************************************************************)
(* The concurrent service of a versioned kind implements RecordLedger, for *)
(* clients that send only versions they were given.  The ledger of a       *)
(* record is its chain of revisions; a request takes effect when its write *)
(* commits, and every other step of it (checks, audit, reading back,       *)
(* conflicts, failures) is a stutter.                                      *)
(***************************************************************************)
EXTENDS RecordInvariants, TLC

LedgerOf(id) ==
  [v \in 1 .. rows[id].version |->
     LET h == CHOOSE g \in RevisionsOf(id) : g.version = v
     IN  [status |-> h.status, content |-> h.content]]

Ledger == INSTANCE RecordLedger WITH
  Records     <- Ids,
  Contents    <- {Snapshot(Written(r)) : r \in Reqs},
  SeedContent <- Snapshot(Written(Null)),
  ledger      <- [id \in Ids |-> LedgerOf(id)],
  withdrawn   <- {id \in Ids : rows[id].state = "deleted"}

\* Every behaviour of the service, seen through its revisions and tombstones,
\* is a behaviour of the ledger: concurrent requests appear to take effect one
\* at a time, each checked against the version it replaces.
ImplementsLedger == Ledger!Spec

Symmetry == Permutations(Reqs) \cup Permutations(Ids) \cup Permutations(Codes)
=============================================================================
