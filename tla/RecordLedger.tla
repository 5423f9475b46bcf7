---------------------------- MODULE RecordLedger ----------------------------
(***************************************************************************)
(* What a versioned record kind promises its users, with no request, no    *)
(* database call and no concurrency in sight: each record is a ledger of   *)
(* versions that only grows, every operation happens at one moment and is  *)
(* checked against the record as it is at that moment.                     *)
(*                                                                         *)
(* One promise the code does not keep is left out: Withdraw does not ask   *)
(* for a deletable status (see DeletedOnlyWhileDeletable).                 *)
(***************************************************************************)
EXTENDS Workflow, Sequences

CONSTANTS Records, Contents, SeedContent

VARIABLES
  ledger,    \* for each record the sequence of its versions, oldest first
  withdrawn  \* the records that were deleted

vars == <<ledger, withdrawn>>

Existing(id) == ledger[id] # <<>> /\ id \notin withdrawn

Newest(id) == ledger[id][Len(ledger[id])]

Record(id, entry) ==
  /\ ledger' = [ledger EXCEPT ![id] = Append(@, entry)]
  /\ UNCHANGED withdrawn

Init ==
  /\ ledger \in [Records ->
       {<<>>} \cup {<<[status |-> s, content |-> SeedContent]>> : s \in Rules.seeded}]
  /\ withdrawn = {}

Open(id) ==
  /\ ledger[id] = <<>>
  /\ \E content \in Contents : Record(id, [status |-> Rules.initial, content |-> content])

Amend(id) ==
  /\ Existing(id)
  /\ Newest(id).status \notin Rules.frozen
  /\ \E content \in Contents : Record(id, [Newest(id) EXCEPT !.content = content])

Advance(id) ==
  /\ Existing(id)
  /\ \E target \in Statuses :
       /\ CanTransition(Newest(id).status, target)
       /\ Record(id, [Newest(id) EXCEPT !.status = target])

Withdraw(id) ==
  /\ Existing(id)
  /\ withdrawn' = withdrawn \cup {id}
  /\ UNCHANGED ledger

Next == \E id \in Records : Open(id) \/ Amend(id) \/ Advance(id) \/ Withdraw(id)

Spec == Init /\ [][Next]_vars
=============================================================================
