------------------------------ MODULE Workflow ------------------------------
(***************************************************************************)
(* The business rules of the four record kinds of the backend, one table   *)
(* per kind.  The four services are near copies of one another; what makes *)
(* them different is gathered here as a rule record:                       *)
(*                                                                         *)
(*   initial    the status a created record starts in                      *)
(*   edges      the transition graph, as a set of <<from, to>> pairs       *)
(*   gated      statuses only a reviewer or an admin may enter or leave    *)
(*              (the first check of Transition)                            *)
(*   frozen     statuses in which Update refuses to edit business fields   *)
(*   deletable  statuses in which Delete is willing to withdraw the record *)
(*   revisions  whether every version leaves an append-only revision       *)
(*   copied     the business fields that a revision copies from the row    *)
(*   seeded     the statuses of the demonstration rows of a fresh database *)
(***************************************************************************)
EXTENDS Naturals

CONSTANT Kind  \* which of the four services is being modelled

Kinds == {"PressUnit", "PrintRun", "ColorProof", "ReleaseDecision"}

ASSUME KindAssumption == Kind \in Kinds

(***************************************************************************)
(* The business fields, in the groups that the revision builders copy or   *)
(* leave out together: "evidence" is the name, the risk level, the metric, *)
(* the evidence and the related code; "ownership" the facility, the owner  *)
(* and the category; "context" the description and the effective date.     *)
(***************************************************************************)
Fields == {"evidence", "ownership", "context"}

Graph(from, targets) == {from} \X targets

PressUnitTransitions ==
  Graph("ready", {"setup", "printing"})
    \cup Graph("setup", {"printing", "maintenance", "ready"})
    \cup Graph("printing", {"maintenance", "setup"})
    \cup Graph("maintenance", {"printing"})

PrintRunTransitions ==
  Graph("setup", {"printing"})
    \cup Graph("printing", {"proofing", "hold", "setup"})
    \cup Graph("proofing", {"hold", "released", "printing"})
    \cup Graph("hold", {"proofing"})
    \cup Graph("released", {"hold"})

ColorProofTransitions ==
  Graph("captured", {"review"})
    \cup Graph("review", {"accepted", "rejected", "captured"})
    \cup Graph("accepted", {"review"})
    \cup Graph("rejected", {"review"})

ReleaseDecisionTransitions ==
  Graph("draft", {"release", "rework"})
    \cup Graph("release", {"rework", "quarantine", "draft"})
    \cup Graph("rework", {"quarantine", "release"})
    \cup Graph("quarantine", {"rework"})

PressUnitSeeds == {"ready", "setup", "printing"}
PrintRunSeeds == {"setup", "printing", "proofing"}
ColorProofSeeds == {"captured", "review", "accepted"}
ReleaseDecisionSeeds == {"draft", "release", "rework"}

(***************************************************************************)
(* A press unit has no review gate, is always editable and may be deleted  *)
(* in any status; nothing but the row itself is kept.                      *)
(***************************************************************************)
PressUnitStatuses == {"ready", "setup", "printing", "maintenance"}

PressUnitRules ==
  [statuses  |-> PressUnitStatuses,
   initial   |-> "ready",
   edges     |-> PressUnitTransitions,
   gated     |-> {},
   frozen    |-> {},
   deletable |-> PressUnitStatuses,
   revisions |-> FALSE,
   copied    |-> {},
   seeded    |-> PressUnitSeeds]

PrintRunRules ==
  [statuses  |-> {"setup", "printing", "proofing", "hold", "released"},
   initial   |-> "setup",
   edges     |-> PrintRunTransitions,
   gated     |-> {"released"},
   frozen    |-> {},
   deletable |-> {"setup"},
   revisions |-> TRUE,
   copied    |-> {"evidence", "ownership"},
   seeded    |-> PrintRunSeeds]

ColorProofStatuses == {"captured", "review", "accepted", "rejected"}

ColorProofRules ==
  [statuses  |-> ColorProofStatuses,
   initial   |-> "captured",
   edges     |-> ColorProofTransitions,
   gated     |-> {"accepted", "rejected"},
   frozen    |-> {},
   deletable |-> ColorProofStatuses,
   revisions |-> FALSE,
   copied    |-> {},
   seeded    |-> ColorProofSeeds]

ReleaseDecisionRules ==
  [statuses  |-> {"draft", "release", "rework", "quarantine"},
   initial   |-> "draft",
   edges     |-> ReleaseDecisionTransitions,
   gated     |-> {"release", "quarantine"},
   frozen    |-> {"release", "quarantine"},
   deletable |-> {"draft"},
   revisions |-> TRUE,
   copied    |-> {"evidence"},
   seeded    |-> ReleaseDecisionSeeds]

Rules == IF Kind = "PressUnit" THEN PressUnitRules
         ELSE IF Kind = "PrintRun" THEN PrintRunRules
         ELSE IF Kind = "ColorProof" THEN ColorProofRules
         ELSE ReleaseDecisionRules

Statuses == Rules.statuses

CanTransition(from, to) == <<from, to>> \in Rules.edges

\* Mutant: leaving a gated status is forgotten.
NeedsReviewOnEntry(from, to) == to \in Rules.gated

\* A transition that touches a gated status, at either end, is a review.
NeedsReview(from, to) == from \in Rules.gated \/ to \in Rules.gated

\* Mutant: only the first of the frozen statuses is compared.
LockedOnRelease(status) == status \in Rules.frozen /\ status = "release"

Locked(status) == status \in Rules.frozen

-----------------------------------------------------------------------------
(* The four roles and the middleware that guards the routes.               *)

AllRoles == {"viewer", "operator", "reviewer", "admin"}

roleRank == [role \in AllRoles |->
  CASE role = "viewer"   -> 1
    [] role = "operator" -> 2
    [] role = "reviewer" -> 3
    [] role = "admin"    -> 4]

RequireMinimumRole(role, minimum) == roleRank[role] >= roleRank[minimum]

RequireRoles(role, allowed) == role \in allowed

CanReview(role) == role \in {"reviewer", "admin"}
=============================================================================
