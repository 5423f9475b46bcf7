--------------------------- MODULE WorkbenchProofs ---------------------------
(***************************************************************************)
(* What a user confirms is what the backend does or refuses for a change,  *)
(* for every kind and any number of records, queries, calls and changes by *)
(* other people.                                                           *)
(*                                                                         *)
(* Whatever the page knows of a record, in its list, in a dialog or in a   *)
(* call, was true of a version of that record, and is true of the row      *)
(* while the row has that version.  Whatever a dialog asks about was       *)
(* offered to the role that would send it.                                 *)
(***************************************************************************)
EXTENDS Workbench, FiniteSetTheorems, SequenceTheorems, TLAPS

Knows(item) ==
  /\ item \in Item
  /\ item.version <= rows[item.id].version
  /\ item.version = rows[item.id].version => item.status = rows[item.id].status

Permitted(item, status, by) ==
  /\ RequireMinimumRole(by, "operator")
  /\ CanTransition(item.status, status)
  /\ NeedsReview(item.status, status) => CanReview(by)

CallFits(c) ==
  /\ IsLoad(c) => "list" \in DOMAIN c /\ \A item \in c.list : Knows(item)
  /\ IsTransition(c) => /\ {"status", "role"} \subseteq DOMAIN c
                        /\ Knows(c.item) /\ Permitted(c.item, c.status, c.role)
  /\ IsCreate(c) => /\ "role" \in DOMAIN c
                    /\ c.code \in Codes /\ RequireMinimumRole(c.role, "operator")

RowsFit ==
  /\ rows \in [Ids -> Row]
  /\ \A id \in Ids : rows[id].live => rows[id].version # 0

DialogsFit ==
  /\ pending # Null => Knows(pending.item) /\ Permitted(pending.item, pending.status, role)
  /\ showCreate => CanWrite
  /\ ~mounted => pending = Null /\ ~showCreate

\* The inductive invariant.
IInv ==
  /\ RowsFit
  /\ \A item \in items : Knows(item)
  /\ \A c \in calls : CallFits(c)
  /\ DialogsFit

-----------------------------------------------------------------------------

\* The page's own table of next statuses agrees with the graph and the review
\* gates of the backend.
LEMMA OffersArePermitted ==
  ASSUME NEW s \in Statuses, NEW reviewer \in BOOLEAN, Offers(reviewer)[s] # Null
  PROVE  /\ CanTransition(s, Offers(reviewer)[s])
         /\ NeedsReview(s, Offers(reviewer)[s]) => reviewer
<1>1. CASE Kind = "PressUnit"
  BY <1>1 DEF Offers, CanTransition, NeedsReview, Statuses, Rules, PressUnitRules,
              PressUnitStatuses, PressUnitTransitions, Graph
<1>2. CASE Kind = "PrintRun"
  BY <1>2 DEF Offers, CanTransition, NeedsReview, Statuses, Rules, PrintRunRules,
              PrintRunTransitions, Graph
<1>3. CASE Kind = "ColorProof"
  BY <1>3 DEF Offers, CanTransition, NeedsReview, Statuses, Rules, ColorProofRules,
              ColorProofStatuses, ColorProofTransitions, Graph
<1>4. CASE Kind = "ReleaseDecision"
  BY <1>4 DEF Offers, CanTransition, NeedsReview, Statuses, Rules, ReleaseDecisionRules,
              ReleaseDecisionTransitions, Graph
<1> QED  BY <1>1, <1>2, <1>3, <1>4, KindAssumption DEF Kinds

\* What is known of a record stays true when versions only grow and a status
\* changes only with its version.
LEMMA KnowledgeLasts ==
  ASSUME rows \in [Ids -> Row], rows' \in [Ids -> Row],
         \A id \in Ids : \/ rows'[id].version = rows[id].version
                               /\ rows'[id].status = rows[id].status
                         \/ rows'[id].version > rows[id].version,
         NEW item, Knows(item)
  PROVE  Knows(item)'
<1>1. item \in Item /\ item.id \in Ids /\ item.version \in Nat
  BY DEF Knows, Item
<1>2. rows[item.id].version \in Nat /\ rows'[item.id].version \in Nat
  BY <1>1 DEF Row
<1> QED  BY <1>1, <1>2 DEF Knows

LEMMA WorkflowTypes ==
  /\ Rules.initial \in Statuses
  /\ \A s, t : CanTransition(s, t) => s \in Statuses /\ t \in Statuses
BY KindAssumption
   DEF Kinds, Statuses, Rules, PressUnitRules, PrintRunRules, ColorProofRules,
       ReleaseDecisionRules, PressUnitStatuses, ColorProofStatuses, CanTransition,
       PressUnitTransitions, PrintRunTransitions, ColorProofTransitions,
       ReleaseDecisionTransitions, Graph

Advances(id) ==
  \/ rows'[id].version = rows[id].version /\ rows'[id].status = rows[id].status
  \/ rows'[id].version > rows[id].version

\* No step takes a row back to an earlier version, or changes its status
\* within a version.
LEMMA RowsAdvance ==
  ASSUME RowsFit, \A c \in calls : CallFits(c), [Next]_vars
  PROVE  RowsFit' /\ \A id \in Ids : Advances(id)
<1> DEFINE Goal == RowsFit' /\ \A id \in Ids : Advances(id)
<1>1. \A id \in Ids : rows[id].version \in Nat /\ rows[id] \in Row
  BY DEF RowsFit, Row
<1>2. CASE rows' = rows
  BY <1>2 DEF RowsFit, Advances
<1>3. ASSUME NEW id \in Ids, NEW row \in Row, rows' = [rows EXCEPT ![id] = row],
             row.live => row.version # 0,
             \/ row.version > rows[id].version
             \/ row.version = rows[id].version /\ row.status = rows[id].status
      PROVE  Goal
  BY <1>3 DEF RowsFit, Advances
<1>4. ASSUME NEW id \in Ids, NEW status \in Statuses,
             rows' = [rows EXCEPT ![id].status = status, ![id].version = @ + 1]
      PROVE  Goal
  <2>1. PICK old \in Row : old = rows[id]
    BY <1>1
  <2>2. PICK row : row = [old EXCEPT !.status = status, !.version = old.version + 1]
    OBVIOUS
  <2>3. old.version \in Nat /\ old.version + 1 \in Nat
    BY DEF Row
  <2>4. row \in Row /\ row.version = old.version + 1
    BY <2>2, <2>3 DEF Row
  <2>5. rows' = [rows EXCEPT ![id] = row]
    BY <1>4, <2>1, <2>2
  <2>6. row.version > rows[id].version /\ row.version # 0
    BY <2>1, <2>3, <2>4
  <2> QED  BY <1>3, <2>4, <2>5, <2>6
<1>5. ASSUME NEW id \in Ids, NEW code \in Codes, rows[id].version = 0,
             rows' = [rows EXCEPT ![id] = Inserted(code)]
      PROVE  Goal
  <2>1. PICK row : row = Inserted(code)
    OBVIOUS
  <2>2. row \in Row /\ row.version > rows[id].version /\ row.version # 0
    BY <1>5, <2>1, WorkflowTypes DEF Inserted, Row
  <2> QED  BY <1>3, <1>5, <2>1, <2>2
<1>6. ASSUME NEW c \in calls, Apply(c) PROVE Goal
  <2>1. Knows(c.item) /\ CanTransition(c.item.status, c.status)
    BY <1>6 DEF Apply, CallFits, Permitted
  <2>2. c.item.id \in Ids /\ c.status \in Statuses
    BY <2>1, WorkflowTypes DEF Knows, Item
  <2> QED  BY <1>4, <1>6, <2>2 DEF Apply
<1>7. ASSUME NEW c \in calls, Insert(c) PROVE Goal
  <2>1. c.code \in Codes
    BY <1>7 DEF Insert, CallFits
  <2> QED  BY <1>5, <1>7, <2>1 DEF Insert
<1>8. ASSUME NEW id \in Ids, SomebodyChanges(id) PROVE Goal
  <2>1. CASE rows' = [rows EXCEPT ![id].live = FALSE]
    <3>1. PICK row : row = [rows[id] EXCEPT !.live = FALSE]
      OBVIOUS
    <3>2. row \in Row /\ row.version = rows[id].version /\ row.status = rows[id].status
          /\ ~row.live
      BY <1>1, <3>1 DEF Row
    <3> QED  BY <1>3, <2>1, <3>1, <3>2
  <2> QED  BY <1>4, <1>5, <1>8, <2>1 DEF SomebodyChanges
<1> QED
  BY <1>2, <1>6, <1>7, <1>8
     DEF Next, vars, server, page, store, dialog, User, Backend, Arrives, Submit, OpenDialog,
         CancelDialog, Confirm, OpenCreate, CancelCreate, ConfirmCreate, SwitchRole,
         RoleSwitched, AnswerLoad, Refuse, CallFails, LoadArrives, LoadFails, WriteArrives,
         WriteFails

-----------------------------------------------------------------------------
(* What each step adds to what the page knows.                             *)

\* A call whose answer arrives, or whose dialog is gone, asks for the same.
LEMMA SameCall ==
  ASSUME NEW c, CallFits(c)', NEW d, DOMAIN d = DOMAIN c,
         \A f \in DOMAIN c : f \notin {"answer", "closes", "list"} => d[f] = c[f],
         IsLoad(c) => \A item \in d.list : Knows(item)'
  PROVE  CallFits(d)'
<1>1. /\ "item" \in DOMAIN c => d.item = c.item
      /\ "status" \in DOMAIN c => d.status = c.status
      /\ "role" \in DOMAIN c => d.role = c.role
      /\ "code" \in DOMAIN c => d.code = c.code
  OBVIOUS
<1> QED  BY <1>1 DEF CallFits, IsLoad, IsTransition, IsCreate

LEMMA AnsweredCall ==
  ASSUME NEW c, CallFits(c)', NEW d,
         (\E a : d = [c EXCEPT !.answer = a]) \/ (\E a : d = [c EXCEPT !.closes = a])
  PROVE  CallFits(d)'
<1>1. /\ DOMAIN d = DOMAIN c
      /\ \A f \in DOMAIN c : f \notin {"answer", "closes"} => d[f] = c[f]
  OBVIOUS
<1>2. "list" \in DOMAIN c => d.list = c.list
  BY <1>1
<1> QED  BY <1>1, <1>2, SameCall DEF CallFits

LEMMA IInvStays ==
  ASSUME IInv, [Next]_vars
  PROVE  IInv'
<1>1. RowsFit' /\ \A item : Knows(item) => Knows(item)'
  BY RowsAdvance, KnowledgeLasts DEF IInv, RowsFit, Advances
<1>2. \A c \in calls : CallFits(c)'
  BY <1>1 DEF IInv, CallFits
<1>3. \A item \in items : Knows(item)'
  BY <1>1 DEF IInv
<1>4. ASSUME \A c \in calls' : CallFits(c)', \A item \in items' : Knows(item)', DialogsFit'
      PROVE  IInv'
  BY <1>1, <1>4 DEF IInv
<1>5. UNCHANGED <<pending, showCreate, mounted, role>> => DialogsFit'
  BY <1>1 DEF IInv, DialogsFit, CanWrite, Permitted
<1>6. ASSUME NEW c \in calls, NEW d, calls' = (calls \ {c}) \cup {d},
             (\E a : d = [c EXCEPT !.answer = a]), items' = items, DialogsFit'
      PROVE  IInv'
  BY <1>2, <1>3, <1>4, <1>6, AnsweredCall
<1>7. ASSUME NEW q, NEW closes, NEW others \in SUBSET calls,
             calls' = others \cup {Numbered(LoadCall(q, closes))}, items' = items, DialogsFit'
      PROVE  IInv'
  <2>1. PICK d : d = Numbered(LoadCall(q, closes))
    OBVIOUS
  <2>2. /\ DOMAIN d = {"n", "query", "closes", "answer", "list"}
        /\ d.list = {}
    BY <2>1 DEF Numbered, LoadCall
  <2>3. CallFits(d)'
    BY <2>2 DEF CallFits, IsLoad, IsTransition, IsCreate
  <2> QED  BY <1>2, <1>3, <1>4, <1>7, <2>1, <2>3
<1>8. ASSUME NEW q, Submit(q) PROVE IInv'
  <2>1. calls' = calls \cup {Numbered(LoadCall(q, "nothing"))}
    BY <1>8 DEF Submit, Send
  <2> QED  BY <1>5, <1>7, <1>8, <2>1 DEF Submit, dialog
<1>9. ASSUME NEW item \in items, OpenDialog(item) PROVE IInv'
  <2>1. /\ pending' = [item |-> item, status |-> nextPermittedStatus(item.status)]
        /\ UNCHANGED <<calls, items, role, mounted, showCreate>>
        /\ nextPermittedStatus(item.status) # Null /\ CanWrite /\ mounted
    BY <1>9 DEF OpenDialog, dialog, store
  <2>2. Knows(item) /\ item.status \in Statuses /\ CanReview(role) \in BOOLEAN
    BY DEF IInv, Knows, Item, CanReview
  <2>3. Permitted(item, nextPermittedStatus(item.status), role)
    BY <2>1, <2>2, OffersArePermitted DEF Permitted, CanWrite, nextPermittedStatus
  <2>4. DialogsFit'
    BY <1>1, <2>1, <2>2, <2>3 DEF IInv, DialogsFit, CanWrite, Permitted
  <2> QED  BY <1>2, <1>3, <1>4, <2>1, <2>4
<1>10. CASE CancelDialog
  <2>1. DialogsFit'
    BY <1>10 DEF DialogsFit, CancelDialog, IInv, CanWrite, dialog
  <2> QED  BY <1>2, <1>3, <1>4, <1>10, <2>1 DEF CancelDialog, store
<1>11. CASE Confirm
  <2>1. /\ calls' = calls \cup {Numbered(TransitionCall)}
        /\ pending # Null /\ UNCHANGED <<page, items, rows>>
    BY <1>11 DEF Confirm, Send, server
  <2>2. PICK d : d = Numbered(TransitionCall)
    OBVIOUS
  <2>3. /\ d.item = pending.item /\ d.status = pending.status /\ d.role = role
        /\ DOMAIN d = {"n", "item", "status", "role", "closes", "answer"}
    BY <2>2 DEF Numbered, TransitionCall
  <2>4. Knows(d.item)' /\ Permitted(d.item, d.status, d.role)
    BY <1>1, <2>1, <2>3 DEF IInv, DialogsFit
  <2>5. CallFits(d)'
    BY <2>3, <2>4 DEF CallFits, Permitted, IsLoad, IsTransition, IsCreate
  <2> QED  BY <1>2, <1>3, <1>4, <1>5, <2>1, <2>2, <2>5 DEF page, dialog
<1>12. CASE OpenCreate
  <2>1. DialogsFit'
    BY <1>1, <1>12 DEF DialogsFit, OpenCreate, IInv, CanWrite
  <2> QED  BY <1>2, <1>3, <1>4, <1>12, <2>1 DEF OpenCreate, store
<1>13. CASE CancelCreate
  <2>1. DialogsFit'
    BY <1>1, <1>13 DEF DialogsFit, CancelCreate, IInv
  <2> QED  BY <1>2, <1>3, <1>4, <1>13, <2>1 DEF CancelCreate, store
<1>14. CASE ConfirmCreate
  <2>1. PICK call : \E code \in Codes :
          /\ call = [n |-> 1, code |-> code, opening |-> Len(dialogs), role |-> role,
                     closes |-> "showCreate", answer |-> "none"]
          /\ calls' = calls \cup {Numbered(call)}
    BY <1>14 DEF ConfirmCreate, Send
  <2>2. PICK d : d = Numbered(call)
    OBVIOUS
  <2>3. /\ d.code \in Codes /\ d.role = role
        /\ DOMAIN d = {"n", "code", "opening", "role", "closes", "answer"}
    BY <2>1, <2>2 DEF Numbered
  <2>4. CallFits(d)'
    BY <1>14, <2>3
       DEF ConfirmCreate, IInv, DialogsFit, CallFits, IsLoad, IsTransition, IsCreate, CanWrite
  <2> QED  BY <1>2, <1>3, <1>4, <1>5, <1>14, <2>1, <2>2, <2>4 DEF ConfirmCreate, page, dialog
<1>15. ASSUME SwitchRole \/ RoleSwitched PROVE IInv'
  <2>1. CASE SwitchRole
    <3>1. \A d \in calls' : \E c \in calls : \E a : d = [c EXCEPT !.closes = a]
      BY <2>1 DEF SwitchRole, Orphaned
    <3>2. \A d \in calls' : CallFits(d)'
      BY <1>2, <3>1, AnsweredCall
    <3>3. DialogsFit'
      BY <2>1 DEF SwitchRole, DialogsFit
    <3> QED  BY <1>3, <1>4, <2>1, <3>2, <3>3 DEF SwitchRole, store
  <2>2. CASE RoleSwitched
    <3>1. calls' = calls \cup {Numbered(LoadCall(DefaultQuery, "nothing"))}
      BY <2>2 DEF RoleSwitched, Send
    <3>2. DialogsFit'
      BY <2>2 DEF RoleSwitched, IInv, DialogsFit, dialog
    <3> QED  BY <1>7, <2>2, <3>1, <3>2 DEF RoleSwitched
  <2> QED  BY <1>15, <2>1, <2>2
<1>16. ASSUME NEW c \in calls, AnswerLoad(c) PROVE IInv'
  <2>1. PICK ids \in SUBSET {id \in Ids : rows[id].live} :
          calls' = (calls \ {c}) \cup {[c EXCEPT !.answer = "ok", !.list = {Shown(id) : id \in ids}]}
    BY <1>16 DEF AnswerLoad, Answered
  <2>2. PICK d : d = [c EXCEPT !.answer = "ok", !.list = {Shown(id) : id \in ids}]
    OBVIOUS
  <2>3. \A id \in ids : Knows(Shown(id))
    <3>1. \A id \in ids : /\ id \in Ids /\ rows[id].status \in Statuses
                          /\ rows[id].version \in Nat \ {0}
      BY DEF IInv, RowsFit, Row
    <3> QED  BY <3>1 DEF Knows, Shown, Item
  <2>4. CallFits(d)'
    <3>1. /\ DOMAIN d = DOMAIN c
          /\ \A f \in DOMAIN c : f \notin {"answer", "list"} => d[f] = c[f]
          /\ "list" \in DOMAIN c => d.list = {Shown(id) : id \in ids}
      BY <2>2
    <3>2. IsLoad(c) => \A item \in d.list : Knows(item)'
      BY <1>1, <2>3, <3>1 DEF IInv, CallFits
    <3> QED  BY <1>2, <3>1, <3>2, SameCall
  <2>5. UNCHANGED <<items, pending, showCreate, mounted, role>>
    BY <1>16 DEF AnswerLoad, page, store, dialog
  <2> QED  BY <1>2, <1>3, <1>4, <1>5, <2>1, <2>2, <2>4, <2>5
<1>17. ASSUME NEW c \in calls, Apply(c) \/ Insert(c) \/ Refuse(c) \/ CallFails(c) PROVE IInv'
  <2>1. PICK a : calls' = (calls \ {c}) \cup {[c EXCEPT !.answer = a]}
    BY <1>17 DEF Apply, Insert, Refuse, CallFails, Answered
  <2>2. UNCHANGED <<items, pending, showCreate, mounted, role>>
    BY <1>17 DEF Apply, Insert, Refuse, CallFails, page, store, dialog
  <2> QED  BY <1>5, <1>6, <2>1, <2>2
<1>18. ASSUME NEW id \in Ids, SomebodyChanges(id) PROVE IInv'
  BY <1>2, <1>3, <1>4, <1>5, <1>18 DEF SomebodyChanges, page, store, dialog
<1>19. ASSUME NEW c \in calls, LoadArrives(c) \/ LoadFails(c) PROVE IInv'
  <2>1. DialogsFit'
    BY <1>1, <1>19 DEF DialogsFit, LoadArrives, LoadFails, Close, IInv, CanWrite
  <2>2. \A item \in items' : Knows(item)'
    BY <1>2, <1>3, <1>19 DEF LoadArrives, LoadFails, CallFits
  <2> QED  BY <1>2, <1>4, <1>19, <2>1, <2>2 DEF LoadArrives, LoadFails
<1>20. ASSUME NEW c \in calls, WriteArrives(c) PROVE IInv'
  <2>1. calls' = (calls \ {c}) \cup {Numbered(LoadCall(DefaultQuery, c.closes))}
    BY <1>20 DEF WriteArrives, Send
  <2> QED  BY <1>5, <1>7, <1>20, <2>1 DEF WriteArrives, page, dialog
<1>21. ASSUME NEW c \in calls, WriteFails(c) PROVE IInv'
  BY <1>2, <1>3, <1>4, <1>5, <1>21 DEF WriteFails, page, dialog
<1>22. CASE UNCHANGED vars
  BY <1>2, <1>3, <1>4, <1>5, <1>22 DEF vars, page, store, dialog
<1> QED
  BY <1>8, <1>9, <1>10, <1>11, <1>12, <1>13, <1>14, <1>15, <1>16, <1>17, <1>18, <1>19,
     <1>20, <1>21, <1>22 DEF Next, User, Backend, Arrives

LEMMA Initially == Init => IInv
<1> SUFFICES ASSUME Init PROVE IInv
  OBVIOUS
<1>1. RowsFit
  <2>1. PICK seeded \in [Ids -> Rules.seeded] :
          \A id \in Ids : rows[id] =
            IF id \in Fresh
              THEN [live |-> FALSE, status |-> Rules.initial, version |-> 0, code |-> Null]
              ELSE [live |-> TRUE, status |-> seeded[id], version |-> 1, code |-> Null]
    BY DEF Init
  <2>2. Rules.seeded \subseteq Statuses
    BY DEF Statuses, Rules, PressUnitRules, PrintRunRules, ColorProofRules,
           ReleaseDecisionRules, PressUnitStatuses, ColorProofStatuses, PressUnitSeeds,
           PrintRunSeeds, ColorProofSeeds, ReleaseDecisionSeeds
  <2>3. \A id \in Ids : rows[id] \in Row /\ (rows[id].live => rows[id].version # 0)
    <3> TAKE id \in Ids
    <3>1. seeded[id] \in Statuses
      BY <2>2
    <3>2. CASE id \in Fresh
      <4>1. rows[id] = [live |-> FALSE, status |-> Rules.initial, version |-> 0, code |-> Null]
        BY <2>1, <3>2
      <4> QED  BY <4>1, WorkflowTypes DEF Row
    <3>3. CASE id \notin Fresh
      <4>1. rows[id] = [live |-> TRUE, status |-> seeded[id], version |-> 1, code |-> Null]
        BY <2>1, <3>3
      <4> QED  BY <3>1, <4>1 DEF Row
    <3> QED  BY <3>2, <3>3
  <2>4. rows \in [Ids -> Row]
    BY <2>3 DEF Init
  <2> QED  BY <2>3, <2>4 DEF RowsFit
<1>2. \A c \in calls : CallFits(c)
  BY DEF Init, CallFits, IsLoad, IsTransition, IsCreate
<1> QED  BY <1>1, <1>2 DEF IInv, Init, DialogsFit

LEMMA Inductive == Spec => []IInv
<1>1. IInv /\ [Next]_vars => IInv'
  BY IInvStays
<1> QED  BY <1>1, Initially, PTL DEF Spec

-----------------------------------------------------------------------------

\* The page never offers what the backend will not do: a confirmed transition
\* is refused only when the record was changed since it was shown, and a
\* confirmed creation only when its code is taken.
THEOREM OffersAreHonoured == Spec => []RefusedOnlyWhenChanged
<1>1. IInv => RefusedOnlyWhenChanged
  <2> SUFFICES ASSUME IInv PROVE RefusedOnlyWhenChanged
    OBVIOUS
  <2>1. ASSUME NEW c \in Asking, ~Changed(c.item) PROVE Accepted(c)
    <3>1. Knows(c.item) /\ Permitted(c.item, c.status, c.role)
      BY DEF Asking, IInv, CallFits
    <3>2. /\ rows[c.item.id].live
          /\ rows[c.item.id].status = c.item.status
          /\ rows[c.item.id].version = c.item.version
      BY <2>1 DEF Changed, Shown
    <3> QED  BY <3>1, <3>2 DEF Accepted, Permitted
  <2>2. ASSUME NEW c \in calls, IsCreate(c) PROVE RequireMinimumRole(c.role, "operator")
    BY <2>2 DEF IInv, CallFits
  <2> QED  BY <2>1, <2>2 DEF RefusedOnlyWhenChanged, Insertable
<1> QED  BY <1>1, Inductive, PTL

\* A confirmed transition is done only while the record is in the status that
\* the dialog shows it leaving, however old the dialog is, however often it was
\* confirmed and whatever other people did in between.
THEOREM ConfirmedOnly == Spec => []ConfirmedIsApplied
<1>1. IInv => ConfirmedIsApplied
  <2> SUFFICES ASSUME IInv, NEW c \in Asking, Accepted(c)
               PROVE  rows[c.item.id].status = c.item.status
    BY DEF ConfirmedIsApplied
  <2>1. Knows(c.item) /\ c.item.version = rows[c.item.id].version
    BY DEF Asking, IInv, CallFits, Accepted
  <2> QED  BY <2>1 DEF Knows
<1> QED  BY <1>1, Inductive, PTL

-----------------------------------------------------------------------------
(* Types.  Each call has a number that tells it from the like of it, which *)
(* exists as long as fewer calls are on their way than the bound allows to *)
(* send; a write on its way has room kept for its reload.                  *)

Writes == {c \in calls : ~IsLoad(c)}

CallsCounted ==
  /\ sent \in Nat
  /\ IsFiniteSet(calls) /\ Cardinality(calls) <= sent
  /\ sent + Cardinality(Writes) <= MaxCalls

TypedCall(c) == c \in (IF IsLoad(c) THEN Load ELSE IF IsCreate(c) THEN Create ELSE Transition)

PageTyped ==
  /\ role \in Roles /\ mounted \in BOOLEAN /\ query \in Queries
  /\ pending \in Pending \cup {Null}
  /\ showCreate \in BOOLEAN
  /\ dialogs \in Seq(Nat) /\ Len(dialogs) <= MaxDialogs
  /\ showCreate => dialogs # <<>>

StoreTyped == items \subseteq Item /\ loading \in BOOLEAN /\ failed \in BOOLEAN

\* The rest of the inductive invariant.
TypeInv ==
  /\ rows \in [Ids -> Row] /\ changes \in 0 .. MaxChanges
  /\ PageTyped
  /\ StoreTyped
  /\ CallsCounted /\ \A c \in calls : TypedCall(c)

\* One element more counts for one at most, and one in place of another for none.
LEMMA OneMore ==
  ASSUME NEW S, IsFiniteSet(S), NEW x
  PROVE  /\ IsFiniteSet(S \cup {x})
         /\ Cardinality(S) \in Nat /\ Cardinality(S \cup {x}) \in Nat
         /\ Cardinality(S \cup {x}) <= Cardinality(S) + 1
<1>1. IsFiniteSet(S \cup {x})
      /\ Cardinality(S \cup {x}) = IF x \in S THEN Cardinality(S) ELSE Cardinality(S) + 1
  BY FS_AddElement
<1>2. Cardinality(S) \in Nat
  BY FS_CardinalityType
<1> QED  BY <1>1, <1>2

LEMMA OneForAnother ==
  ASSUME NEW S, IsFiniteSet(S), NEW x \in S, NEW y
  PROVE  /\ IsFiniteSet((S \ {x}) \cup {y})
         /\ Cardinality(S) \in Nat /\ Cardinality((S \ {x}) \cup {y}) \in Nat
         /\ Cardinality((S \ {x}) \cup {y}) <= Cardinality(S)
<1>1. IsFiniteSet(S \ {x}) /\ Cardinality(S \ {x}) = Cardinality(S) - 1
  BY FS_RemoveElement
<1>2. Cardinality(S) \in Nat
  BY FS_CardinalityType
<1>3. /\ IsFiniteSet((S \ {x}) \cup {y})
      /\ Cardinality((S \ {x}) \cup {y}) \in Nat
      /\ Cardinality((S \ {x}) \cup {y}) <= Cardinality(S \ {x}) + 1
  BY <1>1, OneMore
<1> QED  BY <1>1, <1>2, <1>3

\* Fewer calls than numbers leave a number that no call has.
LEMMA FreeNumber ==
  ASSUME IsFiniteSet(calls), Cardinality(calls) < MaxCalls
  PROVE  \E n \in 1 .. MaxCalls : \A c \in calls : c.n # n
<1> DEFINE numbers == {c.n : c \in calls}
           numberOf == [c \in calls |-> c.n]
<1>1. numberOf \in Surjection(calls, numbers)
  BY DEF Surjection
<1>2. IsFiniteSet(numbers) /\ Cardinality(numbers) <= Cardinality(calls)
  BY <1>1, FS_Surjection
<1>3. MaxCalls \in Nat /\ Cardinality(1 .. MaxCalls) = MaxCalls
  BY BoundsAssumption, FS_Interval
<1>4. ASSUME 1 .. MaxCalls \subseteq numbers PROVE FALSE
  <2>1. Cardinality(1 .. MaxCalls) <= Cardinality(numbers)
    BY <1>2, <1>4, FS_Subset
  <2>2. Cardinality(calls) \in Nat /\ Cardinality(numbers) \in Nat
    BY <1>2, FS_CardinalityType
  <2> QED  BY <1>2, <1>3, <2>1, <2>2
<1> QED  BY <1>4

\* A call of its type keeps it under another number, answer or dialog to close.
LEMMA TypedStays ==
  ASSUME NEW c, TypedCall(c), NEW d,
         \/ \E n \in Nat : d = [c EXCEPT !.n = n]
         \/ \E a \in Answer : d = [c EXCEPT !.answer = a]
         \/ d = [c EXCEPT !.closes = "nothing"]
  PROVE  TypedCall(d) /\ (IsLoad(d) <=> IsLoad(c))
<1>1. DOMAIN d = DOMAIN c
  OBVIOUS
<1>2. /\ IsLoad(d) <=> IsLoad(c)
      /\ IsCreate(d) <=> IsCreate(c)
  BY <1>1 DEF IsLoad, IsCreate
<1>3. "nothing" \in Closes
  BY DEF Closes
<1>4. ASSUME c \in Load PROVE d \in Load
  BY <1>3, <1>4 DEF Load
<1>5. ASSUME c \in Create PROVE d \in Create
  BY <1>3, <1>5 DEF Create
<1>6. ASSUME c \in Transition PROVE d \in Transition
  BY <1>3, <1>6 DEF Transition
<1> QED  BY <1>2, <1>4, <1>5, <1>6 DEF TypedCall

LEMMA NumberedIsTyped ==
  ASSUME IsFiniteSet(calls), Cardinality(calls) < MaxCalls, NEW call, TypedCall(call)
  PROVE  TypedCall(Numbered(call)) /\ (IsLoad(Numbered(call)) <=> IsLoad(call))
<1> DEFINE Free(n) == \A c \in calls : c.n = n => Asked(c) # Asked(call)
           number == CHOOSE n \in 1 .. MaxCalls : Free(n)
<1>1. \E n \in 1 .. MaxCalls : Free(n)
  BY FreeNumber
<1>2. number \in 1 .. MaxCalls
  BY <1>1
<1>3. Numbered(call) = [call EXCEPT !.n = number]
  BY DEF Numbered
<1>4. number \in Nat
  BY <1>2
<1> HIDE DEF number
<1> QED  BY <1>3, <1>4, TypedStays

\* A call that is sent, when there is room for it and the reloads to come.
LEMMA SendKeeps ==
  ASSUME CallsCounted, \A c \in calls : TypedCall(c),
         NEW others \in SUBSET calls, NEW call, TypedCall(call), Send(call, others),
         sent < MaxCalls,
         sent + 1 + Cardinality({c \in others : ~IsLoad(c)})
           + (IF IsLoad(call) THEN 0 ELSE 1) <= MaxCalls
  PROVE  CallsCounted' /\ \A c \in calls' : TypedCall(c)
<1> DEFINE new == Numbered(call)
           kept == {c \in others : ~IsLoad(c)}
<1>1. Cardinality(calls) \in Nat /\ MaxCalls \in Nat /\ sent \in Nat
  BY FS_CardinalityType, BoundsAssumption DEF CallsCounted
<1>2. TypedCall(new) /\ (IsLoad(new) <=> IsLoad(call))
  BY <1>1, NumberedIsTyped DEF CallsCounted
<1>3. calls' = others \cup {new} /\ sent' = sent + 1
  BY DEF Send
<1>4. IsFiniteSet(others) /\ Cardinality(others) <= Cardinality(calls)
  BY FS_Subset DEF CallsCounted
<1>5. /\ IsFiniteSet(calls') /\ Cardinality(calls') <= Cardinality(others) + 1
      /\ Cardinality(others) \in Nat /\ Cardinality(calls') \in Nat
  BY <1>3, <1>4, OneMore
<1>6. IsFiniteSet(kept) /\ Cardinality(kept) \in Nat
  BY <1>4, FS_Subset, FS_CardinalityType
<1>7. CASE IsLoad(call)
  <2>1. Writes' = kept
    BY <1>2, <1>3, <1>7 DEF Writes
  <2> QED  BY <1>1, <1>2, <1>3, <1>4, <1>5, <1>6, <1>7, <2>1 DEF CallsCounted
<1>8. CASE ~IsLoad(call)
  <2>1. Writes' = kept \cup {new}
    BY <1>2, <1>3, <1>8 DEF Writes
  <2>2. Cardinality(Writes') <= Cardinality(kept) + 1 /\ Cardinality(Writes') \in Nat
    BY <1>6, <2>1, OneMore
  <2> QED  BY <1>1, <1>2, <1>3, <1>4, <1>5, <1>6, <1>8, <2>2 DEF CallsCounted
<1> QED  BY <1>7, <1>8

\* A call that is answered.
LEMMA AnswerKeeps ==
  ASSUME CallsCounted, \A c \in calls : TypedCall(c), NEW c \in calls,
         NEW d, TypedCall(d), IsLoad(d) <=> IsLoad(c), calls' = Answered(c, d), sent' = sent
  PROVE  CallsCounted' /\ \A e \in calls' : TypedCall(e)
<1>1. calls' = (calls \ {c}) \cup {d}
  BY DEF Answered
<1>2. /\ IsFiniteSet(calls') /\ Cardinality(calls') <= Cardinality(calls)
      /\ Cardinality(calls) \in Nat /\ Cardinality(calls') \in Nat
  <2>1. IsFiniteSet(calls)
    BY DEF CallsCounted
  <2> QED  BY <1>1, <2>1, OneForAnother
<1>4. IsFiniteSet(Writes) /\ Cardinality(Writes) \in Nat
  BY FS_Subset, FS_CardinalityType DEF CallsCounted, Writes
<1>5. Cardinality(Writes') <= Cardinality(Writes)
  <2>1. CASE IsLoad(c)
    <3>1. Writes' = Writes
      BY <1>1, <2>1 DEF Writes
    <3> QED  BY <1>4, <3>1
  <2>2. CASE ~IsLoad(c)
    <3>1. Writes' = (Writes \ {c}) \cup {d} /\ c \in Writes
      BY <1>1, <2>2 DEF Writes
    <3> QED  BY <1>4, <3>1, OneForAnother
  <2> QED  BY <2>1, <2>2
<1>6. IsFiniteSet(Writes') /\ Cardinality(Writes') \in Nat
  BY <1>2, FS_CardinalityType, FS_Subset DEF Writes
<1>7. MaxCalls \in Nat
  BY BoundsAssumption
<1> QED  BY <1>1, <1>2, <1>4, <1>5, <1>6, <1>7 DEF CallsCounted

\* A call that is over.
LEMMA ArrivalKeeps ==
  ASSUME CallsCounted, \A c \in calls : TypedCall(c), NEW c \in calls,
         calls' = calls \ {c}, sent' = sent
  PROVE  CallsCounted' /\ \A e \in calls' : TypedCall(e)
<1>1. IsFiniteSet(calls') /\ Cardinality(calls') <= Cardinality(calls)
  BY FS_Subset DEF CallsCounted
<1>2. IsFiniteSet(Writes) /\ Writes' \subseteq Writes
  BY FS_Subset DEF CallsCounted, Writes
<1>3. Cardinality(Writes') <= Cardinality(Writes)
  BY <1>2, FS_Subset
<1>4. /\ Cardinality(calls) \in Nat /\ Cardinality(calls') \in Nat
      /\ Cardinality(Writes) \in Nat /\ Cardinality(Writes') \in Nat
  BY <1>1, <1>2, FS_Subset, FS_CardinalityType DEF CallsCounted
<1>5. MaxCalls \in Nat
  BY BoundsAssumption
<1> QED  BY <1>1, <1>3, <1>4, <1>5 DEF CallsCounted

\* Calls that lose their dialog are no more than before.
LEMMA OrphansKeep ==
  ASSUME CallsCounted, \A c \in calls : TypedCall(c), calls' = Orphaned, sent' = sent
  PROVE  CallsCounted' /\ \A e \in calls' : TypedCall(e)
<1> DEFINE orphan == [c \in calls |-> [c EXCEPT !.closes = "nothing"]]
           write == [c \in Writes |-> [c EXCEPT !.closes = "nothing"]]
<1>1. \A c \in calls : TypedCall(orphan[c]) /\ (IsLoad(orphan[c]) <=> IsLoad(c))
  BY TypedStays
<1>2. orphan \in Surjection(calls, calls')
  BY DEF Surjection, Orphaned
<1>3. write \in Surjection(Writes, Writes')
  <2>1. ASSUME NEW c \in Writes PROVE write[c] \in Writes'
    <3>1. c \in calls /\ write[c] = orphan[c]
      BY DEF Writes
    <3>2. orphan[c] \in calls' /\ ~IsLoad(orphan[c])
      BY <1>1, <3>1 DEF Writes, Orphaned
    <3> QED  BY <3>1, <3>2 DEF Writes
  <2>2. ASSUME NEW d \in Writes' PROVE \E c \in Writes : write[c] = d
    <3>1. PICK c \in calls : d = orphan[c] /\ ~IsLoad(d)
      BY DEF Writes, Orphaned
    <3>2. c \in Writes /\ write[c] = d
      BY <1>1, <3>1 DEF Writes
    <3> QED  BY <3>2
  <2>3. write \in [Writes -> Writes']
    BY <2>1
  <2> QED  BY <2>2, <2>3 DEF Surjection
<1>4. IsFiniteSet(calls') /\ Cardinality(calls') <= Cardinality(calls)
  BY <1>2, FS_Surjection DEF CallsCounted
<1>5. IsFiniteSet(Writes)
  BY FS_Subset DEF CallsCounted, Writes
<1>6. IsFiniteSet(Writes') /\ Cardinality(Writes') <= Cardinality(Writes)
  BY <1>3, <1>5, FS_Surjection
<1>7. /\ Cardinality(calls) \in Nat /\ Cardinality(calls') \in Nat
      /\ Cardinality(Writes) \in Nat /\ Cardinality(Writes') \in Nat /\ MaxCalls \in Nat
  BY <1>4, <1>5, <1>6, FS_CardinalityType, BoundsAssumption DEF CallsCounted
<1>8. \A e \in calls' : TypedCall(e)
  BY <1>1 DEF Orphaned
<1> QED  BY <1>4, <1>6, <1>7, <1>8 DEF CallsCounted

\* The calls on their way keep their types and their number, whatever the step.
LEMMA CallsStay ==
  ASSUME IInv, TypeInv, [Next]_vars
  PROVE  CallsCounted' /\ \A c \in calls' : TypedCall(c)
<1> DEFINE Goal == CallsCounted' /\ \A c \in calls' : TypedCall(c)
<1> USE DEF TypeInv
<1>1. /\ MaxCalls \in Nat /\ sent \in Nat
      /\ IsFiniteSet(Writes) /\ Cardinality(Writes) \in Nat
      /\ Writes = {c \in calls : ~IsLoad(c)}
  BY BoundsAssumption, FS_Subset, FS_CardinalityType DEF CallsCounted, Writes
<1>2. CASE UNCHANGED <<calls, sent>>
  BY <1>2 DEF CallsCounted, Writes
<1>3. \A q \in Queries, k \in Closes :
        TypedCall(LoadCall(q, k)) /\ IsLoad(LoadCall(q, k))
  BY DEF LoadCall, IsLoad, TypedCall, Load, Answer
<1>4. ASSUME NEW q \in Queries, CallsLeft(1), Send(LoadCall(q, "nothing"), calls)
      PROVE  Goal
  <2>1. TypedCall(LoadCall(q, "nothing")) /\ IsLoad(LoadCall(q, "nothing"))
    BY <1>3 DEF Closes
  <2>2. sent + 1 + Cardinality(Writes) <= MaxCalls /\ sent < MaxCalls
    BY <1>1, <1>4 DEF CallsLeft
  <2> QED  BY <1>1, <1>4, <2>1, <2>2, SendKeeps
<1>5. ASSUME NEW call, TypedCall(call), ~IsLoad(call), CallsLeft(2), Send(call, calls)
      PROVE  Goal
  <2>1. sent + 2 + Cardinality(Writes) <= MaxCalls
    BY <1>1, <1>5 DEF CallsLeft
  <2>2. sent < MaxCalls /\ sent + 1 + Cardinality(Writes) + 1 <= MaxCalls
    BY <1>1, <2>1
  <2> QED  BY <1>1, <1>5, <2>2, SendKeeps
<1>6. CASE Confirm
  <2>1. pending \in Pending
    BY <1>6 DEF Confirm, PageTyped
  <2>2. TypedCall(TransitionCall) /\ ~IsLoad(TransitionCall)
    BY <2>1 DEF TransitionCall, TypedCall, IsLoad, IsCreate, Transition, Pending, PageTyped,
                Closes, Answer
  <2> QED  BY <1>5, <1>6, <2>2 DEF Confirm
<1>7. CASE ConfirmCreate
  <2>1. PICK code \in Codes :
          Send([n |-> 1, code |-> code, opening |-> Len(dialogs), role |-> role,
                closes |-> "showCreate", answer |-> "none"], calls)
    BY <1>7 DEF ConfirmCreate
  <2>2. PICK call : call = [n |-> 1, code |-> code, opening |-> Len(dialogs), role |-> role,
                            closes |-> "showCreate", answer |-> "none"]
    OBVIOUS
  <2>3. dialogs \in Seq(Nat) /\ dialogs # <<>> /\ Len(dialogs) <= MaxDialogs
    BY <1>7 DEF ConfirmCreate, PageTyped
  <2>4. Len(dialogs) \in 1 .. MaxDialogs
    BY <2>3, EmptySeq, LenProperties, BoundsAssumption
  <2>5. TypedCall(call) /\ ~IsLoad(call)
    BY <2>2, <2>4 DEF TypedCall, IsLoad, IsCreate, Create, PageTyped, Closes, Answer
  <2> QED  BY <1>5, <1>7, <2>1, <2>2, <2>5 DEF ConfirmCreate
<1>8. ASSUME NEW c \in calls, NEW a \in Answer, UNCHANGED sent,
             calls' = Answered(c, [c EXCEPT !.answer = a])
      PROVE  Goal
  <2>1. PICK d : d = [c EXCEPT !.answer = a]
    OBVIOUS
  <2>2. TypedCall(d) /\ (IsLoad(d) <=> IsLoad(c))
    BY <1>8, <2>1, TypedStays
  <2> QED  BY <1>8, <2>1, <2>2, AnswerKeeps
<1>9. ASSUME NEW c \in calls, CallFails(c) \/ Refuse(c) \/ Apply(c) \/ Insert(c) PROVE Goal
  <2>1. PICK a \in Answer : calls' = Answered(c, [c EXCEPT !.answer = a])
    BY <1>9 DEF CallFails, Refuse, Apply, Insert, Answer
  <2> QED  BY <1>8, <1>9, <2>1 DEF CallFails, Refuse, Apply, Insert
<1>10. ASSUME NEW c \in calls, AnswerLoad(c) PROVE Goal
  <2>1. PICK ids \in SUBSET {id \in Ids : rows[id].live} :
          calls' = Answered(c, [c EXCEPT !.answer = "ok", !.list = {Shown(id) : id \in ids}])
    BY <1>10 DEF AnswerLoad
  <2>2. PICK d : d = [c EXCEPT !.answer = "ok", !.list = {Shown(id) : id \in ids}]
    OBVIOUS
  <2>3. \A id \in ids : Shown(id) \in Item
    <3>1. \A id \in ids : /\ id \in Ids /\ rows[id].status \in Statuses
                          /\ rows[id].version \in Nat \ {0}
      BY DEF IInv, RowsFit, Row
    <3> QED  BY <3>1 DEF Shown, Item
  <2>4. IsLoad(c) /\ c \in Load
    BY <1>10 DEF AnswerLoad, TypedCall
  <2>5. d \in Load /\ IsLoad(d)
    BY <2>2, <2>3, <2>4 DEF Load, Answer, IsLoad
  <2>6. TypedCall(d) /\ UNCHANGED sent
    BY <1>10, <2>5 DEF TypedCall, AnswerLoad
  <2> QED  BY <2>1, <2>2, <2>4, <2>5, <2>6, AnswerKeeps
<1>11. ASSUME NEW c \in calls, LoadArrives(c) \/ LoadFails(c) \/ WriteFails(c) PROVE Goal
  BY <1>11, ArrivalKeeps DEF LoadArrives, LoadFails, WriteFails
<1>12. ASSUME NEW c \in calls, WriteArrives(c) PROVE Goal
  <2> DEFINE others == calls \ {c}
             kept == {d \in others : ~IsLoad(d)}
  <2>1. ~IsLoad(c) /\ Send(LoadCall(DefaultQuery, c.closes), others)
    BY <1>12 DEF WriteArrives
  <2>2. c.closes \in Closes
    BY <2>1 DEF TypedCall, Create, Transition
  <2>3. TypedCall(LoadCall(DefaultQuery, c.closes)) /\ IsLoad(LoadCall(DefaultQuery, c.closes))
    BY <1>3, <2>2, QueriesAssumption
  <2>4. kept = Writes \ {c} /\ c \in Writes
    BY <2>1 DEF Writes
  <2>5. Cardinality(kept) = Cardinality(Writes) - 1
    BY <1>1, <2>4, FS_RemoveElement
  <2>6. IsFiniteSet(kept) /\ Cardinality(kept) \in Nat
    BY <1>1, <2>4, FS_Subset, FS_CardinalityType
  <2>7. sent + 1 + Cardinality(kept) <= MaxCalls /\ sent < MaxCalls
    BY <1>1, <2>5, <2>6 DEF CallsCounted
  <2>8. others \in SUBSET calls
    OBVIOUS
  <2> HIDE DEF others
  <2>9. sent + 1 + Cardinality(kept) + 0 <= MaxCalls
    BY <1>1, <2>6, <2>7
  <2> QED  BY <2>1, <2>3, <2>7, <2>8, <2>9, SendKeeps
<1>13. CASE SwitchRole
  BY <1>13, OrphansKeep DEF SwitchRole
<1>14. CASE RoleSwitched
  BY <1>4, <1>14, QueriesAssumption DEF RoleSwitched
<1>15. ASSUME NEW q \in Queries, Submit(q) PROVE Goal
  BY <1>4, <1>15 DEF Submit
<1> HIDE DEF TypeInv
<1> QED
  BY <1>2, <1>6, <1>7, <1>9, <1>10, <1>11, <1>12, <1>13, <1>14, <1>15
     DEF Next, vars, User, Backend, Arrives, OpenDialog, CancelDialog, OpenCreate, CancelCreate,
         SomebodyChanges

\* What the page is set to and has open keeps its types.  A creation counts for
\* an opening of the dialog that there was.
LEMMA PageStays ==
  ASSUME IInv, IInv', TypeInv, [Next]_vars
  PROVE  PageTyped'
<1> USE DEF TypeInv
<1>1. CASE UNCHANGED <<page>>
  BY <1>1 DEF page, dialog, PageTyped
<1>2. ASSUME NEW q \in Queries, Submit(q) PROVE PageTyped'
  BY <1>2 DEF Submit, PageTyped, dialog
<1>3. ASSUME NEW item \in items, OpenDialog(item) PROVE PageTyped'
  <2>1. pending' = [item |-> item, status |-> nextPermittedStatus(item.status)]
        /\ nextPermittedStatus(item.status) # Null
    BY <1>3 DEF OpenDialog
  <2>2. item \in Item /\ item.status \in Statuses /\ CanReview(role) \in BOOLEAN
    BY DEF StoreTyped, Item, CanReview
  <2>3. nextPermittedStatus(item.status) \in Statuses
    BY <2>1, <2>2, OffersArePermitted, WorkflowTypes DEF nextPermittedStatus
  <2>4. pending' \in Pending
    BY <2>1, <2>2, <2>3 DEF Pending
  <2> QED  BY <1>3, <2>4 DEF OpenDialog, PageTyped, dialog
<1>4. CASE CancelDialog
  BY <1>4 DEF CancelDialog, PageTyped, dialog
<1>5. CASE OpenCreate
  <2>1. dialogs \in Seq(Nat) /\ Len(dialogs) \in Nat /\ Len(dialogs) < MaxDialogs
        /\ dialogs' = Append(dialogs, 0)
    BY <1>5, LenProperties DEF OpenCreate, PageTyped
  <2>2. /\ dialogs' \in Seq(Nat) /\ dialogs' # <<>>
        /\ Len(dialogs') = Len(dialogs) + 1
    BY <2>1, AppendProperties
  <2>3. Len(dialogs') <= MaxDialogs
    BY <2>1, <2>2, BoundsAssumption
  <2> QED  BY <1>5, <2>2, <2>3 DEF OpenCreate, PageTyped
<1>6. CASE CancelCreate
  BY <1>6 DEF CancelCreate, PageTyped
<1>7. CASE SwitchRole
  BY <1>7, QueriesAssumption DEF SwitchRole, PageTyped
<1>8. CASE RoleSwitched
  BY <1>8 DEF RoleSwitched, PageTyped, dialog
<1>9. ASSUME NEW c \in calls, Insert(c) PROVE PageTyped'
  <2>1. dialogs \in Seq(Nat) /\ dialogs \in [1 .. Len(dialogs) -> Nat] /\ Len(dialogs) \in Nat
    BY LenProperties DEF PageTyped
  <2>2. dialogs' = [dialogs EXCEPT ![c.opening] = @ + 1]
    BY <1>9 DEF Insert
  <2>3. dialogs' \in Seq(Nat) /\ Len(dialogs') = Len(dialogs)
    <3>1. CASE c.opening \in 1 .. Len(dialogs)
      <4>1. dialogs[c.opening] + 1 \in Nat
        BY <2>1, <3>1
      <4>2. PICK n \in Nat : n = dialogs[c.opening] + 1
        BY <4>1
      <4>3. dialogs' = [dialogs EXCEPT ![c.opening] = n]
        BY <2>2, <4>2
      <4> QED  BY <2>1, <3>1, <4>3, ExceptSeq
    <3>2. CASE c.opening \notin 1 .. Len(dialogs)
      <4>1. dialogs' = dialogs
        BY <2>1, <2>2, <3>2
      <4> QED  BY <2>1, <4>1
    <3> QED  BY <3>1, <3>2
  <2>4. dialogs' # <<>> \/ dialogs = <<>>
    <3>1. dialogs # <<>> => Len(dialogs) # 0
      BY <2>1, EmptySeq
    <3>2. Len(<<>>) = 0
      BY EmptySeq
    <3> QED  BY <2>3, <3>1, <3>2
  <2> QED  BY <1>9, <2>3, <2>4 DEF Insert, PageTyped
<1>10. ASSUME NEW c \in calls, LoadArrives(c) \/ LoadFails(c) PROVE PageTyped'
  <2>1. Close(c) /\ UNCHANGED <<role, mounted, query, dialogs>>
    BY <1>10 DEF LoadArrives, LoadFails
  <2>2. /\ pending' \in Pending \cup {Null}
        /\ showCreate' \in BOOLEAN /\ (showCreate' => showCreate)
    BY <2>1 DEF Close, PageTyped
  <2> QED  BY <2>1, <2>2 DEF PageTyped
<1> HIDE DEF TypeInv
<1>11. ASSUME NEW c \in calls, CallFails(c) \/ AnswerLoad(c) \/ Apply(c) \/ Refuse(c)
                                 \/ WriteArrives(c) \/ WriteFails(c)
       PROVE  UNCHANGED page
  BY <1>11 DEF CallFails, AnswerLoad, Apply, Refuse, WriteArrives, WriteFails
<1>12. ASSUME NEW id \in Ids, SomebodyChanges(id) PROVE UNCHANGED page
  BY <1>12 DEF SomebodyChanges
<1>13. CASE Confirm \/ ConfirmCreate
  BY <1>1, <1>13 DEF Confirm, ConfirmCreate
<1> QED
  BY <1>1, <1>2, <1>3, <1>4, <1>5, <1>6, <1>7, <1>8, <1>9, <1>10, <1>11, <1>12, <1>13
     DEF Next, vars, User, Backend, Arrives

\* The store only takes lists that a call of its type brings.
LEMMA StoreStays ==
  ASSUME IInv, IInv', TypeInv, [Next]_vars
  PROVE  StoreTyped'
<1>1. items' \subseteq Item
  BY DEF IInv, Knows
<1>2. StoreTyped
  BY DEF TypeInv
<1>3. CASE UNCHANGED store
  BY <1>2, <1>3 DEF StoreTyped, store
<1>4. CASE loading' \in BOOLEAN /\ failed' \in BOOLEAN
  BY <1>1, <1>4 DEF StoreTyped
<1>5. ASSUME NEW call, NEW others, Send(call, others) PROVE StoreTyped'
  BY <1>4, <1>5 DEF Send
<1>6. ASSUME NEW c \in calls, Arrives(c) PROVE StoreTyped'
  BY <1>2, <1>4, <1>5, <1>6
     DEF Arrives, LoadArrives, LoadFails, WriteArrives, WriteFails, StoreTyped
<1>7. ASSUME NEW c \in calls, Backend(c) PROVE StoreTyped'
  BY <1>3, <1>7 DEF Backend, CallFails, AnswerLoad, Apply, Insert, Refuse
<1> QED
  BY <1>3, <1>5, <1>6, <1>7
     DEF Next, vars, User, Submit, OpenDialog, CancelDialog, Confirm, OpenCreate, CancelCreate,
         ConfirmCreate, SwitchRole, RoleSwitched, SomebodyChanges

\* The variables of the page hold values of their types, and no more calls are
\* sent than the bound: a write keeps room for its reload, whenever it is
\* confirmed and whatever else is on its way.
THEOREM TypeCorrect == Spec => []TypeOK
<1>1. Init => TypeInv
  <2> SUFFICES ASSUME Init PROVE TypeInv
    OBVIOUS
  <2>1. IInv
    BY Initially
  <2>2. PageTyped /\ StoreTyped
    <3>1. <<>> \in Seq(Nat) /\ Len(<<>>) = 0
      BY EmptySeq
    <3>2. MaxDialogs \in Nat /\ Len(<<>>) <= MaxDialogs
      BY <3>1, BoundsAssumption
    <3> QED  BY <3>1, <3>2, QueriesAssumption DEF Init, PageTyped, StoreTyped
  <2>3. PICK call : call = [n |-> 1, query |-> DefaultQuery, closes |-> "nothing",
                            answer |-> "none", list |-> {}]
    OBVIOUS
  <2>4. calls = {call} /\ sent = 1 /\ IsLoad(call) /\ TypedCall(call)
    BY <2>3, QueriesAssumption DEF Init, IsLoad, TypedCall, Load, Closes, Answer
  <2>5. Writes = {}
    BY <2>4 DEF Writes
  <2>6. CallsCounted
    <3>1. IsFiniteSet(calls) /\ Cardinality(calls) = 1 /\ Cardinality(Writes) = 0
      BY <2>4, <2>5, FS_Singleton, FS_EmptySet
    <3>2. MaxCalls \in Nat /\ MaxCalls > 0
      BY BoundsAssumption
    <3> QED  BY <2>4, <3>1, <3>2 DEF CallsCounted
  <2>7. rows \in [Ids -> Row]
    BY <2>1 DEF IInv, RowsFit
  <2>8. changes \in 0 .. MaxChanges
    BY BoundsAssumption DEF Init
  <2>9. \A c \in calls : TypedCall(c)
    BY <2>4
  <2> QED  BY <2>2, <2>6, <2>7, <2>8, <2>9 DEF TypeInv
<1>2. IInv /\ IInv' /\ TypeInv /\ [Next]_vars => TypeInv'
  <2> SUFFICES ASSUME IInv, IInv', TypeInv, [Next]_vars PROVE TypeInv'
    OBVIOUS
  <2>1. PageTyped' /\ StoreTyped' /\ CallsCounted' /\ \A c \in calls' : TypedCall(c)
    BY PageStays, StoreStays, CallsStay
  <2>2. changes \in 0 .. MaxChanges /\ MaxChanges \in Nat
    BY BoundsAssumption DEF TypeInv
  <2>3. CASE changes' = changes
    BY <2>1, <2>2, <2>3 DEF TypeInv, IInv, RowsFit
  <2>4. ASSUME NEW id \in Ids, SomebodyChanges(id) PROVE TypeInv'
    <3>1. changes' = changes + 1 /\ changes < MaxChanges
      BY <2>4 DEF SomebodyChanges
    <3>2. changes' \in 0 .. MaxChanges
      BY <2>2, <3>1
    <3> QED  BY <2>1, <3>2 DEF TypeInv, IInv, RowsFit
  <2>5. ASSUME NEW c \in calls, Backend(c) \/ Arrives(c) PROVE changes' = changes
    BY <2>5 DEF Backend, Arrives, server, CallFails, AnswerLoad, Apply, Insert, Refuse,
                LoadArrives, LoadFails, WriteArrives, WriteFails
  <2>6. ASSUME User \/ RoleSwitched PROVE changes' = changes
    BY <2>6 DEF User, server, Submit, OpenDialog, CancelDialog, Confirm, OpenCreate,
                CancelCreate, ConfirmCreate, SwitchRole, RoleSwitched
  <2> QED  BY <2>3, <2>4, <2>5, <2>6 DEF Next, vars, server
<1>3. TypeInv => TypeOK
  <2> SUFFICES ASSUME TypeInv PROVE TypeOK
    OBVIOUS
  <2>1. sent \in 0 .. MaxCalls
    <3>1. Cardinality(Writes) \in Nat /\ MaxCalls \in Nat
      BY FS_Subset, FS_CardinalityType, BoundsAssumption DEF TypeInv, CallsCounted, Writes
    <3> QED  BY <3>1 DEF TypeInv, CallsCounted
  <2> QED  BY <2>1 DEF TypeInv, TypeOK, PageTyped, StoreTyped, TypedCall
<1> QED  BY <1>1, <1>2, <1>3, Inductive, PTL DEF Spec

-----------------------------------------------------------------------------

\* The page is busy only while it waits for a call, those of a page that a role
\* switch replaced included: no error and no order of answers leaves the flag up
\* with nothing to take it back.  LoadingEnds rests on it.
THEOREM BusyOnlyForCalls == Spec => [](loading => calls # {})
<1> DEFINE Inv == loading => calls # {}
<1>1. Init => Inv
  BY DEF Init
<1>2. Inv /\ [Next]_vars => Inv'
  <2> SUFFICES ASSUME Inv, [Next]_vars PROVE Inv'
    OBVIOUS
  <2>1. CASE UNCHANGED <<loading, calls>>
    BY <2>1
  <2>2. ASSUME NEW call, NEW others, Send(call, others) PROVE calls' # {}
    BY <2>2 DEF Send
  <2>3. CASE SwitchRole
    BY <2>3 DEF SwitchRole, Orphaned, store
  <2>4. ASSUME NEW c \in calls, Backend(c) PROVE calls' # {}
    BY <2>4 DEF Backend, CallFails, AnswerLoad, Apply, Insert, Refuse, Answered
  <2>5. ASSUME NEW c \in calls, Arrives(c) PROVE Inv'
    BY <2>2, <2>5 DEF Arrives, LoadArrives, LoadFails, WriteArrives, WriteFails
  <2>6. ASSUME User, ~SwitchRole PROVE Inv'
    BY <2>1, <2>2, <2>6
       DEF User, Submit, OpenDialog, CancelDialog, Confirm, OpenCreate, CancelCreate,
           ConfirmCreate, store
  <2>7. ASSUME NEW id \in Ids, SomebodyChanges(id) PROVE Inv'
    BY <2>1, <2>7 DEF SomebodyChanges, store
  <2>8. ASSUME RoleSwitched PROVE Inv'
    BY <2>2, <2>8 DEF RoleSwitched
  <2> QED  BY <2>1, <2>3, <2>4, <2>5, <2>6, <2>7, <2>8 DEF Next, vars, store
<1> QED  BY <1>1, <1>2, PTL DEF Spec
=============================================================================
