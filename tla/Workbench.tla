----------------------------- MODULE Workbench -----------------------------
(***************************************************************************)
(* One page of the web client (EntityPage over its store) working on the   *)
(* records of one kind, while other people change them.  The page shows    *)
(* the records of its last list, offers for each of them one next status,  *)
(* asks in a dialog, and sends the transition with the version it shows.   *)
(* Another dialog creates a record, whose code is made from the clock.     *)
(*                                                                         *)
(* Calls to the backend overlap, and their answers come in any order.  The *)
(* backend takes each call at one moment, as RecordRefinement shows of it. *)
(* Search text and page are one opaque value: the default query, of the    *)
(* first page without search text, selects all live records, which are few *)
(* (bound of the model), and any other query may select any of them.  The  *)
(* dialog with the details of a record only shows them and is left out.    *)
(***************************************************************************)
EXTENDS Workflow, FiniteSets, Sequences

CONSTANTS
  Ids,           \* records
  Fresh,         \* those that are not there at first
  Codes,         \* codes the page makes: six digits of the clock
  Queries,       \* what the user may search for and page to
  Roles,         \* roles the user may switch to
  DefaultQuery,  \* the first page without search text
  Null,          \* no status, no dialog, no list, a code of another form
  MaxCalls,      \* bound of the model: calls the page sends
  MaxDialogs,    \* bound of the model: openings of the create dialog
  MaxChanges     \* bound of the model: changes by other people

ASSUME RolesAssumption == Roles \subseteq AllRoles
ASSUME QueriesAssumption == DefaultQuery \in Queries
ASSUME FreshAssumption == Fresh \subseteq Ids
ASSUME BoundsAssumption == {MaxCalls, MaxDialogs, MaxChanges} \subseteq Nat /\ MaxCalls > 0

VARIABLES
  rows,      \* the backend's records
  changes,   \* changes by other people so far
  role,      \* the role of the session: of the token and of the page
  mounted,   \* FALSE while a role switch replaces the page by a notice
  query,     \* submittedSearch and page
  pending,   \* the transition the open dialog asks about
  showCreate, \* whether the create dialog is open
  dialogs,   \* history: how many records each opening of it has made
  items,     \* the store: the records shown,
  loading,   \*   and its flags
  failed,
  calls,     \* calls that have not come back
  sent       \* how many were sent

dialog == <<showCreate, dialogs>>
page == <<role, mounted, query, pending, dialog>>
store == <<items, loading, failed>>
server == <<rows, changes>>
vars == <<server, page, store, calls, sent>>

-----------------------------------------------------------------------------
\* A row of version 0 was not inserted yet.
Row == [live : BOOLEAN, status : Statuses, version : Nat, code : Codes \cup {Null}]

\* What the page knows of a record.
Item == [id : Ids, status : Statuses, version : Nat \ {0}]

Shown(id) == [id |-> id, status |-> rows[id].status, version |-> rows[id].version]

Changed(item) == ~rows[item.id].live \/ Shown(item.id) # item

Pending == [item : Item, status : Statuses]

\* `closes`: the dialog that is closed at the end of this call and its reload.
Closes == {"nothing", "pending", "showCreate"}

Answer == {"none", "failed", "ok"}

Load == [n : Nat, query : Queries, closes : Closes, answer : Answer, list : SUBSET Item]

Transition == [n : Nat, item : Item, status : Statuses, role : Roles,
               closes : Closes, answer : Answer]

Create == [n : Nat, code : Codes, opening : 1 .. MaxDialogs, role : Roles,
           closes : Closes, answer : Answer]

IsLoad(c) == "query" \in DOMAIN c
IsTransition(c) == "item" \in DOMAIN c
IsCreate(c) == "code" \in DOMAIN c

-----------------------------------------------------------------------------
(* What the page offers.                                                   *)

Offers(reviewer) ==
  LET ifReviewer(status) == IF reviewer THEN status ELSE Null
  IN  CASE Kind = "PressUnit" ->
             [ready |-> "setup", setup |-> "printing", printing |-> "maintenance",
              maintenance |-> "printing"]
        [] Kind = "PrintRun" ->
             [setup |-> "printing", printing |-> "proofing",
              proofing |-> IF reviewer THEN "released" ELSE "hold",
              hold |-> "proofing", released |-> ifReviewer("hold")]
        [] Kind = "ColorProof" ->
             [captured |-> "review", review |-> ifReviewer("accepted"),
              accepted |-> ifReviewer("review"), rejected |-> ifReviewer("review")]
        [] Kind = "ReleaseDecision" ->
             [draft |-> IF reviewer THEN "release" ELSE "rework",
              release |-> ifReviewer("rework"), rework |-> ifReviewer("release"),
              quarantine |-> ifReviewer("rework")]

nextPermittedStatus(current) == Offers(CanReview(role))[current]

CanWrite == RequireMinimumRole(role, "operator")

-----------------------------------------------------------------------------
Init ==
  /\ \E seeded \in [Ids -> Rules.seeded] :
       rows = [id \in Ids |->
         IF id \in Fresh
           THEN [live |-> FALSE, status |-> Rules.initial, version |-> 0, code |-> Null]
           ELSE [live |-> TRUE, status |-> seeded[id], version |-> 1, code |-> Null]]
  /\ changes = 0
  /\ role \in Roles
  /\ mounted = TRUE
  /\ query = DefaultQuery
  /\ pending = Null
  /\ showCreate = FALSE /\ dialogs = <<>>
  /\ items = {}
  /\ loading = TRUE
  /\ failed = FALSE
  /\ calls = {[n |-> 1, query |-> DefaultQuery, closes |-> "nothing",
               answer |-> "none", list |-> {}]}
  /\ sent = 1

\* What a call asks for.
Asked(c) == [f \in DOMAIN c \ {"n", "closes", "answer", "list"} |-> c[f]]

\* Tells two calls that ask for the same apart while both are on their way.
Numbered(call) ==
  [call EXCEPT !.n = CHOOSE n \in 1 .. MaxCalls :
                       \A c \in calls : c.n = n => Asked(c) # Asked(call)]

LoadCall(q, closes) ==
  [n |-> 1, query |-> q, closes |-> closes, answer |-> "none", list |-> {}]

\* Bound of the model: n more calls, and the reloads that are still to come.
CallsLeft(n) == sent + n + Cardinality({c \in calls : ~IsLoad(c)}) <= MaxCalls

\* The head of load and of transition: set({ loading: true, error: '' }).
Send(call, others) ==
  /\ sent' = sent + 1
  /\ calls' = others \cup {Numbered(call)}
  /\ loading' = TRUE
  /\ failed' = FALSE

\* The user submits another search text or turns the page; the effect loads it.
Submit(q) ==
  /\ mounted
  /\ q # query
  /\ CallsLeft(1)
  /\ query' = q
  /\ Send(LoadCall(q, "nothing"), calls)
  /\ UNCHANGED <<server, role, mounted, pending, dialog, items>>

\* Mutant: the button is there without a status to go to.
OpenDialogAnyway(item) ==
  /\ mounted
  /\ CanWrite
  /\ pending' = [item |-> item, status |-> nextPermittedStatus(item.status)]
  /\ UNCHANGED <<server, role, mounted, query, dialog, store, calls, sent>>

\* The button of a row, with the row as it is shown.
OpenDialog(item) ==
  /\ mounted
  /\ CanWrite
  /\ nextPermittedStatus(item.status) # Null
  /\ pending' = [item |-> item, status |-> nextPermittedStatus(item.status)]
  /\ UNCHANGED <<server, role, mounted, query, dialog, store, calls, sent>>

CancelDialog ==
  /\ pending # Null
  /\ pending' = Null
  /\ UNCHANGED <<server, role, mounted, query, dialog, store, calls, sent>>

\* Mutant: the version is looked up in the list as it is now.
TransitionCallOfList ==
  LET now == {i \in items : i.id = pending.item.id}
      version == IF now = {} THEN pending.item.version ELSE (CHOOSE i \in now : TRUE).version
  IN  [n |-> 1, item |-> [pending.item EXCEPT !.version = version],
       status |-> pending.status, role |-> role, closes |-> "pending", answer |-> "none"]

TransitionCall ==
  [n |-> 1, item |-> pending.item, status |-> pending.status,
   role |-> role, closes |-> "pending", answer |-> "none"]

\* The dialog stays open, and its button enabled, until the reload is back.
Confirm ==
  /\ pending # Null
  /\ CallsLeft(2)
  /\ Send(TransitionCall, calls)
  /\ UNCHANGED <<server, page, items>>

OpenCreate ==
  /\ mounted
  /\ CanWrite
  /\ ~showCreate
  /\ Len(dialogs) < MaxDialogs
  /\ showCreate' = TRUE
  /\ dialogs' = Append(dialogs, 0)
  /\ UNCHANGED <<server, role, mounted, query, pending, store, calls, sent>>

CancelCreate ==
  /\ showCreate
  /\ showCreate' = FALSE
  /\ UNCHANGED <<server, role, mounted, query, pending, dialogs, store, calls, sent>>

\* createDemo: each confirmation makes a code of its own.
ConfirmCreate ==
  /\ showCreate
  /\ CallsLeft(2)
  /\ \E code \in Codes :
       Send([n |-> 1, code |-> code, opening |-> Len(dialogs), role |-> role,
             closes |-> "showCreate", answer |-> "none"], calls)
  /\ UNCHANGED <<server, page, items>>

-----------------------------------------------------------------------------
(* The backend.                                                            *)

Answered(c, answer) == (calls \ {c}) \cup {answer}

AnswerLoad(c) ==
  /\ IsLoad(c) /\ c.answer = "none"
  /\ \E ids \in SUBSET {id \in Ids : rows[id].live} :
       /\ c.query = DefaultQuery => \A id \in Ids : rows[id].live => id \in ids
       /\ calls' = Answered(c, [c EXCEPT !.answer = "ok", !.list = {Shown(id) : id \in ids}])
  /\ UNCHANGED <<server, page, store, sent>>

\* Codes are unique among withdrawn records, too.
CodeTaken(code) == \E id \in Ids : rows[id].code = code

\* The checks on the row as it is, and then the version.
Accepted(c) ==
  /\ rows[c.item.id].live
  /\ RequireMinimumRole(c.role, "operator")
  /\ NeedsReview(rows[c.item.id].status, c.status) => CanReview(c.role)
  /\ CanTransition(rows[c.item.id].status, c.status)
  /\ rows[c.item.id].version = c.item.version

\* The answer to a transition that was done may be an error all the same, when
\* its audit row fails or its answer is lost.
Apply(c) ==
  /\ IsTransition(c) /\ c.answer = "none"
  /\ Accepted(c)
  /\ rows' = [rows EXCEPT ![c.item.id].status = c.status, ![c.item.id].version = @ + 1]
  /\ \E a \in {"ok", "failed"} : calls' = Answered(c, [c EXCEPT !.answer = a])
  /\ UNCHANGED <<changes, page, store, sent>>

Insertable(c) == RequireMinimumRole(c.role, "operator") /\ ~CodeTaken(c.code)

Inserted(code) == [live |-> TRUE, status |-> Rules.initial, version |-> 1, code |-> code]

Insert(c) ==
  /\ IsCreate(c) /\ c.answer = "none"
  /\ Insertable(c)
  /\ \E id \in Ids : rows[id].version = 0 /\ rows' = [rows EXCEPT ![id] = Inserted(c.code)]
  /\ dialogs' = [dialogs EXCEPT ![c.opening] = @ + 1]
  /\ \E a \in {"ok", "failed"} : calls' = Answered(c, [c EXCEPT !.answer = a])
  /\ UNCHANGED <<changes, role, mounted, query, pending, showCreate, store, sent>>

Refuse(c) ==
  /\ c.answer = "none"
  /\ \/ IsTransition(c) /\ ~Accepted(c)
     \/ IsCreate(c) /\ ~Insertable(c)
  /\ calls' = Answered(c, [c EXCEPT !.answer = "failed"])
  /\ UNCHANGED <<server, page, store, sent>>

\* Nothing is done: 429, a database error, or a connection that breaks.
CallFails(c) ==
  /\ c.answer = "none"
  /\ calls' = Answered(c, [c EXCEPT !.answer = "failed"])
  /\ UNCHANGED <<server, page, store, sent>>

\* Other people edit, advance, withdraw or create a record.
SomebodyChanges(id) ==
  /\ changes < MaxChanges
  /\ changes' = changes + 1
  /\ \/ /\ rows[id].live
        /\ \E status \in Statuses :
             /\ status = rows[id].status \/ CanTransition(rows[id].status, status)
             /\ rows' = [rows EXCEPT ![id].status = status, ![id].version = @ + 1]
     \/ rows[id].live /\ rows' = [rows EXCEPT ![id].live = FALSE]
     \/ /\ rows[id].version = 0
        /\ \E code \in Codes :
             ~CodeTaken(code) /\ rows' = [rows EXCEPT ![id] = Inserted(code)]
  /\ UNCHANGED <<page, store, calls, sent>>

-----------------------------------------------------------------------------
(* Answers reach the page, in any order.                                   *)

\* What waits for the call closes its dialog, whichever it is by now.
Close(c) ==
  /\ pending' = IF c.closes = "pending" THEN Null ELSE pending
  /\ showCreate' = (showCreate /\ c.closes # "showCreate")

LoadArrives(c) ==
  /\ IsLoad(c) /\ c.answer = "ok"
  /\ calls' = calls \ {c}
  /\ items' = c.list
  /\ loading' = FALSE
  /\ Close(c)
  /\ UNCHANGED <<server, role, mounted, query, dialogs, failed, sent>>

\* load catches its error itself, so that what waits for it goes on.
LoadFails(c) ==
  /\ IsLoad(c) /\ c.answer = "failed"
  /\ calls' = calls \ {c}
  /\ loading' = FALSE
  /\ failed' = TRUE
  /\ Close(c)
  /\ UNCHANGED <<server, role, mounted, query, dialogs, items, sent>>

\* await get().load(path): the first page, without the search text.
WriteArrives(c) ==
  /\ ~IsLoad(c) /\ c.answer = "ok"
  /\ Send(LoadCall(DefaultQuery, c.closes), calls \ {c})
  /\ UNCHANGED <<server, page, items>>

\* Mutant: the catch does not put the loading flag back.
WriteFailsLoading(c) ==
  /\ ~IsLoad(c) /\ c.answer = "failed"
  /\ calls' = calls \ {c}
  /\ failed' = TRUE
  /\ UNCHANGED <<server, page, items, loading, sent>>

\* The dialog stays open with what it asked about.
WriteFails(c) ==
  /\ ~IsLoad(c) /\ c.answer = "failed"
  /\ calls' = calls \ {c}
  /\ loading' = FALSE
  /\ failed' = TRUE
  /\ UNCHANGED <<server, page, items, sent>>

-----------------------------------------------------------------------------
(* switchRole: App shows a notice in place of the page until the login is  *)
(* back, so that the page starts anew; the store keeps its records.  Calls *)
(* of the old page can no longer close a dialog.                           *)

Orphaned == {[c EXCEPT !.closes = "nothing"] : c \in calls}

\* Mutant: the page is hidden but keeps its dialog.
SwitchRoleKeepsDialog ==
  /\ mounted
  /\ mounted' = FALSE
  /\ query' = DefaultQuery
  /\ calls' = Orphaned
  /\ UNCHANGED <<server, role, pending, dialog, store, sent>>

SwitchRole ==
  /\ mounted
  /\ mounted' = FALSE
  /\ query' = DefaultQuery
  /\ pending' = Null
  /\ showCreate' = FALSE
  /\ calls' = Orphaned
  /\ UNCHANGED <<server, role, dialogs, store, sent>>

\* The login succeeds, or fails and leaves the role as it was.
RoleSwitched ==
  /\ ~mounted
  /\ CallsLeft(1)
  /\ mounted' = TRUE
  /\ role' \in Roles
  /\ Send(LoadCall(DefaultQuery, "nothing"), calls)
  /\ UNCHANGED <<server, query, pending, dialog, items>>

-----------------------------------------------------------------------------
User ==
  \/ \E q \in Queries : Submit(q)
  \/ \E item \in items : OpenDialog(item)
  \/ CancelDialog \/ Confirm
  \/ OpenCreate \/ CancelCreate \/ ConfirmCreate
  \/ SwitchRole

Backend(c) == CallFails(c) \/ AnswerLoad(c) \/ Apply(c) \/ Insert(c) \/ Refuse(c)

Arrives(c) == LoadArrives(c) \/ LoadFails(c) \/ WriteArrives(c) \/ WriteFails(c)

Next ==
  \/ User \/ RoleSwitched
  \/ \E c \in calls : Backend(c) \/ Arrives(c)
  \/ \E id \in Ids : SomebodyChanges(id)

Spec == Init /\ [][Next]_vars

\* Every call is answered (the proxy and the server time out), and every answer
\* is delivered to the page; each of these steps changes calls.
FairSpec == Spec /\ WF_calls(\E c \in calls : Backend(c) \/ Arrives(c))
-----------------------------------------------------------------------------

\* All variables hold values of their types.
TypeOK ==
  /\ rows \in [Ids -> Row]
  /\ changes \in 0 .. MaxChanges
  /\ role \in Roles /\ mounted \in BOOLEAN /\ query \in Queries
  /\ pending \in Pending \cup {Null}
  /\ showCreate \in BOOLEAN /\ dialogs \in Seq(Nat) /\ Len(dialogs) <= MaxDialogs
  /\ items \subseteq Item
  /\ loading \in BOOLEAN /\ failed \in BOOLEAN
  /\ \A c \in calls : c \in (IF IsLoad(c) THEN Load
                            ELSE IF IsCreate(c) THEN Create ELSE Transition)
  /\ sent \in 0 .. MaxCalls

Asking == {c \in calls : IsTransition(c) /\ c.answer = "none"}

\* The page never offers what the backend will not do: a transition the user
\* confirmed is refused only when the record has been changed since it was
\* shown, and a record only when the code made of the clock is taken.  The
\* page's own table of next statuses, the roles it asks for, the dialog it keeps
\* through errors but not through role switches, and the backend's graphs and
\* review gates have to agree for that.
RefusedOnlyWhenChanged ==
  /\ \A c \in Asking : ~Accepted(c) => Changed(c.item)
  /\ \A c \in calls :
       IsCreate(c) /\ c.answer = "none" /\ ~Insertable(c) => CodeTaken(c.code)

\* What happens is what the dialog said: a confirmed transition is accepted
\* only while the record is in the status that the dialog shows it leaving,
\* however old the dialog and however often it was confirmed.
ConfirmedIsApplied ==
  \A c \in Asking : Accepted(c) => rows[c.item.id].status = c.item.status

\* The page does not stay busy: every call, those that a transition causes
\* included, ends in an answer or an error that takes the loading flag back.
LoadingEnds == loading ~> ~loading

-----------------------------------------------------------------------------
(* What the page says of itself.                                           *)

\* The create dialog says that one record will be created: an opening of it
\* makes no more, however often it is confirmed and whatever answers get lost.
OneRecordPerDialog == \A i \in DOMAIN dialogs : dialogs[i] <= 1
=============================================================================
