--------------------------- MODULE RecordService ---------------------------
(***************************************************************************)
(* One record kind of the backend (a handler, its service, its repository  *)
(* and their tables) serving concurrent HTTP requests.  Every request runs *)
(* in a goroutine of its own and takes one step per database call:         *)
(*                                                                         *)
(*   idle --read and check--> checked --write--> written --audit--> fetch  *)
(*        --read back the row--> preload --read the revisions--> done      *)
(*                                                                         *)
(* Two requests interleave at these points.  A write and the revision it   *)
(* leaves are one transaction; the audit row is a later statement of its   *)
(* own, and so are the two halves of a read of a versioned record.         *)
(*                                                                         *)
(* A row's business fields are abstracted, group by group, to the request  *)
(* that wrote them last: two edits are never the same, so a lost one       *)
(* shows.  A revision copies some of the groups only (Rules.copied).       *)
(***************************************************************************)
EXTENDS Workflow, FiniteSets

CONSTANTS
  Reqs,              \* the HTTP requests; each is sent once and is its own X-Request-ID
  Ids,               \* primary keys
  Codes,             \* business codes, unique in the table
  Roles,             \* roles the callers hold
  PredictedVersions, \* versions a client may claim without having read them;
                     \* {} when clients send only versions they were given
  Null               \* no request, no record, no code

ASSUME NullAssumption == Null \notin Reqs \cup Ids \cup Codes
ASSUME RolesAssumption == Roles \subseteq AllRoles
ASSUME VersionsAssumption == PredictedVersions \subseteq Nat \ {0}

VARIABLES
  rows,      \* the table: one row per primary key
  revisions, \* the revision table of a versioned kind
  audits,    \* the audit_logs rows about this table
  pc,        \* where the goroutine of each request is
  job,       \* its local variables: the input and the `current` it writes back
  answer     \* what its client has been told

vars == <<rows, revisions, audits, pc, job, answer>>

-----------------------------------------------------------------------------
Phases == {"idle", "checked", "written", "fetch", "preload", "done"}
Ops == {"none", "create", "update", "transition", "delete", "get"}
Results == {"none", "ok", "not_found", "forbidden", "business_rule",
            "record_locked", "version_conflict", "internal_error", "lost"}

Authors == Reqs \cup {Null}  \* Null is the author "seed"

Content == [Fields -> Authors]

\* The fields of one input: the author has filled in all of them.
Written(author) == [f \in Fields |-> author]

\* What a revision keeps of a row's fields.
Snapshot(content) == [f \in Rules.copied |-> content[f]]

Row == [state : {"absent", "live", "deleted"}, code : Codes \cup {Null},
        status : Statuses \cup {Null}, version : Nat, content : Content]

Revision == [id : Ids, version : Nat, status : Statuses,
             content : [Rules.copied -> Authors], author : Authors]

Audit == [req : Reqs, action : Ops, id : Ids, before : Statuses \cup {Null},
          after : Statuses \cup {Null}]

Job == [op : Ops, role : Roles \cup {Null}, id : Ids \cup {Null},
        code : Codes \cup {Null}, expected : Nat,
        before : Statuses \cup {Null}, status : Statuses \cup {Null},
        content : Content, wrote : BOOLEAN]

Answer == [result : Results, version : Nat, chain : SUBSET Nat]

Absent == [state |-> "absent", code |-> Null, status |-> Null, version |-> 0,
           content |-> Written(Null)]

NoJob == [op |-> "none", role |-> Null, id |-> Null, code |-> Null,
          expected |-> 0, before |-> Null, status |-> Null,
          content |-> Written(Null), wrote |-> FALSE]

NoAnswer == [result |-> "none", version |-> 0, chain |-> {}]

Live(id) == rows[id].state = "live"

\* Mutant: the revision keeps the version the row had before.
RevisionOfOldVersion(q, id, row) ==
  IF Rules.revisions
  THEN {[id |-> id, version |-> IF q = Null THEN 1 ELSE rows[id].version,
         status |-> row.status, content |-> Snapshot(row.content), author |-> q]}
  ELSE {}

\* The revision that the transaction of a write by q leaves for row.
RevisionOf(q, id, row) ==
  IF Rules.revisions
  THEN {[id |-> id, version |-> row.version, status |-> row.status,
         content |-> Snapshot(row.content), author |-> q]}
  ELSE {}

-----------------------------------------------------------------------------
(* A database that start-up has seeded: some demonstration rows with codes *)
(* of their own, each with the revision of the author "seed".              *)

Seeded(code, status) ==
  [state |-> "live", code |-> code, status |-> status, version |-> 1,
   content |-> Written(Null)]

Init ==
  /\ rows \in [Ids -> {Absent} \cup {Seeded(c, s) : c \in Codes, s \in Rules.seeded}]
  /\ \A i, k \in Ids : rows[i].code = rows[k].code /\ Live(i) => i = k
  /\ revisions = UNION {RevisionOf(Null, id, rows[id]) : id \in {i \in Ids : Live(i)}}
  /\ audits = {}
  /\ pc = [r \in Reqs |-> "idle"]
  /\ job = [r \in Reqs |-> NoJob]
  /\ answer = [r \in Reqs |-> NoAnswer]

-----------------------------------------------------------------------------
(* The end of a request: what the handler answers.                         *)

Replies(r, result) ==
  /\ pc' = [pc EXCEPT ![r] = "done"]
  /\ answer' = [answer EXCEPT ![r].result = result]

Refuse(r, result) ==
  /\ Replies(r, result)
  /\ UNCHANGED <<rows, revisions, audits, job>>

Admit(r, phase, j) ==
  /\ pc' = [pc EXCEPT ![r] = phase]
  /\ job' = [job EXCEPT ![r] = j]
  /\ UNCHANGED <<rows, revisions, audits, answer>>

(***************************************************************************)
(* A request arrives: the route's role check, the service's read of the    *)
(* record, and the checks made on what was read.  From here on the service *)
(* works on its copy.                                                      *)
(***************************************************************************)

\* Bound of the model: Insert always finds a primary key left.
IdsLeft ==
  LET creating == {r \in Reqs : pc[r] = "checked" /\ job[r].op = "create"}
  IN  Cardinality(creating) < Cardinality({id \in Ids : rows[id].state = "absent"})

\* Mutant: the status of the new record is left out.
CreateJobNoStatus(r, c) ==
  [NoJob EXCEPT !.op = "create", !.code = c, !.content = Written(r)]

CreateJob(r, c) ==
  [NoJob EXCEPT !.op = "create", !.code = c, !.status = Rules.initial,
                !.content = Written(r)]

BeginCreate(r) ==
  /\ pc[r] = "idle"
  /\ IdsLeft
  /\ \E role \in Roles, code \in Codes, blank \in BOOLEAN :
       IF ~RequireMinimumRole(role, "operator") THEN Refuse(r, "forbidden")
       ELSE IF blank THEN Refuse(r, "business_rule")
       ELSE Admit(r, "checked", CreateJob(r, code))

\* The versions a client may know of a record when it sends its request.
ExpectedVersions(id) == (1 .. rows[id].version) \cup PredictedVersions

UpdateJob(r, id, v) ==
  [NoJob EXCEPT !.op = "update", !.id = id, !.expected = v,
                !.before = rows[id].status, !.status = rows[id].status,
                !.content = Written(r)]

BeginUpdate(r) ==
  /\ pc[r] = "idle"
  /\ \E role \in Roles, id \in Ids, blank \in BOOLEAN :
       IF ~RequireMinimumRole(role, "operator") THEN Refuse(r, "forbidden")
       ELSE IF ~Live(id) THEN Refuse(r, "not_found")
       ELSE IF Locked(rows[id].status) THEN Refuse(r, "record_locked")
       ELSE IF blank THEN Refuse(r, "business_rule")
       ELSE \E v \in ExpectedVersions(id) :
              Admit(r, "checked", UpdateJob(r, id, v))

TransitionJob(role, id, target, v) ==
  [NoJob EXCEPT !.op = "transition", !.role = role, !.id = id, !.expected = v,
                !.before = rows[id].status, !.status = target,
                !.content = rows[id].content]

BeginTransition(r) ==
  /\ pc[r] = "idle"
  /\ \E role \in Roles, id \in Ids, target \in Statuses :
       IF ~RequireMinimumRole(role, "operator") THEN Refuse(r, "forbidden")
       ELSE IF ~Live(id) THEN Refuse(r, "not_found")
       ELSE IF NeedsReview(rows[id].status, target) /\ ~CanReview(role)
            THEN Refuse(r, "forbidden")
       ELSE IF ~CanTransition(rows[id].status, target) THEN Refuse(r, "business_rule")
       ELSE \E v \in ExpectedVersions(id) :
              Admit(r, "checked", TransitionJob(role, id, target, v))

DeleteJob(id) ==
  [NoJob EXCEPT !.op = "delete", !.id = id, !.before = rows[id].status]

BeginDelete(r) ==
  /\ pc[r] = "idle"
  /\ \E role \in Roles, id \in Ids :
       IF ~RequireRoles(role, {"admin"}) THEN Refuse(r, "forbidden")
       ELSE IF ~Live(id) THEN Refuse(r, "not_found")
       ELSE IF rows[id].status \notin Rules.deletable THEN Refuse(r, "record_locked")
       ELSE Admit(r, "checked", DeleteJob(id))

GetJob(id) == [NoJob EXCEPT !.op = "get", !.id = id]

BeginGet(r) ==
  /\ pc[r] = "idle"
  /\ \E id \in Ids : Admit(r, "fetch", GetJob(id))

-----------------------------------------------------------------------------
(* The write.                                                              *)

\* Mutant: a unique index over the rows that are not soft-deleted.
CodeTakenByLive(code) == \E id \in Ids : Live(id) /\ rows[id].code = code

\* The unique index covers soft-deleted rows too.
CodeTaken(code) == \E id \in Ids : rows[id].code = code

InsertRow(r) ==
  /\ pc[r] = "checked"
  /\ job[r].op = "create"
  /\ ~CodeTaken(job[r].code)
  /\ \E id \in Ids :
       LET row == [state |-> "live", code |-> job[r].code, status |-> job[r].status,
                   version |-> 1, content |-> job[r].content]
       IN  /\ rows[id].state = "absent"
           /\ rows' = [rows EXCEPT ![id] = row]
           /\ revisions' = revisions \cup RevisionOf(r, id, row)
           /\ job' = [job EXCEPT ![r].id = id, ![r].wrote = TRUE]
  /\ pc' = [pc EXCEPT ![r] = "written"]
  /\ UNCHANGED <<audits, answer>>

InsertRejected(r) ==
  /\ pc[r] = "checked"
  /\ job[r].op = "create"
  /\ CodeTaken(job[r].code)
  /\ Refuse(r, "internal_error")

\* Mutants: no version in the WHERE clause, and the version of the copy, which
\* has already been moved on.
RowMatchesAnyVersion(j) == Live(j.id)
RowMatchesNewVersion(j) == Live(j.id) /\ rows[j.id].version = j.expected + 1

\* WHERE id = ? AND version = expectedVersion AND deleted_at IS NULL
RowMatches(j) == Live(j.id) /\ rows[j.id].version = j.expected

\* Every column but id, code, created_at and deleted_at comes from the copy.
Overwritten(row, j) ==
  [row EXCEPT !.status = j.status, !.content = j.content, !.version = j.expected + 1]

IsWrite(j) == j.op \in {"update", "transition"}

WriteRow(r) ==
  LET j == job[r]
      row == Overwritten(rows[j.id], j)
  IN  /\ pc[r] = "checked"
      /\ IsWrite(j)
      /\ RowMatches(j)
      /\ rows' = [rows EXCEPT ![j.id] = row]
      /\ revisions' = revisions \cup RevisionOf(r, j.id, row)
      /\ pc' = [pc EXCEPT ![r] = "written"]
      /\ job' = [job EXCEPT ![r].wrote = TRUE]
      /\ UNCHANGED <<audits, answer>>

\* Mutant: a row that is gone is not taken for a conflict.
WriteConflictIfLive(r) ==
  /\ pc[r] = "checked"
  /\ IsWrite(job[r])
  /\ Live(job[r].id) /\ ~RowMatches(job[r])
  /\ Refuse(r, "version_conflict")

WriteConflict(r) ==
  /\ pc[r] = "checked"
  /\ IsWrite(job[r])
  /\ ~RowMatches(job[r])
  /\ Refuse(r, "version_conflict")

\* Neither the status nor the version is compared again.
SoftDelete(r) ==
  /\ pc[r] = "checked"
  /\ job[r].op = "delete"
  /\ Live(job[r].id)
  /\ rows' = [rows EXCEPT ![job[r].id].state = "deleted"]
  /\ pc' = [pc EXCEPT ![r] = "written"]
  /\ job' = [job EXCEPT ![r].wrote = TRUE]
  /\ UNCHANGED <<revisions, audits, answer>>

DeleteMissed(r) ==
  /\ pc[r] = "checked"
  /\ job[r].op = "delete"
  /\ ~Live(job[r].id)
  /\ Refuse(r, "not_found")

-----------------------------------------------------------------------------
(* The audit row, after the commit.                                        *)

\* Mutant: `before` is taken from the copy after it was changed.
AuditOfChangedCopy(r) ==
  [req |-> r, action |-> job[r].op, id |-> job[r].id,
   before |-> job[r].status, after |-> job[r].status]

\* Null stands for the empty `before` of a creation and for "deleted".
AuditOf(r) == [req |-> r, action |-> job[r].op, id |-> job[r].id,
               before |-> job[r].before, after |-> job[r].status]

\* The service call that follows the audit: create answers with the item it
\* has in memory, a deletion with 204, the others read the record back.
AfterAudit(r) ==
  IF IsWrite(job[r]) THEN pc' = [pc EXCEPT ![r] = "fetch"] /\ UNCHANGED answer
  ELSE /\ pc' = [pc EXCEPT ![r] = "done"]
       /\ answer' = [answer EXCEPT ![r].result = "ok",
                       ![r].version = IF job[r].op = "create" THEN 1 ELSE 0]

AppendAudit(r) ==
  /\ pc[r] = "written"
  /\ audits' = audits \cup {AuditOf(r)}
  /\ AfterAudit(r)
  /\ UNCHANGED <<rows, revisions, job>>

\* Mutant: Transition ignores the error too.
AuditErrorIgnoredMore(op) == op \in {"create", "update", "transition"}

AuditErrorIgnored(op) == op \in {"create", "update"}

\* Create and Update ignore the error; Transition and Delete return it,
\* although what they did is committed.
AuditFails(r) ==
  /\ pc[r] = "written"
  /\ IF AuditErrorIgnored(job[r].op) THEN AfterAudit(r)
     ELSE Replies(r, "internal_error")
  /\ UNCHANGED <<rows, revisions, audits, job>>

-----------------------------------------------------------------------------
(* Reading a record: the row, then (versioned kinds) its revisions, in two *)
(* statements outside any transaction.                                     *)

FetchRow(r) ==
  /\ pc[r] = "fetch"
  /\ LET row == rows[job[r].id]
     IN  /\ Live(job[r].id)
         /\ IF Rules.revisions
            THEN /\ pc' = [pc EXCEPT ![r] = "preload"]
                 /\ answer' = [answer EXCEPT ![r].version = row.version]
            ELSE /\ pc' = [pc EXCEPT ![r] = "done"]
                 /\ answer' = [answer EXCEPT ![r].version = row.version,
                                             ![r].result = "ok"]
  /\ UNCHANGED <<rows, revisions, audits, job>>

FetchMissed(r) ==
  /\ pc[r] = "fetch"
  /\ ~Live(job[r].id)
  /\ Refuse(r, "not_found")

RevisionsOf(id) == {h \in revisions : h.id = id}

\* Mutant: the history before the version shown.
ChainShownEarlier(r) ==
  {h.version : h \in {g \in RevisionsOf(job[r].id) : g.version < answer[r].version}}

ChainShown(r) == {h.version : h \in RevisionsOf(job[r].id)}

FetchRevisions(r) ==
  /\ pc[r] = "preload"
  /\ pc' = [pc EXCEPT ![r] = "done"]
  /\ answer' = [answer EXCEPT ![r].result = "ok",
                              ![r].chain = ChainShown(r)]
  /\ UNCHANGED <<rows, revisions, audits, job>>

-----------------------------------------------------------------------------
(* Failures.  A database call other than the audit insert returns an error *)
(* that the service passes on; a transaction has then changed nothing.  Or *)
(* the request ends where it is, and its client never hears of it: the     *)
(* connection is gone, or the process is stopped before it drains.         *)

\* Its local variables die with the goroutine.
Abort(r, result) ==
  /\ pc' = [pc EXCEPT ![r] = "done"]
  /\ answer' = [answer EXCEPT ![r] = [NoAnswer EXCEPT !.result = result]]
  /\ job' = [job EXCEPT ![r] = IF @.wrote THEN @ ELSE NoJob]
  /\ UNCHANGED <<rows, revisions, audits>>

DatabaseError(r) ==
  /\ pc[r] \in {"idle", "checked", "fetch", "preload"}
  /\ Abort(r, "internal_error")

Interrupted(r) ==
  /\ pc[r] \in {"checked", "written", "fetch", "preload"}
  /\ Abort(r, "lost")

-----------------------------------------------------------------------------
Begin(r) ==
  \/ BeginCreate(r) \/ BeginUpdate(r) \/ BeginTransition(r)
  \/ BeginDelete(r) \/ BeginGet(r)

\* The next database call of an admitted request, when the database answers.
Proceed(r) ==
  \/ InsertRow(r) \/ InsertRejected(r)
  \/ WriteRow(r) \/ WriteConflict(r)
  \/ SoftDelete(r) \/ DeleteMissed(r)
  \/ AppendAudit(r)
  \/ FetchRow(r) \/ FetchMissed(r) \/ FetchRevisions(r)

Fault(r) == AuditFails(r) \/ DatabaseError(r) \/ Interrupted(r)

Next == \E r \in Reqs : Begin(r) \/ Proceed(r) \/ Fault(r)

Spec == Init /\ [][Next]_vars

\* An admitted goroutine is never abandoned by the scheduler, and every
\* database call returns.  Nothing makes a client send a request.
Fairness == \A r \in Reqs : WF_vars(Proceed(r))

FairSpec == Spec /\ Fairness
-----------------------------------------------------------------------------
(* Correctness.                                                            *)

\* Clients that send only versions they were given, as the web client does.
HonestClients == PredictedVersions = {}

\* All variables hold values of their types.
TypeOK ==
  /\ rows \in [Ids -> Row]
  /\ revisions \subseteq Revision
  /\ audits \subseteq Audit
  /\ pc \in [Reqs -> Phases]
  /\ job \in [Reqs -> Job]
  /\ answer \in [Reqs -> Answer]

\* The revisions of a record are an unbroken chain: exactly one for each of
\* its versions, from 1 to the current one, and the newest has the row's
\* status and, of its fields, those that a revision copies.  No interleaving of
\* writers, conflicts, failures and deletions leaves a gap, a second revision
\* of a version, or a row ahead of its chain.
RevisionChain ==
  Rules.revisions =>
    \A id \in Ids :
      /\ {h.version : h \in RevisionsOf(id)} = 1 .. rows[id].version
      /\ \A g, h \in RevisionsOf(id) : g.version = h.version => g = h
      /\ \A h \in RevisionsOf(id) : h.version = rows[id].version =>
           h.status = rows[id].status /\ h.content = Snapshot(rows[id].content)

\* How a record may get from one version to the next: an edit of all its
\* business fields by one request, not in a frozen status, or one transition
\* along the graph that leaves the business fields alone, by a reviewer where
\* it is a review.  Anything else is a lost update or a jump in the workflow.
\* (Of two revisions: as far as the fields they copy tell.)
Edited(old, new, by) ==
  /\ old.status = new.status /\ old.status \notin Rules.frozen
  /\ \A f \in DOMAIN new.content : new.content[f] = by

Advanced(old, new, by) ==
  /\ <<old.status, new.status>> \in Rules.edges
  /\ new.content = old.content
  /\ {old.status, new.status} \cap Rules.gated # {} => CanReview(job[by].role)

\* Read back from its chain of revisions, the life of a record follows the
\* workflow, although the checks were made on a copy read earlier: it starts
\* seeded or in the initial status, and each version is one edit or one
\* permitted transition of the version before it.
HistoryFollowsWorkflow ==
  Rules.revisions /\ HonestClients =>
    \A h \in revisions :
      \/ h.version = 1 /\ (h.author = Null \/ h.status = Rules.initial)
      \/ \E g \in RevisionsOf(h.id) :
           g.version + 1 = h.version
             /\ (Edited(g, h, h.author) \/ Advanced(g, h, h.author))

\* The same of the row itself, for the kinds that keep no revisions too: each
\* step that changes the version of a record is an edit or a permitted
\* transition by the request that takes it, adds one to the version, and
\* never touches a deleted record or a code.
WriterStep(id, r) ==
  /\ pc[r] = "checked" /\ pc'[r] = "written" /\ job[r].id = id
  /\ rows'[id].version = rows[id].version + 1
  /\ Edited(rows[id], rows'[id], r) \/ Advanced(rows[id], rows'[id], r)

StepsFollowWorkflow ==
  [][HonestClients =>
       \A id \in Ids : rows[id].state # "absent" =>
         /\ rows'[id].code = rows[id].code
         /\ rows[id].state = "deleted" => rows'[id] = rows[id]
         /\ \/ rows'[id].version = rows[id].version
                 /\ rows'[id].status = rows[id].status
                 /\ rows'[id].content = rows[id].content
            \/ \E r \in Reqs : WriterStep(id, r)]_vars

\* An audit row of an update or a transition tells the truth: the request it
\* names made the revision that took the record from `before` to `after`.
\* `before` was read before the write, so a writer that slipped in between
\* would make it a lie.
AuditMatchesRevision ==
  Rules.revisions /\ HonestClients =>
    \A a \in audits : a.action \in {"update", "transition"} =>
      \E g, h \in RevisionsOf(a.id) :
        /\ g.version + 1 = h.version
        /\ h.author = a.req
        /\ g.status = a.before /\ h.status = a.after

\* Optimistic locking: of the requests that send the same expected version of
\* one record, at most one writes.
AtMostOneWinner ==
  \A q, r \in Reqs :
    /\ job[q].wrote /\ IsWrite(job[q]) /\ job[r].wrote /\ IsWrite(job[r])
    /\ job[q].id = job[r].id /\ job[q].expected = job[r].expected
    => q = r

\* A business code identifies one record for ever: no two records share one,
\* withdrawn records included, however creations race.
CodeIdentifiesOneRecord ==
  \A i, k \in Ids :
    rows[i].state # "absent" /\ rows[k].state # "absent" /\ rows[i].code = rows[k].code
      => i = k

\* A version conflict has a winner: some other request did write over the
\* version the loser had, or deleted the record.  Optimistic locking never
\* turns everybody away.
ConflictHasWinner ==
  HonestClients =>
    \A r \in Reqs : answer[r].result = "version_conflict" =>
      \E q \in Reqs \ {r} :
        /\ job[q].wrote /\ job[q].id = job[r].id
        /\ \/ job[q].op = "delete"
           \/ IsWrite(job[q]) /\ job[q].expected >= job[r].expected

HasTrace(r) == (\E h \in revisions : h.author = r) \/ (\E a \in audits : a.req = r)

\* What a client is told agrees with what happened.  A refusal leaves no
\* trace; a transition or deletion reported as done is in the audit log; a
\* writer that is shown the record back sees its own write or a later one.
\* (not_found, internal_error and a lost answer promise nothing: a committed
\* write may still be answered with each of them.)
AnswerMatchesEffect ==
  \A r \in Reqs :
    /\ answer[r].result \in {"forbidden", "business_rule", "record_locked",
                             "version_conflict"} => ~job[r].wrote /\ ~HasTrace(r)
    /\ answer[r].result = "ok" /\ job[r].op \in {"transition", "delete"} =>
         \E a \in audits : a.req = r /\ a.action = job[r].op
    /\ answer[r].result = "ok" /\ IsWrite(job[r]) => answer[r].version > job[r].expected

\* A record shown with its revisions is never ahead of them, although the row
\* and the revisions are read by two statements: the chain in the answer has
\* no gap and reaches at least the version shown.
DetailCoversVersion ==
  Rules.revisions =>
    \A r \in Reqs : answer[r].result = "ok" /\ (job[r].op = "get" \/ IsWrite(job[r])) =>
      answer[r].chain = 1 .. Cardinality(answer[r].chain)
      /\ answer[r].version \in answer[r].chain

\* Every request that was admitted is answered, or loses its client.
EveryRequestAnswered == \A r \in Reqs : pc[r] # "idle" ~> pc[r] = "done"

-----------------------------------------------------------------------------
(* What the repository's tests and README say, and the code does not do.   *)

\* Only records in a deletable status are withdrawn: the router test wants
\* 409 for the deletion of a resolved decision and of an active run.
DeletedOnlyWhileDeletable ==
  \A id \in Ids : rows[id].state = "deleted" => rows[id].status \in Rules.deletable

\* Every status change is in the audit log once its request is over.
EveryTransitionAudited ==
  \A r \in Reqs : pc[r] = "done" /\ job[r].op = "transition" /\ job[r].wrote =>
    \E a \in audits : a.req = r

\* A record in a frozen status is never overwritten by an edit.
ResolvedNeverOverwritten ==
  [][\A id \in Ids, r \in Reqs :
       /\ rows[id].status \in Rules.frozen /\ rows'[id].version # rows[id].version
       /\ job[r].id = id /\ pc[r] = "checked" /\ pc'[r] = "written"
       => job[r].op # "update"]_vars
=============================================================================
