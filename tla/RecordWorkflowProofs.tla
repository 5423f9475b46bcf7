------------------------- MODULE RecordWorkflowProofs -------------------------
(***************************************************************************)
(* The business rules are checked on a copy of the row read before the     *)
(* write.  Here it is proved that, for clients that send only versions     *)
(* they were given, this is as good as checking the row itself: what the   *)
(* checks saw stays true of the row for as long as it has the version that *)
(* the write compares.  It follows that the service implements the ledger: *)
(* every step of it, seen through the revisions and the withdrawn records, *)
(* is one operation of RecordLedger or leaves the ledger as it is.         *)
(***************************************************************************)
EXTENDS RecordServiceProofs, RecordRefinement, SequenceTheorems

\* A step of a request that was already admitted admits nobody: whoever is
\* about to write afterwards was about to make the same write before.
LEMMA OnlyBeginAdmits ==
  ASSUME TypeInv, NEW r \in Reqs, Proceed(r) \/ Fault(r),
         NEW q \in Reqs, pc'[q] = "checked"
  PROVE  pc[q] = "checked" /\ job'[q] = job[q]
<1>1. pc \in [Reqs -> Phases] /\ job \in [Reqs -> Job]
  BY DEF TypeInv, TypeOK
<1>2. ASSUME pc'[r] # "checked",
             \A k \in Reqs \ {r} : pc'[k] = pc[k] /\ job'[k] = job[k]
      PROVE  pc[q] = "checked" /\ job'[q] = job[q]
  BY <1>2
<1>3. ASSUME Writes(r) PROVE pc[q] = "checked" /\ job'[q] = job[q]
  <2>1. PICK id : Committed(r, id)
    BY <1>3, WriteRowDoes, InsertRowDoes, SoftDeleteDoes DEF Writes
  <2> QED  BY <1>1, <1>2, <2>1 DEF Committed
<1>4. ASSUME NEW result, Replies(r, result), UNCHANGED job
      PROVE  pc[q] = "checked" /\ job'[q] = job[q]
  BY <1>1, <1>4 DEF Replies
<1>5. ASSUME NEW result, Abort(r, result)
      PROVE  pc[q] = "checked" /\ job'[q] = job[q]
  BY <1>1, <1>5 DEF Abort
<1>6. ASSUME AfterAudit(r), UNCHANGED job
      PROVE  pc[q] = "checked" /\ job'[q] = job[q]
  BY <1>1, <1>6 DEF AfterAudit
<1>7. ASSUME FetchRow(r) \/ FetchRevisions(r)
      PROVE  pc[q] = "checked" /\ job'[q] = job[q]
  BY <1>1, <1>7 DEF FetchRow, FetchRevisions
<1>8. CASE Proceed(r)
  <2>1. CASE InsertRejected(r) \/ WriteConflict(r) \/ DeleteMissed(r) \/ FetchMissed(r)
    <3>1. PICK result : Refuse(r, result)
      BY <2>1 DEF InsertRejected, WriteConflict, DeleteMissed, FetchMissed
    <3> QED  BY <3>1, <1>4 DEF Refuse
  <2>2. CASE AppendAudit(r)
    BY <1>6, <2>2 DEF AppendAudit
  <2> QED  BY <1>3, <1>7, <1>8, <2>1, <2>2 DEF Proceed, Writes
<1>9. CASE Fault(r)
  BY <1>4, <1>5, <1>6, <1>9 DEF Fault, AuditFails, DatabaseError, Interrupted
<1> QED  BY <1>8, <1>9

\* The checks hold of the row at the moment they are made.
LEMMA ChecksMade ==
  ASSUME TypeInv, HonestClients, SnapshotsHold, NEW r \in Reqs, Begin(r)
  PROVE  SnapshotsHold'
<1>1. /\ \A id \in Ids : rows[id] \in Row /\ rows[id].version \in Nat
      /\ pc \in [Reqs -> Phases] /\ job \in [Reqs -> Job]
  BY DEF TypeInv, TypeOK, Row
<1>2. ASSUME NEW j, Admit(r, "checked", j),
             IsWrite(j) => /\ j.expected <= rows[j.id].version
                           /\ ChecksHold(j, r)' \/ rows[j.id].version # j.expected
      PROVE  SnapshotsHold'
  <2>1. /\ pc' = [pc EXCEPT ![r] = "checked"]
        /\ job' = [job EXCEPT ![r] = j]
        /\ UNCHANGED rows
    BY <1>2 DEF Admit
  <2>2. SnapshotHolds(r)'
    BY <1>1, <1>2, <2>1 DEF SnapshotHolds
  <2>3. ASSUME NEW q \in Reqs, q # r PROVE SnapshotHolds(q)'
    <3>1. job'[q] = job[q] /\ pc'[q] = pc[q]
      BY <1>1, <2>1, <2>3
    <3> QED  BY <2>1, <3>1 DEF SnapshotsHold, SnapshotHolds, ChecksHold, Edited, Advanced
  <2> QED  BY <2>2, <2>3 DEF SnapshotsHold
<1>3. ASSUME UNCHANGED <<rows, job>>,
             \A q \in Reqs : pc'[q] = "checked" => pc[q] = "checked"
      PROVE  SnapshotsHold'
  BY <1>3 DEF SnapshotsHold, SnapshotHolds, ChecksHold, Edited, Advanced
<1>4. ASSUME NEW result, Refuse(r, result) PROVE SnapshotsHold'
  BY <1>1, <1>3, <1>4 DEF Refuse, Replies
<1>5. \A id \in Ids : ExpectedVersions(id) = 1 .. rows[id].version
  BY DEF HonestClients, ExpectedVersions
<1>6. CASE BeginCreate(r)
  BY <1>6, <1>2, <1>4 DEF BeginCreate, CreateJob, NoJob, IsWrite
<1>7. CASE BeginUpdate(r)
  <2>1. \/ \E result : Refuse(r, result)
        \/ \E id \in Ids : \E v \in ExpectedVersions(id) :
             ~Locked(rows[id].status) /\ Admit(r, "checked", UpdateJob(r, id, v))
    BY <1>7 DEF BeginUpdate
  <2>2. ASSUME NEW id \in Ids, NEW v \in ExpectedVersions(id),
               ~Locked(rows[id].status), Admit(r, "checked", UpdateJob(r, id, v))
        PROVE  SnapshotsHold'
    <3>1. PICK j : j = UpdateJob(r, id, v)
      OBVIOUS
    <3>2. /\ j.op = "update" /\ j.id = id /\ j.expected = v /\ j.content = Written(r)
          /\ j.before = rows[id].status /\ j.status = rows[id].status
      BY <3>1 DEF UpdateJob, NoJob
    <3>3. ChecksHold(j, r)'
      BY <2>2, <3>2 DEF ChecksHold, Edited, Locked, Admit, Written
    <3> QED  BY <1>1, <1>2, <1>5, <2>2, <3>1, <3>2, <3>3
  <2> QED  BY <2>1, <2>2, <1>4
<1>8. CASE BeginTransition(r)
  <2>1. \/ \E result : Refuse(r, result)
        \/ \E role \in Roles, id \in Ids, target \in Statuses :
             \E v \in ExpectedVersions(id) :
               /\ NeedsReview(rows[id].status, target) => CanReview(role)
               /\ CanTransition(rows[id].status, target)
               /\ Admit(r, "checked", TransitionJob(role, id, target, v))
    BY <1>8 DEF BeginTransition
  <2>2. ASSUME NEW role \in Roles, NEW id \in Ids, NEW target \in Statuses,
               NEW v \in ExpectedVersions(id),
               NeedsReview(rows[id].status, target) => CanReview(role),
               CanTransition(rows[id].status, target),
               Admit(r, "checked", TransitionJob(role, id, target, v))
        PROVE  SnapshotsHold'
    <3>1. PICK j : j = TransitionJob(role, id, target, v)
      OBVIOUS
    <3>2. /\ j.op = "transition" /\ j.id = id /\ j.expected = v /\ j.role = role
          /\ j.before = rows[id].status /\ j.status = target
          /\ j.content = rows[id].content
      BY <3>1 DEF TransitionJob, NoJob
    <3>3. job'[r] = j /\ UNCHANGED rows
      BY <1>1, <2>2, <3>1 DEF Admit
    <3>4. Advanced(rows[id], j, r)'
      BY <2>2, <3>2, <3>3 DEF Advanced, NeedsReview, CanTransition
    <3>5. ChecksHold(j, r)'
      BY <3>2, <3>3, <3>4 DEF ChecksHold
    <3> QED  BY <1>1, <1>2, <1>5, <2>2, <3>1, <3>2, <3>5
  <2> QED  BY <2>1, <2>2, <1>4
<1>9. CASE BeginDelete(r)
  BY <1>9, <1>2, <1>4 DEF BeginDelete, DeleteJob, NoJob, IsWrite
<1>10. CASE BeginGet(r)
  <2>1. PICK j : Admit(r, "fetch", j)
    BY <1>10 DEF BeginGet
  <2>2. ASSUME NEW q \in Reqs PROVE SnapshotHolds(q)'
    BY <1>1, <2>1, <2>2 DEF Admit, SnapshotsHold, SnapshotHolds, ChecksHold, Edited, Advanced
  <2> QED  BY <2>2 DEF SnapshotsHold
<1> QED  BY <1>6, <1>7, <1>8, <1>9, <1>10 DEF Begin

\* A writer that was overtaken finds another version; the others are about to
\* make a write that the row, as it is, permits.
LEMMA SnapshotsStay ==
  ASSUME TypeInv, HonestClients, SnapshotsHold, [Next]_vars
  PROVE  SnapshotsHold'
<1>1. \A id \in Ids : rows[id].version \in Nat
  BY DEF TypeInv, TypeOK, Row
<1>2. ASSUME NEW q \in Reqs, pc[q] = "checked", job'[q] = job[q],
             NEW r \in Reqs, Writes(r), IsWrite(job[q])
      PROVE  SnapshotHolds(q)'
  <2>1. /\ job[q] \in Job /\ job[q].id \in Ids /\ job[q].expected \in Nat
        /\ rows[job[q].id].state # "absent"
    BY <1>2, WriterKnown DEF IsWriteJob, Job
  <2>2. SnapshotHolds(q)
    BY DEF SnapshotsHold
  <2>3. CASE rows'[job[q].id] = rows[job[q].id]
    BY <1>2, <2>2, <2>3 DEF SnapshotHolds, ChecksHold, Edited, Advanced, IsWrite
  <2>4. CASE WriteRow(r)
    <3>1. PICK id \in Ids, row \in Row :
            /\ rows[id].version = job[r].expected /\ row.version = job[r].expected + 1
            /\ \A i \in Ids : rows'[i] = IF i = id THEN row ELSE rows[i]
      BY <2>4, WriteRowDoes
    <3>2. CASE job[q].id = id
      <4>1. job[q].expected < rows'[job[q].id].version
        BY <1>1, <1>2, <2>1, <2>2, <3>1, <3>2 DEF SnapshotHolds
      <4> QED  BY <1>2, <2>1, <4>1, <3>1, <3>2, <1>1 DEF SnapshotHolds
    <3> QED  BY <2>1, <2>3, <3>1, <3>2
  <2>5. CASE InsertRow(r)
    <3>1. PICK id \in Ids, row \in Row :
            /\ rows[id] = Absent
            /\ \A i \in Ids : rows'[i] = IF i = id THEN row ELSE rows[i]
      BY <2>5, InsertRowDoes
    <3> QED  BY <2>1, <2>3, <3>1 DEF Absent
  <2>6. CASE SoftDelete(r)
    <3>1. \A id \in Ids :
            /\ rows'[id].version = rows[id].version /\ rows'[id].status = rows[id].status
            /\ rows'[id].content = rows[id].content
      BY <2>6, SoftDeleteDoes
    <3> QED  BY <1>2, <2>1, <2>2, <3>1 DEF SnapshotHolds, ChecksHold, Edited, Advanced, IsWrite
  <2> QED  BY <1>2, <2>4, <2>5, <2>6 DEF Writes
<1>3. ASSUME NEW r \in Reqs, Begin(r) PROVE SnapshotsHold'
  BY <1>3, ChecksMade
<1>4. ASSUME NEW r \in Reqs, Proceed(r) \/ Fault(r), NEW q \in Reqs
      PROVE  SnapshotHolds(q)'
  <2> SUFFICES ASSUME pc'[q] = "checked", IsWrite(job'[q]) PROVE SnapshotHolds(q)'
    BY DEF SnapshotHolds, IsWrite
  <2>1. pc[q] = "checked" /\ job'[q] = job[q] /\ IsWrite(job[q])
    BY <1>4, OnlyBeginAdmits DEF IsWrite
  <2>2. CASE Quiet
    BY <2>1, <2>2 DEF Quiet, SnapshotsHold, SnapshotHolds, ChecksHold, Edited, Advanced
  <2> QED  BY <1>2, <2>1, <2>2, StepIsQuietOrWrites
<1>5. CASE UNCHANGED vars
  BY <1>5 DEF vars, SnapshotsHold, SnapshotHolds, ChecksHold, Edited, Advanced, IsWrite
<1>6. HonestClients'
  BY DEF HonestClients
<1> QED  BY <1>3, <1>4, <1>5, <1>6 DEF Next, SnapshotsHold

\* What a request checked on its copy holds of the row at the same version.
LEMMA SnapshotsInvariant == Spec => [](TypeInv /\ SnapshotsHold)
<1>1. Init => TypeInv /\ SnapshotsHold
  <2>1. Init => \A r \in Reqs : pc[r] # "checked"
    BY DEF Init
  <2> QED  BY <2>1, InitType DEF SnapshotsHold, SnapshotHolds
<1>2. ASSUME TypeInv, SnapshotsHold, [Next]_vars PROVE (TypeInv /\ SnapshotsHold)'
  <2>1. HonestClients' <=> HonestClients
    BY DEF HonestClients
  <2> QED  BY <1>2, <2>1, NextType, SnapshotsStay DEF SnapshotsHold
<1> QED  BY <1>1, <1>2, PTL DEF Spec

\* The write of an admitted request is an edit, or a transition of the graph,
\* of the very version it replaces.
LEMMA WriteIsPermitted ==
  ASSUME TypeInv, HonestClients, SnapshotsHold, NEW r \in Reqs, WriteRow(r)
  PROVE  \E id \in Ids, row \in Row :
           /\ id = job[r].id /\ rows[id].state = "live"
           /\ row.version = rows[id].version + 1 /\ row.code = rows[id].code
           /\ Edited(rows[id], row, r) \/ Advanced(rows[id], row, r)
           /\ \A i \in Ids : rows'[i] = IF i = id THEN row ELSE rows[i]
           /\ revisions' = revisions \cup RevisionOf(r, id, row)
           /\ Committed(r, id)
<1>1. PICK id \in Ids, row \in Row :
        /\ id = job[r].id /\ IsWriteJob(job[r])
        /\ rows[id].state = "live" /\ rows[id].version = job[r].expected
        /\ row.version = job[r].expected + 1 /\ row.status = job[r].status
        /\ row.content = job[r].content /\ row.code = rows[id].code
        /\ \A i \in Ids : rows'[i] = IF i = id THEN row ELSE rows[i]
        /\ revisions' = revisions \cup RevisionOf(r, id, row)
        /\ Committed(r, id)
  BY WriteRowDoes
<1>2. ChecksHold(job[r], r)
  BY <1>1 DEF SnapshotsHold, SnapshotHolds, Committed, IsWriteJob
<1>3. Edited(rows[id], row, r) \/ Advanced(rows[id], row, r)
  BY <1>1, <1>2 DEF ChecksHold, Edited, Advanced
<1> QED  BY <1>1, <1>3

\* Every step that changes the version of a record is an edit or a permitted
\* transition by the request that takes it; no step changes anything else of a
\* record, or touches a withdrawn one.
THEOREM StepsPermitted == Spec => StepsFollowWorkflow
<1> DEFINE Step == HonestClients =>
             \A id \in Ids : rows[id].state # "absent" =>
               /\ rows'[id].code = rows[id].code
               /\ rows[id].state = "deleted" => rows'[id] = rows[id]
               /\ \/ rows'[id].version = rows[id].version
                       /\ rows'[id].status = rows[id].status
                       /\ rows'[id].content = rows[id].content
                  \/ \E r \in Reqs : WriterStep(id, r)
<1>1. ASSUME TypeInv, SnapshotsHold, [Next]_vars PROVE Step
  <2> SUFFICES ASSUME HonestClients, NEW id \in Ids, rows[id].state # "absent"
               PROVE  /\ rows'[id].code = rows[id].code
                      /\ rows[id].state = "deleted" => rows'[id] = rows[id]
                      /\ \/ rows'[id].version = rows[id].version
                              /\ rows'[id].status = rows[id].status
                              /\ rows'[id].content = rows[id].content
                         \/ \E r \in Reqs : WriterStep(id, r)
    OBVIOUS
  <2>1. CASE rows'[id] = rows[id]
    BY <2>1
  <2>2. ASSUME NEW r \in Reqs, WriteRow(r), rows'[id] # rows[id]
        PROVE  rows'[id].code = rows[id].code /\ rows[id].state = "live" /\ WriterStep(id, r)
    <3>1. PICK i \in Ids, row \in Row :
            /\ i = job[r].id /\ rows[i].state = "live"
            /\ row.version = rows[i].version + 1 /\ row.code = rows[i].code
            /\ Edited(rows[i], row, r) \/ Advanced(rows[i], row, r)
            /\ \A k \in Ids : rows'[k] = IF k = i THEN row ELSE rows[k]
            /\ Committed(r, i)
      BY <1>1, <2>2, WriteIsPermitted
    <3>2. i = id /\ rows'[id] = row
      BY <2>2, <3>1
    <3>3. pc'[r] = "written"
      BY <1>1, <3>1 DEF Committed, TypeInv, TypeOK
    <3> QED  BY <3>1, <3>2, <3>3 DEF WriterStep, Committed
  <2>3. ASSUME NEW r \in Reqs, InsertRow(r) PROVE rows'[id] = rows[id]
    <3>1. PICK i \in Ids, row \in Row :
            /\ rows[i] = Absent
            /\ \A k \in Ids : rows'[k] = IF k = i THEN row ELSE rows[k]
      BY <1>1, <2>3, InsertRowDoes
    <3> QED  BY <3>1 DEF Absent
  <2>4. ASSUME NEW r \in Reqs, SoftDelete(r)
        PROVE  /\ rows'[id].code = rows[id].code
               /\ rows[id].state = "deleted" => rows'[id] = rows[id]
               /\ rows'[id].version = rows[id].version
               /\ rows'[id].status = rows[id].status
               /\ rows'[id].content = rows[id].content
    BY <1>1, <2>4, SoftDeleteDoes
  <2> QED  BY <1>1, <2>1, <2>2, <2>3, <2>4, StepIsQuietOrWrites DEF Quiet, Writes
<1>2. TypeInv /\ SnapshotsHold /\ [Next]_vars => [Step]_vars
  BY <1>1
<1> QED  BY <1>2, SnapshotsInvariant, PTL DEF Spec, StepsFollowWorkflow

-----------------------------------------------------------------------------
(* The history of a record.                                                *)

\* A request that wrote keeps its local variables for good.
LEMMA WritersStay ==
  ASSUME TypeInv, [Next]_vars, NEW q \in Reqs, job[q].wrote
  PROVE  job'[q] = job[q]
<1>1. ASSUME NEW r \in Reqs, Writes(r) PROVE job'[q] = job[q]
  <2>1. PICK id : Committed(r, id)
    BY <1>1, WriteRowDoes, InsertRowDoes, SoftDeleteDoes DEF Writes
  <2>2. q # r
    BY <2>1, WriterKnown DEF Committed
  <2> QED  BY <2>1, <2>2 DEF Committed
<1> QED  BY <1>1, StepIsQuietOrWrites DEF Quiet

\* What a step adds to the revisions: nothing, or one revision by a request
\* that has just written.
LEMMA NewRevision ==
  ASSUME TypeInv, [Next]_vars, NEW h \in revisions', h \notin revisions
  PROVE  \E r \in Reqs, id \in Ids, row \in Row :
           /\ WriteRow(r) \/ InsertRow(r)
           /\ id = job'[r].id /\ rows'[id] = row /\ Committed(r, id)
           /\ h.id = id /\ h.version = row.version /\ h.status = row.status
           /\ h.content = Snapshot(row.content) /\ h.author = r
<1>1. ~Quiet /\ \A r \in Reqs : ~SoftDelete(r)
  BY SoftDeleteDoes DEF Quiet
<1>2. PICK r \in Reqs : WriteRow(r) \/ InsertRow(r)
  BY <1>1, StepIsQuietOrWrites DEF Writes
<1>3. PICK id \in Ids, row \in Row :
        /\ \A i \in Ids : rows'[i] = IF i = id THEN row ELSE rows[i]
        /\ revisions' = revisions \cup RevisionOf(r, id, row)
        /\ Committed(r, id)
  BY <1>2, WriteRowDoes, InsertRowDoes
<1>4. h \in RevisionOf(r, id, row)
  BY <1>3
<1>5. /\ h.id = id /\ h.version = row.version /\ h.status = row.status
      /\ h.content = Snapshot(row.content) /\ h.author = r
  BY <1>4 DEF RevisionOf
<1>6. rows'[id] = row /\ job'[r].id = id
  BY <1>3 DEF Committed
<1> QED  BY <1>2, <1>3, <1>5, <1>6

\* No step leaves a revision whose author has not written.
LEMMA AuthorsStay ==
  ASSUME TypeInv, AuthorsWrote, [Next]_vars
  PROVE  AuthorsWrote'
<1> SUFFICES ASSUME NEW h \in revisions'
             PROVE  IF h.author = Null THEN h.version = 1 ELSE job'[h.author].wrote
  BY DEF AuthorsWrote
<1>1. CASE h \in revisions
  <2>1. h.author \in Reqs \cup {Null}
    BY <1>1 DEF TypeInv, TypeOK, Revision, Authors
  <2> QED  BY <1>1, <2>1, WritersStay DEF AuthorsWrote
<1>2. CASE h \notin revisions
  <2>1. PICK r \in Reqs, id \in Ids : h.author = r /\ Committed(r, id)
    BY <1>2, NewRevision
  <2> QED  BY <2>1, NullAssumption DEF Committed
<1> QED  BY <1>1, <1>2

\* Of a row that one request wrote, a revision shows that request only.
LEMMA SnapshotOfEdit ==
  ASSUME NEW content \in Content, NEW by, \A f \in DOMAIN content : content[f] = by
  PROVE  /\ Snapshot(content) = Snapshot(Written(by))
         /\ \A f \in DOMAIN Snapshot(content) : Snapshot(content)[f] = by
BY RulesWellFormed DEF Content, Snapshot, Written

Justified(h) ==
  \/ h.version = 1 /\ (h.author = Null \/ h.status = Rules.initial)
  \/ \E g \in RevisionsOf(h.id) :
       g.version + 1 = h.version /\ (Edited(g, h, h.author) \/ Advanced(g, h, h.author))

\* No step adds a revision that the workflow does not permit.
LEMMA HistoryStays ==
  ASSUME TypeInv, AuthorsWrote, SnapshotsHold, HonestClients, Rules.revisions,
         \A id \in Ids : ChainOf(id), \A h \in revisions : Justified(h), [Next]_vars
  PROVE  \A h \in revisions' : Justified(h)'
<1> SUFFICES ASSUME NEW h \in revisions' PROVE Justified(h)'
  OBVIOUS
<1>1. revisions \subseteq revisions'
  BY StepIsQuietOrWrites, WriteRowDoes, InsertRowDoes, SoftDeleteDoes DEF Quiet, Writes
<1>2. RevisionsOf(h.id) \subseteq RevisionsOf(h.id)'
  BY <1>1 DEF RevisionsOf
<1>3. CASE h \in revisions
  <2>1. Justified(h) /\ h.author \in Reqs \cup {Null}
    BY <1>3 DEF TypeInv, TypeOK, Revision, Authors
  <2>2. CASE h.author = Null
    BY <1>3, <2>2 DEF AuthorsWrote, Justified
  <2>3. CASE h.author # Null
    <3>1. job'[h.author] = job[h.author]
      BY <1>3, <2>1, <2>3, WritersStay DEF AuthorsWrote
    <3> QED  BY <1>2, <2>1, <3>1 DEF Justified, Edited, Advanced
  <2> QED  BY <2>2, <2>3
<1>4. CASE h \notin revisions
  <2>1. PICK r \in Reqs :
          /\ WriteRow(r) \/ InsertRow(r)
          /\ h.id = job'[r].id /\ h.author = r
          /\ h.version = rows'[h.id].version /\ h.status = rows'[h.id].status
          /\ h.content = Snapshot(rows'[h.id].content)
    BY <1>4, NewRevision
  <2>2. CASE InsertRow(r)
    <3>1. PICK id \in Ids, row \in Row :
            /\ row.version = 1 /\ row.status = Rules.initial
            /\ job[r].status = Rules.initial
            /\ rows'[id] = row /\ Committed(r, id)
      BY <2>2, InsertRowDoes
    <3> QED  BY <2>1, <3>1 DEF Justified, Committed
  <2>3. CASE WriteRow(r)
    <3>1. PICK id \in Ids, row \in Row :
            /\ id = job[r].id /\ rows[id].state = "live"
            /\ row.version = rows[id].version + 1
            /\ Edited(rows[id], row, r) \/ Advanced(rows[id], row, r)
            /\ \A i \in Ids : rows'[i] = IF i = id THEN row ELSE rows[i]
            /\ Committed(r, id)
      BY <2>3, WriteIsPermitted
    <3>2. rows[id].version \in Nat \ {0}
      BY <3>1 DEF TypeInv, RowsComplete
    <3>3. PICK g \in RevisionsOf(id) : g.version = rows[id].version
      <4>1. rows[id].version \in 1 .. rows[id].version
        BY <3>2
      <4> QED  BY <4>1 DEF ChainOf
    <3>4. g.status = rows[id].status /\ g.content = Snapshot(rows[id].content)
      BY <3>3 DEF ChainOf
    <3>5. h.id = id /\ h.version = row.version /\ h.status = row.status
          /\ h.content = Snapshot(row.content)
      BY <2>1, <3>1 DEF Committed
    <3>6. job'[r].role = job[r].role
      BY <3>1 DEF Committed
    <3>7. Edited(g, h, r)' \/ Advanced(g, h, r)'
      <4>1. ASSUME Edited(rows[id], row, r) PROVE Edited(g, h, r)
        BY <3>1, <3>4, <3>5, <4>1, SnapshotOfEdit DEF Edited, Row
      <4>2. ASSUME Advanced(rows[id], row, r) PROVE Advanced(g, h, r)'
        BY <3>4, <3>5, <3>6, <4>2 DEF Advanced
      <4> QED  BY <3>1, <4>1, <4>2 DEF Edited
    <3>8. g \in RevisionsOf(h.id)' /\ g.version + 1 = h.version
      BY <1>2, <3>1, <3>3, <3>5
    <3> QED  BY <2>1, <3>7, <3>8 DEF Justified
  <2> QED  BY <2>1, <2>2, <2>3
<1> QED  BY <1>3, <1>4

\* The life of every versioned record, read back from its revisions, follows
\* the workflow: it starts seeded or in the initial status, and each version
\* is one edit or one permitted transition of the version before it.
THEOREM HistoryPermitted == Spec => []HistoryFollowsWorkflow
<1> DEFINE Inv == /\ TypeInv /\ SnapshotsHold /\ AuthorsWrote
                  /\ Rules.revisions => \A id \in Ids : ChainOf(id)
                  /\ Rules.revisions /\ HonestClients => \A h \in revisions : Justified(h)
<1>1. ASSUME Init PROVE Inv
  <2>1. ASSUME NEW h \in revisions PROVE h.author = Null /\ h.version = 1
    <3>1. PICK id \in Ids : Live(id) /\ h \in RevisionOf(Null, id, rows[id])
      BY <1>1 DEF Init
    <3>2. rows[id].version = 1
      BY <1>1, <3>1 DEF Init, Seeded, Live, Absent
    <3> QED  BY <3>1, <3>2 DEF RevisionOf
  <2>2. AuthorsWrote /\ \A h \in revisions : Justified(h)
    BY <2>1 DEF AuthorsWrote, Justified
  <2>3. SnapshotsHold
    BY <1>1 DEF Init, SnapshotsHold, SnapshotHolds
  <2> QED  BY <1>1, <2>2, <2>3, InitType, ChainStarts
<1>2. ASSUME Inv, [Next]_vars PROVE Inv'
  <2>1. (Rules.revisions' <=> Rules.revisions) /\ (HonestClients' <=> HonestClients)
    BY DEF Rules, PressUnitRules, PrintRunRules, ColorProofRules, ReleaseDecisionRules,
           HonestClients
  <2>2. TypeInv' /\ AuthorsWrote'
    BY <1>2, NextType, AuthorsStay
  <2>3. SnapshotsHold'
    BY <1>2, <2>1, SnapshotsStay DEF SnapshotsHold
  <2>4. (Rules.revisions => \A id \in Ids : ChainOf(id))'
    BY <1>2, <2>1, ChainStays
  <2>5. (Rules.revisions /\ HonestClients => \A h \in revisions : Justified(h))'
    BY <1>2, <2>1, HistoryStays
  <2> QED  BY <2>2, <2>3, <2>4, <2>5
<1>3. Inv => HistoryFollowsWorkflow
  BY DEF HistoryFollowsWorkflow, Justified
<1> QED  BY <1>1, <1>2, <1>3, PTL DEF Spec

-----------------------------------------------------------------------------
(* The ledger knows the same workflow.                                     *)

LEMMA SameRules ==
  /\ Ledger!Rules = Rules
  /\ Ledger!Statuses = Statuses
  /\ \A from, to : Ledger!CanTransition(from, to) <=> CanTransition(from, to)
<1>1. Ledger!PressUnitRules = PressUnitRules
  BY DEF Ledger!PressUnitRules, PressUnitRules, Ledger!PressUnitStatuses, PressUnitStatuses,
         Ledger!PressUnitTransitions, PressUnitTransitions, Ledger!PressUnitSeeds,
         PressUnitSeeds, Ledger!Graph, Graph
<1>2. Ledger!PrintRunRules = PrintRunRules
  BY DEF Ledger!PrintRunRules, PrintRunRules,
         Ledger!PrintRunTransitions, PrintRunTransitions, Ledger!PrintRunSeeds,
         PrintRunSeeds, Ledger!Graph, Graph
<1>3. Ledger!ColorProofRules = ColorProofRules
  BY DEF Ledger!ColorProofRules, ColorProofRules, Ledger!ColorProofStatuses,
         ColorProofStatuses, Ledger!ColorProofTransitions, ColorProofTransitions,
         Ledger!ColorProofSeeds, ColorProofSeeds, Ledger!Graph, Graph
<1>4. Ledger!ReleaseDecisionRules = ReleaseDecisionRules
  BY DEF Ledger!ReleaseDecisionRules, ReleaseDecisionRules,
         Ledger!ReleaseDecisionTransitions, ReleaseDecisionTransitions,
         Ledger!ReleaseDecisionSeeds, ReleaseDecisionSeeds, Ledger!Graph, Graph
<1>5. Ledger!Rules = Rules
  BY <1>1, <1>2, <1>3, <1>4 DEF Ledger!Rules, Rules
<1> QED
  BY <1>5 DEF Ledger!Statuses, Statuses, Ledger!CanTransition, CanTransition

-----------------------------------------------------------------------------
(* The ledger of a record.                                                 *)

Entry == [status : Statuses, content : [Rules.copied -> Authors]]

\* The entry that a revision stands for, and the one that a row shows.
EntryOf(h) == [status |-> h.status, content |-> h.content]

EntryIn(row) == [status |-> row.status, content |-> Snapshot(row.content)]

\* In a chain, the revision of a version is the only one.
LEMMA RevisionFound ==
  ASSUME NEW R, \A g, h \in R : g.version = h.version => g = h, NEW h \in R
  PROVE  (CHOOSE g \in R : g.version = h.version) = h
OBVIOUS

Chained == \A id \in Ids : ChainOf(id)

\* The ledger of a record has one entry for each version, which is what the
\* revision of that version says; the newest is what the row says.
Reads(id) ==
  /\ LedgerOf(id) \in Seq(Entry)
  /\ Len(LedgerOf(id)) = rows[id].version
  /\ \A h \in RevisionsOf(id) :
       h.version \in 1 .. rows[id].version /\ LedgerOf(id)[h.version] = EntryOf(h)
  /\ rows[id].version # 0 => LedgerOf(id)[rows[id].version] = EntryIn(rows[id])

LEMMA LedgerReads == TypeInv /\ Chained => \A id \in Ids : Reads(id)
<1> SUFFICES ASSUME TypeInv, NEW id \in Ids, ChainOf(id) PROVE Reads(id)
  BY DEF Chained
<1>1. rows[id].version \in Nat
  BY DEF TypeInv, TypeOK, Row
<1>2. \A v \in 1 .. rows[id].version : \E h \in RevisionsOf(id) : h.version = v
  BY DEF ChainOf
<1>3. \A h \in RevisionsOf(id) : h.version \in 1 .. rows[id].version
  BY DEF ChainOf
<1>4. \A h \in RevisionsOf(id) : LedgerOf(id)[h.version] = EntryOf(h)
  BY <1>3, RevisionFound DEF LedgerOf, EntryOf, ChainOf
<1>5. \A h \in RevisionsOf(id) : EntryOf(h) \in Entry
  BY DEF RevisionsOf, TypeInv, TypeOK, Revision, EntryOf, Entry
<1>6. \A v \in 1 .. rows[id].version : LedgerOf(id)[v] \in Entry
  BY <1>2, <1>4, <1>5
<1>7. LedgerOf(id) \in [1 .. rows[id].version -> Entry]
  BY <1>6 DEF LedgerOf
<1>8. ASSUME rows[id].version # 0
      PROVE  LedgerOf(id)[rows[id].version] = EntryIn(rows[id])
  <2>1. PICK h \in RevisionsOf(id) : h.version = rows[id].version
    BY <1>1, <1>2, <1>8
  <2> QED  BY <1>4, <2>1 DEF ChainOf, EntryOf, EntryIn
<1> QED  BY <1>1, <1>3, <1>4, <1>7, <1>8 DEF Reads

LEMMA LedgerReadsNext == TypeInv' /\ Chained' => (\A id \in Ids : Reads(id))'
BY LedgerReads, PTL

-----------------------------------------------------------------------------
(* What a step does to the ledger.                                         *)

Ledgers == [id \in Ids |-> LedgerOf(id)]
Withdrawn == {id \in Ids : rows[id].state = "deleted"}

\* A write of the next version of a record records one entry.
LEMMA LedgerGrows ==
  ASSUME TypeInv, TypeInv', Chained, Chained', Rules.revisions,
         NEW q \in Reqs, NEW id \in Ids, NEW row \in Row,
         rows[id].state # "deleted", row.state = "live",
         row.version = rows[id].version + 1,
         \A i \in Ids : rows'[i] = IF i = id THEN row ELSE rows[i],
         revisions' = revisions \cup RevisionOf(q, id, row)
  PROVE  Ledger!Record(id, EntryIn(row))
<1>1. PICK h : h = [id |-> id, version |-> row.version, status |-> row.status,
                    content |-> Snapshot(row.content), author |-> q]
  OBVIOUS
<1>2. revisions' = revisions \cup {h} /\ h \in RevisionsOf(id)'
  BY <1>1 DEF RevisionOf, RevisionsOf
<1>3. rows'[id] = row /\ rows[id].version \in Nat
  BY DEF TypeInv, TypeOK, Row
<1>4. Reads(id) /\ Reads(id)'
  BY LedgerReads, LedgerReadsNext
<1>5. ASSUME NEW i \in Ids, i # id PROVE LedgerOf(i)' = LedgerOf(i)
  <2>1. RevisionsOf(i)' = RevisionsOf(i)
    BY <1>1, <1>2, <1>5 DEF RevisionsOf
  <2> QED  BY <1>5, <2>1 DEF LedgerOf
<1>6. LedgerOf(id)' = Append(LedgerOf(id), EntryIn(row))
  <2>1. LedgerOf(id)'[row.version] = EntryIn(row)
    BY <1>3, <1>4 DEF Reads
  <2>2. ASSUME NEW v \in 1 .. rows[id].version PROVE LedgerOf(id)'[v] = LedgerOf(id)[v]
    <3>1. PICK g \in RevisionsOf(id) : g.version = v
      BY DEF Chained, ChainOf
    <3>2. g \in RevisionsOf(id)'
      BY <1>2 DEF RevisionsOf
    <3> QED  BY <1>4, <3>1, <3>2 DEF Reads
  <2>3. EntryIn(row) \in Entry
    BY <1>3, <1>4, <2>1, ElementOfSeq DEF Reads
  <2>4. /\ Append(LedgerOf(id), EntryIn(row)) \in Seq(Entry)
        /\ Len(Append(LedgerOf(id), EntryIn(row))) = rows[id].version + 1
        /\ \A v \in 1 .. rows[id].version :
             Append(LedgerOf(id), EntryIn(row))[v] = LedgerOf(id)[v]
        /\ Append(LedgerOf(id), EntryIn(row))[rows[id].version + 1] = EntryIn(row)
    BY <1>4, <2>3, AppendProperties DEF Reads
  <2>5. LedgerOf(id)' \in Seq(Entry) /\ Len(LedgerOf(id)') = rows[id].version + 1
    BY <1>3, <1>4 DEF Reads
  <2>6. \A v \in 1 .. rows[id].version + 1 :
          LedgerOf(id)'[v] = Append(LedgerOf(id), EntryIn(row))[v]
    BY <1>3, <2>1, <2>2, <2>4
  <2> QED  BY <2>4, <2>5, <2>6, SeqEqual
<1>7. Withdrawn' = Withdrawn
  BY <1>3 DEF Withdrawn
<1>8. Ledgers' = [Ledgers EXCEPT ![id] = Append(@, EntryIn(row))]
  BY <1>5, <1>6 DEF Ledgers
<1> QED  BY <1>7, <1>8 DEF Ledger!Record, Ledgers, Withdrawn

LEMMA LedgerShows ==
  ASSUME TypeInv, Chained, NEW id \in Ids
  PROVE  /\ rows[id].state = "absent" => Ledgers[id] = <<>>
         /\ rows[id].state = "live" =>
              /\ Ledger!Existing(id)
              /\ Ledger!Newest(id) = EntryIn(rows[id])
<1>1. Reads(id) /\ Ledgers[id] = LedgerOf(id)
  BY LedgerReads DEF Ledgers
<1>2. CASE rows[id].state = "absent"
  <2>1. rows[id].version = 0
    BY <1>2 DEF TypeInv, RowsComplete, Absent
  <2> QED  BY <1>1, <1>2, <2>1, EmptySeq DEF Reads
<1>3. CASE rows[id].state = "live"
  <2>1. rows[id].version \in Nat \ {0}
    BY <1>3 DEF TypeInv, RowsComplete
  <2>2. Ledgers[id] # <<>>
    BY <1>1, <2>1, EmptySeq DEF Reads
  <2>3. Ledger!Existing(id)
    BY <1>3, <2>2 DEF Ledger!Existing, Ledgers
  <2>4. Ledger!Newest(id) = EntryIn(rows[id])
    BY <1>1, <2>1 DEF Ledger!Newest, Reads, Ledgers
  <2> QED  BY <1>3, <2>3, <2>4
<1> QED  BY <1>2, <1>3

\* A write over a live record is an amendment or an advance of it.
LEMMA WriteRecords ==
  ASSUME TypeInv, TypeInv', Chained, Chained', Rules.revisions, HonestClients,
         SnapshotsHold, NEW r \in Reqs, WriteRow(r)
  PROVE  Ledger!Next
<1>1. PICK id \in Ids, row \in Row :
        /\ id = job[r].id /\ rows[id].state = "live" /\ row.version = rows[id].version + 1
        /\ Edited(rows[id], row, r) \/ Advanced(rows[id], row, r)
        /\ \A i \in Ids : rows'[i] = IF i = id THEN row ELSE rows[i]
        /\ revisions' = revisions \cup RevisionOf(r, id, row)
  BY WriteIsPermitted
<1>2. row.state = "live" /\ row.status \in Statuses
  BY <1>1, WriteRowDoes DEF IsWriteJob
<1>3. Ledger!Record(id, EntryIn(row))
  BY <1>1, <1>2, LedgerGrows
<1>4. Ledger!Existing(id) /\ Ledger!Newest(id) = EntryIn(rows[id])
  BY <1>1, LedgerShows
<1>5. CASE Edited(rows[id], row, r)
  <2>1. Snapshot(row.content) = Snapshot(Written(r))
    BY <1>1, <1>5, SnapshotOfEdit DEF Edited, Row
  <2>2. EntryIn(row) = [Ledger!Newest(id) EXCEPT !.content = Snapshot(Written(r))]
    BY <1>4, <1>5, <2>1 DEF Edited, EntryIn
  <2>3. Ledger!Newest(id).status \notin Ledger!Rules.frozen
    BY <1>4, <1>5, SameRules DEF Edited, EntryIn
  <2>4. Ledger!Amend(id)
    BY <1>3, <1>4, <2>2, <2>3 DEF Ledger!Amend
  <2> QED  BY <2>4 DEF Ledger!Next
<1>6. CASE Advanced(rows[id], row, r)
  <2>1. EntryIn(row) = [Ledger!Newest(id) EXCEPT !.status = row.status]
    BY <1>4, <1>6 DEF Advanced, EntryIn
  <2>2. Ledger!CanTransition(Ledger!Newest(id).status, row.status)
    BY <1>4, <1>6, SameRules DEF Advanced, EntryIn, CanTransition
  <2>3. Ledger!Advance(id)
    BY <1>2, <1>3, <1>4, <2>1, <2>2, SameRules DEF Ledger!Advance
  <2> QED  BY <2>3 DEF Ledger!Next
<1> QED  BY <1>1, <1>5, <1>6

\* The insert of a new record opens its ledger.
LEMMA InsertOpens ==
  ASSUME TypeInv, TypeInv', Chained, Chained', Rules.revisions,
         NEW r \in Reqs, InsertRow(r)
  PROVE  Ledger!Next
<1>1. PICK id \in Ids, row \in Row :
        /\ rows[id] = Absent /\ row.state = "live" /\ row.version = 1
        /\ row.status = Rules.initial /\ row.content = job[r].content
        /\ \A i \in Ids : rows'[i] = IF i = id THEN row ELSE rows[i]
        /\ revisions' = revisions \cup RevisionOf(r, id, row)
  BY InsertRowDoes
<1>2. Ledger!Record(id, EntryIn(row))
  BY <1>1, LedgerGrows DEF Absent
<1>3. Ledgers[id] = <<>>
  BY <1>1, LedgerShows DEF Absent
<1>4. PICK q \in Reqs : row.content = Written(q)
  BY <1>1, WriterKnown DEF InsertRow, IsCreateJob
<1>5. EntryIn(row) = [status |-> Ledger!Rules.initial, content |-> Snapshot(Written(q))]
  BY <1>1, <1>4, SameRules DEF EntryIn
<1>6. Ledger!Open(id)
  BY <1>2, <1>3, <1>5 DEF Ledger!Open, Ledgers
<1> QED  BY <1>6 DEF Ledger!Next

\* A deletion withdraws a record and leaves its ledger.
LEMMA DeleteWithdraws ==
  ASSUME TypeInv, Chained, NEW r \in Reqs, SoftDelete(r)
  PROVE  Ledger!Next
<1>1. PICK id \in Ids : id = job[r].id
  BY SoftDeleteDoes
<1>2. /\ rows[id].state = "live" /\ revisions' = revisions
      /\ \A i \in Ids : /\ rows'[i].version = rows[i].version
                        /\ rows'[i].state = IF i = id THEN "deleted" ELSE rows[i].state
  BY <1>1, SoftDeleteDoes
<1>3. Ledgers' = Ledgers
  BY <1>2 DEF Ledgers, LedgerOf, RevisionsOf
<1>4. Withdrawn' = Withdrawn \cup {id}
  BY <1>2 DEF Withdrawn
<1>5. Ledger!Existing(id)
  BY <1>2, LedgerShows
<1>6. Ledger!Withdraw(id)
  BY <1>3, <1>4, <1>5 DEF Ledger!Withdraw, Ledgers, Withdrawn
<1> QED  BY <1>6 DEF Ledger!Next

-----------------------------------------------------------------------------

\* For every versioned kind, and clients that send only versions they were
\* given: concurrent requests, with all their checks on old copies, conflicts,
\* failures and lost answers, appear to take effect one at a time, each checked
\* against the version it replaces.
THEOREM ServiceImplementsLedger ==
  ASSUME Rules.revisions, HonestClients
  PROVE  Spec => ImplementsLedger
<1>1. Init => Ledger!Init
  <2> SUFFICES ASSUME Init PROVE Ledger!Init
    OBVIOUS
  <2>1. TypeInv /\ Chained
    BY InitType, ChainStarts DEF Chained
  <2>2. ASSUME NEW id \in Ids
        PROVE  LedgerOf(id) \in {<<>>} \cup
                 {<<[status |-> s, content |-> Snapshot(Written(Null))]>> : s \in Ledger!Rules.seeded}
    <3>1. CASE rows[id] = Absent
      <4>1. Ledgers[id] = <<>>
        BY <2>1, <3>1, LedgerShows DEF Absent
      <4> QED  BY <4>1 DEF Ledgers
    <3>2. ASSUME NEW c \in Codes, NEW s \in Rules.seeded, rows[id] = Seeded(c, s)
          PROVE  LedgerOf(id) = <<[status |-> s, content |-> Snapshot(Written(Null))]>>
      <4>1. Reads(id) /\ rows[id].version = 1
        BY <2>1, <3>2, LedgerReads DEF Seeded
      <4>2. /\ Len(LedgerOf(id)) = 1
            /\ LedgerOf(id)[1] = [status |-> s, content |-> Snapshot(Written(Null))]
        BY <3>2, <4>1 DEF Reads, EntryIn, Seeded
      <4> QED  BY <4>1, <4>2 DEF Reads
    <3> QED  BY <3>1, <3>2, SameRules DEF Init
  <2>3. Withdrawn = {}
    BY DEF Init, Withdrawn, Seeded, Absent
  <2> QED  BY <2>2, <2>3 DEF Ledger!Init, Withdrawn
<1>2. TypeInv /\ SnapshotsHold /\ RevisionChain /\ TypeInv' /\ RevisionChain' /\ [Next]_vars
        => [Ledger!Next]_(Ledger!vars)
  <2> SUFFICES ASSUME TypeInv, SnapshotsHold, RevisionChain, TypeInv', RevisionChain',
                      [Next]_vars
               PROVE  [Ledger!Next]_(Ledger!vars)
    OBVIOUS
  <2>1. Chained /\ Chained'
    <3>1. Rules' = Rules
      BY DEF Rules, PressUnitRules, PrintRunRules, ColorProofRules, ReleaseDecisionRules
    <3> QED  BY <3>1 DEF RevisionChain, Chained, ChainOf
  <2>2. CASE Quiet
    BY <2>2 DEF Quiet, Ledger!vars, LedgerOf, RevisionsOf
  <2>3. ASSUME NEW r \in Reqs, Writes(r) PROVE Ledger!Next
    BY <2>1, <2>3, WriteRecords, InsertOpens, DeleteWithdraws DEF Writes
  <2> QED  BY <2>2, <2>3, StepIsQuietOrWrites
<1> QED
  BY <1>1, <1>2, SnapshotsInvariant, ChainUnbroken, PTL
     DEF Spec, ImplementsLedger, Ledger!Spec
=============================================================================
