-------------------------- MODULE RecordAnswerProofs --------------------------
(***************************************************************************)
(* What clients and the audit log are told: proofs that it agrees with     *)
(* what was done, for every kind and any number of requests.               *)
(***************************************************************************)
EXTENDS RecordWorkflowProofs, FiniteSetTheorems

\* The invariant of RecordInvariants holds.
THEOREM InvariantHolds == Spec => []IInv
<1>1. Init => WinnersAreAhead /\ AuthorsWrote
  <2> SUFFICES ASSUME Init PROVE WinnersAreAhead /\ AuthorsWrote
    OBVIOUS
  <2>1. WinnersAreAhead
    BY DEF Init, WinnersAreAhead, NoJob
  <2>2. ASSUME NEW h \in revisions PROVE h.author = Null /\ h.version = 1
    <3>1. PICK id \in Ids : Live(id) /\ h \in RevisionOf(Null, id, rows[id])
      BY DEF Init
    <3>2. rows[id].version = 1
      BY <3>1 DEF Init, Seeded, Live, Absent
    <3> QED  BY <3>1, <3>2 DEF RevisionOf
  <2> QED  BY <2>1, <2>2 DEF AuthorsWrote
<1>2. TypeInv /\ WinnersAreAhead /\ AuthorsWrote /\ [Next]_vars
        => WinnersAreAhead' /\ AuthorsWrote'
  BY WinnersStayAhead, AuthorsStay
<1> QED  BY <1>1, <1>2, SnapshotsInvariant, PTL DEF Spec, IInv

-----------------------------------------------------------------------------
(* Frames.                                                                 *)

Acts(r) == Begin(r) \/ Proceed(r) \/ Fault(r)

\* A request changes nothing of another one.
LEMMA OthersStay ==
  ASSUME TypeInv, NEW r \in Reqs, Acts(r), NEW q \in Reqs \ {r}
  PROVE  pc'[q] = pc[q] /\ job'[q] = job[q] /\ answer'[q] = answer[q]
<1> USE DEF TypeInv, TypeOK
<1>1. ASSUME NEW result, Refuse(r, result)
      PROVE  pc'[q] = pc[q] /\ job'[q] = job[q] /\ answer'[q] = answer[q]
  BY <1>1 DEF Refuse, Replies
<1>2. ASSUME NEW phase, NEW j, Admit(r, phase, j)
      PROVE  pc'[q] = pc[q] /\ job'[q] = job[q] /\ answer'[q] = answer[q]
  BY <1>2 DEF Admit
<1>3. ASSUME NEW result, Abort(r, result)
      PROVE  pc'[q] = pc[q] /\ job'[q] = job[q] /\ answer'[q] = answer[q]
  BY <1>3 DEF Abort
<1>4. CASE Begin(r)
  BY <1>1, <1>2, <1>4
  DEF Begin, BeginCreate, BeginUpdate, BeginTransition, BeginDelete, BeginGet
<1>5. CASE InsertRow(r) \/ WriteRow(r) \/ SoftDelete(r)
  BY <1>5 DEF InsertRow, WriteRow, SoftDelete
<1>6. CASE InsertRejected(r) \/ WriteConflict(r) \/ DeleteMissed(r) \/ FetchMissed(r)
  BY <1>1, <1>6 DEF InsertRejected, WriteConflict, DeleteMissed, FetchMissed
<1>7. CASE AppendAudit(r) \/ AuditFails(r)
  BY <1>7 DEF AppendAudit, AuditFails, AfterAudit, Replies
<1>8. CASE FetchRow(r) \/ FetchRevisions(r)
  BY <1>8 DEF FetchRow, FetchRevisions
<1>9. CASE DatabaseError(r) \/ Interrupted(r)
  BY <1>3, <1>9 DEF DatabaseError, Interrupted
<1> QED  BY <1>4, <1>5, <1>6, <1>7, <1>8, <1>9 DEF Acts, Proceed, Fault

\* Versions never go back.
LEMMA VersionsGrow ==
  ASSUME TypeInv, [Next]_vars, NEW id \in Ids
  PROVE  /\ rows[id].version \in Nat /\ rows'[id].version \in Nat
         /\ rows[id].version <= rows'[id].version
<1>1. rows[id].version \in Nat /\ rows'[id].version \in Nat
  BY NextType DEF TypeInv, TypeOK, Row
<1>2. CASE Quiet
  BY <1>1, <1>2 DEF Quiet
<1>3. ASSUME NEW r \in Reqs, InsertRow(r) PROVE rows[id].version <= rows'[id].version
  <2>1. PICK i \in Ids, row \in Row :
          rows[i] = Absent /\ \A k \in Ids : rows'[k] = IF k = i THEN row ELSE rows[k]
    BY <1>3, InsertRowDoes
  <2> QED  BY <1>1, <2>1 DEF Absent
<1>4. ASSUME NEW r \in Reqs, WriteRow(r) PROVE rows[id].version <= rows'[id].version
  <2>1. PICK i \in Ids, row \in Row :
          /\ row.version = rows[i].version + 1
          /\ \A k \in Ids : rows'[k] = IF k = i THEN row ELSE rows[k]
    BY <1>4, WriteRowDoes
  <2> QED  BY <1>1, <2>1
<1>5. ASSUME NEW r \in Reqs, SoftDelete(r) PROVE rows[id].version <= rows'[id].version
  BY <1>1, <1>5, SoftDeleteDoes
<1> QED  BY <1>1, <1>2, <1>3, <1>4, <1>5, StepIsQuietOrWrites DEF Writes

\* The audit log is only ever appended to, by what a request did.
LEMMA AuditsGrow ==
  ASSUME [Next]_vars
  PROVE  \/ audits' = audits
         \/ \E r \in Reqs : AppendAudit(r) /\ audits' = audits \cup {AuditOf(r)}
<1>1. ASSUME NEW r \in Reqs, Begin(r) PROVE audits' = audits
  BY <1>1 DEF Begin, BeginCreate, BeginUpdate, BeginTransition, BeginDelete, BeginGet,
              Refuse, Admit
<1>2. ASSUME NEW r \in Reqs, Proceed(r), ~AppendAudit(r) PROVE audits' = audits
  BY <1>2 DEF Proceed, InsertRow, InsertRejected, WriteRow, WriteConflict, SoftDelete,
              DeleteMissed, FetchRow, FetchMissed, FetchRevisions, Refuse
<1>3. ASSUME NEW r \in Reqs, Fault(r) PROVE audits' = audits
  BY <1>3 DEF Fault, AuditFails, DatabaseError, Interrupted, Abort
<1> QED  BY <1>1, <1>2, <1>3 DEF Next, vars, AppendAudit
-----------------------------------------------------------------------------
(* What a request has been told, and will be told, of what it did.         *)

Refusals == {"forbidden", "business_rule", "record_locked", "version_conflict"}

Audited(r) == \E a \in audits : a.req = r /\ a.action = job[r].op

\* The parts of the invariant: nothing is told before the end; who reads a
\* record back has written; who was refused has not; who is past its audit row
\* has one, where its error would not have been ignored; and who was shown a
\* version was shown one past what it wrote over.
ToldAtTheEnd(r) == pc[r] # "done" => answer[r].result = "none"

ReadsBackOwn(r) == pc[r] \in {"fetch", "preload"} /\ IsWrite(job[r]) => job[r].wrote

RefusedDidNothing(r) == answer[r].result \in Refusals => ~job[r].wrote

DoneIsAudited(r) ==
  /\ pc[r] \in {"fetch", "preload"} \/ answer[r].result = "ok"
  /\ job[r].op \in {"transition", "delete"}
  => Audited(r)

ShownIsLater(r) ==
  /\ pc[r] = "preload" \/ answer[r].result = "ok"
  /\ IsWrite(job[r])
  => answer[r].version > job[r].expected

Told(r) ==
  /\ ToldAtTheEnd(r) /\ ReadsBackOwn(r) /\ RefusedDidNothing(r)
  /\ DoneIsAudited(r) /\ ShownIsLater(r)

LEMMA ToldOthers ==
  ASSUME TypeInv, [Next]_vars, NEW q \in Reqs, Told(q),
         pc'[q] = pc[q], job'[q] = job[q], answer'[q] = answer[q]
  PROVE  Told(q)'
<1>1. audits \subseteq audits'
  BY AuditsGrow
<1> QED
  BY <1>1 DEF Told, ToldAtTheEnd, ReadsBackOwn, RefusedDidNothing, DoneIsAudited,
              Audited, ShownIsLater, IsWrite

\* The ends of a request.
LEMMA ToldRefusal ==
  ASSUME TypeInv, NEW r \in Reqs, NEW result \in Results \ {"none", "ok"},
         ~job[r].wrote \/ result = "not_found", Refuse(r, result)
  PROVE  Told(r)'
<1>1. /\ pc'[r] = "done" /\ job'[r] = job[r]
      /\ answer'[r].result = result
  BY DEF Refuse, Replies, TypeInv, TypeOK, Answer
<1> QED
  BY <1>1 DEF Told, ToldAtTheEnd, ReadsBackOwn, RefusedDidNothing, DoneIsAudited,
              ShownIsLater, Refusals

LEMMA ToldAbort ==
  ASSUME TypeInv, NEW r \in Reqs, NEW result \in {"internal_error", "lost"},
         Abort(r, result)
  PROVE  Told(r)'
<1>1. pc'[r] = "done" /\ answer'[r].result = result
  BY DEF Abort, TypeInv, TypeOK, NoAnswer
<1> QED
  BY <1>1 DEF Told, ToldAtTheEnd, ReadsBackOwn, RefusedDidNothing, DoneIsAudited,
              ShownIsLater, Refusals

\* A request that goes on without having been told anything.
LEMMA ToldNothing ==
  ASSUME TypeInv, NEW r \in Reqs, pc'[r] \in {"checked", "written"},
         answer[r].result = "none", answer' = answer
  PROVE  Told(r)'
BY DEF Told, ToldAtTheEnd, ReadsBackOwn, RefusedDidNothing, DoneIsAudited,
       ShownIsLater, Refusals

LEMMA ToldBegin ==
  ASSUME TypeInv, NEW r \in Reqs, Told(r), Begin(r)
  PROVE  Told(r)'
<1>1. pc[r] = "idle" /\ answer[r].result = "none" /\ ~job[r].wrote
  BY DEF Begin, BeginCreate, BeginUpdate, BeginTransition, BeginDelete, BeginGet,
         Told, ToldAtTheEnd, TypeInv, JobsComplete, JobFits, NoJob
<1>2. ASSUME NEW j, Admit(r, "checked", j) PROVE Told(r)'
  BY <1>1, <1>2, ToldNothing DEF Admit, TypeInv, TypeOK
<1>3. ASSUME NEW result \in {"forbidden", "business_rule", "not_found", "record_locked"},
             Refuse(r, result)
      PROVE  Told(r)'
  BY <1>1, <1>3, ToldRefusal DEF Results
<1>4. CASE BeginGet(r)
  <2>1. PICK id \in Ids : Admit(r, "fetch", GetJob(id))
    BY <1>4 DEF BeginGet
  <2>2. pc'[r] = "fetch" /\ job'[r].op = "get" /\ answer' = answer
    BY <2>1 DEF Admit, GetJob, NoJob, TypeInv, TypeOK
  <2> QED
    BY <1>1, <2>2 DEF Told, ToldAtTheEnd, ReadsBackOwn, RefusedDidNothing, DoneIsAudited,
                      ShownIsLater, Refusals, IsWrite
<1>5. CASE BeginCreate(r) \/ BeginUpdate(r) \/ BeginTransition(r) \/ BeginDelete(r)
  BY <1>2, <1>3, <1>5 DEF BeginCreate, BeginUpdate, BeginTransition, BeginDelete
<1> QED  BY <1>4, <1>5 DEF Begin

LEMMA ToldWrite ==
  ASSUME TypeInv, NEW r \in Reqs, Told(r), pc[r] = "checked", Proceed(r)
  PROVE  Told(r)'
<1>1. answer[r].result = "none" /\ ~job[r].wrote
  BY WriterKnown DEF Told, ToldAtTheEnd
<1>2. CASE InsertRow(r) \/ WriteRow(r) \/ SoftDelete(r)
  <2>1. pc'[r] = "written" /\ answer' = answer
    BY <1>2 DEF InsertRow, WriteRow, SoftDelete, TypeInv, TypeOK
  <2> QED  BY <1>1, <2>1, ToldNothing
<1>3. CASE InsertRejected(r) \/ WriteConflict(r) \/ DeleteMissed(r)
  BY <1>1, <1>3, ToldRefusal DEF InsertRejected, WriteConflict, DeleteMissed, Results
<1> QED
  BY <1>2, <1>3 DEF Proceed, AppendAudit, FetchRow, FetchMissed, FetchRevisions

\* After the audit row, or its failure: what reads back has written and, if it
\* is a transition, has its audit row.
LEMMA ToldAudit ==
  ASSUME TypeInv, NEW r \in Reqs, Told(r), pc[r] = "written",
         AppendAudit(r) \/ AuditFails(r)
  PROVE  Told(r)'
<1>1. /\ answer[r].result = "none" /\ job[r].wrote /\ job' = job
      /\ job[r].op \in Ops
  BY DEF Told, ToldAtTheEnd, TypeInv, TypeOK, Job, JobsComplete, JobFits, AppendAudit, AuditFails
<1>2. ASSUME AfterAudit(r) PROVE
        \/ pc'[r] = "fetch" /\ answer' = answer /\ IsWrite(job[r])
        \/ pc'[r] = "done" /\ answer'[r].result = "ok" /\ ~IsWrite(job[r])
  BY <1>2 DEF AfterAudit, TypeInv, TypeOK, Answer
<1>3. ASSUME AfterAudit(r), job[r].op \in {"transition", "delete"} => Audited(r)'
      PROVE  Told(r)'
  BY <1>1, <1>2, <1>3
  DEF Told, ToldAtTheEnd, ReadsBackOwn, RefusedDidNothing, DoneIsAudited, ShownIsLater,
      Refusals, IsWrite
<1>4. CASE AppendAudit(r)
  <2>1. AuditOf(r) \in audits' /\ AuditOf(r).req = r /\ AuditOf(r).action = job[r].op
    BY <1>4 DEF AppendAudit, AuditOf
  <2>2. Audited(r)' /\ AfterAudit(r)
    BY <1>1, <1>4, <2>1 DEF Audited, AppendAudit
  <2> QED  BY <1>3, <2>2
<1>5. CASE AuditFails(r) /\ AuditErrorIgnored(job[r].op)
  BY <1>3, <1>5 DEF AuditFails, AuditErrorIgnored
<1>6. CASE AuditFails(r) /\ ~AuditErrorIgnored(job[r].op)
  <2>1. Replies(r, "internal_error")
    BY <1>6 DEF AuditFails
  <2>2. pc'[r] = "done" /\ answer'[r].result = "internal_error"
    BY <2>1 DEF Replies, TypeInv, TypeOK
  <2> QED
    BY <2>2 DEF Told, ToldAtTheEnd, ReadsBackOwn, RefusedDidNothing, DoneIsAudited,
                ShownIsLater, Refusals
<1> QED  BY <1>4, <1>5, <1>6
LEMMA ToldRead ==
  ASSUME TypeInv, WinnersAreAhead, NEW r \in Reqs, Told(r),
         FetchRow(r) \/ FetchMissed(r) \/ FetchRevisions(r)
  PROVE  Told(r)'
<1>1. /\ answer[r].result = "none" /\ answer[r] \in Answer
      /\ pc[r] \in {"fetch", "preload"} /\ job[r].id \in Ids
      /\ IsWrite(job[r]) => job[r].wrote
      /\ job[r].op \in {"transition", "delete"} => Audited(r)
  BY DEF Told, ToldAtTheEnd, ReadsBackOwn, DoneIsAudited, TypeInv, TypeOK, JobsComplete,
         JobFits, FetchRow, FetchMissed, FetchRevisions
<1>2. CASE FetchMissed(r)
  BY <1>2, ToldRefusal DEF FetchMissed, Results
<1>3. ASSUME pc'[r] \in {"preload", "done"}, answer'[r].result \in {"none", "ok"},
             pc'[r] # "done" => answer'[r].result = "none",
             IsWrite(job[r]) => answer'[r].version > job[r].expected,
             job' = job, audits' = audits
      PROVE  Told(r)'
  BY <1>1, <1>3
  DEF Told, ToldAtTheEnd, ReadsBackOwn, RefusedDidNothing, DoneIsAudited, Audited,
      ShownIsLater, Refusals, IsWrite
<1>4. CASE FetchRow(r)
  <2>1. job' = job /\ audits' = audits
    BY <1>4 DEF FetchRow
  <2>2. /\ pc'[r] \in {"preload", "done"} /\ answer'[r].result \in {"none", "ok"}
        /\ pc'[r] # "done" => answer'[r].result = "none"
        /\ answer'[r].version = rows[job[r].id].version
    BY <1>1, <1>4 DEF FetchRow, TypeInv, TypeOK, Answer
  <2>3. IsWrite(job[r]) => rows[job[r].id].version > job[r].expected
    BY <1>1 DEF WinnersAreAhead
  <2> QED  BY <1>3, <2>1, <2>2, <2>3
<1>5. CASE FetchRevisions(r)
  <2>1. job' = job /\ audits' = audits /\ pc[r] = "preload"
    BY <1>5 DEF FetchRevisions
  <2>2. /\ pc'[r] = "done" /\ answer'[r].result = "ok"
        /\ answer'[r].version = answer[r].version
    BY <1>1, <1>5 DEF FetchRevisions, TypeInv, TypeOK, Answer
  <2>3. IsWrite(job[r]) => answer[r].version > job[r].expected
    BY <2>1 DEF Told, ShownIsLater
  <2> QED  BY <1>3, <2>1, <2>2, <2>3
<1> QED  BY <1>2, <1>4, <1>5

LEMMA ToldStays ==
  ASSUME TypeInv, WinnersAreAhead, \A r \in Reqs : Told(r), [Next]_vars,
         NEW q \in Reqs
  PROVE  Told(q)'
<1>1. ASSUME NEW r \in Reqs, Acts(r), r # q PROVE Told(q)'
  BY <1>1, OthersStay, ToldOthers
<1>2. CASE Begin(q)
  BY <1>2, ToldBegin
<1>3. CASE Proceed(q)
  <2>1. \/ pc[q] = "checked" \/ AppendAudit(q)
        \/ FetchRow(q) \/ FetchMissed(q) \/ FetchRevisions(q)
    BY <1>3 DEF Proceed, InsertRow, InsertRejected, WriteRow, WriteConflict, SoftDelete,
                DeleteMissed
  <2>2. AppendAudit(q) => pc[q] = "written"
    BY DEF AppendAudit
  <2> QED  BY <1>3, <2>1, <2>2, ToldWrite, ToldAudit, ToldRead
<1>4. CASE Fault(q)
  <2>1. AuditFails(q) => pc[q] = "written"
    BY DEF AuditFails
  <2> QED  BY <1>4, <2>1, ToldAudit, ToldAbort DEF Fault, DatabaseError, Interrupted
<1>5. CASE UNCHANGED vars
  BY <1>5, ToldOthers DEF vars
<1> QED  BY <1>1, <1>2, <1>3, <1>4, <1>5 DEF Next, Acts

-----------------------------------------------------------------------------
(* The audit log.                                                          *)

\* Each row of it is about what its request wrote.
AuditsOfWriters == \A a \in audits : job[a.req].wrote /\ a = AuditOf(a.req)

LEMMA AuditsStay ==
  ASSUME TypeInv, AuditsOfWriters, [Next]_vars
  PROVE  AuditsOfWriters'
<1> SUFFICES ASSUME NEW a \in audits'
             PROVE  job'[a.req].wrote /\ a = AuditOf(a.req)'
  BY DEF AuditsOfWriters
<1>1. CASE a \in audits
  <2>1. a.req \in Reqs /\ job[a.req].wrote /\ a = AuditOf(a.req)
    BY <1>1 DEF AuditsOfWriters, TypeInv, TypeOK, Audit
  <2>2. job'[a.req] = job[a.req]
    BY <2>1, WritersStay
  <2> QED  BY <2>1, <2>2 DEF AuditOf
<1>2. CASE a \notin audits
  <2>1. PICK r \in Reqs : AppendAudit(r) /\ a = AuditOf(r)
    BY <1>2, AuditsGrow
  <2>2. a.req = r /\ job' = job /\ job[r].wrote
    BY <2>1 DEF AppendAudit, AuditOf, TypeInv, JobsComplete, JobFits
  <2> QED  BY <2>1, <2>2 DEF AuditOf
<1> QED  BY <1>1, <1>2

LEMMA AnswerInvariant ==
  Spec => [](IInv /\ AuditsOfWriters /\ \A r \in Reqs : Told(r))
<1>1. Init => AuditsOfWriters /\ \A r \in Reqs : Told(r)
  BY DEF Init, AuditsOfWriters, Told, ToldAtTheEnd, ReadsBackOwn, RefusedDidNothing,
         DoneIsAudited, ShownIsLater, NoAnswer, NoJob, Refusals, IsWrite
<1>2. IInv /\ AuditsOfWriters /\ (\A r \in Reqs : Told(r)) /\ [Next]_vars
        => AuditsOfWriters' /\ (\A r \in Reqs : Told(r))'
  BY AuditsStay, ToldStays DEF IInv
<1> QED  BY <1>1, <1>2, InvariantHolds, PTL DEF Spec

\* What a client is told agrees with what happened: a refusal left no trace, a
\* transition or deletion that was confirmed is in the log, and a writer is
\* shown its own version of the record or a later one.
THEOREM AnswersAreTrue == Spec => []AnswerMatchesEffect
<1>1. ASSUME IInv, AuditsOfWriters, \A r \in Reqs : Told(r)
      PROVE  AnswerMatchesEffect
  <2> SUFFICES ASSUME NEW r \in Reqs
               PROVE  /\ answer[r].result \in Refusals => ~job[r].wrote /\ ~HasTrace(r)
                      /\ answer[r].result = "ok" /\ job[r].op \in {"transition", "delete"}
                           => Audited(r)
                      /\ answer[r].result = "ok" /\ IsWrite(job[r])
                           => answer[r].version > job[r].expected
    BY DEF AnswerMatchesEffect, Refusals, Audited
  <2>1. HasTrace(r) => job[r].wrote
    <3>1. ASSUME NEW h \in revisions, h.author = r PROVE job[r].wrote
      BY <1>1, <3>1, NullAssumption DEF IInv, AuthorsWrote
    <3>2. ASSUME NEW a \in audits, a.req = r PROVE job[r].wrote
      BY <1>1, <3>2 DEF AuditsOfWriters
    <3> QED  BY <3>1, <3>2 DEF HasTrace
  <2>2. Told(r)
    BY <1>1
  <2> QED  BY <2>1, <2>2 DEF Told, RefusedDidNothing, DoneIsAudited, ShownIsLater
<1> QED  BY <1>1, AnswerInvariant, PTL
\* The two revisions between which a request wrote.
Recorded(r) ==
  job[r].wrote /\ IsWrite(job[r]) =>
    \E g, h \in RevisionsOf(job[r].id) :
      /\ g.version + 1 = h.version
      /\ h.author = r
      /\ g.status = job[r].before /\ h.status = job[r].status

\* The first step after which a request has written is its write.
LEMMA FirstWrite ==
  ASSUME TypeInv, [Next]_vars, NEW q \in Reqs, ~job[q].wrote, job'[q].wrote
  PROVE  Writes(q)
<1>1. PICK r \in Reqs : Writes(r)
  BY StepIsQuietOrWrites DEF Quiet
<1>2. PICK id : Committed(r, id)
  BY <1>1, WriteRowDoes, InsertRowDoes, SoftDeleteDoes DEF Writes
<1> QED  BY <1>1, <1>2 DEF Committed

LEMMA RecordedStays ==
  ASSUME TypeInv, SnapshotsHold, HonestClients, Rules.revisions, Chained, [Next]_vars,
         NEW q \in Reqs, Recorded(q)
  PROVE  Recorded(q)'
<1> SUFFICES ASSUME job'[q].wrote, IsWrite(job'[q])
             PROVE  \E g, h \in RevisionsOf(job[q].id)' :
                      /\ g.version + 1 = h.version
                      /\ h.author = q
                      /\ g.status = job'[q].before /\ h.status = job'[q].status
  BY DEF Recorded, IsWrite, RevisionsOf
<1>1. revisions \subseteq revisions'
  BY StepIsQuietOrWrites, WriteRowDoes, InsertRowDoes, SoftDeleteDoes DEF Quiet, Writes
<1>2. CASE job[q].wrote
  <2>1. job'[q] = job[q]
    BY <1>2, WritersStay
  <2>2. RevisionsOf(job[q].id) \subseteq RevisionsOf(job[q].id)'
    BY <1>1, <2>1 DEF RevisionsOf
  <2> QED  BY <1>2, <2>1, <2>2 DEF Recorded, IsWrite
<1>3. CASE ~job[q].wrote
  <2>1. WriteRow(q)
    <3>1. Writes(q)
      BY <1>3, FirstWrite
    <3>2. InsertRow(q) => job'[q].op = "create"
      BY InsertRowDoes DEF Committed
    <3>3. SoftDelete(q) => job'[q].op = "delete"
      BY SoftDeleteDoes DEF Committed
    <3> QED  BY <3>1, <3>2, <3>3 DEF Writes, IsWrite
  <2>2. PICK id \in Ids, row \in Row :
          /\ id = job[q].id /\ IsWriteJob(job[q]) /\ job[q] \in Job
          /\ rows[id].state = "live" /\ rows[id].version = job[q].expected
          /\ row.version = job[q].expected + 1 /\ row.status = job[q].status
          /\ revisions' = revisions \cup RevisionOf(q, id, row)
          /\ Committed(q, id)
    BY <2>1, WriteRowDoes
  <2>3. job'[q].before = job[q].before /\ job'[q].status = job[q].status /\ job'[q].id = id
    BY <2>1, <2>2 DEF WriteRow, TypeInv, TypeOK, Job
  <2>4. job[q].before = rows[id].status
    BY <2>2 DEF SnapshotsHold, SnapshotHolds, ChecksHold, Committed, IsWriteJob
  <2>5. rows[id].version \in Nat \ {0}
    BY <2>2 DEF TypeInv, RowsComplete
  <2>6. PICK g \in RevisionsOf(id) : g.version = rows[id].version
    <3>1. rows[id].version \in 1 .. rows[id].version
      BY <2>5
    <3> QED  BY <3>1 DEF Chained, ChainOf
  <2>7. g.status = rows[id].status
    BY <2>6 DEF Chained, ChainOf
  <2>8. PICK h : h = [id |-> id, version |-> row.version, status |-> row.status,
                      content |-> Snapshot(row.content), author |-> q]
    OBVIOUS
  <2>9. h \in RevisionsOf(id)' /\ g \in RevisionsOf(id)'
    BY <1>1, <2>2, <2>6, <2>8 DEF RevisionsOf, RevisionOf
  <2> QED  BY <2>2, <2>3, <2>4, <2>6, <2>7, <2>8, <2>9
<1> QED  BY <1>2, <1>3

\* For clients that send versions they were given, an audit row of an update or
\* a transition names the request that made the revision, and the statuses
\* before and after it, although `before` was read before the write.
THEOREM AuditsAreTrue == Spec => []AuditMatchesRevision
<1> DEFINE Inv ==
      /\ IInv /\ AuditsOfWriters
      /\ Rules.revisions => Chained
      /\ Rules.revisions /\ HonestClients => \A r \in Reqs : Recorded(r)
<1>1. ASSUME Init PROVE Inv
  <2>1. IInv
    <3>1. ASSUME NEW h \in revisions PROVE h.author = Null /\ h.version = 1
      <4>1. PICK id \in Ids : Live(id) /\ h \in RevisionOf(Null, id, rows[id])
        BY <1>1 DEF Init
      <4>2. rows[id].version = 1
        BY <1>1, <4>1 DEF Init, Seeded, Live, Absent
      <4> QED  BY <4>1, <4>2 DEF RevisionOf
    <3> QED
      BY <1>1, <3>1, InitType DEF Init, IInv, WinnersAreAhead, SnapshotsHold, SnapshotHolds,
                                  AuthorsWrote, NoJob
  <2>2. AuditsOfWriters /\ \A r \in Reqs : Recorded(r)
    BY <1>1 DEF Init, AuditsOfWriters, Recorded, NoJob
  <2> QED  BY <1>1, <2>1, <2>2, ChainStarts DEF Chained
<1>2. ASSUME Inv, IInv', [Next]_vars PROVE Inv'
  <2>1. (Rules.revisions' <=> Rules.revisions) /\ (HonestClients' <=> HonestClients)
    BY DEF Rules, PressUnitRules, PrintRunRules, ColorProofRules, ReleaseDecisionRules,
           HonestClients
  <2>2. AuditsOfWriters'
    BY <1>2, AuditsStay DEF IInv
  <2>3. (Rules.revisions => Chained)'
    BY <1>2, <2>1, ChainStays DEF Chained, IInv
  <2>4. (Rules.revisions /\ HonestClients => \A r \in Reqs : Recorded(r))'
    BY <1>2, <2>1, RecordedStays DEF IInv
  <2> QED  BY <1>2, <2>2, <2>3, <2>4
<1>3. Inv => AuditMatchesRevision
  <2> SUFFICES ASSUME Inv, Rules.revisions, HonestClients,
                      NEW a \in audits, a.action \in {"update", "transition"}
               PROVE  \E g, h \in RevisionsOf(a.id) :
                        /\ g.version + 1 = h.version
                        /\ h.author = a.req
                        /\ g.status = a.before /\ h.status = a.after
    BY DEF AuditMatchesRevision
  <2>1. a.req \in Reqs /\ job[a.req].wrote /\ a = AuditOf(a.req)
    BY DEF AuditsOfWriters, IInv, TypeInv, TypeOK, Audit
  <2>2. /\ a.action = job[a.req].op /\ a.id = job[a.req].id
        /\ a.before = job[a.req].before /\ a.after = job[a.req].status
    BY <2>1 DEF AuditOf
  <2> QED  BY <2>1, <2>2 DEF Recorded, IsWrite
<1> QED  BY <1>1, <1>2, <1>3, InvariantHolds, PTL DEF Spec
-----------------------------------------------------------------------------
(* A record shown with its revisions.                                      *)

Reading(j) == j.op = "get" \/ IsWrite(j)

\* Between its two statements a reader holds a version the record has passed;
\* at its end the answer has a whole chain that contains the version.
ChainRead(r) ==
  /\ pc[r] = "preload" => answer[r].version \in 1 .. rows[job[r].id].version
  /\ answer[r].result = "ok" /\ Reading(job[r]) =>
       \E n \in Nat : answer[r].chain = 1 .. n /\ answer[r].version \in 1 .. n

LEMMA ChainReadStays ==
  ASSUME TypeInv, Rules.revisions, Chained, \A r \in Reqs : Told(r), [Next]_vars,
         NEW q \in Reqs, ChainRead(q)
  PROVE  ChainRead(q)'
<1> USE DEF TypeInv, TypeOK
<1>1. CASE pc'[q] = pc[q] /\ job'[q] = job[q] /\ answer'[q] = answer[q]
  <2>1. ASSUME pc[q] = "preload" PROVE answer[q].version \in 1 .. rows'[job[q].id].version
    <3>1. job[q].id \in Ids /\ answer[q].version \in 1 .. rows[job[q].id].version
      BY <2>1 DEF JobsComplete, JobFits, ChainRead
    <3> QED  BY <3>1, VersionsGrow
  <2> QED  BY <1>1, <2>1 DEF ChainRead, Reading, IsWrite
<1>2. ASSUME pc'[q] # "preload", answer'[q].result # "ok" PROVE ChainRead(q)'
  BY <1>2 DEF ChainRead
<1>3. pc[q] # "done" => answer[q].result = "none"
  BY DEF Told, ToldAtTheEnd
<1>4. ASSUME NEW result \in Results \ {"ok"}, Refuse(q, result) PROVE ChainRead(q)'
  BY <1>2, <1>4 DEF Refuse, Replies, Answer
<1>5. CASE Begin(q)
  <2>1. ASSUME NEW phase \in {"checked", "fetch"}, NEW j, Admit(q, phase, j), pc[q] = "idle"
        PROVE  ChainRead(q)'
    BY <1>2, <1>3, <2>1 DEF Admit
  <2> QED
    BY <1>4, <1>5, <2>1 DEF Begin, BeginCreate, BeginUpdate, BeginTransition, BeginDelete,
                            BeginGet, Results
<1>6. CASE InsertRow(q) \/ WriteRow(q) \/ SoftDelete(q)
  BY <1>2, <1>3, <1>6 DEF InsertRow, WriteRow, SoftDelete
<1>7. CASE InsertRejected(q) \/ WriteConflict(q) \/ DeleteMissed(q) \/ FetchMissed(q)
  BY <1>4, <1>7 DEF InsertRejected, WriteConflict, DeleteMissed, FetchMissed, Results
<1>8. CASE AppendAudit(q) \/ AuditFails(q)
  <2>1. pc[q] = "written" /\ job' = job /\ job[q].op # "get"
    BY <1>8 DEF AppendAudit, AuditFails, JobsComplete, JobFits
  <2>2. CASE AfterAudit(q)
    <3>1. CASE IsWrite(job[q])
      BY <1>2, <1>3, <2>1, <2>2, <3>1 DEF AfterAudit
    <3>2. CASE ~IsWrite(job[q])
      <4>1. pc'[q] = "done" /\ ~Reading(job'[q])
        BY <2>1, <2>2, <3>2 DEF AfterAudit, Reading, IsWrite
      <4> QED  BY <4>1 DEF ChainRead, Reading, IsWrite
    <3> QED  BY <3>1, <3>2
  <2>3. CASE Replies(q, "internal_error")
    BY <1>2, <2>3 DEF Replies, Answer
  <2> QED  BY <1>8, <2>2, <2>3 DEF AppendAudit, AuditFails
<1>9. CASE FetchRow(q)
  <2>1. /\ pc'[q] = "preload" /\ job' = job /\ rows' = rows
        /\ answer'[q].version = rows[job[q].id].version
        /\ answer'[q].result = answer[q].result /\ pc[q] = "fetch" /\ Live(job[q].id)
    BY <1>9 DEF FetchRow, Answer
  <2>2. rows[job[q].id].version \in Nat \ {0}
    BY <2>1 DEF RowsComplete, Live, JobsComplete, JobFits
  <2>3. answer'[q].version \in 1 .. rows[job[q].id].version
    BY <2>1, <2>2
  <2> QED  BY <1>3, <2>1, <2>3 DEF ChainRead
<1>10. CASE FetchRevisions(q)
  <2>1. /\ pc'[q] = "done" /\ job' = job /\ pc[q] = "preload"
        /\ answer'[q].version = answer[q].version
        /\ answer'[q].chain = ChainShown(q)
    BY <1>10 DEF FetchRevisions, Answer
  <2>2. PICK n \in Nat : n = rows[job[q].id].version
    BY <2>1 DEF JobsComplete, JobFits, Row
  <2>3. ChainShown(q) = 1 .. n /\ answer[q].version \in 1 .. n
    BY <2>1, <2>2 DEF ChainShown, Chained, ChainOf, ChainRead, JobsComplete, JobFits
  <2> QED  BY <2>1, <2>3 DEF ChainRead
<1>11. CASE DatabaseError(q) \/ Interrupted(q)
  <2>1. PICK result \in {"internal_error", "lost"} : Abort(q, result)
    BY <1>11 DEF DatabaseError, Interrupted
  <2>2. pc'[q] = "done" /\ answer'[q].result = result
    BY <2>1 DEF Abort, NoAnswer
  <2> QED  BY <1>2, <2>2
<1>12. CASE UNCHANGED vars
  BY <1>1, <1>12 DEF vars
<1>13. ASSUME NEW r \in Reqs \ {q}, Acts(r) PROVE ChainRead(q)'
  BY <1>1, <1>13, OthersStay
<1> QED
  BY <1>5, <1>6, <1>7, <1>8, <1>9, <1>10, <1>11, <1>12, <1>13
  DEF Next, Acts, Proceed, Fault

\* A record shown with its revisions, which are read later than the row, is
\* never ahead of them, and what is shown of them has no gap.
THEOREM DetailsAreCovered == Spec => []DetailCoversVersion
<1> DEFINE Base == IInv /\ AuditsOfWriters /\ \A r \in Reqs : Told(r)
           Inv == Rules.revisions => Chained /\ \A r \in Reqs : ChainRead(r)
<1>1. ASSUME Init PROVE Inv
  BY <1>1, ChainStarts DEF Init, Chained, ChainRead, NoAnswer
<1>2. ASSUME Base, Inv, [Next]_vars PROVE Inv'
  <2>1. Rules.revisions' <=> Rules.revisions
    BY DEF Rules, PressUnitRules, PrintRunRules, ColorProofRules, ReleaseDecisionRules
  <2> QED  BY <1>2, <2>1, ChainStays, ChainReadStays DEF Chained, IInv
<1>3. Inv => DetailCoversVersion
  <2> SUFFICES ASSUME Inv, Rules.revisions, NEW r \in Reqs,
                      answer[r].result = "ok", Reading(job[r])
               PROVE  /\ answer[r].chain = 1 .. Cardinality(answer[r].chain)
                      /\ answer[r].version \in answer[r].chain
    BY DEF DetailCoversVersion, Reading
  <2>1. PICK n \in Nat : answer[r].chain = 1 .. n /\ answer[r].version \in 1 .. n
    BY DEF ChainRead
  <2>2. Cardinality(1 .. n) = n
    <3>1. 1 \in Int /\ n \in Int
      OBVIOUS
    <3>2. Cardinality(1 .. n) = IF 1 > n THEN 0 ELSE n - 1 + 1
      BY <3>1, FS_Interval, Zenon
    <3> QED  BY <3>2
  <2> QED  BY <2>1, <2>2
<1> QED  BY <1>1, <1>2, <1>3, AnswerInvariant, PTL DEF Spec
-----------------------------------------------------------------------------
(* Conflicts.                                                              *)

\* Who took a record to its version, and who withdrew it.
LastWriter(id) ==
  rows[id].version > 1 =>
    \E q \in Reqs :
      /\ job[q].wrote /\ IsWrite(job[q])
      /\ job[q].id = id /\ job[q].expected + 1 = rows[id].version

Withdrawer(id) ==
  rows[id].state = "deleted" =>
    \E q \in Reqs : job[q].wrote /\ job[q].op = "delete" /\ job[q].id = id

Winner(q, r) ==
  /\ job[q].wrote /\ job[q].id = job[r].id
  /\ \/ job[q].op = "delete"
     \/ IsWrite(job[q]) /\ job[q].expected >= job[r].expected

Beaten(r) ==
  answer[r].result = "version_conflict" => \E q \in Reqs \ {r} : Winner(q, r)

LEMMA WritersKnown ==
  ASSUME TypeInv, [Next]_vars, NEW id \in Ids, LastWriter(id), Withdrawer(id)
  PROVE  LastWriter(id)' /\ Withdrawer(id)'
<1>1. \A q \in Reqs : job[q].wrote => job'[q] = job[q]
  BY WritersStay
<1>2. ASSUME rows'[id].version = rows[id].version PROVE LastWriter(id)'
  BY <1>1, <1>2 DEF LastWriter, IsWrite
<1>3. ASSUME rows'[id].state = "deleted" => rows[id].state = "deleted" PROVE Withdrawer(id)'
  BY <1>1, <1>3 DEF Withdrawer
<1>4. CASE Quiet
  BY <1>2, <1>3, <1>4 DEF Quiet
<1>5. ASSUME NEW r \in Reqs, InsertRow(r) PROVE LastWriter(id)' /\ Withdrawer(id)'
  <2>1. PICK i \in Ids, row \in Row :
          /\ row.state = "live" /\ row.version = 1
          /\ \A k \in Ids : rows'[k] = IF k = i THEN row ELSE rows[k]
    BY <1>5, InsertRowDoes
  <2>2. CASE id = i
    BY <1>3, <2>1, <2>2 DEF LastWriter
  <2>3. CASE id # i
    BY <1>2, <1>3, <2>1, <2>3
  <2> QED  BY <2>2, <2>3
<1>6. ASSUME NEW r \in Reqs, WriteRow(r) PROVE LastWriter(id)' /\ Withdrawer(id)'
  <2>1. PICK i \in Ids, row \in Row :
          /\ IsWriteJob(job[r])
          /\ row.version = job[r].expected + 1 /\ row.state = "live"
          /\ \A k \in Ids : rows'[k] = IF k = i THEN row ELSE rows[k]
          /\ Committed(r, i)
    BY <1>6, WriteRowDoes
  <2>2. CASE id = i
    <3>1. /\ job'[r].wrote /\ job'[r].id = id /\ IsWrite(job'[r])
          /\ job'[r].expected + 1 = rows'[id].version
      BY <2>1, <2>2 DEF Committed, IsWriteJob, IsWrite
    <3> QED  BY <1>3, <2>1, <2>2, <3>1 DEF LastWriter, IsWrite
  <2>3. CASE id # i
    BY <1>2, <1>3, <2>1, <2>3
  <2> QED  BY <2>2, <2>3
<1>7. ASSUME NEW r \in Reqs, SoftDelete(r) PROVE LastWriter(id)' /\ Withdrawer(id)'
  <2>1. /\ \A k \in Ids : rows'[k].version = rows[k].version
        /\ id # job[r].id => rows'[id] = rows[id]
        /\ job[r].op = "delete" /\ Committed(r, job[r].id)
    BY <1>7, SoftDeleteDoes
  <2>2. CASE id = job[r].id
    <3>1. job'[r].wrote /\ job'[r].id = id /\ job'[r].op = "delete"
      BY <2>1, <2>2 DEF Committed
    <3> QED  BY <1>2, <2>1, <3>1 DEF Withdrawer
  <2>3. CASE id # job[r].id
    BY <1>2, <1>3, <2>1, <2>3
  <2> QED  BY <2>2, <2>3
<1> QED  BY <1>4, <1>5, <1>6, <1>7, StepIsQuietOrWrites DEF Writes

\* Only a write that does not match its row is told of a conflict.
LEMMA ConflictIsOfWrite ==
  ASSUME TypeInv, NEW r \in Reqs, Told(r), Acts(r), answer'[r].result = "version_conflict"
  PROVE  WriteConflict(r)
<1> USE DEF TypeInv, TypeOK, Answer
<1>1. pc[r] # "done"
  BY DEF Acts, Begin, BeginCreate, BeginUpdate, BeginTransition, BeginDelete, BeginGet,
         Proceed, InsertRow, InsertRejected, WriteRow, WriteConflict, SoftDelete,
         DeleteMissed, AppendAudit, FetchRow, FetchMissed, FetchRevisions,
         Fault, AuditFails, DatabaseError, Interrupted
<1>2. answer[r].result = "none"
  BY <1>1 DEF Told, ToldAtTheEnd
<1>3. ASSUME NEW result, Refuse(r, result) PROVE result = "version_conflict"
  BY <1>3 DEF Refuse, Replies
<1>4. ASSUME NEW phase, NEW j, Admit(r, phase, j) PROVE FALSE
  BY <1>2, <1>4 DEF Admit
<1>5. ~Begin(r)
  BY <1>3, <1>4 DEF Begin, BeginCreate, BeginUpdate, BeginTransition, BeginDelete, BeginGet
<1>6. ~InsertRow(r) /\ ~WriteRow(r) /\ ~SoftDelete(r)
  BY <1>2 DEF InsertRow, WriteRow, SoftDelete
<1>7. ~InsertRejected(r) /\ ~DeleteMissed(r) /\ ~FetchMissed(r)
  BY <1>3 DEF InsertRejected, DeleteMissed, FetchMissed
<1>8. ~AppendAudit(r) /\ ~AuditFails(r)
  BY <1>2 DEF AppendAudit, AuditFails, AfterAudit, Replies
<1>9. ~FetchRow(r) /\ ~FetchRevisions(r)
  BY <1>2 DEF FetchRow, FetchRevisions
<1>10. ~DatabaseError(r) /\ ~Interrupted(r)
  BY DEF DatabaseError, Interrupted, Abort, NoAnswer
<1> QED  BY <1>5, <1>6, <1>7, <1>8, <1>9, <1>10 DEF Acts, Proceed, Fault

\* The loser of a conflict finds a record that was withdrawn, or that is past
\* the version it had checked.
LEMMA ConflictBeaten ==
  ASSUME IInv, HonestClients, \A id \in Ids : LastWriter(id) /\ Withdrawer(id),
         NEW r \in Reqs, WriteConflict(r)
  PROVE  \E q \in Reqs \ {r} : Winner(q, r)
<1>1. /\ pc[r] = "checked" /\ IsWrite(job[r]) /\ ~RowMatches(job[r])
      /\ IsWriteJob(job[r]) /\ ~job[r].wrote
  BY WriterKnown DEF WriteConflict, IInv
<1>2. PICK id \in Ids : id = job[r].id
  BY <1>1 DEF IsWriteJob
<1>3. CASE rows[id].state # "live"
  <2>1. rows[id].state = "deleted"
    BY <1>1, <1>2, <1>3 DEF IsWriteJob, IInv, TypeInv, TypeOK, Row
  <2> QED  BY <1>1, <1>2, <2>1 DEF Withdrawer, Winner
<1>4. CASE rows[id].state = "live"
  <2>1. /\ rows[id].version \in Nat /\ job[r].expected \in Nat \ {0}
        /\ rows[id].version # job[r].expected
    BY <1>1, <1>2, <1>4 DEF RowMatches, Live, IsWriteJob, IInv, TypeInv, TypeOK, Row
  <2>2. job[r].expected <= rows[id].version
    BY <1>1, <1>2 DEF IInv, SnapshotsHold, SnapshotHolds
  <2>3. PICK q \in Reqs :
          /\ job[q].wrote /\ IsWrite(job[q])
          /\ job[q].id = id /\ job[q].expected + 1 = rows[id].version
    BY <2>1, <2>2 DEF LastWriter
  <2>4. job[q].expected \in Nat
    BY DEF IInv, TypeInv, TypeOK, Job
  <2>5. job[q].expected >= job[r].expected
    BY <2>1, <2>2, <2>3, <2>4
  <2> QED  BY <1>1, <1>2, <2>3, <2>5 DEF Winner
<1> QED  BY <1>3, <1>4

LEMMA BeatenStays ==
  ASSUME IInv, HonestClients, \A id \in Ids : LastWriter(id) /\ Withdrawer(id),
         \A r \in Reqs : Told(r), [Next]_vars, NEW r \in Reqs, Beaten(r)
  PROVE  Beaten(r)'
<1>0. TypeInv /\ \A q \in Reqs : job[q].wrote => job'[q] = job[q]
  BY WritersStay DEF IInv
<1>1. CASE answer'[r] = answer[r] /\ job'[r] = job[r]
  BY <1>0, <1>1 DEF Beaten, Winner, IsWrite
<1>2. CASE Acts(r)
  <2> SUFFICES ASSUME answer'[r].result = "version_conflict" PROVE Beaten(r)'
    BY DEF Beaten
  <2>1. WriteConflict(r)
    BY <1>0, <1>2, ConflictIsOfWrite
  <2>2. PICK q \in Reqs \ {r} : Winner(q, r)
    BY <2>1, ConflictBeaten
  <2>3. job' = job
    BY <2>1 DEF WriteConflict, Refuse
  <2> QED  BY <2>2, <2>3 DEF Beaten, Winner, IsWrite
<1>3. ASSUME NEW q \in Reqs \ {r}, Acts(q) PROVE Beaten(r)'
  BY <1>0, <1>1, <1>3, OthersStay
<1>4. CASE UNCHANGED vars
  BY <1>1, <1>4 DEF vars
<1> QED  BY <1>2, <1>3, <1>4 DEF Next, Acts

\* A version conflict has a winner: among clients that send versions they were
\* given, optimistic locking turns nobody away for whom nobody else was let in.
THEOREM ConflictsAreWon == Spec => []ConflictHasWinner
<1> DEFINE Base == IInv /\ AuditsOfWriters /\ \A r \in Reqs : Told(r)
           Inv == /\ \A id \in Ids : LastWriter(id) /\ Withdrawer(id)
                  /\ HonestClients => \A r \in Reqs : Beaten(r)
<1>1. ASSUME Init PROVE Inv
  <2>1. ASSUME NEW id \in Ids PROVE LastWriter(id) /\ Withdrawer(id)
    BY <1>1 DEF Init, LastWriter, Withdrawer, Absent, Seeded
  <2> QED  BY <1>1, <2>1 DEF Init, Beaten, NoAnswer
<1>2. ASSUME Base, Inv, [Next]_vars PROVE Inv'
  <2>1. HonestClients' <=> HonestClients
    BY DEF HonestClients
  <2> QED  BY <1>2, <2>1, WritersKnown, BeatenStays DEF IInv
<1>3. Inv => ConflictHasWinner
  BY DEF ConflictHasWinner, Beaten, Winner
<1> QED  BY <1>1, <1>2, <1>3, AnswerInvariant, PTL DEF Spec

-----------------------------------------------------------------------------
(* A request takes five steps at most.                                     *)

Stage == [idle |-> 0, checked |-> 1, written |-> 2, fetch |-> 3, preload |-> 4, done |-> 5]

AdvancesOnly(r) ==
  \/ pc'[r] = pc[r] /\ job'[r] = job[r] /\ answer'[r] = answer[r]
  \/ Stage[pc'[r]] > Stage[pc[r]]

\* A step of a request brings it nearer to its answer, whichever call it makes
\* and however that fails: nothing is tried again and no step is gone back to.
LEMMA OwnStepAdvances ==
  ASSUME TypeOK, NEW r \in Reqs, Begin(r) \/ Proceed(r) \/ Fault(r)
  PROVE  /\ AdvancesOnly(r)
         /\ \A q \in Reqs \ {r} : AdvancesOnly(q)
<1>1. /\ pc \in [Reqs -> Phases] /\ job \in [Reqs -> Job] /\ answer \in [Reqs -> Answer]
  BY DEF TypeOK
<1>2. ASSUME NEW phase \in Phases, Stage[phase] > Stage[pc[r]],
             pc' = [pc EXCEPT ![r] = phase]
      PROVE  AdvancesOnly(r) /\ \A q \in Reqs \ {r} : pc'[q] = pc[q]
  BY <1>1, <1>2 DEF AdvancesOnly
<1>3. CASE Begin(r)
  <2>1. \A q \in Reqs \ {r} : job'[q] = job[q] /\ answer'[q] = answer[q]
    BY <1>1, <1>3 DEF Begin, BeginCreate, BeginUpdate, BeginTransition, BeginDelete, BeginGet,
                      Admit, Refuse, Replies
  <2>2. pc[r] = "idle" /\ \E phase \in {"checked", "fetch", "done"} :
          pc' = [pc EXCEPT ![r] = phase]
    BY <1>3 DEF Begin, BeginCreate, BeginUpdate, BeginTransition, BeginDelete, BeginGet,
                Admit, Refuse, Replies
  <2>3. PICK phase \in {"checked", "fetch", "done"} : pc' = [pc EXCEPT ![r] = phase]
    BY <2>2
  <2>4. phase \in Phases /\ Stage[phase] > Stage[pc[r]]
    BY <2>2 DEF Stage, Phases
  <2> QED  BY <1>2, <2>1, <2>3, <2>4 DEF AdvancesOnly
<1>4. CASE Proceed(r) \/ Fault(r)
  <2>1. \A q \in Reqs \ {r} : job'[q] = job[q] /\ answer'[q] = answer[q]
    BY <1>1, <1>4 DEF Proceed, Fault, InsertRow, InsertRejected, WriteRow, WriteConflict,
                      SoftDelete, DeleteMissed, AppendAudit, AuditFails, AfterAudit, FetchRow,
                      FetchMissed, FetchRevisions, DatabaseError, Interrupted, Abort, Refuse,
                      Replies
  <2>2. \/ pc[r] = "checked" /\ pc' = [pc EXCEPT ![r] = "written"]
        \/ pc[r] = "written" /\ pc' = [pc EXCEPT ![r] = "fetch"]
        \/ pc[r] = "fetch" /\ pc' = [pc EXCEPT ![r] = "preload"]
        \/ pc[r] # "done" /\ pc' = [pc EXCEPT ![r] = "done"]
    BY <1>4 DEF Proceed, Fault, InsertRow, InsertRejected, WriteRow, WriteConflict,
                SoftDelete, DeleteMissed, AppendAudit, AuditFails, AfterAudit, FetchRow,
                FetchMissed, FetchRevisions, DatabaseError, Interrupted, Abort, Refuse,
                Replies
  <2>3. \E phase \in Phases : Stage[phase] > Stage[pc[r]] /\ pc' = [pc EXCEPT ![r] = phase]
    <3>1. pc[r] \in Phases
      BY <1>1
    <3> QED  BY <2>2, <3>1 DEF Stage, Phases
  <2> QED  BY <1>2, <2>1, <2>3 DEF AdvancesOnly
<1> QED  BY <1>3, <1>4

\* A request takes five steps at most, whatever fails: a step brings it nearer
\* to its answer or is another's, which leaves its local variables and its
\* answer alone.  No call is tried again, and no answer taken back.
THEOREM RequestsAdvance == Spec => [][\A r \in Reqs : AdvancesOnly(r)]_vars
<1>1. TypeOK /\ [Next]_vars => [\A r \in Reqs : AdvancesOnly(r)]_vars
  BY OwnStepAdvances DEF Next
<1> QED  BY <1>1, TypeCorrect, PTL DEF Spec
=============================================================================
