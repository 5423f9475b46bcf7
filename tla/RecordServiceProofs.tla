------------------------ MODULE RecordServiceProofs ------------------------
(***************************************************************************)
(* Proofs about RecordService, for every kind of record, any number of     *)
(* requests, records and codes, and whatever roles the callers hold.       *)
(***************************************************************************)
EXTENDS RecordInvariants, TLAPS

\* The rule records are well formed, whichever of the four kinds is meant: the
\* seeds and the initial status are statuses of the kind.
LEMMA RulesWellFormed ==
  /\ Rules.initial \in Statuses
  /\ Rules.seeded \subseteq Statuses
  /\ Rules.revisions \in BOOLEAN
  /\ Rules.copied \subseteq Fields
<1> USE DEF Fields
<1>1. CASE Kind = "PressUnit"
  BY <1>1 DEF Rules, Statuses, PressUnitRules, PressUnitStatuses, PressUnitSeeds
<1>2. CASE Kind = "PrintRun"
  BY <1>2 DEF Rules, Statuses, PrintRunRules, PrintRunSeeds
<1>3. CASE Kind = "ColorProof"
  BY <1>3 DEF Rules, Statuses, ColorProofRules, ColorProofStatuses, ColorProofSeeds
<1>4. CASE Kind = "ReleaseDecision"
  BY <1>4 DEF Rules, Statuses, ReleaseDecisionRules, ReleaseDecisionSeeds
<1> QED  BY <1>1, <1>2, <1>3, <1>4, KindAssumption DEF Kinds

-----------------------------------------------------------------------------
(* Type correctness.                                                       *)

\* The fields of an input are content, and what a revision copies of content is
\* the content of a revision.
LEMMA ContentTyped ==
  /\ \A author \in Authors : Written(author) \in Content
  /\ \A content \in Content : Snapshot(content) \in [Rules.copied -> Authors]
BY RulesWellFormed DEF Written, Snapshot, Content

\* The null values have their types.
LEMMA NullsTyped ==
  /\ NoJob \in Job
  /\ NoAnswer \in Answer
  /\ Absent \in Row
<1>1. Written(Null) \in Content
  BY ContentTyped DEF Authors
<1> QED  BY <1>1 DEF NoJob, Job, Ops, NoAnswer, Answer, Results, Absent, Row

\* A row goes on existing once it exists.
RowsRemain ==
  \A id \in Ids : rows[id].state # "absent" => rows'[id].state # "absent"

\* A step that gives one request a new phase and new local variables keeps the
\* jobs of all requests complete, if these fit and no row disappears.
LEMMA JobsStep ==
  ASSUME TypeInv, RowsRemain, NEW r \in Reqs, NEW phase, NEW j,
         pc' = [pc EXCEPT ![r] = phase],
         job' = [job EXCEPT ![r] = j],
         JobFits(phase, j)'
  PROVE  JobsComplete'
<1> SUFFICES ASSUME NEW q \in Reqs
             PROVE  JobFits(pc[q], job[q])'
  BY DEF JobsComplete
<1>1. CASE q = r
  <2>1. pc'[q] = phase /\ job'[q] = j
    BY <1>1 DEF TypeInv, TypeOK
  <2> QED  BY <2>1 DEF JobFits, IsWriteJob, IsCreateJob, IsDeleteJob, IsWrite
<1>2. CASE q # r
  <2>1. pc'[q] = pc[q] /\ job'[q] = job[q]
    BY <1>2 DEF TypeInv, TypeOK
  <2>2. JobFits(pc[q], job[q])
    BY DEF TypeInv, JobsComplete
  <2> QED  BY <2>1, <2>2 DEF JobFits, IsWriteJob, IsCreateJob, IsDeleteJob, IsWrite, RowsRemain
<1> QED  BY <1>1, <1>2

\* A refusal keeps the invariant at whatever point it is given.
LEMMA RefuseType ==
  ASSUME TypeInv, NEW r \in Reqs, NEW result \in Results, Refuse(r, result)
  PROVE  TypeInv'
<1>1. TypeOK'
  BY DEF TypeInv, TypeOK, Refuse, Replies, Phases, Answer
<1>2. RowsComplete'
  BY DEF TypeInv, RowsComplete, Refuse, Absent
<1>3. JobFits("done", job[r])'
  BY DEF TypeInv, JobsComplete, JobFits, Refuse
<1>4. job' = [job EXCEPT ![r] = job[r]] /\ RowsRemain
  BY DEF Refuse, TypeInv, TypeOK, RowsRemain
<1>5. JobsComplete'
  BY <1>3, <1>4, JobsStep DEF Refuse, Replies
<1> QED  BY <1>1, <1>2, <1>5 DEF TypeInv

\* So does the admission of a request with local variables that fit.
LEMMA AdmitType ==
  ASSUME TypeInv, NEW r \in Reqs, NEW phase \in Phases, NEW j \in Job,
         JobFits(phase, j), Admit(r, phase, j)
  PROVE  TypeInv'
<1>1. TypeOK'
  BY DEF TypeInv, TypeOK, Admit
<1>2. RowsComplete'
  BY DEF TypeInv, RowsComplete, Admit, Absent
<1>3. JobFits(phase, j)' /\ RowsRemain
  BY DEF JobFits, IsWriteJob, IsCreateJob, IsDeleteJob, IsWrite, Admit, RowsRemain
<1>4. JobsComplete'
  BY <1>3, JobsStep DEF Admit
<1> QED  BY <1>1, <1>2, <1>4 DEF TypeInv

\* A request that arrives keeps the invariant, whether refused or admitted.
LEMMA BeginType ==
  ASSUME TypeInv, NEW r \in Reqs, Begin(r)
  PROVE  TypeInv'
<1> USE DEF TypeInv
<1>1. \A id \in Ids : rows[id] \in Row
  BY DEF TypeOK
<1>2. \A id \in Ids : Live(id) => rows[id].status \in Statuses /\ rows[id].state # "absent"
  BY DEF RowsComplete, Live, Absent
<1>3. \A id \in Ids : \A v \in ExpectedVersions(id) : v \in Nat \ {0}
  <2> TAKE id \in Ids
  <2>1. rows[id].version \in Nat
    BY <1>1 DEF Row
  <2>2. 1 .. rows[id].version \subseteq Nat \ {0}
    BY <2>1
  <2> QED  BY <2>2, VersionsAssumption DEF ExpectedVersions
<1>4. {"forbidden", "business_rule", "not_found", "record_locked"} \subseteq Results
  BY DEF Results
<1>5. "checked" \in Phases /\ "fetch" \in Phases
  BY DEF Phases
<1>6. ASSUME BeginCreate(r) PROVE TypeInv'
  <2>1. PICK role \in Roles, code \in Codes, blank \in BOOLEAN :
          \/ Refuse(r, "forbidden") \/ Refuse(r, "business_rule")
          \/ Admit(r, "checked", CreateJob(r, code))
    BY <1>6 DEF BeginCreate
  <2>2. CreateJob(r, code) \in Job /\ JobFits("checked", CreateJob(r, code))
    BY RulesWellFormed, ContentTyped DEF CreateJob, NoJob, Job, Ops, Authors, JobFits, IsCreateJob
  <2> QED  BY <2>1, <2>2, <1>4, <1>5, RefuseType, AdmitType
<1>7. ASSUME BeginUpdate(r) PROVE TypeInv'
  <2>1. PICK id \in Ids :
          \/ Refuse(r, "forbidden") \/ Refuse(r, "not_found")
          \/ Refuse(r, "record_locked") \/ Refuse(r, "business_rule")
          \/ Live(id) /\ \E v \in ExpectedVersions(id) :
                           Admit(r, "checked", UpdateJob(r, id, v))
    BY <1>7 DEF BeginUpdate
  <2>2. ASSUME Live(id), NEW v \in ExpectedVersions(id)
        PROVE  UpdateJob(r, id, v) \in Job /\ JobFits("checked", UpdateJob(r, id, v))
    BY <2>2, <1>2, <1>3, ContentTyped
    DEF UpdateJob, NoJob, Job, Ops, Authors, JobFits, IsWriteJob, IsWrite
  <2> QED  BY <2>1, <2>2, <1>4, <1>5, RefuseType, AdmitType
<1>8. ASSUME BeginTransition(r) PROVE TypeInv'
  <2>1. PICK role \in Roles, id \in Ids, target \in Statuses :
          \/ Refuse(r, "forbidden") \/ Refuse(r, "not_found") \/ Refuse(r, "business_rule")
          \/ Live(id) /\ \E v \in ExpectedVersions(id) :
                           Admit(r, "checked", TransitionJob(role, id, target, v))
    BY <1>8 DEF BeginTransition
  <2>2. ASSUME Live(id), NEW v \in ExpectedVersions(id)
        PROVE  /\ TransitionJob(role, id, target, v) \in Job
               /\ JobFits("checked", TransitionJob(role, id, target, v))
    BY <2>2, <1>1, <1>2, <1>3, ContentTyped
    DEF TransitionJob, NoJob, Job, Row, Ops, Authors, JobFits, IsWriteJob, IsWrite
  <2> QED  BY <2>1, <2>2, <1>4, <1>5, RefuseType, AdmitType
<1>9. ASSUME BeginDelete(r) PROVE TypeInv'
  <2>1. PICK id \in Ids :
          \/ Refuse(r, "forbidden") \/ Refuse(r, "not_found") \/ Refuse(r, "record_locked")
          \/ Live(id) /\ Admit(r, "checked", DeleteJob(id))
    BY <1>9 DEF BeginDelete
  <2>2. ASSUME Live(id)
        PROVE  DeleteJob(id) \in Job /\ JobFits("checked", DeleteJob(id))
    BY <2>2, <1>2, ContentTyped DEF DeleteJob, NoJob, Job, Ops, Authors, JobFits, IsDeleteJob
  <2> QED  BY <2>1, <2>2, <1>4, <1>5, RefuseType, AdmitType
<1>10. ASSUME BeginGet(r) PROVE TypeInv'
  <2>1. PICK id \in Ids : Admit(r, "fetch", GetJob(id))
    BY <1>10 DEF BeginGet
  <2>2. GetJob(id) \in Job /\ JobFits("fetch", GetJob(id))
    BY ContentTyped DEF GetJob, NoJob, Job, Ops, Authors, JobFits
  <2> QED  BY <2>1, <2>2, <1>5, AdmitType
<1> QED  BY <1>6, <1>7, <1>8, <1>9, <1>10 DEF Begin

\* A revision of a complete row is a revision.
LEMMA RevisionOfType ==
  ASSUME NEW q \in Authors, NEW id \in Ids, NEW row \in Row, row.status \in Statuses
  PROVE  RevisionOf(q, id, row) \subseteq Revision
BY ContentTyped DEF RevisionOf, Revision, Row

\* What a write does to the tables, whichever of the two it is: it puts a
\* complete row where r works, with its revision.
LEMMA StoreType ==
  ASSUME TypeInv, NEW r \in Reqs, NEW id \in Ids, NEW row \in Row,
         row.state # "absent", row.code \in Codes, row.status \in Statuses,
         row.version \in Nat \ {0}, job[r].op # "get", pc[r] = "checked",
         rows' = [rows EXCEPT ![id] = row],
         revisions' = revisions \cup RevisionOf(r, id, row),
         pc' = [pc EXCEPT ![r] = "written"],
         job' = [job EXCEPT ![r] = [job[r] EXCEPT !.id = id, !.wrote = TRUE]],
         UNCHANGED <<audits, answer>>
  PROVE  TypeInv'
<1> USE DEF TypeInv
<1>1. RevisionOf(r, id, row) \subseteq Revision
  BY RevisionOfType DEF Authors
<1>2. PICK j : j = [job[r] EXCEPT !.id = id, !.wrote = TRUE]
  OBVIOUS
<1>3. j \in Job /\ j.id = id /\ j.wrote /\ j.op # "get"
  BY <1>2 DEF TypeOK, Job
<1>4. job' = [job EXCEPT ![r] = j]
  BY <1>2
<1>5. TypeOK'
  BY <1>1, <1>3, <1>4 DEF TypeOK, Phases
<1>6. RowsComplete'
  BY DEF RowsComplete, TypeOK
<1>7. JobFits("written", j)'
  BY <1>3 DEF JobFits
<1>8. RowsRemain
  BY DEF RowsRemain, TypeOK
<1>9. JobsComplete'
  BY <1>4, <1>7, <1>8, JobsStep
<1> QED  BY <1>5, <1>6, <1>9

\* What is known of a request that is about to write.
LEMMA WriterKnown ==
  ASSUME TypeInv, NEW r \in Reqs, pc[r] = "checked"
  PROVE  /\ job[r] \in Job /\ ~job[r].wrote
         /\ IsWrite(job[r]) => IsWriteJob(job[r])
         /\ job[r].op = "create" => IsCreateJob(job[r])
         /\ job[r].op = "delete" => IsDeleteJob(job[r])
         /\ job[r].op # "get"
BY DEF TypeInv, TypeOK, JobsComplete, JobFits, IsWriteJob, IsCreateJob, IsDeleteJob, IsWrite

\* A creation keeps the invariant: it fills an absent row completely.
LEMMA InsertRowType ==
  ASSUME TypeInv, NEW r \in Reqs, InsertRow(r)
  PROVE  TypeInv'
<1>1. pc[r] = "checked" /\ job[r].op = "create"
  BY DEF InsertRow
<1>2. job[r] \in Job /\ IsCreateJob(job[r])
  BY <1>1, WriterKnown
<1> DEFINE row == [state |-> "live", code |-> job[r].code, status |-> job[r].status,
                   version |-> 1, content |-> job[r].content]
<1>3. PICK id \in Ids :
        /\ rows' = [rows EXCEPT ![id] = row]
        /\ revisions' = revisions \cup RevisionOf(r, id, row)
        /\ job' = [job EXCEPT ![r].id = id, ![r].wrote = TRUE]
  BY DEF InsertRow
<1>4. row \in Row /\ row.code \in Codes /\ row.status \in Statuses
  BY <1>2, RulesWellFormed DEF IsCreateJob, Row, Job
<1>5. job' = [job EXCEPT ![r] = [job[r] EXCEPT !.id = id, !.wrote = TRUE]]
  BY <1>3 DEF TypeInv, TypeOK, Job
<1>6. pc' = [pc EXCEPT ![r] = "written"] /\ UNCHANGED <<audits, answer>>
  BY DEF InsertRow
<1>7. row.state # "absent" /\ row.version \in Nat \ {0} /\ job[r].op # "get"
  BY <1>1
<1> HIDE DEF row
<1> QED  BY <1>1, <1>3, <1>4, <1>5, <1>6, <1>7, StoreType

\* The fields of a row that was overwritten from the copy of a job.
LEMMA OverwrittenFields ==
  ASSUME NEW old \in Row, NEW j \in Job
  PROVE  /\ Overwritten(old, j) \in Row
         /\ Overwritten(old, j).state = old.state
         /\ Overwritten(old, j).code = old.code
         /\ Overwritten(old, j).status = j.status
         /\ Overwritten(old, j).content = j.content
         /\ Overwritten(old, j).version = j.expected + 1
<1>1. /\ j.status \in Statuses \cup {Null} /\ j.content \in Content
      /\ j.expected \in Nat /\ j.expected + 1 \in Nat
  BY DEF Job
<1> QED  BY <1>1 DEF Overwritten, Row

\* A versioned write keeps the invariant: the row stays complete, its version
\* and its revision are numbered from 1.
LEMMA WriteRowType ==
  ASSUME TypeInv, NEW r \in Reqs, WriteRow(r)
  PROVE  TypeInv'
<1> DEFINE j == job[r]
           row == Overwritten(rows[j.id], j)
<1>1. pc[r] = "checked" /\ IsWrite(j) /\ Live(j.id)
  BY DEF WriteRow, RowMatches
<1>2. j \in Job /\ IsWriteJob(j) /\ j.op # "get"
  BY <1>1, WriterKnown
<1>3. rows[j.id] \in Row /\ rows[j.id].code \in Codes
  BY <1>1, <1>2 DEF TypeInv, TypeOK, RowsComplete, Live, Absent, IsWriteJob
<1>4. /\ row \in Row /\ row.state # "absent" /\ row.code \in Codes
      /\ row.status \in Statuses /\ row.version \in Nat \ {0}
  <2>1. rows[j.id].state = "live"
    BY <1>1 DEF Live
  <2>2. j.expected + 1 \in Nat \ {0} /\ j.status \in Statuses
    BY <1>2 DEF IsWriteJob
  <2> QED  BY <1>2, <1>3, <2>1, <2>2, OverwrittenFields
<1>5. /\ rows' = [rows EXCEPT ![j.id] = row]
      /\ revisions' = revisions \cup RevisionOf(r, j.id, row)
      /\ pc' = [pc EXCEPT ![r] = "written"]
      /\ job' = [job EXCEPT ![r].wrote = TRUE]
      /\ UNCHANGED <<audits, answer>>
  BY DEF WriteRow
<1>6. job' = [job EXCEPT ![r] = [job[r] EXCEPT !.id = j.id, !.wrote = TRUE]]
  BY <1>2, <1>5 DEF TypeInv, TypeOK, Job
<1> HIDE DEF row
<1> QED  BY <1>1, <1>2, <1>4, <1>5, <1>6, StoreType DEF IsWriteJob

\* A deletion keeps the invariant: only the state of the row changes.
LEMMA SoftDeleteType ==
  ASSUME TypeInv, NEW r \in Reqs, SoftDelete(r)
  PROVE  TypeInv'
<1> USE DEF TypeInv
<1>1. pc[r] = "checked" /\ job[r].op = "delete" /\ Live(job[r].id)
  BY DEF SoftDelete
<1>2. job[r] \in Job /\ IsDeleteJob(job[r])
  BY <1>1, WriterKnown
<1>3. PICK id \in Ids : id = job[r].id
  BY <1>2 DEF IsDeleteJob
<1>3b. PICK row, j : /\ row = [rows[id] EXCEPT !.state = "deleted"]
                    /\ j = [job[r] EXCEPT !.wrote = TRUE]
  OBVIOUS
<1>4. /\ row \in Row /\ row.state = "deleted"
      /\ j \in Job /\ j.id = id /\ j.wrote /\ j.op = "delete"
  <2>1. rows[id] \in Row
    BY DEF TypeOK
  <2>2. row \in Row /\ row.state = "deleted"
    BY <2>1, <1>3, <1>3b DEF Row
  <2>3. j \in Job /\ j.id = id /\ j.wrote /\ j.op = "delete"
    BY <1>1, <1>2, <1>3, <1>3b DEF Job
  <2> QED  BY <2>2, <2>3
<1>5. rows[id].state = "live" /\ row.code \in Codes /\ row.status \in Statuses /\ row.version \in Nat \ {0}
  BY <1>1, <1>3, <1>3b DEF RowsComplete, TypeOK, Row, Live
<1>6. /\ rows' = [rows EXCEPT ![id] = row]
      /\ job' = [job EXCEPT ![r] = j]
      /\ pc' = [pc EXCEPT ![r] = "written"]
      /\ UNCHANGED <<revisions, audits, answer>>
  BY <1>3, <1>3b DEF SoftDelete
<1>7. TypeOK'
  BY <1>4, <1>6 DEF TypeOK, Phases
<1>8. RowsComplete'
  BY <1>4, <1>5, <1>6 DEF RowsComplete, TypeOK
<1>9. RowsRemain
  BY <1>4, <1>6 DEF RowsRemain, TypeOK
<1>10. JobFits("written", j)'
  BY <1>4 DEF JobFits
<1>11. JobsComplete'
  BY <1>6, <1>9, <1>10, JobsStep
<1> QED  BY <1>7, <1>8, <1>11

\* A step after the write moves the request on, may answer it and may append
\* to the audit log; rows, revisions and local variables stay.
LEMMA ReplyType ==
  ASSUME TypeInv, NEW r \in Reqs, NEW phase \in Phases, NEW a \in Answer,
         JobFits(phase, job[r]),
         pc' = [pc EXCEPT ![r] = phase], answer' = [answer EXCEPT ![r] = a],
         audits' \subseteq Audit, UNCHANGED <<rows, revisions, job>>
  PROVE  TypeInv'
<1>1. TypeOK'
  BY DEF TypeInv, TypeOK
<1>2. RowsComplete'
  BY DEF TypeInv, RowsComplete, Absent
<1>3. PICK j : j = job[r]
  OBVIOUS
<1>4. job' = [job EXCEPT ![r] = j] /\ RowsRemain
  BY <1>3 DEF TypeInv, TypeOK, RowsRemain
<1>5. JobFits(phase, j)'
  BY <1>3 DEF JobFits, IsWriteJob, IsCreateJob, IsDeleteJob, IsWrite
<1>6. JobsComplete'
  BY <1>4, <1>5, JobsStep
<1> QED  BY <1>1, <1>2, <1>6 DEF TypeInv

\* The step after the audit insert, to the answer or to the read back, keeps
\* the invariant whatever rows the log has gained.
LEMMA AfterAuditType ==
  ASSUME TypeInv, NEW r \in Reqs, pc[r] = "written", AfterAudit(r),
         audits' \subseteq Audit, UNCHANGED <<rows, revisions, job>>
  PROVE  TypeInv'
<1>1. answer[r] \in Answer /\ answer \in [Reqs -> Answer]
  BY DEF TypeInv, TypeOK
<1>2. JobFits("written", job[r])
  BY DEF TypeInv, JobsComplete
<1>3. CASE IsWrite(job[r])
  <2>1. pc' = [pc EXCEPT ![r] = "fetch"] /\ answer' = [answer EXCEPT ![r] = answer[r]]
    BY <1>1, <1>3 DEF AfterAudit
  <2>2. JobFits("fetch", job[r])
    BY <1>2, <1>3 DEF JobFits
  <2> QED  BY <1>1, <2>1, <2>2, ReplyType DEF Phases
<1>4. CASE ~IsWrite(job[r])
  <2>1. PICK a : a = [answer[r] EXCEPT !.result = "ok",
                                       !.version = IF job[r].op = "create" THEN 1 ELSE 0]
    OBVIOUS
  <2>2. a \in Answer
    BY <1>1, <2>1 DEF Answer, Results
  <2>3. pc' = [pc EXCEPT ![r] = "done"] /\ answer' = [answer EXCEPT ![r] = a]
    BY <1>1, <1>4, <2>1 DEF AfterAudit, Answer
  <2>4. JobFits("done", job[r])
    BY <1>2 DEF JobFits
  <2> QED  BY <2>2, <2>3, <2>4, ReplyType DEF Phases
<1> QED  BY <1>3, <1>4

\* An audit row is complete when it is appended.
LEMMA AppendAuditType ==
  ASSUME TypeInv, NEW r \in Reqs, AppendAudit(r)
  PROVE  TypeInv'
<1>1. pc[r] = "written" /\ audits' = audits \cup {AuditOf(r)}
  BY DEF AppendAudit
<1>2. job[r] \in Job /\ job[r].id \in Ids
  BY <1>1 DEF TypeInv, TypeOK, JobsComplete, JobFits
<1>3. audits' \subseteq Audit
  BY <1>1, <1>2 DEF TypeInv, TypeOK, AuditOf, Audit, Job
<1> QED  BY <1>1, <1>3, AfterAuditType DEF AppendAudit

\* A failed audit insert keeps the invariant.
LEMMA AuditFailsType ==
  ASSUME TypeInv, NEW r \in Reqs, AuditFails(r)
  PROVE  TypeInv'
<1>1. audits' \subseteq Audit
  BY DEF TypeInv, TypeOK, AuditFails
<1>2. CASE AuditErrorIgnored(job[r].op)
  BY <1>1, <1>2, AfterAuditType DEF AuditFails
<1>3. CASE ~AuditErrorIgnored(job[r].op)
  <2>1. Refuse(r, "internal_error")
    BY <1>3 DEF AuditFails, Refuse
  <2> QED  BY <2>1, RefuseType DEF Results
<1> QED  BY <1>2, <1>3

\* Reading the row back gives the request a copy of a complete row.
LEMMA FetchRowType ==
  ASSUME TypeInv, NEW r \in Reqs, FetchRow(r)
  PROVE  TypeInv'
<1>1. /\ pc[r] = "fetch" /\ JobFits("fetch", job[r])
      /\ answer[r] \in Answer /\ answer \in [Reqs -> Answer]
  BY DEF TypeInv, TypeOK, JobsComplete, FetchRow
<1>2. rows[job[r].id].version \in Nat
  BY <1>1 DEF TypeInv, TypeOK, Row, JobFits
<1>3. UNCHANGED <<rows, revisions, audits, job>> /\ audits' \subseteq Audit
  BY DEF FetchRow, TypeInv, TypeOK
<1>4. CASE Rules.revisions
  <2>1. PICK a : a = [answer[r] EXCEPT !.version = rows[job[r].id].version]
    OBVIOUS
  <2>2. a \in Answer
    BY <1>1, <1>2, <2>1 DEF Answer
  <2>3. pc' = [pc EXCEPT ![r] = "preload"] /\ answer' = [answer EXCEPT ![r] = a]
    BY <1>4, <2>1 DEF FetchRow
  <2>4. JobFits("preload", job[r])
    BY <1>1 DEF JobFits
  <2> QED  BY <1>3, <2>2, <2>3, <2>4, ReplyType DEF Phases
<1>5. CASE ~Rules.revisions
  <2>1. PICK a : a = [answer[r] EXCEPT !.version = rows[job[r].id].version, !.result = "ok"]
    OBVIOUS
  <2>2. a \in Answer
    BY <1>1, <1>2, <2>1 DEF Answer, Results
  <2>3. pc' = [pc EXCEPT ![r] = "done"] /\ answer' = [answer EXCEPT ![r] = a]
    BY <1>1, <1>5, <2>1 DEF FetchRow, Answer
  <2>4. JobFits("done", job[r])
    BY <1>1 DEF JobFits
  <2> QED  BY <1>3, <2>2, <2>3, <2>4, ReplyType DEF Phases
<1> QED  BY <1>4, <1>5

\* Reading the revisions ends the request with a well-formed answer.
LEMMA FetchRevisionsType ==
  ASSUME TypeInv, NEW r \in Reqs, FetchRevisions(r)
  PROVE  TypeInv'
<1>1. /\ pc[r] = "preload" /\ JobFits("preload", job[r])
      /\ answer[r] \in Answer /\ answer \in [Reqs -> Answer]
  BY DEF TypeInv, TypeOK, JobsComplete, FetchRevisions
<1>2. ChainShown(r) \in SUBSET Nat
  BY DEF ChainShown, RevisionsOf, TypeInv, TypeOK, Revision
<1>3. PICK a : a = [answer[r] EXCEPT !.result = "ok", !.chain = ChainShown(r)]
  OBVIOUS
<1>4. a \in Answer
  BY <1>1, <1>2, <1>3 DEF Answer, Results
<1>5. pc' = [pc EXCEPT ![r] = "done"] /\ answer' = [answer EXCEPT ![r] = a]
  BY <1>1, <1>3 DEF FetchRevisions, Answer
<1>6. JobFits("done", job[r])
  BY <1>1 DEF JobFits
<1>7. UNCHANGED <<rows, revisions, audits, job>> /\ audits' \subseteq Audit
  BY DEF FetchRevisions, TypeInv, TypeOK
<1> QED  BY <1>4, <1>5, <1>6, <1>7, ReplyType DEF Phases

\* A request that a fault ends keeps the invariant.
LEMMA AbortType ==
  ASSUME TypeInv, NEW r \in Reqs, NEW result \in Results, Abort(r, result)
  PROVE  TypeInv'
<1>1. PICK j : j = IF job[r].wrote THEN job[r] ELSE NoJob
  OBVIOUS
<1>2. j \in Job
  BY <1>1, NullsTyped DEF TypeInv, TypeOK
<1>3. PICK a : a = [NoAnswer EXCEPT !.result = result]
  OBVIOUS
<1>4. a \in Answer
  BY <1>3 DEF NoAnswer, Answer
<1>5. /\ pc' = [pc EXCEPT ![r] = "done"]
      /\ answer' = [answer EXCEPT ![r] = a]
      /\ job' = [job EXCEPT ![r] = j]
      /\ UNCHANGED <<rows, revisions, audits>>
  BY <1>1, <1>3 DEF Abort
<1>6. TypeOK'
  BY <1>2, <1>4, <1>5 DEF TypeInv, TypeOK, Phases
<1>7. RowsComplete' /\ RowsRemain
  BY <1>5 DEF TypeInv, RowsComplete, Absent, RowsRemain
<1>8. JobFits("done", j)'
  BY <1>1 DEF TypeInv, JobsComplete, JobFits, NoJob
<1>9. JobsComplete'
  BY <1>5, <1>7, <1>8, JobsStep
<1> QED  BY <1>6, <1>7, <1>9 DEF TypeInv

\* The invariant holds when the tables are as the seed left them.
LEMMA InitType == Init => TypeInv
<1> SUFFICES ASSUME Init PROVE TypeInv
  OBVIOUS
<1>1. \A c \in Codes, s \in Rules.seeded :
        /\ Seeded(c, s) \in Row /\ Seeded(c, s).state = "live"
        /\ Seeded(c, s).code \in Codes /\ Seeded(c, s).status \in Statuses
        /\ Seeded(c, s).version \in Nat \ {0}
  BY RulesWellFormed, ContentTyped DEF Seeded, Row, Authors
<1>2. \A id \in Ids :
        \/ rows[id] = Absent
        \/ \E c \in Codes, s \in Rules.seeded : rows[id] = Seeded(c, s)
  BY DEF Init
<1>3. rows \in [Ids -> Row]
  BY <1>1, NullsTyped DEF Init
<1>4. RowsComplete
  BY <1>1, <1>2 DEF RowsComplete, Absent
<1>5. revisions \subseteq Revision
  <2>1. ASSUME NEW id \in Ids, Live(id) PROVE RevisionOf(Null, id, rows[id]) \subseteq Revision
    BY <1>3, <1>4, <2>1, RevisionOfType DEF RowsComplete, Live, Authors
  <2> QED  BY <2>1 DEF Init
<1>6. TypeOK
  BY <1>3, <1>5, NullsTyped DEF Init, TypeOK, Phases
<1>7. JobsComplete
  BY DEF Init, JobsComplete, JobFits, NoJob
<1> QED  BY <1>4, <1>6, <1>7 DEF TypeInv

\* Every step keeps the invariant, one case for each action of Next.
LEMMA NextType == TypeInv /\ [Next]_vars => TypeInv'
<1> SUFFICES ASSUME TypeInv, [Next]_vars PROVE TypeInv'
  OBVIOUS
<1>1. ASSUME NEW r \in Reqs, Begin(r) PROVE TypeInv'
  BY <1>1, BeginType
<1>2. ASSUME NEW r \in Reqs, Proceed(r) PROVE TypeInv'
  <2>1. {"internal_error", "version_conflict", "not_found"} \subseteq Results
    BY DEF Results
  <2>2. CASE InsertRejected(r) \/ WriteConflict(r) \/ DeleteMissed(r) \/ FetchMissed(r)
    BY <2>1, <2>2, RefuseType DEF InsertRejected, WriteConflict, DeleteMissed, FetchMissed
  <2>3. CASE InsertRow(r)       BY <2>3, InsertRowType
  <2>4. CASE WriteRow(r)        BY <2>4, WriteRowType
  <2>5. CASE SoftDelete(r)      BY <2>5, SoftDeleteType
  <2>6. CASE AppendAudit(r)     BY <2>6, AppendAuditType
  <2>7. CASE FetchRow(r)        BY <2>7, FetchRowType
  <2>8. CASE FetchRevisions(r)  BY <2>8, FetchRevisionsType
  <2> QED  BY <1>2, <2>2, <2>3, <2>4, <2>5, <2>6, <2>7, <2>8 DEF Proceed
<1>3. ASSUME NEW r \in Reqs, Fault(r) PROVE TypeInv'
  BY <1>3, AuditFailsType, AbortType DEF Fault, DatabaseError, Interrupted, Results
<1>4. CASE UNCHANGED vars
  BY <1>4 DEF vars, TypeInv, TypeOK, RowsComplete, Absent, JobsComplete, JobFits,
              IsWriteJob, IsCreateJob, IsDeleteJob, IsWrite
<1> QED  BY <1>1, <1>2, <1>3, <1>4 DEF Next

\* Every reachable state of the service is well typed, its rows complete and
\* the local variables of each request fit for the step it takes next.
THEOREM TypeCorrect == Spec => []TypeOK
<1>1. Spec => []TypeInv
  BY InitType, NextType, PTL DEF Spec
<1>2. TypeInv => TypeOK
  BY DEF TypeInv
<1> QED  BY <1>1, <1>2, PTL

-----------------------------------------------------------------------------
(* What the version column and the unique code guarantee: one winner for   *)
(* each version, and an unbroken chain of revisions.  Every step is first  *)
(* shown to write one row or none; each invariant is then kept by a quiet  *)
(* step and by each of the three writes.                                   *)

\* A step that writes no row: no request becomes, or stops being, a writer.
Quiet ==
  /\ UNCHANGED <<rows, revisions>>
  /\ \A q \in Reqs : job[q].wrote \/ job'[q].wrote => job'[q] = job[q]

Writes(r) == InsertRow(r) \/ WriteRow(r) \/ SoftDelete(r)

\* Every step is quiet or is one of the three writes of one request.
LEMMA StepIsQuietOrWrites ==
  ASSUME TypeInv, [Next]_vars
  PROVE  Quiet \/ \E r \in Reqs : Writes(r)
<1>1. ASSUME NEW r \in Reqs, NEW phase, NEW j, pc[r] = "idle", ~j.wrote, Admit(r, phase, j)
      PROVE  Quiet
  <2>1. ~job[r].wrote
    BY <1>1 DEF TypeInv, JobsComplete, JobFits, NoJob
  <2> QED  BY <1>1, <2>1 DEF Admit, Quiet, TypeInv, TypeOK
<1>2. ASSUME NEW r \in Reqs, NEW result, Refuse(r, result) \/ Abort(r, result)
      PROVE  Quiet
  BY <1>2 DEF Refuse, Abort, Quiet, TypeInv, TypeOK, NoJob
<1>3. ASSUME NEW r \in Reqs, Begin(r) PROVE Quiet
  <2>1. ~NoJob.wrote /\ \A c \in Codes : ~CreateJob(r, c).wrote
    BY DEF NoJob, CreateJob
  <2>2. \A id \in Ids, v \in Nat : ~UpdateJob(r, id, v).wrote
    BY DEF NoJob, UpdateJob
  <2>3. \A role \in Roles, id \in Ids, t \in Statuses, v \in Nat :
          ~TransitionJob(role, id, t, v).wrote
    BY DEF NoJob, TransitionJob
  <2>4. \A id \in Ids : ~DeleteJob(id).wrote /\ ~GetJob(id).wrote
    BY DEF NoJob, DeleteJob, GetJob
  <2>5. \A id \in Ids : \A v \in ExpectedVersions(id) : v \in Nat
    BY VersionsAssumption DEF ExpectedVersions, TypeInv, TypeOK, Row
  <2>0. pc[r] = "idle"
    BY <1>3 DEF Begin, BeginCreate, BeginUpdate, BeginTransition, BeginDelete, BeginGet
  <2>6. CASE BeginCreate(r)
    <3>1. \/ \E e \in Results : Refuse(r, e)
          \/ \E c \in Codes : Admit(r, "checked", CreateJob(r, c))
      BY <2>6 DEF BeginCreate, Results
    <3> QED  BY <2>0, <3>1, <2>1, <1>1, <1>2
  <2>7. CASE BeginUpdate(r)
    <3>1. \/ \E e \in Results : Refuse(r, e)
          \/ \E id \in Ids : \E v \in ExpectedVersions(id) :
               Admit(r, "checked", UpdateJob(r, id, v))
      BY <2>7 DEF BeginUpdate, Results
    <3> QED  BY <2>0, <3>1, <2>2, <2>5, <1>1, <1>2
  <2>8. CASE BeginTransition(r)
    <3>1. \/ \E e \in Results : Refuse(r, e)
          \/ \E role \in Roles, id \in Ids, t \in Statuses :
               \E v \in ExpectedVersions(id) :
                 Admit(r, "checked", TransitionJob(role, id, t, v))
      BY <2>8 DEF BeginTransition, Results
    <3> QED  BY <2>0, <3>1, <2>3, <2>5, <1>1, <1>2
  <2>9. CASE BeginDelete(r)
    <3>1. \/ \E e \in Results : Refuse(r, e)
          \/ \E id \in Ids : Admit(r, "checked", DeleteJob(id))
      BY <2>9 DEF BeginDelete, Results
    <3> QED  BY <2>0, <3>1, <2>4, <1>1, <1>2
  <2>10. CASE BeginGet(r)
    BY <2>0, <2>10, <2>4, <1>1 DEF BeginGet
  <2> QED  BY <1>3, <2>6, <2>7, <2>8, <2>9, <2>10 DEF Begin
<1>4. ASSUME NEW r \in Reqs, Proceed(r) PROVE Quiet \/ Writes(r)
  BY <1>4, <1>2 DEF Proceed, Writes, Quiet, InsertRejected, WriteConflict, DeleteMissed,
                    FetchMissed, AppendAudit, FetchRow, FetchRevisions
<1>5. ASSUME NEW r \in Reqs, Fault(r) PROVE Quiet
  BY <1>5, <1>2 DEF Fault, Quiet, AuditFails, DatabaseError, Interrupted
<1>6. CASE UNCHANGED vars
  BY <1>6 DEF vars, Quiet
<1> QED  BY <1>3, <1>4, <1>5, <1>6 DEF Next

\* What a write leaves of the local variables.
Committed(r, id) ==
  /\ pc[r] = "checked" /\ pc' = [pc EXCEPT ![r] = "written"]
  /\ job'[r].wrote /\ job'[r].id = id /\ job'[r].op = job[r].op
  /\ job'[r].expected = job[r].expected /\ job'[r].role = job[r].role
  /\ \A q \in Reqs \ {r} : job'[q] = job[q]

\* What each of the three writes does, field by field.
LEMMA WriteRowDoes ==
  ASSUME TypeInv, NEW r \in Reqs, WriteRow(r)
  PROVE  \E id \in Ids, row \in Row :
           /\ id = job[r].id /\ IsWriteJob(job[r]) /\ ~job[r].wrote /\ job[r] \in Job
           /\ rows[id].state = "live" /\ rows[id].version = job[r].expected
           /\ row.version = job[r].expected + 1 /\ row.status = job[r].status
           /\ row.content = job[r].content /\ row.state = "live" /\ row.code = rows[id].code
           /\ \A i \in Ids : rows'[i] = IF i = id THEN row ELSE rows[i]
           /\ revisions' = revisions \cup RevisionOf(r, id, row)
           /\ Committed(r, id)
<1>1. pc[r] = "checked" /\ IsWrite(job[r]) /\ RowMatches(job[r])
  BY DEF WriteRow
<1>2. IsWriteJob(job[r]) /\ ~job[r].wrote /\ job[r] \in Job /\ job[r].id \in Ids
  BY <1>1, WriterKnown DEF IsWriteJob
<1>3. PICK id \in Ids : id = job[r].id
  BY <1>2
<1>4. rows[id] \in Row
  BY DEF TypeInv, TypeOK
<1>5. PICK row : row = Overwritten(rows[id], job[r])
  OBVIOUS
<1>6. /\ row \in Row
      /\ row.version = job[r].expected + 1 /\ row.status = job[r].status
      /\ row.content = job[r].content /\ row.state = rows[id].state /\ row.code = rows[id].code
  BY <1>2, <1>4, <1>5, OverwrittenFields
<1>7. rows[id].state = "live" /\ rows[id].version = job[r].expected
  BY <1>1, <1>3 DEF RowMatches, Live
<1>8. /\ rows' = [rows EXCEPT ![id] = row]
      /\ revisions' = revisions \cup RevisionOf(r, id, row)
      /\ job' = [job EXCEPT ![r].wrote = TRUE]
      /\ pc' = [pc EXCEPT ![r] = "written"]
  BY <1>3, <1>5 DEF WriteRow
<1>9. \A i \in Ids : rows'[i] = IF i = id THEN row ELSE rows[i]
  BY <1>8 DEF TypeInv, TypeOK
<1>10. Committed(r, id)
  <2>1. job' = [job EXCEPT ![r] = [job[r] EXCEPT !.wrote = TRUE]]
    BY <1>8 DEF TypeInv, TypeOK
  <2> QED  BY <2>1, <1>1, <1>2, <1>3, <1>8 DEF TypeInv, TypeOK, Job, Committed
<1> QED  BY <1>1, <1>2, <1>3, <1>6, <1>7, <1>8, <1>9, <1>10

\* A creation turns an absent row into a live one at version 1.
LEMMA InsertRowDoes ==
  ASSUME TypeInv, NEW r \in Reqs, InsertRow(r)
  PROVE  \E id \in Ids, row \in Row :
           /\ job[r].op = "create" /\ job[r].status = Rules.initial
           /\ rows[id] = Absent /\ row.state = "live" /\ row.version = 1
           /\ row.status = job[r].status /\ row.content = job[r].content
           /\ row.code = job[r].code /\ ~CodeTaken(row.code)
           /\ \A i \in Ids : rows'[i] = IF i = id THEN row ELSE rows[i]
           /\ revisions' = revisions \cup RevisionOf(r, id, row)
           /\ Committed(r, id)
<1>1. pc[r] = "checked" /\ job[r].op = "create" /\ ~CodeTaken(job[r].code)
  BY DEF InsertRow
<1>2. job[r] \in Job /\ IsCreateJob(job[r])
  BY <1>1, WriterKnown
<1>3. PICK row : row = [state |-> "live", code |-> job[r].code, status |-> job[r].status,
                        version |-> 1, content |-> job[r].content]
  OBVIOUS
<1>4. row \in Row
  BY <1>2, <1>3, RulesWellFormed DEF IsCreateJob, Row, Job
<1>5. PICK id \in Ids :
        /\ rows[id].state = "absent"
        /\ rows' = [rows EXCEPT ![id] = row]
        /\ revisions' = revisions \cup RevisionOf(r, id, row)
        /\ job' = [job EXCEPT ![r].id = id, ![r].wrote = TRUE]
  BY <1>3 DEF InsertRow
<1>6. Committed(r, id)
  <2>1. job' = [job EXCEPT ![r] = [job[r] EXCEPT !.id = id, !.wrote = TRUE]]
    BY <1>5 DEF TypeInv, TypeOK, Job
  <2>2. pc' = [pc EXCEPT ![r] = "written"]
    BY DEF InsertRow
  <2> QED  BY <2>1, <2>2, <1>1, <1>2 DEF TypeInv, TypeOK, Job, Committed
<1>7. rows[id] = Absent /\ \A i \in Ids : rows'[i] = IF i = id THEN row ELSE rows[i]
  BY <1>5 DEF TypeInv, TypeOK, RowsComplete
<1> QED  BY <1>1, <1>2, <1>3, <1>4, <1>5, <1>6, <1>7 DEF IsCreateJob

\* A deletion withdraws a live row and leaves its version and code.
LEMMA SoftDeleteDoes ==
  ASSUME TypeInv, NEW r \in Reqs, SoftDelete(r)
  PROVE  /\ job[r].op = "delete" /\ job[r].id \in Ids /\ rows[job[r].id].state = "live"
         /\ \A id \in Ids :
              /\ rows'[id].version = rows[id].version /\ rows'[id].status = rows[id].status
              /\ rows'[id].content = rows[id].content /\ rows'[id].code = rows[id].code
              /\ id # job[r].id => rows'[id] = rows[id]
              /\ rows'[id].state = IF id = job[r].id THEN "deleted" ELSE rows[id].state
         /\ UNCHANGED revisions
         /\ Committed(r, job[r].id)
<1>1. pc[r] = "checked" /\ job[r].op = "delete" /\ Live(job[r].id)
  BY DEF SoftDelete
<1>2. job[r].id \in Ids
  BY <1>1, WriterKnown DEF IsDeleteJob
<1>3. \A id \in Ids : rows[id] \in Row
  BY DEF TypeInv, TypeOK
<1>4. \A id \in Ids : rows'[id] = IF id = job[r].id THEN [rows[id] EXCEPT !.state = "deleted"]
                                    ELSE rows[id]
  BY <1>2 DEF SoftDelete, TypeInv, TypeOK
<1>5. \A id \in Ids :
        /\ rows'[id].version = rows[id].version /\ rows'[id].status = rows[id].status
        /\ rows'[id].content = rows[id].content /\ rows'[id].code = rows[id].code
        /\ rows'[id].state = IF id = job[r].id THEN "deleted" ELSE rows[id].state
  BY <1>3, <1>4 DEF Row
<1>6. Committed(r, job[r].id)
  <2>1. job' = [job EXCEPT ![r] = [job[r] EXCEPT !.wrote = TRUE]]
    BY DEF SoftDelete, TypeInv, TypeOK
  <2> QED  BY <2>1, <1>1, <1>2 DEF SoftDelete, TypeInv, TypeOK, Job, Committed
<1> QED  BY <1>1, <1>2, <1>4, <1>5, <1>6 DEF SoftDelete, Live

-----------------------------------------------------------------------------
(* Optimistic locking.                                                     *)

\* No step takes a row back to a version that was written over.
LEMMA WinnersStayAhead ==
  ASSUME TypeInv, WinnersAreAhead, [Next]_vars
  PROVE  WinnersAreAhead'
<1> SUFFICES ASSUME NEW q \in Reqs, job'[q].wrote, IsWrite(job'[q])
             PROVE  rows'[job'[q].id].version > job'[q].expected
  BY DEF WinnersAreAhead, IsWrite
<1>1. /\ \A id \in Ids : rows[id] \in Row /\ rows[id].version \in Nat
      /\ job[q] \in Job /\ job[q].expected \in Nat
      /\ job[q].wrote => job[q].id \in Ids
  BY DEF TypeInv, TypeOK, Row, Job, JobsComplete, JobFits
<1>2. job[q].wrote /\ IsWrite(job[q]) => rows[job[q].id].version > job[q].expected
  BY DEF WinnersAreAhead
<1>3. CASE Quiet
  BY <1>2, <1>3 DEF Quiet
<1>4. ASSUME NEW r \in Reqs, WriteRow(r)
      PROVE  rows'[job'[q].id].version > job'[q].expected
  <2>1. PICK id \in Ids, row \in Row :
          /\ id = job[r].id /\ job[r] \in Job /\ rows[id].version = job[r].expected
          /\ row.version = job[r].expected + 1
          /\ \A i \in Ids : rows'[i] = IF i = id THEN row ELSE rows[i]
          /\ Committed(r, id)
    BY <1>4, WriteRowDoes
  <2>2. job[r].expected \in Nat
    BY <2>1 DEF Job
  <2>3. CASE q = r
    <3>1. job'[q].id = id /\ job'[q].expected = job[r].expected
      BY <2>1, <2>3 DEF Committed
    <3> QED  BY <3>1, <2>1, <2>2
  <2>4. CASE q # r
    <3>1. job'[q] = job[q]
      BY <2>1, <2>4 DEF Committed
    <3> QED  BY <3>1, <1>1, <1>2, <2>1, <2>2
  <2> QED  BY <2>3, <2>4
<1>5. ASSUME NEW r \in Reqs, InsertRow(r)
      PROVE  rows'[job'[q].id].version > job'[q].expected
  <2>1. PICK id \in Ids, row \in Row :
          /\ job[r].op = "create" /\ rows[id] = Absent
          /\ \A i \in Ids : rows'[i] = IF i = id THEN row ELSE rows[i]
          /\ Committed(r, id)
    BY <1>5, InsertRowDoes
  <2>2. q # r
    BY <2>1 DEF IsWrite, Committed
  <2>3. job'[q] = job[q]
    BY <2>1, <2>2 DEF Committed
  <2>4. job[q].id # id
    BY <2>1, <2>3, <1>1, <1>2 DEF Absent
  <2> QED  BY <2>1, <2>3, <2>4, <1>1, <1>2
<1>6. ASSUME NEW r \in Reqs, SoftDelete(r)
      PROVE  rows'[job'[q].id].version > job'[q].expected
  <2>1. /\ job[r].op = "delete"
        /\ \A id \in Ids : rows'[id].version = rows[id].version
        /\ Committed(r, job[r].id)
    BY <1>6, SoftDeleteDoes
  <2>2. job'[q] = job[q]
    BY <2>1 DEF IsWrite, Committed
  <2> QED  BY <2>1, <2>2, <1>1, <1>2
<1> QED  BY <1>3, <1>4, <1>5, <1>6, StepIsQuietOrWrites DEF Writes

\* A row that is ahead of every version written over has one winner for each.
LEMMA WinnerIsUnique ==
  ASSUME TypeInv, WinnersAreAhead, AtMostOneWinner, [Next]_vars
  PROVE  AtMostOneWinner'
<1> DEFINE Won(j) == j.wrote /\ IsWrite(j)
<1> SUFFICES ASSUME NEW p \in Reqs, NEW q \in Reqs, Won(job'[p]), Won(job'[q]),
                    job'[p].id = job'[q].id, job'[p].expected = job'[q].expected
             PROVE  p = q
  BY DEF AtMostOneWinner, IsWrite
<1>1. \A k \in Reqs : job[k] \in Job /\ job[k].expected \in Nat
  BY DEF TypeInv, TypeOK, Job
<1>2. CASE job'[p] = job[p] /\ job'[q] = job[q]
  BY <1>2 DEF AtMostOneWinner
<1>3. ASSUME NEW r \in Reqs, WriteRow(r)
      PROVE  p = q
  <2>1. PICK id \in Ids :
          id = job[r].id /\ rows[id].version = job[r].expected /\ Committed(r, id)
    BY <1>3, WriteRowDoes
  <2>2. job'[r].id = id /\ job'[r].expected = rows[id].version
    BY <2>1 DEF Committed
  <2>3. ASSUME NEW k \in Reqs, k # r, Won(job'[k]), job'[k].id = id
        PROVE  job'[k].expected # rows[id].version
    <3>1. job'[k] = job[k]
      BY <2>1, <2>3 DEF Committed
    <3>2. rows[id].version > job[k].expected
      BY <2>3, <3>1 DEF WinnersAreAhead
    <3>3. rows[id].version \in Nat
      BY DEF TypeInv, TypeOK, Row
    <3> QED  BY <1>1, <3>1, <3>2, <3>3
  <2>4. p = r /\ q # r => FALSE
    BY <2>2, <2>3
  <2>5. q = r /\ p # r => FALSE
    BY <2>2, <2>3
  <2> QED  BY <2>1, <2>4, <2>5, <1>2 DEF Committed
<1>4. ASSUME NEW r \in Reqs, InsertRow(r) \/ SoftDelete(r)
      PROVE  p = q
  <2>1. /\ job[r].op \in {"create", "delete"} /\ job'[r].op = job[r].op
        /\ \A k \in Reqs : k # r => job'[k] = job[k]
    <3>1. CASE InsertRow(r)
      BY <3>1, InsertRowDoes DEF Committed
    <3>2. CASE SoftDelete(r)
      BY <3>2, SoftDeleteDoes DEF Committed
    <3> QED  BY <1>4, <3>1, <3>2
  <2>2. p # r /\ q # r
    BY <2>1 DEF IsWrite
  <2> QED  BY <2>1, <2>2, <1>2
<1>5. CASE Quiet
  BY <1>2, <1>5 DEF Quiet
<1> QED  BY <1>3, <1>4, <1>5, StepIsQuietOrWrites DEF Writes

\* Optimistic locking works: of the requests that send the same expected
\* version of one record, at most one writes, however many there are and
\* whatever versions their clients claim.
THEOREM OneWinner == Spec => []AtMostOneWinner
<1> DEFINE Inv == TypeInv /\ WinnersAreAhead /\ AtMostOneWinner
<1>1. Init => Inv
  <2>1. Init => \A r \in Reqs : ~job[r].wrote
    BY DEF Init, NoJob
  <2> QED  BY <2>1, InitType DEF WinnersAreAhead, AtMostOneWinner
<1>2. Inv /\ [Next]_vars => Inv'
  BY NextType, WinnersStayAhead, WinnerIsUnique
<1> QED  BY <1>1, <1>2, PTL DEF Spec

-----------------------------------------------------------------------------
(* The chain of revisions.                                                 *)

ChainOf(id) ==
  /\ {h.version : h \in RevisionsOf(id)} = 1 .. rows[id].version
  /\ \A g, h \in RevisionsOf(id) : g.version = h.version => g = h
  /\ \A h \in RevisionsOf(id) : h.version = rows[id].version =>
       h.status = rows[id].status /\ h.content = Snapshot(rows[id].content)

\* A write that moves a row to its next version, with the revision of it,
\* makes the chain of that record one longer and leaves the others alone.
LEMMA ChainGrows ==
  ASSUME TypeInv, Rules.revisions, \A i \in Ids : ChainOf(i),
         NEW q, NEW id \in Ids, NEW row \in Row,
         row.version = rows[id].version + 1,
         \A i \in Ids : rows'[i] = IF i = id THEN row ELSE rows[i],
         revisions' = revisions \cup RevisionOf(q, id, row)
  PROVE  \A i \in Ids : ChainOf(i)'
<1>1. PICK h : h = [id |-> id, version |-> row.version, status |-> row.status,
                    content |-> Snapshot(row.content), author |-> q]
  OBVIOUS
<1>2. revisions' = revisions \cup {h}
  BY <1>1 DEF RevisionOf
<1>3. /\ h.id = id /\ h.version = row.version /\ h.status = row.status
      /\ h.content = Snapshot(row.content)
  BY <1>1
<1>4. rows[id].version \in Nat
  BY DEF TypeInv, TypeOK, Row
<1>5. ASSUME NEW i \in Ids, i # id PROVE ChainOf(i)'
  <2>1. RevisionsOf(i)' = RevisionsOf(i) /\ rows'[i] = rows[i]
    BY <1>2, <1>3, <1>5 DEF RevisionsOf
  <2> QED  BY <2>1 DEF ChainOf
<1>6. ChainOf(id)'
  <2>1. RevisionsOf(id)' = RevisionsOf(id) \cup {h}
    BY <1>2, <1>3 DEF RevisionsOf
  <2>2. rows'[id] = row
    OBVIOUS
  <2>3. {g.version : g \in RevisionsOf(id)} = 1 .. rows[id].version
    BY DEF ChainOf
  <2>4. {g.version : g \in RevisionsOf(id)'} = 1 .. row.version
    <3>1. {g.version : g \in RevisionsOf(id)'}
            = {g.version : g \in RevisionsOf(id)} \cup {row.version}
      BY <2>1, <1>3
    <3>2. (1 .. rows[id].version) \cup {rows[id].version + 1} = 1 .. rows[id].version + 1
      BY <1>4
    <3> QED  BY <3>1, <3>2, <2>3
  <2>5. ASSUME NEW g \in RevisionsOf(id) PROVE g.version # row.version
    <3>1. g.version \in 1 .. rows[id].version
      BY <2>3
    <3> QED  BY <3>1, <1>4
  <2>6. \A f, g \in RevisionsOf(id)' : f.version = g.version => f = g
    BY <2>1, <2>5, <1>3 DEF ChainOf
  <2>7. \A g \in RevisionsOf(id)' : g.version = row.version =>
          g.status = row.status /\ g.content = Snapshot(row.content)
    BY <2>1, <2>5, <1>3
  <2> QED  BY <2>2, <2>4, <2>6, <2>7 DEF ChainOf
<1> QED  BY <1>5, <1>6

\* The chain of a seeded row is unbroken, and so is that of an absent one.
LEMMA ChainStarts ==
  ASSUME Init, Rules.revisions
  PROVE  \A id \in Ids : ChainOf(id)
<1> SUFFICES ASSUME NEW id \in Ids PROVE ChainOf(id)
  OBVIOUS
<1>1. TypeInv
  BY InitType
<1>2. PICK h : h = [id |-> id, version |-> rows[id].version, status |-> rows[id].status,
                    content |-> Snapshot(rows[id].content), author |-> Null]
  OBVIOUS
<1>3. revisions = UNION {RevisionOf(Null, i, rows[i]) : i \in {k \in Ids : Live(k)}}
  BY DEF Init
<1>4. \A i \in Ids : \A g \in RevisionOf(Null, i, rows[i]) : g.id = i
  BY DEF RevisionOf
<1>5. RevisionOf(Null, id, rows[id]) = {h}
  BY <1>2 DEF RevisionOf
<1>6. CASE Live(id)
  <2>1. RevisionsOf(id) = {h}
    BY <1>3, <1>4, <1>5, <1>6 DEF RevisionsOf
  <2>2. rows[id].version = 1
    BY <1>6 DEF Init, Seeded, Live, Absent
  <2> QED  BY <1>2, <2>1, <2>2 DEF ChainOf
<1>7. CASE ~Live(id)
  <2>1. RevisionsOf(id) = {}
    BY <1>3, <1>4, <1>7 DEF RevisionsOf
  <2>2. rows[id].version = 0
    BY <1>7 DEF Init, Seeded, Live, Absent
  <2> QED  BY <2>1, <2>2 DEF ChainOf
<1> QED  BY <1>6, <1>7

\* No step breaks the chain: a write adds the revision of the next version.
LEMMA ChainStays ==
  ASSUME TypeInv, Rules.revisions, \A i \in Ids : ChainOf(i), [Next]_vars
  PROVE  \A i \in Ids : ChainOf(i)'
<1>1. CASE Quiet
  BY <1>1 DEF Quiet, ChainOf, RevisionsOf
<1>2. ASSUME NEW r \in Reqs, WriteRow(r) PROVE \A i \in Ids : ChainOf(i)'
  <2>1. PICK id \in Ids, row \in Row :
          /\ rows[id].version = job[r].expected /\ row.version = job[r].expected + 1
          /\ \A i \in Ids : rows'[i] = IF i = id THEN row ELSE rows[i]
          /\ revisions' = revisions \cup RevisionOf(r, id, row)
    BY <1>2, WriteRowDoes
  <2> QED  BY <2>1, ChainGrows
<1>3. ASSUME NEW r \in Reqs, InsertRow(r) PROVE \A i \in Ids : ChainOf(i)'
  <2>1. PICK id \in Ids, row \in Row :
          /\ rows[id] = Absent /\ row.version = 1
          /\ \A i \in Ids : rows'[i] = IF i = id THEN row ELSE rows[i]
          /\ revisions' = revisions \cup RevisionOf(r, id, row)
    BY <1>3, InsertRowDoes
  <2>2. row.version = rows[id].version + 1
    BY <2>1 DEF Absent
  <2> QED  BY <2>1, <2>2, ChainGrows
<1>4. ASSUME NEW r \in Reqs, SoftDelete(r) PROVE \A i \in Ids : ChainOf(i)'
  BY <1>4, SoftDeleteDoes DEF ChainOf, RevisionsOf
<1> QED  BY <1>1, <1>2, <1>3, <1>4, StepIsQuietOrWrites DEF Writes

\* The revisions of every record are an unbroken chain up to its current
\* version, one for each, and the newest has the row's status and the fields
\* that a revision copies, after any number of concurrent edits, transitions,
\* deletions, conflicts and failures.
THEOREM ChainUnbroken == Spec => []RevisionChain
<1> DEFINE Inv == TypeInv /\ (Rules.revisions => \A id \in Ids : ChainOf(id))
<1>1. Init => Inv
  BY InitType, ChainStarts
<1>2. Inv /\ [Next]_vars => Inv'
  <2>1. Rules.revisions' = Rules.revisions
    BY DEF Rules, PressUnitRules, PrintRunRules, ColorProofRules, ReleaseDecisionRules
  <2> QED  BY <2>1, NextType, ChainStays
<1>3. Inv => RevisionChain
  BY DEF RevisionChain, ChainOf
<1> QED  BY <1>1, <1>2, <1>3, PTL DEF Spec

-----------------------------------------------------------------------------
(* Business codes.                                                         *)

\* No step gives a code to a second record, withdrawn holders included.
LEMMA CodesStayUnique ==
  ASSUME TypeInv, CodeIdentifiesOneRecord, [Next]_vars
  PROVE  CodeIdentifiesOneRecord'
<1>1. CASE Quiet
  BY <1>1 DEF Quiet, CodeIdentifiesOneRecord
<1>2. ASSUME NEW r \in Reqs, WriteRow(r) PROVE CodeIdentifiesOneRecord'
  <2>1. \A id \in Ids : rows'[id].code = rows[id].code /\ rows'[id].state = rows[id].state
    BY <1>2, WriteRowDoes
  <2> QED  BY <2>1 DEF CodeIdentifiesOneRecord
<1>3. ASSUME NEW r \in Reqs, InsertRow(r) PROVE CodeIdentifiesOneRecord'
  <2>1. PICK id \in Ids, row \in Row :
          /\ ~CodeTaken(row.code)
          /\ \A i \in Ids : rows'[i] = IF i = id THEN row ELSE rows[i]
    BY <1>3, InsertRowDoes
  <2> QED  BY <2>1 DEF CodeIdentifiesOneRecord, CodeTaken
<1>4. ASSUME NEW r \in Reqs, SoftDelete(r) PROVE CodeIdentifiesOneRecord'
  <2>1. \A id \in Ids : /\ rows'[id].code = rows[id].code
                        /\ rows'[id].state # "absent" => rows[id].state # "absent"
    BY <1>4, SoftDeleteDoes
  <2> QED  BY <2>1 DEF CodeIdentifiesOneRecord
<1> QED  BY <1>1, <1>2, <1>3, <1>4, StepIsQuietOrWrites DEF Writes

\* A business code identifies one record for ever, withdrawn records included.
THEOREM CodesUnique == Spec => []CodeIdentifiesOneRecord
<1> DEFINE Inv == TypeInv /\ CodeIdentifiesOneRecord
<1>1. Init => Inv
  <2>1. ASSUME Init PROVE CodeIdentifiesOneRecord
    BY <2>1 DEF Init, CodeIdentifiesOneRecord, Live, Absent, Seeded
  <2> QED  BY <2>1, InitType
<1>2. Inv /\ [Next]_vars => Inv'
  BY NextType, CodesStayUnique
<1> QED  BY <1>1, <1>2, PTL DEF Spec

=============================================================================
