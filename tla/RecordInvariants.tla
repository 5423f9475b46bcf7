-------------------------- MODULE RecordInvariants --------------------------
(***************************************************************************)
(* The inductive invariants from which RecordServiceProofs proves the      *)
(* properties of RecordService for every value of the constants, kept      *)
(* apart so that TLC can check them first.                                 *)
(***************************************************************************)
EXTENDS RecordService

\* Rows that are not there are blank, the others complete.
RowsComplete ==
  \A id \in Ids :
    IF rows[id].state = "absent" THEN rows[id] = Absent
    ELSE /\ rows[id].code \in Codes /\ rows[id].status \in Statuses
         /\ rows[id].version \in Nat \ {0}

\* What the local variables of a request hold at each point.
IsWriteJob(j) ==
  /\ IsWrite(j) /\ j.id \in Ids /\ j.expected \in Nat \ {0}
  /\ j.before \in Statuses /\ j.status \in Statuses
  /\ rows[j.id].state # "absent"

IsCreateJob(j) ==
  /\ j.op = "create" /\ j.code \in Codes /\ j.status = Rules.initial
  /\ \E r \in Reqs : j.content = Written(r)

IsDeleteJob(j) ==
  j.op = "delete" /\ j.id \in Ids /\ j.before \in Statuses /\ rows[j.id].state # "absent"

JobFits(phase, j) ==
  /\ phase = "idle" => j = NoJob
  /\ phase = "checked" =>
       ~j.wrote /\ (IsWriteJob(j) \/ IsCreateJob(j) \/ IsDeleteJob(j))
  /\ phase = "written" => j.wrote /\ j.op # "get"
  /\ phase \in {"fetch", "preload"} => j.op = "get" \/ IsWrite(j)
  /\ phase \in {"written", "fetch", "preload"} \/ j.wrote => j.id \in Ids

JobsComplete == \A r \in Reqs : JobFits(pc[r], job[r])

TypeInv == TypeOK /\ RowsComplete /\ JobsComplete

\* A version that was written over is behind its row for good.
WinnersAreAhead ==
  \A r \in Reqs : job[r].wrote /\ IsWrite(job[r]) =>
    rows[job[r].id].version > job[r].expected

\* What the checks saw is still true of the row if it still has the version
\* that the write will compare.  This is why checks made on an old copy are
\* good enough: where they no longer hold, the write finds another version.
ChecksHold(j, r) ==
  LET row == rows[j.id]
  IN  /\ j.before = row.status
      /\ \/ j.op = "update" /\ Edited(row, j, r)
         \/ j.op = "transition" /\ Advanced(row, j, r)

SnapshotHolds(r) ==
  pc[r] = "checked" /\ IsWrite(job[r]) =>
    /\ job[r].expected <= rows[job[r].id].version
    /\ rows[job[r].id].version = job[r].expected => ChecksHold(job[r], r)

SnapshotsHold == HonestClients => \A r \in Reqs : SnapshotHolds(r)

\* A revision is the seed's first one, or its author is past its write.
AuthorsWrote ==
  \A h \in revisions :
    IF h.author = Null THEN h.version = 1 ELSE job[h.author].wrote

IInv == TypeInv /\ WinnersAreAhead /\ SnapshotsHold /\ AuthorsWrote
=============================================================================
