---------------------------- MODULE RecordPages ----------------------------
(***************************************************************************)
(* A reader who turns the pages of a record list while others change the   *)
(* records.  A page is two statements, a count and a find, without a       *)
(* transaction around them, and the pages are cut from a list that is      *)
(* ordered by the time of the last change, which every change moves.  That *)
(* time is taken before the statement that stores it.                      *)
(*                                                                         *)
(* Search text and status filter are fixed for the walk and abstracted to  *)
(* whether a record is listed.  Of a change only its effect on the list is *)
(* kept: RecordService has the rest.                                       *)
(***************************************************************************)
EXTENDS Paging

CONSTANTS
  Ids,        \* primary keys of records, which break ties: of a machine word
  Seeds,      \* those that exist at first
  MaxTime,    \* bound of the model: the clock
  MaxWrites   \* bound of the model: changes of records

ASSUME IdsAssumption == Ids \subseteq Nat /\ IsFiniteSet(Ids) /\ Seeds \subseteq Ids
ASSUME BoundsAssumption == MaxTime \in Nat /\ MaxWrites \in Nat

VARIABLES
  rows,    \* the records
  now,
  writes,  \* how many changes there were
  pc,      \* where the reader is: idle, count, find, done
  size,    \* the size of a page, which the answers name
  page,    \* the page it asks for
  total,   \* the count it was told last
  shown,   \* the records it was shown, in that order
  start,   \* history: the records listed at the start, with their versions,
  calm,    \*   whether nothing was written since,
  left,    \*   how often a record left the list since,
  grown    \*   whether the list had grown between its last count and find

table == <<rows, now, writes>>
history == <<start, calm, left>>
listVars == <<table, pc, size, page, total, shown, history, grown>>

-----------------------------------------------------------------------------
\* stamp: updated_at; a row of version 0 was not inserted yet.
Row == [live : BOOLEAN, listed : BOOLEAN, stamp : 0 .. MaxTime, version : 0 .. MaxWrites + 1]

Listed == {id \in Ids : rows[id].listed}

ListInit ==
  /\ rows = [id \in Ids |-> IF id \in Seeds
       THEN [live |-> TRUE, listed |-> TRUE, stamp |-> 0, version |-> 1]
       ELSE [live |-> FALSE, listed |-> FALSE, stamp |-> 0, version |-> 0]]
  /\ now = 0 /\ writes = 0
  /\ pc = "idle" /\ size = DefaultSize /\ page = 1 /\ total = 0 /\ shown = <<>>
  /\ start = {} /\ calm = TRUE /\ left = 0 /\ grown = FALSE

-----------------------------------------------------------------------------
(* Others.                                                                 *)

Put(id, row) ==
  /\ writes < MaxWrites
  /\ writes' = writes + 1
  /\ rows' = [rows EXCEPT ![id] = row]
  /\ calm' = FALSE
  /\ left' = left + (IF rows[id].listed /\ ~row.listed THEN 1 ELSE 0)
  /\ UNCHANGED <<now, pc, size, page, total, shown, start, grown>>

\* The stamp was taken some time before the insert.
CreateRecord(id) ==
  /\ rows[id].version = 0
  /\ \E stamp \in 0 .. now :
       Put(id, [live |-> TRUE, listed |-> TRUE, stamp |-> stamp, version |-> 1])

\* An edit or a transition may move a record into the filter or out of it.  Its
\* stamp was taken before the statement, but after the version that the
\* statement compares was read, hence not before the stamp of that version.
ChangeRecord(id) ==
  /\ rows[id].live
  /\ \E listed \in BOOLEAN, stamp \in rows[id].stamp .. now :
       Put(id, [rows[id] EXCEPT !.listed = listed, !.stamp = stamp, !.version = @ + 1])

\* A soft delete leaves updated_at and the version.
DeleteRecord(id) ==
  /\ rows[id].live
  /\ Put(id, [rows[id] EXCEPT !.live = FALSE, !.listed = FALSE])

TickList ==
  /\ now < MaxTime
  /\ now' = now + 1
  /\ UNCHANGED <<rows, writes, pc, size, page, total, shown, history, grown>>

-----------------------------------------------------------------------------
(* The reader.                                                             *)

\* Mutant: the oldest first.
UpdatedEarlier == {k \in Ids \X Ids :
  \/ rows[k[1]].stamp < rows[k[2]].stamp
  \/ rows[k[1]].stamp = rows[k[2]].stamp /\ k[1] > k[2]}

\* ORDER BY updated_at DESC, id DESC
UpdatedLater == {k \in Ids \X Ids :
  \/ rows[k[1]].stamp > rows[k[2]].stamp
  \/ rows[k[1]].stamp = rows[k[2]].stamp /\ k[1] > k[2]}

StartReading ==
  /\ pc = "idle"
  /\ pc' = "count"
  /\ \E asked \in AskedSizes : size' = normalizePage(bindPage(asked))
  /\ start' = {<<id, rows[id].version>> : id \in Listed}
  /\ calm' = TRUE /\ left' = 0
  /\ UNCHANGED <<table, page, total, shown, grown>>

CountRecords ==
  /\ pc = "count"
  /\ pc' = "find"
  /\ total' = Cardinality(Listed)
  /\ UNCHANGED <<table, size, page, shown, history, grown>>

\* The rows of the page; the reader goes on while there is a next one.
FindRecords ==
  /\ pc = "find"
  /\ \E s \in Orders(Listed, UpdatedLater) :
       shown' = shown \o Slice(s, Offset(page, size), size)
  /\ grown' = (Cardinality(Listed) > total)
  /\ page' = NextPage(page, Pages(total, size))
  /\ pc' = IF page >= Pages(total, size) THEN "done" ELSE "count"
  /\ UNCHANGED <<table, size, total, history>>

ListNext ==
  \/ \E id \in Ids : CreateRecord(id) \/ ChangeRecord(id) \/ DeleteRecord(id)
  \/ TickList
  \/ StartReading \/ CountRecords \/ FindRecords

ListSpec == ListInit /\ [][ListNext]_listVars

-----------------------------------------------------------------------------
\* All variables hold values of their types.
ListTypeOK ==
  /\ rows \in [Ids -> Row]
  /\ now \in 0 .. MaxTime /\ writes \in 0 .. MaxWrites
  /\ pc \in {"idle", "count", "find", "done"}
  /\ size \in 1 .. MaxSize /\ page \in 1 .. Pages(Cardinality(Ids), size)
  /\ total \in 0 .. Cardinality(Ids) /\ left \in Nat
  /\ \A i \in DOMAIN shown : shown[i] \in Ids

TimesShown(id) == Cardinality({i \in DOMAIN shown : shown[i] = id})

\* A list that shrinks under the reader hides little: of the records that
\* nobody touched, a reader who turns page after page misses at most as many as
\* left the list meanwhile.  Changes move records towards the front, which
\* shows others twice but hides none of them.  (Unless the list grew between
\* the count and the rows of the page that was taken for the last: the reader
\* then stops before the end.)
RecordsMissedForAReason ==
  pc = "done" /\ ~grown =>
    LET missed == {id \in Listed : <<id, rows[id].version>> \in start /\ TimesShown(id) = 0}
    IN  Cardinality(missed) <= left

\* While nobody writes, the pages are a partition of the list, whatever the
\* size of the list and whatever size of a page was asked for.
QuietWalkShowsOnce ==
  pc = "done" /\ calm =>
    total = Cardinality(Listed) /\ \A id \in Listed : TimesShown(id) = 1
=============================================================================
