----------------------------- MODULE AuditTrail -----------------------------
(***************************************************************************)
(* The readers of the audit log: its pages, its summary and the history of *)
(* a record, while requests change records and audit the changes.  An      *)
(* audit row is stamped by its request after the change and inserted after *)
(* that, so that the log is neither in the order of the changes nor in the *)
(* order of its stamps; the readers order it by the stamps alone.          *)
(*                                                                         *)
(* Pages are walked as in RecordPages.  Of a change only what the log says *)
(* of it is kept: RecordService has the rest.                              *)
(***************************************************************************)
EXTENDS Paging

CONSTANTS
  Entities,    \* the records that are changed
  Limit,       \* number of entries a history shows
  Window,      \* how far back a summary goes
  MaxStamp,    \* bound of the model: the clock
  MaxChanges   \* bound of the model: changes

ASSUME AuditSizesAssumption == {Limit, Window} \subseteq Nat \ {0}
ASSUME AuditBoundsAssumption == MaxStamp \in Nat /\ MaxChanges \in Nat

VARIABLES
  log,      \* the audit log, in the order of its primary keys
  open,     \* changes that are not in the log yet
  clock,
  changes,  \* how many there were
  at,       \* where the reader is: idle, a statement of a job, done
  told,     \* of a walk: the size of a page it is told,
  leaf,     \*   the page it asks for,
  count,    \*   the count it was told last,
  seen,     \*   the keys of the rows it was shown,
  before,   \*   history: the length of the log at the start,
  longer,   \*   whether the log had grown between its last count and find
  since,    \* of a summary: the earliest stamp it counts,
  summary   \*   and its figures

records == <<log, open, clock, changes>>
pages == <<told, leaf, count, seen, before, longer>>
auditVars == <<records, at, pages, since, summary>>

-----------------------------------------------------------------------------
Actions == {"update", "transition"}

\* A row of the log.  known is history: the rows of the record that were in
\* the log when the change was made.
Entry == [entity : Entities, action : Actions, stamp : 0 .. MaxStamp,
          known : SUBSET (1 .. MaxChanges)]

\* A change that is not in the log: `entry` has the time it was made.  The
\* number tells changes that are alike apart.
Open == [number : 1 .. MaxChanges, entry : Entry]

NoFigures == [total |-> 0, transitions |-> 0,
              actions |-> [a \in Actions |-> 0], entities |-> [e \in Entities |-> 0]]

AuditInit ==
  /\ log = <<>> /\ open = {} /\ clock = 0 /\ changes = 0
  /\ at = "idle"
  /\ told = DefaultSize /\ leaf = 1 /\ count = 0 /\ seen = <<>> /\ before = 0 /\ longer = FALSE
  /\ since = 0 /\ summary = NoFigures

KeysOf(entity) == {i \in DOMAIN log : log[i].entity = entity}

-----------------------------------------------------------------------------
(* Requests.                                                               *)

Change(entity, action) ==
  /\ changes < MaxChanges
  /\ changes' = changes + 1
  /\ LET entry == [entity |-> entity, action |-> action, stamp |-> clock,
                   known |-> KeysOf(entity)]
         number == CHOOSE n \in 1 .. MaxChanges : \A c \in open : c.number # n
     IN  open' = open \cup {[number |-> number, entry |-> entry]}
  /\ UNCHANGED <<log, clock, at, pages, since, summary>>

\* securityService.Audit takes the time some time after the change, and
\* AppendAudit inserts.  A change whose insert fails is one that stays open.
AppendAudit(c) ==
  /\ open' = open \ {c}
  /\ \E stamp \in c.entry.stamp .. clock :
       log' = Append(log, [c.entry EXCEPT !.stamp = stamp])
  /\ UNCHANGED <<clock, changes, at, pages, since, summary>>

TickAudit ==
  /\ clock < MaxStamp
  /\ clock' = clock + 1
  /\ UNCHANGED <<log, open, changes, at, pages, since, summary>>

-----------------------------------------------------------------------------
(* The pages of the log.                                                   *)

\* Mutant: the oldest first.
LoggedEarlier == {k \in (DOMAIN log) \X (DOMAIN log) : log[k[1]].stamp < log[k[2]].stamp}

\* ORDER BY created_at DESC
LoggedLater == {k \in (DOMAIN log) \X (DOMAIN log) : log[k[1]].stamp > log[k[2]].stamp}

StartWalk ==
  /\ at = "idle"
  /\ at' = "count"
  /\ before' = Len(log)
  /\ \E asked \in AskedSizes : told' = bindPage(asked)
  /\ UNCHANGED <<records, leaf, count, seen, longer, since, summary>>

CountAudits ==
  /\ at = "count"
  /\ at' = "find"
  /\ count' = Len(log)
  /\ UNCHANGED <<records, told, leaf, seen, before, longer, since, summary>>

FindAudits ==
  /\ at = "find"
  /\ \E s \in Orders(DOMAIN log, LoggedLater) :
       seen' = seen \o Slice(s, Offset(leaf, normalizePage(told)), normalizePage(told))
  /\ longer' = (Len(log) > count)
  /\ leaf' = NextPage(leaf, Pages(count, told))
  /\ at' = IF leaf >= Pages(count, told) THEN "walked" ELSE "count"
  /\ UNCHANGED <<records, told, count, before, since, summary>>

-----------------------------------------------------------------------------
(* The summary: queries one after another, over one window.                *)

\* Mutant: each query has a window of its own.
SinceNow == clock - Window

Since == since

Counted == {i \in DOMAIN log : log[i].stamp >= Since}

StartSummary ==
  /\ at = "idle"
  /\ at' = "total"
  /\ since' = clock - Window
  /\ UNCHANGED <<records, pages, summary>>

\* One of the queries, and which one is next.
Query(here, next, field, figure) ==
  /\ at = here
  /\ at' = next
  /\ summary' = [summary EXCEPT ![field] = figure]
  /\ UNCHANGED <<records, pages, since>>

SummarizeAudits ==
  \/ Query("total", "transitions", "total", Cardinality(Counted))
  \/ Query("transitions", "actions", "transitions",
           Cardinality({i \in Counted : log[i].action = "transition"}))
  \/ Query("actions", "entities", "actions",
           [a \in Actions |-> Cardinality({i \in Counted : log[i].action = a})])
  \/ Query("entities", "summarized", "entities",
           [e \in Entities |-> Cardinality({i \in Counted : log[i].entity = e})])

\* The possible answers of EntityHistory, which is one query.
EntityHistory(entity) ==
  {Slice(s, 0, Limit) : s \in Orders(KeysOf(entity), LoggedLater)}

-----------------------------------------------------------------------------
AuditNext ==
  \/ \E entity \in Entities, action \in Actions : Change(entity, action)
  \/ \E c \in open : AppendAudit(c)
  \/ TickAudit
  \/ StartWalk \/ CountAudits \/ FindAudits
  \/ StartSummary \/ SummarizeAudits

AuditSpec == AuditInit /\ [][AuditNext]_auditVars

-----------------------------------------------------------------------------
\* All variables hold values of their types.
AuditTypeOK ==
  /\ \A i \in DOMAIN log : log[i] \in Entry
  /\ open \subseteq Open
  /\ clock \in 0 .. MaxStamp /\ changes \in 0 .. MaxChanges
  /\ told \in 1 .. MaxSize /\ leaf \in 1 .. Pages(MaxChanges, told) /\ count \in 0 .. MaxChanges
  /\ \A i \in DOMAIN seen : seen[i] \in DOMAIN log

\* A row of the log that was there at the start of a walk is missed only if
\* the log grew at what was taken for the last page, or if another row has the
\* same stamp, which leaves their order open from page to page.  Rows that
\* come late, with a stamp of the past, hide none.  The reader goes by the size
\* of a page that the handler names, which has to be the repository's.
AuditsMissedForAReason ==
  at = "walked" /\ ~longer =>
    \A key \in 1 .. before :
      \/ \E i \in DOMAIN seen : seen[i] = key
      \/ \E other \in DOMAIN log \ {key} : log[other].stamp = log[key].stamp

\* What the figures of a grouped count add up to.
Sum(figures) == Cardinality(UNION {{group} \X (1 .. figures[group]) : group \in DOMAIN figures})

\* The figures of a summary belong to different moments but to one window, so
\* that what is asked later is never less than the same asked before.
SummaryOnlyGrows ==
  at = "summarized" =>
    /\ summary.total <= Sum(summary.actions)
    /\ Sum(summary.actions) <= Sum(summary.entities)
    /\ summary.transitions <= summary.actions["transition"]

\* A history is headed by what came last: of two changes of a record, the
\* second of which was made when the first was in the log, the second is shown
\* whenever the first is, and above it, unless their stamps are equal.
HistoryInOrder ==
  \A entity \in Entities : \A h \in EntityHistory(entity) :
    \A k \in DOMAIN h : \A key \in KeysOf(entity) :
      h[k] \in log[key].known /\ log[key].stamp # log[h[k]].stamp =>
        \E l \in 1 .. k - 1 : h[l] = key
=============================================================================
