---------------------------- MODULE MCWorkbench ----------------------------
(* Workbench for TLC, with the query that the records shown answer kept as *)
(* history.  Records are model values that no definition tells apart,      *)
(* except that some are not there at first.                                *)
EXTENDS Workbench, TLC

VARIABLE shownFor  \* a query, or Null before the first answer

FilterInit == Init /\ shownFor = Null

FilterNext ==
  \/ \E c \in calls : LoadArrives(c) /\ shownFor' = c.query
  \/ Next /\ ~(\E c \in calls : LoadArrives(c)) /\ UNCHANGED shownFor

FilterSpec == FilterInit /\ [][FilterNext]_<<vars, shownFor>>

\* Once every call is back, the records and the total labelled as those of the
\* current filter are the answer to the query the page shows.
ShownIsCurrentFilter == mounted /\ calls = {} /\ ~failed => shownFor = query

Symmetry == Permutations(Ids \ Fresh) \cup Permutations(Fresh)
=============================================================================
