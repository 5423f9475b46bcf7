------------------------------ MODULE Startup ------------------------------
(***************************************************************************)
(* Instances of the backend starting on one database: database.Open waits  *)
(* for the connection, migrates, and seeds five tables one after another,  *)
(* each by a count followed by an insert; then Redis is pinged and the     *)
(* instance serves.  Every error ends the process, and the container is    *)
(* started again.                                                          *)
(*                                                                         *)
(* Instances may start at the same time, and a process may die between any *)
(* two steps.  Meanwhile the clients of an instance that serves create and *)
(* withdraw records.  The seed rows of a table are one insert, which is    *)
(* one transaction with their revisions; they are abstracted to how often  *)
(* they were inserted and whether one of them is live.                     *)
(***************************************************************************)
EXTENDS Naturals, Sequences

CONSTANTS
  Instances,  \* processes of the backend on one database
  MaxFaults   \* bound of the model: dead processes and failed calls

ASSUME MaxFaultsAssumption == MaxFaults \in Nat

VARIABLES
  tables,  \* what the database holds
  pc,      \* where each process is
  at,      \* the table it is seeding, as an index of Seeding
  faults   \* faults so far

vars == <<tables, pc, at, faults>>

-----------------------------------------------------------------------------
Seeding == <<"users", "press_units", "print_runs", "color_proofs",
             "release_decisions">>

Tables == {Seeding[i] : i \in 1 .. Len(Seeding)}

Phases == {"stopped", "connecting", "counting", "inserting", "redis", "serving"}

\* seeded: how often the seed rows were inserted; live: one of them is not
\* withdrawn; others: a client's record that is not withdrawn is there.
Table == [seeded : Nat, live : BOOLEAN, others : BOOLEAN]

Empty == [seeded |-> 0, live |-> FALSE, others |-> FALSE]

Init ==
  /\ tables = [t \in Tables |-> Empty]
  /\ pc = [p \in Instances |-> "stopped"]
  /\ at = [p \in Instances |-> 1]
  /\ faults = 0

Goto(p, phase) == pc' = [pc EXCEPT ![p] = phase]

Start(p) ==
  /\ pc[p] = "stopped"
  /\ Goto(p, "connecting")
  /\ at' = [at EXCEPT ![p] = 1]
  /\ UNCHANGED <<tables, faults>>

\* The database answered within the attempts, and AutoMigrate succeeded.
Connect(p) ==
  /\ pc[p] = "connecting"
  /\ Goto(p, "counting")
  /\ UNCHANGED <<tables, at, faults>>

Current(p) == Seeding[at[p]]

\* Mutant: the last table is not noticed.
AdvanceTooFar(p) ==
  IF at[p] > Len(Seeding) THEN Goto(p, "redis") /\ UNCHANGED at
  ELSE Goto(p, "counting") /\ at' = [at EXCEPT ![p] = @ + 1]

\* The next table, or Redis after the last one.
Advance(p) ==
  IF at[p] = Len(Seeding) THEN Goto(p, "redis") /\ UNCHANGED at
  ELSE Goto(p, "counting") /\ at' = [at EXCEPT ![p] = @ + 1]

\* Mutant: only the demonstration rows are counted.
OccupiedBySeeds(t) == tables[t].live

\* Count sees only rows that are not soft-deleted.
Occupied(t) == tables[t].live \/ tables[t].others

\* Mutant: the users are taken as a sign that every table was seeded.
CountAsUsers(p) ==
  /\ pc[p] = "counting"
  /\ IF Occupied("users") THEN Advance(p) ELSE Goto(p, "inserting") /\ UNCHANGED at
  /\ UNCHANGED <<tables, faults>>

Count(p) ==
  /\ pc[p] = "counting"
  /\ IF Occupied(Current(p)) THEN Advance(p) ELSE Goto(p, "inserting") /\ UNCHANGED at
  /\ UNCHANGED <<tables, faults>>

\* Mutant: a unique index over the rows that are not soft-deleted.
SeedCodesLive(t) == tables[t].live

\* The unique indexes (username, code) also cover withdrawn rows.
SeedCodesTaken(t) == tables[t].seeded > 0

WithSeeds(table) ==
  [seeded |-> table.seeded + 1, live |-> TRUE, others |-> table.others]

Insert(p) ==
  /\ pc[p] = "inserting"
  /\ ~SeedCodesTaken(Current(p))
  /\ tables' = [tables EXCEPT ![Current(p)] = WithSeeds(@)]
  /\ Advance(p)
  /\ UNCHANGED faults

\* The insert is rejected, Open returns the error, and main exits.
InsertRejected(p) ==
  /\ pc[p] = "inserting"
  /\ SeedCodesTaken(Current(p))
  /\ Goto(p, "stopped")
  /\ UNCHANGED <<tables, at, faults>>

PingRedis(p) ==
  /\ pc[p] = "redis"
  /\ Goto(p, "serving")
  /\ UNCHANGED <<tables, at, faults>>

\* A call fails or the start-up timeout passes, or the process is killed.
Fail(p) ==
  /\ pc[p] # "stopped"
  /\ faults < MaxFaults
  /\ faults' = faults + 1
  /\ Goto(p, "stopped")
  /\ UNCHANGED <<tables, at>>

-----------------------------------------------------------------------------
(* The clients of an instance that serves.  Nothing creates or deletes a   *)
(* user.                                                                   *)

Change(t, table) ==
  /\ \E p \in Instances : pc[p] = "serving"
  /\ t # "users"
  /\ tables[t] # table
  /\ tables' = [tables EXCEPT ![t] = table]
  /\ UNCHANGED <<pc, at, faults>>

WithdrawSeeds(t) == Change(t, [tables[t] EXCEPT !.live = FALSE])
CreateOther(t) == Change(t, [tables[t] EXCEPT !.others = TRUE])
WithdrawOthers(t) == Change(t, [tables[t] EXCEPT !.others = FALSE])

-----------------------------------------------------------------------------
Proceed(p) ==
  \/ Start(p) \/ Connect(p) \/ Count(p) \/ Insert(p) \/ InsertRejected(p)
  \/ PingRedis(p)

Client(t) == WithdrawSeeds(t) \/ CreateOther(t) \/ WithdrawOthers(t)

Next ==
  \/ \E p \in Instances : Proceed(p) \/ Fail(p)
  \/ \E t \in Tables : Client(t)

Spec == Init /\ [][Next]_vars

\* The container is restarted unless it is stopped on purpose, and every call
\* of the start-up returns.
FairSpec == Spec /\ \A p \in Instances : WF_vars(Proceed(p))
-----------------------------------------------------------------------------

\* All variables hold values of their types.
TypeOK ==
  /\ tables \in [Tables -> Table]
  /\ pc \in [Instances -> Phases]
  /\ at \in [Instances -> 1 .. Len(Seeding)]
  /\ faults \in 0 .. MaxFaults

\* Nobody is served by a database that start-up left half seeded, whichever
\* processes died or raced on the way: every table has been seeded, and the
\* demonstration users can log in.
ServesSeeded ==
  \A p \in Instances : pc[p] = "serving" =>
    /\ \A t \in Tables : tables[t].seeded > 0
    /\ tables["users"].live

\* Demonstration rows go into a fresh table only: never a second time, never
\* beside what clients have created since the table was counted.
SeedsOnlyFreshTables ==
  [][\A t \in Tables : tables'[t].seeded # tables[t].seeded =>
       tables[t] = Empty /\ tables'[t].seeded = 1]_vars

\* The tables a process has found occupied or has seeded since it started.
Behind(p) ==
  IF pc[p] = "stopped" THEN {}
  ELSE IF pc[p] \in {"redis", "serving"} THEN 1 .. Len(Seeding)
  ELSE 1 .. at[p] - 1

\* The inductive invariant: a table nobody has seeded holds nothing, for no
\* client comes before every table is seeded; seed rows are there once.
IInv ==
  /\ TypeOK
  /\ \A p \in Instances : \A i \in Behind(p) : tables[Seeding[i]].seeded > 0
  /\ \A t \in Tables : tables[t] = Empty \/ tables[t].seeded = 1
  /\ tables["users"].seeded > 0 => tables["users"].live

\* Once every row of a seeded table is withdrawn, a start finds nothing to
\* count and every code taken.
Blocked ==
  \E t \in Tables : tables[t].seeded > 0 /\ ~tables[t].live /\ ~tables[t].others

\* An instance comes up, after the faults and lost races on the way, unless
\* all rows of some table are withdrawn: then its start fails every time.
ComesUpUnlessBlocked ==
  \A p \in Instances : pc[p] # "serving" ~> pc[p] = "serving" \/ Blocked
=============================================================================
