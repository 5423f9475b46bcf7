--------------------------- MODULE StartupProofs ---------------------------
(***************************************************************************)
(* Proofs about Startup, for any number of instances and faults.           *)
(***************************************************************************)
EXTENDS Startup, TLAPS

\* The tables are those of the seeding order, and the users come first.
LEMMA SeedingOrder ==
  /\ Len(Seeding) = 5
  /\ \A i \in 1 .. 5 : Seeding[i] \in Tables
  /\ \A t \in Tables : \E i \in 1 .. 5 : t = Seeding[i]
  /\ Seeding[1] = "users"
<1>1. Len(Seeding) = 5
  BY DEF Seeding
<1>2. Tables = {Seeding[i] : i \in 1 .. 5}
  BY <1>1 DEF Tables
<1>3. Seeding[1] = "users"
  BY DEF Seeding
<1> QED  BY <1>1, <1>2, <1>3

\* The parts of the invariant that are not about types.
Ordered == \A p \in Instances : \A i \in Behind(p) : tables[Seeding[i]].seeded > 0
Fresh == \A t \in Tables : tables[t] = Empty \/ tables[t].seeded = 1
UsersStay == tables["users"].seeded > 0 => tables["users"].live

\* The parts of the invariant by which the proofs below take it apart.
LEMMA InvariantParts == IInv <=> TypeOK /\ Ordered /\ Fresh /\ UsersStay
BY DEF IInv, Ordered, Fresh, UsersStay

\* Only a table that was seeded is occupied.
LEMMA OccupiedIsSeeded ==
  ASSUME IInv, NEW t \in Tables, Occupied(t)
  PROVE  tables[t].seeded > 0
BY DEF IInv, Occupied, Empty

\* An instance that serves has every table behind it.
LEMMA ServingBehind ==
  ASSUME IInv, NEW p \in Instances, pc[p] = "serving", NEW t \in Tables
  PROVE  tables[t].seeded > 0
<1>1. Behind(p) = 1 .. 5
  BY SeedingOrder DEF Behind
<1> QED  BY <1>1, SeedingOrder DEF IInv

-----------------------------------------------------------------------------
(* A step of one process: it may seed its table, and moves on.             *)

\* Seeding a table of which no seed row exists makes it seeded once.
LEMMA WithSeedsOnce ==
  ASSUME NEW table \in Table, table.seeded = 0
  PROVE  /\ WithSeeds(table) \in Table
         /\ WithSeeds(table).seeded = 1 /\ WithSeeds(table).live
BY DEF WithSeeds, Table

\* The tables that a process has behind it are among the five.
LEMMA BehindIsInOrder ==
  ASSUME IInv, NEW p \in Instances
  PROVE  Behind(p) \subseteq 1 .. 5
<1>1. at[p] \in 1 .. 5
  BY SeedingOrder DEF IInv, TypeOK
<1>2. 1 .. at[p] - 1 \subseteq 1 .. 5
  BY <1>1
<1> QED  BY <1>2, SeedingOrder DEF Behind

\* What a step of p does to the tables, when it does anything: it seeds the
\* table it is at, which was fresh.
SeedsItsTable(p) ==
  /\ tables[Current(p)].seeded = 0
  /\ tables'[Current(p)].seeded = 1 /\ tables'[Current(p)].live
  /\ \A t \in Tables : t # Current(p) => tables'[t] = tables[t]

\* The invariant survives a step of p that leaves the tables alone or seeds
\* one, when what is behind p afterwards was behind it before, or is seeded.
LEMMA ProcessStep ==
  ASSUME IInv, TypeOK', NEW p \in Instances,
         NEW phase, pc' = [pc EXCEPT ![p] = phase],
         \A q \in Instances \ {p} : at'[q] = at[q],
         tables' = tables \/ (Current(p) \in Tables /\ SeedsItsTable(p)),
         \A i \in Behind(p)' : i \in 1 .. 5 /\ tables'[Seeding[i]].seeded > 0
  PROVE  IInv'
<1>1. \A t \in Tables : tables[t].seeded > 0 => tables'[t].seeded > 0
  BY DEF SeedsItsTable
<1>2. Ordered'
  <2> SUFFICES ASSUME NEW q \in Instances, NEW i \in Behind(q)'
               PROVE  tables'[Seeding[i]].seeded > 0
    BY DEF Ordered
  <2>1. CASE q = p
    BY <2>1
  <2>2. CASE q # p
    <3>1. pc'[q] = pc[q] /\ at'[q] = at[q]
      BY <2>2 DEF IInv, TypeOK
    <3>2. Behind(q)' = Behind(q) /\ at[q] \in 1 .. 5
      BY <3>1, SeedingOrder DEF Behind, IInv, TypeOK
    <3>3. i \in Behind(q) /\ Behind(q) \subseteq 1 .. 5
      BY <3>2, BehindIsInOrder
    <3>4. tables[Seeding[i]].seeded > 0 /\ Seeding[i] \in Tables
      BY <3>3, SeedingOrder DEF IInv
    <3> QED  BY <1>1, <3>4
  <2> QED  BY <2>1, <2>2
<1>3. Fresh'
  <2>1. CASE tables' = tables
    BY <2>1 DEF IInv, Fresh
  <2>2. CASE Current(p) \in Tables /\ SeedsItsTable(p)
    BY <2>2 DEF IInv, TypeOK, Table, Fresh, SeedsItsTable
  <2> QED  BY <2>1, <2>2
<1>4. UsersStay'
  <2>1. CASE tables' = tables
    BY <2>1 DEF IInv, UsersStay
  <2>2. CASE Current(p) \in Tables /\ SeedsItsTable(p)
    BY <2>2, SeedingOrder DEF IInv, TypeOK, Table, UsersStay, SeedsItsTable
  <2> QED  BY <2>1, <2>2
<1> QED  BY <1>2, <1>3, <1>4 DEF IInv, Ordered, Fresh, UsersStay

\* Moving on from a table that is seeded leaves only seeded tables behind.
LEMMA AdvancePast ==
  ASSUME IInv, NEW p \in Instances, pc[p] \in {"counting", "inserting"},
         Advance(p), tables'[Current(p)].seeded > 0,
         \A t \in Tables : tables[t].seeded > 0 => tables'[t].seeded > 0
  PROVE  /\ pc' \in [Instances -> Phases] /\ at' \in [Instances -> 1 .. Len(Seeding)]
         /\ \E phase : pc' = [pc EXCEPT ![p] = phase]
         /\ \A q \in Instances \ {p} : at'[q] = at[q]
         /\ \A i \in Behind(p)' : i \in 1 .. 5 /\ tables'[Seeding[i]].seeded > 0
<1>1. Behind(p) = 1 .. at[p] - 1 /\ at[p] \in 1 .. 5
  BY SeedingOrder DEF Behind, IInv, TypeOK
<1>2. \A i \in 1 .. at[p] : tables'[Seeding[i]].seeded > 0
  BY <1>1, SeedingOrder DEF IInv, Current
<1>3. CASE at[p] = 5
  <2>1. pc' = [pc EXCEPT ![p] = "redis"] /\ at' = at
    BY <1>3, SeedingOrder DEF Advance, Goto
  <2>2. Behind(p)' = 1 .. 5
    BY <2>1, SeedingOrder DEF Behind, IInv, TypeOK
  <2>3. pc' \in [Instances -> Phases] /\ at' \in [Instances -> 1 .. Len(Seeding)]
    BY <2>1 DEF IInv, TypeOK, Phases
  <2>4. \A i \in Behind(p)' : i \in 1 .. 5 /\ tables'[Seeding[i]].seeded > 0
    BY <2>2, <1>2, <1>3
  <2>5. \A q \in Instances \ {p} : at'[q] = at[q]
    BY <2>1
  <2>6. \E phase : pc' = [pc EXCEPT ![p] = phase]
    BY <2>1
  <2> QED  BY <2>3, <2>4, <2>5, <2>6
<1>4. CASE at[p] # 5
  <2>1. pc' = [pc EXCEPT ![p] = "counting"] /\ at' = [at EXCEPT ![p] = @ + 1]
    BY <1>4, SeedingOrder DEF Advance, Goto
  <2>2. Behind(p)' = 1 .. at[p]
    BY <2>1, <1>1, SeedingOrder DEF Behind, IInv, TypeOK
  <2>3. pc' \in [Instances -> Phases]
    BY <2>1 DEF IInv, TypeOK, Phases
  <2>4. at' \in [Instances -> 1 .. Len(Seeding)]
    BY <2>1, <1>1, <1>4, SeedingOrder DEF IInv, TypeOK
  <2>5. \A q \in Instances \ {p} : at'[q] = at[q]
    BY <2>1 DEF IInv, TypeOK
  <2>6. \A i \in Behind(p)' : i \in 1 .. 5 /\ tables'[Seeding[i]].seeded > 0
    BY <2>2, <1>1, <1>2
  <2>7. \E phase : pc' = [pc EXCEPT ![p] = phase]
    BY <2>1
  <2> QED  BY <2>3, <2>4, <2>5, <2>6, <2>7
<1> QED  BY <1>3, <1>4

-----------------------------------------------------------------------------
(* The invariant is inductive.                                             *)

\* The invariant holds of the empty database with no process running.
LEMMA Initially == Init => IInv
<1> SUFFICES ASSUME Init PROVE IInv
  OBVIOUS
<1>1. TypeOK
  BY MaxFaultsAssumption, SeedingOrder DEF Init, TypeOK, Table, Empty, Phases
<1>2. Ordered
  BY DEF Init, Ordered, Behind
<1>3. Fresh /\ UsersStay
  BY SeedingOrder DEF Init, Fresh, UsersStay, Empty
<1> QED  BY <1>1, <1>2, <1>3, InvariantParts

\* A step that only moves p on, to a phase that has no more behind it.
LEMMA Moves ==
  ASSUME IInv, NEW p \in Instances, NEW phase \in Phases,
         pc' = [pc EXCEPT ![p] = phase], UNCHANGED tables,
         at' = at \/ at' = [at EXCEPT ![p] = 1],
         faults' \in 0 .. MaxFaults,
         Behind(p)' \subseteq Behind(p)
  PROVE  IInv'
<1>1. TypeOK'
  BY SeedingOrder DEF IInv, TypeOK
<1>2. \A q \in Instances \ {p} : at'[q] = at[q]
  BY DEF IInv, TypeOK
<1>3. \A i \in Behind(p) : i \in 1 .. 5
  BY SeedingOrder DEF Behind, IInv, TypeOK
<1>4. \A i \in Behind(p)' : i \in 1 .. 5 /\ tables'[Seeding[i]].seeded > 0
  BY <1>3 DEF IInv
<1> QED  BY <1>1, <1>2, <1>4, ProcessStep

\* An insert that is not rejected seeds the table the process is at.
LEMMA InsertSeeds ==
  ASSUME IInv, NEW p \in Instances, Insert(p)
  PROVE  Current(p) \in Tables /\ SeedsItsTable(p) /\ tables' \in [Tables -> Table]
<1>1. Current(p) \in Tables
  BY SeedingOrder DEF Current, IInv, TypeOK
<1>2. tables[Current(p)] \in Table /\ tables[Current(p)].seeded = 0
  BY <1>1 DEF Insert, SeedCodesTaken, Table, IInv, TypeOK
<1>3. /\ WithSeeds(tables[Current(p)]) \in Table
      /\ WithSeeds(tables[Current(p)]).seeded = 1
      /\ WithSeeds(tables[Current(p)]).live
  BY <1>2, WithSeedsOnce
<1>4. SeedsItsTable(p)
  BY <1>1, <1>2, <1>3 DEF Insert, SeedsItsTable, IInv, TypeOK
<1>5. tables' \in [Tables -> Table]
  BY <1>1, <1>3 DEF Insert, IInv, TypeOK
<1> QED  BY <1>1, <1>4, <1>5

\* A step of a starting process keeps the invariant.
LEMMA ProceedKeeps ==
  ASSUME IInv, NEW p \in Instances, Proceed(p)
  PROVE  IInv'
<1> USE DEF IInv, TypeOK
<1>1. CASE Start(p)
  <2>1. Behind(p)' = {}
    BY <1>1 DEF Start, Goto, Behind
  <2> QED  BY <1>1, <2>1, Moves DEF Start, Goto, Phases
<1>2. CASE Connect(p)
  <2>1. Behind(p)' = Behind(p)
    BY <1>2 DEF Connect, Goto, Behind
  <2> QED  BY <1>2, <2>1, Moves DEF Connect, Goto, Phases
<1>3. CASE Count(p)
  <2>1. CASE Occupied(Current(p))
    <3>1. Current(p) \in Tables
      BY SeedingOrder DEF Current
    <3>2. tables'[Current(p)].seeded > 0 /\ Advance(p) /\ tables' = tables /\ faults' = faults
      BY <1>3, <2>1, <3>1, OccupiedIsSeeded DEF Count
    <3>3. \A t \in Tables : tables[t].seeded > 0 => tables'[t].seeded > 0
      BY <3>2
    <3>4. pc[p] = "counting"
      BY <1>3 DEF Count
    <3>5. TypeOK' /\ (\E phase : pc' = [pc EXCEPT ![p] = phase])
      BY <3>2, <3>3, <3>4, AdvancePast
    <3> QED  BY <3>2, <3>3, <3>4, <3>5, AdvancePast, ProcessStep
  <2>2. CASE ~Occupied(Current(p))
    <3>1. Behind(p)' = Behind(p)
      BY <1>3, <2>2 DEF Count, Goto, Behind
    <3> QED  BY <1>3, <2>2, <3>1, Moves DEF Count, Goto, Phases
  <2> QED  BY <2>1, <2>2
<1>4. CASE Insert(p)
  <2>1. Current(p) \in Tables /\ SeedsItsTable(p) /\ tables' \in [Tables -> Table]
    BY <1>4, InsertSeeds
  <2>2. pc[p] = "inserting" /\ Advance(p) /\ faults' = faults
    BY <1>4 DEF Insert
  <2>3. /\ tables'[Current(p)].seeded > 0
        /\ \A t \in Tables : tables[t].seeded > 0 => tables'[t].seeded > 0
    BY <2>1 DEF SeedsItsTable
  <2>4. TypeOK' /\ (\E phase : pc' = [pc EXCEPT ![p] = phase])
    BY <2>1, <2>2, <2>3, AdvancePast
  <2> QED  BY <2>1, <2>2, <2>3, <2>4, AdvancePast, ProcessStep
<1>5. CASE InsertRejected(p)
  <2>1. Behind(p)' = {}
    BY <1>5 DEF InsertRejected, Goto, Behind
  <2> QED  BY <1>5, <2>1, Moves DEF InsertRejected, Goto, Phases
<1>6. CASE PingRedis(p)
  <2>1. Behind(p)' = Behind(p)
    BY <1>6 DEF PingRedis, Goto, Behind
  <2> QED  BY <1>6, <2>1, Moves DEF PingRedis, Goto, Phases
<1> QED  BY <1>1, <1>2, <1>3, <1>4, <1>5, <1>6 DEF Proceed

\* The end of a process keeps the invariant.
LEMMA FailKeeps ==
  ASSUME IInv, NEW p \in Instances, Fail(p)
  PROVE  IInv'
<1>1. Behind(p)' = {}
  BY DEF Fail, Goto, Behind, IInv, TypeOK
<1>2. faults' \in 0 .. MaxFaults
  BY MaxFaultsAssumption DEF Fail, IInv, TypeOK
<1> QED  BY <1>1, <1>2, Moves DEF Fail, Goto, Phases

\* A client's step gives a table that is seeded another value of its type and
\* leaves `seeded` alone.
LEMMA ClientChanges ==
  ASSUME IInv, NEW t \in Tables, Client(t)
  PROVE  \E table \in Table : Change(t, table) /\ table.seeded = tables[t].seeded
<1> DEFINE seeds == [tables[t] EXCEPT !.live = FALSE]
           with == [tables[t] EXCEPT !.others = TRUE]
           without == [tables[t] EXCEPT !.others = FALSE]
<1>1. tables[t] \in Table
  BY DEF IInv, TypeOK
<1>2. \A x \in {seeds, with, without} : x \in Table /\ x.seeded = tables[t].seeded
  BY <1>1 DEF Table
<1>3. \E x \in {seeds, with, without} : Change(t, x)
  BY DEF Client, WithdrawSeeds, CreateOther, WithdrawOthers
<1> QED  BY <1>2, <1>3

\* A client's change leaves seeded what was seeded.
LEMMA ClientKeepsSeeded ==
  ASSUME IInv, NEW t \in Tables, Client(t), NEW u \in Tables
  PROVE  tables'[u].seeded = tables[u].seeded
BY ClientChanges DEF Change, IInv, TypeOK

\* Clients come only when every table is seeded.
LEMMA ClientKeeps ==
  ASSUME IInv, NEW t \in Tables, Client(t)
  PROVE  IInv'
<1>2. PICK table \in Table : Change(t, table) /\ table.seeded = tables[t].seeded
  BY ClientChanges
<1>3. tables[t].seeded > 0
  BY <1>2, ServingBehind DEF Change
<1>4. TypeOK'
  BY <1>2 DEF Change, IInv, TypeOK
<1>5. \A u \in Tables : tables'[u].seeded = tables[u].seeded
  BY ClientKeepsSeeded
<1>6. Ordered'
  <2>1. \A p \in Instances : Behind(p)' = Behind(p) /\ Behind(p) \subseteq 1 .. 5
    BY <1>2, SeedingOrder DEF Change, Behind, IInv, TypeOK
  <2> QED  BY <1>5, <2>1, SeedingOrder DEF IInv, Ordered
<1>7. Fresh'
  <2> SUFFICES ASSUME NEW u \in Tables
               PROVE  tables'[u] = Empty \/ tables'[u].seeded = 1
    BY DEF Fresh
  <2>1. tables[u] = Empty \/ tables[u].seeded = 1
    BY DEF IInv
  <2>2. CASE u = t
    BY <1>3, <1>5, <2>1, <2>2 DEF Empty
  <2>3. CASE u # t
    BY <1>2, <2>1, <2>3 DEF Change, IInv, TypeOK
  <2> QED  BY <2>2, <2>3
<1>8. UsersStay'
  BY <1>2, SeedingOrder DEF Change, IInv, TypeOK, UsersStay
<1> QED  BY <1>4, <1>6, <1>7, <1>8 DEF IInv, Ordered, Fresh, UsersStay

\* Every step keeps the invariant.
LEMMA StepKeeps == IInv /\ [Next]_vars => IInv'
<1> SUFFICES ASSUME IInv, [Next]_vars PROVE IInv'
  OBVIOUS
<1>1. CASE UNCHANGED vars
  BY <1>1 DEF vars, IInv, TypeOK, Behind
<1>2. CASE Next
  BY <1>2, ProceedKeeps, FailKeeps, ClientKeeps DEF Next
<1> QED  BY <1>1, <1>2

\* The invariant of start-up holds in every reachable state.
THEOREM Inductive == Spec => []IInv
BY Initially, StepKeeps, PTL DEF Spec

\* The variables of start-up keep their types: each process is at one of the
\* five tables, and a table is seeded a natural number of times.
THEOREM TypeCorrect == Spec => []TypeOK
<1>1. IInv => TypeOK
  BY DEF IInv
<1> QED  BY <1>1, Inductive, PTL

\* No instance serves before every table has been seeded and the demonstration
\* users are there, whichever processes died or raced.
THEOREM ServesOnlySeeded == Spec => []ServesSeeded
<1>1. IInv => ServesSeeded
  BY ServingBehind, SeedingOrder DEF IInv, ServesSeeded
<1> QED  BY <1>1, Inductive, PTL

\* Seed rows are inserted once, into a table that holds nothing.
THEOREM SeedsAreFirst == Spec => SeedsOnlyFreshTables
<1>1. ASSUME IInv, [Next]_vars
      PROVE  \A t \in Tables : tables'[t].seeded # tables[t].seeded =>
               tables[t] = Empty /\ tables'[t].seeded = 1
  <2> SUFFICES ASSUME NEW t \in Tables, tables'[t].seeded # tables[t].seeded
               PROVE  tables[t] = Empty /\ tables'[t].seeded = 1
    OBVIOUS
  <2>1. PICK p \in Instances : Insert(p)
    <3>1. ~(UNCHANGED tables)
      OBVIOUS
    <3>2. ASSUME NEW u \in Tables, Client(u)
          PROVE  FALSE
      BY <1>1, <3>2, ClientKeepsSeeded
    <3> QED  BY <1>1, <3>1, <3>2 DEF Next, Proceed, Start, Connect, Count,
                                     InsertRejected, PingRedis, Fail, vars
  <2>2. t = Current(p) /\ tables[t].seeded = 0 /\ tables'[t].seeded = 1
    BY <1>1, <2>1, InsertSeeds DEF SeedsItsTable
  <2> QED  BY <1>1, <2>2 DEF IInv
<1> QED  BY <1>1, Inductive, PTL DEF Spec, SeedsOnlyFreshTables
=============================================================================
