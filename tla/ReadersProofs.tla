--------------------------- MODULE ReadersProofs ---------------------------
(***************************************************************************)
(* Proofs about RecordPages and AuditTrail, for every number of records,   *)
(* changes and ticks, and every size of a page.  The first part is about   *)
(* orders and pages, which both share.                                     *)
(***************************************************************************)
EXTENDS RecordPages, AuditTrail, FiniteSetTheorems, FunctionTheorems, SequenceTheorems, TLAPS

-----------------------------------------------------------------------------
(* Pages.                                                                  *)

LEMMA MinOfTwo ==
  ASSUME NEW a \in Int, NEW b \in Int
  PROVE  Min({a, b}) = IF a <= b THEN a ELSE b
BY DEF Min

LEMMA MaxOfTwo ==
  ASSUME NEW a \in Int, NEW b \in Int
  PROVE  Max({a, b}) = IF a >= b THEN a ELSE b
BY DEF Max

\* The handler and the repository agree on the size of a page.
LEMMA SizesAgree ==
  /\ \A asked \in AskedSizes : bindPage(asked) \in 1 .. MaxSize
  /\ \A s \in 1 .. MaxSize : normalizePage(s) = s
<1>1. \A asked \in AskedSizes : bindPage(asked) \in 1 .. MaxSize
  BY SizesAssumption DEF bindPage
<1>2. ASSUME NEW s \in 1 .. MaxSize PROVE normalizePage(s) = s
  BY SizesAssumption, MinOfTwo DEF normalizePage
<1> QED  BY <1>1, <1>2

\* The pages hold the total, and all but the last are full.
LEMMA PagesHoldTotal ==
  ASSUME NEW n \in Nat, NEW s \in Nat \ {0}
  PROVE  /\ Pages(n, s) \in Nat \ {0}
         /\ \A p \in Nat : p >= Pages(n, s) => n <= p * s
         /\ \A p \in Nat : p < Pages(n, s) => p * s < n \/ p = 0
<1> DEFINE q == (n + s - 1) \div s
<1>1. q \in Nat /\ s * q <= n + s - 1 /\ n + s - 1 < s * q + s
  OBVIOUS
<1>2. Pages(n, s) = IF 1 >= q THEN 1 ELSE q
  BY <1>1, MaxOfTwo DEF Pages
<1> HIDE DEF q
<1>3. ASSUME NEW p \in Nat, p >= Pages(n, s) PROVE n <= p * s
  <2>1. p >= q /\ p - q \in Nat
    BY <1>1, <1>2, <1>3
  <2>2. p * s = s * q + s * (p - q) /\ s * (p - q) >= 0 /\ s * q \in Int
    BY <2>1, <1>1
  <2> QED  BY <2>2, <1>1
<1>4. ASSUME NEW p \in Nat, p < Pages(n, s), p # 0 PROVE p * s < n
  <2>1. p < q /\ q - p - 1 \in Nat
    BY <1>1, <1>2, <1>4
  <2>2. s * q = p * s + s + s * (q - p - 1) /\ s * (q - p - 1) >= 0 /\ p * s \in Int
    BY <2>1, <1>1
  <2> QED  BY <2>2, <1>1
<1> QED  BY <1>1, <1>2, <1>3, <1>4

\* More rows never make fewer pages.
LEMMA PagesMonotone ==
  ASSUME NEW n \in Nat, NEW m \in Nat, n <= m, NEW s \in Nat \ {0}
  PROVE  Pages(n, s) <= Pages(m, s)
<1>1. n + s - 1 \in Nat /\ m + s - 1 \in Nat /\ n + s - 1 <= m + s - 1
  OBVIOUS
<1>2. (n + s - 1) \div s <= (m + s - 1) \div s
  BY <1>1
<1> QED  BY <1>1, MaxOfTwo DEF Pages

\* The page that is asked for next.
LEMMA NextPageOf ==
  ASSUME NEW p \in Nat, NEW n \in Nat \ {0}
  PROVE  /\ NextPage(p, n) \in 1 .. n
         /\ p < n => NextPage(p, n) = p + 1
BY MinOfTwo DEF NextPage

-----------------------------------------------------------------------------
(* Orders.                                                                 *)

\* What comes before x in every order of S.
Above(S, order, x) == {y \in S : <<y, x>> \in order}

\* An order names every element once.
LEMMA OrderIsBijection ==
  ASSUME NEW S, IsFiniteSet(S), NEW order, NEW s \in Orders(S, order)
  PROVE  /\ s \in Seq(S) /\ Len(s) = Cardinality(S) /\ Cardinality(S) \in Nat
         /\ \A i, j \in 1 .. Cardinality(S) : s[i] = s[j] => i = j
         /\ \A x \in S : \E i \in 1 .. Cardinality(S) : s[i] = x
<1> DEFINE n == Cardinality(S)
<1>0. n \in Nat /\ IsFiniteSet(1 .. n) /\ Cardinality(1 .. n) = n
  BY FS_CardinalityType, FS_Interval
<1> HIDE DEF n
<1>1. s \in [1 .. n -> S] /\ \A i, j \in 1 .. n : s[i] = s[j] => i = j
  BY DEF Orders, SetToSeqs, n
<1>2. s \in Injection(1 .. n, S)
  BY <1>1, Fun_IsInj
<1>3. s \in Surjection(1 .. n, S)
  BY <1>0, <1>2, FS_Injection DEF n
<1>4. \A x \in S : \E i \in 1 .. n : s[i] = x
  BY <1>3 DEF Surjection
<1>5. s \in Seq(S) /\ Len(s) = n
  BY <1>0, <1>1
<1> QED  BY <1>0, <1>1, <1>4, <1>5 DEF n

\* What the ORDER BY puts before an element is above it,
LEMMA AboveFitsBefore ==
  ASSUME NEW S, IsFiniteSet(S), NEW order, NEW s \in Orders(S, order),
         NEW p \in 1 .. Cardinality(S), <<s[p], s[p]>> \notin order
  PROVE  Cardinality(Above(S, order, s[p])) <= p - 1
<1> DEFINE n == Cardinality(S)
           A == Above(S, order, s[p])
           f == [i \in 1 .. p - 1 |-> s[i]]
           B == {s[i] : i \in 1 .. p - 1}
<1>1. n \in Nat /\ s \in Seq(S) /\ Len(s) = n /\ \A x \in S : \E i \in 1 .. n : s[i] = x
  BY OrderIsBijection
<1>2. f \in Surjection(1 .. p - 1, B)
  BY Fun_IsSurj
<1>3. IsFiniteSet(1 .. p - 1) /\ Cardinality(1 .. p - 1) = p - 1
  BY FS_Interval
<1>4. IsFiniteSet(B) /\ Cardinality(B) <= p - 1
  BY <1>2, <1>3, FS_Surjection
<1>5. ASSUME NEW y \in A PROVE y \in B
  <2>0. y \in S /\ <<y, s[p]>> \in order
    BY <1>5 DEF Above
  <2>1. PICK q \in 1 .. n : s[q] = y
    BY <1>1, <2>0
  <2>2. ~ p < q
    BY <2>0, <2>1, <1>1 DEF Orders
  <2> QED  BY <2>0, <2>1, <2>2, <1>1
<1>6. Cardinality(A) <= Cardinality(B) /\ Cardinality(A) \in Nat /\ Cardinality(B) \in Nat
  BY <1>4, <1>5, FS_Subset, FS_CardinalityType
<1> QED  BY <1>4, <1>6

\* and all of what is above it unless the ORDER BY leaves the two open.
LEMMA BeforeIsAbove ==
  ASSUME NEW S, IsFiniteSet(S), NEW order, NEW s \in Orders(S, order),
         NEW p \in 1 .. Cardinality(S),
         \A y \in S \ {s[p]} : <<y, s[p]>> \in order \/ <<s[p], y>> \in order
  PROVE  Cardinality(Above(S, order, s[p])) >= p - 1
<1> DEFINE n == Cardinality(S)
           A == Above(S, order, s[p])
           f == [i \in 1 .. p - 1 |-> s[i]]
<1>1. /\ n \in Nat /\ s \in Seq(S) /\ Len(s) = n
      /\ \A i, j \in 1 .. n : s[i] = s[j] => i = j
  BY OrderIsBijection
<1>2. ASSUME NEW i \in 1 .. p - 1 PROVE s[i] \in A
  <2>1. {i, p} \subseteq 1 .. n /\ i < p /\ DOMAIN s = 1 .. n
    BY <1>1
  <2>2. <<s[p], s[i]>> \notin order
    BY <2>1 DEF Orders
  <2>3. s[i] \in S \ {s[p]}
    BY <1>1, <2>1
  <2> QED  BY <2>2, <2>3 DEF Above
<1>3. f \in Injection(1 .. p - 1, A)
  BY <1>1, <1>2, Fun_IsInj
<1>4. IsFiniteSet(A) /\ Cardinality(A) \in Nat
  BY FS_Subset, FS_CardinalityType DEF Above
<1>5. Cardinality(1 .. p - 1) = p - 1
  BY FS_Interval
<1> QED  BY <1>3, <1>4, <1>5, FS_Injection

\* What is read, r, is what was read before, t, and a page of s.
ReadsOn(r, t, s, from, limit) ==
  /\ Len(r) = Len(t) + (IF from + limit <= Len(s) THEN limit
                        ELSE IF from <= Len(s) THEN Len(s) - from ELSE 0)
  /\ \A i \in 1 .. Len(t) : r[i] = t[i]
  /\ \A i \in 1 .. Len(r) : i > Len(t) => r[i] = s[from + (i - Len(t))]

LEMMA SliceAppended ==
  ASSUME NEW S, NEW s \in Seq(S), NEW t \in Seq(S),
         NEW from \in Nat, NEW limit \in Nat \ {0},
         NEW r, r = t \o Slice(s, from, limit)
  PROVE  r \in Seq(S) /\ ReadsOn(r, t, s, from, limit)
<1> DEFINE end == Min({from + limit, Len(s)})
           u == SubSeq(s, from + 1, end)
<1>1. Len(s) \in Nat /\ Len(t) \in Nat /\ \A i \in 1 .. Len(s) : s[i] \in S
  OBVIOUS
<1>2. end = IF from + limit <= Len(s) THEN from + limit ELSE Len(s)
  BY <1>1, MinOfTwo
<1> HIDE DEF end
<1>3. /\ u \in Seq(S)
      /\ Len(u) = IF from + 1 <= end THEN end - from ELSE 0
      /\ \A i \in 1 .. Len(u) : u[i] = s[from + i]
  <2>1. end \in Int /\ from + 1 \in Int /\ \A i \in from + 1 .. end : s[i] \in S
    BY <1>1, <1>2
  <2>2. /\ u \in Seq(S)
        /\ Len(u) = IF from + 1 <= end THEN end - (from + 1) + 1 ELSE 0
        /\ \A i \in 1 .. end - (from + 1) + 1 : u[i] = s[from + 1 + i - 1]
    BY <2>1, SubSeqProperties
  <2>3. Len(u) = IF from + 1 <= end THEN end - from ELSE 0
    BY <2>1, <2>2
  <2>4. ASSUME NEW i \in 1 .. Len(u) PROVE u[i] = s[from + i]
    <3>1. i \in 1 .. end - (from + 1) + 1 /\ from + 1 + i - 1 = from + i
      BY <2>1, <2>3
    <3> QED  BY <2>2, <3>1
  <2> QED  BY <2>2, <2>3, <2>4
<1> HIDE DEF u
<1>4. /\ t \o u \in Seq(S)
      /\ Len(t \o u) = Len(t) + Len(u)
      /\ \A i \in 1 .. Len(t) + Len(u) :
           (t \o u)[i] = IF i <= Len(t) THEN t[i] ELSE u[i - Len(t)]
  BY <1>3, ConcatProperties
<1>5. r = t \o u
  BY DEF Slice, u, end
<1>6. ASSUME NEW i \in 1 .. Len(r), i > Len(t)
      PROVE  r[i] = s[from + (i - Len(t))]
  BY <1>1, <1>3, <1>4, <1>5, <1>6
<1> QED  BY <1>1, <1>2, <1>3, <1>4, <1>5, <1>6 DEF ReadsOn

-----------------------------------------------------------------------------
(* The pages of a record list.                                             *)

\* The listed records that come before a record.
Ahead(id) == Above(Listed, UpdatedLater, id)

\* A record that is as it was when the reader started.
Untouched(id) == id \in Listed /\ <<id, rows[id].version>> \in start

WasShown(id) == \E i \in DOMAIN shown : shown[i] = id

\* Types, and how the clock and the versions bound what was written.
ListShape ==
  /\ ListTypeOK
  /\ shown \in Seq(Ids)
  /\ \A id \in Ids : rows[id].stamp <= now /\ rows[id].version <= writes + 1
  /\ start \subseteq Ids \X Nat
  /\ \A pair \in start : pair[2] <= rows[pair[1]].version
  /\ {calm, grown} \subseteq BOOLEAN
  /\ \A id \in Ids : rows[id].version = 0 => ~rows[id].listed
  /\ pc = "idle" => page = 1 /\ shown = <<>>

\* The untouched records that were not shown, and those of them that have
\* slipped to the pages that were read.
Missing == {id \in Ids : Untouched(id) /\ ~WasShown(id)}
Skipped == {id \in Missing : Cardinality(Ahead(id)) < (page - 1) * size}

\* An untouched record that was not shown yet is on a page to come, because
\* what is ahead of it stays there and fills the pages that were read; but
\* each record that leaves the list lets one slip.
FewAreSkipped == pc \in {"count", "find"} => Cardinality(Skipped) <= left

FewAreMissed == pc = "done" /\ ~grown => Cardinality(Missing) <= left

\* While nobody writes, what was shown is the list up to the page.
ShownIsPrefix ==
  pc # "idle" /\ calm =>
    /\ \A i \in DOMAIN shown : shown[i] \in Listed /\ Cardinality(Ahead(shown[i])) = i - 1
    /\ pc \in {"count", "find"} => Len(shown) = (page - 1) * size
    /\ Len(shown) <= Cardinality(Listed)
    /\ pc \in {"find", "done"} => total = Cardinality(Listed)
    /\ pc = "done" => Len(shown) = Cardinality(Listed)

RecordsInv ==
  ListShape /\ FewAreSkipped /\ FewAreMissed /\ ShownIsPrefix

LEMMA ListedFinite ==
  /\ IsFiniteSet(Ids) /\ Cardinality(Ids) \in Nat
  /\ IsFiniteSet(Listed) /\ Cardinality(Listed) \in 0 .. Cardinality(Ids)
BY IdsAssumption, FS_Subset, FS_CardinalityType DEF Listed

\* The order of the list is total: the position of a record says how many are
\* ahead of it.
LEMMA PositionInList ==
  ASSUME ListShape, NEW s \in Orders(Listed, UpdatedLater), NEW p \in 1 .. Cardinality(Listed)
  PROVE  s[p] \in Listed /\ Cardinality(Ahead(s[p])) = p - 1
<1>1. s[p] \in Listed
  BY OrderIsBijection, ListedFinite
<1>2. \A x \in Ids : rows[x].stamp \in Int /\ x \in Int
  BY IdsAssumption DEF ListShape, ListTypeOK, Row
<1>3. <<s[p], s[p]>> \notin UpdatedLater
  BY <1>1, <1>2 DEF UpdatedLater, Listed
<1>4. \A y \in Listed \ {s[p]} : <<y, s[p]>> \in UpdatedLater \/ <<s[p], y>> \in UpdatedLater
  BY <1>1, <1>2 DEF UpdatedLater, Listed
<1>5. Cardinality(Ahead(s[p])) <= p - 1
  BY <1>3, ListedFinite, AboveFitsBefore DEF Ahead
<1>6. Cardinality(Ahead(s[p])) >= p - 1
  BY <1>4, ListedFinite, BeforeIsAbove DEF Ahead
<1>7. Cardinality(Ahead(s[p])) \in Nat
  BY ListedFinite, FS_Subset, FS_CardinalityType DEF Ahead, Above
<1> QED  BY <1>1, <1>5, <1>6, <1>7

LEMMA AheadFinite ==
  ASSUME NEW id \in Listed, ListShape
  PROVE  IsFiniteSet(Ahead(id)) /\ Cardinality(Ahead(id)) \in Nat
         /\ Cardinality(Ahead(id)) < Cardinality(Listed)
<1>1. Ahead(id) \subseteq Listed /\ id \notin Ahead(id)
  BY IdsAssumption DEF Ahead, Above, UpdatedLater, Listed, ListShape, ListTypeOK, Row
<1> QED  BY <1>1, ListedFinite, FS_Subset, FS_CardinalityType

\* No two records have the same place in the list.
LEMMA AheadIsPlace ==
  ASSUME ListShape, NEW x \in Listed, NEW y \in Listed,
         Cardinality(Ahead(x)) = Cardinality(Ahead(y))
  PROVE  x = y
<1>1. \A z \in Ids : rows[z].stamp \in Int /\ z \in Int
  BY IdsAssumption DEF ListShape, ListTypeOK, Row
<1>2. ASSUME NEW a \in Listed, NEW b \in Listed, <<a, b>> \in UpdatedLater
      PROVE  Cardinality(Ahead(a)) < Cardinality(Ahead(b))
  <2>1. /\ IsFiniteSet(Ahead(a)) /\ Cardinality(Ahead(a)) \in Nat
        /\ IsFiniteSet(Ahead(b)) /\ Cardinality(Ahead(b)) \in Nat
    BY AheadFinite
  <2>2. Ahead(a) \subseteq Ahead(b) /\ a \in Ahead(b) /\ a \notin Ahead(a)
    BY <1>1, <1>2 DEF Ahead, Above, UpdatedLater, Listed
  <2> QED  BY <2>1, <2>2, FS_Subset
<1>3. ASSUME x # y PROVE <<x, y>> \in UpdatedLater \/ <<y, x>> \in UpdatedLater
  BY <1>1, <1>3 DEF UpdatedLater, Listed
<1>4. Cardinality(Ahead(x)) \in Nat /\ Cardinality(Ahead(y)) \in Nat
  BY AheadFinite
<1> QED  BY <1>2, <1>3, <1>4

LEMMA MissingFinite ==
  /\ IsFiniteSet(Missing) /\ Cardinality(Missing) \in Nat
  /\ IsFiniteSet(Skipped) /\ Cardinality(Skipped) \in Nat
  /\ IsFiniteSet(Missing') /\ Cardinality(Missing') \in Nat
  /\ IsFiniteSet(Skipped') /\ Cardinality(Skipped') \in Nat
<1>1. /\ Missing \subseteq Ids /\ Missing' \subseteq Ids
      /\ Skipped \subseteq Ids /\ Skipped' \subseteq Ids
  BY DEF Missing, Skipped
<1> QED  BY <1>1, IdsAssumption, FS_Subset, FS_CardinalityType

LEMMA PageIsNat ==
  ASSUME ListTypeOK
  PROVE  /\ page \in Nat \ {0} /\ size \in Nat \ {0}
         /\ (page - 1) * size \in Nat /\ page * size \in Nat
         /\ (page - 1) * size + size = page * size
<1>1. page \in Nat \ {0} /\ size \in Nat \ {0}
  BY SizesAssumption, ListedFinite, PagesHoldTotal DEF ListTypeOK
<1>2. page - 1 \in Nat
  BY <1>1
<1> QED  BY <1>1, <1>2

-----------------------------------------------------------------------------
(* A change of a record.                                                   *)

\* What every change does: it moves the record towards the front, if at all, and
\* gives it a version of its own, or takes it off the list.
Moves(id, row) ==
  /\ row \in Row
  /\ rows[id].listed => rows[id].stamp <= row.stamp
  /\ row.stamp <= now
  /\ rows[id].version <= row.version /\ row.version <= writes + 2
  /\ row.version = rows[id].version => ~row.listed

Writing(id) == CreateRecord(id) \/ ChangeRecord(id) \/ DeleteRecord(id)

LEMMA WritesMove ==
  ASSUME ListShape, NEW id \in Ids, Writing(id)
  PROVE  \E row \in Row : Put(id, row) /\ Moves(id, row)
<1>1. /\ rows[id] \in Row /\ rows[id].stamp <= now /\ rows[id].version <= writes + 1
      /\ rows[id].version = 0 => ~rows[id].listed
      /\ now \in 0 .. MaxTime /\ writes \in Nat /\ MaxWrites \in Nat /\ MaxTime \in Nat
  BY BoundsAssumption DEF ListShape, ListTypeOK
<1>2. writes < MaxWrites
  BY DEF Writing, CreateRecord, ChangeRecord, DeleteRecord, Put
<1>3. CASE CreateRecord(id)
  <2>1. PICK stamp \in 0 .. now :
          Put(id, [live |-> TRUE, listed |-> TRUE, stamp |-> stamp, version |-> 1])
    BY <1>3 DEF CreateRecord
  <2> DEFINE row == [live |-> TRUE, listed |-> TRUE, stamp |-> stamp, version |-> 1]
  <2>2. row \in Row
    BY <1>1, <1>2 DEF Row
  <2>3. row.stamp = stamp /\ row.version = 1 /\ rows[id].version = 0
    BY <1>3 DEF CreateRecord
  <2> HIDE DEF row
  <2>4. Moves(id, row)
    BY <1>1, <1>2, <2>2, <2>3 DEF Moves
  <2> QED  BY <2>1, <2>2, <2>4 DEF row
<1>4. CASE ChangeRecord(id)
  <2>1. PICK listed \in BOOLEAN, stamp \in rows[id].stamp .. now :
          Put(id, [rows[id] EXCEPT !.listed = listed, !.stamp = stamp, !.version = @ + 1])
    BY <1>4 DEF ChangeRecord
  <2> DEFINE row == [rows[id] EXCEPT !.listed = listed, !.stamp = stamp, !.version = @ + 1]
  <2>2. rows[id].stamp \in Nat /\ rows[id].version \in Nat
        /\ rows[id].version + 1 \in 0 .. MaxWrites + 1
    BY <1>1, <1>2 DEF Row
  <2>3. row \in Row
    <3>1. stamp \in 0 .. MaxTime
      BY <1>1, <2>1, <2>2
    <3> QED  BY <1>1, <2>1, <2>2, <3>1 DEF Row
  <2>4. row.stamp = stamp /\ row.version = rows[id].version + 1
    BY <1>1 DEF Row
  <2> HIDE DEF row
  <2>5. Moves(id, row)
    BY <2>1, <2>2, <2>3, <2>4, <1>1 DEF Moves
  <2> QED  BY <2>1, <2>3, <2>5 DEF row
<1>5. CASE DeleteRecord(id)
  <2> DEFINE row == [rows[id] EXCEPT !.live = FALSE, !.listed = FALSE]
  <2>1. row \in Row
    BY <1>1 DEF Row
  <2>2. row.stamp = rows[id].stamp /\ row.version = rows[id].version /\ row.listed = FALSE
    BY <1>1 DEF Row
  <2>3. rows[id].stamp \in Nat /\ rows[id].version \in Nat
    BY <1>1 DEF Row
  <2> HIDE DEF row
  <2>4. Moves(id, row)
    BY <2>1, <2>2, <2>3, <1>1 DEF Moves
  <2> QED  BY <1>5, <2>1, <2>4 DEF DeleteRecord, row
<1> QED  BY <1>3, <1>4, <1>5 DEF Writing

\* What is ahead of an untouched record stays ahead of it, unless it leaves the
\* list.
LEMMA AheadStays ==
  ASSUME ListShape, NEW id \in Ids, NEW row \in Row, Put(id, row), Moves(id, row),
         NEW x \in Ids, Untouched(x)'
  PROVE  /\ Untouched(x)
         /\ Ahead(x) \ {id} \subseteq Ahead(x)'
         /\ (rows[id].listed => row.listed) => Ahead(x) \subseteq Ahead(x)'
<1>1. rows \in [Ids -> Row] /\ rows' = [rows EXCEPT ![id] = row] /\ start' = start
  BY DEF ListShape, ListTypeOK, Put, history
<1>2. \A y \in Ids : rows[y] \in Row /\ rows[y].stamp \in Int /\ y \in Int
  BY <1>1, IdsAssumption DEF Row
<1>3. row.stamp \in Int /\ row.version \in Int /\ rows[id].version \in Int
  BY <1>2 DEF Row
<1>4. x # id
  <2> SUFFICES ASSUME x = id PROVE FALSE
    OBVIOUS
  <2>1. row.listed /\ <<id, row.version>> \in start
    BY <1>1 DEF Untouched, Listed
  <2>2. row.version <= rows[id].version
    BY <2>1 DEF ListShape
  <2> QED  BY <2>1, <2>2, <1>3 DEF Moves
<1>5. rows'[x] = rows[x]
  BY <1>1, <1>4
<1>6. Untouched(x)
  BY <1>1, <1>5 DEF Untouched, Listed
<1>7. ASSUME NEW y \in Ahead(x), y # id \/ row.listed PROVE y \in Ahead(x)'
  <2>1. y \in Ids /\ rows[y].listed
        /\ (rows[y].stamp > rows[x].stamp \/ (rows[y].stamp = rows[x].stamp /\ y > x))
    BY <1>7 DEF Ahead, Above, Listed, UpdatedLater
  <2>2. rows'[y].listed /\ rows'[y].stamp \in Int /\ rows[y].stamp <= rows'[y].stamp
    BY <1>1, <1>2, <1>3, <1>7, <2>1 DEF Moves
  <2>3. rows'[y].stamp > rows'[x].stamp \/ (rows'[y].stamp = rows'[x].stamp /\ y > x)
    BY <2>1, <2>2, <1>2, <1>5
  <2> QED  BY <2>1, <2>2, <2>3 DEF Ahead, Above, Listed, UpdatedLater
<1>8. \A y \in Ahead(x) : y \in Ids /\ rows[y].listed
  BY DEF Ahead, Above, Listed
<1> QED  BY <1>6, <1>7, <1>8

\* A change lets no record slip that was not read, if it leaves the changed one
\* in the list; else at most the one that was the first to come.
LEMMA FewSlip ==
  ASSUME ListShape, NEW id \in Ids, NEW row \in Row, Put(id, row), Moves(id, row)
  PROVE  /\ Missing' \subseteq Missing
         /\ (rows[id].listed => row.listed) => Cardinality(Skipped') <= Cardinality(Skipped)
         /\ Cardinality(Skipped') <= Cardinality(Skipped) + 1
<1> DEFINE from == (page - 1) * size
<1>1. UNCHANGED <<page, size, shown>> /\ from \in Nat
  BY PageIsNat DEF Put, ListShape
<1>2. Missing' \subseteq Missing
  BY <1>1, AheadStays DEF Missing, WasShown
<1>3. Skipped = {x \in Missing : Cardinality(Ahead(x)) < from}
      /\ Skipped' = {x \in Missing' : Cardinality(Ahead(x)') < from}
  BY <1>1 DEF Skipped
<1> HIDE DEF from
<1>4. ASSUME NEW x \in Missing'
      PROVE  /\ x \in Listed
             /\ Cardinality(Ahead(x)) \in Nat /\ Cardinality(Ahead(x)') \in Nat
             /\ Cardinality(Ahead(x)) - 1 <= Cardinality(Ahead(x)')
             /\ (rows[id].listed => row.listed) =>
                  Cardinality(Ahead(x)) <= Cardinality(Ahead(x)')
  <2>1. /\ x \in Ids /\ x \in Listed
        /\ Ahead(x) \ {id} \subseteq Ahead(x)'
        /\ (rows[id].listed => row.listed) => Ahead(x) \subseteq Ahead(x)'
    BY <1>4, AheadStays DEF Missing, Untouched
  <2>2. IsFiniteSet(Ahead(x)) /\ IsFiniteSet(Ahead(x)')
    <3>1. Ahead(x) \subseteq Ids /\ Ahead(x)' \subseteq Ids
      BY DEF Ahead, Above, Listed
    <3> QED  BY <3>1, IdsAssumption, FS_Subset
  <2>3. /\ Cardinality(Ahead(x)) \in Nat /\ Cardinality(Ahead(x)') \in Nat
        /\ Cardinality(Ahead(x)) - 1 <= Cardinality(Ahead(x) \ {id})
        /\ Cardinality(Ahead(x) \ {id}) \in Nat
    <3>1. Cardinality(Ahead(x)) \in Nat /\ Cardinality(Ahead(x)') \in Nat
      BY <2>2, FS_CardinalityType
    <3>2. Cardinality(Ahead(x) \ {id})
            = IF id \in Ahead(x) THEN Cardinality(Ahead(x)) - 1 ELSE Cardinality(Ahead(x))
      BY <2>2, FS_RemoveElement
    <3>3. IsFiniteSet(Ahead(x) \ {id})
      BY <2>2, FS_RemoveElement
    <3> QED  BY <3>1, <3>2, <3>3, FS_CardinalityType
  <2>4. Cardinality(Ahead(x) \ {id}) <= Cardinality(Ahead(x)')
    BY <2>1, <2>2, FS_Subset
  <2>5. (rows[id].listed => row.listed) => Cardinality(Ahead(x)) <= Cardinality(Ahead(x)')
    BY <2>1, <2>2, FS_Subset
  <2> QED  BY <2>1, <2>3, <2>4, <2>5
<1>5. ASSUME rows[id].listed => row.listed
      PROVE  Cardinality(Skipped') <= Cardinality(Skipped)
  <2>1. Skipped' \subseteq Skipped
    BY <1>1, <1>2, <1>3, <1>4, <1>5
  <2> QED  BY <2>1, MissingFinite, FS_Subset
<1>6. Cardinality(Skipped') <= Cardinality(Skipped) + 1
  <2>1. ASSUME NEW x \in Skipped', x \notin Skipped PROVE Cardinality(Ahead(x)) = from
    BY <1>1, <1>2, <1>3, <1>4, <2>1
  <2>2. ASSUME NEW x \in Skipped', x \notin Skipped, NEW y \in Skipped', y \notin Skipped
        PROVE  x = y
    <3>1. x \in Listed /\ y \in Listed
      BY <1>3, <1>4, <2>2
    <3> QED  BY <2>1, <2>2, <3>1, AheadIsPlace
  <2>3. CASE Skipped' \subseteq Skipped
    <3>1. Cardinality(Skipped') <= Cardinality(Skipped)
      BY <2>3, MissingFinite, FS_Subset
    <3> QED  BY <3>1, MissingFinite
  <2>4. ASSUME NEW x \in Skipped', x \notin Skipped
        PROVE  Cardinality(Skipped') <= Cardinality(Skipped) + 1
    <3>1. Skipped' \subseteq Skipped \cup {x}
      BY <2>2, <2>4
    <3>2. IsFiniteSet(Skipped \cup {x})
          /\ Cardinality(Skipped \cup {x}) = Cardinality(Skipped) + 1
      BY <2>4, MissingFinite, FS_AddElement
    <3>3. Cardinality(Skipped') <= Cardinality(Skipped \cup {x})
      BY <3>1, <3>2, FS_Subset
    <3> QED  BY <3>2, <3>3
  <2> QED  BY <2>3, <2>4
<1> QED  BY <1>2, <1>5, <1>6

-----------------------------------------------------------------------------
(* The invariant of the record list.                                       *)

LEMMA RecordsInit == ListInit => RecordsInv
<1> SUFFICES ASSUME ListInit PROVE RecordsInv
  OBVIOUS
<1>1. /\ rows \in [Ids -> Row]
      /\ \A id \in Ids : /\ rows[id].stamp = 0 /\ rows[id].version \in {0, 1}
                         /\ rows[id].version = 0 => ~rows[id].listed
  BY BoundsAssumption DEF ListInit, Row
<1>2. DefaultSize \in Nat \ {0} /\ DefaultSize \in 1 .. MaxSize /\ Cardinality(Ids) \in Nat
  BY SizesAssumption, ListedFinite
<1>3. 1 \in 1 .. Pages(Cardinality(Ids), size)
  BY <1>2, PagesHoldTotal DEF ListInit
<1>4. ListTypeOK
  BY <1>1, <1>2, <1>3, BoundsAssumption DEF ListInit, ListTypeOK
<1>5. {calm, grown} \subseteq BOOLEAN /\ left = 0
  BY DEF ListInit
<1>6. shown = <<>> /\ shown \in Seq(Ids) /\ start = {} /\ now = 0 /\ writes = 0 /\ page = 1
  BY DEF ListInit
<1>7. ListShape
  <2>1. \A id \in Ids : /\ rows[id].stamp <= now /\ rows[id].version <= writes + 1
                        /\ rows[id].version = 0 => ~rows[id].listed
    <3>1. TAKE id \in Ids
    <3>2. now = 0 /\ writes = 0
      BY <1>6
    <3>3. /\ rows[id].stamp = 0 /\ rows[id].version \in {0, 1}
          /\ rows[id].version = 0 => ~rows[id].listed
      BY <1>1
    <3> QED  BY <3>2, <3>3
  <2>2. start \subseteq Ids \X Nat /\ \A pair \in start : pair[2] <= rows[pair[1]].version
    BY <1>6
  <2>3. shown \in Seq(Ids) /\ {calm, grown} \subseteq BOOLEAN
        /\ (pc = "idle" => page = 1 /\ shown = <<>>)
    BY <1>5, <1>6
  <2> QED  BY <2>1, <2>2, <2>3, <1>4 DEF ListShape
<1>8. Missing = {} /\ Cardinality(Missing) = 0
  BY <1>6, FS_EmptySet DEF Missing, Untouched
<1> QED  BY <1>7, <1>8 DEF ListInit, RecordsInv, FewAreSkipped, FewAreMissed, ShownIsPrefix

\* A change keeps the invariant: nobody's page moves, and what is ahead of an
\* untouched record stays there.
LEMMA RecordsKeptByWrite ==
  ASSUME RecordsInv, NEW id \in Ids, Writing(id)
  PROVE  RecordsInv'
<1>0. ListShape
  BY DEF RecordsInv
<1>1. PICK row \in Row : Put(id, row) /\ Moves(id, row)
  BY <1>0, WritesMove
<1>2. /\ rows' = [rows EXCEPT ![id] = row] /\ writes' = writes + 1 /\ writes < MaxWrites
      /\ UNCHANGED <<now, pc, size, page, total, shown, start, grown>>
      /\ calm' = FALSE
      /\ left' = left + (IF rows[id].listed /\ ~row.listed THEN 1 ELSE 0)
      /\ left \in Nat /\ left' \in Nat
  BY <1>0, <1>1 DEF Put, ListShape, ListTypeOK
<1>3. ListTypeOK'
  BY <1>0, <1>2, BoundsAssumption DEF ListShape, ListTypeOK
<1>4. \A x \in Ids : rows'[x].stamp <= now' /\ rows'[x].version <= writes' + 1
  <2>1. \A x \in Ids : rows[x].version \in Int /\ row.version \in Int /\ writes \in Int
    BY <1>0, BoundsAssumption DEF ListShape, ListTypeOK, Row
  <2> QED  BY <1>0, <1>1, <1>2, <2>1 DEF ListShape, ListTypeOK, Moves
<1>5. \A pair \in start' : pair[2] <= rows'[pair[1]].version
  <2> SUFFICES ASSUME NEW pair \in start PROVE pair[2] <= rows'[pair[1]].version
    BY <1>2
  <2>1. pair[1] \in Ids /\ pair[2] \in Int /\ pair[2] <= rows[pair[1]].version
    BY <1>0 DEF ListShape
  <2>2. rows[pair[1]].version \in Int /\ row.version \in Int
    BY <1>0, <2>1 DEF ListShape, ListTypeOK, Row
  <2> QED  BY <1>0, <1>1, <1>2, <2>1, <2>2 DEF ListShape, ListTypeOK, Moves
<1>6. ListShape'
  <2>1. \A x \in Ids : rows'[x].version = 0 => ~rows'[x].listed
    <3>1. row.version \in Nat /\ rows[id].version \in Nat /\ rows \in [Ids -> Row]
      BY <1>0 DEF ListShape, ListTypeOK, Row
    <3>2. row.version = 0 => ~row.listed
      BY <1>1, <3>1 DEF Moves
    <3> QED  BY <1>0, <1>2, <3>1, <3>2 DEF ListShape
  <2> QED  BY <1>0, <1>2, <1>3, <1>4, <1>5, <2>1 DEF ListShape
<1>7. /\ Missing' \subseteq Missing
      /\ (rows[id].listed => row.listed) => Cardinality(Skipped') <= Cardinality(Skipped)
      /\ Cardinality(Skipped') <= Cardinality(Skipped) + 1
  BY <1>0, <1>1, FewSlip
<1>8. FewAreSkipped'
  BY <1>2, <1>7, MissingFinite DEF RecordsInv, FewAreSkipped
<1>9. FewAreMissed'
  <2>1. Cardinality(Missing') <= Cardinality(Missing)
    BY <1>7, MissingFinite, FS_Subset
  <2> QED  BY <1>2, <2>1, MissingFinite DEF RecordsInv, FewAreMissed
<1>10. ShownIsPrefix'
  BY <1>2 DEF ShownIsPrefix
<1> QED  BY <1>6, <1>8, <1>9, <1>10 DEF RecordsInv

LEMMA RecordsKeptByTick ==
  ASSUME RecordsInv, TickList
  PROVE  RecordsInv'
<1>1. /\ now' = now + 1 /\ now < MaxTime
      /\ UNCHANGED <<rows, writes, pc, size, page, total, shown, history, grown>>
  BY DEF TickList
<1>2. ListShape'
  <2>1. now \in Int /\ \A id \in Ids : rows[id].stamp \in Int
    BY DEF RecordsInv, ListShape, ListTypeOK, Row
  <2> QED  BY <1>1, <2>1, BoundsAssumption DEF RecordsInv, ListShape, ListTypeOK, history
<1>3. /\ Listed' = Listed /\ UpdatedLater' = UpdatedLater
      /\ Missing' = Missing /\ UNCHANGED <<start, calm, left>>
  BY <1>1 DEF Listed, UpdatedLater, Missing, WasShown, Untouched, history
<1> QED
  BY <1>1, <1>2, <1>3 DEF RecordsInv, FewAreSkipped, FewAreMissed, ShownIsPrefix,
    Skipped, Ahead

LEMMA RecordsKeptByStart ==
  ASSUME RecordsInv, StartReading
  PROVE  RecordsInv'
<1>1. /\ pc = "idle" /\ pc' = "count" /\ page' = 1 /\ shown' = <<>>
      /\ UNCHANGED <<rows, now, writes, total, shown, grown, page>>
      /\ start' = {<<id, rows[id].version>> : id \in Listed}
      /\ calm' = TRUE /\ left' = 0
  BY DEF StartReading, table, RecordsInv, ListShape
<1>2. size' \in 1 .. MaxSize /\ size' \in Nat \ {0}
  <2>1. PICK asked \in AskedSizes : size' = normalizePage(bindPage(asked))
    BY DEF StartReading
  <2> QED  BY <2>1, SizesAgree, SizesAssumption
<1>3. 1 \in 1 .. Pages(Cardinality(Ids), size')
  BY <1>2, ListedFinite, PagesHoldTotal
<1>4. ListTypeOK'
  BY <1>1, <1>2, <1>3 DEF RecordsInv, ListShape, ListTypeOK
<1>5. /\ start' \subseteq Ids \X Nat
      /\ \A pair \in start' : pair[2] <= rows'[pair[1]].version
  BY <1>1 DEF RecordsInv, ListShape, ListTypeOK, Listed, Row
<1>6. ListShape'
  BY <1>1, <1>4, <1>5 DEF RecordsInv, ListShape
<1>7. FewAreSkipped'
  <2>1. (page' - 1) * size' = 0
    <3>1. page' - 1 = 0
      BY <1>1
    <3>2. \A n \in Nat : 0 * n = 0
      OBVIOUS
    <3> QED  BY <3>1, <3>2, <1>2
  <2>2. \A x : Cardinality(Ahead(x)') \in Nat
    <3>1. \A x : Ahead(x)' \subseteq Ids
      BY DEF Ahead, Above, Listed
    <3> QED  BY <3>1, ListedFinite, FS_Subset, FS_CardinalityType
  <2>3. Skipped' = {}
    BY <2>1, <2>2 DEF Skipped
  <2>4. Cardinality(Skipped') = 0
    BY <2>3, FS_EmptySet
  <2> QED  BY <1>1, <2>4 DEF FewAreSkipped
<1>8. ShownIsPrefix'
  <2>1. (page' - 1) * size' = 0
    <3>1. page' - 1 = 0
      BY <1>1
    <3>2. \A n \in Nat : 0 * n = 0
      OBVIOUS
    <3> QED  BY <3>1, <3>2, <1>2
  <2>2. Listed' = Listed /\ Cardinality(Listed) >= 0
    BY <1>1, ListedFinite DEF Listed
  <2> QED  BY <1>1, <2>1, <2>2 DEF ShownIsPrefix
<1>9. FewAreMissed'
  BY <1>1 DEF FewAreMissed
<1> QED  BY <1>6, <1>7, <1>8, <1>9 DEF RecordsInv

LEMMA RecordsKeptByCount ==
  ASSUME RecordsInv, CountRecords
  PROVE  RecordsInv'
<1>1. /\ pc = "count" /\ pc' = "find" /\ total' = Cardinality(Listed)
      /\ UNCHANGED <<rows, now, writes, size, page, shown, start, calm, left, grown>>
  BY DEF CountRecords, table, history
<1>2. ListShape'
  BY <1>1, ListedFinite DEF RecordsInv, ListShape, ListTypeOK
<1>3. /\ Listed' = Listed /\ UpdatedLater' = UpdatedLater
      /\ Missing' = Missing
  BY <1>1 DEF Listed, UpdatedLater, Untouched, Missing, WasShown
<1> QED
  BY <1>1, <1>2, <1>3 DEF RecordsInv, FewAreSkipped, FewAreMissed, ShownIsPrefix,
    Skipped, Ahead

\* What occurs in a sequence occurs a number of times.
LEMMA OccursCounted ==
  ASSUME NEW S, NEW t \in Seq(S), NEW i \in DOMAIN t
  PROVE  Cardinality({j \in DOMAIN t : t[j] = t[i]}) > 0
<1> DEFINE At == {j \in DOMAIN t : t[j] = t[i]}
<1>1. IsFiniteSet(At) /\ i \in At
  <2>1. IsFiniteSet(1 .. Len(t)) /\ DOMAIN t = 1 .. Len(t)
    BY FS_Interval
  <2> QED  BY <2>1, FS_Subset
<1> QED  BY <1>1, FS_EmptySet, FS_CardinalityType

\* A page shows the records that have as many ahead of them as the pages
\* before have room for, and fewer than these and the page have room for.
LEMMA RecordsKeptByFind ==
  ASSUME RecordsInv, FindRecords
  PROVE  RecordsInv'
<1> DEFINE from == (page - 1) * size
           n == Cardinality(Listed)
<1>0. ListShape /\ ListTypeOK
  BY DEF RecordsInv, ListShape
<1>1. /\ page \in Nat \ {0} /\ size \in Nat \ {0} /\ size \in 1 .. MaxSize
      /\ from \in Nat /\ from + size = page * size
      /\ n \in 0 .. Cardinality(Ids) /\ Cardinality(Ids) \in Nat
      /\ total \in 0 .. Cardinality(Ids)
  BY <1>0, PageIsNat, ListedFinite DEF ListTypeOK
<1>2. /\ pc = "find"
      /\ page' = NextPage(page, Pages(total, size))
      /\ pc' = IF page >= Pages(total, size) THEN "done" ELSE "count"
      /\ UNCHANGED <<rows, now, writes, size, total, start, calm, left>>
      /\ grown' = (n > total)
  BY DEF FindRecords, table, history
<1>3. PICK s \in Orders(Listed, UpdatedLater) : shown' = shown \o Slice(s, from, size)
  BY DEF FindRecords, Offset
<1>4. s \in Seq(Listed) /\ s \in Seq(Ids) /\ Len(s) = n
      /\ \A x \in Listed : \E i \in 1 .. n : s[i] = x
  <2>1. /\ s \in Seq(Listed) /\ Len(s) = n
        /\ \A x \in Listed : \E i \in 1 .. n : s[i] = x
    BY OrderIsBijection, ListedFinite
  <2>2. Listed \subseteq Ids
    BY DEF Listed
  <2> QED  BY <2>1, <2>2
<1>5. \A i \in 1 .. n : s[i] \in Listed /\ Cardinality(Ahead(s[i])) = i - 1
  BY <1>0, PositionInList
<1> HIDE DEF from, n
<1>6. /\ shown \in Seq(Ids) /\ shown' \in Seq(Ids)
      /\ Len(shown) \in Nat /\ Len(shown') \in Nat
      /\ DOMAIN shown = 1 .. Len(shown) /\ DOMAIN shown' = 1 .. Len(shown')
      /\ Len(shown') = Len(shown) + (IF from + size <= n THEN size
                                     ELSE IF from <= n THEN n - from ELSE 0)
      /\ \A i \in 1 .. Len(shown) : shown'[i] = shown[i]
      /\ \A i \in 1 .. Len(shown') : i > Len(shown) =>
           shown'[i] = s[from + (i - Len(shown))]
  <2>1. shown \in Seq(Ids)
    BY <1>0 DEF ListShape
  <2>2. shown' \in Seq(Ids) /\ ReadsOn(shown', shown, s, from, size)
    BY <1>1, <1>3, <1>4, <2>1, SliceAppended
  <2>3. \A t \in Seq(Ids) : Len(t) \in Nat /\ DOMAIN t = 1 .. Len(t)
    OBVIOUS
  <2> QED  BY <1>4, <2>1, <2>2, <2>3 DEF ReadsOn
<1>7. /\ Pages(total, size) \in Nat \ {0}
      /\ pc' = "done" => total <= from + size
      /\ pc' = "count" => page' = page + 1 /\ from + size < total
      /\ page' \in 1 .. Pages(total, size)
      /\ Pages(total, size) <= Pages(Cardinality(Ids), size)
  <2> DEFINE last == Pages(total, size)
  <2>1. /\ last \in Nat \ {0}
        /\ page >= last => total <= page * size
        /\ page < last => page * size < total \/ page = 0
    <3>1. total \in Nat /\ size \in Nat \ {0} /\ page \in Nat
      BY <1>1
    <3>2. /\ last \in Nat \ {0}
          /\ \A p \in Nat : p >= last => total <= p * size
          /\ \A p \in Nat : p < last => p * size < total \/ p = 0
      BY <3>1, PagesHoldTotal
    <3> HIDE DEF last
    <3> QED  BY <3>1, <3>2
  <2>2. last <= Pages(Cardinality(Ids), size)
    BY <1>1, PagesMonotone
  <2> HIDE DEF last
  <2>3. page' \in 1 .. last /\ (page < last => page' = page + 1)
    BY <1>1, <1>2, <2>1, NextPageOf DEF last
  <2>4. (pc' = "done" => page >= last) /\ (pc' = "count" => page < last)
    <3>1. page \in Int /\ last \in Int /\ pc' = IF page >= last THEN "done" ELSE "count"
      BY <1>1, <1>2, <2>1 DEF last
    <3> QED  BY <3>1
  <2> QED  BY <1>1, <2>1, <2>2, <2>3, <2>4 DEF last
<1>8. pc' \in {"count", "done"} /\ pc' # "idle" /\ pc' # "find"
  BY <1>2
<1>9. /\ Listed' = Listed
      /\ \A x : (Untouched(x)' <=> Untouched(x)) /\ Ahead(x)' = Ahead(x)
  BY <1>2 DEF Listed, UpdatedLater, Untouched, Ahead
<1>10. ListShape'
  <2>1. Pages(Cardinality(Ids), size) \in Nat
    BY <1>1, PagesHoldTotal
  <2>2. page' \in 1 .. Pages(Cardinality(Ids), size')
    BY <1>2, <1>7, <2>1
  <2>3. grown' \in BOOLEAN
    BY <1>2
  <2>4. ListTypeOK'
    BY <1>0, <1>2, <1>6, <1>8, <2>2 DEF ListTypeOK
  <2> QED  BY <1>0, <1>2, <1>6, <1>8, <2>3, <2>4 DEF ListShape
<1>11. ASSUME NEW x \in Listed,
              Cardinality(Ahead(x)) >= from, Cardinality(Ahead(x)) < from + size
       PROVE  WasShown(x)'
  <2>1. PICK i \in 1 .. n : s[i] = x /\ Cardinality(Ahead(x)) = i - 1
    BY <1>4, <1>5
  <2> DEFINE j == Len(shown) + (i - from)
  <2>2. j \in 1 .. Len(shown') /\ j > Len(shown) /\ from + (j - Len(shown)) = i
    BY <2>1, <1>1, <1>6, <1>11
  <2>3. shown'[j] = x
    BY <2>1, <2>2, <1>6
  <2> QED  BY <2>2, <2>3, <1>6 DEF WasShown
<1>12. ASSUME NEW x, WasShown(x) PROVE WasShown(x)'
  <2>1. PICK i \in 1 .. Len(shown) : shown[i] = x
    BY <1>6, <1>12 DEF WasShown
  <2>2. i \in DOMAIN shown' /\ shown'[i] = x
    BY <2>1, <1>6, <1>1
  <2> QED  BY <2>2 DEF WasShown
<1>13. ASSUME NEW x \in Missing' PROVE x \in Missing /\ x \in Listed
  BY <1>9, <1>12, <1>13 DEF Missing, Untouched
<1>14. ASSUME NEW x \in Missing', Cardinality(Ahead(x)) < from + size PROVE x \in Skipped
  <2>1. Cardinality(Ahead(x)) \in Nat
    BY <1>0, <1>13, AheadFinite
  <2>2. ~WasShown(x)'
    BY <1>14 DEF Missing
  <2>3. Cardinality(Ahead(x)) < from
    BY <1>1, <1>11, <1>13, <1>14, <2>1, <2>2
  <2> QED  BY <1>13, <2>3 DEF Skipped, from
<1>15. ASSUME NEW S, S \subseteq Skipped PROVE Cardinality(S) <= left
  <2>1. Cardinality(S) <= Cardinality(Skipped) /\ Cardinality(S) \in Nat
    BY <1>15, MissingFinite, FS_Subset, FS_CardinalityType
  <2>2. Cardinality(Skipped) <= left /\ left \in Nat
    BY <1>0, <1>2 DEF RecordsInv, FewAreSkipped, ListTypeOK
  <2> QED  BY <2>1, <2>2, MissingFinite
<1>17. FewAreSkipped'
  <2> SUFFICES ASSUME pc' = "count" PROVE Cardinality(Skipped') <= left
    BY <1>2, <1>8 DEF FewAreSkipped
  <2>1. (page' - 1) * size' = from + size
    BY <1>1, <1>2, <1>7
  <2>2. Skipped' \subseteq Skipped
    BY <1>9, <1>14, <2>1 DEF Skipped
  <2> QED  BY <1>15, <2>2
<1>18. FewAreMissed'
  <2> SUFFICES ASSUME pc' = "done", ~grown' PROVE Cardinality(Missing') <= left
    BY <1>2 DEF FewAreMissed
  <2>0. ~ n > total
    BY <1>2
  <2>1. n <= from + size
    BY <1>1, <1>7, <2>0
  <2>2. ASSUME NEW x \in Missing' PROVE x \in Skipped
    <3>1. Cardinality(Ahead(x)) \in Nat /\ Cardinality(Ahead(x)) < n
      BY <1>0, <1>13, <2>2, AheadFinite DEF n
    <3> QED  BY <1>1, <1>14, <2>1, <2>2, <3>1
  <2> QED  BY <1>15, <2>2
<1>16. ShownIsPrefix'
  <2> SUFFICES ASSUME calm PROVE ShownIsPrefix'
    BY <1>2 DEF ShownIsPrefix
  <2>1. /\ Len(shown) = from /\ from <= n /\ total = n
        /\ \A i \in DOMAIN shown : shown[i] \in Listed /\ Cardinality(Ahead(shown[i])) = i - 1
    BY <1>2 DEF RecordsInv, ShownIsPrefix, from, n
  <2>2. Len(shown') = (IF from + size <= n THEN from + size ELSE n) /\ Len(shown') <= n
    BY <1>1, <1>6, <2>1
  <2>3. ASSUME NEW i \in DOMAIN shown'
        PROVE  shown'[i] \in Listed /\ Cardinality(Ahead(shown'[i])) = i - 1
    <3>0. i \in 1 .. Len(shown')
      BY <1>6
    <3>1. i \in 1 .. Len(shown') /\ i \in 1 .. n
      BY <1>1, <2>2, <3>0
    <3>2. CASE i <= Len(shown)
      BY <1>6, <2>1, <3>1, <3>2
    <3>3. CASE i > Len(shown)
      <4>1. from + (i - Len(shown)) = i
        BY <1>1, <2>1, <3>1
      <4>2. shown'[i] = s[i]
        BY <1>6, <3>1, <3>3, <4>1
      <4> QED  BY <4>2, <3>1, <1>5
    <3> QED  BY <3>1, <3>2, <3>3, <1>6
  <2>4. pc' = "count" => Len(shown') = (page' - 1) * size
    BY <1>1, <1>7, <2>1, <2>2
  <2>5. pc' = "done" => Len(shown') = n
    BY <1>1, <1>7, <2>1, <2>2
  <2> QED  BY <1>2, <1>8, <1>9, <2>1, <2>2, <2>3, <2>4, <2>5 DEF ShownIsPrefix, n
<1> QED  BY <1>10, <1>16, <1>17, <1>18 DEF RecordsInv

LEMMA RecordsStep == RecordsInv /\ [ListNext]_listVars => RecordsInv'
<1> SUFFICES ASSUME RecordsInv, [ListNext]_listVars PROVE RecordsInv'
  OBVIOUS
<1>1. ASSUME NEW id \in Ids, CreateRecord(id) \/ ChangeRecord(id) \/ DeleteRecord(id)
      PROVE  RecordsInv'
  BY <1>1, RecordsKeptByWrite DEF Writing
<1>2. CASE UNCHANGED listVars
  <2>1. UNCHANGED <<rows, now, writes, pc, size, page, total, shown, start, calm, left, grown>>
    BY <1>2 DEF listVars, table, history
  <2>2. /\ Listed' = Listed /\ UpdatedLater' = UpdatedLater
        /\ Missing' = Missing
    BY <2>1 DEF Listed, UpdatedLater, Missing, WasShown, Untouched
  <2>3. ListShape'
    BY <2>1 DEF RecordsInv, ListShape, ListTypeOK
  <2> QED
    BY <2>1, <2>2, <2>3 DEF RecordsInv, FewAreSkipped, FewAreMissed, ShownIsPrefix,
      Skipped, Ahead
<1> QED
  BY <1>1, <1>2, RecordsKeptByTick, RecordsKeptByStart, RecordsKeptByCount, RecordsKeptByFind
  DEF ListNext

LEMMA RecordsInvariant == ListSpec => []RecordsInv
BY RecordsInit, RecordsStep, PTL DEF ListSpec

\* The reader of a record list always holds values of their types: in
\* particular it never asks for a page beyond the last that it knows of.
THEOREM ListTypeCorrect == ListSpec => []ListTypeOK
<1>1. RecordsInv => ListTypeOK
  BY DEF RecordsInv, ListShape
<1> QED  BY <1>1, RecordsInvariant, PTL

\* Of the records that nobody touched, a reader misses at most as many as left
\* the list meanwhile, unless the list grew at what was taken for the last page.
THEOREM RecordsMissedOnlyForAReason == ListSpec => []RecordsMissedForAReason
<1>1. RecordsInv => RecordsMissedForAReason
  <2> SUFFICES ASSUME RecordsInv, pc = "done", ~grown
               PROVE  RecordsMissedForAReason
    BY DEF RecordsMissedForAReason
  <2> DEFINE missed == {id \in Listed : <<id, rows[id].version>> \in start /\ TimesShown(id) = 0}
  <2>1. missed \subseteq Missing
    <3> SUFFICES ASSUME NEW id \in missed PROVE ~WasShown(id)
      BY DEF Missing, Untouched, Listed
    <3>1. shown \in Seq(Ids) /\ TimesShown(id) = 0
      BY DEF RecordsInv, ListShape
    <3> QED  BY <3>1, OccursCounted DEF WasShown, TimesShown
  <2>2. Cardinality(missed) <= Cardinality(Missing) /\ Cardinality(missed) \in Nat
    BY <2>1, MissingFinite, FS_Subset, FS_CardinalityType
  <2>3. Cardinality(Missing) <= left /\ left \in Nat
    BY DEF RecordsInv, FewAreMissed, ListShape, ListTypeOK
  <2> QED  BY <2>2, <2>3, MissingFinite DEF RecordsMissedForAReason
<1> QED  BY <1>1, RecordsInvariant, PTL

\* While nobody writes, the pages show each record of the list once.
THEOREM QuietPagesPartition == ListSpec => []QuietWalkShowsOnce
<1>1. RecordsInv => QuietWalkShowsOnce
  <2> SUFFICES ASSUME RecordsInv, pc = "done", calm, NEW id \in Listed
               PROVE  total = Cardinality(Listed) /\ TimesShown(id) = 1
    BY DEF QuietWalkShowsOnce, RecordsInv, ShownIsPrefix
  <2> DEFINE n == Cardinality(Listed)
  <2>1. /\ Len(shown) = n /\ total = n /\ n \in Nat /\ shown \in Seq(Ids)
        /\ DOMAIN shown = 1 .. n
        /\ \A i \in 1 .. n : shown[i] \in Listed /\ Cardinality(Ahead(shown[i])) = i - 1
    BY ListedFinite DEF RecordsInv, ShownIsPrefix, ListShape
  <2> HIDE DEF n
  <2>2. \A i, j \in 1 .. n : shown[i] = shown[j] => i = j
    BY <2>1
  <2>3. shown \in [1 .. n -> Listed]
    BY <2>1
  <2>4. shown \in Injection(1 .. n, Listed)
    BY <2>2, <2>3, Fun_IsInj
  <2>5. IsFiniteSet(1 .. n) /\ Cardinality(1 .. n) = n
    BY <2>1, FS_Interval
  <2>6. shown \in Surjection(1 .. n, Listed)
    BY <2>4, <2>5, ListedFinite, FS_Injection DEF n
  <2>7. PICK i \in 1 .. n : shown[i] = id
    BY <2>6 DEF Surjection
  <2>8. {j \in DOMAIN shown : shown[j] = id} = {i}
    BY <2>1, <2>2, <2>7
  <2> QED  BY <2>1, <2>8, FS_Singleton DEF TimesShown, n
<1> QED  BY <1>1, RecordsInvariant, PTL

-----------------------------------------------------------------------------
(* The pages of the audit log.                                             *)

\* The rows of the log that come before a row in every order.
Later(key) == Above(DOMAIN log, LoggedLater, key)

\* Another row has the same stamp.
Tied(key) == \E other \in DOMAIN log \ {key} : log[other].stamp = log[key].stamp

WasSeen(key) == \E i \in DOMAIN seen : seen[i] = key

\* Types, and the changes that are on their way to the log.
AuditShape ==
  /\ AuditTypeOK
  /\ log \in Seq(Entry)
  /\ seen \in Seq(DOMAIN log)
  /\ IsFiniteSet(open) /\ Cardinality(open) + Len(log) <= changes
  /\ \A c, d \in open : c.number = d.number => c = d
  /\ before \in 0 .. Len(log)
  /\ count <= Len(log)
  /\ at = "idle" => leaf = 1

\* The rows of a record that were in the log when it was changed again have
\* stamps no later than the change.
KnownEarlier ==
  /\ \A i \in DOMAIN log :
       /\ log[i].stamp <= clock
       /\ \A k \in log[i].known : k \in DOMAIN log /\ log[k].stamp <= log[i].stamp
  /\ \A c \in open :
       /\ c.entry.stamp <= clock
       /\ \A k \in c.entry.known : k \in DOMAIN log /\ log[k].stamp <= c.entry.stamp

\* A row that was not shown yet and has a stamp of its own is on a page to come.
NotSeenIsBehind ==
  at \in {"count", "find"} =>
    \A key \in 1 .. before :
      WasSeen(key) \/ Tied(key) \/ Cardinality(Later(key)) >= (leaf - 1) * told

CountedTransitions == {i \in Counted : log[i].action = "transition"}

Figures == [total : Nat, transitions : Nat,
            actions : [Actions -> Nat], entities : [Entities -> Nat]]

\* What a query returned is no more than what the log has by now.
FiguresLag ==
  /\ since \in Int
  /\ summary \in Figures
  /\ at \in {"transitions", "actions"} => summary.total <= Cardinality(Counted)
  /\ at = "actions" => summary.transitions <= Cardinality(CountedTransitions)
  /\ at = "entities" =>
       /\ summary.total <= Sum(summary.actions)
       /\ summary.transitions <= summary.actions["transition"]
       /\ Sum(summary.actions) \in Nat /\ Sum(summary.actions) <= Cardinality(Counted)

AuditsInv ==
  /\ AuditShape /\ KnownEarlier
  /\ NotSeenIsBehind /\ AuditsMissedForAReason
  /\ FiguresLag /\ SummaryOnlyGrows

LEMMA LogFinite ==
  ASSUME log \in Seq(Entry)
  PROVE  /\ DOMAIN log = 1 .. Len(log) /\ Len(log) \in Nat
         /\ IsFiniteSet(DOMAIN log) /\ Cardinality(DOMAIN log) = Len(log)
         /\ \A i \in DOMAIN log : /\ log[i] \in Entry /\ log[i].stamp \in Nat
                                  /\ log[i].action \in Actions /\ log[i].entity \in Entities
<1>1. DOMAIN log = 1 .. Len(log) /\ Len(log) \in Nat /\ \A i \in DOMAIN log : log[i] \in Entry
  OBVIOUS
<1>2. \A e \in Entry : e.stamp \in Nat /\ e.action \in Actions /\ e.entity \in Entities
  BY AuditBoundsAssumption DEF Entry
<1>3. IsFiniteSet(1 .. Len(log)) /\ Cardinality(1 .. Len(log)) = Len(log)
  BY <1>1, FS_Interval
<1> QED  BY <1>1, <1>2, <1>3

LEMMA LaterFinite ==
  ASSUME log \in Seq(Entry), NEW key \in DOMAIN log
  PROVE  Cardinality(Later(key)) \in Nat /\ Cardinality(Later(key)) < Len(log)
<1>1. Later(key) \subseteq DOMAIN log /\ key \notin Later(key)
  BY LogFinite DEF Later, Above, LoggedLater
<1> QED  BY <1>1, LogFinite, FS_Subset, FS_CardinalityType

LEMMA CountedFinite ==
  ASSUME log \in Seq(Entry)
  PROVE  IsFiniteSet(Counted) /\ Cardinality(Counted) \in Nat
         /\ IsFiniteSet(CountedTransitions) /\ Cardinality(CountedTransitions) \in Nat
BY LogFinite, FS_Subset, FS_CardinalityType DEF Counted, CountedTransitions

\* The position of a row that has its stamp for itself.
LEMMA PositionInLog ==
  ASSUME log \in Seq(Entry), NEW s \in Orders(DOMAIN log, LoggedLater),
         NEW p \in 1 .. Len(log), ~Tied(s[p])
  PROVE  s[p] \in DOMAIN log /\ Cardinality(Later(s[p])) = p - 1
<1>1. p \in 1 .. Cardinality(DOMAIN log) /\ s[p] \in DOMAIN log
  BY OrderIsBijection, LogFinite
<1>2. <<s[p], s[p]>> \notin LoggedLater
  BY <1>1, LogFinite DEF LoggedLater
<1>3. \A y \in DOMAIN log \ {s[p]} : <<y, s[p]>> \in LoggedLater \/ <<s[p], y>> \in LoggedLater
  BY <1>1, LogFinite DEF LoggedLater, Tied
<1>4. Cardinality(Later(s[p])) <= p - 1
  BY <1>1, <1>2, LogFinite, AboveFitsBefore DEF Later
<1>5. Cardinality(Later(s[p])) >= p - 1
  BY <1>1, <1>3, LogFinite, BeforeIsAbove DEF Later
<1>6. Cardinality(Later(s[p])) \in Nat
  BY <1>1, LaterFinite
<1> QED  BY <1>1, <1>4, <1>5, <1>6

\* The log may have grown.
Grows == log' \in Seq(Entry) /\ \A i \in DOMAIN log : i \in DOMAIN log' /\ log'[i] = log[i]

\* What is above a row stays above it, and what is counted stays counted.
LEMMA GrowsOnly ==
  ASSUME log \in Seq(Entry), Grows
  PROVE  /\ Len(log) <= Len(log')
         /\ \A key \in DOMAIN log :
              /\ Cardinality(Later(key)) <= Cardinality(Later(key)')
              /\ Tied(key) => Tied(key)'
         /\ since' = since =>
              /\ Cardinality(Counted) <= Cardinality(Counted')
              /\ Cardinality(CountedTransitions) <= Cardinality(CountedTransitions')
<1>0. /\ DOMAIN log = 1 .. Len(log) /\ Len(log) \in Nat
      /\ DOMAIN log' = 1 .. Len(log') /\ Len(log') \in Nat
      /\ IsFiniteSet(DOMAIN log')
  BY FS_Interval DEF Grows
<1>1. Len(log) <= Len(log')
  <2>1. Len(log) = 0 \/ Len(log) \in DOMAIN log'
    BY <1>0 DEF Grows
  <2> QED  BY <1>0, <2>1
<1>2. ASSUME NEW key \in DOMAIN log
      PROVE  Cardinality(Later(key)) <= Cardinality(Later(key)') /\ (Tied(key) => Tied(key)')
  <2>1. Later(key) \subseteq Later(key)' /\ Later(key)' \subseteq DOMAIN log'
    BY DEF Later, Above, LoggedLater, Grows
  <2>2. Tied(key) => Tied(key)'
    BY DEF Tied, Grows
  <2>3. IsFiniteSet(Later(key)')
    BY <1>0, <2>1, FS_Subset
  <2> QED  BY <2>1, <2>2, <2>3, FS_Subset
<1>3. ASSUME since' = since
      PROVE  /\ Cardinality(Counted) <= Cardinality(Counted')
             /\ Cardinality(CountedTransitions) <= Cardinality(CountedTransitions')
  <2>1. /\ Counted \subseteq Counted' /\ Counted' \subseteq DOMAIN log'
        /\ CountedTransitions \subseteq CountedTransitions'
        /\ CountedTransitions' \subseteq DOMAIN log'
    BY <1>3 DEF Counted, CountedTransitions, Since, Grows
  <2>2. IsFiniteSet(Counted') /\ IsFiniteSet(CountedTransitions')
    BY <1>0, <2>1, FS_Subset
  <2> QED  BY <2>1, <2>2, FS_Subset
<1> QED  BY <1>1, <1>2, <1>3

\* Counted by groups, the members of a set are as many as the set has.
LEMMA GroupsAddUp ==
  ASSUME NEW C, IsFiniteSet(C), NEW G, NEW g \in [C -> G]
  PROVE  Sum([x \in G |-> Cardinality({i \in C : g[i] = x})]) = Cardinality(C)
<1> DEFINE Of(x) == {i \in C : g[i] = x}
           figures == [x \in G |-> Cardinality(Of(x))]
           Units == UNION {{x} \X (1 .. figures[x]) : x \in G}
           b == [x \in G |-> CHOOSE f : f \in Bijection(1 .. Cardinality(Of(x)), Of(x))]
           h == [u \in Units |-> b[u[1]][u[2]]]
<1>1. \A x \in G : b[x] \in Bijection(1 .. Cardinality(Of(x)), Of(x))
  <2> SUFFICES ASSUME NEW x \in G
               PROVE  \E f : f \in Bijection(1 .. Cardinality(Of(x)), Of(x))
    OBVIOUS
  <2>1. IsFiniteSet(Of(x))
    BY FS_Subset
  <2> HIDE DEF Of
  <2> QED  BY <2>1, FS_CardinalityType DEF ExistsBijection
<1> HIDE DEF b
<1>2. /\ \A u \in Units : u[1] \in G /\ u[2] \in 1 .. Cardinality(Of(u[1])) /\ u = <<u[1], u[2]>>
      /\ \A x \in G : \A n \in 1 .. Cardinality(Of(x)) : <<x, n>> \in Units
  <2>1. ASSUME NEW u \in Units
        PROVE  u[1] \in G /\ u[2] \in 1 .. Cardinality(Of(u[1])) /\ u = <<u[1], u[2]>>
    <3>1. PICK x \in G : u \in {x} \X (1 .. Cardinality(Of(x)))
      BY <2>1
    <3> HIDE DEF Units, Of
    <3> QED  BY <3>1
  <2>2. ASSUME NEW x \in G, NEW n \in 1 .. Cardinality(Of(x)) PROVE <<x, n>> \in Units
    <3>1. <<x, n>> \in {x} \X (1 .. figures[x])
      OBVIOUS
    <3> HIDE DEF figures
    <3> QED  BY <3>1
  <2> QED  BY <2>1, <2>2
<1> HIDE DEF Units
<1>3. ASSUME NEW x \in G
      PROVE  /\ \A n \in 1 .. Cardinality(Of(x)) : b[x][n] \in C /\ g[b[x][n]] = x
             /\ \A m, n \in 1 .. Cardinality(Of(x)) : b[x][m] = b[x][n] => m = n
             /\ \A i \in Of(x) : \E n \in 1 .. Cardinality(Of(x)) : b[x][n] = i
  <2> DEFINE c == 1 .. Cardinality(Of(x))
             f == b[x]
  <2>1. f \in Bijection(c, Of(x))
    BY <1>1
  <2>2. \A i \in Of(x) : i \in C /\ g[i] = x
    OBVIOUS
  <2> HIDE DEF c, Of, f
  <2>3. /\ f \in [c -> Of(x)]
        /\ \A m, n \in c : f[m] = f[n] => m = n
        /\ \A i \in Of(x) : \E n \in c : f[n] = i
    BY <2>1, Fun_BijectionProperties
  <2>4. /\ \A n \in c : f[n] \in C /\ g[f[n]] = x
    BY <2>2, <2>3
  <2> QED  BY <2>3, <2>4 DEF c, f
<1>4. h \in [Units -> C] /\ \A u, v \in Units : h[u] = h[v] => u = v
  <2> HIDE DEF Of
  <2>1. \A u \in Units : h[u] = b[u[1]][u[2]] /\ h[u] \in C /\ g[h[u]] = u[1]
    BY <1>2, <1>3
  <2>2. h \in [Units -> C]
    BY <2>1
  <2>3. ASSUME NEW u \in Units, NEW v \in Units, h[u] = h[v] PROVE u = v
    <3>1. u[1] = v[1] /\ b[u[1]][u[2]] = b[u[1]][v[2]]
      BY <2>1, <2>3
    <3>2. u[2] = v[2]
      BY <1>2, <1>3, <3>1
    <3> QED  BY <1>2, <3>1, <3>2
  <2> QED  BY <2>2, <2>3
<1>5. \A i \in C : \E u \in Units : h[u] = i
  <2> SUFFICES ASSUME NEW i \in C PROVE \E u \in Units : h[u] = i
    OBVIOUS
  <2>1. g[i] \in G /\ i \in Of(g[i])
    OBVIOUS
  <2>2. PICK n \in 1 .. Cardinality(Of(g[i])) : b[g[i]][n] = i
    BY <1>3, <2>1
  <2>3. <<g[i], n>> \in Units
    BY <1>2, <2>1
  <2> QED  BY <2>2, <2>3
<1>6. h \in Injection(Units, C) /\ h \in Surjection(Units, C)
  BY <1>4, <1>5, Fun_IsInj, Fun_IsSurj
<1>7. Cardinality(Units) = Cardinality(C)
  BY <1>6, FS_Injection
<1>8. Sum(figures) = Cardinality(Units)
  BY DEF Sum, Units
<1> QED  BY <1>7, <1>8

-----------------------------------------------------------------------------
(* The invariant of the audit log.                                         *)

LEMMA AuditsInit == AuditInit => AuditsInv
<1> SUFFICES ASSUME AuditInit PROVE AuditsInv
  OBVIOUS
<1>1. /\ log = <<>> /\ DOMAIN log = {} /\ Len(log) = 0 /\ log \in Seq(Entry)
      /\ seen = <<>> /\ DOMAIN seen = {} /\ seen \in Seq(DOMAIN log)
      /\ open = {} /\ IsFiniteSet(open) /\ Cardinality(open) = 0
      /\ clock = 0 /\ changes = 0 /\ at = "idle" /\ leaf = 1 /\ count = 0 /\ before = 0
      /\ since = 0
  BY FS_EmptySet DEF AuditInit
<1>2. told \in 1 .. MaxSize /\ told \in Nat \ {0}
  BY SizesAssumption DEF AuditInit
<1>3. leaf \in 1 .. Pages(MaxChanges, told)
  BY <1>1, <1>2, AuditBoundsAssumption, PagesHoldTotal
<1>4. AuditTypeOK
  BY <1>1, <1>2, <1>3, AuditBoundsAssumption DEF AuditTypeOK
<1>5. AuditShape
  BY <1>1, <1>4 DEF AuditShape
<1>6. summary \in Figures
  BY DEF AuditInit, NoFigures, Figures
<1> QED
  BY <1>1, <1>5, <1>6 DEF AuditsInv, KnownEarlier, NotSeenIsBehind, AuditsMissedForAReason,
    FiguresLag, SummaryOnlyGrows

LEMMA LeafIsNat ==
  ASSUME AuditTypeOK
  PROVE  /\ leaf \in Nat \ {0} /\ told \in Nat \ {0} /\ normalizePage(told) = told
         /\ (leaf - 1) * told \in Nat /\ leaf * told \in Nat
         /\ (leaf - 1) * told + told = leaf * told
<1>1. leaf \in Nat \ {0} /\ told \in Nat \ {0}
  BY SizesAssumption, AuditBoundsAssumption, PagesHoldTotal DEF AuditTypeOK
<1>2. leaf - 1 \in Nat
  BY <1>1
<1>3. normalizePage(told) = told
  BY SizesAgree DEF AuditTypeOK
<1> QED  BY <1>1, <1>2, <1>3

\* There is a number left for one more change.
LEMMA NumberLeft ==
  ASSUME AuditShape, changes < MaxChanges
  PROVE  \E n \in 1 .. MaxChanges : \A c \in open : c.number # n
<1> SUFFICES ASSUME \A n \in 1 .. MaxChanges : \E c \in open : c.number = n
             PROVE  FALSE
  OBVIOUS
<1> DEFINE f == [n \in 1 .. MaxChanges |-> CHOOSE c \in open : c.number = n]
<1>1. \A n \in 1 .. MaxChanges : f[n] \in open /\ f[n].number = n
  OBVIOUS
<1>2. f \in Injection(1 .. MaxChanges, open)
  <2>1. f \in [1 .. MaxChanges -> open] /\ \A m, n \in 1 .. MaxChanges : f[m] = f[n] => m = n
    <3>1. f \in [1 .. MaxChanges -> open]
      BY <1>1
    <3> HIDE DEF f
    <3> QED  BY <1>1, <3>1
  <2> HIDE DEF f
  <2> QED  BY <2>1, Fun_IsInj
<1> HIDE DEF f
<1>3. Cardinality(1 .. MaxChanges) = MaxChanges
  BY AuditBoundsAssumption, FS_Interval
<1>4. IsFiniteSet(open) /\ Cardinality(open) \in Nat /\ Cardinality(open) <= changes
      /\ changes \in Nat
  <2>1. IsFiniteSet(open) /\ Cardinality(open) + Len(log) <= changes /\ log \in Seq(Entry)
        /\ changes \in Nat
    BY DEF AuditShape, AuditTypeOK
  <2> QED  BY <2>1, LogFinite, FS_CardinalityType
<1>5. MaxChanges <= Cardinality(open)
  BY <1>2, <1>3, <1>4, FS_Injection
<1> QED  BY <1>4, <1>5, AuditBoundsAssumption

\* A change is not in the log yet, and knows what is.
LEMMA AuditsKeptByChange ==
  ASSUME AuditsInv, NEW entity \in Entities, NEW action \in Actions, Change(entity, action)
  PROVE  AuditsInv'
<1> DEFINE entry == [entity |-> entity, action |-> action, stamp |-> clock,
                     known |-> KeysOf(entity)]
           number == CHOOSE n \in 1 .. MaxChanges : \A c \in open : c.number # n
           new == [number |-> number, entry |-> entry]
<1>0. AuditShape /\ AuditTypeOK /\ KnownEarlier
  BY DEF AuditsInv, AuditShape
<1>1. /\ changes < MaxChanges /\ changes' = changes + 1
      /\ open' = open \cup {new}
      /\ UNCHANGED <<log, clock, at, told, leaf, count, seen, before, longer, since, summary>>
  BY DEF Change, pages
<1>2. number \in 1 .. MaxChanges /\ \A c \in open : c.number # number
  BY <1>0, <1>1, NumberLeft
<1>3. /\ log \in Seq(Entry) /\ Len(log) \in Nat /\ DOMAIN log = 1 .. Len(log)
      /\ clock \in 0 .. MaxStamp /\ changes \in Nat
      /\ IsFiniteSet(open) /\ Cardinality(open) \in Nat
      /\ Cardinality(open) + Len(log) <= changes
  BY <1>0, LogFinite, FS_CardinalityType DEF AuditShape, AuditTypeOK
<1>4. KeysOf(entity) \subseteq DOMAIN log /\ KeysOf(entity) \subseteq 1 .. MaxChanges
  BY <1>1, <1>3, AuditBoundsAssumption DEF KeysOf
<1>5. entry \in Entry
  BY <1>3, <1>4 DEF Entry
<1>6. new \in Open /\ new.number = number /\ new.entry = entry
  BY <1>2, <1>5 DEF Open
<1>7. entry.stamp = clock /\ entry.known = KeysOf(entity)
  OBVIOUS
<1> HIDE DEF number, entry, new
<1>8. IsFiniteSet(open') /\ Cardinality(open') = Cardinality(open) + 1
  BY <1>1, <1>2, <1>3, <1>6, FS_AddElement
<1>9. AuditTypeOK'
  BY <1>0, <1>1, <1>3, <1>6, AuditBoundsAssumption DEF AuditTypeOK
<1>10. \A c, d \in open' : c.number = d.number => c = d
  BY <1>0, <1>1, <1>2, <1>6 DEF AuditShape
<1>11. AuditShape'
  BY <1>0, <1>1, <1>3, <1>8, <1>9, <1>10 DEF AuditShape
<1>12. KnownEarlier'
  <2>1. \A k \in KeysOf(entity) : k \in DOMAIN log /\ log[k].stamp <= clock
    BY <1>0, <1>4 DEF KnownEarlier
  <2>2. new.entry.stamp <= clock
        /\ \A k \in new.entry.known : k \in DOMAIN log /\ log[k].stamp <= new.entry.stamp
    BY <1>3, <1>6, <1>7, <2>1
  <2> QED  BY <1>0, <1>1, <2>2 DEF KnownEarlier
<1>13. /\ LoggedLater' = LoggedLater /\ Counted' = Counted
       /\ CountedTransitions' = CountedTransitions
  BY <1>1 DEF LoggedLater, Counted, CountedTransitions, Since
<1> QED
  BY <1>1, <1>11, <1>12, <1>13 DEF AuditsInv, NotSeenIsBehind, AuditsMissedForAReason, FiguresLag,
    SummaryOnlyGrows, WasSeen, Tied, Later

\* A row that is appended, whatever its stamp, hides no row and takes nothing
\* off the figures.
LEMMA AuditsKeptByAppend ==
  ASSUME AuditsInv, NEW c \in open, AppendAudit(c)
  PROVE  AuditsInv'
<1>0. AuditShape /\ AuditTypeOK /\ KnownEarlier
  BY DEF AuditsInv, AuditShape
<1>1. /\ open' = open \ {c}
      /\ UNCHANGED <<clock, changes, at, told, leaf, count, seen, before, longer, since, summary>>
  BY DEF AppendAudit, pages
<1>2. PICK stamp \in c.entry.stamp .. clock :
        log' = Append(log, [c.entry EXCEPT !.stamp = stamp])
  BY DEF AppendAudit
<1> DEFINE row == [c.entry EXCEPT !.stamp = stamp]
<1>3. /\ c.entry \in Entry /\ c.entry.stamp \in Nat /\ c.entry.stamp <= clock
      /\ clock \in 0 .. MaxStamp /\ clock \in Nat /\ stamp \in 0 .. MaxStamp
      /\ c.entry.stamp <= stamp /\ stamp <= clock
  <2>1. c \in Open /\ clock \in 0 .. MaxStamp /\ c.entry.stamp <= clock
    BY <1>0 DEF AuditTypeOK, KnownEarlier
  <2>2. c.entry \in Entry
    BY <2>1 DEF Open
  <2>3. c.entry.stamp \in 0 .. MaxStamp
    BY <2>2 DEF Entry
  <2> QED  BY <2>1, <2>2, <2>3, AuditBoundsAssumption
<1>4. row \in Entry /\ row.stamp = stamp /\ row.known = c.entry.known
  BY <1>3 DEF Entry
<1> HIDE DEF row
<1>5. /\ log \in Seq(Entry) /\ Len(log) \in Nat /\ DOMAIN log = 1 .. Len(log)
      /\ IsFiniteSet(open) /\ Cardinality(open) \in Nat /\ changes \in Nat
      /\ Cardinality(open) + Len(log) <= changes
      /\ \A i \in DOMAIN log : log[i].stamp \in Nat
  BY <1>0, LogFinite, FS_CardinalityType DEF AuditShape, AuditTypeOK
<1>6. /\ log' \in Seq(Entry) /\ Len(log') = Len(log) + 1
      /\ \A i \in 1 .. Len(log) : log'[i] = log[i]
      /\ log'[Len(log) + 1] = row
  BY <1>2, <1>4, <1>5, AppendProperties DEF row
<1>7. DOMAIN log' = 1 .. Len(log) + 1 /\ \A i \in DOMAIN log' : log'[i] \in Entry
  BY <1>6
<1>8. Grows
  BY <1>5, <1>6, <1>7 DEF Grows
<1>9. IsFiniteSet(open') /\ Cardinality(open') = Cardinality(open) - 1
  BY <1>1, <1>5, FS_RemoveElement
<1>10. seen \in Seq(DOMAIN log')
  <2>1. seen \in Seq(DOMAIN log) /\ DOMAIN log \subseteq DOMAIN log'
    BY <1>0, <1>5, <1>7 DEF AuditShape
  <2> QED  BY <2>1
<1>11. AuditTypeOK'
  BY <1>0, <1>1, <1>7, <1>10 DEF AuditTypeOK
<1>12. AuditShape'
  <2>1. before \in 0 .. Len(log) /\ count <= Len(log) /\ count \in Nat
    BY <1>0, AuditBoundsAssumption DEF AuditShape, AuditTypeOK
  <2>2. before' \in 0 .. Len(log') /\ count' <= Len(log')
        /\ Cardinality(open') + Len(log') <= changes'
    BY <2>1, <1>1, <1>5, <1>6, <1>9
  <2>3. \A d, e \in open' : d.number = e.number => d = e
    BY <1>0, <1>1 DEF AuditShape
  <2> QED  BY <1>0, <1>1, <1>6, <1>9, <1>10, <1>11, <2>2, <2>3 DEF AuditShape
<1>13. KnownEarlier'
  <2>1. ASSUME NEW i \in DOMAIN log'
        PROVE  /\ log'[i].stamp <= clock
               /\ \A k \in log'[i].known : k \in DOMAIN log' /\ log'[k].stamp <= log'[i].stamp
    <3>1. CASE i \in DOMAIN log
      BY <1>0, <1>8, <3>1 DEF KnownEarlier, Grows
    <3>2. CASE i = Len(log) + 1
      <4>1. log'[i].stamp = stamp /\ log'[i].known = c.entry.known
        BY <1>4, <1>6, <3>2
      <4>2. \A k \in c.entry.known :
              /\ k \in DOMAIN log /\ log[k].stamp \in Nat /\ log[k].stamp <= c.entry.stamp
              /\ k \in DOMAIN log' /\ log'[k] = log[k]
        BY <1>0, <1>5, <1>8 DEF KnownEarlier, Grows
      <4> QED  BY <1>3, <4>1, <4>2
    <3> QED  BY <1>5, <1>7, <3>1, <3>2
  <2>2. \A d \in open' :
          /\ d.entry.stamp <= clock
          /\ \A k \in d.entry.known : k \in DOMAIN log' /\ log'[k].stamp <= d.entry.stamp
    BY <1>0, <1>1, <1>8 DEF KnownEarlier, Grows
  <2> QED  BY <1>1, <2>1, <2>2 DEF KnownEarlier
<1>14. ASSUME NEW key \in 1 .. before
       PROVE  /\ key \in DOMAIN log
              /\ Cardinality(Later(key)) \in Nat /\ Cardinality(Later(key)') \in Nat
              /\ Cardinality(Later(key)) <= Cardinality(Later(key)')
              /\ Tied(key) => Tied(key)'
              /\ WasSeen(key)' <=> WasSeen(key)
  <2>1. key \in DOMAIN log /\ key \in DOMAIN log'
    BY <1>0, <1>5, <1>7 DEF AuditShape
  <2>2. Cardinality(Later(key)) \in Nat
    BY <1>5, <2>1, LaterFinite
  <2>3. Cardinality(Later(key)') \in Nat
    <3>1. Later(key)' \subseteq DOMAIN log' /\ IsFiniteSet(DOMAIN log')
      BY <1>5, <1>7, FS_Interval DEF Later, Above
    <3> QED  BY <3>1, FS_Subset, FS_CardinalityType
  <2> QED  BY <1>1, <1>5, <1>8, <2>1, <2>2, <2>3, GrowsOnly DEF WasSeen
<1>15. NotSeenIsBehind'
  <2>1. (leaf - 1) * told \in Int
    BY <1>0, LeafIsNat
  <2> QED  BY <1>1, <1>14, <2>1 DEF AuditsInv, NotSeenIsBehind
<1>16. AuditsMissedForAReason'
  <2> SUFFICES ASSUME at = "walked", ~longer, NEW key \in 1 .. before
               PROVE  WasSeen(key)' \/ Tied(key)'
    BY <1>1 DEF AuditsMissedForAReason, WasSeen, Tied
  <2>1. WasSeen(key) \/ Tied(key)
    BY DEF AuditsInv, AuditsMissedForAReason, WasSeen, Tied
  <2> QED  BY <1>14, <2>1
<1>17. FiguresLag'
  <2>1. /\ Cardinality(Counted) <= Cardinality(Counted')
        /\ Cardinality(CountedTransitions) <= Cardinality(CountedTransitions')
    BY <1>1, <1>5, <1>8, GrowsOnly
  <2>2. /\ Cardinality(Counted) \in Nat /\ Cardinality(CountedTransitions) \in Nat
        /\ Cardinality(Counted') \in Nat /\ Cardinality(CountedTransitions') \in Nat
    <3>1. Counted' \subseteq DOMAIN log' /\ CountedTransitions' \subseteq Counted'
      BY DEF Counted, CountedTransitions
    <3>2. IsFiniteSet(DOMAIN log')
      <4>1. Len(log) + 1 \in Int /\ DOMAIN log' = 1 .. Len(log) + 1
        BY <1>5, <1>7
      <4> QED  BY <4>1, FS_Interval
    <3>3. IsFiniteSet(Counted') /\ IsFiniteSet(CountedTransitions')
      BY <3>1, <3>2, FS_Subset
    <3> QED  BY <1>5, <3>3, CountedFinite, FS_CardinalityType
  <2>3. summary \in Figures => summary.total \in Nat /\ summary.transitions \in Nat
    BY DEF Figures
  <2> QED  BY <1>1, <2>1, <2>2, <2>3 DEF AuditsInv, FiguresLag
<1>18. SummaryOnlyGrows'
  BY <1>1 DEF AuditsInv, SummaryOnlyGrows
<1> QED  BY <1>12, <1>13, <1>15, <1>16, <1>17, <1>18 DEF AuditsInv

\* The readers leave the log alone.
LEMMA LogLeftAlone ==
  ASSUME AuditsInv, UNCHANGED <<log, open, changes>>, clock' = clock \/ clock' = clock + 1
  PROVE  /\ KnownEarlier'
         /\ LoggedLater' = LoggedLater
         /\ \A key : Later(key)' = Later(key) /\ (Tied(key)' <=> Tied(key))
         /\ since' = since => Counted' = Counted /\ CountedTransitions' = CountedTransitions
<1>1. clock \in Int
  BY AuditBoundsAssumption DEF AuditsInv, AuditShape, AuditTypeOK
<1>2. /\ \A i \in DOMAIN log : log[i].stamp \in Int
      /\ \A c \in open : c.entry.stamp \in Int
  <2>1. \A c \in open : c.entry \in Entry
    BY DEF AuditsInv, AuditShape, AuditTypeOK, Open
  <2>2. \A e \in Entry : e.stamp \in Int
    BY DEF Entry
  <2> QED  BY <2>1, <2>2, LogFinite DEF AuditsInv, AuditShape
<1>3. KnownEarlier'
  BY <1>1, <1>2 DEF AuditsInv, KnownEarlier
<1> QED  BY <1>3 DEF LoggedLater, Later, Above, Tied, Counted, CountedTransitions, Since

LEMMA AuditsKeptByTick ==
  ASSUME AuditsInv, TickAudit
  PROVE  AuditsInv'
<1>1. /\ clock' = clock + 1 /\ clock < MaxStamp
      /\ UNCHANGED <<log, open, changes, at, told, leaf, count, seen, before, longer,
                     since, summary>>
  BY DEF TickAudit, pages
<1>2. AuditShape'
  BY <1>1, AuditBoundsAssumption DEF AuditsInv, AuditShape, AuditTypeOK
<1> QED
  BY <1>1, <1>2, LogLeftAlone DEF AuditsInv, NotSeenIsBehind, AuditsMissedForAReason, FiguresLag,
    SummaryOnlyGrows, WasSeen, Tied

LEMMA AuditsKeptByStartWalk ==
  ASSUME AuditsInv, StartWalk
  PROVE  AuditsInv'
<1>1. /\ at = "idle" /\ at' = "count" /\ before' = Len(log)
      /\ UNCHANGED <<log, open, clock, changes, leaf, count, seen, longer, since, summary>>
  BY DEF StartWalk, records
<1>2. told' \in 1 .. MaxSize /\ told' \in Nat \ {0}
  BY SizesAgree, SizesAssumption DEF StartWalk
<1>3. leaf = 1 /\ leaf \in 1 .. Pages(MaxChanges, told')
  BY <1>1, <1>2, AuditBoundsAssumption, PagesHoldTotal DEF AuditsInv, AuditShape
<1>4. AuditTypeOK'
  BY <1>1, <1>2, <1>3 DEF AuditsInv, AuditShape, AuditTypeOK
<1>5. AuditShape'
  BY <1>1, <1>4, LogFinite DEF AuditsInv, AuditShape
<1>6. NotSeenIsBehind'
  <2>1. (leaf' - 1) * told' = 0
    <3>1. leaf' - 1 = 0
      BY <1>1, <1>3
    <3>2. \A n \in Nat : 0 * n = 0
      OBVIOUS
    <3> QED  BY <3>1, <3>2, <1>2
  <2>2. \A key \in 1 .. before' : Cardinality(Later(key)') >= 0
    BY <1>1, LogLeftAlone, LogFinite, LaterFinite DEF AuditsInv, AuditShape
  <2> QED  BY <2>1, <2>2 DEF NotSeenIsBehind
<1> QED
  BY <1>1, <1>5, <1>6, LogLeftAlone DEF AuditsInv, AuditsMissedForAReason, FiguresLag,
    SummaryOnlyGrows

LEMMA AuditsKeptByCount ==
  ASSUME AuditsInv, CountAudits
  PROVE  AuditsInv'
<1>1. /\ at = "count" /\ at' = "find" /\ count' = Len(log)
      /\ UNCHANGED <<log, open, clock, changes, told, leaf, seen, before, longer, since, summary>>
  BY DEF CountAudits, records
<1>2. Len(log) \in 0 .. MaxChanges
  <2>1. /\ log \in Seq(Entry) /\ IsFiniteSet(open) /\ Cardinality(open) + Len(log) <= changes
        /\ changes \in 0 .. MaxChanges
    BY DEF AuditsInv, AuditShape, AuditTypeOK
  <2> QED  BY <2>1, LogFinite, FS_CardinalityType, AuditBoundsAssumption
<1>3. AuditShape'
  BY <1>1, <1>2 DEF AuditsInv, AuditShape, AuditTypeOK
<1> QED
  BY <1>1, <1>3, LogLeftAlone DEF AuditsInv, NotSeenIsBehind, AuditsMissedForAReason, FiguresLag,
    SummaryOnlyGrows, WasSeen

\* A page shows the rows that have a stamp of their own and as many rows above
\* them as the pages before have room for.
LEMMA AuditsKeptByFind ==
  ASSUME AuditsInv, FindAudits
  PROVE  AuditsInv'
<1> DEFINE from == (leaf - 1) * told
           last == Pages(count, told)
           n == Len(log)
<1>0. AuditShape /\ AuditTypeOK
  BY DEF AuditsInv, AuditShape
<1>1. /\ leaf \in Nat \ {0} /\ told \in Nat \ {0} /\ normalizePage(told) = told
      /\ from \in Nat /\ from + told = leaf * told
  BY <1>0, LeafIsNat
<1>2. /\ at = "find"
      /\ leaf' = NextPage(leaf, last)
      /\ at' = IF leaf >= last THEN "walked" ELSE "count"
      /\ UNCHANGED <<log, open, clock, changes, told, count, before, since, summary>>
      /\ longer' = (n > count)
  BY DEF FindAudits, records
<1>3. PICK s \in Orders(DOMAIN log, LoggedLater) : seen' = seen \o Slice(s, from, told)
  BY <1>1 DEF FindAudits, Offset
<1>4. /\ log \in Seq(Entry) /\ DOMAIN log = 1 .. n /\ n \in Nat
      /\ count \in Nat /\ count <= MaxChanges /\ before \in 0 .. n
  BY <1>0, LogFinite, AuditBoundsAssumption DEF AuditShape, AuditTypeOK
<1>5. /\ s \in Seq(DOMAIN log) /\ Len(s) = n
      /\ \A x \in DOMAIN log : \E i \in 1 .. n : s[i] = x
  <2>1. IsFiniteSet(DOMAIN log) /\ Cardinality(DOMAIN log) = n
    BY <1>4, LogFinite
  <2>2. /\ s \in Seq(DOMAIN log) /\ Len(s) = Cardinality(DOMAIN log)
        /\ \A x \in DOMAIN log : \E i \in 1 .. Cardinality(DOMAIN log) : s[i] = x
    BY <2>1, OrderIsBijection
  <2> QED  BY <2>1, <2>2
<1>6. last \in Nat \ {0} /\ (leaf >= last => count <= from + told)
  <2>1. /\ last \in Nat \ {0}
        /\ \A p \in Nat : p >= last => count <= p * told
    BY <1>1, <1>4, PagesHoldTotal
  <2> HIDE DEF from, last
  <2> QED  BY <1>1, <2>1
<1>7. last <= Pages(MaxChanges, told) /\ Pages(MaxChanges, told) \in Nat
  BY <1>1, <1>4, PagesMonotone, PagesHoldTotal, AuditBoundsAssumption
<1> HIDE DEF from, last, n
<1>8. leaf' \in 1 .. last /\ (leaf < last => leaf' = leaf + 1)
  BY <1>1, <1>2, <1>6, NextPageOf
<1>9. seen \in Seq(DOMAIN log) /\ seen' \in Seq(DOMAIN log) /\ ReadsOn(seen', seen, s, from, told)
  <2>1. seen \in Seq(DOMAIN log)
    BY <1>0 DEF AuditShape
  <2> QED  BY <1>1, <1>3, <1>5, <2>1, SliceAppended
<1>10. /\ Len(seen) \in Nat /\ Len(seen') \in Nat
       /\ DOMAIN seen = 1 .. Len(seen) /\ DOMAIN seen' = 1 .. Len(seen')
       /\ Len(seen') = Len(seen) + (IF from + told <= n THEN told
                                    ELSE IF from <= n THEN n - from ELSE 0)
       /\ \A i \in 1 .. Len(seen) : seen'[i] = seen[i]
       /\ \A i \in 1 .. Len(seen') : i > Len(seen) => seen'[i] = s[from + (i - Len(seen))]
  <2>1. \A t \in Seq(DOMAIN log) : Len(t) \in Nat /\ DOMAIN t = 1 .. Len(t)
    OBVIOUS
  <2> QED  BY <1>5, <1>9, <2>1 DEF ReadsOn
<1>11. AuditShape'
  <2>1. leaf' \in 1 .. Pages(MaxChanges, told')
    BY <1>2, <1>6, <1>7, <1>8
  <2>2. \A i \in DOMAIN seen' : seen'[i] \in DOMAIN log
    BY <1>9
  <2>3. AuditTypeOK'
    BY <1>0, <1>2, <2>1, <2>2 DEF AuditTypeOK
  <2>4. at' # "idle"
    BY <1>2
  <2> QED  BY <1>0, <1>2, <1>9, <2>3, <2>4 DEF AuditShape
<1>12. ASSUME NEW x, WasSeen(x) PROVE WasSeen(x)'
  <2>1. PICK i \in 1 .. Len(seen) : seen[i] = x
    BY <1>10, <1>12 DEF WasSeen
  <2>2. i \in DOMAIN seen' /\ seen'[i] = x
    BY <2>1, <1>10, <1>1, <1>4
  <2> QED  BY <2>2 DEF WasSeen
<1>13. ASSUME NEW key \in 1 .. before, ~Tied(key), ~WasSeen(key)'
       PROVE  /\ Cardinality(Later(key)) \in Nat
              /\ Cardinality(Later(key)) >= from + told /\ Cardinality(Later(key)) < n
  <2>1. key \in DOMAIN log
    BY <1>4
  <2>2. Cardinality(Later(key)) \in Nat /\ Cardinality(Later(key)) < n
    BY <1>4, <2>1, LaterFinite DEF n
  <2>3. Cardinality(Later(key)) >= from
    BY <1>2, <1>12, <1>13 DEF AuditsInv, NotSeenIsBehind, from
  <2>4. PICK i \in 1 .. n : s[i] = key
    BY <1>5, <2>1
  <2>5. Cardinality(Later(key)) = i - 1
    BY <1>4, <1>13, <2>4, PositionInLog DEF n
  <2>6. ASSUME i <= from + told PROVE FALSE
    <3> DEFINE j == Len(seen) + (i - from)
    <3>1. j \in 1 .. Len(seen') /\ j > Len(seen) /\ from + (j - Len(seen)) = i
      BY <1>1, <1>4, <1>10, <2>3, <2>4, <2>5, <2>6
    <3>2. j \in DOMAIN seen' /\ seen'[j] = key
      BY <1>10, <2>4, <3>1
    <3> QED  BY <1>13, <3>2 DEF WasSeen
  <2> QED  BY <1>1, <1>4, <2>2, <2>4, <2>5, <2>6
<1>14. NotSeenIsBehind'
  <2>0. UNCHANGED <<log, open, changes, clock, before, told>> /\ at' # "find"
    BY <1>2
  <2> SUFFICES ASSUME at' = "count", NEW key \in 1 .. before, ~WasSeen(key)', ~Tied(key)
               PROVE  Cardinality(Later(key)) >= (leaf' - 1) * told
    BY <2>0, LogLeftAlone DEF NotSeenIsBehind
  <2>1. leaf < last
    <3>1. ~ leaf >= last
      BY <1>2
    <3> QED  BY <3>1, <1>1, <1>6
  <2>2. (leaf' - 1) * told = from + told
    BY <1>1, <1>8, <2>1
  <2> QED  BY <2>2, <1>13
<1>15. AuditsMissedForAReason'
  <2> SUFFICES ASSUME at' = "walked", ~longer', NEW key \in 1 .. before, ~WasSeen(key)', ~Tied(key)
               PROVE  FALSE
    BY <1>2 DEF AuditsMissedForAReason, WasSeen, Tied
  <2>1. leaf >= last /\ ~ n > count
    BY <1>2
  <2> QED  BY <1>1, <1>4, <1>6, <1>13, <2>1
<1>16. FiguresLag' /\ SummaryOnlyGrows'
  BY <1>2, LogLeftAlone DEF AuditsInv, FiguresLag, SummaryOnlyGrows
<1> QED  BY <1>2, <1>11, <1>14, <1>15, <1>16, LogLeftAlone DEF AuditsInv

-----------------------------------------------------------------------------
(* The summary.                                                            *)

\* A step of the summary leaves the log and the pages alone.
LEMMA AuditsKeptBySummary ==
  ASSUME AuditsInv, UNCHANGED <<records, pages>>,
         at' \in {"total", "transitions", "actions", "entities", "summarized"},
         FiguresLag', SummaryOnlyGrows'
  PROVE  AuditsInv'
<1>1. UNCHANGED <<log, open, clock, changes, told, leaf, count, seen, before, longer>>
  BY DEF records, pages
<1>2. AuditShape'
  BY <1>1 DEF AuditsInv, AuditShape, AuditTypeOK
<1>3. NotSeenIsBehind' /\ AuditsMissedForAReason'
  BY DEF NotSeenIsBehind, AuditsMissedForAReason
<1> QED  BY <1>1, <1>2, <1>3, LogLeftAlone DEF AuditsInv

LEMMA AuditsKeptByStartSummary ==
  ASSUME AuditsInv, StartSummary
  PROVE  AuditsInv'
<1>1. at' = "total" /\ since' = clock - Window /\ summary' = summary /\ UNCHANGED <<records, pages>>
  BY DEF StartSummary
<1>2. clock \in Int /\ Window \in Int
  BY AuditSizesAssumption, AuditBoundsAssumption DEF AuditsInv, AuditShape, AuditTypeOK
<1>3. FiguresLag' /\ SummaryOnlyGrows'
  BY <1>1, <1>2 DEF AuditsInv, FiguresLag, SummaryOnlyGrows
<1> QED  BY <1>1, <1>3, AuditsKeptBySummary

\* The groups of what is counted.
LEMMA GroupsOfCounted ==
  ASSUME log \in Seq(Entry)
  PROVE  /\ Sum([a \in Actions |-> Cardinality({i \in Counted : log[i].action = a})]) =
              Cardinality(Counted)
         /\ Sum([e \in Entities |-> Cardinality({i \in Counted : log[i].entity = e})]) =
              Cardinality(Counted)
         /\ [a \in Actions |-> Cardinality({i \in Counted : log[i].action = a})] \in [Actions -> Nat]
         /\ [e \in Entities |-> Cardinality({i \in Counted : log[i].entity = e})]
              \in [Entities -> Nat]
<1> DEFINE action == [i \in Counted |-> log[i].action]
           entity == [i \in Counted |-> log[i].entity]
<1>1. action \in [Counted -> Actions] /\ entity \in [Counted -> Entities]
  BY LogFinite DEF Counted
<1>2. IsFiniteSet(Counted)
  BY CountedFinite
<1>3. /\ \A a : {i \in Counted : action[i] = a} = {i \in Counted : log[i].action = a}
      /\ \A e : {i \in Counted : entity[i] = e} = {i \in Counted : log[i].entity = e}
  OBVIOUS
<1> HIDE DEF action, entity
<1>4. Sum([a \in Actions |-> Cardinality({i \in Counted : action[i] = a})]) = Cardinality(Counted)
  BY <1>1, <1>2, GroupsAddUp
<1>5. Sum([e \in Entities |-> Cardinality({i \in Counted : entity[i] = e})]) = Cardinality(Counted)
  BY <1>1, <1>2, GroupsAddUp
<1>6. /\ \A a : Cardinality({i \in Counted : log[i].action = a}) \in Nat
      /\ \A e : Cardinality({i \in Counted : log[i].entity = e}) \in Nat
  BY <1>2, FS_Subset, FS_CardinalityType
<1> QED  BY <1>3, <1>4, <1>5, <1>6

\* Each query counts what the one before it counted, and what came since.
LEMMA AuditsKeptByQuery ==
  ASSUME AuditsInv, SummarizeAudits
  PROVE  AuditsInv'
<1> DEFINE byAction == [a \in Actions |-> Cardinality({i \in Counted : log[i].action = a})]
           byEntity == [e \in Entities |-> Cardinality({i \in Counted : log[i].entity = e})]
<1>1. /\ log \in Seq(Entry) /\ since \in Int /\ summary \in Figures
      /\ summary.total \in Nat /\ summary.transitions \in Nat
  BY DEF AuditsInv, AuditShape, FiguresLag, Figures
<1>2. /\ Cardinality(Counted) \in Nat
      /\ Sum(byAction) = Cardinality(Counted) /\ byAction \in [Actions -> Nat]
      /\ Sum(byEntity) = Cardinality(Counted) /\ byEntity \in [Entities -> Nat]
      /\ Cardinality(CountedTransitions) \in Nat
  BY <1>1, CountedFinite, GroupsOfCounted
<1>3. byAction["transition"] = Cardinality(CountedTransitions)
  BY DEF Actions, CountedTransitions
<1> HIDE DEF byAction, byEntity
<1>4. ASSUME UNCHANGED <<records, pages, since>>
      PROVE  Counted' = Counted /\ CountedTransitions' = CountedTransitions /\ since' = since
  BY <1>4 DEF records, Counted, CountedTransitions, Since
<1>5. CASE Query("total", "transitions", "total", Cardinality(Counted))
  <2>1. /\ at' = "transitions" /\ UNCHANGED <<records, pages, since>>
        /\ summary' = [summary EXCEPT !.total = Cardinality(Counted)]
    BY <1>5 DEF Query
  <2>2. summary' \in Figures /\ summary'.total = Cardinality(Counted)
    BY <1>1, <1>2, <2>1 DEF Figures
  <2>3. FiguresLag' /\ SummaryOnlyGrows'
    BY <1>1, <1>2, <1>4, <2>1, <2>2 DEF FiguresLag, SummaryOnlyGrows
  <2> QED  BY <2>1, <2>3, AuditsKeptBySummary
<1>6. CASE Query("transitions", "actions", "transitions", Cardinality(CountedTransitions))
  <2>1. /\ at = "transitions" /\ at' = "actions" /\ UNCHANGED <<records, pages, since>>
        /\ summary' = [summary EXCEPT !.transitions = Cardinality(CountedTransitions)]
    BY <1>6 DEF Query
  <2>2. summary' \in Figures /\ summary'.total = summary.total
        /\ summary'.transitions = Cardinality(CountedTransitions)
    BY <1>1, <1>2, <2>1 DEF Figures
  <2>3. FiguresLag' /\ SummaryOnlyGrows'
    BY <1>1, <1>2, <1>4, <2>1, <2>2 DEF AuditsInv, FiguresLag, SummaryOnlyGrows
  <2> QED  BY <2>1, <2>3, AuditsKeptBySummary
<1>7. CASE Query("actions", "entities", "actions", byAction)
  <2>1. /\ at = "actions" /\ at' = "entities" /\ UNCHANGED <<records, pages, since>>
        /\ summary' = [summary EXCEPT !.actions = byAction]
    BY <1>7 DEF Query
  <2>2. summary' \in Figures /\ summary'.total = summary.total
        /\ summary'.transitions = summary.transitions /\ summary'.actions = byAction
    BY <1>1, <1>2, <2>1 DEF Figures
  <2>3. FiguresLag' /\ SummaryOnlyGrows'
    BY <1>1, <1>2, <1>3, <1>4, <2>1, <2>2 DEF AuditsInv, FiguresLag, SummaryOnlyGrows
  <2> QED  BY <2>1, <2>3, AuditsKeptBySummary
<1>8. CASE Query("entities", "summarized", "entities", byEntity)
  <2>1. /\ at = "entities" /\ at' = "summarized" /\ UNCHANGED <<records, pages, since>>
        /\ summary' = [summary EXCEPT !.entities = byEntity]
    BY <1>8 DEF Query
  <2>2. summary' \in Figures /\ summary'.total = summary.total
        /\ summary'.transitions = summary.transitions /\ summary'.actions = summary.actions
        /\ summary'.entities = byEntity
    BY <1>1, <1>2, <2>1 DEF Figures
  <2>3. FiguresLag' /\ SummaryOnlyGrows'
    BY <1>1, <1>2, <1>4, <2>1, <2>2 DEF AuditsInv, FiguresLag, SummaryOnlyGrows
  <2> QED  BY <2>1, <2>3, AuditsKeptBySummary
<1> QED  BY <1>5, <1>6, <1>7, <1>8 DEF SummarizeAudits, CountedTransitions, byAction, byEntity

-----------------------------------------------------------------------------
(* Theorems about the audit log.                                           *)

LEMMA AuditsStep == AuditsInv /\ [AuditNext]_auditVars => AuditsInv'
<1> SUFFICES ASSUME AuditsInv, [AuditNext]_auditVars PROVE AuditsInv'
  OBVIOUS
<1>1. CASE UNCHANGED auditVars
  <2>1. UNCHANGED <<log, open, clock, changes, at, told, leaf, count, seen, before, longer,
                    since, summary>>
    BY <1>1 DEF auditVars, records, pages
  <2>2. AuditShape'
    BY <2>1 DEF AuditsInv, AuditShape, AuditTypeOK
  <2> QED
    BY <2>1, <2>2, LogLeftAlone DEF AuditsInv, NotSeenIsBehind, AuditsMissedForAReason,
      FiguresLag, SummaryOnlyGrows, WasSeen, Tied
<1> QED
  BY <1>1, AuditsKeptByChange, AuditsKeptByAppend, AuditsKeptByTick, AuditsKeptByStartWalk,
    AuditsKeptByCount, AuditsKeptByFind, AuditsKeptByStartSummary, AuditsKeptByQuery
  DEF AuditNext

LEMMA AuditsInvariant == AuditSpec => []AuditsInv
BY AuditsInit, AuditsStep, PTL DEF AuditSpec

\* The log, the changes on their way to it and its readers always hold values
\* of their types: in particular there is always a number for one more change.
THEOREM AuditTypeCorrect == AuditSpec => []AuditTypeOK
<1>1. AuditsInv => AuditTypeOK
  BY DEF AuditsInv, AuditShape
<1> QED  BY <1>1, AuditsInvariant, PTL

\* A row of the log is missed only if the log grew at what was taken for the
\* last page, or if another row has its stamp.
THEOREM AuditsMissedOnlyForAReason == AuditSpec => []AuditsMissedForAReason
<1>1. AuditsInv => AuditsMissedForAReason
  BY DEF AuditsInv
<1> QED  BY <1>1, AuditsInvariant, PTL

\* The later figures of a summary are never less than the earlier ones.
THEOREM FiguresOnlyGrow == AuditSpec => []SummaryOnlyGrows
<1>1. AuditsInv => SummaryOnlyGrows
  BY DEF AuditsInv
<1> QED  BY <1>1, AuditsInvariant, PTL

\* Of two changes of a record, the second of which was made when the first was
\* in the log, the second is shown above the first unless their stamps are equal.
THEOREM HistoryShowsLastFirst == AuditSpec => []HistoryInOrder
<1>1. AuditsInv => HistoryInOrder
  <2> SUFFICES ASSUME AuditsInv, NEW entity \in Entities, NEW h \in EntityHistory(entity),
                      NEW k \in DOMAIN h, NEW key \in KeysOf(entity),
                      h[k] \in log[key].known, log[key].stamp # log[h[k]].stamp
               PROVE  \E l \in 1 .. k - 1 : h[l] = key
    BY DEF HistoryInOrder
  <2> DEFINE S == KeysOf(entity)
             n == Cardinality(S)
  <2>1. PICK s \in Orders(S, LoggedLater) : h = Slice(s, 0, Limit)
    BY DEF EntityHistory
  <2>2. log \in Seq(Entry) /\ S \subseteq DOMAIN log /\ IsFiniteSet(S)
    BY LogFinite, FS_Subset DEF AuditsInv, AuditShape, KeysOf
  <2>3. /\ s \in Seq(S) /\ Len(s) = n /\ n \in Nat
        /\ \A x \in S : \E i \in 1 .. n : s[i] = x
    BY <2>2, OrderIsBijection
  <2> HIDE DEF S, n
  <2>4. /\ DOMAIN h \subseteq 1 .. n
        /\ \A i \in DOMAIN h : h[i] = s[i] /\ \A j \in 1 .. i - 1 : j \in DOMAIN h
    <3>1. Limit \in Nat
      BY AuditSizesAssumption
    <3>2. Min({0 + Limit, Len(s)}) \in 0 .. n
      BY <2>3, <3>1, MinOfTwo
    <3> DEFINE m == Min({0 + Limit, Len(s)})
    <3>3. h = SubSeq(s, 1, m)
      BY <2>1 DEF Slice
    <3> HIDE DEF m
    <3>4. \A i \in 1 .. m : s[i] \in S
      BY <2>3, <3>2 DEF m
    <3>5. /\ h \in Seq(S) /\ Len(h) = IF 1 <= m THEN m - 1 + 1 ELSE 0
          /\ \A i \in 1 .. m - 1 + 1 : h[i] = s[1 + i - 1]
      <4>1. 1 \in Int /\ m \in Int
        BY <2>3, <3>2 DEF m
      <4> QED  BY <4>1, <3>3, <3>4, SubSeqProperties
    <3>6. DOMAIN h = 1 .. m /\ m \in 0 .. n
      <4>1. m \in 0 .. n /\ n \in Nat
        BY <2>3, <3>2 DEF m
      <4>2. Len(h) = m
        BY <4>1, <3>5
      <4>3. \A t \in Seq(S) : DOMAIN t = 1 .. Len(t)
        OBVIOUS
      <4> QED  BY <4>1, <4>2, <4>3, <3>5
    <3>7. ASSUME NEW i \in DOMAIN h
          PROVE  h[i] = s[i] /\ \A j \in 1 .. i - 1 : j \in DOMAIN h
      <4>1. i \in 1 .. m /\ m \in Int /\ m - 1 + 1 = m /\ 1 + i - 1 = i
        BY <2>3, <3>6
      <4>2. h[i] = s[i]
        BY <3>5, <4>1
      <4>3. \A j \in 1 .. i - 1 : j \in 1 .. m
        BY <4>1
      <4> QED  BY <3>6, <4>2, <4>3
    <3> QED  BY <2>3, <3>6, <3>7
  <2>5. h[k] = s[k] /\ k \in 1 .. n /\ s[k] \in S
    BY <2>3, <2>4
  <2>6. /\ key \in DOMAIN log /\ s[k] \in DOMAIN log /\ key \in S
        /\ log[s[k]].stamp < log[key].stamp
    <3>1. key \in DOMAIN log /\ s[k] \in DOMAIN log /\ key \in S
      BY <2>2, <2>5 DEF S
    <3>2. log[s[k]].stamp <= log[key].stamp
      BY <2>5, <3>1 DEF AuditsInv, KnownEarlier
    <3>3. log[s[k]].stamp \in Nat /\ log[key].stamp \in Nat
      BY <2>2, <3>1, LogFinite
    <3> QED  BY <2>5, <3>1, <3>2, <3>3
  <2>7. <<key, s[k]>> \in LoggedLater
    BY <2>2, <2>6, LogFinite DEF LoggedLater
  <2>8. PICK l \in 1 .. n : s[l] = key
    BY <2>3, <2>6
  <2>9. l \in DOMAIN s /\ k \in DOMAIN s /\ ~ k < l
    BY <2>3, <2>5, <2>7, <2>8 DEF Orders
  <2>10. k # l
    BY <2>2, <2>6, <2>8, LogFinite
  <2> QED  BY <2>3, <2>4, <2>5, <2>8, <2>9, <2>10
<1> QED  BY <1>1, AuditsInvariant, PTL
=============================================================================
