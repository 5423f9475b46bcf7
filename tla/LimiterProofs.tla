--------------------------- MODULE LimiterProofs ---------------------------
(***************************************************************************)
(* The budget of the limiter, for any number of requests, keys, instances  *)
(* and windows: nobody hands out more than Limit per window and place that *)
(* counts, nobody is refused before the budget is spent, and old buckets   *)
(* do not pile up.  The invariant relates each counter to the requests it  *)
(* was incremented for.                                                    *)
(***************************************************************************)
EXTENDS RateLimiter, FiniteSetTheorems, TLAPS

\* The requests that may have incremented a counter of Redis.
Rivals(k, w) ==
  {q \in Reqs : req[q].phase \in {"local", "done"} /\ req[q].key = k /\ req[q].arrived = w}

CountNow(bucket) == IF bucket.window = now THEN bucket.count ELSE 0

\* Nothing is of a later window, and a call to Redis is of this one or the last.
Timely ==
  /\ \A i \in Instances, k \in Keys : local[i][k].window <= now
  /\ \A r \in Reqs :
       /\ req[r].arrived <= now
       /\ req[r].charged <= now
       /\ req[r].phase = "redis" => RedisEnabled /\ req[r].arrived + 1 >= now
       /\ req[r].phase = "done" /\ req[r].via = "redis" =>
            RedisEnabled /\ req[r].charged = req[r].arrived

\* A counter that is in use was last incremented in its own window or later.
Touched ==
  \A k \in Keys, w \in Windows : shared[k][w].count > 0 => shared[k][w].touched >= w

\* The bucket of the current window counts the requests that were charged to it.
LocalCounts ==
  \A i \in Instances, k \in Keys, w \in Windows :
    w = now => Cardinality(ChargedAt(i, k, w)) = CountNow(local[i][k])

LocalBudget ==
  \A i \in Instances, k \in Keys, w \in Windows : Cardinality(AdmittedAt(i, k, w)) <= Limit

\* A counter that may still be incremented is at least the number of requests
\* that were charged to it, and no counter exceeds the number of its rivals.
SharedCounts ==
  \A k \in Keys, w \in Windows :
    w + 1 >= now => Cardinality(ChargedShared(k, w)) <= shared[k][w].count

SharedRivals ==
  \A k \in Keys, w \in Windows : shared[k][w].count <= Cardinality(Rivals(k, w))

SharedBudget ==
  \A k \in Keys, w \in Windows : Cardinality(AdmittedShared(k, w)) <= Limit

Counters ==
  /\ TypeOK /\ Timely /\ Touched /\ LocalCounts /\ LocalBudget
  /\ SharedCounts /\ SharedRivals /\ SharedBudget

IInv == Counters /\ RefusedOnlyOverBudget /\ StaleBucketsBounded

-----------------------------------------------------------------------------
(* What each step does to the requests.                                    *)

\* All but r are as they were, and r keeps what it was sent with.
Moves(r) ==
  /\ \A q \in Reqs \ {r} : req'[q] = req[q]
  /\ req'[r].key = req[r].key /\ req'[r].inst = req[r].inst

\* Request r arrives or turns to the map of its instance.
Waits(r) ==
  /\ Moves(r)
  /\ req[r].phase # "done" /\ req'[r].phase # "done"
  /\ req'[r].charged = req[r].charged

\* Request r is answered.
Ends(r, via, window, fits) ==
  /\ Moves(r)
  /\ req[r].phase # "done" /\ req'[r].phase = "done"
  /\ req'[r].arrived = req[r].arrived
  /\ req'[r].via = via /\ req'[r].charged = window
  /\ req'[r].admitted = fits

LEMMA ArriveDoes ==
  ASSUME TypeOK, NEW r \in Reqs, Arrive(r)
  PROVE  /\ Waits(r)
         /\ req[r].phase = "idle" /\ req'[r].phase \in {"redis", "local"}
         /\ req'[r].phase = "redis" => RedisEnabled
         /\ req'[r].arrived = now
BY DEF TypeOK, Request, Arrive, Waits, Moves

LEMMA RedisFailsDoes ==
  ASSUME TypeOK, NEW r \in Reqs, RedisFails(r)
  PROVE  /\ Waits(r)
         /\ req[r].phase = "redis" /\ req'[r].phase = "local"
         /\ req'[r].arrived = req[r].arrived
         /\ shared' = shared \/ shared' = Incremented(r)
BY DEF TypeOK, Request, RedisFails, Waits, Moves

LEMMA CountInRedisDoes ==
  ASSUME TypeOK, NEW r \in Reqs, CountInRedis(r)
  PROVE  /\ req[r].phase = "redis"
         /\ Ends(r, "redis", req[r].arrived,
                 shared[req[r].key][req[r].arrived].count + 1 <= Limit)
         /\ shared' = Incremented(r)
BY DEF TypeOK, Request, CountInRedis, Decide, Ends, Moves

\* The map of the instance as the request finds it after the clean-up.
MapFor(r) == Cleaned(local[req[r].inst])

LEMMA CleanedKeeps ==
  ASSUME TypeOK, NEW i \in Instances
  PROVE  /\ Cleaned(local[i]) \in [Keys -> Bucket]
         /\ \A k \in Keys : Cleaned(local[i])[k] \in {local[i][k], NoBucket}
         /\ \A k \in Keys : Cleaned(local[i])[k] # local[i][k] => local[i][k].window < now
         /\ \/ Cleaned(local[i]) = local[i] /\ Cardinality(Tracked(local[i])) < MaxTracked
            \/ \A k \in Keys : Cleaned(local[i])[k].window < now => Cleaned(local[i])[k] = NoBucket
BY DEF TypeOK, Cleaned, Bucket, NoBucket

LEMMA CountLocallyDoes ==
  ASSUME TypeOK, NEW r \in Reqs, CountLocally(r)
  PROVE  LET i == req[r].inst
             k == req[r].key
             bucket == Counted(MapFor(r)[k])
         IN  /\ i \in Instances /\ k \in Keys
             /\ req[r].phase = "local"
             /\ Ends(r, "local", now, bucket.count <= Limit)
             /\ local' = [local EXCEPT ![i] = [MapFor(r) EXCEPT ![k] = bucket]]
             /\ bucket \in [window : {now}, count : Nat \ {0}]
             /\ bucket.count = CountNow(local[i][k]) + 1
<1> DEFINE i == req[r].inst
           k == req[r].key
           bucket == Counted(MapFor(r)[k])
<1>1. i \in Instances /\ k \in Keys /\ req[r].phase = "local" /\ now \in Windows
  BY DEF TypeOK, Request, CountLocally
<1>2. Ends(r, "local", now, bucket.count <= Limit)
  BY DEF TypeOK, Request, CountLocally, MapFor, Decide, Ends, Moves
<1>3. local' = [local EXCEPT ![i] = [MapFor(r) EXCEPT ![k] = bucket]]
  BY DEF CountLocally, MapFor
<1>4. /\ local[i][k] \in Bucket
      /\ MapFor(r)[k] \in {local[i][k], NoBucket}
      /\ MapFor(r)[k] # local[i][k] => local[i][k].window < now
  BY <1>1, CleanedKeeps DEF TypeOK, MapFor
<1>5. bucket \in [window : {now}, count : Nat \ {0}]
  BY <1>1, <1>4 DEF Counted, Bucket, NoBucket, Windows
<1>6. bucket.count = CountNow(local[i][k]) + 1
  BY <1>1, <1>4 DEF Counted, CountNow, Bucket, NoBucket, Windows
<1> QED  BY <1>1, <1>2, <1>3, <1>5, <1>6

\* Each step is one of these.
LEMMA Steps ==
  ASSUME [Next]_vars
  PROVE  \/ \E r \in Reqs : Arrive(r)
         \/ \E r \in Reqs : CountInRedis(r)
         \/ \E r \in Reqs : RedisFails(r)
         \/ \E r \in Reqs : CountLocally(r)
         \/ Tick
         \/ \E k \in Keys, w \in Windows : Expire(k, w)
         \/ UNCHANGED vars
BY DEF Next

-----------------------------------------------------------------------------
(* Sets of requests and their sizes.                                       *)

LEMMA Sizes ==
  ASSUME NEW S \in SUBSET Reqs
  PROVE  /\ IsFiniteSet(S) /\ Cardinality(S) \in Nat
         /\ \A T \in SUBSET S : Cardinality(T) <= Cardinality(S)
         /\ \A r \in Reqs \ S : Cardinality(S \cup {r}) = Cardinality(S) + 1
<1>1. IsFiniteSet(S)
  BY FiniteAssumption, FS_Subset
<1> QED  BY <1>1, FS_Subset, FS_CardinalityType, FS_AddElement

LEMMA SetsOfRequests ==
  /\ \A k, w : Charged(k, w) \in SUBSET Reqs /\ Rivals(k, w) \in SUBSET Reqs
  /\ \A k, w : /\ ChargedShared(k, w) \in SUBSET Charged(k, w)
               /\ AdmittedShared(k, w) \in SUBSET ChargedShared(k, w)
  /\ \A i, k, w : /\ ChargedAt(i, k, w) \in SUBSET Charged(k, w)
                  /\ AdmittedAt(i, k, w) \in SUBSET ChargedAt(i, k, w)
BY DEF Charged, Rivals, ChargedShared, AdmittedShared, ChargedAt, AdmittedAt

\* Before a request ends nothing is charged.
SameCharges ==
  \A k, w :
    /\ ChargedShared(k, w)' = ChargedShared(k, w)
    /\ AdmittedShared(k, w)' = AdmittedShared(k, w)
    /\ \A i : ChargedAt(i, k, w)' = ChargedAt(i, k, w) /\ AdmittedAt(i, k, w)' = AdmittedAt(i, k, w)

LEMMA WaitingIsFree ==
  ASSUME TypeOK, (\E r \in Reqs : Waits(r)) \/ UNCHANGED req
  PROVE  SameCharges
<1>1. \A q \in Reqs :
        /\ req'[q].phase = "done" <=> req[q].phase = "done"
        /\ req[q].phase = "done" => req'[q] = req[q]
  BY DEF TypeOK, Waits, Moves
<1>2. \A k, w : Charged(k, w)' = Charged(k, w)
  BY <1>1 DEF Charged
<1> QED
  BY <1>1, <1>2 DEF SameCharges, ChargedShared, AdmittedShared, ChargedAt, AdmittedAt, Charged

\* A request that ends is charged to one place and window.
LEMMA EndingIsCharged ==
  ASSUME TypeOK, NEW r \in Reqs, NEW via \in {"redis", "local"}, NEW window, NEW fits \in BOOLEAN,
         Ends(r, via, window, fits)
  PROVE  LET i == req[r].inst
             k == req[r].key
         IN  /\ \A l, w : r \notin Charged(l, w)
             /\ \A l, w : ChargedShared(l, w)' =
                  IF via = "redis" /\ l = k /\ w = window
                  THEN ChargedShared(l, w) \cup {r} ELSE ChargedShared(l, w)
             /\ \A l, w : AdmittedShared(l, w)' =
                  IF via = "redis" /\ l = k /\ w = window /\ fits
                  THEN AdmittedShared(l, w) \cup {r} ELSE AdmittedShared(l, w)
             /\ \A j, l, w : ChargedAt(j, l, w)' =
                  IF via = "local" /\ j = i /\ l = k /\ w = window
                  THEN ChargedAt(j, l, w) \cup {r} ELSE ChargedAt(j, l, w)
             /\ \A j, l, w : AdmittedAt(j, l, w)' =
                  IF via = "local" /\ j = i /\ l = k /\ w = window /\ fits
                  THEN AdmittedAt(j, l, w) \cup {r} ELSE AdmittedAt(j, l, w)
<1>1. /\ \A q \in Reqs \ {r} : req'[q] = req[q]
      /\ req[r].phase # "done" /\ req'[r].phase = "done"
      /\ req'[r].key = req[r].key /\ req'[r].inst = req[r].inst
      /\ req'[r].via = via /\ req'[r].charged = window
  BY DEF Ends, Moves
<1>2. req'[r].admitted <=> fits
  BY DEF Ends
<1>3. \A l, w : r \notin Charged(l, w)
  BY <1>1 DEF Charged
<1>4. \A l, w : ChargedShared(l, w)' =
        IF via = "redis" /\ l = req[r].key /\ w = window
        THEN ChargedShared(l, w) \cup {r} ELSE ChargedShared(l, w)
  BY <1>1 DEF Charged, ChargedShared
<1>5. \A l, w : AdmittedShared(l, w)' =
        IF via = "redis" /\ l = req[r].key /\ w = window /\ fits
        THEN AdmittedShared(l, w) \cup {r} ELSE AdmittedShared(l, w)
  <2>1. CASE fits
    BY <1>1, <1>2, <2>1 DEF Charged, ChargedShared, AdmittedShared
  <2>2. CASE ~fits
    BY <1>1, <1>2, <2>2 DEF Charged, ChargedShared, AdmittedShared
  <2> QED  BY <2>1, <2>2
<1>6. \A j, l, w : ChargedAt(j, l, w)' =
        IF via = "local" /\ j = req[r].inst /\ l = req[r].key /\ w = window
        THEN ChargedAt(j, l, w) \cup {r} ELSE ChargedAt(j, l, w)
  BY <1>1 DEF Charged, ChargedAt
<1>7. \A j, l, w : AdmittedAt(j, l, w)' =
        IF via = "local" /\ j = req[r].inst /\ l = req[r].key /\ w = window /\ fits
        THEN AdmittedAt(j, l, w) \cup {r} ELSE AdmittedAt(j, l, w)
  <2>1. CASE fits
    BY <1>1, <1>2, <2>1 DEF Charged, ChargedAt, AdmittedAt
  <2>2. CASE ~fits
    BY <1>1, <1>2, <2>2 DEF Charged, ChargedAt, AdmittedAt
  <2> QED  BY <2>1, <2>2
<1> QED  BY <1>3, <1>4, <1>5, <1>6, <1>7

\* Who may have incremented a counter stays so.
LEMMA RivalsStay ==
  ASSUME TypeOK, [Next]_vars, NEW k, NEW w
  PROVE  Rivals(k, w) \subseteq Rivals(k, w)'
<1> SUFFICES \A q \in Reqs : req[q].phase \in {"local", "done"} =>
              /\ req'[q].phase \in {"local", "done"}
              /\ req'[q].key = req[q].key /\ req'[q].arrived = req[q].arrived
  BY DEF Rivals
<1>1. CASE \E r \in Reqs : Arrive(r)
  BY <1>1, ArriveDoes DEF Waits, Moves
<1>2. CASE \E r \in Reqs : CountInRedis(r)
  BY <1>2, CountInRedisDoes DEF Ends, Moves
<1>3. CASE \E r \in Reqs : RedisFails(r)
  BY <1>3, RedisFailsDoes DEF Waits, Moves
<1>4. CASE \E r \in Reqs : CountLocally(r)
  <2>1. PICK r \in Reqs : CountLocally(r)
    BY <1>4
  <2>2. PICK fits : Ends(r, "local", now, fits)
    BY <2>1, CountLocallyDoes
  <2>3. req[r].phase = "local"
    BY <2>1 DEF CountLocally
  <2> QED  BY <2>2, <2>3 DEF Ends, Moves
<1>5. CASE UNCHANGED req
  BY <1>5
<1> QED
  BY <1>1, <1>2, <1>3, <1>4, <1>5, Steps DEF Tick, Expire, vars

-----------------------------------------------------------------------------
(* The counters.                                                           *)

LEMMA IncrementedIs ==
  ASSUME TypeOK, NEW r \in Reqs
  PROVE  LET k == req[r].key
             w == req[r].arrived
         IN  /\ k \in Keys /\ w \in Windows
             /\ Incremented(r) \in [Keys -> [Windows -> Counter]]
             /\ Incremented(r)[k][w] = [count |-> shared[k][w].count + 1, touched |-> now]
             /\ \A l \in Keys, x \in Windows :
                  l # k \/ x # w => Incremented(r)[l][x] = shared[l][x]
BY DEF TypeOK, Incremented, Request, Counter

LEMMA ArrivedTyped ==
  ASSUME TypeOK, NEW r \in Reqs, NEW phase \in {"redis", "local"}, NEW window \in Windows,
         req' = [req EXCEPT ![r].phase = phase, ![r].arrived = window]
  PROVE  req' \in [Reqs -> Request]
<1>1. \A q \in Request : [q EXCEPT !.phase = phase, !.arrived = window] \in Request
  BY DEF Request
<1> QED  BY <1>1 DEF TypeOK

LEMMA DecidedTyped ==
  ASSUME TypeOK, NEW r \in Reqs, NEW via \in {"redis", "local"}, NEW window \in Windows,
         NEW fits \in BOOLEAN,
         req' = [req EXCEPT ![r].phase = "done", ![r].via = via, ![r].charged = window,
                            ![r].admitted = fits]
  PROVE  req' \in [Reqs -> Request]
<1>1. \A q \in Request : [q EXCEPT !.phase = "done", !.via = via, !.charged = window,
                                   !.admitted = fits] \in Request
  BY DEF Request
<1> QED  BY <1>1 DEF TypeOK

LEMMA TypeStays ==
  ASSUME TypeOK, [Next]_vars
  PROVE  TypeOK'
<1>1. CASE \E r \in Reqs : Arrive(r)
  <2>1. PICK r \in Reqs : Arrive(r)
    BY <1>1
  <2>2. req' \in [Reqs -> Request]
    <3>1. (IF RedisEnabled THEN "redis" ELSE "local") \in {"redis", "local"}
      OBVIOUS
    <3>2. now \in Windows
      BY DEF TypeOK
    <3> QED  BY <2>1, <3>1, <3>2, ArrivedTyped DEF Arrive
  <2> QED  BY <2>1, <2>2 DEF TypeOK, Arrive
<1>2. CASE \E r \in Reqs : CountInRedis(r)
  <2>1. PICK r \in Reqs : CountInRedis(r)
    BY <1>2
  <2>2. /\ shared' \in [Keys -> [Windows -> Counter]]
        /\ req[r].arrived \in Windows
    BY <2>1, IncrementedIs, CountInRedisDoes
  <2>3. req' \in [Reqs -> Request]
    <3>1. (shared[req[r].key][req[r].arrived].count + 1 <= Limit) \in BOOLEAN
      OBVIOUS
    <3> QED  BY <2>1, <2>2, <3>1, DecidedTyped DEF CountInRedis, Decide
  <2> QED  BY <2>1, <2>2, <2>3 DEF TypeOK, CountInRedis
<1>3. CASE \E r \in Reqs : RedisFails(r)
  <2>1. PICK r \in Reqs : RedisFails(r)
    BY <1>3
  <2>2. shared' \in [Keys -> [Windows -> Counter]]
    BY <2>1, IncrementedIs DEF RedisFails, TypeOK
  <2> QED  BY <2>1, <2>2 DEF TypeOK, RedisFails, Request
<1>4. CASE \E r \in Reqs : CountLocally(r)
  <2>1. PICK r \in Reqs : CountLocally(r)
    BY <1>4
  <2>2. LET i == req[r].inst
            k == req[r].key
            bucket == Counted(MapFor(r)[k])
        IN  /\ i \in Instances /\ k \in Keys
            /\ local' = [local EXCEPT ![i] = [MapFor(r) EXCEPT ![k] = bucket]]
            /\ bucket \in Bucket
            /\ MapFor(r) \in [Keys -> Bucket]
    BY <2>1, CountLocallyDoes, CleanedKeeps DEF MapFor, Bucket, TypeOK
  <2>3. local' \in [Instances -> [Keys -> Bucket]]
    BY <2>2 DEF TypeOK
  <2>4. req' \in [Reqs -> Request]
    <3>1. (Counted(MapFor(r)[req[r].key]).count <= Limit) \in BOOLEAN /\ now \in Windows
      BY DEF TypeOK
    <3> QED  BY <2>1, <3>1, DecidedTyped DEF CountLocally, Decide, MapFor
  <2> QED  BY <2>1, <2>3, <2>4 DEF TypeOK, CountLocally
<1>5. CASE Tick
  BY <1>5, SizesAssumption DEF TypeOK, Tick, Windows
<1>6. CASE \E k \in Keys, w \in Windows : Expire(k, w)
  BY <1>6 DEF TypeOK, Expire, Counter, NoCounter
<1>7. CASE UNCHANGED vars
  BY <1>7 DEF TypeOK, vars
<1> QED  BY <1>1, <1>2, <1>3, <1>4, <1>5, <1>6, <1>7, Steps

LEMMA TimelyStays ==
  ASSUME TypeOK, Timely, [Next]_vars
  PROVE  Timely'
<1>1. now \in Nat /\ \A r \in Reqs : req[r].arrived \in Nat /\ req[r].charged \in Nat
  BY DEF TypeOK, Windows, Request
<1>2. CASE \E r \in Reqs : Arrive(r)
  <2>1. PICK r \in Reqs : Arrive(r)
    BY <1>2
  <2>2. /\ Waits(r)
        /\ req'[r].phase \in {"redis", "local"}
        /\ req'[r].phase = "redis" => RedisEnabled
        /\ req'[r].arrived = now
    BY <2>1, ArriveDoes
  <2>3. now' = now /\ local' = local
    BY <2>1 DEF Arrive
  <2>4. \A q \in Reqs :
          /\ req'[q].arrived <= now
          /\ req'[q].charged <= now
          /\ req'[q].phase = "redis" => RedisEnabled /\ req'[q].arrived + 1 >= now
          /\ req'[q].phase = "done" /\ req'[q].via = "redis" =>
               RedisEnabled /\ req'[q].charged = req'[q].arrived
    <3> SUFFICES ASSUME NEW q \in Reqs
                 PROVE  /\ req'[q].arrived <= now
                        /\ req'[q].charged <= now
                        /\ req'[q].phase = "redis" => RedisEnabled /\ req'[q].arrived + 1 >= now
                        /\ req'[q].phase = "done" /\ req'[q].via = "redis" =>
                             RedisEnabled /\ req'[q].charged = req'[q].arrived
      OBVIOUS
    <3>1. CASE q = r
      BY <1>1, <2>2, <3>1 DEF Timely, Waits
    <3>2. CASE q # r
      BY <2>2, <3>2 DEF Timely, Waits, Moves
    <3> QED  BY <3>1, <3>2
  <2> QED  BY <2>3, <2>4 DEF Timely
<1>3. CASE \E r \in Reqs : CountInRedis(r)
  BY <1>1, <1>3, CountInRedisDoes DEF Timely, Ends, Moves, CountInRedis
<1>4. CASE \E r \in Reqs : RedisFails(r)
  BY <1>1, <1>4, RedisFailsDoes DEF Timely, Waits, Moves, RedisFails
<1>5. CASE \E r \in Reqs : CountLocally(r)
  <2>1. PICK r \in Reqs : CountLocally(r)
    BY <1>5
  <2>2. PICK fits : Ends(r, "local", now, fits)
    BY <2>1, CountLocallyDoes
  <2>3. \A q \in Reqs :
          /\ req'[q].arrived <= now
          /\ req'[q].charged <= now
          /\ req'[q].phase = "redis" => RedisEnabled /\ req'[q].arrived + 1 >= now
          /\ req'[q].phase = "done" /\ req'[q].via = "redis" =>
               RedisEnabled /\ req'[q].charged = req'[q].arrived
    BY <1>1, <2>2 DEF Timely, Ends, Moves
  <2>4. LET i == req[r].inst
            k == req[r].key
            bucket == Counted(MapFor(r)[k])
        IN  /\ i \in Instances /\ k \in Keys
            /\ local' = [local EXCEPT ![i] = [MapFor(r) EXCEPT ![k] = bucket]]
            /\ bucket.window = now
            /\ MapFor(r) \in [Keys -> Bucket]
            /\ \A l \in Keys : MapFor(r)[l] \in {local[i][l], NoBucket}
    BY <2>1, CountLocallyDoes, CleanedKeeps DEF MapFor
  <2>5. \A i \in Instances, k \in Keys : local'[i][k].window <= now
    BY <1>1, <2>4 DEF Timely, TypeOK, NoBucket
  <2> QED  BY <2>1, <2>3, <2>5 DEF Timely, CountLocally
<1>6. CASE Tick
  <2>1. \A i \in Instances, k \in Keys : local[i][k].window \in Nat
    BY DEF TypeOK, Bucket, NoBucket, Windows
  <2> QED  BY <1>1, <1>6, <2>1 DEF Timely, Tick
<1>7. CASE \E k \in Keys, w \in Windows : Expire(k, w)
  BY <1>7 DEF Timely, Expire
<1>8. CASE UNCHANGED vars
  BY <1>8 DEF Timely, vars
<1> QED  BY <1>2, <1>3, <1>4, <1>5, <1>6, <1>7, <1>8, Steps

\* A counter is incremented by one, for a request that becomes its rival, or it
\* expires, or it stays as it is.
LEMMA CounterSteps ==
  ASSUME TypeOK, Timely, [Next]_vars, NEW k \in Keys, NEW w \in Windows
  PROVE  \/ shared'[k][w] = shared[k][w]
         \/ /\ shared'[k][w] = [count |-> shared[k][w].count + 1, touched |-> now]
            /\ w <= now /\ now' = now
            /\ \E r \in Reqs \ Rivals(k, w) : Rivals(k, w) \cup {r} \subseteq Rivals(k, w)'
         \/ /\ Outdated(shared[k][w]) /\ now' = now
            /\ shared'[k][w] = NoCounter
<1>1. ASSUME NEW r \in Reqs, req[r].phase = "redis", req'[r].phase \in {"local", "done"},
             Moves(r), req'[r].arrived = req[r].arrived, now' = now,
             shared' = shared \/ shared' = Incremented(r)
      PROVE  \/ shared'[k][w] = shared[k][w]
             \/ /\ shared'[k][w] = [count |-> shared[k][w].count + 1, touched |-> now]
                /\ w <= now /\ now' = now
                /\ \E q \in Reqs \ Rivals(k, w) : Rivals(k, w) \cup {q} \subseteq Rivals(k, w)'
  <2>1. CASE shared' = Incremented(r) /\ k = req[r].key /\ w = req[r].arrived
    <3>1. shared'[k][w] = [count |-> shared[k][w].count + 1, touched |-> now]
      BY <2>1, IncrementedIs
    <3>2. r \in Reqs \ Rivals(k, w) /\ r \in Rivals(k, w)'
      BY <1>1, <2>1 DEF Rivals, Moves
    <3>3. Rivals(k, w) \cup {r} \subseteq Rivals(k, w)'
      BY <3>2, RivalsStay
    <3>4. w <= now
      BY <2>1 DEF Timely
    <3> QED  BY <1>1, <3>1, <3>2, <3>3, <3>4
  <2>2. CASE shared' = Incremented(r) /\ (k # req[r].key \/ w # req[r].arrived)
    BY <2>2, IncrementedIs
  <2>3. CASE shared' = shared
    BY <2>3
  <2> QED  BY <1>1, <2>1, <2>2, <2>3
<1>2. CASE \E r \in Reqs : CountInRedis(r)
  BY <1>1, <1>2, CountInRedisDoes DEF Ends, CountInRedis
<1>3. CASE \E r \in Reqs : RedisFails(r)
  BY <1>1, <1>3, RedisFailsDoes DEF Waits, RedisFails
<1>4. CASE \E l \in Keys, x \in Windows : Expire(l, x)
  BY <1>4 DEF Expire, TypeOK
<1> QED
  BY <1>2, <1>3, <1>4, Steps DEF Arrive, CountLocally, Tick, vars

LEMMA TouchedStays ==
  ASSUME TypeOK, Timely, Touched, [Next]_vars
  PROVE  Touched'
<1> SUFFICES ASSUME NEW k \in Keys, NEW w \in Windows, shared'[k][w].count > 0
             PROVE  shared'[k][w].touched >= w
  BY DEF Touched
<1>1. now \in Nat /\ w \in Nat
  BY DEF TypeOK, Windows
<1>2. CASE shared'[k][w] = shared[k][w]
  BY <1>2 DEF Touched
<1>3. CASE shared'[k][w] = [count |-> shared[k][w].count + 1, touched |-> now] /\ w <= now
  BY <1>1, <1>3
<1>4. CASE shared'[k][w] = NoCounter
  BY <1>4 DEF NoCounter
<1> QED  BY <1>2, <1>3, <1>4, CounterSteps

LEMMA SharedRivalsStay ==
  ASSUME TypeOK, Timely, SharedRivals, [Next]_vars
  PROVE  SharedRivals'
<1> SUFFICES ASSUME NEW k \in Keys, NEW w \in Windows
             PROVE  shared'[k][w].count <= Cardinality(Rivals(k, w)')
  BY DEF SharedRivals
<1>1. /\ Rivals(k, w) \in SUBSET Reqs /\ Rivals(k, w)' \in SUBSET Reqs
      /\ Rivals(k, w) \subseteq Rivals(k, w)'
  BY RivalsStay DEF Rivals
<1>2. /\ Cardinality(Rivals(k, w)) \in Nat /\ Cardinality(Rivals(k, w)') \in Nat
      /\ Cardinality(Rivals(k, w)) <= Cardinality(Rivals(k, w)')
      /\ \A r \in Reqs \ Rivals(k, w) : Rivals(k, w) \cup {r} \subseteq Rivals(k, w)' =>
           Cardinality(Rivals(k, w)) + 1 <= Cardinality(Rivals(k, w)')
  BY <1>1, Sizes
<1>3. shared[k][w].count \in Nat /\ shared[k][w].count <= Cardinality(Rivals(k, w))
  BY DEF SharedRivals, TypeOK, Counter
<1>4. CASE shared'[k][w] = shared[k][w]
  BY <1>2, <1>3, <1>4
<1>5. CASE /\ shared'[k][w] = [count |-> shared[k][w].count + 1, touched |-> now]
           /\ \E r \in Reqs \ Rivals(k, w) : Rivals(k, w) \cup {r} \subseteq Rivals(k, w)'
  <2>1. Cardinality(Rivals(k, w)) + 1 <= Cardinality(Rivals(k, w)')
    BY <1>2, <1>5
  <2>2. shared'[k][w].count = shared[k][w].count + 1
    BY <1>5
  <2> QED  BY <1>2, <1>3, <2>1, <2>2
<1>6. CASE shared'[k][w] = NoCounter
  BY <1>2, <1>6 DEF NoCounter
<1> QED  BY <1>4, <1>5, <1>6, CounterSteps

-----------------------------------------------------------------------------
(* The budgets.                                                            *)

\* Only the two ways of counting charge anything.
LEMMA ChargeSteps ==
  ASSUME TypeOK, [Next]_vars
  PROVE  \/ SameCharges /\ local' = local
         \/ \E r \in Reqs : CountInRedis(r)
         \/ \E r \in Reqs : CountLocally(r)
<1>1. CASE \E r \in Reqs : Arrive(r)
  BY <1>1, ArriveDoes, WaitingIsFree DEF Arrive
<1>2. CASE \E r \in Reqs : RedisFails(r)
  BY <1>2, RedisFailsDoes, WaitingIsFree DEF RedisFails
<1>3. CASE UNCHANGED <<local, req>>
  BY <1>3, WaitingIsFree
<1> QED  BY <1>1, <1>2, <1>3, Steps DEF Tick, Expire, vars

\* A request counted in a map is charged there, and admitted by its own count.
LEMMA LocalCharge ==
  ASSUME TypeOK, LocalCounts, NEW r \in Reqs, CountLocally(r),
         NEW i \in Instances, NEW k \in Keys, NEW w \in Windows
  PROVE  LET here == i = req[r].inst /\ k = req[r].key /\ w = now
             count == Counted(MapFor(r)[req[r].key]).count
         IN  /\ ChargedShared(k, w)' = ChargedShared(k, w)
             /\ AdmittedShared(k, w)' = AdmittedShared(k, w)
             /\ ChargedAt(i, k, w)' =
                  IF here THEN ChargedAt(i, k, w) \cup {r} ELSE ChargedAt(i, k, w)
             /\ here => Cardinality(ChargedAt(i, k, w)') = count
             /\ AdmittedAt(i, k, w)' =
                  IF here /\ count <= Limit THEN AdmittedAt(i, k, w) \cup {r}
                  ELSE AdmittedAt(i, k, w)
<1> DEFINE count == Counted(MapFor(r)[req[r].key]).count
           fits == count <= Limit
           here == i = req[r].inst /\ k = req[r].key /\ w = now
<1>1. fits \in BOOLEAN /\ Ends(r, "local", now, fits)
  <2>1. fits \in BOOLEAN
    OBVIOUS
  <2>2. Ends(r, "local", now, fits)
    BY CountLocallyDoes
  <2> QED  BY <2>1, <2>2
<1>2. /\ r \notin Charged(k, w)
      /\ ChargedShared(k, w)' = ChargedShared(k, w)
      /\ AdmittedShared(k, w)' = AdmittedShared(k, w)
      /\ ChargedAt(i, k, w)' =
           IF here THEN ChargedAt(i, k, w) \cup {r} ELSE ChargedAt(i, k, w)
      /\ AdmittedAt(i, k, w)' =
           IF here /\ fits THEN AdmittedAt(i, k, w) \cup {r} ELSE AdmittedAt(i, k, w)
  <2> HIDE DEF fits
  <2> QED  BY <1>1, EndingIsCharged
<1>3. ASSUME here PROVE Cardinality(ChargedAt(i, k, w)') = count
  <2>1. Cardinality(ChargedAt(i, k, w)) = CountNow(local[i][k])
    BY <1>3 DEF LocalCounts
  <2>2. count = CountNow(local[i][k]) + 1
    BY <1>3, CountLocallyDoes
  <2>3. ChargedAt(i, k, w) \in SUBSET Reqs /\ r \in Reqs \ ChargedAt(i, k, w)
    BY <1>2, SetsOfRequests
  <2> QED  BY <1>2, <1>3, <2>1, <2>2, <2>3, Sizes
<1> QED  BY <1>2, <1>3

\* A request counted in Redis is charged there.
LEMMA SharedCharge ==
  ASSUME TypeOK, NEW r \in Reqs, CountInRedis(r), NEW k \in Keys, NEW w \in Windows
  PROVE  LET here == k = req[r].key /\ w = req[r].arrived
             count == shared[req[r].key][req[r].arrived].count + 1
         IN  /\ \A i : /\ ChargedAt(i, k, w)' = ChargedAt(i, k, w)
                      /\ AdmittedAt(i, k, w)' = AdmittedAt(i, k, w)
             /\ here => Cardinality(ChargedShared(k, w)') = Cardinality(ChargedShared(k, w)) + 1
             /\ ~here => ChargedShared(k, w)' = ChargedShared(k, w)
             /\ ~here \/ count > Limit => AdmittedShared(k, w)' = AdmittedShared(k, w)
<1> DEFINE count == shared[req[r].key][req[r].arrived].count + 1
           fits == count <= Limit
           here == k = req[r].key /\ w = req[r].arrived
<1>1. fits \in BOOLEAN /\ Ends(r, "redis", req[r].arrived, fits)
  BY CountInRedisDoes
<1>2. /\ r \notin Charged(k, w)
      /\ \A i : /\ ChargedAt(i, k, w)' = ChargedAt(i, k, w)
               /\ AdmittedAt(i, k, w)' = AdmittedAt(i, k, w)
      /\ ChargedShared(k, w)' =
           IF here THEN ChargedShared(k, w) \cup {r} ELSE ChargedShared(k, w)
      /\ AdmittedShared(k, w)' =
           IF here /\ fits THEN AdmittedShared(k, w) \cup {r} ELSE AdmittedShared(k, w)
  <2> HIDE DEF fits
  <2> QED  BY <1>1, EndingIsCharged
<1>3. ChargedShared(k, w) \in SUBSET Reqs /\ r \in Reqs \ ChargedShared(k, w)
  BY <1>2, SetsOfRequests
<1>4. count \in Nat /\ Limit \in Nat
  <2>1. shared[req[r].key][req[r].arrived] \in Counter
    BY IncrementedIs DEF TypeOK
  <2> QED  BY <2>1, LimitAssumption DEF Counter
<1> QED  BY <1>2, <1>3, <1>4, Sizes

LEMMA LocalCountsStay ==
  ASSUME TypeOK, Timely, LocalCounts, [Next]_vars
  PROVE  LocalCounts'
<1> SUFFICES ASSUME NEW i \in Instances, NEW k \in Keys, NEW w \in Windows, w = now'
             PROVE  Cardinality(ChargedAt(i, k, w)') =
                      IF local'[i][k].window = w THEN local'[i][k].count ELSE 0
  BY DEF LocalCounts, CountNow
<1>1. w = now => Cardinality(ChargedAt(i, k, w)) =
                   IF local[i][k].window = w THEN local[i][k].count ELSE 0
  BY DEF LocalCounts, CountNow
<1>2. CASE Tick
  <2>1. now \in Nat /\ w > now
    BY <1>2 DEF Tick, TypeOK, Windows
  <2>2. \A r \in Reqs : req[r].charged <= now /\ req[r].charged \in Nat
    BY DEF Timely, TypeOK, Request, Windows
  <2>3. ChargedAt(i, k, w)' = {}
    BY <1>2, <2>1, <2>2 DEF ChargedAt, Charged, Tick
  <2>4. local'[i][k].window # w
    BY <1>2, <2>1 DEF Tick, Timely, TypeOK, Bucket, NoBucket, Windows
  <2> QED  BY <2>3, <2>4, FS_EmptySet
<1>3. ASSUME NEW r \in Reqs, CountLocally(r)
      PROVE  Cardinality(ChargedAt(i, k, w)') =
               IF local'[i][k].window = w THEN local'[i][k].count ELSE 0
  <2>1. now' = now
    BY <1>3 DEF CountLocally
  <2>2. LET j == req[r].inst
            l == req[r].key
            bucket == Counted(MapFor(r)[l])
        IN  /\ j \in Instances /\ l \in Keys
            /\ local' = [local EXCEPT ![j] = [MapFor(r) EXCEPT ![l] = bucket]]
            /\ bucket.window = now
            /\ MapFor(r) \in [Keys -> Bucket]
            /\ \A x \in Keys : MapFor(r)[x] \in {local[j][x], NoBucket}
            /\ \A x \in Keys : MapFor(r)[x] # local[j][x] => local[j][x].window < now
    BY <1>3, CountLocallyDoes, CleanedKeeps DEF MapFor
  <2>3. CASE i = req[r].inst /\ k = req[r].key
    <3>1. Cardinality(ChargedAt(i, k, w)') = Counted(MapFor(r)[req[r].key]).count
      BY <1>3, <2>1, <2>3, LocalCharge
    <3>2. local'[i][k] = Counted(MapFor(r)[req[r].key])
      BY <2>2, <2>3 DEF TypeOK
    <3> QED  BY <2>1, <2>2, <3>1, <3>2
  <2>4. CASE i = req[r].inst /\ k # req[r].key
    <3>1. ChargedAt(i, k, w)' = ChargedAt(i, k, w)
      BY <1>3, <2>4, LocalCharge
    <3>2. local'[i][k] = MapFor(r)[k]
      BY <2>2, <2>4 DEF TypeOK
    <3>3. now \in Nat \ {0} /\ local[i][k].window \in Nat
      BY DEF TypeOK, Windows, Bucket, NoBucket
    <3> QED  BY <1>1, <2>1, <2>2, <2>4, <3>1, <3>2, <3>3 DEF NoBucket
  <2>5. CASE i # req[r].inst
    <3>1. ChargedAt(i, k, w)' = ChargedAt(i, k, w)
      BY <1>3, <2>5, LocalCharge
    <3>2. local'[i][k] = local[i][k]
      BY <2>2, <2>5 DEF TypeOK
    <3> QED  BY <1>1, <2>1, <3>1, <3>2
  <2> QED  BY <2>3, <2>4, <2>5
<1>4. ASSUME NEW r \in Reqs, CountInRedis(r)
      PROVE  Cardinality(ChargedAt(i, k, w)') =
               IF local'[i][k].window = w THEN local'[i][k].count ELSE 0
  BY <1>1, <1>4, SharedCharge DEF CountInRedis
<1>5. CASE SameCharges /\ local' = local /\ now' = now
  BY <1>1, <1>5 DEF SameCharges
<1>6. Tick \/ now' = now
  BY Steps DEF Arrive, CountInRedis, RedisFails, CountLocally, Expire, vars
<1> QED  BY <1>2, <1>3, <1>4, <1>5, <1>6, ChargeSteps

LEMMA LocalBudgetStays ==
  ASSUME TypeOK, LocalCounts, LocalBudget, [Next]_vars
  PROVE  LocalBudget'
<1> SUFFICES ASSUME NEW i \in Instances, NEW k \in Keys, NEW w \in Windows
             PROVE  Cardinality(AdmittedAt(i, k, w)') <= Limit
  BY DEF LocalBudget
<1>1. Cardinality(AdmittedAt(i, k, w)) <= Limit
  BY DEF LocalBudget
<1>2. ASSUME NEW r \in Reqs, CountLocally(r) PROVE Cardinality(AdmittedAt(i, k, w)') <= Limit
  <2> DEFINE count == Counted(MapFor(r)[req[r].key]).count
  <2>1. CASE i = req[r].inst /\ k = req[r].key /\ w = now /\ count <= Limit
    <3>1. Cardinality(ChargedAt(i, k, w)') = count
      BY <1>2, <2>1, LocalCharge
    <3>2. /\ ChargedAt(i, k, w)' \in SUBSET Reqs
          /\ AdmittedAt(i, k, w)' \in SUBSET (ChargedAt(i, k, w)')
      BY DEF ChargedAt, AdmittedAt, Charged
    <3>3. /\ Cardinality(AdmittedAt(i, k, w)') \in Nat
          /\ Cardinality(AdmittedAt(i, k, w)') <= Cardinality(ChargedAt(i, k, w)')
      BY <3>2, Sizes
    <3>4. count \in Nat /\ Limit \in Nat
      BY <1>2, CountLocallyDoes, LimitAssumption
    <3> QED  BY <2>1, <3>1, <3>3, <3>4
  <2>2. CASE ~(i = req[r].inst /\ k = req[r].key /\ w = now /\ count <= Limit)
    BY <1>1, <1>2, <2>2, LocalCharge
  <2> QED  BY <2>1, <2>2
<1>3. ASSUME NEW r \in Reqs, CountInRedis(r) PROVE Cardinality(AdmittedAt(i, k, w)') <= Limit
  BY <1>1, <1>3, SharedCharge
<1>4. CASE SameCharges
  BY <1>1, <1>4 DEF SameCharges
<1> QED  BY <1>2, <1>3, <1>4, ChargeSteps

\* A counter that calls on their way may still increment is not dropped: it was
\* touched in its window or later, and is kept for two windows from there.
LEMMA SharedCountsStay ==
  ASSUME Retention >= 2, TypeOK, Timely, Touched, SharedCounts, [Next]_vars
  PROVE  SharedCounts'
<1> SUFFICES ASSUME NEW k \in Keys, NEW w \in Windows, w + 1 >= now'
             PROVE  Cardinality(ChargedShared(k, w)') <= shared'[k][w].count
  BY DEF SharedCounts
<1>1. /\ now \in Nat /\ w \in Nat /\ Retention \in Nat
      /\ shared[k][w].count \in Nat /\ shared[k][w].touched \in Nat
  BY SizesAssumption DEF TypeOK, Windows, Counter
<1>2. w + 1 >= now
  <2>1. now' = now \/ now' = now + 1
    BY Steps DEF Arrive, CountInRedis, RedisFails, CountLocally, Tick, Expire, vars
  <2> QED  BY <1>1, <2>1
<1>3. /\ Cardinality(ChargedShared(k, w)) \in Nat
      /\ Cardinality(ChargedShared(k, w)) <= shared[k][w].count
  <2>1. ChargedShared(k, w) \in SUBSET Reqs
    BY SetsOfRequests
  <2> QED  BY <1>2, <2>1, Sizes DEF SharedCounts
<1>4. shared[k][w].count <= shared'[k][w].count
  <2>1. CASE shared'[k][w] = shared[k][w]
    BY <1>1, <2>1
  <2>2. CASE shared'[k][w] = [count |-> shared[k][w].count + 1, touched |-> now]
    BY <1>1, <2>2
  <2>3. CASE Outdated(shared[k][w])
    BY <1>1, <1>2, <2>3 DEF Outdated, Touched
  <2> QED  BY <2>1, <2>2, <2>3, CounterSteps
<1>5. ASSUME ChargedShared(k, w)' = ChargedShared(k, w)
      PROVE  Cardinality(ChargedShared(k, w)') <= shared'[k][w].count
  <2>1. shared'[k][w].count \in Nat
    BY TypeStays DEF TypeOK, Counter
  <2> QED  BY <1>1, <1>3, <1>4, <1>5, <2>1
<1>6. ASSUME NEW r \in Reqs, CountInRedis(r)
      PROVE  Cardinality(ChargedShared(k, w)') <= shared'[k][w].count
  <2>1. CASE k = req[r].key /\ w = req[r].arrived
    <3>1. shared'[k][w].count = shared[k][w].count + 1
      <4>1. shared' = Incremented(r)
        BY <1>6, CountInRedisDoes
      <4>2. Incremented(r)[k][w] = [count |-> shared[k][w].count + 1, touched |-> now]
        BY <2>1, IncrementedIs
      <4> QED  BY <4>1, <4>2
    <3>2. Cardinality(ChargedShared(k, w)') = Cardinality(ChargedShared(k, w)) + 1
      BY <1>6, <2>1, SharedCharge
    <3> QED  BY <1>1, <1>3, <3>1, <3>2
  <2>2. CASE ~(k = req[r].key /\ w = req[r].arrived)
    BY <1>5, <1>6, <2>2, SharedCharge
  <2> QED  BY <2>1, <2>2
<1>7. ASSUME NEW r \in Reqs, CountLocally(r) PROVE ChargedShared(k, w)' = ChargedShared(k, w)
  <2>1. PICK fits : Ends(r, "local", now, fits)
    BY <1>7, CountLocallyDoes
  <2> QED  BY <2>1 DEF ChargedShared, Charged, Ends, Moves
<1>8. CASE SameCharges
  BY <1>5, <1>8 DEF SameCharges
<1> QED  BY <1>5, <1>6, <1>7, <1>8, ChargeSteps

LEMMA SharedBudgetStays ==
  ASSUME TypeOK, Timely, SharedCounts, SharedBudget, [Next]_vars
  PROVE  SharedBudget'
<1> SUFFICES ASSUME NEW k \in Keys, NEW w \in Windows
             PROVE  Cardinality(AdmittedShared(k, w)') <= Limit
  BY DEF SharedBudget
<1>1. Cardinality(AdmittedShared(k, w)) <= Limit
  BY DEF SharedBudget
<1>2. ASSUME NEW r \in Reqs, CountInRedis(r) PROVE Cardinality(AdmittedShared(k, w)') <= Limit
  <2> DEFINE count == shared[req[r].key][req[r].arrived].count + 1
  <2>1. CASE k = req[r].key /\ w = req[r].arrived /\ count <= Limit
    <3>1. w + 1 >= now
      BY <1>2, <2>1, CountInRedisDoes DEF Timely
    <3>2. Cardinality(ChargedShared(k, w)) + 1 = Cardinality(ChargedShared(k, w)')
      BY <1>2, <2>1, SharedCharge
    <3>3. Cardinality(ChargedShared(k, w)) <= shared[k][w].count
      BY <3>1 DEF SharedCounts
    <3>4. /\ ChargedShared(k, w)' \in SUBSET Reqs
          /\ AdmittedShared(k, w)' \in SUBSET (ChargedShared(k, w)')
      BY DEF ChargedShared, AdmittedShared, Charged
    <3>5. /\ Cardinality(AdmittedShared(k, w)') \in Nat
          /\ Cardinality(AdmittedShared(k, w)') <= Cardinality(ChargedShared(k, w)')
      BY <3>4, Sizes
    <3>6. Cardinality(ChargedShared(k, w)) \in Nat
      BY SetsOfRequests, Sizes
    <3>7. shared[k][w].count \in Nat /\ Limit \in Nat
      BY LimitAssumption DEF TypeOK, Counter
    <3> QED  BY <2>1, <3>2, <3>3, <3>5, <3>6, <3>7
  <2>2. CASE ~(k = req[r].key /\ w = req[r].arrived)
    BY <1>1, <1>2, <2>2, SharedCharge
  <2>3. CASE ~(count <= Limit)
    <3>1. count \in Nat /\ Limit \in Nat
      <4>1. shared[req[r].key][req[r].arrived] \in Counter
        BY IncrementedIs DEF TypeOK
      <4> QED  BY <4>1, LimitAssumption DEF Counter
    <3>2. count > Limit
      BY <2>3, <3>1
    <3> QED  BY <1>1, <1>2, <3>2, SharedCharge
  <2> QED  BY <2>1, <2>2, <2>3
<1>3. ASSUME NEW r \in Reqs, CountLocally(r)
      PROVE  AdmittedShared(k, w)' = AdmittedShared(k, w)
  <2>1. PICK fits : Ends(r, "local", now, fits)
    BY <1>3, CountLocallyDoes
  <2> QED  BY <2>1 DEF AdmittedShared, ChargedShared, Charged, Ends, Moves
<1>4. CASE SameCharges
  BY <1>1, <1>4 DEF SameCharges
<1> QED  BY <1>1, <1>2, <1>3, <1>4, ChargeSteps

\* Requests charged to a place stay charged to it.
LEMMA ChargesStay ==
  ASSUME TypeOK, [Next]_vars, NEW q \in Reqs, req[q].phase = "done"
  PROVE  /\ req'[q] = req[q]
         /\ \A i, k, w : ChargedAt(i, k, w) \subseteq ChargedAt(i, k, w)'
<1>1. \A r \in Reqs : req[r].phase = "done" => req'[r] = req[r]
  <2>1. CASE \E r \in Reqs : CountLocally(r)
    <3>1. PICK r \in Reqs : CountLocally(r)
      BY <2>1
    <3>2. PICK fits : Ends(r, "local", now, fits)
      BY <3>1, CountLocallyDoes
    <3> QED  BY <3>2 DEF Ends, Moves
  <2>2. CASE \E r \in Reqs : CountInRedis(r)
    <3>1. PICK r \in Reqs : CountInRedis(r)
      BY <2>2
    <3>2. PICK window, fits : Ends(r, "redis", window, fits)
      BY <3>1, CountInRedisDoes
    <3> QED  BY <3>2 DEF Ends, Moves
  <2>3. CASE \E r \in Reqs : Waits(r)
    BY <2>3 DEF Waits, Moves
  <2>4. CASE UNCHANGED req
    BY <2>4
  <2> QED
    BY <2>1, <2>2, <2>3, <2>4, Steps, ArriveDoes, RedisFailsDoes DEF Tick, Expire, vars
<1> QED  BY <1>1 DEF ChargedAt, Charged

LEMMA RefusalsStay ==
  ASSUME TypeOK, LocalCounts, SharedRivals, Timely, RefusedOnlyOverBudget, [Next]_vars
  PROVE  RefusedOnlyOverBudget'
<1> DEFINE Asked(q) == IF req[q].via = "local"
                       THEN ChargedAt(req[q].inst, req[q].key, req[q].charged)
                       ELSE Rivals(req[q].key, req[q].charged)
<1>1. RefusedOnlyOverBudget <=>
        \A q \in Reqs : req[q].phase = "done" /\ ~req[q].admitted => Cardinality(Asked(q)) > Limit
  BY DEF RefusedOnlyOverBudget, Rivals
<1>2. RefusedOnlyOverBudget' <=>
        \A q \in Reqs : req'[q].phase = "done" /\ ~req'[q].admitted =>
                        Cardinality(Asked(q)') > Limit
  BY DEF RefusedOnlyOverBudget, Rivals
<1>3. \A q : Asked(q) \in SUBSET Reqs /\ Asked(q)' \in SUBSET Reqs
  BY DEF ChargedAt, Charged, Rivals
<1>4. Limit \in Nat
  BY LimitAssumption
<1> SUFFICES ASSUME NEW q \in Reqs, req'[q].phase = "done", ~req'[q].admitted
             PROVE  Cardinality(Asked(q)') > Limit
  BY <1>2
<1>5. CASE req[q].phase = "done"
  <2>1. req'[q] = req[q] /\ Asked(q) \subseteq Asked(q)'
    BY <1>5, ChargesStay, RivalsStay
  <2>2. Cardinality(Asked(q)) > Limit
    BY <1>1, <1>5, <2>1
  <2>3. /\ Cardinality(Asked(q)) \in Nat /\ Cardinality(Asked(q)') \in Nat
        /\ Cardinality(Asked(q)) <= Cardinality(Asked(q)')
    BY <1>3, <2>1, Sizes
  <2> HIDE DEF Asked
  <2> QED  BY <1>4, <2>2, <2>3
<1>6. CASE CountLocally(q)
  <2> DEFINE count == Counted(MapFor(q)[req[q].key]).count
             fits == count <= Limit
  <2>1. /\ req[q].inst \in Instances /\ req[q].key \in Keys
        /\ count \in Nat
        /\ now \in Windows
    BY <1>6, CountLocallyDoes DEF TypeOK
  <2>2. Ends(q, "local", now, fits)
    BY <1>6, CountLocallyDoes
  <2>3. ~fits
    <3> HIDE DEF fits
    <3> QED  BY <2>2 DEF Ends
  <2>4. PICK i \in Instances, k \in Keys, w \in Windows :
          i = req[q].inst /\ k = req[q].key /\ w = now
    BY <2>1
  <2>5. Asked(q)' = ChargedAt(i, k, w)'
    BY <2>2, <2>4 DEF Ends, Moves, ChargedAt, Charged
  <2>6. Cardinality(ChargedAt(i, k, w)') = count
    BY <1>6, <2>4, LocalCharge
  <2> HIDE DEF Asked, count
  <2> QED  BY <1>4, <2>1, <2>3, <2>5, <2>6
<1>7. CASE CountInRedis(q)
  <2> DEFINE k == req[q].key
             w == req[q].arrived
             fits == shared[k][w].count + 1 <= Limit
  <2>1. k \in Keys /\ w \in Windows /\ shared[k][w].count \in Nat
    <3>1. k \in Keys /\ w \in Windows
      BY IncrementedIs
    <3> QED  BY <3>1 DEF TypeOK, Counter
  <2>2. Ends(q, "redis", w, fits)
    BY <1>7, CountInRedisDoes
  <2>3. ~fits
    <3> HIDE DEF fits
    <3> QED  BY <2>2 DEF Ends
  <2>4. Rivals(k, w) \cup {q} \subseteq Asked(q)' /\ q \notin Rivals(k, w)
    <3>1. \A l, x : Rivals(l, x) \subseteq Rivals(l, x)'
      BY RivalsStay
    <3>2. Rivals(k, w) \subseteq Asked(q)'
      BY <2>2, <3>1 DEF Ends, Moves, Rivals
    <3>3. q \in Asked(q)'
      BY <2>2 DEF Ends, Moves, Rivals
    <3>4. q \notin Rivals(k, w)
      BY <1>7, CountInRedisDoes DEF Rivals
    <3> QED  BY <3>2, <3>3, <3>4
  <2>5. /\ Cardinality(Rivals(k, w)) \in Nat /\ Cardinality(Asked(q)') \in Nat
        /\ Cardinality(Rivals(k, w)) + 1 <= Cardinality(Asked(q)')
    <3>1. /\ Rivals(k, w) \in SUBSET Reqs /\ q \in Reqs \ Rivals(k, w)
          /\ Rivals(k, w) \cup {q} \in SUBSET (Asked(q)')
          /\ Asked(q)' \in SUBSET Reqs
      BY <1>3, <2>4 DEF Rivals
    <3> HIDE DEF Asked, k, w
    <3> QED  BY <3>1, Sizes
  <2>6. shared[k][w].count <= Cardinality(Rivals(k, w))
    BY <2>1 DEF SharedRivals
  <2>7. shared[k][w].count + 1 > Limit
    BY <1>4, <2>1, <2>3
  <2> HIDE DEF Asked, k, w, fits
  <2> QED  BY <1>4, <2>1, <2>5, <2>6, <2>7
<1>8. \/ req[q].phase = "done"
      \/ CountLocally(q)
      \/ CountInRedis(q)
  <2>1. CASE \E r \in Reqs : CountLocally(r)
    <3>1. PICK r \in Reqs : CountLocally(r)
      BY <2>1
    <3>2. PICK fits : Ends(r, "local", now, fits)
      BY <3>1, CountLocallyDoes
    <3> QED  BY <3>1, <3>2 DEF Ends, Moves
  <2>2. CASE \E r \in Reqs : CountInRedis(r)
    <3>1. PICK r \in Reqs : CountInRedis(r)
      BY <2>2
    <3>2. PICK window, fits : Ends(r, "redis", window, fits)
      BY <3>1, CountInRedisDoes
    <3> QED  BY <3>1, <3>2 DEF Ends, Moves
  <2>3. CASE \E r \in Reqs : Waits(r)
    BY <2>3 DEF Waits, Moves
  <2>4. CASE UNCHANGED req
    BY <2>4
  <2> QED
    BY <2>1, <2>2, <2>3, <2>4, Steps, ArriveDoes, RedisFailsDoes DEF Tick, Expire, vars
<1> QED  BY <1>5, <1>6, <1>7, <1>8

LEMMA StaleStays ==
  ASSUME TypeOK, Timely, StaleBucketsBounded, [Next]_vars
  PROVE  StaleBucketsBounded'
<1> DEFINE Stale(i) == {k \in Tracked(local[i]) :
                          \E n \in Keys : local[i][n].window > local[i][k].window}
<1>1. \A i \in Instances : Cardinality(Stale(i)) < MaxTracked
  BY DEF StaleBucketsBounded
<1> SUFFICES ASSUME NEW i \in Instances PROVE Cardinality(Stale(i)') < MaxTracked
  BY DEF StaleBucketsBounded
<1>2. ASSUME local'[i] = local[i] PROVE Cardinality(Stale(i)') < MaxTracked
  <2>1. Stale(i)' = Stale(i)
    BY <1>2 DEF Tracked
  <2> HIDE DEF Stale
  <2> QED  BY <1>1, <2>1
<1>3. ASSUME NEW r \in Reqs, CountLocally(r) PROVE Cardinality(Stale(i)') < MaxTracked
  <2>1. PICK k \in Keys, bucket \in [window : {now}, count : Nat \ {0}] :
          /\ req[r].inst \in Instances
          /\ local' = [local EXCEPT ![req[r].inst] = [MapFor(r) EXCEPT ![k] = bucket]]
    BY <1>3, CountLocallyDoes
  <2>2. CASE i # req[r].inst
    BY <1>2, <2>1, <2>2 DEF TypeOK
  <2>3. CASE i = req[r].inst
    <3>1. /\ Cleaned(local[i]) \in [Keys -> Bucket]
          /\ local'[i] = [Cleaned(local[i]) EXCEPT ![k] = bucket]
      BY <2>1, <2>3, CleanedKeeps DEF TypeOK, MapFor
    <3>2. /\ local'[i][k].window = now
          /\ \A l \in Keys \ {k} : local'[i][l] = Cleaned(local[i])[l]
      BY <2>1, <3>1
    <3>3. now \in Nat \ {0} /\ \A l \in Keys : local[i][l].window \in Nat
      BY DEF TypeOK, Windows, Bucket, NoBucket
    <3>4. \A l \in Keys : Cleaned(local[i])[l].window \in Nat /\ Cleaned(local[i])[l].window <= now
      BY <3>3, CleanedKeeps DEF Timely, NoBucket
    <3>5. \A l \in Keys : local'[i][l].window \in Nat /\ local'[i][l].window <= now
      BY <3>2, <3>3, <3>4
    <3>6. \A l \in Stale(i)' : /\ l \in Keys /\ l # k
                              /\ local'[i][l].window < now /\ local'[i][l] # NoBucket
      BY <3>2, <3>3, <3>5 DEF Tracked
    <3>7. CASE Cleaned(local[i]) = local[i] /\ Cardinality(Tracked(local[i])) < MaxTracked
      <4>1. Stale(i)' \in SUBSET Tracked(local[i])
        <5> SUFFICES ASSUME NEW l \in Stale(i)' PROVE l \in Tracked(local[i])
          OBVIOUS
        <5> HIDE DEF Stale
        <5> QED  BY <3>2, <3>6, <3>7 DEF Tracked
      <4>2. IsFiniteSet(Tracked(local[i]))
        BY FiniteAssumption, FS_Subset DEF Tracked
      <4>3. /\ Cardinality(Stale(i)') <= Cardinality(Tracked(local[i]))
            /\ Cardinality(Stale(i)') \in Nat /\ Cardinality(Tracked(local[i])) \in Nat
        <5> HIDE DEF Stale
        <5> QED  BY <4>1, <4>2, FS_Subset, FS_CardinalityType
      <4> HIDE DEF Stale
      <4> QED  BY <3>7, <4>3, SizesAssumption
    <3>8. CASE \A l \in Keys : Cleaned(local[i])[l].window < now => Cleaned(local[i])[l] = NoBucket
      <4>1. Stale(i)' = {}
        <5> HIDE DEF Stale
        <5> QED  BY <3>2, <3>6, <3>8
      <4> HIDE DEF Stale
      <4> QED  BY <4>1, FS_EmptySet, SizesAssumption
    <3> QED  BY <3>7, <3>8, CleanedKeeps
  <2> QED  BY <2>2, <2>3
<1> HIDE DEF Stale
<1> QED
  BY <1>2, <1>3, Steps DEF Arrive, CountInRedis, RedisFails, Tick, Expire, vars

-----------------------------------------------------------------------------
(* The invariant.                                                          *)

LEMMA Initial ==
  ASSUME Init
  PROVE  IInv
<1>1. TypeOK
  BY SizesAssumption DEF Init, TypeOK, Windows, Counter, NoCounter, Bucket, NoBucket
<1>2. \A r \in Reqs : /\ req[r] \in Request /\ req[r].phase = "idle"
                     /\ req[r].arrived = 1 /\ req[r].charged = 1
  BY DEF Init
<1>3. \A k, w : /\ Charged(k, w) = {} /\ ChargedShared(k, w) = {} /\ AdmittedShared(k, w) = {}
               /\ \A i : ChargedAt(i, k, w) = {} /\ AdmittedAt(i, k, w) = {}
  BY <1>2 DEF Charged, ChargedShared, AdmittedShared, ChargedAt, AdmittedAt
<1>4. \A k \in Keys, w \in Windows : Cardinality(Rivals(k, w)) \in Nat
  BY SetsOfRequests, Sizes
<1>5. Cardinality({}) = 0
  BY FS_EmptySet
<1>6. Timely
  BY <1>2 DEF Timely, Init, NoBucket
<1>7. Touched /\ SharedRivals
  BY <1>4 DEF Touched, SharedRivals, Init, NoCounter
<1>8. LocalCounts
  BY <1>3, <1>5 DEF LocalCounts, CountNow, Init, NoBucket
<1>9. LocalBudget /\ SharedBudget
  BY <1>3, <1>5, LimitAssumption DEF LocalBudget, SharedBudget
<1>10. SharedCounts
  <2>1. \A k \in Keys, w \in Windows : shared[k][w].count = 0
    BY DEF Init, NoCounter
  <2>2. \A k, w : Cardinality(ChargedShared(k, w)) = 0
    BY <1>3, <1>5
  <2> QED  BY <2>1, <2>2 DEF SharedCounts
<1>11. RefusedOnlyOverBudget
  BY <1>2 DEF RefusedOnlyOverBudget
<1>12. StaleBucketsBounded
  <2>1. \A i \in Instances : Tracked(local[i]) = {}
    BY DEF Init, Tracked
  <2> QED  BY <2>1, <1>5, SizesAssumption DEF StaleBucketsBounded
<1> QED
  BY <1>1, <1>6, <1>7, <1>8, <1>9, <1>10, <1>11, <1>12 DEF IInv, Counters

\* Each counter, in Redis and in the maps, agrees in every reachable state with
\* the requests that were charged to it, if Redis keeps it for two windows.
THEOREM CountersAgree ==
  ASSUME Retention >= 2
  PROVE  Spec => []IInv
<1>1. Init => IInv
  BY Initial
<1>2. IInv /\ [Next]_vars => IInv'
  BY TypeStays, TimelyStays, TouchedStays, LocalCountsStay, LocalBudgetStays,
     SharedCountsStay, SharedRivalsStay, SharedBudgetStays, RefusalsStay, StaleStays
     DEF IInv, Counters
<1> QED  BY <1>1, <1>2, PTL DEF Spec

\* Redis, and the map of each instance, hands out the budget of a key and window
\* at most once, whatever is lost, late, expired or cleaned up.
THEOREM BudgetHandedOutOnce ==
  ASSUME Retention >= 2
  PROVE  Spec => []AdmittedWithinBudget
<1>1. IInv => AdmittedWithinBudget
  BY DEF IInv, Counters, LocalBudget, SharedBudget, AdmittedWithinBudget
<1> QED  BY <1>1, CountersAgree, PTL

\* Nobody is refused whose place and window still had budget.
THEOREM NobodyRefusedEarly ==
  ASSUME Retention >= 2
  PROVE  Spec => []RefusedOnlyOverBudget
<1>1. IInv => RefusedOnlyOverBudget
  BY DEF IInv
<1> QED  BY <1>1, CountersAgree, PTL

\* The map of an instance never keeps MaxTracked stale buckets.
THEOREM StaleBucketsDropped ==
  ASSUME Retention >= 2
  PROVE  Spec => []StaleBucketsBounded
<1>1. IInv => StaleBucketsBounded
  BY DEF IInv
<1> QED  BY <1>1, CountersAgree, PTL

\* All variables of the limiter hold values of their types.
THEOREM TypeCorrect ==
  ASSUME Retention >= 2
  PROVE  Spec => []TypeOK
<1>1. IInv => TypeOK
  BY DEF IInv, Counters
<1> QED  BY <1>1, CountersAgree, PTL
=============================================================================
