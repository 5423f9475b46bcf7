---------------------------- MODULE RateLimiter ----------------------------
(***************************************************************************)
(* The request limiter in front of every /api route, as several backend    *)
(* instances run it.  Requests of one key (a client on a route) are        *)
(* counted per one-minute window in Redis, which the instances share.  An  *)
(* instance whose call to Redis fails counts the request in a map of its   *)
(* own instead; the call may have been applied all the same.  Each request *)
(* is admitted if its own count is within the limit.                       *)
(*                                                                         *)
(* Time is the number of the current window.  It may move on between the   *)
(* steps of a request: the clock is read once for the name of the Redis    *)
(* key and once more under the lock of the map.                            *)
(***************************************************************************)
EXTENDS Naturals, FiniteSets

CONSTANTS
  Reqs,         \* the requests, each sent once
  Keys,         \* client address and route
  Instances,    \* the backend processes
  RedisEnabled, \* whether REDIS_ADDR is configured
  Limit,        \* REQUEST_LIMIT
  MaxTracked,   \* buckets of a map beyond which stale ones are dropped (512)
  Retention,    \* windows a Redis counter is kept after its last increment (2)
  MaxWindow     \* bound of the model: the last window

ASSUME LimitAssumption == Limit \in Nat \ {0}
ASSUME SizesAssumption ==
  MaxTracked \in Nat \ {0} /\ Retention \in Nat \ {0} /\ MaxWindow \in Nat \ {0}
ASSUME FiniteAssumption ==
  IsFiniteSet(Reqs) /\ IsFiniteSet(Keys) /\ IsFiniteSet(Instances)
ASSUME RedisAssumption == RedisEnabled \in BOOLEAN

VARIABLES
  now,    \* the current window
  shared, \* the Redis counters, one for each key and window
  local,  \* for each instance, its map from keys to buckets
  req     \* for each request, how far it is and what became of it

vars == <<now, shared, local, req>>

-----------------------------------------------------------------------------
Windows == 1 .. MaxWindow

Counter == [count : Nat, touched : {0} \cup Windows]
NoCounter == [count |-> 0, touched |-> 0]

\* The zero bucket of a key that is not in the map.
NoBucket == [window |-> 0, count |-> 0]
Bucket == {NoBucket} \cup [window : Windows, count : Nat \ {0}]

Request == [phase : {"idle", "redis", "local", "done"},
            key : Keys, inst : Instances, arrived : Windows,
            via : {"redis", "local"}, charged : Windows, admitted : BOOLEAN]

Init ==
  /\ now = 1
  /\ shared = [k \in Keys |-> [w \in Windows |-> NoCounter]]
  /\ local = [i \in Instances |-> [k \in Keys |-> NoBucket]]
  /\ req \in [Reqs -> {q \in Request : /\ q.phase = "idle" /\ q.arrived = 1 /\ q.charged = 1
                                       /\ q.via = "local" /\ ~q.admitted}]

Tracked(map) == {k \in Keys : map[k] # NoBucket}

-----------------------------------------------------------------------------
\* The name of the Redis key is fixed here, with the window of this moment.
Arrive(r) ==
  /\ req[r].phase = "idle"
  /\ req' = [req EXCEPT ![r].phase = IF RedisEnabled THEN "redis" ELSE "local",
                        ![r].arrived = now]
  /\ UNCHANGED <<now, shared, local>>

\* The request is let through if its own count is within the limit.
Decide(r, via, window, count) ==
  req' = [req EXCEPT ![r].phase = "done", ![r].via = via, ![r].charged = window,
                     ![r].admitted = count <= Limit]

\* INCR and EXPIRE in one transaction.
Incremented(r) ==
  [shared EXCEPT ![req[r].key][req[r].arrived] = [count |-> @.count + 1, touched |-> now]]

CountInRedis(r) ==
  /\ req[r].phase = "redis"
  /\ shared' = Incremented(r)
  /\ Decide(r, "redis", req[r].arrived,
            shared[req[r].key][req[r].arrived].count + 1)
  /\ UNCHANGED <<now, local>>

\* The call fails: it did not reach Redis, or its reply was lost.
RedisFails(r) ==
  /\ req[r].phase = "redis"
  /\ shared' \in {shared, Incremented(r)}
  /\ req' = [req EXCEPT ![r].phase = "local"]
  /\ UNCHANGED <<now, local>>

\* Mutants: the buckets of the current window are dropped with the stale ones,
\* and the map is cleaned one bucket too late.
CleanedWithCurrent(map) ==
  IF Cardinality(Tracked(map)) < MaxTracked THEN map
  ELSE [k \in Keys |-> IF map[k].window <= now THEN NoBucket ELSE map[k]]

CleanedLater(map) ==
  IF Cardinality(Tracked(map)) <= MaxTracked THEN map
  ELSE [k \in Keys |-> IF map[k].window < now THEN NoBucket ELSE map[k]]

Cleaned(map) ==
  IF Cardinality(Tracked(map)) < MaxTracked THEN map
  ELSE [k \in Keys |-> IF map[k].window < now THEN NoBucket ELSE map[k]]

\* Mutants: the bucket of an earlier window is counted on, and a new bucket is
\* left without its window.
CountedOn(bucket) == [window |-> now, count |-> bucket.count + 1]
CountedUnstamped(bucket) ==
  IF bucket.window = now THEN [bucket EXCEPT !.count = @ + 1]
  ELSE [window |-> 0, count |-> 1]

Counted(bucket) ==
  IF bucket.window = now THEN [bucket EXCEPT !.count = @ + 1]
  ELSE [window |-> now, count |-> 1]

\* All under the mutex of the instance.
CountLocally(r) ==
  LET i == req[r].inst
      k == req[r].key
      map == Cleaned(local[i])
      bucket == Counted(map[k])
  IN  /\ req[r].phase = "local"
      /\ local' = [local EXCEPT ![i] = [map EXCEPT ![k] = bucket]]
      /\ Decide(r, "local", now, bucket.count)
      /\ UNCHANGED <<now, shared>>

-----------------------------------------------------------------------------
\* A minute begins.  Bound of the model: a call to Redis takes less than one,
\* so no call is still under way that was begun in an earlier window.
Tick ==
  /\ now < MaxWindow
  /\ \A r \in Reqs : req[r].phase = "redis" => req[r].arrived = now
  /\ now' = now + 1
  /\ UNCHANGED <<shared, local, req>>

Outdated(counter) == counter.count > 0 /\ now >= counter.touched + Retention

Expire(k, w) ==
  /\ Outdated(shared[k][w])
  /\ shared' = [shared EXCEPT ![k][w] = NoCounter]
  /\ UNCHANGED <<now, local, req>>

Next ==
  \/ \E r \in Reqs : Arrive(r) \/ CountInRedis(r) \/ RedisFails(r) \/ CountLocally(r)
  \/ Tick
  \/ \E k \in Keys, w \in Windows : Expire(k, w)

Spec == Init /\ [][Next]_vars

-----------------------------------------------------------------------------
\* All variables hold values of their types; a bucket in a map has a window.
TypeOK ==
  /\ now \in Windows
  /\ shared \in [Keys -> [Windows -> Counter]]
  /\ local \in [Instances -> [Keys -> Bucket]]
  /\ req \in [Reqs -> Request]

Charged(k, w) ==
  {r \in Reqs : req[r].phase = "done" /\ req[r].key = k /\ req[r].charged = w}

ChargedAt(i, k, w) == {r \in Charged(k, w) : req[r].via = "local" /\ req[r].inst = i}

ChargedShared(k, w) == {r \in Charged(k, w) : req[r].via = "redis"}

AdmittedAt(i, k, w) == {r \in ChargedAt(i, k, w) : req[r].admitted}
AdmittedShared(k, w) == {r \in ChargedShared(k, w) : req[r].admitted}

\* The limit is a budget per key, window and place that counts: Redis hands it
\* out once for all instances together, and so does the map of each instance
\* that had to fall back on it.  No loss, no late reply, no expiry and no
\* clean-up makes a place hand out more.
AdmittedWithinBudget ==
  \A k \in Keys, w \in Windows :
    /\ Cardinality(AdmittedShared(k, w)) <= Limit
    /\ \A i \in Instances : Cardinality(AdmittedAt(i, k, w)) <= Limit

\* Nobody is turned away early: a refused request is one of more than Limit
\* that asked for the budget of its place and window, the ones whose count in
\* Redis was applied without a reply included.
RefusedOnlyOverBudget ==
  \A r \in Reqs : req[r].phase = "done" /\ ~req[r].admitted =>
    LET k == req[r].key
        w == req[r].charged
        rivals == IF req[r].via = "local" THEN ChargedAt(req[r].inst, k, w)
                  ELSE {q \in Reqs : /\ req[q].phase \in {"local", "done"}
                                     /\ req[q].key = k /\ req[q].arrived = w}
    IN  Cardinality(rivals) > Limit

\* Old buckets do not pile up: fewer than MaxTracked of the buckets of a map
\* are older than its newest one.
StaleBucketsBounded ==
  \A i \in Instances :
    LET stale == {k \in Tracked(local[i]) :
                    \E n \in Keys : local[i][n].window > local[i][k].window}
    IN  Cardinality(stale) < MaxTracked
=============================================================================
