------------------------------ MODULE RateLimit ------------------------------
(***************************************************************************)
(* The limit on failed authentications (api/rate_limit.rs, the same code in *)
(* warp-gateway and wist-center) and the handlers around it: a request     *)
(* checks its bucket, verifies the credential, and records the failure or  *)
(* clears the bucket.  The check and the record are separate critical      *)
(* sections, and each reads the clock before it takes the lock, so another *)
(* request may get in between with a later time.                           *)
(***************************************************************************)
EXTENDS Integers, FiniteSets

CONSTANTS
    Keys,           \* scope:client pairs
    Handlers,       \* requests served at the same time
    MaxFailures,    \* MAX_FAILURES_PER_WINDOW
    Window,         \* FAILURE_WINDOW
    Block,          \* BLOCK_DURATION
    MaxBuckets,     \* MAX_BUCKETS
    MaxTime         \* bound: how far the clock runs

ASSUME LimitAssumption ==
    /\ MaxFailures \in Nat \ {0}
    /\ Window \in Nat
    /\ Block \in Nat \ {0}
    /\ MaxBuckets \in Nat \ {0}
    /\ MaxTime \in Nat
ASSUME HandlersAssumption == IsFiniteSet(Handlers)

VARIABLES
    buckets,    \* a bucket per key; one with no failures is not in the map
    now,        \* the clock
    req         \* what each request is doing, for which key, the time it read

\* History: the block last imposed on a key, and the first failure behind it,
\* until a success or an eviction lifts it.
VARIABLE imposed

vars == <<buckets, now, req, imposed>>

NoBucket == [failures |-> 0, first |-> 0, until |-> 0]
NoBlock == [first |-> 0, until |-> 0]
Idle == [pc |-> "idle", key |-> "none", time |-> 0]

Present(k) == buckets[k].failures > 0
Tracked == {k \in Keys : Present(k)}

\* Instant::duration_since, which saturates at zero.
Since(time, first) == IF time > first THEN time - first ELSE 0

Init ==
    /\ buckets = [k \in Keys |-> NoBucket]
    /\ now = 0
    /\ req = [h \in Handlers |-> Idle]
    /\ imposed = [k \in Keys |-> NoBlock]

-----------------------------------------------------------------------------
\* check_rate_limit, before the lock
Arrive(h, k) ==
    /\ req[h].pc = "idle"
    /\ req' = [req EXCEPT ![h] = [pc |-> "check", key |-> k, time |-> now]]
    /\ UNCHANGED <<buckets, now, imposed>>

MutBlockedTooShort(bucket, time) == Since(time, bucket.first) <= Window /\ bucket.until > time + 1
MutBlockedAtLimitOnly(bucket, time) ==
    Since(time, bucket.first) <= Window /\ bucket.until > time /\ bucket.failures = MaxFailures
Blocked(bucket, time) == Since(time, bucket.first) <= Window /\ bucket.until > time

\* A bucket whose window or block is over
Outdated(bucket, time) ==
    \/ Since(time, bucket.first) > Window
    \/ bucket.until # 0 /\ bucket.until <= time

\* check_rate_limit: the request is refused ...
CheckRefused(h) ==
    LET r == req[h]
    IN  /\ r.pc = "check"
        /\ Present(r.key) /\ Blocked(buckets[r.key], r.time)
        /\ req' = [req EXCEPT ![h] = Idle]
        /\ UNCHANGED <<buckets, now, imposed>>

\* ... or let through, and an outdated bucket removed.
CheckPassed(h) ==
    LET r == req[h]
        bucket == buckets[r.key]
    IN  /\ r.pc = "check"
        /\ ~(Present(r.key) /\ Blocked(bucket, r.time))
        /\ buckets' = IF Present(r.key) /\ Outdated(bucket, r.time)
                        THEN [buckets EXCEPT ![r.key] = NoBucket] ELSE buckets
        /\ req' = [req EXCEPT ![h].pc = "verify"]
        /\ UNCHANGED <<now, imposed>>

\* No bearer token: nothing is counted.
TokenMissing(h) ==
    /\ req[h].pc = "verify"
    /\ req' = [req EXCEPT ![h] = Idle]
    /\ UNCHANGED <<buckets, now, imposed>>

\* The credential is wrong: record_auth_failure, before the lock.
Mismatch(h) ==
    /\ req[h].pc = "verify"
    /\ req' = [req EXCEPT ![h].pc = "record", ![h].time = now]
    /\ UNCHANGED <<buckets, now, imposed>>

\* evict_oldest_bucket, when a new bucket would exceed the limit; the map's
\* iteration decides between buckets of the same time.
MutNoEviction(k) == {{}}
Evictions(k) ==
    IF Present(k) \/ Cardinality(Tracked) < MaxBuckets THEN {{}}
    ELSE {{j} : j \in {i \in Tracked : \A l \in Tracked : buckets[i].first <= buckets[l].first}}

\* The failure counted in its bucket, which a failure after the window restarts.
Counted(bucket, time) ==
    LET restarted == bucket.failures = 0 \/ Since(time, bucket.first) > Window
        failures == IF restarted THEN 1 ELSE bucket.failures + 1
    IN  [failures |-> failures,
         first |-> IF restarted THEN time ELSE bucket.first,
         until |-> CASE failures >= MaxFailures -> time + Block
                     [] failures < MaxFailures /\ restarted -> 0
                     [] OTHER -> bucket.until]

\* record_auth_failure
Record(h) ==
    LET r == req[h]
        bucket == Counted(buckets[r.key], r.time)
    IN  /\ r.pc = "record"
        /\ \E evicted \in Evictions(r.key) :
            /\ buckets' = [k \in Keys |-> IF k = r.key THEN bucket
                                          ELSE IF k \in evicted THEN NoBucket ELSE buckets[k]]
            /\ imposed' = [k \in Keys |->
                    IF k = r.key /\ bucket.until # 0
                        THEN [first |-> bucket.first, until |-> bucket.until]
                    ELSE IF k \in evicted THEN NoBlock ELSE imposed[k]]
        /\ req' = [req EXCEPT ![h] = Idle]
        /\ UNCHANGED now

\* The credential is right: clear_auth_failures.
Clear(h) ==
    /\ req[h].pc = "verify"
    /\ buckets' = [buckets EXCEPT ![req[h].key] = NoBucket]
    /\ imposed' = [imposed EXCEPT ![req[h].key] = NoBlock]
    /\ req' = [req EXCEPT ![h] = Idle]
    /\ UNCHANGED now

Tick ==
    /\ now < MaxTime
    /\ now' = now + 1
    /\ UNCHANGED <<buckets, req, imposed>>

Next ==
    \/ \E h \in Handlers, k \in Keys : Arrive(h, k)
    \/ \E h \in Handlers : \/ CheckRefused(h) \/ CheckPassed(h) \/ TokenMissing(h)
                           \/ Mismatch(h) \/ Record(h) \/ Clear(h)
    \/ Tick

Spec == Init /\ [][Next]_vars

-----------------------------------------------------------------------------
(* Properties *)

\* Buckets, clock and requests are of their types.
TypeOK ==
    /\ buckets \in [Keys -> [failures : Nat, first : 0 .. MaxTime, until : 0 .. MaxTime + Block]]
    /\ now \in 0 .. MaxTime
    /\ req \in [Handlers -> [pc : {"idle", "check", "verify", "record"},
                             key : Keys \cup {"none"}, time : 0 .. MaxTime]]
    /\ imposed \in [Keys -> [first : 0 .. MaxTime, until : 0 .. MaxTime + Block]]

\* The map never exceeds MAX_BUCKETS, however many clients fail together.
BucketsBounded == Cardinality(Tracked) <= MaxBuckets

\* Requests that all passed the check before the last allowed failure was
\* recorded overshoot the limit by at most the others in flight.
OvershootBounded ==
    \A k \in Keys : buckets[k].failures <= MaxFailures - 1 + Cardinality(Handlers)

Passes(h) == req[h].pc = "check" /\ req'[h].pc = "verify"

\* A blocked client is let through again only when the block is over or the
\* window of the first failure is, whichever comes first, or after one of its
\* own requests succeeded or its bucket was evicted.
BlockHeldInWindow ==
    [][\A h \in Handlers : Passes(h) =>
            \/ now >= imposed[req[h].key].until
            \/ now > imposed[req[h].key].first + Window]_vars
=============================================================================
