--------------------------- MODULE RateLimitProofs ---------------------------
(***************************************************************************)
(* A block holds as long as the code lets it, for any number of clients    *)
(* and concurrent requests.                                                *)
(*                                                                         *)
(* A request may act on a time it read long before.  The argument is that  *)
(* such a time is never later than the clock (TimesPast): a block and a    *)
(* window that still run by the clock also run by the time read, so no     *)
(* request removes or restarts the bucket that imposed the block           *)
(* (BlockStored).                                                          *)
(*                                                                         *)
(* The limits on the number of buckets and of failures follow by counting: *)
(* a failure takes the place of an evicted bucket (Capacity), and a request*)
(* that has passed the check holds room for the failure it may record      *)
(* (Headroom).                                                             *)
(***************************************************************************)
EXTENDS RateLimit, TLAPS, FiniteSetTheorems

TimesPast ==
    /\ \A h \in Handlers : req[h].time <= now /\ (req[h].pc # "idle" => req[h].key \in Keys)
    /\ \A k \in Keys : buckets[k].first <= now

\* By the clock, the block on a client is not over.
StillBlocked(k) == now < imposed[k].until /\ now <= imposed[k].first + Window

BlockStored ==
    \A k \in Keys : StillBlocked(k) =>
        /\ buckets[k].failures > 0
        /\ buckets[k].first = imposed[k].first
        /\ buckets[k].until = imposed[k].until

Inv == TypeOK /\ TimesPast /\ BlockStored

Bucket == [failures : Nat, first : 0 .. MaxTime, until : 0 .. MaxTime + Block]

-----------------------------------------------------------------------------
\* What a failure at a time not after the clock does to a bucket: it stays a
\* bucket, and one whose window still runs keeps its first failure.
LEMMA CountedBucket ==
    ASSUME NEW b \in Bucket, NEW t \in 0 .. MaxTime
    PROVE  /\ Counted(b, t) \in Bucket
           /\ Counted(b, t).failures > 0
           /\ Counted(b, t).first \in {b.first, t}
           /\ b.failures > 0 /\ t <= b.first + Window => /\ Counted(b, t).first = b.first
                                                         /\ Counted(b, t).until \in {b.until, t + Block}
BY LimitAssumption DEF Counted, Since, Bucket

\* A block that still runs by the clock also refuses a request with an earlier time.
LEMMA BlockSeen ==
    ASSUME Inv, NEW h \in Handlers, req[h].pc # "idle", StillBlocked(req[h].key)
    PROVE  Present(req[h].key) /\ Blocked(buckets[req[h].key], req[h].time)
<1>1. req[h].key \in Keys /\ req[h].time <= now /\ req[h].time \in 0 .. MaxTime /\ now \in 0 .. MaxTime
  BY DEF Inv, TypeOK, TimesPast
<1>2. /\ buckets[req[h].key] \in Bucket
      /\ imposed[req[h].key] \in [first : 0 .. MaxTime, until : 0 .. MaxTime + Block]
  BY <1>1 DEF Inv, TypeOK, Bucket
<1> QED BY <1>1, <1>2, LimitAssumption
        DEF Inv, BlockStored, StillBlocked, Present, Blocked, Since, Bucket

\* Nobody is blocked at first.
LEMMA InvInit == Init => Inv
BY LimitAssumption
   DEF Init, Inv, TypeOK, TimesPast, BlockStored, StillBlocked, NoBucket, NoBlock, Idle

\* Recording a failure preserves Inv.
LEMMA RecordPreserves == ASSUME Inv, NEW h \in Handlers, Record(h) PROVE Inv'
<1> DEFINE k == req[h].key
           b == Counted(buckets[k], req[h].time)
<1>1. k \in Keys /\ req[h].time \in 0 .. MaxTime /\ req[h].time <= now /\ now \in 0 .. MaxTime
  BY DEF Record, Inv, TypeOK, TimesPast
<1>2. buckets \in [Keys -> Bucket]
  BY DEF Inv, TypeOK, Bucket
<1>3. /\ b \in Bucket
      /\ b.failures > 0
      /\ b.first \in {buckets[k].first, req[h].time}
      /\ buckets[k].failures > 0 /\ req[h].time <= buckets[k].first + Window =>
            b.first = buckets[k].first /\ b.until \in {buckets[k].until, req[h].time + Block}
  BY <1>1, <1>2, CountedBucket
<1> HIDE DEF b
<1>4. PICK evicted \in Evictions(k) :
        /\ buckets' = [j \in Keys |-> IF j = k THEN b
                                      ELSE IF j \in evicted THEN NoBucket ELSE buckets[j]]
        /\ imposed' = [j \in Keys |-> IF j = k /\ b.until # 0 THEN [first |-> b.first, until |-> b.until]
                                      ELSE IF j \in evicted THEN NoBlock ELSE imposed[j]]
  BY DEF Record, b
<1>5. now' = now /\ req' = [req EXCEPT ![h] = Idle]
  BY DEF Record
<1>6. \A j \in evicted : j # k
  BY <1>4 DEF Evictions, Tracked
<1>7. imposed \in [Keys -> [first : 0 .. MaxTime, until : 0 .. MaxTime + Block]]
  BY DEF Inv, TypeOK
<1>8. TypeOK'
  <2>1. buckets' \in [Keys -> Bucket]
    BY <1>2, <1>3, <1>4, LimitAssumption DEF NoBucket, Bucket
  <2>2. imposed' \in [Keys -> [first : 0 .. MaxTime, until : 0 .. MaxTime + Block]]
    BY <1>3, <1>4, <1>7, LimitAssumption DEF NoBlock, Bucket
  <2>3. req' \in [Handlers -> [pc : {"idle", "check", "verify", "record"},
                               key : Keys \cup {"none"}, time : 0 .. MaxTime]]
    BY <1>5, LimitAssumption DEF Inv, TypeOK, Idle
  <2> QED BY <1>5, <2>1, <2>2, <2>3 DEF Inv, TypeOK, Bucket
<1>9. TimesPast'
  <2>1. \A j \in Keys : buckets'[j].first <= now'
    BY <1>1, <1>2, <1>3, <1>4, <1>5 DEF Inv, TimesPast, NoBucket, Bucket
  <2>2. \A g \in Handlers : req'[g].time <= now' /\ (req'[g].pc # "idle" => req'[g].key \in Keys)
    BY <1>1, <1>5 DEF Inv, TypeOK, TimesPast, Idle
  <2> QED BY <2>1, <2>2 DEF TimesPast
<1>10. BlockStored'
  <2> SUFFICES ASSUME NEW j \in Keys, StillBlocked(j)'
               PROVE  /\ buckets'[j].failures > 0
                      /\ buckets'[j].first = imposed'[j].first
                      /\ buckets'[j].until = imposed'[j].until
    BY DEF BlockStored
  <2>1. CASE j # k
    <3>1. j \notin evicted
      BY <1>1, <1>4, <2>1, <1>5 DEF StillBlocked, NoBlock
    <3> QED BY <1>4, <1>5, <2>1, <3>1 DEF Inv, BlockStored, StillBlocked
  <2>2. CASE j = k /\ b.until # 0
    BY <1>1, <1>3, <1>4, <2>2
  <2>3. CASE j = k /\ b.until = 0
    <3>1. imposed'[k] = imposed[k] /\ StillBlocked(k)
      BY <1>1, <1>4, <1>5, <1>6, <2>3 DEF StillBlocked
    <3>2. buckets[k].failures > 0 /\ buckets[k].first = imposed[k].first /\ buckets[k].until = imposed[k].until
      BY <1>1, <3>1 DEF Inv, BlockStored
    <3>3. req[h].time <= buckets[k].first + Window /\ buckets[k].until > 0
      BY <1>1, <1>2, <1>7, <3>1, <3>2, LimitAssumption DEF StillBlocked, Bucket
    <3> QED BY <1>1, <1>2, <1>3, <2>3, <3>2, <3>3, LimitAssumption DEF Bucket
  <2> QED BY <2>1, <2>2, <2>3
<1> QED BY <1>8, <1>9, <1>10 DEF Inv

\* Letting a request through preserves Inv: it removes no bucket that blocks.
LEMMA CheckPassedPreserves == ASSUME Inv, NEW h \in Handlers, CheckPassed(h) PROVE Inv'
<1> DEFINE k == req[h].key
<1>1. k \in Keys /\ req[h].pc # "idle" /\ now' = now /\ imposed' = imposed
  BY DEF CheckPassed, Inv, TimesPast
<1>2. buckets' = buckets \/ buckets' = [buckets EXCEPT ![k] = NoBucket]
  BY DEF CheckPassed
<1>3. ~StillBlocked(k)
  BY <1>1, BlockSeen DEF CheckPassed
<1>4. TypeOK'
  BY <1>1, <1>2, LimitAssumption DEF CheckPassed, Inv, TypeOK, NoBucket
<1>5. TimesPast'
  BY <1>1, <1>2 DEF CheckPassed, Inv, TypeOK, TimesPast, NoBucket
<1>6. BlockStored'
  BY <1>1, <1>2, <1>3 DEF Inv, TypeOK, BlockStored, StillBlocked
<1> QED BY <1>4, <1>5, <1>6 DEF Inv

\* Every other step preserves Inv.
LEMMA OthersPreserve ==
    ASSUME Inv,
           \/ \E h \in Handlers, k \in Keys : Arrive(h, k)
           \/ \E h \in Handlers : CheckRefused(h) \/ TokenMissing(h) \/ Mismatch(h) \/ Clear(h)
           \/ Tick
    PROVE  Inv'
<1> USE LimitAssumption DEF Inv, TypeOK, TimesPast, BlockStored, StillBlocked
<1>1. ASSUME NEW h \in Handlers, NEW k \in Keys, Arrive(h, k) PROVE Inv'
  BY <1>1 DEF Arrive
<1>2. ASSUME NEW h \in Handlers, CheckRefused(h) \/ TokenMissing(h) PROVE Inv'
  BY <1>2 DEF CheckRefused, TokenMissing, Idle
<1>3. ASSUME NEW h \in Handlers, Mismatch(h) PROVE Inv'
  BY <1>3 DEF Mismatch
<1>4. ASSUME NEW h \in Handlers, Clear(h) PROVE Inv'
  BY <1>4 DEF Clear, NoBucket, NoBlock, Idle
<1>5. ASSUME Tick PROVE Inv'
  BY <1>5 DEF Tick
<1> QED BY <1>1, <1>2, <1>3, <1>4, <1>5

\* Inv holds in every state of a behaviour.
LEMMA InvHolds == Spec => []Inv
<1>1. Inv /\ [Next]_vars => Inv'
  <2> SUFFICES ASSUME Inv, [Next]_vars PROVE Inv'
    OBVIOUS
  <2>1. CASE Next
    BY <2>1, RecordPreserves, CheckPassedPreserves, OthersPreserve DEF Next
  <2>2. CASE UNCHANGED vars
    BY <2>2 DEF vars, Inv, TypeOK, TimesPast, BlockStored, StillBlocked
  <2> QED BY <2>1, <2>2
<1> QED BY <1>1, InvInit, PTL DEF Spec

-----------------------------------------------------------------------------
\* Buckets, clock and requests are always of their types.
THEOREM LimiterTypeCorrect == Spec => []TypeOK
BY InvHolds, PTL DEF Inv

\* check_rate_limit lets nobody through whose block and window still run.
THEOREM BlockHolds == Spec => BlockHeldInWindow
<1>1. Inv /\ [Next]_vars =>
        [\A h \in Handlers : Passes(h) => \/ now >= imposed[req[h].key].until
                                          \/ now > imposed[req[h].key].first + Window]_vars
  <2> SUFFICES ASSUME Inv, Next, NEW h \in Handlers, Passes(h)
               PROVE  ~StillBlocked(req[h].key) /\ req[h].key \in Keys
    BY LimitAssumption DEF Inv, TypeOK, StillBlocked
  <2>1. req[h].key \in Keys
    BY DEF Passes, Inv, TimesPast
  <2>2. CheckPassed(h)
    <3>1. ~Tick
      BY DEF Passes, Tick
    <3>2. ASSUME NEW g \in Handlers, NEW k \in Keys PROVE ~Arrive(g, k)
      BY DEF Passes, Arrive, Inv, TypeOK
    <3>3. ASSUME NEW g \in Handlers
          PROVE ~(CheckRefused(g) \/ TokenMissing(g) \/ Mismatch(g) \/ Record(g) \/ Clear(g))
      BY DEF Passes, CheckRefused, TokenMissing, Mismatch, Record, Clear, Inv, TypeOK, Idle
    <3>4. ASSUME NEW g \in Handlers, CheckPassed(g) PROVE g = h
      BY <3>4 DEF Passes, CheckPassed, Inv, TypeOK
    <3> QED BY <3>1, <3>2, <3>3, <3>4 DEF Next
  <2>3. ~StillBlocked(req[h].key)
    BY <2>2, BlockSeen DEF CheckPassed
  <2> QED BY <2>1, <2>3
<1> QED BY <1>1, InvHolds, PTL DEF Spec, BlockHeldInWindow

-----------------------------------------------------------------------------
(* The number of buckets *)

Capacity == IsFiniteSet(Tracked) /\ Cardinality(Tracked) <= MaxBuckets

\* Adding a bucket where there is room, or in the place of another, keeps to
\* the limit.
LEMMA RoomForOne ==
    ASSUME Capacity, NEW k, NEW T,
           \/ T \subseteq Tracked
           \/ T \subseteq Tracked \cup {k} /\ Cardinality(Tracked) < MaxBuckets
           \/ \E j \in Tracked : T \subseteq (Tracked \ {j}) \cup {k}
    PROVE  IsFiniteSet(T) /\ Cardinality(T) <= MaxBuckets
<1> USE LimitAssumption DEF Capacity
<1>1. Cardinality(Tracked) \in Nat
  BY FS_CardinalityType
<1>2. CASE T \subseteq Tracked
  BY <1>1, <1>2, FS_Subset, FS_CardinalityType
<1>3. CASE T \subseteq Tracked \cup {k} /\ Cardinality(Tracked) < MaxBuckets
  <2>1. /\ IsFiniteSet(Tracked \cup {k})
        /\ Cardinality(Tracked \cup {k}) \in {Cardinality(Tracked), Cardinality(Tracked) + 1}
    BY FS_AddElement
  <2> QED BY <1>1, <1>3, <2>1, FS_Subset, FS_CardinalityType
<1>4. ASSUME NEW j \in Tracked, T \subseteq (Tracked \ {j}) \cup {k}
      PROVE  IsFiniteSet(T) /\ Cardinality(T) <= MaxBuckets
  <2>1. IsFiniteSet(Tracked \ {j}) /\ Cardinality(Tracked \ {j}) = Cardinality(Tracked) - 1
    BY FS_RemoveElement
  <2>2. /\ IsFiniteSet((Tracked \ {j}) \cup {k})
        /\ Cardinality((Tracked \ {j}) \cup {k}) \in {Cardinality(Tracked) - 1, Cardinality(Tracked)}
    BY <1>1, <2>1, FS_AddElement
  <2> QED BY <1>1, <1>4, <2>2, FS_Subset, FS_CardinalityType
<1> QED BY <1>2, <1>3, <1>4

\* What a step does to the buckets: a failure is counted in one bucket, which
\* may take the place of another, and every other step only removes buckets.
LEMMA BucketsStep ==
    ASSUME Inv, [Next]_vars
    PROVE  \/ \E h \in Handlers : Record(h)
           \/ \A k \in Keys : buckets'[k] = buckets[k] \/ buckets'[k] = NoBucket
<1> USE DEF Inv, TypeOK
<1>1. ASSUME NEW h \in Handlers, CheckPassed(h) \/ Clear(h)
      PROVE  \A k \in Keys : buckets'[k] = buckets[k] \/ buckets'[k] = NoBucket
  BY <1>1 DEF CheckPassed, Clear
<1>2. ASSUME NEW h \in Handlers, CheckRefused(h) \/ TokenMissing(h) \/ Mismatch(h)
      PROVE  buckets' = buckets
  BY <1>2 DEF CheckRefused, TokenMissing, Mismatch
<1>3. ASSUME NEW h \in Handlers, NEW k \in Keys, Arrive(h, k) PROVE buckets' = buckets
  BY <1>3 DEF Arrive
<1>4. CASE Tick \/ UNCHANGED vars
  BY <1>4 DEF Tick, vars
<1> QED BY <1>1, <1>2, <1>3, <1>4 DEF Next

\* evict_oldest_bucket makes room before a bucket is added.
LEMMA CapacityStep == ASSUME Inv, Capacity, [Next]_vars PROVE Capacity'
<1>1. ASSUME NEW h \in Handlers, Record(h) PROVE Capacity'
  <2> DEFINE k == req[h].key
             T == Tracked'
  <2>1. k \in Keys
    BY <1>1 DEF Record, Inv, TimesPast
  <2>2. PICK evicted \in Evictions(k) :
          \A j \in Keys : j # k => buckets'[j] = IF j \in evicted THEN NoBucket ELSE buckets[j]
    BY <1>1 DEF Record
  <2>3. \A j \in Keys : j \in T /\ j # k => j \in Tracked /\ j \notin evicted
    BY <2>2 DEF Tracked, Present, NoBucket
  <2>4. T \subseteq Keys
    BY DEF Tracked
  <2>5. \/ k \in Tracked /\ evicted = {}
        \/ Cardinality(Tracked) < MaxBuckets
        \/ \E j \in Tracked : evicted = {j}
    BY <2>1, <2>2 DEF Evictions, Tracked
  <2> HIDE DEF T
  <2>6. \/ T \subseteq Tracked
        \/ T \subseteq Tracked \cup {k} /\ Cardinality(Tracked) < MaxBuckets
        \/ \E j \in Tracked : T \subseteq (Tracked \ {j}) \cup {k}
    BY <2>3, <2>4, <2>5
  <2>7. IsFiniteSet(T) /\ Cardinality(T) <= MaxBuckets
    BY <2>6, RoomForOne
  <2> QED BY <2>7 DEF Capacity, T
<1>2. CASE \A k \in Keys : buckets'[k] = buckets[k] \/ buckets'[k] = NoBucket
  <2>1. Tracked' \subseteq Tracked
    BY <1>2 DEF Tracked, Present, NoBucket
  <2> DEFINE T == Tracked'
  <2> HIDE DEF T
  <2>2. IsFiniteSet(T) /\ Cardinality(T) <= MaxBuckets
    BY <2>1, RoomForOne DEF T
  <2> QED BY <2>2 DEF Capacity, T
<1> QED BY <1>1, <1>2, BucketsStep

-----------------------------------------------------------------------------
(* The number of failures *)

\* The requests for a key that have passed the check and may yet fail.
InFlight(k) == {h \in Handlers : req[h].pc \in {"verify", "record"} /\ req[h].key = k}

Headroom ==
    \A k \in Keys :
        /\ buckets[k].failures + Cardinality(InFlight(k)) <= MaxFailures - 1 + Cardinality(Handlers)
        /\ buckets[k].failures >= MaxFailures => buckets[k].until > 0

\* The requests in flight are some of the handlers.
LEMMA FewInFlight ==
    ASSUME NEW S, S \subseteq Handlers
    PROVE  /\ IsFiniteSet(S) /\ Cardinality(S) \in Nat /\ Cardinality(Handlers) \in Nat
           /\ Cardinality(S) <= Cardinality(Handlers)
           /\ \A T : T \subseteq S => Cardinality(T) \in Nat /\ Cardinality(T) <= Cardinality(S)
           /\ \A h \in S : Cardinality(S \ {h}) = Cardinality(S) - 1
BY HandlersAssumption, FS_Subset, FS_CardinalityType, FS_RemoveElement

\* A failure after the window starts at one, and one that reaches the limit
\* imposes a block.
LEMMA CountedFailures ==
    ASSUME NEW b \in Bucket, NEW t \in 0 .. MaxTime,
           b.failures >= MaxFailures => b.until > 0
    PROVE  /\ Counted(b, t).failures <= b.failures + 1
           /\ Counted(b, t).failures >= MaxFailures => Counted(b, t).until > 0
BY LimitAssumption DEF Counted, Bucket

\* A request that passes the check leaves a bucket below the limit.
LEMMA PassedBelowLimit ==
    ASSUME Inv, Headroom, NEW h \in Handlers, CheckPassed(h)
    PROVE  buckets'[req[h].key].failures <= MaxFailures - 1
<1> DEFINE k == req[h].key
           b == buckets[k]
<1>1. k \in Keys /\ b \in Bucket /\ (b.failures >= MaxFailures => b.until > 0)
  BY DEF CheckPassed, Inv, TypeOK, TimesPast, Headroom, Bucket
<1>2. b.failures > 0 => ~Blocked(b, req[h].time)
  BY DEF CheckPassed, Present
<1>3. \/ buckets' = [buckets EXCEPT ![k] = NoBucket]
      \/ buckets' = buckets /\ (b.failures > 0 => ~Outdated(b, req[h].time))
  BY DEF CheckPassed, Present
<1>4. b.failures > 0 /\ ~Blocked(b, req[h].time) /\ ~Outdated(b, req[h].time) => b.failures < MaxFailures
  <2>1. req[h].time \in 0 .. MaxTime
    BY DEF Inv, TypeOK
  <2>2. b.failures \in Nat /\ b.first \in Nat /\ b.until \in Nat
    BY <1>1, LimitAssumption DEF Bucket
  <2>3. Since(req[h].time, b.first) \in Int
    BY <2>1, <2>2 DEF Since
  <2> HIDE DEF b
  <2> QED BY <1>1, <2>1, <2>2, <2>3, LimitAssumption DEF Blocked, Outdated
<1>5. b.failures \in Nat
  BY <1>1 DEF Bucket
<1>6. CASE buckets' = [buckets EXCEPT ![k] = NoBucket]
  BY <1>1, <1>6, LimitAssumption DEF NoBucket, Inv, TypeOK
<1>7. CASE buckets' = buckets /\ (b.failures > 0 => ~Outdated(b, req[h].time))
  BY <1>1, <1>2, <1>4, <1>5, <1>7, LimitAssumption
<1> QED BY <1>3, <1>6, <1>7

\* What a step does to the requests in flight for a key.
LEMMA InFlightStep ==
    ASSUME Inv, [Next]_vars, NEW k \in Keys
    PROVE  \/ \E h \in Handlers : CheckPassed(h) /\ req[h].key = k
           \/ \E h \in InFlight(k) : Record(h) /\ InFlight(k)' = InFlight(k) \ {h}
           \/ /\ InFlight(k)' \subseteq InFlight(k)
              /\ ~ \E h \in Handlers : Record(h) /\ req[h].key = k
<1> USE DEF Inv, TypeOK, InFlight
<1>1. ASSUME NEW h \in Handlers, NEW j \in Keys, Arrive(h, j)
      PROVE  InFlight(k)' \subseteq InFlight(k)
  BY <1>1 DEF Arrive
<1>2. ASSUME NEW h \in Handlers, CheckRefused(h) \/ TokenMissing(h) \/ Clear(h) \/ Mismatch(h)
      PROVE  InFlight(k)' \subseteq InFlight(k)
  BY <1>2 DEF CheckRefused, TokenMissing, Clear, Mismatch, Idle
<1>3. ASSUME NEW h \in Handlers, CheckPassed(h), req[h].key # k
      PROVE  InFlight(k)' \subseteq InFlight(k)
  BY <1>3 DEF CheckPassed
<1>4. ASSUME NEW h \in Handlers, Record(h)
      PROVE  InFlight(k)' = InFlight(k) \ {h}
  BY <1>4 DEF Record, Idle
<1>5. ASSUME Tick \/ UNCHANGED vars PROVE InFlight(k)' \subseteq InFlight(k)
  BY <1>5 DEF Tick, vars
<1> HIDE DEF Inv, TypeOK, InFlight
<1>6. ASSUME NEW h \in Handlers, Record(h) PROVE h \in InFlight(req[h].key)
  BY <1>6 DEF Record, InFlight
<1>7. CASE \E h \in Handlers : Record(h) /\ req[h].key = k
  BY <1>4, <1>6, <1>7
<1>8. CASE ~ \E h \in Handlers : Record(h) /\ req[h].key = k
  <2>1. ASSUME NEW h \in Handlers, Record(h) PROVE InFlight(k)' \subseteq InFlight(k)
    BY <1>4, <2>1
  <2> QED BY <1>1, <1>2, <1>3, <1>5, <1>8, <2>1 DEF Next
<1> QED BY <1>7, <1>8

\* A request that passes the check holds the room its failure takes.
LEMMA HeadroomStep == ASSUME Inv, Headroom, [Next]_vars PROVE Headroom'
<1> SUFFICES ASSUME NEW k \in Keys
             PROVE  /\ buckets'[k].failures + Cardinality(InFlight(k)')
                            <= MaxFailures - 1 + Cardinality(Handlers)
                    /\ buckets'[k].failures >= MaxFailures => buckets'[k].until > 0
  BY DEF Headroom
<1> DEFINE before == InFlight(k)
           after == InFlight(k)'
<1>1. /\ buckets[k] \in Bucket
      /\ buckets[k].failures + Cardinality(before) <= MaxFailures - 1 + Cardinality(Handlers)
      /\ buckets[k].failures >= MaxFailures => buckets[k].until > 0
  BY DEF Inv, TypeOK, Bucket, Headroom
<1>2. before \subseteq Handlers /\ after \subseteq Handlers
  BY DEF InFlight
<1> HIDE DEF before, after
<1>3. /\ Cardinality(before) \in Nat /\ Cardinality(after) \in Nat /\ Cardinality(Handlers) \in Nat
      /\ Cardinality(after) <= Cardinality(Handlers)
      /\ after \subseteq before => Cardinality(after) <= Cardinality(before)
      /\ \A h \in before : after = before \ {h} => Cardinality(after) = Cardinality(before) - 1
  BY <1>2, FewInFlight
<1>4. buckets[k].failures \in Nat /\ MaxFailures \in Nat
  BY <1>1, LimitAssumption DEF Bucket
<1>5. ASSUME NEW h \in Handlers, CheckPassed(h), req[h].key = k
      PROVE  /\ buckets'[k].failures + Cardinality(after) <= MaxFailures - 1 + Cardinality(Handlers)
             /\ buckets'[k].failures >= MaxFailures => buckets'[k].until > 0
  <2>1. buckets'[k].failures <= MaxFailures - 1
    BY <1>5, PassedBelowLimit
  <2>2. buckets'[k].failures \in Nat
    BY <1>4, <1>5 DEF CheckPassed, NoBucket, Inv, TypeOK
  <2> QED BY <1>3, <1>4, <2>1, <2>2
<1>6. ASSUME NEW h \in before, Record(h), after = before \ {h}
      PROVE  /\ buckets'[k].failures + Cardinality(after) <= MaxFailures - 1 + Cardinality(Handlers)
             /\ buckets'[k].failures >= MaxFailures => buckets'[k].until > 0
  <2>1. req[h].key = k /\ req[h].time \in 0 .. MaxTime /\ h \in Handlers
    BY <1>2, <1>6 DEF before, InFlight, Inv, TypeOK
  <2>2. buckets'[k] = Counted(buckets[k], req[h].time)
    BY <1>6, <2>1 DEF Record
  <2>3. Counted(buckets[k], req[h].time) \in Bucket
    BY <1>1, <2>1, CountedBucket
  <2>4. /\ buckets'[k].failures <= buckets[k].failures + 1
        /\ buckets'[k].failures >= MaxFailures => buckets'[k].until > 0
    BY <1>1, <2>1, <2>2, CountedFailures
  <2>5. buckets'[k].failures \in Nat
    BY <2>2, <2>3 DEF Bucket
  <2>6. Cardinality(after) = Cardinality(before) - 1
    BY <1>3, <1>6
  <2> QED BY <1>1, <1>3, <1>4, <2>4, <2>5, <2>6
<1>7. ASSUME after \subseteq before, ~ \E h \in Handlers : Record(h) /\ req[h].key = k
      PROVE  /\ buckets'[k].failures + Cardinality(after) <= MaxFailures - 1 + Cardinality(Handlers)
             /\ buckets'[k].failures >= MaxFailures => buckets'[k].until > 0
  <2>1. buckets'[k] = buckets[k] \/ buckets'[k] = NoBucket
    <3>1. ASSUME NEW h \in Handlers, Record(h) PROVE buckets'[k] = buckets[k] \/ buckets'[k] = NoBucket
      BY <1>7, <3>1 DEF Record
    <3> QED BY <3>1, BucketsStep
  <2>2. CASE buckets'[k] = buckets[k]
    BY <1>1, <1>3, <1>4, <1>7, <2>2
  <2>3. CASE buckets'[k] = NoBucket
    <3>1. buckets'[k].failures = 0
      BY <2>3 DEF NoBucket
    <3> QED BY <1>3, <1>4, <3>1, LimitAssumption
  <2> QED BY <2>1, <2>2, <2>3
<1>8. \/ \E h \in Handlers : CheckPassed(h) /\ req[h].key = k
      \/ \E h \in before : Record(h) /\ after = before \ {h}
      \/ /\ after \subseteq before
         /\ ~ \E h \in Handlers : Record(h) /\ req[h].key = k
  BY InFlightStep DEF before, after
<1>9. /\ buckets'[k].failures + Cardinality(after) <= MaxFailures - 1 + Cardinality(Handlers)
      /\ buckets'[k].failures >= MaxFailures => buckets'[k].until > 0
  BY <1>5, <1>6, <1>7, <1>8
<1> QED BY <1>9 DEF after

\* The counts of buckets and of failures keep to their limits.
LEMMA CountsHold == Spec => [](Inv /\ Capacity /\ Headroom)
<1>1. Init => Capacity /\ Headroom
  <2> SUFFICES ASSUME Init PROVE Capacity /\ Headroom
    OBVIOUS
  <2>1. Tracked = {} /\ \A k \in Keys : InFlight(k) = {} /\ buckets[k].failures = 0
    BY DEF Init, Tracked, Present, InFlight, NoBucket, Idle
  <2>2. Cardinality({}) = 0 /\ IsFiniteSet({}) /\ Cardinality(Handlers) \in Nat
    BY FS_EmptySet, HandlersAssumption, FS_CardinalityType
  <2>3. Capacity
    BY <2>1, <2>2, LimitAssumption DEF Capacity
  <2>4. 0 + 0 <= MaxFailures - 1 + Cardinality(Handlers) /\ ~(0 >= MaxFailures)
    BY <2>2, LimitAssumption
  <2>5. Headroom
    BY <2>1, <2>2, <2>4 DEF Headroom
  <2> QED BY <2>3, <2>5
<1>2. Inv /\ Capacity /\ Headroom /\ [Next]_vars => (Capacity /\ Headroom)'
  BY CapacityStep, HeadroomStep
<1> QED BY <1>1, <1>2, InvHolds, PTL DEF Spec

\* The map of buckets never exceeds MAX_BUCKETS.
THEOREM BucketsStayBounded == Spec => []BucketsBounded
<1>1. Capacity => BucketsBounded
  BY DEF Capacity, BucketsBounded
<1> QED BY <1>1, CountsHold, PTL

\* However many requests passed the check together, the failures of a client
\* overshoot the limit by at most the requests in flight beside the last one.
THEOREM OvershootStaysBounded == Spec => []OvershootBounded
<1>1. Inv /\ Headroom => OvershootBounded
  <2> SUFFICES ASSUME Inv, Headroom, NEW k \in Keys
               PROVE  buckets[k].failures <= MaxFailures - 1 + Cardinality(Handlers)
    BY DEF OvershootBounded
  <2>1. Cardinality(InFlight(k)) \in Nat /\ Cardinality(Handlers) \in Nat
    BY FewInFlight DEF InFlight
  <2>2. buckets[k].failures \in Nat
    BY DEF Inv, TypeOK
  <2> QED BY <2>1, <2>2, LimitAssumption DEF Headroom
<1> QED BY <1>1, CountsHold, PTL
=============================================================================
