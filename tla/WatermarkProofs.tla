--------------------------- MODULE WatermarkProofs ---------------------------
(***************************************************************************)
(* Proofs about WatermarkTracker, and about QualityChannel, which counts   *)
(* what the tracker returns, for every window width, every set of sequence *)
(* numbers below u64::MAX and every starting prefix.                       *)
(***************************************************************************)
EXTENDS QualityChannel, TLAPS, FiniteSetTheorems

-----------------------------------------------------------------------------
(* The inductive invariant: TypeOK, RangesApart and what follows. *)

\* No number that reaches the tracker is u64::MAX, and pending ranges end on
\* such numbers: committed + 1 and end + 1 do not wrap.
Reachable ==
    /\ high \in Seqs \cup {First}
    /\ \A r \in droppedRanges : r.end \in Seqs

\* A seen number is still in the window until the watermark passes it.
SeenInWindow ==
    /\ observed \subseteq accepted
    /\ \A s \in accepted : committed <= s => s \in observed

\* A number on which a verdict was given away from the window is settled.
LostSettled == \A s \in lost : s < committed

\* The numbers dropped on purpose at or above the watermark are the ones the
\* pending ranges cover.
FilteredPending ==
    /\ \A s \in filtered : s < committed \/ \E r \in droppedRanges : Covers(r, s)
    /\ \A r \in droppedRanges : r.start .. r.end \subseteq filtered

IndInv ==
    /\ TypeOK
    /\ Reachable
    /\ RangesApart
    /\ SeenInWindow
    /\ LostSettled
    /\ FilteredPending

-----------------------------------------------------------------------------
(* Lemmas about the operators of the tracker. *)

\* The numbers that records and ranges carry leave room for one increment.
LEMMA SeqsBelowMax == \A s \in Seqs : s \in U64 /\ s < MaxU64
  <1>. SUFFICES ASSUME NEW s \in Seqs
                PROVE  s \in U64 /\ s < MaxU64
    OBVIOUS
  <1>1. s \in 0 .. (MaxU64 - 1)
    BY SeqAssumption
  <1>. QED  BY <1>1, WidthAssumption DEF U64

\* A pending range that covers a number is the one next_back() finds for it,
\* and the one it finds is the only one.
LEMMA RangeFound ==
    ASSUME TypeOK, RangesApart, NEW n \in U64
    PROVE  /\ IsInDroppedRange(n) <=> \E r \in droppedRanges : Covers(r, n)
           /\ \A r \in LastStartingBy(n) : n <= r.end => r \in droppedRanges /\ Covers(r, n)
  <1>. USE WidthAssumption DEF TypeOK, DroppedRange, U64, Covers
  <1>1. \A r \in LastStartingBy(n) : n <= r.end => r \in droppedRanges /\ Covers(r, n)
    BY DEF LastStartingBy
  <1>2. ASSUME NEW r \in droppedRanges, Covers(r, n)
        PROVE  r \in LastStartingBy(n)
    <2>. SUFFICES ASSUME NEW q \in droppedRanges, q.start <= n
                  PROVE  q.start <= r.start
      BY <1>2 DEF LastStartingBy
    <2>1. r = q \/ r.end + 1 < q.start \/ q.end + 1 < r.start
      BY DEF RangesApart
    <2>2. q.start <= q.end
      BY DEF RangesApart
    <2>3. r \in DroppedRange /\ q \in DroppedRange
      OBVIOUS
    <2>. QED  BY <1>2, <2>1, <2>2, <2>3
  <1>. QED  BY <1>1, <1>2 DEF IsInDroppedRange

\* The range that insert_dropped_range builds: its bounds come from the new
\* range or from one of the ranges it merges, and it contains all of them.
LEMMA MergedBounds ==
    ASSUME TypeOK, RangesApart, NEW start \in U64, NEW end \in U64, start <= end, end < MaxU64,
           \A r \in droppedRanges : r.end < MaxU64
    PROVE  LET m == MergedRange(start, end)
           IN  /\ m.start \in {start} \cup {r.start : r \in Mergeable(start, end)}
               /\ m.end \in {end} \cup {r.end : r \in Mergeable(start, end)}
               /\ m.start <= start
               /\ end <= m.end
               /\ \A r \in Mergeable(start, end) : m.start <= r.start /\ r.end <= m.end
  <1>. DEFINE M == Mergeable(start, end)
              S == {start} \cup {r.start : r \in M}
              E == {end} \cup {r.end : r \in M}
  <1>. USE WidthAssumption
  <1>1. M \subseteq DroppedRange /\ M \subseteq droppedRanges
    BY DEF Mergeable, TypeOK
  <1>2. S \subseteq Int /\ E \subseteq Int
    BY <1>1 DEF DroppedRange, U64
  <1>3. \A r \in M : r.start <= end + 1 /\ r.end + 1 >= start
    BY <1>1 DEF Mergeable, SaturatingAdd, MinOf, DroppedRange, U64
  <1>4. \E s \in S : \A x \in S : s <= x
    <2>1. CASE \E r \in M : r.start < start
      <3>1. PICK r \in M : r.start < start
        BY <2>1
      <3>2. ASSUME NEW q \in M
            PROVE  r.start <= q.start
        <4>1. r = q \/ r.end + 1 < q.start \/ q.end + 1 < r.start
          BY <1>1 DEF RangesApart
        <4>2. q.end + 1 >= start
          BY <1>3
        <4>3. r.start <= r.end
          BY <1>1 DEF RangesApart
        <4>. QED  BY <1>1, <3>1, <4>1, <4>2, <4>3 DEF DroppedRange, U64
      <3>3. r.start \in S /\ \A x \in S : r.start <= x
        BY <1>1, <3>1, <3>2 DEF DroppedRange, U64
      <3>. QED  BY <3>3
    <2>2. CASE ~ \E r \in M : r.start < start
      BY <1>1, <2>2 DEF DroppedRange, U64
    <2>. QED  BY <2>1, <2>2
  <1>5. \E e \in E : \A x \in E : e >= x
    <2>1. CASE \E r \in M : r.end > end
      <3>1. PICK r \in M : r.end > end
        BY <2>1
      <3>2. ASSUME NEW q \in M
            PROVE  r.end >= q.end
        <4>1. r = q \/ r.end + 1 < q.start \/ q.end + 1 < r.start
          BY <1>1 DEF RangesApart
        <4>2. q.start <= end + 1
          BY <1>3
        <4>3. q.start <= q.end /\ r.start <= r.end
          BY <1>1 DEF RangesApart
        <4>. QED  BY <1>1, <3>1, <4>1, <4>2, <4>3 DEF DroppedRange, U64
      <3>3. r.end \in E /\ \A x \in E : r.end >= x
        BY <1>1, <3>1, <3>2 DEF DroppedRange, U64
      <3>. QED  BY <3>3
    <2>2. CASE ~ \E r \in M : r.end > end
      BY <1>1, <2>2 DEF DroppedRange, U64
    <2>. QED  BY <2>1, <2>2
  <1>6. Min(S) \in S /\ \A x \in S : Min(S) <= x
    BY <1>4 DEF Min
  <1>7. Max(E) \in E /\ \A x \in E : Max(E) >= x
    BY <1>5 DEF Max
  <1>8. MergedRange(start, end).start = Min(S) /\ MergedRange(start, end).end = Max(E)
    BY DEF MergedRange
  <1>. QED  BY <1>1, <1>2, <1>6, <1>7, <1>8 DEF DroppedRange, U64

\* insert_dropped_range keeps the ranges apart and covers exactly the numbers
\* covered before and those of the new range.
LEMMA InsertKeepsApart ==
    ASSUME IndInv, NEW start \in U64, NEW end \in Seqs, start <= end,
           InsertDroppedRange(start, end)
    PROVE  /\ droppedRanges' \subseteq DroppedRange
           /\ \A r \in droppedRanges' : r.end \in Seqs
           /\ RangesApart'
           /\ \A r \in droppedRanges : \E q \in droppedRanges' : q.start <= r.start /\ r.end <= q.end
           /\ \E q \in droppedRanges' : q.start <= start /\ end <= q.end
           /\ \A q \in droppedRanges' : \A n \in q.start .. q.end :
                 n \in start .. end \/ \E r \in droppedRanges : Covers(r, n)
  <1>. DEFINE M == Mergeable(start, end)
              m == MergedRange(start, end)
  <1>. USE WidthAssumption
  <1>0. TypeOK /\ RangesApart /\ \A r \in droppedRanges : r.end \in Seqs
    BY DEF IndInv, Reachable
  <1>1. end \in U64 /\ end < MaxU64 /\ \A r \in droppedRanges : r.end < MaxU64
    BY <1>0, SeqsBelowMax
  <1>2. /\ m.start \in {start} \cup {r.start : r \in M}
        /\ m.end \in {end} \cup {r.end : r \in M}
        /\ m.start <= start
        /\ end <= m.end
        /\ \A r \in M : m.start <= r.start /\ r.end <= m.end
    BY <1>0, <1>1, MergedBounds
  <1>3. droppedRanges' = (droppedRanges \ M) \cup {m}
    BY DEF InsertDroppedRange
  <1>4. M \subseteq droppedRanges /\ droppedRanges \subseteq DroppedRange
    BY <1>0 DEF TypeOK, Mergeable
  <1>5. \A r \in droppedRanges :
            r \in M <=> r.start <= end + 1 /\ r.end + 1 >= start
    BY <1>1, <1>4 DEF Mergeable, SaturatingAdd, MinOf, DroppedRange, U64
  <1>6. m \in DroppedRange /\ m.end \in Seqs /\ m.start <= m.end
    <2>1. m = [start |-> m.start, end |-> m.end]
      BY DEF MergedRange
    <2>2. m.start \in U64 /\ m.end \in U64 /\ m.end \in Seqs
      BY <1>0, <1>1, <1>2, <1>4 DEF DroppedRange
    <2>3. m.start <= m.end
      BY <1>1, <1>2, <2>2 DEF U64
    <2>. QED  BY <2>1, <2>2, <2>3 DEF DroppedRange
  <1>7. ASSUME NEW r \in droppedRanges \ M
        PROVE  r.end + 1 < m.start \/ m.end + 1 < r.start
    <2>1. r.start > end + 1 \/ r.end + 1 < start
      BY <1>1, <1>4, <1>5 DEF DroppedRange, U64
    <2>2. \A q \in M : r.end + 1 < q.start \/ q.end + 1 < r.start
      BY <1>0, <1>4 DEF RangesApart
    <2>3. r.start <= r.end /\ \A q \in M : q.start <= q.end
      BY <1>0, <1>4 DEF RangesApart
    <2>4. CASE r.start > end + 1
      <3>1. m.end + 1 < r.start
        <4>1. CASE m.end = end
          BY <2>4, <4>1
        <4>2. CASE \E q \in M : m.end = q.end
          <5>1. PICK q \in M : m.end = q.end
            BY <4>2
          <5>2. q.start <= end + 1
            BY <1>4, <1>5
          <5>. QED  BY <1>1, <1>4, <2>2, <2>3, <2>4, <5>1, <5>2 DEF DroppedRange, U64
        <4>. QED  BY <1>2, <4>1, <4>2
      <3>. QED  BY <3>1
    <2>5. CASE r.end + 1 < start
      <3>1. r.end + 1 < m.start
        <4>1. CASE m.start = start
          BY <2>5, <4>1
        <4>2. CASE \E q \in M : m.start = q.start
          <5>1. PICK q \in M : m.start = q.start
            BY <4>2
          <5>2. q.end + 1 >= start
            BY <1>4, <1>5
          <5>. QED  BY <1>1, <1>4, <2>2, <2>3, <2>5, <5>1, <5>2 DEF DroppedRange, U64
        <4>. QED  BY <1>2, <4>1, <4>2
      <3>. QED  BY <3>1
    <2>. QED  BY <2>1, <2>4, <2>5
  <1>8. RangesApart'
    BY <1>0, <1>3, <1>6, <1>7 DEF RangesApart
  <1>9. \A r \in droppedRanges : \E q \in droppedRanges' : q.start <= r.start /\ r.end <= q.end
    BY <1>2, <1>3, <1>4 DEF DroppedRange, U64
  <1>10. \E q \in droppedRanges' : q.start <= start /\ end <= q.end
    BY <1>2, <1>3
  <1>11. ASSUME NEW n \in m.start .. m.end
         PROVE  n \in start .. end \/ \E r \in droppedRanges : Covers(r, n)
    <2>1. n \in Int /\ m.start <= n /\ n <= m.end
      BY <1>6 DEF DroppedRange, U64
    <2>2. CASE n < start
      <3>1. PICK q \in M : m.start = q.start
        BY <1>2, <2>1, <2>2 DEF U64
      <3>2. q.end + 1 >= start
        BY <1>4, <1>5
      <3>. QED  BY <1>4, <2>1, <2>2, <3>1, <3>2 DEF Covers, DroppedRange, U64
    <2>3. CASE n > end
      <3>1. PICK q \in M : m.end = q.end
        BY <1>1, <1>2, <2>1, <2>3 DEF U64
      <3>2. q.start <= end + 1
        BY <1>4, <1>5
      <3>. QED  BY <1>1, <1>4, <2>1, <2>3, <3>1, <3>2 DEF Covers, DroppedRange, U64
    <2>. QED  BY <1>1, <2>1, <2>2, <2>3 DEF U64
  <1>12. ASSUME NEW r \in droppedRanges, NEW n \in r.start .. r.end
         PROVE  Covers(r, n)
    BY <1>4 DEF Covers, DroppedRange, U64
  <1>. QED  BY <1>0, <1>3, <1>4, <1>6, <1>8, <1>9, <1>10, <1>11, <1>12
-----------------------------------------------------------------------------
(* IndInv is inductive. *)

\* A new tracker satisfies the invariant.
LEMMA IndInvInit == Init => IndInv
  BY WidthAssumption, FirstAssumption
     DEF Init, IndInv, TypeOK, Reachable, RangesApart, SeenInWindow, LostSettled,
         FilteredPending, U64, DroppedRange

\* observe of a new record preserves the invariant.
LEMMA ObserveStep ==
    ASSUME IndInv, NEW seq \in Seqs, ObserveNew(seq)
    PROVE  IndInv'
  <1>. USE DEF IndInv, ObserveNew, MaxOf
  <1>1. TypeOK' /\ Reachable'
    BY SeqsBelowMax DEF TypeOK, Reachable
  <1>2. RangesApart' /\ LostSettled'
    BY DEF RangesApart, LostSettled
  <1>3. SeenInWindow'
    BY DEF SeenInWindow
  <1>4. FilteredPending'
    BY DEF FilteredPending, Covers
  <1>. QED  BY <1>1, <1>2, <1>3, <1>4

\* commit_range preserves the invariant: the merged range covers what the
\* ranges it replaces covered, and the new numbers.
LEMMA CommitRangeStep ==
    ASSUME IndInv, NEW start \in Seqs, NEW end \in Seqs, CommitRange(start, end)
    PROVE  IndInv'
  <1>. DEFINE s == MaxOf(start, committed)
  <1>. USE WidthAssumption, SeqsBelowMax
  <1>1. s \in U64 /\ end \in U64 /\ s <= end /\ committed <= s /\ committed \in U64
    BY DEF IndInv, TypeOK, CommitRange, MaxOf, U64
  <1>2. /\ droppedRanges' \subseteq DroppedRange
        /\ \A r \in droppedRanges' : r.end \in Seqs
        /\ RangesApart'
        /\ \A r \in droppedRanges : \E q \in droppedRanges' : q.start <= r.start /\ r.end <= q.end
        /\ \E q \in droppedRanges' : q.start <= s /\ end <= q.end
        /\ \A q \in droppedRanges' : \A n \in q.start .. q.end :
              n \in s .. end \/ \E r \in droppedRanges : Covers(r, n)
    BY <1>1, InsertKeepsApart DEF CommitRange
  <1>3. /\ UNCHANGED <<committed, observed, accepted, lost>>
        /\ filtered' = filtered \cup (s .. end)
        /\ high' = MaxOf(high, end)
        /\ settling' = TRUE
    BY DEF CommitRange
  <1>4. TypeOK' /\ Reachable'
    BY <1>1, <1>2, <1>3 DEF IndInv, TypeOK, Reachable, MaxOf, U64
  <1>5. SeenInWindow' /\ LostSettled'
    BY <1>3 DEF IndInv, SeenInWindow, LostSettled
  <1>6. \A n \in filtered' : n < committed' \/ \E r \in droppedRanges' : Covers(r, n)
    <2>. SUFFICES ASSUME NEW n \in filtered'
                  PROVE  n < committed \/ \E r \in droppedRanges' : Covers(r, n)
      BY <1>3
    <2>1. CASE n \in s .. end
      <3>1. PICK q \in droppedRanges' : q.start <= s /\ end <= q.end
        BY <1>2
      <3>2. q \in DroppedRange
        BY <1>2
      <3>. QED  BY <1>1, <2>1, <3>1, <3>2 DEF Covers, DroppedRange, U64
    <2>2. CASE n \in filtered /\ ~(n < committed)
      <3>1. PICK r \in droppedRanges : Covers(r, n)
        BY <2>2 DEF IndInv, FilteredPending
      <3>2. PICK q \in droppedRanges' : q.start <= r.start /\ r.end <= q.end
        BY <1>2
      <3>3. q \in DroppedRange /\ r \in DroppedRange /\ n \in U64
        BY <1>2, <2>2 DEF IndInv, TypeOK
      <3>. QED  BY <3>1, <3>2, <3>3 DEF Covers, DroppedRange, U64
    <2>. QED  BY <1>3, <2>1, <2>2
  <1>7. \A q \in droppedRanges' : q.start .. q.end \subseteq filtered'
    <2>. SUFFICES ASSUME NEW q \in droppedRanges', NEW n \in q.start .. q.end
                  PROVE  n \in filtered'
      OBVIOUS
    <2>1. CASE n \in s .. end
      BY <1>3, <2>1
    <2>2. CASE \E r \in droppedRanges : Covers(r, n)
      <3>1. PICK r \in droppedRanges : Covers(r, n)
        BY <2>2
      <3>2. q \in DroppedRange /\ r \in DroppedRange
        BY <1>2 DEF IndInv, TypeOK
      <3>3. n \in r.start .. r.end
        BY <3>1, <3>2 DEF Covers, DroppedRange, U64
      <3>4. n \in filtered
        BY <3>3 DEF IndInv, FilteredPending
      <3>. QED  BY <1>3, <3>4
    <2>. QED  BY <1>2, <2>1, <2>2
  <1>. QED  BY <1>2, <1>4, <1>5, <1>6, <1>7 DEF IndInv, FilteredPending

\* Passing a seen number preserves the invariant.
LEMMA SettleObservedStep ==
    ASSUME IndInv, SettleObserved
    PROVE  IndInv' /\ committed' = committed + 1
  <1>. USE WidthAssumption DEF IndInv, SettleObserved, verdicts
  <1>1. committed \in Seqs /\ committed \in U64 /\ committed < MaxU64
    BY SeqsBelowMax DEF TypeOK
  <1>2. committed' = committed + 1 /\ committed' \in U64
    BY <1>1 DEF WrappingInc, U64
  <1>3. TypeOK' /\ Reachable' /\ RangesApart'
    BY <1>2 DEF TypeOK, Reachable, RangesApart
  <1>4. SeenInWindow'
    BY <1>1, <1>2, SeqsBelowMax DEF SeenInWindow, TypeOK, U64
  <1>5. LostSettled'
    BY <1>1, <1>2 DEF LostSettled, TypeOK, U64
  <1>6. FilteredPending'
    BY <1>1, <1>2 DEF FilteredPending, TypeOK, U64, Covers
  <1>. QED  BY <1>2, <1>3, <1>4, <1>5, <1>6

\* Jumping over a dropped range preserves the invariant.
LEMMA SettleRangeStep ==
    ASSUME IndInv, SettleRange
    PROVE  /\ IndInv'
           /\ \E r \in droppedRanges : Covers(r, committed) /\ committed' = r.end + 1
  <1>. USE WidthAssumption
  <1>1. TypeOK /\ RangesApart /\ committed \in U64
    BY DEF IndInv, TypeOK
  <1>2. PICK r \in LastStartingBy(committed) :
            /\ committed <= r.end
            /\ droppedRanges' = droppedRanges \ {r}
            /\ committed' = WrappingInc(r.end)
    BY DEF SettleRange
  <1>3. r \in droppedRanges /\ r \in DroppedRange /\ Covers(r, committed)
    BY <1>1, <1>2, RangeFound DEF TypeOK
  <1>4. r.end \in U64 /\ r.end < MaxU64
    BY <1>3, SeqsBelowMax DEF IndInv, Reachable
  <1>5. committed' = r.end + 1 /\ committed' \in U64 /\ committed < committed'
    BY <1>1, <1>2, <1>4 DEF WrappingInc, U64
  <1>6. UNCHANGED <<observed, high, settling, accepted, lost, filtered>>
    BY DEF SettleRange, verdicts
  <1>7. TypeOK' /\ Reachable' /\ RangesApart'
    BY <1>2, <1>5, <1>6 DEF IndInv, TypeOK, Reachable, RangesApart
  <1>8. SeenInWindow' /\ LostSettled'
    <2>1. \A s \in accepted \cup lost : s \in U64
      BY SeqsBelowMax DEF IndInv, TypeOK
    <2>. QED  BY <1>1, <1>5, <1>6, <2>1 DEF IndInv, SeenInWindow, LostSettled, U64
  <1>9. \A s \in filtered : s < committed' \/ \E q \in droppedRanges' : Covers(q, s)
    <2>. SUFFICES ASSUME NEW s \in filtered, ~(s < committed')
                  PROVE  \E q \in droppedRanges' : Covers(q, s)
      OBVIOUS
    <2>1. s \in U64 /\ ~(s < committed)
      BY <1>1, <1>5 DEF IndInv, TypeOK, U64
    <2>2. PICK q \in droppedRanges : Covers(q, s)
      BY <2>1 DEF IndInv, FilteredPending
    <2>3. q # r
      BY <1>4, <1>5, <2>1, <2>2 DEF Covers, U64
    <2>. QED  BY <1>2, <2>2, <2>3
  <1>10. FilteredPending'
    BY <1>2, <1>6, <1>9 DEF IndInv, FilteredPending, Covers
  <1>. QED  BY <1>3, <1>5, <1>7, <1>8, <1>10 DEF IndInv

\* Giving up the number at the watermark preserves the invariant.
LEMMA SettleLostStep ==
    ASSUME IndInv, SettleLost
    PROVE  IndInv' /\ committed' = committed + 1 /\ committed + Lag < high
  <1>. USE WidthAssumption, LagAssumption
  <1>1. committed \in U64 /\ high \in U64
    BY DEF IndInv, TypeOK
  <1>2. committed + Lag < high
    BY <1>1 DEF SettleLost, WindowOverflows, SaturatingSub, MaxOf, U64
  <1>3. committed' = committed + 1 /\ committed' \in U64
    BY <1>1, <1>2 DEF SettleLost, WrappingInc, U64
  <1>4. /\ UNCHANGED <<observed, high, droppedRanges, settling, accepted, filtered>>
        /\ lost' = lost \cup {committed}
        /\ committed \notin observed
    BY DEF SettleLost
  <1>5. TypeOK' /\ Reachable' /\ RangesApart'
    BY <1>1, <1>3, <1>4 DEF IndInv, TypeOK, Reachable, RangesApart
  <1>6. SeenInWindow' /\ LostSettled'
    <2>1. \A s \in accepted \cup lost : s \in U64
      BY SeqsBelowMax DEF IndInv, TypeOK
    <2>. QED  BY <1>1, <1>3, <1>4, <2>1 DEF IndInv, SeenInWindow, LostSettled, U64
  <1>7. FilteredPending'
    <2>1. \A s \in filtered : s \in U64
      BY DEF IndInv, TypeOK
    <2>. QED  BY <1>1, <1>3, <1>4, <2>1 DEF IndInv, FilteredPending, Covers, U64
  <1>. QED  BY <1>2, <1>3, <1>5, <1>6, <1>7 DEF IndInv

\* A step that leaves everything unchanged, and the end of the loop.
LEMMA IdleStep ==
    ASSUME IndInv, UNCHANGED vars \/ SettleDone
    PROVE  IndInv' /\ UNCHANGED <<committed, observed, high, droppedRanges, accepted, lost, filtered>>
  <1>1. UNCHANGED <<committed, observed, high, droppedRanges, accepted, lost, filtered>>
    BY DEF vars, window, verdicts, SettleDone
  <1>2. settling' \in BOOLEAN
    BY DEF vars, window, verdicts, SettleDone, IndInv, TypeOK
  <1>. QED  BY <1>1, <1>2 DEF IndInv, TypeOK, Reachable, RangesApart, SeenInWindow, LostSettled,
                              FilteredPending, Covers

\* The cases of a step, with the handlers that return early folded into the
\* stuttering one.
LEMMA StepCases ==
    ASSUME [Next]_vars
    PROVE  \/ \E seq \in Seqs : ObserveNew(seq)
           \/ \E start, end \in Seqs : CommitRange(start, end)
           \/ SettleObserved \/ SettleRange \/ SettleLost
           \/ SettleDone \/ UNCHANGED vars
  BY DEF Next, Settle, ObserveDuplicate, CommitRangeIgnored

\* The invariant is inductive.
LEMMA IndInvStep == IndInv /\ [Next]_vars => IndInv'
  <1>. SUFFICES ASSUME IndInv, [Next]_vars
                PROVE  IndInv'
    OBVIOUS
  <1>1. ASSUME NEW seq \in Seqs, ObserveNew(seq)
        PROVE  IndInv'
    BY <1>1, ObserveStep
  <1>2. ASSUME NEW start \in Seqs, NEW end \in Seqs, CommitRange(start, end)
        PROVE  IndInv'
    BY <1>2, CommitRangeStep
  <1>3. CASE SettleObserved
    BY <1>3, SettleObservedStep
  <1>4. CASE SettleRange
    BY <1>4, SettleRangeStep
  <1>5. CASE SettleLost
    BY <1>5, SettleLostStep
  <1>6. CASE SettleDone \/ UNCHANGED vars
    BY <1>6, IdleStep
  <1>. QED  BY <1>1, <1>2, <1>3, <1>4, <1>5, <1>6, StepCases

\* The invariant holds in every state of a behaviour.
LEMMA IndInvHolds == Spec => []IndInv
  BY IndInvInit, IndInvStep, PTL DEF Spec

-----------------------------------------------------------------------------
(* What the calls return, over the whole life of a tracker. *)

Verdicts ==
    /\ AcceptedNeverLost
    /\ FilteredNeverLost
    /\ PrefixAccounted
    /\ LostOnlyOutsideWindow
    /\ WindowBounded

\* A new tracker has given no verdict.
LEMMA VerdictsInit == Init => Verdicts
  BY LagAssumption, WidthAssumption, FirstAssumption
     DEF Init, Verdicts, AcceptedNeverLost, FilteredNeverLost, PrefixAccounted,
         LostOnlyOutsideWindow, WindowBounded, U64

\* No step breaks what Verdicts says, given the invariant.
LEMMA VerdictsStep == IndInv /\ Verdicts /\ [Next]_vars => Verdicts'
  <1>. SUFFICES ASSUME IndInv, Verdicts, [Next]_vars
                PROVE  Verdicts'
    OBVIOUS
  <1>. USE LagAssumption, WidthAssumption, FirstAssumption
  <1>0. /\ committed \in U64 /\ high \in U64 /\ First \in U64
        /\ \A s \in accepted \cup lost \cup filtered : s \in U64
    BY SeqsBelowMax DEF IndInv, TypeOK, U64
  <1>1. ASSUME NEW seq \in Seqs, ObserveNew(seq)
        PROVE  Verdicts'
    <2>1. seq >= committed /\ seq \in U64
      BY <1>0, <1>1, SeqsBelowMax DEF ObserveNew, IsDuplicate, U64
    <2>2. /\ UNCHANGED <<committed, lost, filtered>>
          /\ accepted' = accepted \cup {seq}
          /\ high' = MaxOf(high, seq)
          /\ settling'
      BY <1>1 DEF ObserveNew
    <2>3. AcceptedNeverLost' /\ FilteredNeverLost'
      BY <1>0, <2>1, <2>2
         DEF Verdicts, AcceptedNeverLost, FilteredNeverLost, IndInv, LostSettled, U64
    <2>4. PrefixAccounted' /\ WindowBounded'
      BY <2>2 DEF Verdicts, PrefixAccounted, WindowBounded
    <2>5. LostOnlyOutsideWindow'
      BY <1>0, <2>1, <2>2 DEF Verdicts, LostOnlyOutsideWindow, MaxOf, U64
    <2>. QED  BY <2>3, <2>4, <2>5 DEF Verdicts
  <1>2. ASSUME NEW start \in Seqs, NEW end \in Seqs, CommitRange(start, end)
        PROVE  Verdicts'
    <2>1. end \in U64 /\ start \in U64
      BY SeqsBelowMax
    <2>2. /\ UNCHANGED <<committed, lost, accepted>>
          /\ filtered' = filtered \cup (MaxOf(start, committed) .. end)
          /\ high' = MaxOf(high, end)
          /\ settling'
      BY <1>2 DEF CommitRange
    <2>3. \A s \in MaxOf(start, committed) .. end : s >= committed
      BY <1>0, <2>1 DEF MaxOf, U64
    <2>4. AcceptedNeverLost' /\ FilteredNeverLost'
      BY <1>0, <2>2, <2>3
         DEF Verdicts, AcceptedNeverLost, FilteredNeverLost, IndInv, LostSettled, U64
    <2>5. PrefixAccounted' /\ WindowBounded'
      BY <2>2 DEF Verdicts, PrefixAccounted, WindowBounded
    <2>6. LostOnlyOutsideWindow'
      BY <1>0, <2>1, <2>2 DEF Verdicts, LostOnlyOutsideWindow, MaxOf, U64
    <2>. QED  BY <2>4, <2>5, <2>6 DEF Verdicts
  <1>3. CASE SettleObserved
    <2>1. committed' = committed + 1 /\ committed \in accepted
      BY <1>3, SettleObservedStep DEF SettleObserved, IndInv, SeenInWindow
    <2>2. UNCHANGED <<high, settling, accepted, lost, filtered>> /\ settling
      BY <1>3 DEF SettleObserved, verdicts
    <2>3. PrefixAccounted'
      BY <1>0, <2>1, <2>2 DEF Verdicts, PrefixAccounted, U64
    <2>. QED  BY <2>2, <2>3 DEF Verdicts, AcceptedNeverLost, FilteredNeverLost,
                                LostOnlyOutsideWindow, WindowBounded
  <1>4. CASE SettleRange
    <2>1. PICK r \in droppedRanges : Covers(r, committed) /\ committed' = r.end + 1
      BY <1>4, SettleRangeStep
    <2>2. UNCHANGED <<high, settling, accepted, lost, filtered>> /\ settling
      BY <1>4 DEF SettleRange, verdicts
    <2>3. committed .. r.end \subseteq filtered
      <3>1. r \in DroppedRange /\ r.start .. r.end \subseteq filtered
        BY DEF IndInv, TypeOK, FilteredPending
      <3>. QED  BY <1>0, <2>1, <3>1 DEF Covers, DroppedRange, U64
    <2>4. r.end \in Int
      BY DEF IndInv, TypeOK, DroppedRange, U64
    <2>5. PrefixAccounted'
      BY <1>0, <2>1, <2>2, <2>3, <2>4 DEF Verdicts, PrefixAccounted, U64
    <2>. QED  BY <2>2, <2>5 DEF Verdicts, AcceptedNeverLost, FilteredNeverLost,
                                LostOnlyOutsideWindow, WindowBounded
  <1>5. CASE SettleLost
    <2>1. committed' = committed + 1 /\ committed + Lag < high
      BY <1>5, SettleLostStep
    <2>2. /\ UNCHANGED <<high, settling, accepted, filtered>> /\ settling
          /\ lost' = lost \cup {committed}
      BY <1>5 DEF SettleLost
    <2>3. committed \notin accepted
      BY <1>0, <1>5 DEF SettleLost, IndInv, SeenInWindow, U64
    <2>4. committed \notin filtered
      <3>1. ~ \E r \in droppedRanges : Covers(r, committed)
        BY <1>0, <1>5, RangeFound DEF SettleLost, IndInv
      <3>. QED  BY <1>0, <3>1 DEF IndInv, FilteredPending, U64
    <2>5. AcceptedNeverLost' /\ FilteredNeverLost'
      BY <2>2, <2>3, <2>4 DEF Verdicts, AcceptedNeverLost, FilteredNeverLost
    <2>6. PrefixAccounted'
      BY <1>0, <2>1, <2>2 DEF Verdicts, PrefixAccounted, U64
    <2>7. LostOnlyOutsideWindow' /\ WindowBounded'
      BY <2>1, <2>2 DEF Verdicts, LostOnlyOutsideWindow, WindowBounded
    <2>. QED  BY <2>5, <2>6, <2>7 DEF Verdicts
  <1>6. CASE SettleDone
    <2>1. UNCHANGED <<committed, high, accepted, lost, filtered>>
      BY <1>6, IdleStep
    <2>2. high - committed <= Lag
      BY <1>0, <1>6 DEF SettleDone, WindowOverflows, SaturatingSub, MaxOf, U64
    <2>. QED  BY <2>1, <2>2 DEF Verdicts, AcceptedNeverLost, FilteredNeverLost, PrefixAccounted,
                                LostOnlyOutsideWindow, WindowBounded
  <1>7. CASE UNCHANGED vars
    BY <1>7 DEF vars, window, verdicts, Verdicts, AcceptedNeverLost, FilteredNeverLost,
                PrefixAccounted, LostOnlyOutsideWindow, WindowBounded
  <1>. QED  BY <1>1, <1>2, <1>3, <1>4, <1>5, <1>6, <1>7, StepCases

\* Verdicts holds in every state of a behaviour.
LEMMA VerdictsHold == Spec => [](IndInv /\ Verdicts)
  BY IndInvHolds, VerdictsInit, VerdictsStep, PTL DEF Spec

-----------------------------------------------------------------------------
(* The theorems. *)

\* The window's fields stay within u64 and hold only numbers that were fed in.
THEOREM TypeCorrect == Spec => []TypeOK
  <1>1. IndInv => TypeOK
    BY DEF IndInv
  <1>. QED  BY <1>1, IndInvHolds, PTL

\* insert_dropped_range keeps the pending ranges disjoint and not adjacent for
\* every sequence of reported ranges.
THEOREM RangesStayApart == Spec => []RangesApart
  <1>1. IndInv => RangesApart
    BY DEF IndInv
  <1>. QED  BY <1>1, IndInvHolds, PTL

\* observe never accepts a number that was declared lost, and settle never
\* declares an accepted number lost.
THEOREM NeverAcceptedAndLost == Spec => []AcceptedNeverLost
  <1>1. Verdicts => AcceptedNeverLost
    BY DEF Verdicts
  <1>. QED  BY <1>1, VerdictsHold, PTL

\* A number that commit_range took is never declared lost.
THEOREM NeverFilteredAndLost == Spec => []FilteredNeverLost
  <1>1. Verdicts => FilteredNeverLost
    BY DEF Verdicts
  <1>. QED  BY <1>1, VerdictsHold, PTL

\* Every number below the watermark has a verdict.
THEOREM WatermarkMeansSettled == Spec => []PrefixAccounted
  <1>1. Verdicts => PrefixAccounted
    BY DEF Verdicts
  <1>. QED  BY <1>1, VerdictsHold, PTL

\* A number is declared lost only after one more than Lag above it was seen.
THEOREM LossIsDelayed == Spec => []LostOnlyOutsideWindow
  <1>1. Verdicts => LostOnlyOutsideWindow
    BY DEF Verdicts
  <1>. QED  BY <1>1, VerdictsHold, PTL

\* When a call returns, the watermark trails the highest number by at most Lag.
THEOREM WindowStaysBounded == Spec => []WindowBounded
  <1>1. Verdicts => WindowBounded
    BY DEF Verdicts
  <1>. QED  BY <1>1, VerdictsHold, PTL

\* No step takes the watermark or the highest number back.
THEOREM WatermarkNeverMovesBack == Spec => WatermarkMonotone
  <1>1. IndInv /\ [Next]_vars => [committed' >= committed /\ high' >= high]_vars
    <2>. SUFFICES ASSUME IndInv, [Next]_vars
                  PROVE  committed' >= committed /\ high' >= high
      OBVIOUS
    <2>. USE WidthAssumption
    <2>0. committed \in Int /\ high \in Int /\ \A s \in Seqs : s \in Int
      BY SeqsBelowMax DEF IndInv, TypeOK, U64
    <2>1. ASSUME NEW seq \in Seqs, ObserveNew(seq)
          PROVE  committed' >= committed /\ high' >= high
      BY <2>0, <2>1 DEF ObserveNew, MaxOf
    <2>2. ASSUME NEW start \in Seqs, NEW end \in Seqs, CommitRange(start, end)
          PROVE  committed' >= committed /\ high' >= high
      BY <2>0, <2>2 DEF CommitRange, MaxOf
    <2>3. CASE SettleObserved
      BY <2>0, <2>3, SettleObservedStep DEF SettleObserved
    <2>4. CASE SettleRange
      <3>1. PICK r \in droppedRanges : Covers(r, committed) /\ committed' = r.end + 1
        BY <2>4, SettleRangeStep
      <3>2. r.end \in Int
        BY DEF IndInv, TypeOK, DroppedRange, U64
      <3>. QED  BY <2>0, <2>4, <3>1, <3>2 DEF Covers, SettleRange
    <2>5. CASE SettleLost
      BY <2>0, <2>5, SettleLostStep DEF SettleLost
    <2>6. CASE SettleDone \/ UNCHANGED vars
      BY <2>0, <2>6, IdleStep
    <2>. QED  BY <2>1, <2>2, <2>3, <2>4, <2>5, <2>6, StepCases
  <1>. QED  BY <1>1, IndInvHolds, PTL DEF Spec, WatermarkMonotone

-----------------------------------------------------------------------------
(* Refinement: the tracker implements StreamContract. *)

\* How a step of the tracker shows in the verdicts.
LEMMA FateStep == IndInv /\ Verdicts /\ [Next]_vars => [Contract!Next]_<<Fate, high>>
  <1>. SUFFICES ASSUME IndInv, Verdicts, [Next]_vars
                PROVE  Contract!Next \/ UNCHANGED <<Fate, high>>
    OBVIOUS
  <1>. USE LagAssumption, WidthAssumption
  <1>0. /\ committed \in U64 /\ high \in U64
        /\ \A s \in accepted \cup lost \cup filtered : s \in U64
    BY SeqsBelowMax DEF IndInv, TypeOK
  <1>a. accepted \cap lost = {} /\ filtered \cap lost = {}
    BY DEF Verdicts, AcceptedNeverLost, FilteredNeverLost
  <1>1. ASSUME NEW seq \in Seqs, ObserveNew(seq)
        PROVE  Contract!Next
    <2>1. seq \in U64 /\ seq >= committed /\ seq \notin observed
      BY <1>0, <1>1, SeqsBelowMax DEF ObserveNew, IsDuplicate, U64
    <2>2. seq \notin accepted /\ seq \notin lost
      BY <1>0, <2>1 DEF IndInv, SeenInWindow, LostSettled, U64
    <2>3. seq \notin filtered
      <3>1. ~ \E r \in droppedRanges : Covers(r, seq)
        BY <1>1, <2>1, RangeFound DEF ObserveNew, IsDuplicate, IndInv
      <3>. QED  BY <1>0, <2>1, <3>1 DEF IndInv, FilteredPending, U64
    <2>4. Fate[seq] = "open"
      BY <2>1, <2>2, <2>3 DEF Fate
    <2>5. Fate' = [Fate EXCEPT ![seq] = "accepted"]
      BY <1>1, <2>1, <2>2, <2>3 DEF ObserveNew, Fate
    <2>6. Contract!Reach(seq)
      BY <1>0, <1>1, <2>1 DEF ObserveNew, MaxOf, Contract!Reach, U64
    <2>. QED  BY <2>1, <2>4, <2>5, <2>6 DEF Contract!Next, Contract!Accept
  <1>2. ASSUME NEW start \in Seqs, NEW end \in Seqs, CommitRange(start, end)
        PROVE  Contract!Next
    <2>. DEFINE s == MaxOf(start, committed)
    <2>1. s \in U64 /\ end \in U64
      BY <1>0, SeqsBelowMax DEF MaxOf
    <2>2. filtered' = filtered \cup (s .. end) /\ UNCHANGED <<accepted, lost>>
      BY <1>2 DEF CommitRange
    <2>3. Fate' = [n \in U64 |->
                      IF n \in s .. end /\ Fate[n] = "open" THEN "filtered" ELSE Fate[n]]
      BY <2>2 DEF Fate
    <2>4. Contract!Reach(end)
      BY <1>0, <1>2, <2>1 DEF CommitRange, MaxOf, Contract!Reach, U64
    <2>5. Contract!Filter(s, end)
      BY <2>3, <2>4 DEF Contract!Filter
    <2>. QED  BY <2>1, <2>5 DEF Contract!Next
  <1>3. CASE SettleLost
    <2>1. committed + Lag < high
      BY <1>3, SettleLostStep
    <2>2. committed \notin accepted
      BY <1>0, <1>3 DEF SettleLost, IndInv, SeenInWindow, U64
    <2>3. committed \notin filtered /\ committed \notin lost
      <3>1. ~ \E r \in droppedRanges : Covers(r, committed)
        BY <1>0, <1>3, RangeFound DEF SettleLost, IndInv
      <3>. QED  BY <1>0, <3>1 DEF IndInv, FilteredPending, LostSettled, U64
    <2>4. UNCHANGED <<accepted, filtered, high>> /\ lost' = lost \cup {committed}
      BY <1>3 DEF SettleLost
    <2>5. Fate[committed] = "open"
      BY <1>0, <2>2, <2>3 DEF Fate
    <2>6. Fate' = [Fate EXCEPT ![committed] = "lost"]
      BY <1>0, <2>2, <2>3, <2>4 DEF Fate
    <2>. QED  BY <1>0, <2>1, <2>4, <2>5, <2>6 DEF Contract!Next, Contract!Lose
  <1>4. CASE SettleObserved \/ SettleRange \/ SettleDone \/ UNCHANGED vars
    <2>1. UNCHANGED <<accepted, lost, filtered, high>>
      BY <1>4 DEF SettleObserved, SettleRange, SettleDone, vars, window, verdicts
    <2>. QED  BY <2>1 DEF Fate
  <1>. QED  BY <1>1, <1>2, <1>3, <1>4, StepCases

\* observe, commit_range and the settle loop implement the contract of the
\* stream: one verdict per number, never taken back, loss only after Lag.
THEOREM TrackerImplementsContract == Spec => ImplementsContract
  <1>1. Init => Contract!Init
    BY DEF Init, Contract!Init, Fate
  <1>. QED  BY <1>1, VerdictsHold, FateStep, PTL DEF Spec, ImplementsContract, Contract!Spec

-----------------------------------------------------------------------------
(* The channel: its counters against the verdicts of the tracker. *)

\* To the tracker a channel is a caller like any other.
LEMMA ChannelTracks == ChannelSpec => Spec
  <1>1. ChannelInit => Init
    BY DEF ChannelInit
  <1>2. [ChannelNext]_channelVars => [Next]_vars
    BY DEF ChannelNext, OnRecordRejected, OnRecordAccepted, OnDroppedRange, ChannelSettle,
           Next, channelVars
  <1>. QED  BY <1>1, <1>2, PTL DEF ChannelSpec, Spec

\* Every number with a verdict is below u64::MAX, so there are at most
\* u64::MAX of them.
LEMMA VerdictsBelowMax ==
    ASSUME IndInv, Verdicts
    PROVE  /\ accepted \cup lost \cup filtered \subseteq 0 .. (MaxU64 - 1)
           /\ IsFiniteSet(accepted) /\ IsFiniteSet(lost) /\ IsFiniteSet(filtered)
           /\ IsFiniteSet(accepted \cup lost \cup filtered)
           /\ Cardinality(accepted \cup lost \cup filtered) <= MaxU64
  <1>. USE LagAssumption, WidthAssumption
  <1>0. committed \in U64 /\ high \in U64 /\ \A s \in lost \cup filtered : s \in U64
    BY DEF IndInv, TypeOK
  <1>1. accepted \subseteq 0 .. (MaxU64 - 1)
    BY SeqAssumption DEF IndInv, TypeOK
  <1>2. \A s \in lost : s < MaxU64
    BY <1>0 DEF Verdicts, LostOnlyOutsideWindow, U64
  <1>3. \A s \in filtered : s < MaxU64
    <2>1. \A r \in droppedRanges : r.end \in U64 /\ r.end < MaxU64
      BY SeqsBelowMax DEF IndInv, Reachable
    <2>. QED  BY <1>0, <2>1 DEF IndInv, FilteredPending, Covers, U64
  <1>4. accepted \cup lost \cup filtered \subseteq 0 .. (MaxU64 - 1)
    <2>1. \A s \in lost \cup filtered : s \in 0 .. (MaxU64 - 1)
      BY <1>0, <1>2, <1>3 DEF U64
    <2>. QED  BY <1>1, <2>1
  <1>5. IsFiniteSet(0 .. (MaxU64 - 1)) /\ Cardinality(0 .. (MaxU64 - 1)) <= MaxU64
    <2>1. /\ IsFiniteSet(0 .. (MaxU64 - 1))
          /\ Cardinality(0 .. (MaxU64 - 1)) = IF 0 > MaxU64 - 1 THEN 0 ELSE MaxU64 - 1 - 0 + 1
      <3>1. 0 \in Int /\ MaxU64 - 1 \in Int
        OBVIOUS
      <3>. QED  BY <3>1, FS_Interval
    <2>. QED  BY <2>1
  <1>6. Cardinality(accepted \cup lost \cup filtered) <= Cardinality(0 .. (MaxU64 - 1))
    BY <1>4, <1>5, FS_Subset
  <1>7. /\ Cardinality(accepted \cup lost \cup filtered) \in Nat
        /\ Cardinality(0 .. (MaxU64 - 1)) \in Nat
    BY <1>4, <1>5, FS_Subset, FS_CardinalityType
  <1>. QED  BY <1>4, <1>5, <1>6, <1>7, FS_Subset

\* observe accepts a number at most once, and a settle loop declares it lost at
\* most once: each counter grows with its set.
LEMMA CountsStep ==
    ASSUME IndInv, Verdicts, CountsExact, [ChannelNext]_channelVars
    PROVE  CountsExact'
  <1>. USE DEF CountsExact
  <1>0. IsFiniteSet(accepted) /\ IsFiniteSet(lost)
    BY VerdictsBelowMax
  <1>1. ASSUME NEW seq \in Seqs, OnRecordAccepted(seq)
        PROVE  CountsExact'
    <2>1. seq \notin accepted
      <3>1. ~(seq < committed) /\ seq \notin observed
        BY <1>1 DEF OnRecordAccepted, ObserveNew, IsDuplicate
      <3>2. seq \in Int /\ committed \in Int
        BY WidthAssumption, SeqsBelowMax DEF IndInv, TypeOK, U64
      <3>. QED  BY <3>1, <3>2 DEF IndInv, SeenInWindow
    <2>2. accepted' = accepted \cup {seq} /\ acceptedCount' = acceptedCount + 1
      BY <1>1 DEF OnRecordAccepted, ObserveNew
    <2>3. lost' = lost /\ lostCount' = lostCount
      BY <1>1 DEF OnRecordAccepted, ObserveNew
    <2>4. Cardinality(accepted \cup {seq}) = Cardinality(accepted) + 1
      BY <1>0, <2>1, FS_AddElement
    <2>. QED  BY <2>2, <2>3, <2>4
  <1>2. ASSUME NEW start \in Seqs, NEW end \in Seqs, OnDroppedRange(start, end)
        PROVE  CountsExact'
    BY <1>2 DEF OnDroppedRange, CommitRangeIgnored, CommitRange, vars, verdicts
  <1>3. CASE ChannelSettle /\ SettleLost
    <2>1. committed \notin lost
      <3>1. committed \in Int
        BY WidthAssumption DEF IndInv, TypeOK, U64
      <3>. QED  BY <3>1 DEF IndInv, LostSettled
    <2>2. /\ lost' = lost \cup {committed} /\ lostCount' = lostCount + 1
          /\ accepted' = accepted /\ acceptedCount' = acceptedCount
      BY <1>3 DEF ChannelSettle, SettleLost
    <2>3. Cardinality(lost \cup {committed}) = Cardinality(lost) + 1
      BY <1>0, <2>1, FS_AddElement
    <2>. QED  BY <2>2, <2>3
  <1>4. CASE ChannelSettle /\ ~SettleLost
    <2>1. SettleObserved \/ SettleRange \/ SettleDone
      BY <1>4 DEF ChannelSettle, Settle
    <2>2. accepted' = accepted /\ lost' = lost
      BY <2>1 DEF SettleObserved, SettleRange, SettleDone, verdicts
    <2>3. acceptedCount' = acceptedCount /\ lostCount' = lostCount
      BY <1>4 DEF ChannelSettle
    <2>. QED  BY <2>2, <2>3
  <1>5. ASSUME NEW seq \in Seqs, OnRecordRejected(seq)
        PROVE  CountsExact'
    BY <1>5 DEF OnRecordRejected, ObserveDuplicate, vars, verdicts, counters
  <1>6. CASE UNCHANGED channelVars
    BY <1>6 DEF channelVars, vars, verdicts, counters
  <1>. QED  BY <1>1, <1>2, <1>3, <1>4, <1>5, <1>6 DEF ChannelNext

\* accepted_count and lost_count are the numbers of records accepted and lost.
THEOREM CountsStayExact == ChannelSpec => []CountsExact
  <1>1. ChannelInit => CountsExact
    BY FS_EmptySet DEF ChannelInit, Init, CountsExact
  <1>2. IndInv /\ Verdicts /\ CountsExact /\ [ChannelNext]_channelVars => CountsExact'
    BY CountsStep
  <1>. QED  BY <1>1, <1>2, ChannelTracks, VerdictsHold, PTL DEF ChannelSpec

-----------------------------------------------------------------------------
(* The reconciliation ledger. *)

RangeReports == reported \in Seq([start : Seqs, end : Seqs])

\* As long as the reports are disjoint, the numbers dropped on purpose are those
\* that were reported, each counted once.
ReportsCounted ==
    ReportsDisjoint =>
        /\ \A s : s \in filtered <=> \E i \in DOMAIN reported : s \in ReportedRange(i)
        /\ filteredCount = Cardinality(filtered)

\* A list with one more report.
LEMMA OneMore ==
    ASSUME RangeReports, NEW start \in Seqs, NEW end \in Seqs,
           reported' = Append(reported, [start |-> start, end |-> end])
    PROVE  /\ RangeReports'
           /\ \A i \in DOMAIN reported : i \in DOMAIN reported' /\ reported'[i] = reported[i]
           /\ \E n : /\ DOMAIN reported' = DOMAIN reported \cup {n} /\ n \notin DOMAIN reported
                    /\ reported'[n].start = start /\ reported'[n].end = end
  <1>. DEFINE e == [start |-> start, end |-> end]
              n == Len(reported) + 1
  <1>1. e \in [start : Seqs, end : Seqs] /\ e.start = start /\ e.end = end
    OBVIOUS
  <1>2. reported \in Seq([start : Seqs, end : Seqs]) /\ Len(reported) \in Nat
    BY DEF RangeReports
  <1>. HIDE DEF e
  <1>3. reported' = Append(reported, e)
    BY DEF e
  <1>4. /\ reported' \in Seq([start : Seqs, end : Seqs])
        /\ DOMAIN reported = 1 .. Len(reported) /\ DOMAIN reported' = 1 .. n
        /\ \A i \in 1 .. Len(reported) : reported'[i] = reported[i]
        /\ reported'[n] = e
    BY <1>1, <1>2, <1>3
  <1>. QED  BY <1>1, <1>2, <1>4 DEF RangeReports

\* What is disjoint now was disjoint before: reports are only added, and
\* verdicts are never taken back.
LEMMA DisjointBefore ==
    ASSUME RangeReports, accepted \subseteq accepted', lost \subseteq lost',
           \/ reported' = reported
           \/ \E start, end \in Seqs : reported' = Append(reported, [start |-> start, end |-> end]),
           ReportsDisjoint'
    PROVE  ReportsDisjoint
  <1>1. /\ DOMAIN reported \subseteq DOMAIN reported'
        /\ \A i \in DOMAIN reported : reported'[i] = reported[i]
    BY OneMore
  <1>2. \A i \in DOMAIN reported : ReportedRange(i)' = ReportedRange(i)
    BY <1>1 DEF ReportedRange
  <1>3. \A i \in DOMAIN reported :
          /\ reported[i].start <= reported[i].end /\ First <= reported[i].start
          /\ ReportedRange(i) \cap (accepted \cup lost) = {}
    <2>. SUFFICES ASSUME NEW i \in DOMAIN reported
                  PROVE  /\ reported[i].start <= reported[i].end /\ First <= reported[i].start
                         /\ ReportedRange(i) \cap (accepted \cup lost) = {}
      OBVIOUS
    <2>1. /\ reported'[i].start <= reported'[i].end /\ First <= reported'[i].start
          /\ ReportedRange(i)' \cap (accepted' \cup lost') = {}
      BY <1>1 DEF ReportsDisjoint
    <2>2. reported'[i] = reported[i] /\ ReportedRange(i)' = ReportedRange(i)
      BY <1>1, <1>2
    <2>. QED  BY <2>1, <2>2
  <1>4. \A i, j \in DOMAIN reported : i # j => ReportedRange(i) \cap ReportedRange(j) = {}
    <2>. SUFFICES ASSUME NEW i \in DOMAIN reported, NEW j \in DOMAIN reported, i # j
                  PROVE  ReportedRange(i) \cap ReportedRange(j) = {}
      OBVIOUS
    <2>1. ReportedRange(i)' \cap ReportedRange(j)' = {}
      BY <1>1 DEF ReportsDisjoint
    <2>. QED  BY <1>2, <2>1
  <1>. QED  BY <1>3, <1>4 DEF ReportsDisjoint

\* The length of a range of numbers below u64::MAX is counted exactly.
LEMMA CountOfRange ==
    ASSUME NEW start \in Seqs, NEW end \in Seqs, start <= end
    PROVE  IsFiniteSet(start .. end) /\ Count(start, end) = Cardinality(start .. end)
  <1>1. start \in Int /\ end \in Int /\ 0 <= start /\ end < MaxU64 /\ MaxU64 \in Nat
    BY SeqsBelowMax, WidthAssumption DEF U64
  <1>2. IsFiniteSet(start .. end) /\ Cardinality(start .. end) = end - start + 1
    <2>1. IsFiniteSet(start .. end) /\ Cardinality(start .. end) = IF start > end THEN 0 ELSE end - start + 1
      BY <1>1, FS_Interval
    <2>. QED  BY <1>1, <2>1
  <1>3. Count(start, end) = end - start + 1
    BY <1>1 DEF Count, SaturatingAdd, SaturatingSub, MaxOf, MinOf
  <1>. QED  BY <1>2, <1>3

\* A range that is reported once and in time starts at the watermark or above
\* it, so commit_range takes the whole of it.
LEMMA ReportCounted ==
    ASSUME IndInv, Verdicts, RangeReports, ReportsCounted, ReportsDisjoint, ReportsDisjoint',
           NEW start \in Seqs, NEW end \in Seqs, OnDroppedRange(start, end)
    PROVE  /\ \A s : s \in filtered' <=> \E i \in DOMAIN reported' : s \in ReportedRange(i)'
           /\ filteredCount' = Cardinality(filtered')
  <1>1. /\ reported' = Append(reported, [start |-> start, end |-> end])
        /\ filteredCount' = filteredCount + Count(start, end)
        /\ accepted' = accepted /\ lost' = lost
    BY DEF OnDroppedRange, CommitRangeIgnored, CommitRange, vars, verdicts
  <1>2. PICK last :
          /\ DOMAIN reported' = DOMAIN reported \cup {last} /\ last \notin DOMAIN reported
          /\ \A i \in DOMAIN reported : reported'[i] = reported[i]
          /\ reported'[last].start = start /\ reported'[last].end = end
    BY <1>1, OneMore
  <1>3. /\ \A i \in DOMAIN reported : ReportedRange(i)' = ReportedRange(i)
        /\ ReportedRange(last)' = start .. end
    BY <1>2 DEF ReportedRange
  <1>4. /\ start <= end /\ First <= start
        /\ (start .. end) \cap (accepted \cup lost) = {}
        /\ \A i \in DOMAIN reported : ReportedRange(i) \cap (start .. end) = {}
    <2>1. last \in DOMAIN reported'
      BY <1>2
    <2>2. /\ reported'[last].start <= reported'[last].end /\ First <= reported'[last].start
          /\ ReportedRange(last)' \cap (accepted' \cup lost') = {}
      BY <2>1 DEF ReportsDisjoint
    <2>3. \A i \in DOMAIN reported : ReportedRange(i)' \cap ReportedRange(last)' = {}
      BY <1>2, <2>1 DEF ReportsDisjoint
    <2>. QED  BY <1>1, <1>2, <1>3, <2>2, <2>3
  <1>5. /\ \A s : s \in filtered <=> \E i \in DOMAIN reported : s \in ReportedRange(i)
        /\ filteredCount = Cardinality(filtered)
    BY DEF ReportsCounted
  <1>6. filtered \cap (start .. end) = {}
    BY <1>4, <1>5
  <1>7. /\ start \in Int /\ end \in Int /\ committed \in Int /\ First \in Int
    BY SeqsBelowMax, FirstAssumption, WidthAssumption DEF IndInv, TypeOK, U64
  <1>8. committed <= start
    <2>1. start \in start .. end
      BY <1>4, <1>7
    <2>2. start \notin accepted \cup lost \cup filtered
      BY <1>4, <1>6, <2>1
    <2>3. start \notin First .. (committed - 1)
      BY <2>2 DEF Verdicts, PrefixAccounted
    <2>. QED  BY <1>4, <1>7, <2>3
  <1>9. filtered' = filtered \cup (start .. end)
    <2>1. ~CommitRangeIgnored(start, end)
      BY <1>4, <1>7, <1>8 DEF CommitRangeIgnored
    <2>2. MaxOf(start, committed) = start
      BY <1>7, <1>8 DEF MaxOf
    <2>. QED  BY <2>1, <2>2 DEF OnDroppedRange, CommitRange
  <1>10. IsFiniteSet(filtered) /\ Cardinality(filtered) \in Nat
    BY VerdictsBelowMax, FS_CardinalityType
  <1>11. /\ IsFiniteSet(start .. end) /\ Count(start, end) = Cardinality(start .. end)
         /\ Cardinality(start .. end) \in Nat
    BY <1>4, CountOfRange, FS_CardinalityType
  <1>12. Cardinality(filtered \cup (start .. end)) = Cardinality(filtered) + Cardinality(start .. end)
    <2>1. Cardinality(filtered \cup (start .. end)) =
            Cardinality(filtered) + Cardinality(start .. end) - Cardinality(filtered \cap (start .. end))
      BY <1>10, <1>11, FS_Union
    <2>2. Cardinality(filtered \cap (start .. end)) = 0
      BY <1>6, FS_EmptySet, Zenon
    <2>. QED  BY <1>10, <1>11, <2>1, <2>2
  <1>13. filteredCount' = Cardinality(filtered')
    BY <1>1, <1>5, <1>9, <1>11, <1>12
  <1>14. \A s : s \in filtered' <=> \E i \in DOMAIN reported' : s \in ReportedRange(i)'
    <2>. TAKE s
    <2>1. s \in filtered' <=> s \in filtered \/ s \in start .. end
      BY <1>9
    <2>2. ASSUME s \in filtered
          PROVE  \E i \in DOMAIN reported' : s \in ReportedRange(i)'
      BY <1>2, <1>3, <1>5, <2>2
    <2>3. ASSUME s \in start .. end
          PROVE  \E i \in DOMAIN reported' : s \in ReportedRange(i)'
      BY <1>2, <1>3, <2>3
    <2>4. ASSUME NEW i \in DOMAIN reported', s \in ReportedRange(i)'
          PROVE  s \in filtered \/ s \in start .. end
      <3>1. CASE i = last
        <4>1. s \in ReportedRange(last)'
          BY <2>4, <3>1
        <4>. QED  BY <1>3, <4>1
      <3>2. CASE i \in DOMAIN reported
        BY <1>3, <1>5, <2>4, <3>2
      <3>. QED  BY <1>2, <3>1, <3>2
    <2>. QED  BY <2>1, <2>2, <2>3, <2>4
  <1>. QED  BY <1>13, <1>14

\* Every report adds its range once to what is filtered and counted.
LEMMA ReportsStep ==
    ASSUME IndInv, Verdicts, RangeReports, ReportsCounted, [ChannelNext]_channelVars
    PROVE  RangeReports' /\ ReportsCounted'
  <1>1. CASE \E start, end \in Seqs : OnDroppedRange(start, end)
    <2>1. PICK start \in Seqs, end \in Seqs : OnDroppedRange(start, end)
      BY <1>1
    <2>2. /\ reported' = Append(reported, [start |-> start, end |-> end])
          /\ accepted' = accepted /\ lost' = lost
      BY <2>1 DEF OnDroppedRange, CommitRangeIgnored, CommitRange, vars, verdicts
    <2>3. RangeReports'
      BY <2>2, OneMore
    <2>4. ReportsDisjoint' => ReportsDisjoint
      BY <2>2, DisjointBefore
    <2>5. ReportsCounted'
      BY <2>1, <2>4, ReportCounted DEF ReportsCounted
    <2>. QED  BY <2>3, <2>5
  <1>2. CASE /\ UNCHANGED <<filtered, filteredCount, reported>>
             /\ accepted \subseteq accepted' /\ lost \subseteq lost'
    <2>1. ReportsDisjoint' => ReportsDisjoint
      BY <1>2, DisjointBefore
    <2>2. \A i : ReportedRange(i)' = ReportedRange(i)
      BY <1>2 DEF ReportedRange
    <2>. QED  BY <1>2, <2>1, <2>2 DEF RangeReports, ReportsCounted
  <1>3. ASSUME NEW seq \in Seqs, OnRecordRejected(seq) \/ OnRecordAccepted(seq)
        PROVE  /\ UNCHANGED <<filtered, filteredCount, reported>>
               /\ accepted \subseteq accepted' /\ lost \subseteq lost'
    BY <1>3 DEF OnRecordRejected, OnRecordAccepted, ObserveDuplicate, ObserveNew, vars, verdicts, counters
  <1>4. ASSUME ChannelSettle
        PROVE  /\ UNCHANGED <<filtered, filteredCount, reported>>
               /\ accepted \subseteq accepted' /\ lost \subseteq lost'
    BY <1>4 DEF ChannelSettle, Settle, SettleObserved, SettleRange, SettleLost, SettleDone, verdicts
  <1>5. ASSUME UNCHANGED channelVars
        PROVE  /\ UNCHANGED <<filtered, filteredCount, reported>>
               /\ accepted \subseteq accepted' /\ lost \subseteq lost'
    BY <1>5 DEF channelVars, vars, verdicts, counters
  <1>. QED  BY <1>1, <1>2, <1>3, <1>4, <1>5 DEF ChannelNext

\* DeliveryLedger::balanced holds for the counters of a channel, without any of
\* its saturating sums at its end, when every dropped range is reported once
\* and in time.
THEOREM LedgerBalances == ChannelSpec => []LedgerBalancedIfDisjoint
  <1>1. ChannelInit => RangeReports /\ ReportsCounted
    BY FS_EmptySet DEF ChannelInit, Init, RangeReports, ReportsCounted
  <1>2. IndInv /\ Verdicts /\ RangeReports /\ ReportsCounted /\ [ChannelNext]_channelVars
            => RangeReports' /\ ReportsCounted'
    BY ReportsStep
  <1>3. IndInv /\ Verdicts /\ CountsExact /\ ReportsCounted => LedgerBalancedIfDisjoint
    <2>. SUFFICES ASSUME IndInv, Verdicts, CountsExact, ReportsCounted, ReportsDisjoint
                  PROVE  LedgerBalanced
      BY DEF LedgerBalancedIfDisjoint
    <2>. DEFINE a == Cardinality(accepted)
                l == Cardinality(lost)
                f == Cardinality(filtered)
                all == Cardinality(accepted \cup lost \cup filtered)
    <2>1. /\ IsFiniteSet(accepted) /\ IsFiniteSet(lost) /\ IsFiniteSet(filtered) /\ all <= MaxU64
          /\ a \in Nat /\ l \in Nat /\ f \in Nat
      BY VerdictsBelowMax, FS_CardinalityType
    <2>2. accepted \cap lost = {} /\ (accepted \cup lost) \cap filtered = {}
      BY DEF Verdicts, AcceptedNeverLost, ReportsCounted, ReportsDisjoint
    <2>3. IsFiniteSet(accepted \cup lost) /\ Cardinality(accepted \cup lost) = a + l
      <3>1. /\ IsFiniteSet(accepted \cup lost)
            /\ Cardinality(accepted \cup lost) = a + l - Cardinality(accepted \cap lost)
        BY <2>1, FS_Union
      <3>2. Cardinality(accepted \cap lost) = 0
        BY <2>2, FS_EmptySet, Zenon
      <3>. QED  BY <2>1, <3>1, <3>2
    <2>4. all = a + l + f
      <3>1. all = (a + l) + f - Cardinality((accepted \cup lost) \cap filtered)
        BY <2>1, <2>3, FS_Union
      <3>2. Cardinality((accepted \cup lost) \cap filtered) = 0
        BY <2>2, FS_EmptySet, Zenon
      <3>. QED  BY <2>1, <3>1, <3>2
    <2>5. acceptedCount = a /\ lostCount = l /\ filteredCount = f
      BY DEF CountsExact, ReportsCounted
    <2>. HIDE DEF a, l, f, all
    <2>6. SaturatingAdd(a, f) = a + f
      BY <2>1, <2>4, WidthAssumption DEF SaturatingAdd, MinOf
    <2>7. SaturatingAdd(a + f, 0) = a + f
      BY <2>1, <2>4, WidthAssumption DEF SaturatingAdd, MinOf
    <2>8. SaturatingAdd(a + f, l) = all
      BY <2>1, <2>4, WidthAssumption DEF SaturatingAdd, MinOf
    <2>9. AccountedFor = all
      BY DEF AccountedFor, all
    <2>. QED  BY <2>5, <2>6, <2>7, <2>8, <2>9 DEF LedgerBalanced, Balanced
  <1>. QED  BY <1>1, <1>2, <1>3, ChannelTracks, VerdictsHold, CountsStayExact, PTL DEF ChannelSpec
=============================================================================
