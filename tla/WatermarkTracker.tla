-------------------------- MODULE WatermarkTracker --------------------------
(***************************************************************************)
(* The gap detector of one agent's stream (crates/wist-delivery,           *)
(* watermark.rs).  observe and commit_range change the window and then run *)
(* the settle loop; the loop is modelled one iteration per step, and no    *)
(* other call starts before it has ended (both methods take &mut self).    *)
(* Sequence numbers and the watermark are u64: MaxU64 stands for           *)
(* u64::MAX, and additions wrap or saturate where the code's do.           *)
(***************************************************************************)
EXTENDS Integers, FiniteSetsExt

CONSTANTS
    Lag,       \* width of the reordering window
    MaxU64,    \* the largest u64
    Seqs,      \* sequence numbers that records and ranges may carry
    First      \* the settled prefix the tracker starts with

ASSUME LagAssumption == Lag \in Nat
ASSUME WidthAssumption == MaxU64 \in Nat
\* A producer that counts from zero never gets to u64::MAX itself.
ASSUME SeqAssumption == Seqs \subseteq 0 .. (MaxU64 - 1)
ASSUME FirstAssumption == First \in 0 .. MaxU64

VARIABLES
    committed,      \* every number below it is settled
    observed,       \* numbers seen in the window
    high,           \* largest number seen, ends of dropped ranges included
    droppedRanges,  \* out-of-band dropped ranges not yet settled
    settling        \* TRUE while the settle loop of a call is running

\* What the calls have returned so far; the code keeps none of it.
VARIABLES
    accepted,       \* numbers for which observe returned New
    lost,           \* numbers that settle returned as lost
    filtered        \* numbers commit_range took as dropped on purpose

window == <<committed, observed, high, droppedRanges, settling>>
verdicts == <<accepted, lost, filtered>>
vars == <<window, verdicts>>

U64 == 0 .. MaxU64
DroppedRange == [start : U64, end : U64]

MaxOf(a, b) == IF a >= b THEN a ELSE b
MinOf(a, b) == IF a <= b THEN a ELSE b
SaturatingAdd(a, b) == MinOf(a + b, MaxU64)
SaturatingSub(a, b) == MaxOf(a - b, 0)
\* The + of a release build.
MutNoIncrement(a) == a
WrappingInc(a) == IF a = MaxU64 THEN 0 ELSE a + 1

Covers(r, seq) == r.start <= seq /\ seq <= r.end

\* droppedRanges.range(..=seq).next_back(): the last range starting by seq.
LastStartingBy(seq) ==
    {r \in droppedRanges :
        /\ r.start <= seq
        /\ \A q \in droppedRanges : q.start <= seq => q.start <= r.start}

IsInDroppedRange(seq) == \E r \in LastStartingBy(seq) : seq <= r.end

-----------------------------------------------------------------------------
\* new(lag) is the case First = 0, with_committed(lag, First) the general one.
Init ==
    /\ committed = First
    /\ observed = {}
    /\ high = First
    /\ droppedRanges = {}
    /\ settling = FALSE
    /\ accepted = {}
    /\ lost = {}
    /\ filtered = {}

MutLateAccepted(seq) == seq \in observed \/ IsInDroppedRange(seq)
IsDuplicate(seq) ==
    \/ seq < committed
    \/ seq \in observed
    \/ IsInDroppedRange(seq)

ObserveDuplicate(seq) ==
    /\ ~settling
    /\ IsDuplicate(seq)
    /\ UNCHANGED vars

ObserveNew(seq) ==
    /\ ~settling
    /\ ~IsDuplicate(seq)
    /\ observed' = observed \cup {seq}
    /\ high' = MaxOf(high, seq)
    /\ settling' = TRUE
    /\ accepted' = accepted \cup {seq}
    /\ UNCHANGED <<committed, droppedRanges, lost, filtered>>

MutBridgesGap(start, end) == {r \in droppedRanges : r.start <= end + 2 /\ r.end + 2 >= start}
\* The ranges that overlap start .. end or touch it.
Mergeable(start, end) ==
    {r \in droppedRanges :
        /\ r.start <= SaturatingAdd(end, 1)
        /\ SaturatingAdd(r.end, 1) >= start}

MutNotExtended(start, end) == [start |-> start, end |-> end]
MergedRange(start, end) ==
    [start |-> Min({start} \cup {r.start : r \in Mergeable(start, end)}),
     end |-> Max({end} \cup {r.end : r \in Mergeable(start, end)})]

InsertDroppedRange(start, end) ==
    droppedRanges' = (droppedRanges \ Mergeable(start, end)) \cup {MergedRange(start, end)}

CommitRangeIgnored(start, end) ==
    /\ ~settling
    /\ end < start \/ end < committed
    /\ UNCHANGED vars

CommitRange(start, end) ==
    /\ ~settling
    /\ start <= end
    /\ committed <= end
    /\ InsertDroppedRange(MaxOf(start, committed), end)
    /\ high' = MaxOf(high, end)
    /\ settling' = TRUE
    /\ filtered' = filtered \cup MaxOf(start, committed) .. end
    /\ UNCHANGED <<committed, observed, accepted, lost>>

-----------------------------------------------------------------------------
(* The settle loop. *)

\* 1. the number at the watermark was seen
SettleObserved ==
    /\ settling
    /\ committed \in observed
    /\ observed' = observed \ {committed}
    /\ committed' = WrappingInc(committed)
    /\ UNCHANGED <<high, droppedRanges, settling, verdicts>>

MutStaleRangeJump ==
    /\ settling
    /\ committed \notin observed
    /\ \E r \in LastStartingBy(committed) :
        /\ droppedRanges' = droppedRanges \ {r}
        /\ committed' = WrappingInc(r.end)
    /\ UNCHANGED <<observed, high, settling, verdicts>>
\* 2. a dropped range covers the watermark: jump over the whole of it
SettleRange ==
    /\ settling
    /\ committed \notin observed
    /\ \E r \in LastStartingBy(committed) :
        /\ committed <= r.end
        /\ droppedRanges' = droppedRanges \ {r}
        /\ committed' = WrappingInc(r.end)
    /\ UNCHANGED <<observed, high, settling, verdicts>>

WindowOverflows == SaturatingSub(high, committed) > Lag

\* 3. the window has overflowed: the gap at the watermark is lost
SettleLost ==
    /\ settling
    /\ committed \notin observed
    /\ ~IsInDroppedRange(committed)
    /\ WindowOverflows
    /\ lost' = lost \cup {committed}
    /\ committed' = WrappingInc(committed)
    /\ UNCHANGED <<observed, high, droppedRanges, settling, accepted, filtered>>

SettleDone ==
    /\ settling
    /\ committed \notin observed
    /\ ~IsInDroppedRange(committed)
    /\ ~WindowOverflows
    /\ settling' = FALSE
    /\ UNCHANGED <<committed, observed, high, droppedRanges, verdicts>>

Settle == SettleObserved \/ SettleRange \/ SettleLost \/ SettleDone

Next ==
    \/ \E seq \in Seqs : ObserveDuplicate(seq) \/ ObserveNew(seq)
    \/ \E start, end \in Seqs : CommitRangeIgnored(start, end) \/ CommitRange(start, end)
    \/ Settle

Spec == Init /\ [][Next]_vars

\* A call that was started runs to its end: the loop has no blocking step.
FairSpec == Spec /\ WF_vars(Settle)

-----------------------------------------------------------------------------
(* The contract this tracker implements: the verdict on every number. *)

Fate ==
    [n \in U64 |-> IF n \in accepted THEN "accepted"
                   ELSE IF n \in lost THEN "lost"
                   ELSE IF n \in filtered THEN "filtered"
                   ELSE "open"]

Contract == INSTANCE StreamContract
                WITH Numbers <- U64, Start <- First, fate <- Fate, frontier <- high

-----------------------------------------------------------------------------
(* Properties *)

\* The window's fields hold u64 values and the recorded verdicts are numbers
\* that records and ranges carry.
TypeOK ==
    /\ committed \in U64
    /\ observed \subseteq Seqs
    /\ high \in U64
    /\ droppedRanges \subseteq DroppedRange
    /\ settling \in BOOLEAN
    /\ accepted \subseteq Seqs
    /\ lost \subseteq U64
    /\ filtered \subseteq U64

\* insert_dropped_range keeps the pending ranges well formed, pairwise
\* disjoint and apart by at least one number, whatever ranges are reported in
\* whatever order, so range(..=seq).next_back() finds the only candidate.
RangesApart ==
    /\ \A r \in droppedRanges : r.start <= r.end
    /\ \A r, q \in droppedRanges : r = q \/ r.end + 1 < q.start \/ q.end + 1 < r.start

\* No number gets two verdicts from the record path: what observe accepted is
\* never declared lost by a later settle, and what settle declared lost is not
\* accepted when it arrives late.
AcceptedNeverLost == accepted \cap lost = {}

\* A number that commit_range took as dropped on purpose is never declared
\* lost afterwards, however far the window moves on.
FilteredNeverLost == filtered \cap lost = {}

\* The meaning of the watermark: every number from First up to it was seen,
\* declared lost or dropped on purpose; settle skips none silently.
PrefixAccounted == First .. (committed - 1) \subseteq accepted \cup lost \cup filtered

\* Delayed confirmation: a number is lost only once some number more than Lag
\* above it has been seen.
LostOnlyOutsideWindow == \A s \in lost : s + Lag < high

\* Between calls the watermark trails the highest number by at most Lag.
WindowBounded == ~settling => high - committed <= Lag

\* The watermark never moves back: a number that was once settled stays
\* settled, so wrap-around of committed cannot happen.
WatermarkMonotone == [][committed' >= committed /\ high' >= high]_vars

\* The tracker implements StreamContract: observe, commit_range and settle
\* give every number at most one verdict and never take one back.
ImplementsContract == Contract!Spec

\* A settle loop that was started ends, however large the jump of high was.
SettleTerminates == settling ~> ~settling
=============================================================================
