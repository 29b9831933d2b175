--------------------------- MODULE QualityChannel ---------------------------
(***************************************************************************)
(* The quality channel of one agent's stream (crates/wist-delivery,        *)
(* channel.rs, report.rs, reconcile.rs): the tracker of WatermarkTracker   *)
(* together with the counters that are reported for reconciliation.        *)
(* Records and dropped-range reports come from a caller that may repeat,   *)
(* delay and reorder them.                                                 *)
(***************************************************************************)
EXTENDS WatermarkTracker, Sequences

CONSTANT MaxReports     \* bound: dropped-range reports a behaviour contains
ASSUME ReportsAssumption == MaxReports \in Nat

VARIABLES
    acceptedCount,  \* StreamLossReport.accepted_count
    lostCount,      \* StreamLossReport.lost_count
    filteredCount,  \* StreamLossReport.filtered_count
    reported        \* the dropped ranges kept for the report

counters == <<acceptedCount, lostCount, filteredCount, reported>>
channelVars == <<vars, counters>>

ChannelInit ==
    /\ Init
    /\ acceptedCount = 0
    /\ lostCount = 0
    /\ filteredCount = 0
    /\ reported = <<>>

\* DroppedRange::count
MutCountExclusive(start, end) == SaturatingSub(end, start)
Count(start, end) == SaturatingAdd(SaturatingSub(end, start), 1)

OnRecordRejected(seq) == ObserveDuplicate(seq) /\ UNCHANGED counters

OnRecordAccepted(seq) ==
    /\ ObserveNew(seq)
    /\ acceptedCount' = acceptedCount + 1
    /\ UNCHANGED <<lostCount, filteredCount, reported>>

\* on_dropped_range counts and records the range whatever the tracker makes of
\* it, the ranges it ignores included.
OnDroppedRange(start, end) ==
    /\ Len(reported) < MaxReports
    /\ CommitRangeIgnored(start, end) \/ CommitRange(start, end)
    /\ filteredCount' = filteredCount + Count(start, end)
    /\ reported' = Append(reported, [start |-> start, end |-> end])
    /\ UNCHANGED <<acceptedCount, lostCount>>

\* The settle loop of either call; lost_count grows by the length of the list
\* it returns, here with every element.
MutLostOncePerCall ==
    /\ Settle
    /\ lostCount' = IF SettleDone /\ lost # {} THEN lostCount + 1 ELSE lostCount
    /\ UNCHANGED <<acceptedCount, filteredCount, reported>>
ChannelSettle ==
    /\ Settle
    /\ lostCount' = IF SettleLost THEN lostCount + 1 ELSE lostCount
    /\ UNCHANGED <<acceptedCount, filteredCount, reported>>

ChannelNext ==
    \/ \E seq \in Seqs : OnRecordRejected(seq) \/ OnRecordAccepted(seq)
    \/ \E start, end \in Seqs : OnDroppedRange(start, end)
    \/ ChannelSettle

ChannelSpec == ChannelInit /\ [][ChannelNext]_channelVars

-----------------------------------------------------------------------------
(* Reconciliation *)

\* DeliveryLedger::balanced
Balanced(produced, stored, filteredNumbers, sourceDropped, silentLoss) ==
    produced = SaturatingAdd(SaturatingAdd(SaturatingAdd(stored, filteredNumbers), sourceDropped),
                             silentLoss)

\* The ledger of this channel alone: what it accounts for against its counters.
AccountedFor == Cardinality(accepted \cup lost \cup filtered)
LedgerBalanced == Balanced(AccountedFor, acceptedCount, filteredCount, 0, lostCount)

-----------------------------------------------------------------------------
(* Properties *)

\* accepted_count and lost_count count numbers, not calls: repeated and late
\* records, and long runs of losses in one call, leave them exact.
CountsExact == acceptedCount = Cardinality(accepted) /\ lostCount = Cardinality(lost)

ReportedRange(i) == reported[i].start .. reported[i].end

\* The reports a careful sender makes: no empty range, no number twice, none
\* for a record that was accepted and none so late that the number was lost.
ReportsDisjoint ==
    /\ \A i \in DOMAIN reported :
        /\ reported[i].start <= reported[i].end
        /\ First <= reported[i].start
        /\ ReportedRange(i) \cap (accepted \cup lost) = {}
    /\ \A i, j \in DOMAIN reported : i # j => ReportedRange(i) \cap ReportedRange(j) = {}

\* The identity of DeliveryLedger (reconcile.rs:28) holds for the channel's
\* counters as long as the dropped ranges are reported once and in time.
LedgerBalancedIfDisjoint == ReportsDisjoint => LedgerBalanced
=============================================================================
