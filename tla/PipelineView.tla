---------------------------- MODULE PipelineView ----------------------------
(***************************************************************************)
(* The throughput view of a gateway's data pipeline (crates/warp-gateway:  *)
(* api/pipeline.rs, infra/victoria_metrics.rs): the series of sources,     *)
(* parsers and sinks, queried level by level from the time series          *)
(* database, grouped and summed up.                                        *)
(*                                                                         *)
(* The queries follow one another, and the database changes between them:  *)
(* series appear, go on and leave the window.  The children of a level and *)
(* their groups come from different queries.  The cumulative totals, which *)
(* are queried and attached in the same way, are left out; so are the      *)
(* order of the groups and their display names.                            *)
(***************************************************************************)
EXTENDS Integers, Sequences, FiniteSets, FiniteSetsExt

CONSTANTS
    Leaves,     \* series of the counters: level, first label, second label
    LossGroups, \* LOSS_SINK_GROUPS
    Curves,     \* what a query can return of a series: rates by time
    MaxChanges  \* bound: changes of the database during a behaviour

Levels == {"source", "parse", "sink"}
Empty == [t \in {} |-> 0]

\* There are finitely many series, of finitely many points, after 1970.
ASSUME PipelineConstants ==
    /\ IsFiniteSet(Leaves)
    /\ \A l \in Leaves : l.level \in Levels /\ l = [level |-> l.level, group |-> l.group, child |-> l.child]
    /\ Empty \in Curves
    /\ \A c \in Curves : IsFiniteSet(DOMAIN c) /\ DOMAIN c \subseteq Nat \ {0} /\ c \in [DOMAIN c -> Nat]
    /\ MaxChanges \in Nat

VARIABLES
    vm,         \* the database: a curve for each series, empty when it has none
    request,    \* the request: the query it is at, and what the others returned
    changes,    \* number of changes of the database
    quiet       \* history: no change since the request began

pipelineVars == <<vm, request, changes, quiet>>

\* The queries in the order of build_topology and build_groups
Queries == <<[level |-> "source", by |-> "leaf"],
             [level |-> "parse", by |-> "leaf"], [level |-> "parse", by |-> "group"],
             [level |-> "sink", by |-> "leaf"], [level |-> "sink", by |-> "group"]>>

NoRequest == [query |-> 0, source |-> {}, parse |-> {}, sink |-> {}, groups |-> [parse |-> {}, sink |-> {}]]

-----------------------------------------------------------------------------
(* The database *)

\* The sum of the values of a function
SumOf(w) == MapThenSumSet(LAMBDA x : w[x], DOMAIN w)

\* sum by (...), and sum_series: point by point, by time
SumSeries(curves) ==
    [t \in UNION {DOMAIN curves[s] : s \in DOMAIN curves} |->
        SumOf([s \in {s \in DOMAIN curves : t \in DOMAIN curves[s]} |-> curves[s][t]])]

LeavesOf(level) == {l \in Leaves : l.level = level /\ vm[l] # Empty}

\* query_range by both labels, and by the first label alone.  A series without
\* points is not in the answer.
LeafRates(level) == {[group |-> l.group, child |-> l.child, series |-> vm[l]] : l \in LeavesOf(level)}
GroupRates(level) ==
    {[id |-> g, series |-> SumSeries([l \in {k \in LeavesOf(level) : k.group = g} |-> vm[l]])] :
        g \in {l.group : l \in LeavesOf(level)}}

VmChanges(l, curve) ==
    /\ changes < MaxChanges
    /\ vm' = [vm EXCEPT ![l] = curve]
    /\ changes' = changes + 1
    /\ quiet' = FALSE
    /\ UNCHANGED request

-----------------------------------------------------------------------------
(* get_pipeline_topology *)

PipelineInit ==
    /\ vm \in [Leaves -> Curves]
    /\ request = NoRequest
    /\ changes = 0
    /\ quiet = TRUE

GetPipelineTopology ==
    /\ request.query = 0
    /\ request' = [NoRequest EXCEPT !.query = 1]
    /\ quiet' = TRUE
    /\ UNCHANGED <<vm, changes>>

QueryLevel ==
    LET n == request.query
        q == Queries[n]
    IN  /\ n \in DOMAIN Queries
        /\ request' =
            IF q.by = "group"
            THEN [request EXCEPT !.query = n + 1, !.groups[q.level] = GroupRates(q.level)]
            ELSE [request EXCEPT !.query = n + 1, ![q.level] = LeafRates(q.level)]
        /\ UNCHANGED <<vm, changes, quiet>>

\* The first failing query fails the request (502).
QueryFails ==
    /\ request.query \in DOMAIN Queries
    /\ request' = NoRequest
    /\ UNCHANGED <<vm, changes, quiet>>

Answered == request.query = Len(Queries) + 1

RefreshTopology ==
    /\ Answered
    /\ request' = NoRequest
    /\ UNCHANGED <<vm, changes, quiet>>

PipelineNext ==
    \/ \E l \in Leaves, curve \in Curves : VmChanges(l, curve)
    \/ GetPipelineTopology \/ QueryLevel \/ QueryFails \/ RefreshTopology

PipelineSpec == PipelineInit /\ [][PipelineNext]_pipelineVars

-----------------------------------------------------------------------------
(* What the answer is built of *)

\* The rate of a node is the last point of its series.
Rate(series) == IF series = Empty THEN 0 ELSE series[Max(DOMAIN series)]

\* loss_kind
LossKind(level, group) == level = "sink" /\ group \in LossGroups

Children(level, group) == {n \in request[level] : n.group = group}

MutOrphansLeftOut(level) ==
    {[id |-> g.id, series |-> g.series, loss |-> LossKind(level, g.id)] : g \in request.groups[level]}
\* build_groups: the groups of the one query, and for children of the other
\* whose group it did not have, an empty group.
Groups(level) ==
    LET queried == {g.id : g \in request.groups[level]}
        missing == {n.group : n \in request[level]} \ queried
    IN  {[id |-> g.id, series |-> g.series, loss |-> LossKind(level, g.id)] : g \in request.groups[level]}
        \cup {[id |-> g, series |-> Empty, loss |-> LossKind(level, g)] : g \in missing}

\* summarize: egress is what all but the loss groups write.
Egress == {g \in Groups("sink") : ~g.loss}
Losses == Groups("sink") \ Egress
CurvesOf(nodes) == [n \in nodes |-> n.series]
RateOf(nodes) == SumOf([n \in nodes |-> Rate(n.series)])
Summary == [
    ingressRate |-> RateOf(request.source),
    parseRate |-> RateOf(Groups("parse")),
    egressRate |-> RateOf(Egress),
    lossRate |-> RateOf(Losses),
    ingressSeries |-> SumSeries(CurvesOf(request.source)),
    parseSeries |-> SumSeries(CurvesOf(Groups("parse"))),
    egressSeries |-> SumSeries(CurvesOf(Egress))]

\* latest_sample_seconds
AllSeries == {n.series : n \in request.source}
    \cup UNION {{g.series : g \in Groups(level)} \cup {n.series : n \in request[level]} : level \in {"parse", "sink"}}
LatestSample == LET times == UNION {DOMAIN s : s \in AllSeries} IN IF times = {} THEN 0 ELSE Max(times)

-----------------------------------------------------------------------------
(* Properties *)

\* Rows and sums come from queries of different moments.  Each row is under
\* one group whatever came between; and if nothing came between, groups and
\* summary add up to the rows: at every time egress to the rows of all but the
\* loss groups, and no group's rate is above that of its rows together.  The
\* latest sample is missing just when there is no row at all.
RowsAddUp ==
    Answered =>
        /\ \A level \in {"parse", "sink"} : \A n \in request[level] :
                Cardinality({g \in Groups(level) : g.id = n.group}) = 1
        /\ (LatestSample = 0) = (request.source \cup Groups("parse") \cup Groups("sink") = {})
        /\ quiet =>
            /\ Summary.egressSeries = SumSeries(CurvesOf({n \in request.sink : n.group \notin LossGroups}))
            /\ Summary.parseSeries = SumSeries(CurvesOf(request.parse))
            /\ \A level \in {"parse", "sink"} : \A g \in Groups(level) :
                    Rate(g.series) <= RateOf(Children(level, g.id))
=============================================================================
