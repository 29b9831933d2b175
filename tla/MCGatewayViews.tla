--------------------------- MODULE MCGatewayViews ---------------------------
\* A small instance of GatewayViews for TLC.
EXTENDS GatewayViews, TLC

\* Hosts are interchangeable.
Symmetry == Permutations(Hosts)

\* One source, one parser, and three sinks in two groups, one a loss group.
MCLeaves == {
    [level |-> "source", group |-> "tcp", child |-> "a"],
    [level |-> "parse", group |-> "package", child |-> "rule"],
    [level |-> "sink", group |-> "metrics", child |-> "json"],
    [level |-> "sink", group |-> "metrics", child |-> "vm"],
    [level |-> "sink", group |-> "miss", child |-> "file"]}

\* No points, one that has stopped, one that is idle, one that goes on.
MCCurves == {Empty, 1 :> 2, 2 :> 0, 1 :> 1 @@ 2 :> 2}
=============================================================================
