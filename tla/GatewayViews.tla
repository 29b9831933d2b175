---------------------------- MODULE GatewayViews ----------------------------
(***************************************************************************)
(* What a gateway serves besides enrolment: the installs (InstallServing), *)
(* the overview of its agents (AgentOverview) and the throughput of its    *)
(* pipeline (PipelineView).  The three keep their state apart, in other    *)
(* files, other memory and another database, so a behaviour is about one   *)
(* of them and the others rest: nothing would come of interleaving them.   *)
(***************************************************************************)
EXTENDS InstallServing, AgentOverview, PipelineView

VARIABLE part   \* the part the behaviour is about

ViewsInit ==
    /\ part \in {"installs", "overview", "pipeline"}
    /\ InstallInit
    /\ OverviewInit
    /\ PipelineInit
    /\ part # "pipeline" => vm = [l \in Leaves |-> Empty]

InstallsServed == part = "installs" /\ InstallNext /\ UNCHANGED <<part, overviewVars, pipelineVars>>
OverviewServed == part = "overview" /\ OverviewNext /\ UNCHANGED <<part, installVars, pipelineVars>>
PipelineServed == part = "pipeline" /\ PipelineNext /\ UNCHANGED <<part, installVars, overviewVars>>

ViewsNext == InstallsServed \/ OverviewServed \/ PipelineServed

ViewsSpec == ViewsInit /\ [][ViewsNext]_<<part, installVars, overviewVars, pipelineVars>>
=============================================================================
