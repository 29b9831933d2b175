----------------------------- MODULE FleetStatus -----------------------------
(***************************************************************************)
(* Gateways that come up and report, and what the control center shows of  *)
(* them.  The client is the simulated gateway (crates/insight-simulator:   *)
(* run_gateway, gateway.rs, client.rs); the center is api/gateway_ops.rs   *)
(* and the views of api/admin_ops.rs over infra/store.rs and infra/vm.rs.  *)
(*                                                                         *)
(* A request of the client is repeated after a transport error, while the  *)
(* earlier copies may still be on their way or being handled, so copies    *)
(* arrive late, twice and out of order.  Provisioning and registration are *)
(* one step each: GatewayEnrollment takes them apart.                      *)
(***************************************************************************)
EXTENDS Integers, FiniteSets, FiniteSetsExt

CONSTANTS
    Gateways,       \* gateway ids
    Seeds,          \* those in the configured list of credentials
    Agents,         \* agents the gateways report
    MaxAttempts,    \* attempts of send_json (3 in the code)
    MaxReports,     \* bound: status reports of all gateways
    MaxCopies       \* bound: copies of requests under way at the same time

ASSUME FleetSeeds == IsFiniteSet(Gateways) /\ Seeds \subseteq Gateways
ASSUME FleetBounds == MaxAttempts \in Nat \ {0} /\ MaxReports \in Nat /\ MaxCopies \in Nat

VARIABLES
    gateways,   \* the stored gateways
    agents,     \* the stored rows of agents
    series,     \* samples of gateway_up in the time series database
    agentSeries, \* samples of agent_up
    sim,        \* the clients
    requests,   \* copies of requests on their way or being handled
    \* History: the latest acknowledged status report, and the reports of which
    \* a copy was still under way when the client sent its next one.
    acked, overtaken

fleetVars == <<gateways, agents, series, agentSeries, sim, requests, acked, overtaken>>

NoReport == [at |-> 0, status |-> "none"]
Statuses == {"online", "offline"}

\* A gateway the admin has created, and one seeded with a credential.
Created == [boot |-> TRUE, regist |-> "none", cred |-> FALSE, life |-> "provisioned", report |-> NoReport]
SeededRow == [boot |-> FALSE, regist |-> "none", cred |-> TRUE, life |-> "none", report |-> NoReport]

Client(phase, token) ==
    [phase |-> phase, token |-> token, at |-> 0, attempt |-> 0, waiting |-> FALSE, status |-> "online"]

FleetInit ==
    /\ gateways = [g \in Gateways |-> IF g \in Seeds THEN SeededRow ELSE Created]
    /\ sim = [g \in Gateways |-> IF g \in Seeds THEN Client("status", "runtime")
                                               ELSE Client("fetch", "bootstrap")]
    /\ agents = {}
    /\ series = {}
    /\ agentSeries = {}
    /\ requests = {}
    /\ acked = [g \in Gateways |-> 0]
    /\ overtaken = [g \in Gateways |-> {}]

-----------------------------------------------------------------------------
(* The client: run_gateway and send_json *)

Copy(g, client) == [gateway |-> g, kind |-> client.phase, token |-> client.token, at |-> client.at,
                    attempt |-> client.attempt, status |-> client.status, pc |-> "sent"]

\* The next request of the loop; a status report carries the time it is made.
SendRequest(g, status) ==
    LET c == sim[g]
        next == [c EXCEPT !.waiting = TRUE, !.attempt = 1,
                          !.at = IF c.phase = "status" THEN @ + 1 ELSE @,
                          !.status = IF c.phase = "status" THEN status ELSE @]
    IN  /\ ~c.waiting
        /\ Cardinality(requests) < MaxCopies
        /\ next.at + MapThenSumSet(LAMBDA h : sim[h].at, Gateways \ {g}) <= MaxReports
        /\ sim' = [sim EXCEPT ![g] = next]
        /\ requests' = requests \cup {Copy(g, next)}
        /\ overtaken' = [overtaken EXCEPT ![g] = @ \cup
                            {r.at : r \in {q \in requests : q.gateway = g /\ q.kind = "status"}}]
        /\ UNCHANGED <<gateways, agents, series, agentSeries, acked>>

\* A transport error or a timeout: the same request again
Retry(g) ==
    LET next == [sim[g] EXCEPT !.attempt = @ + 1]
    IN  /\ sim[g].waiting
        /\ sim[g].attempt < MaxAttempts
        /\ Cardinality(requests) < MaxCopies
        /\ sim' = [sim EXCEPT ![g] = next]
        /\ requests' = requests \cup {Copy(g, next)}
        /\ UNCHANGED <<gateways, agents, series, agentSeries, acked, overtaken>>

\* What run_gateway does after a request: any failure of the onboarding leads
\* to reports with the token at hand.
Proceeding(c, ok) ==
    LET done == [c EXCEPT !.waiting = FALSE]
    IN  CASE c.phase = "fetch" /\ ok    -> [done EXCEPT !.phase = "register", !.token = "regist"]
          [] c.phase = "register" /\ ok -> [done EXCEPT !.phase = "status", !.token = "runtime"]
          [] c.phase = "register" /\ ~ok -> [done EXCEPT !.phase = "status", !.token = "bootstrap"]
          [] c.phase = "status"         -> [done EXCEPT !.phase = "agents"]
          [] OTHER                      -> [done EXCEPT !.phase = "status"]

GiveUp(g) ==
    /\ sim[g].waiting
    /\ sim[g].attempt = MaxAttempts
    /\ sim' = [sim EXCEPT ![g] = Proceeding(sim[g], FALSE)]
    /\ UNCHANGED <<gateways, agents, series, agentSeries, requests, acked, overtaken>>

-----------------------------------------------------------------------------
(* The center *)

\* The answer reaches the client or not; it counts if the client still waits
\* for this attempt.
Answer(r, ok, delivered) ==
    LET c == sim[r.gateway]
        awaited == delivered /\ c.waiting /\ c.attempt = r.attempt /\ c.phase = r.kind /\ c.at = r.at
    IN  /\ requests' = requests \ {r}
        /\ sim' = IF awaited THEN [sim EXCEPT ![r.gateway] = Proceeding(c, ok)] ELSE sim
        /\ acked' = IF awaited /\ ok /\ r.kind = "status" THEN [acked EXCEPT ![r.gateway] = r.at] ELSE acked
        /\ UNCHANGED overtaken

\* get_gateway_initial_config with the bootstrap token
ProvisionGateway(r, delivered) ==
    LET row == gateways[r.gateway]
    IN  /\ r.kind = "fetch"
        /\ gateways' = IF row.boot
                        THEN [gateways EXCEPT ![r.gateway] =
                                [row EXCEPT !.boot = FALSE, !.regist = "active", !.life = "initializing"]]
                        ELSE gateways
        /\ Answer(r, row.boot, delivered)
        /\ UNCHANGED <<agents, series, agentSeries>>

\* register_gateway: the token is exhausted, the credential stored.
RegisterGateway(r, delivered) ==
    LET row == gateways[r.gateway]
        ok == row.regist = "active"
    IN  /\ r.kind = "register"
        /\ gateways' = IF ok THEN [gateways EXCEPT ![r.gateway] =
                                    [row EXCEPT !.regist = "used", !.cred = TRUE]]
                             ELSE gateways
        /\ Answer(r, ok, delivered)
        /\ UNCHANGED <<agents, series, agentSeries>>

\* authenticate_gateway
MutAnyToken(r) == TRUE
Authenticated(r) == r.token = "runtime" /\ gateways[r.gateway].cred

\* A refusal that does not reach the client is the same as Lose.
Refuse(r) ==
    /\ r.kind \in {"status", "agents"} /\ r.pc = "sent"
    /\ ~Authenticated(r)
    /\ Answer(r, FALSE, TRUE)
    /\ UNCHANGED <<gateways, agents, series, agentSeries>>

\* submit_gateway_status: upsert_gateway_status takes the report over as it
\* is; a store error ends the request.
MutFirstKept(r) == IF gateways[r.gateway].report # NoReport THEN gateways[r.gateway].report
                   ELSE [at |-> r.at, status |-> r.status]
ReportOf(r) == [at |-> r.at, status |-> r.status]

SubmitGatewayStatus(r) ==
    /\ r.kind = "status" /\ r.pc = "sent"
    /\ Authenticated(r)
    /\ gateways' = [gateways EXCEPT ![r.gateway].report = ReportOf(r), ![r.gateway].life = "running"]
    /\ requests' = (requests \ {r}) \cup {[r EXCEPT !.pc = "push"]}
    /\ UNCHANGED <<agents, series, agentSeries, sim, acked, overtaken>>

\* push_gateway_status, under the time of the report; a failure is logged.
MutUpIfReported(r) == 1
Up(r) == IF r.status = "online" THEN 1 ELSE 0

PushGatewayStatus(r, pushed, delivered) ==
    /\ r.pc = "push"
    /\ series' = IF ~pushed THEN series ELSE
                    series \cup {[gateway |-> r.gateway, at |-> r.at, up |-> Up(r)]}
    /\ Answer(r, TRUE, delivered)
    /\ UNCHANGED <<gateways, agents, agentSeries>>

\* submit_agent_status: the rows of the reported agents are replaced, owned
\* by the gateway that reports them; then push_agent_status, whose failure is
\* logged.
MutKeyedByGateway(row, r) == row.gateway = r.gateway
Replaced(row, r) == TRUE

AgentRow(a, r) == [agent |-> a, gateway |-> r.gateway, at |-> r.at, status |-> r.status]
AgentSample(a, r) == [agent |-> a, gateway |-> r.gateway, at |-> r.at, up |-> Up(r)]
AgentSamplesOf(r) == {AgentSample(a, r) : a \in Agents}

SubmitAgentStatus(r, pushed, delivered) ==
    /\ r.kind = "agents"
    /\ Authenticated(r)
    /\ agents' = {row \in agents : ~Replaced(row, r)} \cup {AgentRow(a, r) : a \in Agents}
    /\ agentSeries' = IF ~pushed THEN agentSeries ELSE agentSeries \cup AgentSamplesOf(r)
    /\ Answer(r, TRUE, delivered)
    /\ UNCHANGED <<gateways, series>>

\* A store error before anything is stored
StoreFails(r) ==
    /\ r.kind \in {"status", "agents"} /\ r.pc = "sent"
    /\ Authenticated(r)
    /\ Answer(r, FALSE, TRUE)
    /\ UNCHANGED <<gateways, agents, series, agentSeries>>

\* A copy is lost, or the center stops while handling it.
Lose(r) ==
    /\ requests' = requests \ {r}
    /\ UNCHANGED <<gateways, agents, series, agentSeries, sim, acked, overtaken>>

FleetNext ==
    \/ \E g \in Gateways, status \in Statuses : SendRequest(g, status)
    \/ \E g \in Gateways : Retry(g) \/ GiveUp(g)
    \/ \E r \in requests : SubmitGatewayStatus(r) \/ Refuse(r) \/ StoreFails(r) \/ Lose(r)
    \/ \E r \in requests, delivered \in BOOLEAN :
        \/ ProvisionGateway(r, delivered) \/ RegisterGateway(r, delivered)
        \/ \E pushed \in BOOLEAN :
            PushGatewayStatus(r, pushed, delivered) \/ SubmitAgentStatus(r, pushed, delivered)

FleetSpec == FleetInit /\ [][FleetNext]_fleetVars

-----------------------------------------------------------------------------
(* The views *)

\* admin_list_gateway_status and admin_show_gateway_status
Reported == {g \in Gateways : gateways[g].report # NoReport}

\* admin_list_gateway_instances
InstanceState(g) == IF gateways[g].life = "none" THEN "provisioned" ELSE gateways[g].life

\* query_gateway_initialization_status
Initialized(g) == InstanceState(g) # "provisioned"

\* admin_view_gateway_list
Online == {g \in Gateways : gateways[g].report.status = "online"}
Offline == {g \in Gateways : gateways[g].report.status # "online"}

\* admin_list_gateway_agents
ListedAgents(g) == {row.agent : row \in {q \in agents : q.gateway = g}}

\* query_range_metric and merge_gateway_history, merge_agent_history: values
\* by time.  The other metrics come and go with gateway_up and agent_up.
ByTime(samples) ==
    [t \in {s.at : s \in samples} |-> (CHOOSE s \in samples : s.at = t).up]

\* query_gateway_history and query_agent_history
GatewaySamples(g) == {s \in series : s.gateway = g}
AgentSamples(g, a) == {s \in agentSeries : s.gateway = g /\ s.agent = a}

\* admin_get_gateway_history and admin_get_agent_history
GatewayHistory(g) == ByTime(GatewaySamples(g))
AgentHistory(g, a) == ByTime(AgentSamples(g, a))

\* query_uptime: none without samples
HasUptime(g) == GatewaySamples(g) # {}

-----------------------------------------------------------------------------
(* Properties *)

\* The views are read from different fields written at different moments:
\* the gateways with a status are the running ones, they have come up with a
\* credential of their own, and every gateway is either on- or offline.
ViewsAgree ==
    /\ \A g \in Gateways :
        /\ g \in Reported <=> InstanceState(g) = "running"
        /\ g \in Reported => Initialized(g) /\ gateways[g].cred /\ ~gateways[g].boot
        /\ ListedAgents(g) # {} => gateways[g].cred /\ sim[g].token = "runtime"
    /\ Online \subseteq Reported
    /\ Cardinality(Online) + Cardinality(Offline) = Cardinality(Gateways)

\* However reports are repeated and reordered, the center shows a report that
\* is older than one it acknowledged only if a copy of the older one was still
\* under way when the gateway went on: without retries it shows the latest.
OlderOnlyIfOvertaken ==
    \A g \in Gateways :
        gateways[g].report.at < acked[g] => gateways[g].report.at \in overtaken[g]

\* An agent is listed under one gateway at a time, also when it moves and the
\* reports of its old gateway arrive late.
AgentListedOnce ==
    \A g, h \in Gateways : g # h => ListedAgents(g) \cap ListedAgents(h) = {}

\* Histories and status tell the same: a sample taken at the time of the
\* report that is shown is 1 exactly if the gateway or agent is counted as
\* online, no time has two values, and nothing has a history the center does
\* not list, whatever was lost between the store and the time series database.
HistoryAgrees ==
    /\ \A p, q \in series : p.gateway = q.gateway /\ p.at = q.at => p = q
    /\ \A g \in Gateways :
        LET shown == gateways[g].report.at
        IN  /\ shown \in DOMAIN GatewayHistory(g) => (GatewayHistory(g)[shown] = 1 <=> g \in Online)
            /\ HasUptime(g) => g \in Reported
    /\ \A row \in agents :
        LET history == AgentHistory(row.gateway, row.agent)
        IN  row.at \in DOMAIN history => (history[row.at] = 1 <=> row.status = "online")
    /\ \A s \in agentSeries : \E row \in agents : row.agent = s.agent
=============================================================================
