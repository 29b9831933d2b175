------------------------------- MODULE PgStore -------------------------------
(***************************************************************************)
(* The PostgreSQL store of the control center (crates/wist-center,         *)
(* infra/pg_store.rs), and the publication of a release in its table and   *)
(* in the artifact store (api/admin_ops.rs, infra/artifacts.rs).           *)
(*                                                                         *)
(* Where the FileStore runs a call under one lock, a call of the PgStore   *)
(* is a sequence of statements on a pool of connections, each committed on *)
(* its own: a statement is one step, and the statements of other calls, or *)
(* a failure, may come between two of them.  A statement that fails may    *)
(* have been committed all the same.                                       *)
(*                                                                         *)
(* The callers make any call at any time, on gateways that exist except to *)
(* create or bind one: the other handlers look the gateway up before.      *)
(***************************************************************************)
EXTENDS Integers, FiniteSets, Sequences

CONSTANTS
    Callers,    \* handlers that can be in a call of the store
    Gateways,   \* gateway ids
    Agents,     \* agent ids
    MaxCalls,   \* bound: calls ever made
    MaxSecond,  \* bound: the clock, in seconds
    MaxFaults   \* bound: failing statements

ASSUME PgBounds == MaxCalls \in Nat /\ MaxSecond \in Nat /\ MaxFaults \in Nat

None == 0
Seconds == 0 .. MaxSecond

VARIABLES
    gateways,   \* table gateways
    tokens,     \* table enrollment_tokens, by its primary key
    events,     \* table gateway_lifecycle_events, in the order of its serial id
    agents,     \* table agent_status
    plan,       \* the row of one plan in table upgrade_plans
    bindings,   \* table gateway_customer_bindings: the call that bound a gateway last
    releases,   \* table release_records, for one component and version
    artifact,   \* its file in the artifact store
    backend,    \* which artifact store the configuration selects
    call,       \* the calls in progress
    clock,      \* the time
    faults      \* number of statements that failed

\* History: for every call, the calls that had ended when it began; the calls
\* that were answered with Ok.
VARIABLES since, answers

plans == <<plan, bindings>>
published == <<releases, artifact, backend>>
tables == <<gateways, tokens, events, agents, plans, published>>
history == <<since, answers>>
vars == <<tables, call, clock, faults, history>>

GatewayRow == [stored |-> FALSE, boot |-> FALSE, cred |-> None, life |-> "none",
               initialized |-> None, seen |-> None]
AgentRow == [gateway |-> None, report |-> None]
TokenKeys == Gateways \X Seconds
TokenRow == [stored |-> FALSE, used |-> 0, status |-> "Active", valid |-> TRUE]
PlanRow == [stored |-> FALSE, status |-> "pending", approvedBy |-> None]
\* build_artifact_store: a directory of the center, or object storage
Backends == {"local", "object"}
NoArtifact == [state |-> "absent", by |-> None, alone |-> TRUE]
Idle == [op |-> "idle", pc |-> "start", id |-> None, gateway |-> None, token |-> <<>>,
         agents |-> {}, left |-> {}, used |-> 0, from |-> "none", to |-> "none"]

\* seed, before the center serves its first request
SeededRow == [GatewayRow EXCEPT !.stored = TRUE, !.life = "provisioned"]

Init ==
    /\ \E seeds \in SUBSET Gateways :
        gateways = [g \in Gateways |-> IF g \in seeds THEN SeededRow ELSE GatewayRow]
    /\ tokens = [k \in TokenKeys |-> TokenRow]
    /\ events = <<>>
    /\ agents = [a \in Agents |-> AgentRow]
    /\ plan = PlanRow
    /\ bindings = [g \in Gateways |-> None]
    /\ releases = {}
    /\ artifact = NoArtifact
    /\ backend \in Backends
    /\ call = [c \in Callers |-> Idle]
    /\ clock = 0
    /\ faults = 0
    /\ since = [n \in {} |-> {}]
    /\ answers = {}

-----------------------------------------------------------------------------
(* Calls and statements *)

Outcomes == {"ok", "lost", "kept"}

\* A statement of caller c: it is committed unless it is lost.
Statement(outcome) ==
    /\ outcome # "ok" => faults < MaxFaults
    /\ faults' = IF outcome = "ok" THEN faults ELSE faults + 1

Committed(outcome, old, new) == IF outcome = "lost" THEN old ELSE new

InProgress == {call[c].id : c \in Callers}

Begin(c, request) ==
    LET n == Cardinality(DOMAIN since) + 1
    IN  /\ call[c].op = "idle"
        /\ n <= MaxCalls
        /\ call' = [call EXCEPT ![c] = [request EXCEPT !.id = n]]
        /\ since' = [m \in DOMAIN since \cup {n} |->
                        IF m = n THEN DOMAIN since \ InProgress ELSE since[m]]
        /\ UNCHANGED <<tables, clock, faults, answers>>

\* The call returns; `ok` tells whether with Ok.
Return(c, ok) ==
    /\ call' = [call EXCEPT ![c] = Idle]
    /\ answers' = IF ok THEN answers \cup {[op |-> call[c].op, id |-> call[c].id,
                                            gateway |-> call[c].gateway, token |-> call[c].token,
                                            agents |-> call[c].agents]}
                        ELSE answers
    /\ UNCHANGED since

\* A call that is one statement, or the last statement of a call
Last(c, outcome) == Return(c, outcome = "ok")

\* A statement with others after it, unless it fails
Onward(c, outcome, next) ==
    IF outcome = "ok"
        THEN call' = [call EXCEPT ![c] = next] /\ UNCHANGED history
        ELSE Return(c, FALSE)

\* record_lifecycle_event ends the calls that change the state of a gateway.
RecordLifecycleEvent(c, outcome) ==
    /\ call[c].pc = "event"
    /\ Statement(outcome)
    /\ events' = Committed(outcome, events, Append(events,
                    [gateway |-> call[c].gateway, from |-> call[c].from, to |-> call[c].to,
                     by |-> call[c].id]))
    /\ Last(c, outcome)
    /\ UNCHANGED <<gateways, tokens, agents, plans, published, clock>>

-----------------------------------------------------------------------------
(* Gateways *)

\* create_gateway: INSERT ... ON CONFLICT DO NOTHING
CreateGateway(c, outcome) ==
    LET g == call[c].gateway
    IN  /\ call[c].op = "create" /\ call[c].pc = "start"
        /\ Statement(outcome)
        /\ IF gateways[g].stored
            THEN UNCHANGED gateways /\ Return(c, FALSE)
            ELSE /\ gateways' = Committed(outcome, gateways,
                        [gateways EXCEPT ![g] = [GatewayRow EXCEPT !.stored = TRUE, !.boot = TRUE,
                                                                   !.life = "provisioned"]])
                 /\ Onward(c, outcome, [call[c] EXCEPT !.pc = "event", !.to = "provisioned"])
        /\ UNCHANGED <<tokens, events, agents, plans, published, clock>>

\* consume_bootstrap_token: one conditional UPDATE
BootstrapConsumable(row) == row.boot /\ row.life = "provisioned"

ConsumeBootstrapToken(c, outcome) ==
    LET g == call[c].gateway
        matches == BootstrapConsumable(gateways[g])
    IN  /\ call[c].op = "bootstrap"
        /\ Statement(outcome)
        /\ gateways' = IF matches THEN Committed(outcome, gateways, [gateways EXCEPT ![g].boot = FALSE])
                                  ELSE gateways
        /\ Return(c, outcome = "ok" /\ matches)
        /\ UNCHANGED <<tokens, events, agents, plans, published, clock>>

\* update_gateway_credential
UpdateGatewayCredential(c, outcome) ==
    LET g == call[c].gateway
    IN  /\ call[c].op = "credential"
        /\ Statement(outcome)
        /\ gateways' = IF gateways[g].stored
                        THEN Committed(outcome, gateways, [gateways EXCEPT ![g].cred = call[c].id])
                        ELSE gateways
        /\ Return(c, outcome = "ok" /\ gateways[g].stored)
        /\ UNCHANGED <<tokens, events, agents, plans, published, clock>>

\* mark_gateway_initializing: a conditional UPDATE, then the event
Markable(row) == row.life = "provisioned"

MarkGatewayInitializing(c, outcome) ==
    LET g == call[c].gateway
        matches == Markable(gateways[g])
    IN  /\ call[c].op = "mark" /\ call[c].pc = "start"
        /\ Statement(outcome)
        /\ IF matches
            THEN /\ gateways' = Committed(outcome, gateways, [gateways EXCEPT ![g].life = "initializing"])
                 /\ Onward(c, outcome, [call[c] EXCEPT !.pc = "event", !.from = "provisioned",
                                                    !.to = "initializing"])
            ELSE UNCHANGED gateways /\ Last(c, outcome)
        /\ UNCHANGED <<tokens, events, agents, plans, published, clock>>

\* upsert_gateway_status reads the state the gateway is in, ...
ReadLifecycle(c, outcome) ==
    /\ call[c].op = "status" /\ call[c].pc = "start"
    /\ Statement(outcome)
    /\ Onward(c, outcome, [call[c] EXCEPT !.pc = "read",
                                          !.from = gateways[call[c].gateway].life])
    /\ UNCHANGED <<tables, clock>>

\* ... makes it running, and goes on to the event when it read another state.
MutNotCoalesced(row, id) == id
InitializedAt(row, id) == IF row.initialized = None THEN id ELSE row.initialized

MutAlwaysAnEvent(from) == TRUE
FirstReport(from) == from # "running"

UpsertGatewayStatus(c, outcome) ==
    LET g == call[c].gateway
        row == gateways[g]
    IN  /\ call[c].op = "status" /\ call[c].pc = "read"
        /\ Statement(outcome)
        /\ gateways' = IF ~row.stored THEN gateways ELSE
                        Committed(outcome, gateways,
                            [gateways EXCEPT ![g] = [row EXCEPT !.life = "running", !.seen = call[c].id,
                                !.initialized = InitializedAt(row, call[c].id)]])
        /\ IF FirstReport(call[c].from)
            THEN Onward(c, outcome, [call[c] EXCEPT !.pc = "event", !.to = "running"])
            ELSE Last(c, outcome)
        /\ UNCHANGED <<tokens, events, agents, plans, published, clock>>

-----------------------------------------------------------------------------
(* Enrolment tokens *)

\* create_enrollment_token: the primary key holds the second it was made in.
CreateEnrollmentToken(c, outcome) ==
    LET k == <<call[c].gateway, clock>>
    IN  /\ call[c].op = "issue"
        /\ Statement(outcome)
        /\ IF tokens[k].stored
            THEN UNCHANGED tokens /\ Return(c, FALSE)
            ELSE /\ tokens' = Committed(outcome, tokens, [tokens EXCEPT ![k].stored = TRUE])
                 /\ Last(c, outcome)
        /\ UNCHANGED <<gateways, events, agents, plans, published, clock>>

\* consume_enrollment_token: SELECT ... FOR UPDATE; the lock ends with the
\* statement, as it is not in a transaction.
MutExhaustedPasses(row) == row.stored /\ row.valid
Consumable(row) ==
    /\ row.stored
    /\ row.status \in {"Active", "Used"}
    /\ row.valid
    /\ row.used < 1

SelectEnrollmentToken(c, outcome) ==
    LET row == tokens[call[c].token]
    IN  /\ call[c].op = "consume" /\ call[c].pc = "start"
        /\ Statement(outcome)
        /\ IF Consumable(row)
            THEN Onward(c, outcome, [call[c] EXCEPT !.pc = "read", !.used = row.used])
            ELSE Return(c, FALSE)
        /\ UNCHANGED <<tables, clock>>

\* UPDATE by key with the count computed from what was selected
ConsumeEnrollmentToken(c, outcome) ==
    /\ call[c].op = "consume" /\ call[c].pc = "read"
    /\ Statement(outcome)
    /\ tokens' = Committed(outcome, tokens,
                    [tokens EXCEPT ![call[c].token].used = call[c].used + 1,
                                   ![call[c].token].status = "Exhausted"])
    /\ Last(c, outcome)
    /\ UNCHANGED <<gateways, events, agents, plans, published, clock>>

-----------------------------------------------------------------------------
(* Agents and plans *)

\* upsert_agent_status: one statement for each agent of the report
MutFirstReportKept(row, c) == IF row.report # None THEN row ELSE
    [gateway |-> call[c].gateway, report |-> call[c].id]
Reported(row, c) == [gateway |-> call[c].gateway, report |-> call[c].id]

UpsertAgentStatus(c, a, outcome) ==
    LET rest == call[c].left \ {a}
    IN  /\ call[c].op = "agents"
        /\ a \in call[c].left
        /\ Statement(outcome)
        /\ agents' = Committed(outcome, agents, [agents EXCEPT ![a] = Reported(@, c)])
        /\ IF rest = {} THEN Last(c, outcome)
                        ELSE Onward(c, outcome, [call[c] EXCEPT !.left = rest])
        /\ UNCHANGED <<gateways, tokens, events, plans, published, clock>>

\* create_upgrade_plan
CreateUpgradePlan(c, outcome) ==
    /\ call[c].op = "plan"
    /\ Statement(outcome)
    /\ plan' = Committed(outcome, plan, [plan EXCEPT !.stored = TRUE])
    /\ Last(c, outcome)
    /\ UNCHANGED <<gateways, tokens, events, agents, bindings, published, clock>>

\* approve_upgrade_plan reads the payload and writes it back approved.
SelectUpgradePlan(c, outcome) ==
    /\ call[c].op = "approve" /\ call[c].pc = "start"
    /\ Statement(outcome)
    /\ IF plan.stored
        THEN Onward(c, outcome, [call[c] EXCEPT !.pc = "read"])
        ELSE Return(c, FALSE)
    /\ UNCHANGED <<tables, clock>>

ApproveUpgradePlan(c, outcome) ==
    /\ call[c].op = "approve" /\ call[c].pc = "read"
    /\ Statement(outcome)
    /\ plan' = Committed(outcome, plan,
                [plan EXCEPT !.status = "approved", !.approvedBy = call[c].id])
    /\ Last(c, outcome)
    /\ UNCHANGED <<gateways, tokens, events, agents, bindings, published, clock>>

\* bind_gateway_customer: INSERT ... ON CONFLICT DO UPDATE
BindGatewayCustomer(c, outcome) ==
    /\ call[c].op = "bind"
    /\ Statement(outcome)
    /\ bindings' = Committed(outcome, bindings, [bindings EXCEPT ![call[c].gateway] = call[c].id])
    /\ Last(c, outcome)
    /\ UNCHANGED <<gateways, tokens, events, agents, plan, published, clock>>

-----------------------------------------------------------------------------
(* admin_publish_release: the artifact is stored, then the record written *)

others == <<gateways, tokens, events, agents, plans, backend, clock>>
Writing(c) == call[c].op = "publish" /\ call[c].pc = "write"

\* LocalArtifactStore: fs::write empties the file, ...
TruncateArtifact(c, outcome) ==
    /\ call[c].op = "publish" /\ call[c].pc = "start" /\ backend = "local"
    /\ Statement(outcome)
    /\ artifact' = Committed(outcome, artifact,
                    [state |-> "partial", by |-> call[c].id, alone |-> ~\E d \in Callers : Writing(d)])
    /\ Onward(c, outcome, [call[c] EXCEPT !.pc = "write"])
    /\ UNCHANGED <<others, releases>>

\* ... and writes it; two writers at a time may leave a mixture.
MutWriteErrorIgnored(outcome) == TRUE
Written(outcome) == outcome = "ok"

WriteArtifact(c, outcome) ==
    /\ Writing(c)
    /\ Statement(outcome)
    /\ \E state \in {"partial", "complete"} :
        /\ outcome = "ok" /\ artifact.alone => state = "complete"
        /\ outcome = "lost" => state = "partial"
        /\ artifact' = [artifact EXCEPT !.state = state]
    /\ IF Written(outcome)
        THEN call' = [call EXCEPT ![c].pc = "record"] /\ UNCHANGED history
        ELSE Return(c, FALSE)
    /\ UNCHANGED <<others, releases>>

\* ObjectStorageArtifactStore: an object appears whole or not at all.
PutObject(c, outcome) ==
    /\ call[c].op = "publish" /\ call[c].pc = "start" /\ backend = "object"
    /\ Statement(outcome)
    /\ artifact' = Committed(outcome, artifact, [state |-> "complete", by |-> call[c].id, alone |-> TRUE])
    /\ Onward(c, outcome, [call[c] EXCEPT !.pc = "record"])
    /\ UNCHANGED <<others, releases>>

\* publish_release: one INSERT
PublishRelease(c, outcome) ==
    /\ call[c].op = "publish" /\ call[c].pc = "record"
    /\ Statement(outcome)
    /\ releases' = Committed(outcome, releases, releases \cup {call[c].id})
    /\ Last(c, outcome)
    /\ UNCHANGED <<others, artifact>>

-----------------------------------------------------------------------------
(* The handlers, up to their call of the store *)

\* admin_create_gateway_instance
AdminCreateGateway(c, g) == Begin(c, [Idle EXCEPT !.op = "create", !.gateway = g])

\* get_gateway_initial_config: the enrolment token, the bootstrap token, the mark
ProvisionCalls == {"issue", "bootstrap", "mark"}
ProvisionGateway(c, g) == \E op \in ProvisionCalls :
    gateways[g].stored /\ Begin(c, [Idle EXCEPT !.op = op, !.gateway = g])

\* register_gateway: the token, then the credential
RegisterGateway(c, k) == tokens[k].stored /\ Begin(c, [Idle EXCEPT !.op = "consume", !.token = k])

\* register_gateway, and renew_gateway_credential
StoreCredential(c, g) == gateways[g].stored /\ Begin(c, [Idle EXCEPT !.op = "credential", !.gateway = g])

SubmitGatewayStatus(c, g) == gateways[g].stored /\ Begin(c, [Idle EXCEPT !.op = "status", !.gateway = g])

SubmitAgentStatus(c, g, reported) ==
    gateways[g].stored /\ Begin(c, [Idle EXCEPT !.op = "agents", !.gateway = g, !.agents = reported, !.left = reported])

\* Each plan has an id of its own; of the one kept here there is one call.
AdminCreateUpgradePlan(c) ==
    /\ ~plan.stored
    /\ \A d \in Callers : call[d].op # "plan"
    /\ Begin(c, [Idle EXCEPT !.op = "plan"])

AdminApproveUpgradePlan(c) == Begin(c, [Idle EXCEPT !.op = "approve"])

AdminBindGatewayCustomer(c, g) == Begin(c, [Idle EXCEPT !.op = "bind", !.gateway = g])

AdminPublishRelease(c) == Begin(c, [Idle EXCEPT !.op = "publish"])

BeginSome(c) ==
    \/ \E g \in Gateways :
        \/ AdminCreateGateway(c, g) \/ ProvisionGateway(c, g) \/ StoreCredential(c, g)
        \/ SubmitGatewayStatus(c, g) \/ AdminBindGatewayCustomer(c, g)
    \/ \E k \in TokenKeys : RegisterGateway(c, k)
    \/ \E g \in Gateways, reported \in SUBSET Agents \ {{}} : SubmitAgentStatus(c, g, reported)
    \/ AdminCreateUpgradePlan(c) \/ AdminApproveUpgradePlan(c) \/ AdminPublishRelease(c)

SomeStatement(c, outcome) ==
    \/ CreateGateway(c, outcome)
    \/ ConsumeBootstrapToken(c, outcome) \/ UpdateGatewayCredential(c, outcome)
    \/ MarkGatewayInitializing(c, outcome)
    \/ ReadLifecycle(c, outcome) \/ UpsertGatewayStatus(c, outcome)
    \/ RecordLifecycleEvent(c, outcome)
    \/ CreateEnrollmentToken(c, outcome)
    \/ SelectEnrollmentToken(c, outcome) \/ ConsumeEnrollmentToken(c, outcome)
    \/ \E a \in Agents : UpsertAgentStatus(c, a, outcome)
    \/ CreateUpgradePlan(c, outcome)
    \/ SelectUpgradePlan(c, outcome) \/ ApproveUpgradePlan(c, outcome)
    \/ BindGatewayCustomer(c, outcome)
    \/ TruncateArtifact(c, outcome) \/ WriteArtifact(c, outcome) \/ PutObject(c, outcome)
    \/ PublishRelease(c, outcome)

\* Time: a second passes, a token expires.
Tick == clock < MaxSecond /\ clock' = clock + 1 /\ UNCHANGED <<tables, call, faults, history>>

ExpireToken(k) ==
    /\ tokens[k].stored /\ tokens[k].valid
    /\ tokens' = [tokens EXCEPT ![k].valid = FALSE]
    /\ UNCHANGED <<gateways, events, agents, plans, published, call, clock, faults, history>>

Next ==
    \/ \E c \in Callers : BeginSome(c)
    \/ \E c \in Callers, outcome \in Outcomes : SomeStatement(c, outcome)
    \/ Tick
    \/ \E k \in TokenKeys : ExpireToken(k)

Spec == Init /\ [][Next]_vars

-----------------------------------------------------------------------------
(* What the admin is shown *)

\* The rows of a gateway, by their serial id
ListLifecycleEvents(g) == {n \in DOMAIN events : events[n].gateway = g}
ListAgentsByGateway(g) == {a \in Agents : agents[a].gateway = g}

-----------------------------------------------------------------------------
(* Properties *)

Overlap(n, m) == n \notin since[m] /\ m \notin since[n]

\* Two registrations are let through by one enrolment token only if
\* consume_enrollment_token ran for both at the same time: what it has
\* committed is seen by every call that starts later.
UsesOverlap ==
    \A a, b \in answers :
        a.op = "consume" /\ b.op = "consume" /\ a.token = b.token /\ a # b => Overlap(a.id, b.id)

\* upsert_gateway_status records the transition to running for the first
\* report, and for others only when they overlap.
FirstReportsOverlap ==
    \A g \in Gateways :
        \A i, j \in ListLifecycleEvents(g) :
            events[i].to = "running" /\ events[j].to = "running" /\ i # j
                => Overlap(events[i].by, events[j].by)

\* What a call that was answered with Ok has written (a credential, a report
\* of a gateway or an agent, an approval, a binding) is never hidden by what a
\* call wrote that had returned before it began.
Hides(writer, a) == writer \in since[a.id]

AcknowledgedNotHidden ==
    \A a \in answers :
        /\ a.op = "credential" => ~Hides(gateways[a.gateway].cred, a)
        /\ a.op = "status" /\ gateways[a.gateway].stored => ~Hides(gateways[a.gateway].seen, a)
        /\ a.op = "bind" => ~Hides(bindings[a.gateway], a)
        /\ a.op = "approve" => plan.status = "approved" /\ ~Hides(plan.approvedBy, a)
        /\ a.op = "agents" => \A n \in a.agents :
                ~Hides(agents[n].report, a) /\ \E g \in Gateways : n \in ListAgentsByGateway(g)

\* A release is listed only once its file is there, and the file is whole if
\* the publication that wrote it last was answered with Ok and was not mixed
\* up with another one: a failed or a second publication of the same file
\* can spoil what is listed, nothing else can, and in object storage not even
\* that.
ReleaseWhole ==
    /\ releases # {} => artifact.state # "absent"
    /\ backend = "object" => artifact.state # "partial"
    /\ artifact.alone /\ (\E a \in answers : a.id = artifact.by) => artifact.state = "complete"
    /\ \A a \in answers : a.op = "publish" => a.id \in releases

\* initialized_at keeps the time of the first report, and a running gateway
\* never goes back, whatever the order of the statements of late calls.
InitializedForGood ==
    [][\A g \in Gateways :
        gateways[g].initialized # None =>
            /\ gateways'[g].initialized = gateways[g].initialized
            /\ gateways'[g].life = "running"]_vars

\* infra/store.rs:66 says of an enrolment token that max_uses and used_count
\* limit its uses and keep it from being replayed: one registration for each.
TokenUsedOnce ==
    \A a, b \in answers :
        a.op = "consume" /\ b.op = "consume" /\ a.token = b.token => a = b
=============================================================================
