-------------------------- MODULE GatewayEnrollment --------------------------
(***************************************************************************)
(* Creation, provisioning, registration, credential renewal and first      *)
(* status report of gateways at the control center (crates/wist-center,    *)
(* api/gateway_ops.rs and api/admin_ops.rs over the FileStore of           *)
(* infra/store.rs).                                                        *)
(*                                                                         *)
(* A handler goes through several calls of the store.  Each call is one    *)
(* locked read-modify-write; other handlers, a restart of the center and   *)
(* a failing call may come between two of them, and the answer to the      *)
(* gateway may be lost.                                                    *)
(***************************************************************************)
EXTENDS Integers, FiniteSets, Sequences

CONSTANTS
    Gateways,       \* gateway ids
    Identities,     \* identity tokens the gateways generate
    Handlers,       \* requests the center can serve at the same time
    MaxTokens,      \* bound: enrolment tokens ever stored
    MaxCredentials, \* bound: runtime credentials ever issued
    MaxFaults       \* bound: failing store calls

ASSUME CenterBounds == MaxTokens \in Nat /\ MaxCredentials \in Nat /\ MaxFaults \in Nat

VARIABLES
    gateways,   \* the stored gateways
    etokens,    \* the stored enrolment tokens, in the order of their serials
    events,     \* the stored lifecycle events of each gateway
    req,        \* the requests in progress
    shown,      \* gateways whose bootstrap token the admin was shown
    regist,     \* identities for which a gateway was sent its RegistToken
    held,       \* runtime credentials a gateway was sent
    issued,     \* number of runtime credentials issued
    faults      \* number of store calls that failed

\* History: the identities whose provisioning consumed the bootstrap token,
\* the enrolment tokens the registrations consumed, the stored renewals.
VARIABLES provisioned, registrations, renewals

store == <<gateways, etokens, events>>
known == <<shown, regist, held>>
history == <<provisioned, registrations, renewals>>
vars == <<store, req, known, issued, faults, history>>

None == -1
Seed == 0
Credentials == 0 .. MaxCredentials

Lifecycles == {"none", "provisioned", "initializing", "running"}
Idle == [pc |-> "idle", gateway |-> None, identity |-> None,
         old |-> None, new |-> None, from |-> "none", to |-> "none"]
Unknown == [stored |-> FALSE, boot |-> FALSE, cred |-> None, valid |-> TRUE, life |-> "none"]

Outcomes == {"ok", "lost", "kept"}
StoreCall(outcome) ==
    /\ outcome # "ok" => faults < MaxFaults
    /\ faults' = IF outcome = "ok" THEN faults ELSE faults + 1

Begin(h, request) == req' = [req EXCEPT ![h] = request]
Goto(h, pc) == req' = [req EXCEPT ![h].pc = pc]
Finish(h) == req' = [req EXCEPT ![h] = Idle]

-----------------------------------------------------------------------------
\* main: the gateways of the configuration are seeded with their credential.
Seeded(seeds) ==
    /\ gateways = [g \in Gateways |->
                    IF g \in seeds THEN [Unknown EXCEPT !.stored = TRUE, !.cred = Seed] ELSE Unknown]
    /\ held = [g \in Gateways |-> IF g \in seeds THEN {Seed} ELSE {}]

Init ==
    /\ \E seeds \in SUBSET Gateways : Seeded(seeds)
    /\ etokens = <<>>
    /\ events = [g \in Gateways |-> <<>>]
    /\ req = [h \in Handlers |-> Idle]
    /\ shown = {}
    /\ regist = [g \in Gateways |-> {}]
    /\ issued = 0
    /\ faults = 0
    /\ provisioned = [g \in Gateways |-> <<>>]
    /\ registrations = <<>>
    /\ renewals = {}

-----------------------------------------------------------------------------
(* admin_create_gateway_instance *)

\* The row of a new gateway: a bootstrap token, no credential yet
Created == [Unknown EXCEPT !.stored = TRUE, !.boot = TRUE, !.life = "provisioned"]

\* create_gateway: the gateway is stored, its first event only afterwards.
CreateGateway(h, g, outcome) ==
    /\ req[h].pc = "idle"
    /\ ~gateways[g].stored
    /\ StoreCall(outcome)
    /\ gateways' = IF outcome = "lost" THEN gateways ELSE
                    [gateways EXCEPT ![g] = Created]
    /\ IF outcome = "ok"
        THEN Begin(h, [Idle EXCEPT !.pc = "event", !.gateway = g, !.to = "provisioned"])
        ELSE UNCHANGED req
    /\ UNCHANGED <<etokens, events, known, issued, history>>

\* record_lifecycle_event, second call of whoever changed the state.  Only the
\* creation of a gateway fails when it fails.
RecordEvent(h, outcome) ==
    LET r == req[h]
    IN  /\ r.pc = "event"
        /\ StoreCall(outcome)
        /\ events' = IF outcome = "lost" THEN events ELSE
                        [events EXCEPT ![r.gateway] = Append(@, [from |-> r.from, to |-> r.to])]
        /\ IF r.to = "running" \/ (r.to = "provisioned" /\ outcome # "ok")
            THEN Finish(h) ELSE Goto(h, "answer")
        /\ UNCHANGED <<gateways, etokens, known, issued, history>>

-----------------------------------------------------------------------------
(* get_gateway_initial_config and provision_gateway_initial_config *)

\* The gateway is read once; what was read decides the path.
Provision(h, g, i) ==
    /\ req[h].pc = "idle"
    /\ g \in shown
    /\ gateways[g].cred = None
    /\ gateways[g].boot
    /\ Begin(h, [Idle EXCEPT !.pc = "derive", !.gateway = g, !.identity = i])
    /\ UNCHANGED <<store, known, issued, faults, history>>

\* create_enrollment_token with the RegistToken derived from the identity
CreateEnrollmentToken(h, outcome) ==
    /\ req[h].pc = "derive"
    /\ Len(etokens) < MaxTokens
    /\ StoreCall(outcome)
    /\ etokens' = IF outcome = "lost" THEN etokens ELSE
                    Append(etokens, [gateway |-> req[h].gateway, identity |-> req[h].identity,
                                     used |-> 0, status |-> "active", valid |-> TRUE])
    /\ IF outcome = "ok" THEN Goto(h, "bootstrap") ELSE Finish(h)
    /\ UNCHANGED <<gateways, events, known, issued, history>>

MutBootstrapUnchecked(g) == gateways[g].stored
BootstrapConsumable(g) == gateways[g].boot /\ gateways[g].life = "provisioned"

\* The hash of the bootstrap token is taken out of the gateway.
MutBootstrapKept(gateway) == gateway
WithoutBootstrap(gateway) == [gateway EXCEPT !.boot = FALSE]

\* consume_bootstrap_token
ConsumeBootstrap(h, outcome) ==
    LET g == req[h].gateway
    IN  /\ req[h].pc = "bootstrap"
        /\ BootstrapConsumable(g)
        /\ StoreCall(outcome)
        /\ gateways' = IF outcome = "lost" THEN gateways ELSE
                        [gateways EXCEPT ![g] = WithoutBootstrap(@)]
        /\ IF outcome = "ok"
            THEN /\ Goto(h, "mark")
                 /\ provisioned' = [provisioned EXCEPT ![g] = Append(@, req[h].identity)]
            ELSE /\ Finish(h)
                 /\ UNCHANGED provisioned
        /\ UNCHANGED <<etokens, events, known, issued, registrations, renewals>>

\* The other provisioning won; the enrolment token just stored stays.
BootstrapRefused(h) ==
    /\ req[h].pc = "bootstrap"
    /\ ~BootstrapConsumable(req[h].gateway)
    /\ Finish(h)
    /\ UNCHANGED <<store, known, issued, faults, history>>

\* mark_gateway_initializing; an error is only logged.
MutMarkAlways(life) == TRUE
Markable(life) == life = "provisioned"

MarkInitializing(h, outcome) ==
    LET g == req[h].gateway
        changed == Markable(gateways[g].life)
    IN  /\ req[h].pc = "mark"
        /\ StoreCall(outcome)
        /\ gateways' = IF changed /\ outcome # "lost"
                        THEN [gateways EXCEPT ![g].life = "initializing"] ELSE gateways
        /\ req' = [req EXCEPT ![h] =
                    IF changed /\ outcome = "ok"
                        THEN [@ EXCEPT !.pc = "event", !.from = "provisioned", !.to = "initializing"]
                        ELSE [@ EXCEPT !.pc = "answer"]]
        /\ UNCHANGED <<etokens, events, known, issued, history>>

-----------------------------------------------------------------------------
(* register_gateway *)

MutTokenReusable(token) == token.status \in {"active", "exhausted"} /\ token.valid
Consumable(token) ==
    /\ token.status \in {"active", "used"}
    /\ token.valid
    /\ token.used < 1

\* consume_enrollment_token: some stored token with the hash of the presented
\* one, whichever the iteration of the map meets first.
Register(h, n, outcome) ==
    LET token == etokens[n]
    IN  /\ req[h].pc = "idle"
        /\ token.identity \in regist[token.gateway]
        /\ Consumable(token)
        /\ StoreCall(outcome)
        /\ etokens' = IF outcome = "lost" THEN etokens ELSE
                        [etokens EXCEPT ![n].used = @ + 1, ![n].status = "exhausted"]
        /\ IF outcome = "ok"
            THEN /\ Begin(h, [Idle EXCEPT !.pc = "issue", !.gateway = token.gateway,
                                          !.identity = token.identity])
                 /\ registrations' = Append(registrations, n)
            ELSE UNCHANGED <<req, registrations>>
        /\ UNCHANGED <<gateways, events, known, issued, provisioned, renewals>>

\* A refused token is marked too.
RegisterRefused(n, outcome) ==
    LET token == etokens[n]
    IN  /\ token.identity \in regist[token.gateway]
        /\ token.status = "active"
        /\ ~token.valid
        /\ StoreCall(outcome)
        /\ etokens' = IF outcome = "lost" THEN etokens ELSE [etokens EXCEPT ![n].status = "expired"]
        /\ UNCHANGED <<gateways, events, req, known, issued, history>>

\* issue_runtime_credential, in a registration or a renewal
MutIssueRepeats == (issued % 2) + 1
FreshCredential == issued + 1

Issue(h) ==
    /\ req[h].pc = "issue"
    /\ issued < MaxCredentials
    /\ issued' = FreshCredential
    /\ req' = [req EXCEPT ![h].pc = "credential", ![h].new = FreshCredential]
    /\ UNCHANGED <<store, known, faults, history>>

\* The gateway cannot be read or no secret generated: the RegistToken of a
\* registration is used up all the same.
IssueFails(h) ==
    /\ req[h].pc = "issue"
    /\ Finish(h)
    /\ UNCHANGED <<store, known, issued, faults, history>>

\* update_gateway_credential: unconditional, for registrations and renewals.
UpdateCredential(h, outcome) ==
    LET r == req[h]
        renewal == r.old # None
    IN  /\ r.pc = "credential"
        /\ StoreCall(outcome)
        /\ IF outcome = "lost" THEN UNCHANGED <<gateways, renewals>> ELSE
            /\ gateways' = [gateways EXCEPT ![r.gateway].cred = r.new, ![r.gateway].valid = TRUE]
            /\ renewals' = IF ~renewal THEN renewals ELSE
                            renewals \cup {[gateway |-> r.gateway, old |-> r.old, new |-> r.new]}
        /\ IF outcome # "ok" THEN Finish(h)
           ELSE Goto(h, IF renewal THEN "answer" ELSE "mark")
        /\ UNCHANGED <<etokens, events, known, issued, provisioned, registrations>>

-----------------------------------------------------------------------------
(* renew_gateway_credential and submit_gateway_status *)

\* authenticate_gateway
Authentic(g, cred) == gateways[g].cred = cred /\ gateways[g].valid

Renew(h, g, cred) ==
    /\ req[h].pc = "idle"
    /\ cred \in held[g]
    /\ Authentic(g, cred)
    /\ Begin(h, [Idle EXCEPT !.pc = "issue", !.gateway = g, !.old = cred])
    /\ UNCHANGED <<store, known, issued, faults, history>>

SubmitStatus(h, g, cred) ==
    /\ req[h].pc = "idle"
    /\ cred \in held[g]
    /\ Authentic(g, cred)
    /\ Begin(h, [Idle EXCEPT !.pc = "status", !.gateway = g])
    /\ UNCHANGED <<store, known, issued, faults, history>>

\* upsert_gateway_status: the first report makes the gateway running.
UpsertStatus(h, outcome) ==
    LET g == req[h].gateway
        changed == gateways[g].life # "running"
    IN  /\ req[h].pc = "status"
        /\ StoreCall(outcome)
        /\ gateways' = IF outcome = "lost" THEN gateways ELSE
                        [gateways EXCEPT ![g].life = "running"]
        /\ IF changed /\ outcome = "ok"
            THEN req' = [req EXCEPT ![h].pc = "event", ![h].from = gateways[g].life,
                                    ![h].to = "running"]
            ELSE Finish(h)
        /\ UNCHANGED <<etokens, events, known, issued, history>>

-----------------------------------------------------------------------------
\* The answer reaches the admin or the gateway, or is lost.
Answer(h, delivered) ==
    LET r == req[h]
    IN  /\ r.pc = "answer"
        /\ IF ~delivered THEN UNCHANGED known
           ELSE IF r.to = "provisioned"
            THEN shown' = shown \cup {r.gateway} /\ UNCHANGED <<regist, held>>
           ELSE IF r.new # None
            THEN held' = [held EXCEPT ![r.gateway] = @ \cup {r.new}] /\ UNCHANGED <<shown, regist>>
            ELSE regist' = [regist EXCEPT ![r.gateway] = @ \cup {r.identity}]
                    /\ UNCHANGED <<shown, held>>
        /\ Finish(h)
        /\ UNCHANGED <<store, issued, faults, history>>

\* The center is restarted; seeding leaves existing gateways alone.
Restart ==
    /\ req' = [h \in Handlers |-> Idle]
    /\ UNCHANGED <<store, known, issued, faults, history>>

\* Time: an enrolment token or a runtime credential expires.
ExpireToken(n) ==
    /\ etokens[n].valid
    /\ etokens' = [etokens EXCEPT ![n].valid = FALSE]
    /\ UNCHANGED <<gateways, events, req, known, issued, faults, history>>

ExpireCredential(g) ==
    /\ gateways[g].cred # None /\ gateways[g].valid
    /\ gateways' = [gateways EXCEPT ![g].valid = FALSE]
    /\ UNCHANGED <<etokens, events, req, known, issued, faults, history>>

HandlerStep(h) ==
    \/ \E outcome \in Outcomes :
        \/ RecordEvent(h, outcome) \/ CreateEnrollmentToken(h, outcome)
        \/ ConsumeBootstrap(h, outcome) \/ MarkInitializing(h, outcome)
        \/ UpdateCredential(h, outcome) \/ UpsertStatus(h, outcome)
    \/ BootstrapRefused(h) \/ Issue(h) \/ IssueFails(h)
    \/ \E delivered \in BOOLEAN : Answer(h, delivered)

Next ==
    \/ \E h \in Handlers, g \in Gateways, outcome \in Outcomes : CreateGateway(h, g, outcome)
    \/ \E h \in Handlers, g \in Gateways, i \in Identities : Provision(h, g, i)
    \/ \E h \in Handlers, n \in DOMAIN etokens, outcome \in Outcomes : Register(h, n, outcome)
    \/ \E n \in DOMAIN etokens, outcome \in Outcomes : RegisterRefused(n, outcome)
    \/ \E h \in Handlers, g \in Gateways, cred \in Credentials :
            Renew(h, g, cred) \/ SubmitStatus(h, g, cred)
    \/ \E h \in Handlers : HandlerStep(h)
    \/ \E n \in DOMAIN etokens : ExpireToken(n)
    \/ \E g \in Gateways : ExpireCredential(g)
    \/ Restart

Spec == Init /\ [][Next]_vars

-----------------------------------------------------------------------------
(* Refinement of OnboardingContract *)

Stage == [g \in Gateways |-> gateways[g].life]
Open == {g \in Gateways : gateways[g].boot}
Admitted == [g \in Gateways |-> {provisioned[g][n] : n \in DOMAIN provisioned[g]}]
Current == [g \in Gateways |-> gateways[g].cred]
Underway == {c \in Credentials : \E h \in Handlers : req[h].pc = "credential" /\ req[h].new = c}
Recorded == [g \in Gateways |-> {events[g][n].to : n \in DOMAIN events[g]}]

Contract == INSTANCE OnboardingContract
            WITH stage <- Stage, open <- Open, admitted <- Admitted, invited <- regist,
                 credential <- Current, generated <- Seed .. issued, pending <- Underway,
                 recorded <- Recorded

-----------------------------------------------------------------------------
(* Properties *)

\* Everything stored, sent and in progress is of its type.
TypeOK ==
    /\ gateways \in [Gateways -> [stored : BOOLEAN, boot : BOOLEAN, cred : {None} \cup Credentials,
                                  valid : BOOLEAN, life : Lifecycles]]
    /\ etokens \in Seq([gateway : Gateways, identity : Identities, used : 0 .. 1,
                        status : {"active", "exhausted", "expired"}, valid : BOOLEAN])
    /\ events \in [Gateways -> Seq([from : Lifecycles, to : Lifecycles])]
    /\ req \in [Handlers ->
            [pc : {"idle", "event", "derive", "bootstrap", "mark", "issue", "credential",
                   "status", "answer"},
             gateway : Gateways \cup {None}, identity : Identities \cup {None},
             old : {None} \cup Credentials, new : {None} \cup Credentials,
             from : Lifecycles, to : Lifecycles]]
    /\ shown \subseteq Gateways
    /\ regist \in [Gateways -> SUBSET Identities]
    /\ held \in [Gateways -> SUBSET Credentials]
    /\ issued \in 0 .. MaxCredentials
    /\ faults \in 0 .. MaxFaults
    /\ provisioned \in [Gateways -> Seq(Identities)]
    /\ registrations \in Seq(Nat)
    /\ renewals \subseteq [gateway : Gateways, old : Credentials, new : Credentials]

\* The bootstrap token provisions one gateway process: of several requests
\* that all found it unconsumed, each with its own stored RegistToken, one is
\* answered, and a gateway is sent a RegistToken for that identity only.
BootstrapOnce ==
    \A g \in Gateways :
        /\ Len(provisioned[g]) <= 1
        /\ \A i \in regist[g] : \E n \in DOMAIN provisioned[g] : provisioned[g][n] = i

\* A stored RegistToken registers once, whatever requests present it together.
EnrollmentTokenUsedOnce ==
    \A n, m \in DOMAIN registrations : registrations[n] = registrations[m] => n = m

\* The lifecycle follows the tokens, although state, tokens and credential are
\* written by different calls: a gateway leaves provisioned only after its
\* bootstrap token is consumed, runs only with a credential, and one that has
\* a credential can not be provisioned again.
LifecycleFollowsTokens ==
    \A g \in Gateways :
        /\ gateways[g].life = "initializing" \/ gateways[g].cred # None => ~gateways[g].boot
        /\ gateways[g].life = "running" => gateways[g].cred # None

\* A transition is recorded at most once, so a history has at most three
\* events and the bound of 100 in record_lifecycle_event drops none.
EventsDistinct ==
    \A g \in Gateways : \A n, m \in DOMAIN events[g] :
        events[g][n].to = events[g][m].to => n = m

Rank == [none |-> 0, provisioned |-> 1, initializing |-> 2, running |-> 3]

\* The lifecycle never moves back: a late registration or provisioning does
\* not demote a gateway that already runs.
LifecycleForward ==
    [][\A g \in Gateways : Rank[gateways[g].life] <= Rank[gateways'[g].life]]_vars

\* A credential that was replaced stays invalid: what a handler stores, even
\* late, was never sent to a gateway before.
ReplacedStaysInvalid ==
    [][\A g \in Gateways : gateways'[g].cred # gateways[g].cred
            => \A f \in Gateways : gateways'[g].cred \notin held[f]]_vars

\* Gateway enrolment implements OnboardingContract: across the store calls in
\* which tokens are consumed, credentials stored, stages changed and recorded,
\* only the process the bootstrap token admitted is sent a RegistToken, each
\* credential is stored once, for a gateway that may have it, and no stage is
\* entered or recorded out of turn.
ImplementsOnboardingContract == Contract!Spec

\* What crates/wist-center/src/api/gateway_ops.rs:544 says of a renewal: the
\* presented token is invalid at once, as in renew_agent_credential of
\* warp-gateway, so that it is renewed only once.
RenewedOnce ==
    \A r, q \in renewals : r.gateway = q.gateway /\ r.old = q.old => r = q
=============================================================================
