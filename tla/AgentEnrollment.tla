--------------------------- MODULE AgentEnrollment ---------------------------
(***************************************************************************)
(* Enrolment and credentials of agents at the gateway (crates/warp-gateway, *)
(* api/install.rs, api/enrollment.rs, api/agent_ops.rs).                   *)
(*                                                                         *)
(* Several requests run at once.  Each goes through its calls on the admin *)
(* store one at a time; a call is atomic (module AdminStore) and the other *)
(* requests, the clock and a crash of the gateway may come between two of  *)
(* them.  A call can fail before the new snapshot replaces the old one, or *)
(* after it: then the caller sees an error although the change is stored.  *)
(*                                                                         *)
(* Times are kept relative to the present: how long ago a token was        *)
(* reserved and how long a token or credential is still valid, capped at   *)
(* the limits the code compares them with.                                 *)
(***************************************************************************)
EXTENDS Integers, FiniteSets

CONSTANTS
    Tokens,         \* install codes
    Agents,         \* agent identities, derived from the host profile
    Handlers,       \* requests the gateway can serve at the same time
    MaxUses,        \* max_uses of an install code (1 when issued by this code)
    ReservationTTL, \* ENROLLMENT_TOKEN_RESERVATION_TTL_SECONDS
    TokenTTL,       \* bootstrap_token_ttl_seconds
    CredentialTTL,  \* credential_ttl_seconds
    MaxCredentials, \* bound: bearer tokens ever generated
    MaxFaults       \* bound: failing store calls

ASSUME UsesAssumption == MaxUses \in Nat \ {0}
ASSUME TTLAssumption == ReservationTTL \in Nat /\ TokenTTL \in Nat /\ CredentialTTL \in Nat
ASSUME BoundAssumption == MaxCredentials \in Nat /\ MaxFaults \in Nat

VARIABLES
    tokens,     \* the stored enrolment tokens
    agents,     \* the stored agent registrations
    req,        \* the requests in progress
    held,       \* the bearer tokens each agent was ever sent
    issued,     \* number of bearer tokens generated
    faults      \* number of store calls that failed

\* History: who was registered with which token, which renewal replaced what.
VARIABLES
    enrolled,
    renewals

vars == <<tokens, agents, req, held, issued, faults, enrolled, renewals>>
history == <<enrolled, renewals>>

Credentials == 1 .. MaxCredentials
None == 0

Statuses == {"absent", "active", "reserved", "used", "expired"}
Absent == [status |-> "absent", used |-> 0, age |-> 0, left |-> 0]
Unregistered == [cred |-> None, left |-> 0]
Idle == [pc |-> "idle", token |-> None, agent |-> None, old |-> None, new |-> None, left |-> 0]

Token == [status : Statuses, used : 0 .. MaxUses, age : 0 .. ReservationTTL, left : 0 .. TokenTTL]
Registration == [cred : {None} \cup Credentials, left : 0 .. CredentialTTL]
Request == [pc : {"idle", "reserve", "issue", "commit", "rollback", "swap", "granted", "renewed"},
            token : {None} \cup Tokens, agent : {None} \cup Agents,
            old : {None} \cup Credentials, new : {None} \cup Credentials,
            left : 0 .. CredentialTTL]

\* How a store call ends: it succeeds, it fails and changes nothing, or it
\* fails after the rename that made the change permanent.
Outcomes == {"ok", "lost", "kept"}
StoreCall(outcome) ==
    /\ outcome # "ok" => faults < MaxFaults
    /\ faults' = IF outcome = "ok" THEN faults ELSE faults + 1

Registered(a) == agents[a].cred # None
Goto(h, pc) == req' = [req EXCEPT ![h].pc = pc]
Finish(h) == req' = [req EXCEPT ![h] = Idle]

-----------------------------------------------------------------------------
Init ==
    /\ tokens = [t \in Tokens |-> Absent]
    /\ agents = [a \in Agents |-> Unregistered]
    /\ req = [h \in Handlers |-> Idle]
    /\ held = [a \in Agents |-> {}]
    /\ issued = 0
    /\ faults = 0
    /\ enrolled = [t \in Tokens |-> {}]
    /\ renewals = {}

\* issue_agent_install_code.  When its store call fails, nobody learns the code.
IssueInstallCode(t) ==
    /\ tokens[t] = Absent
    /\ tokens' = [tokens EXCEPT ![t] = [status |-> "active", used |-> 0, age |-> 0, left |-> TokenTTL]]
    /\ UNCHANGED <<agents, req, held, issued, faults, history>>

\* A reservation given back: by rollback, or by whoever finds it expired.
MutReleaseKeepsCount(token) == [token EXCEPT !.age = 0, !.status = "active"]
Release(token) ==
    [token EXCEPT !.used = IF @ > 0 THEN @ - 1 ELSE 0, !.age = 0, !.status = "active"]

\* recover_expired_reservation
MutUsedRecovered(token) ==
    IF token.status = "used" \/ (token.status = "reserved" /\ token.age >= ReservationTTL)
        THEN Release(token) ELSE token
RecoverExpiredReservation(token) ==
    IF token.status = "reserved" /\ token.age >= ReservationTTL THEN Release(token) ELSE token

\* validate_bootstrap_token_for_config: the update is stored even when the
\* token is refused, and expiry overrides every other status.
ValidatedToken(token) ==
    IF token.left = 0 THEN [token EXCEPT !.status = "expired"]
    ELSE RecoverExpiredReservation(token)

\* The initial config or the agent package is requested with a token.
ValidateBootstrapToken(t, outcome) ==
    /\ tokens[t].status # "absent"
    /\ StoreCall(outcome)
    /\ tokens' = IF outcome = "lost" THEN tokens ELSE [tokens EXCEPT ![t] = ValidatedToken(@)]
    /\ UNCHANGED <<agents, req, held, issued, history>>

-----------------------------------------------------------------------------
(* enroll_agent *)

EnrollAgent(h, t, a) ==
    /\ req[h].pc = "idle"
    /\ req' = [req EXCEPT ![h] = [Idle EXCEPT !.pc = "reserve", !.token = t, !.agent = a]]
    /\ UNCHANGED <<tokens, agents, held, issued, faults, history>>

Reservable(token, a) ==
    /\ token.status = "active"
    /\ token.used < MaxUses
    /\ token.left > 0
    /\ ~Registered(a)

\* reserve_enrollment_token, accepted
Reserve(h, outcome) ==
    LET t == req[h].token
        token == RecoverExpiredReservation(tokens[t])
    IN  /\ req[h].pc = "reserve"
        /\ Reservable(token, req[h].agent)
        /\ StoreCall(outcome)
        /\ tokens' = IF outcome = "lost" THEN tokens ELSE
                        [tokens EXCEPT ![t] = [token EXCEPT !.used = @ + 1, !.age = 0,
                                                            !.status = "reserved"]]
        /\ IF outcome = "ok" THEN Goto(h, "issue") ELSE Finish(h)
        /\ UNCHANGED <<agents, held, issued, history>>

\* reserve_enrollment_token, refused: update_result stores nothing, not even
\* the recovery of an expired reservation.
ReserveRefused(h) ==
    /\ req[h].pc = "reserve"
    /\ ~Reservable(RecoverExpiredReservation(tokens[req[h].token]), req[h].agent)
    /\ Finish(h)
    /\ UNCHANGED <<tokens, agents, held, issued, faults, history>>

\* issue_secret_token and the validity period of the new credential
Issue(h) ==
    /\ req[h].pc = "issue"
    /\ issued < MaxCredentials
    /\ issued' = issued + 1
    /\ req' = [req EXCEPT ![h] = [@ EXCEPT !.pc = "commit", !.new = issued + 1,
                                           !.left = CredentialTTL]]
    /\ UNCHANGED <<tokens, agents, held, faults, history>>

IssueFails(h) ==
    /\ req[h].pc = "issue"
    /\ Goto(h, "rollback")
    /\ UNCHANGED <<tokens, agents, held, issued, faults, history>>

MutCommitOverwrites(h) == tokens[req[h].token].status = "reserved"
Committable(h) ==
    /\ tokens[req[h].token].status = "reserved"
    /\ ~Registered(req[h].agent)

\* commit_reserved_registration, accepted: token and registration change in
\* the same store call.
Commit(h, outcome) ==
    LET t == req[h].token
        a == req[h].agent
    IN  /\ req[h].pc = "commit"
        /\ Committable(h)
        /\ StoreCall(outcome)
        /\ IF outcome = "lost" THEN UNCHANGED <<tokens, agents, enrolled>> ELSE
            /\ tokens' = [tokens EXCEPT ![t].status = IF tokens[t].used >= MaxUses
                                                        THEN "used" ELSE "active",
                                        ![t].age = 0]
            /\ agents' = [agents EXCEPT ![a] = [cred |-> req[h].new, left |-> req[h].left]]
            /\ enrolled' = [enrolled EXCEPT ![t] = @ \cup {a}]
        /\ Goto(h, IF outcome = "ok" THEN "granted" ELSE "rollback")
        /\ UNCHANGED <<held, issued, renewals>>

\* commit_reserved_registration, refused
CommitRefused(h) ==
    /\ req[h].pc = "commit"
    /\ ~Committable(h)
    /\ Goto(h, "rollback")
    /\ UNCHANGED <<tokens, agents, held, issued, faults, history>>

\* rollback_enrollment_token_reservation, whose own failure is ignored; the
\* agent is told that it was rejected.
MutRollbackAlways(token) == Release(token)
RolledBack(token) == IF token.status = "reserved" THEN Release(token) ELSE token

Rollback(h, outcome) ==
    /\ req[h].pc = "rollback"
    /\ StoreCall(outcome)
    /\ tokens' = IF outcome = "lost" THEN tokens ELSE [tokens EXCEPT ![req[h].token] = RolledBack(@)]
    /\ Finish(h)
    /\ UNCHANGED <<agents, held, issued, history>>

-----------------------------------------------------------------------------
(* renew_agent_credential *)

\* authenticate_agent
Authentic(a, cred) == agents[a].cred = cred /\ agents[a].left > 0

\* The request is authenticated against a snapshot and the new bearer token
\* is generated, before the store is locked for the change.
RenewCredential(h, a, cred) ==
    /\ req[h].pc = "idle"
    /\ cred \in held[a]
    /\ Authentic(a, cred)
    /\ issued < MaxCredentials
    /\ issued' = issued + 1
    /\ req' = [req EXCEPT ![h] = [Idle EXCEPT !.pc = "swap", !.agent = a, !.old = cred,
                                              !.new = issued + 1, !.left = CredentialTTL]]
    /\ UNCHANGED <<tokens, agents, held, faults, history>>

MutSwapUnchecked(h) == Registered(req[h].agent)
Swappable(h) == agents[req[h].agent].cred = req[h].old

\* The change is made only if the presented credential is still the stored one.
Swap(h, outcome) ==
    LET a == req[h].agent
    IN  /\ req[h].pc = "swap"
        /\ Swappable(h)
        /\ StoreCall(outcome)
        /\ IF outcome = "lost" THEN UNCHANGED <<agents, renewals>> ELSE
            /\ agents' = [agents EXCEPT ![a] = [cred |-> req[h].new, left |-> req[h].left]]
            /\ renewals' = renewals \cup {[agent |-> a, old |-> req[h].old, new |-> req[h].new]}
        /\ IF outcome = "ok" THEN Goto(h, "renewed") ELSE Finish(h)
        /\ UNCHANGED <<tokens, held, issued, enrolled>>

SwapRefused(h) ==
    /\ req[h].pc = "swap"
    /\ ~Swappable(h)
    /\ Finish(h)
    /\ UNCHANGED <<tokens, agents, held, issued, faults, history>>

-----------------------------------------------------------------------------
\* The answer of a successful request reaches the agent, or is lost.
Respond(h, delivered) ==
    /\ req[h].pc \in {"granted", "renewed"}
    /\ held' = IF delivered THEN [held EXCEPT ![req[h].agent] = @ \cup {req[h].new}] ELSE held
    /\ Finish(h)
    /\ UNCHANGED <<tokens, agents, issued, faults, history>>

\* The gateway process is restarted: the store is all that is left.
Crash ==
    /\ req' = [h \in Handlers |-> Idle]
    /\ UNCHANGED <<tokens, agents, held, issued, faults, history>>

Older(n, limit) == IF n < limit THEN n + 1 ELSE limit
Sooner(n) == IF n > 0 THEN n - 1 ELSE 0

\* Time passes.
Tick ==
    /\ tokens' = [t \in Tokens |->
            [tokens[t] EXCEPT !.age = IF tokens[t].status = "reserved"
                                        THEN Older(@, ReservationTTL) ELSE @,
                              !.left = Sooner(@)]]
    /\ agents' = [a \in Agents |-> [agents[a] EXCEPT !.left = Sooner(@)]]
    /\ req' = [h \in Handlers |-> [req[h] EXCEPT !.left = Sooner(@)]]
    /\ UNCHANGED <<held, issued, faults, history>>

HandlerStep(h) ==
    \/ \E outcome \in Outcomes :
            Reserve(h, outcome) \/ Commit(h, outcome) \/ Rollback(h, outcome) \/ Swap(h, outcome)
    \/ ReserveRefused(h) \/ Issue(h) \/ IssueFails(h) \/ CommitRefused(h) \/ SwapRefused(h)
    \/ \E delivered \in BOOLEAN : Respond(h, delivered)

Next ==
    \/ \E t \in Tokens : IssueInstallCode(t)
    \/ \E t \in Tokens, outcome \in Outcomes : ValidateBootstrapToken(t, outcome)
    \/ \E h \in Handlers, t \in Tokens, a \in Agents : EnrollAgent(h, t, a)
    \/ \E h \in Handlers, a \in Agents, cred \in Credentials : RenewCredential(h, a, cred)
    \/ \E h \in Handlers : HandlerStep(h)
    \/ Crash
    \/ Tick

Spec == Init /\ [][Next]_vars

-----------------------------------------------------------------------------
(* Refinement of EnrollmentContract *)

\* A use is set aside as long as the count is ahead of the registrations: also
\* when the code has expired meanwhile.
Aside == {t \in Tokens : tokens[t].used > Cardinality(enrolled[t])}

Current == [a \in Agents |-> agents[a].cred]
Spent == {r.old : r \in renewals}

Contract == INSTANCE EnrollmentContract
            WITH uses <- enrolled, aside <- Aside, current <- Current, spent <- Spent

-----------------------------------------------------------------------------
(* Properties *)

\* Stored tokens and registrations, requests and credentials are of their types.
TypeOK ==
    /\ tokens \in [Tokens -> Token]
    /\ agents \in [Agents -> Registration]
    /\ req \in [Handlers -> Request]
    /\ held \in [Agents -> SUBSET Credentials]
    /\ issued \in 0 .. MaxCredentials
    /\ faults \in 0 .. MaxFaults
    /\ enrolled \in [Tokens -> SUBSET Agents]
    /\ renewals \subseteq [agent : Agents, old : Credentials, new : Credentials]

\* A token registers at most max_uses agents, although a reservation can
\* expire under a slow request, be taken over by another, be committed by the
\* first and rolled back by the second, with crashes and store errors between.
WithinMaxUses == \A t \in Tokens : Cardinality(enrolled[t]) <= MaxUses

\* used_count is exact: the agents registered with the token and the one
\* reservation that is open, if any, whoever made it.
UsedCountExact ==
    \A t \in Tokens :
        LET n == Cardinality(enrolled[t])
        IN  CASE tokens[t].status = "reserved" -> tokens[t].used = n + 1
              [] tokens[t].status = "expired"  -> tokens[t].used \in {n, n + 1}
              [] OTHER                         -> tokens[t].used = n

\* An agent is registered by one token only: the check in reserve is repeated
\* in commit, when another request may have registered the agent meanwhile.
RegisteredOnce ==
    \A t, u \in Tokens : t # u => enrolled[t] \cap enrolled[u] = {}

\* A reservation left behind by a crash, a store error or a failed rollback
\* does not consume the token: after the reservation's time an unregistered
\* agent can enrol with it.
AbandonedReservationReusable ==
    \A t \in Tokens, a \in Agents :
        (/\ tokens[t].status = "reserved"
         /\ tokens[t].age >= ReservationTTL
         /\ tokens[t].left > 0
         /\ ~Registered(a))
            => Reservable(RecoverExpiredReservation(tokens[t]), a)

\* A credential is renewed once: of two renewals that present the same one,
\* both authenticated before either was stored, only one succeeds.
RenewedOnce ==
    \A r, q \in renewals : r.agent = q.agent /\ r.old = q.old => r = q

\* The credential of an answer that is on its way is the one in the store.
AnswerIsStored ==
    \A h \in Handlers :
        req[h].pc \in {"granted", "renewed"} => agents[req[h].agent].cred = req[h].new

\* A credential an agent was sent is the stored one until the agent itself
\* has had it renewed: no other request replaces it.
HeldUntilRenewed ==
    \A a \in Agents : \A c \in held[a] :
        c = agents[a].cred \/ \E r \in renewals : r.agent = a /\ r.old = c

\* Enrolment implements EnrollmentContract.  A slow request may commit or roll
\* back the reservation that another has taken over, a call may fail after its
\* change was stored, a crash may leave a reservation: yet a use of a code is
\* taken or given back once, and no credential that was replaced comes back.
ImplementsEnrollmentContract == Contract!Spec

\* What doc/design/center/identity-enrollment-protocol.md:253 asks for: an
\* agent without an identity enrols again.  While no request of the agent is
\* in progress and it holds no credential, an active token lets it enrol.
IdentityLossLeadsToEnrollment ==
    \A a \in Agents, t \in Tokens :
        (/\ \A h \in Handlers : req[h].agent # a
         /\ held[a] = {}
         /\ tokens[t].status = "active"
         /\ tokens[t].left > 0)
            => Reservable(tokens[t], a)
=============================================================================
