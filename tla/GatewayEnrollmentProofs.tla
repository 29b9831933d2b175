---------------------- MODULE GatewayEnrollmentProofs ----------------------
(***************************************************************************)
(* Proofs about GatewayEnrollment for any number of gateways, identities,  *)
(* concurrent requests and failing store calls.                            *)
(*                                                                         *)
(* A handler acts on what it read, or was let do, several store calls ago. *)
(* The argument says for each step of a request what of that still holds,  *)
(* whatever other requests, failures and restarts came between: a gateway  *)
(* once stored stays stored (Placed), a consumed bootstrap token does not  *)
(* come back (Bootstrap, Backed), the lifecycle has reached every state an *)
(* event was or will be recorded for (EventsReached), and the credential a *)
(* request is about to store was sent to nobody (Fresh).                   *)
(***************************************************************************)
EXTENDS GatewayEnrollment, TLAPS

-----------------------------------------------------------------------------
(* The inductive invariant *)

\* A request knows the gateway, the identity and the credential it is about.
Aimed(r) ==
    /\ r.pc # "idle" => r.gateway \in Gateways
    /\ r.pc \in {"derive", "bootstrap"} => r.identity \in Identities
    /\ r.pc = "credential" => r.new \in Credentials
    /\ r.pc = "event" => r.to \in {"provisioned", "initializing", "running"}

Typed == TypeOK /\ \A h \in Handlers : Aimed(req[h])

\* What is not stored is as before its creation, and a request is about a
\* stored gateway.
Placed ==
    /\ \A g \in Gateways : ~gateways[g].stored => gateways[g] = Unknown
    /\ \A h \in Handlers : req[h].pc # "idle" => gateways[req[h].gateway].stored

Provisioned(g, i) == \E n \in DOMAIN provisioned[g] : provisioned[g][n] = i

\* A provisioning past consume_bootstrap_token, which answers the RegistToken
Granted(r) ==
    /\ r.new = None
    /\ \/ r.pc = "mark"
       \/ r.pc = "event" /\ r.to = "initializing"
       \/ r.pc = "answer" /\ r.to # "provisioned"

\* The bootstrap token is gone once a provisioning consumed it, and only that
\* provisioning answers a RegistToken.
Bootstrap ==
    /\ BootstrapOnce
    /\ \A g \in Gateways : provisioned[g] # <<>> => gateways[g].stored /\ ~gateways[g].boot
    /\ \A h \in Handlers : Granted(req[h]) => Provisioned(req[h].gateway, req[h].identity)

\* An enrolment token that let a registration through is used up.
TokensUsedUp ==
    /\ EnrollmentTokenUsedOnce
    /\ \A n \in DOMAIN registrations :
            registrations[n] \in DOMAIN etokens /\ etokens[registrations[n]].used = 1

\* The requests that are going to move the lifecycle or to store a credential
\* are those for which the tokens allow it.
Backed ==
    /\ LifecycleFollowsTokens
    /\ \A h \in Handlers :
        /\ req[h].pc \in {"mark", "issue", "credential"} => ~gateways[req[h].gateway].boot
        /\ req[h].pc = "status" => gateways[req[h].gateway].cred # None

Pending(h, g, to) == req[h].pc = "event" /\ req[h].gateway = g /\ req[h].to = to
RecordedEvent(g, to) == \E n \in DOMAIN events[g] : events[g][n].to = to

\* The gateway has reached the state of every event, recorded or about to be,
\* and an event that is about to be recorded is neither recorded nor about to
\* be recorded by another request.
EventsReached ==
    /\ EventsDistinct
    /\ \A g \in Gateways : \A n \in DOMAIN events[g] :
            Rank[events[g][n].to] <= Rank[gateways[g].life] /\ events[g][n].to # "none"
    /\ \A h \in Handlers : req[h].pc = "event" =>
            /\ Rank[req[h].to] <= Rank[gateways[req[h].gateway].life]
            /\ ~RecordedEvent(req[h].gateway, req[h].to)
            /\ \A k \in Handlers : Pending(k, req[h].gateway, req[h].to) => k = h

\* The credentials under way were issued, no two are the same, and one that is
\* not stored yet was sent to no gateway.
Fresh ==
    /\ \A g \in Gateways : \A c \in held[g] : c <= issued
    /\ \A h \in Handlers : req[h].new # None => req[h].new \in 1 .. issued
    /\ \A h \in Handlers : req[h].pc = "credential" => \A g \in Gateways : req[h].new \notin held[g]
    /\ \A h, k \in Handlers : h # k /\ req[h].new # None => req[h].new # req[k].new

\* A credential is under way only to a gateway that was sent a RegistToken or
\* has a credential already.
Sanctioned ==
    \A h \in Handlers : req[h].pc \in {"issue", "credential"} =>
        regist[req[h].gateway] # {} \/ gateways[req[h].gateway].cred # None

Inv ==
    /\ Typed /\ Placed /\ Bootstrap /\ TokensUsedUp /\ Backed /\ EventsReached /\ Fresh
    /\ Sanctioned

Row == [stored : BOOLEAN, boot : BOOLEAN, cred : {None} \cup Credentials,
        valid : BOOLEAN, life : Lifecycles]
Token == [gateway : Gateways, identity : Identities, used : 0 .. 1,
          status : {"active", "exhausted", "expired"}, valid : BOOLEAN]
Event == [from : Lifecycles, to : Lifecycles]
Steps == {"idle", "event", "derive", "bootstrap", "mark", "issue", "credential", "status", "answer"}
Request == [pc : Steps, gateway : Gateways \cup {None}, identity : Identities \cup {None},
            old : {None} \cup Credentials, new : {None} \cup Credentials,
            from : Lifecycles, to : Lifecycles]

-----------------------------------------------------------------------------
(* Types *)

\* A store call keeps the count of failures within its bound.
LEMMA StoreCallType ==
    ASSUME faults \in 0 .. MaxFaults, NEW outcome, StoreCall(outcome)
    PROVE  faults' \in 0 .. MaxFaults
BY CenterBounds DEF StoreCall

\* The rows the center writes are of their type.
LEMMA RowTypes ==
    /\ Unknown \in Row
    /\ Created \in Row
    /\ [Unknown EXCEPT !.stored = TRUE, !.cred = Seed] \in Row
<1>1. Unknown \in Row
  BY DEF Unknown, Row, Lifecycles
<1>2. Created \in Row
  BY <1>1 DEF Created, Row, Lifecycles
<1>3. Seed \in Credentials
  BY CenterBounds DEF Seed, Credentials
<1> QED BY <1>1, <1>2, <1>3 DEF Row

AimedRequest == {r \in Request : Aimed(r)}

\* A handler without a request is of its type.
LEMMA IdleRequest == Idle \in AimedRequest
<1>1. Idle \in Request
  BY DEF Idle, Request, Steps, Lifecycles
<1>2. Idle.pc = "idle"
  BY DEF Idle
<1> QED BY <1>1, <1>2 DEF AimedRequest, Aimed

\* The requests the steps of a handler leave behind
LEMMA NextRequests ==
    ASSUME NEW r \in AimedRequest, r.pc # "idle"
    PROVE  /\ \A s \in {"mark", "issue", "status", "answer"} : [r EXCEPT !.pc = s] \in AimedRequest
           /\ r.pc = "derive" => [r EXCEPT !.pc = "bootstrap"] \in AimedRequest
           /\ \A f \in Lifecycles, t \in {"initializing", "running"} :
                [r EXCEPT !.pc = "event", !.from = f, !.to = t] \in AimedRequest
           /\ \A c \in Credentials : [r EXCEPT !.pc = "credential", !.new = c] \in AimedRequest
<1>1. r \in Request /\ Aimed(r)
  BY DEF AimedRequest
<1>2. ASSUME NEW s \in {"mark", "issue", "status", "answer"} PROVE [r EXCEPT !.pc = s] \in AimedRequest
  BY <1>1 DEF AimedRequest, Aimed, Request, Steps
<1>3. r.pc = "derive" => [r EXCEPT !.pc = "bootstrap"] \in AimedRequest
  BY <1>1 DEF AimedRequest, Aimed, Request, Steps
<1>4. ASSUME NEW f \in Lifecycles, NEW t \in {"initializing", "running"}
      PROVE  [r EXCEPT !.pc = "event", !.from = f, !.to = t] \in AimedRequest
  BY <1>1 DEF AimedRequest, Aimed, Request, Steps, Lifecycles
<1>5. ASSUME NEW c \in Credentials PROVE [r EXCEPT !.pc = "credential", !.new = c] \in AimedRequest
  BY <1>1 DEF AimedRequest, Aimed, Request, Steps
<1> QED BY <1>2, <1>3, <1>4, <1>5

\* Typed in terms of the named sets of records
TypedParts ==
    /\ gateways \in [Gateways -> Row]
    /\ etokens \in Seq(Token)
    /\ events \in [Gateways -> Seq(Event)]
    /\ req \in [Handlers -> AimedRequest]
    /\ shown \subseteq Gateways
    /\ regist \in [Gateways -> SUBSET Identities]
    /\ held \in [Gateways -> SUBSET Credentials]
    /\ issued \in 0 .. MaxCredentials
    /\ faults \in 0 .. MaxFaults
    /\ provisioned \in [Gateways -> Seq(Identities)]
    /\ registrations \in Seq(Nat)
    /\ renewals \subseteq [gateway : Gateways, old : Credentials, new : Credentials]

\* Typed says the same as its parts over the named sets of records.
LEMMA TypedIsParts == Typed <=> TypedParts
<1>1. (req \in [Handlers -> Request] /\ \A h \in Handlers : Aimed(req[h]))
        <=> req \in [Handlers -> AimedRequest]
  BY DEF AimedRequest
<1>2. TypeOK <=> TypedParts!1 /\ TypedParts!2 /\ TypedParts!3 /\ req \in [Handlers -> Request]
            /\ TypedParts!5 /\ TypedParts!6 /\ TypedParts!7 /\ TypedParts!8 /\ TypedParts!9
            /\ TypedParts!10 /\ TypedParts!11 /\ TypedParts!12
  BY DEF TypeOK, Row, Token, Event, Request, Steps
<1> QED BY <1>1, <1>2 DEF Typed, TypedParts

\* Types at first
LEMMA TypedInit == Init => Typed
<1> SUFFICES ASSUME Init PROVE TypedParts
  BY TypedIsParts
<1>1. PICK seeds \in SUBSET Gateways : Seeded(seeds)
  BY DEF Init
<1>2. gateways \in [Gateways -> Row] /\ held \in [Gateways -> SUBSET Credentials]
  BY <1>1, RowTypes, CenterBounds DEF Seeded, Credentials, Seed
<1>3. /\ etokens \in Seq(Token) /\ registrations \in Seq(Nat)
      /\ events \in [Gateways -> Seq(Event)] /\ provisioned \in [Gateways -> Seq(Identities)]
  BY DEF Init
<1>4. req \in [Handlers -> AimedRequest]
  BY IdleRequest DEF Init
<1>5. /\ shown \subseteq Gateways /\ regist \in [Gateways -> SUBSET Identities]
      /\ issued \in 0 .. MaxCredentials /\ faults \in 0 .. MaxFaults
      /\ renewals \subseteq [gateway : Gateways, old : Credentials, new : Credentials]
  BY CenterBounds DEF Init
<1> QED BY <1>2, <1>3, <1>4, <1>5 DEF TypedParts

\* A step on the gateways' rows keeps their type.
LEMMA RowUpdates ==
    ASSUME NEW row \in Row
    PROVE  /\ WithoutBootstrap(row) \in Row
           /\ \A l \in Lifecycles : [row EXCEPT !.life = l] \in Row
           /\ \A c \in Credentials : [row EXCEPT !.cred = c, !.valid = TRUE] \in Row
           /\ [row EXCEPT !.valid = FALSE] \in Row
<1>1. WithoutBootstrap(row) \in Row
  BY DEF WithoutBootstrap, Row
<1>2. \A l \in Lifecycles : [row EXCEPT !.life = l] \in Row
  BY DEF Row
<1>3. \A c \in Credentials : [row EXCEPT !.cred = c, !.valid = TRUE] \in Row
  BY DEF Row
<1>4. [row EXCEPT !.valid = FALSE] \in Row
  BY DEF Row
<1> QED BY <1>1, <1>2, <1>3, <1>4

\* What the forms in which a step changes the requests leave behind
Others(h) == \A k \in Handlers : k # h => req'[k] = req[k]
About(h) == /\ req'[h].gateway = req[h].gateway /\ req'[h].identity = req[h].identity
            /\ req'[h].old = req[h].old

\* A handler that finishes is idle; the others go on.
LEMMA FinishEffect ==
    ASSUME req \in [Handlers -> AimedRequest], NEW h \in Handlers, Finish(h)
    PROVE  /\ req' \in [Handlers -> AimedRequest]
           /\ Others(h)
           /\ req'[h] = Idle
BY IdleRequest DEF Finish, Others

\* A handler that goes on keeps what its request is about.
LEMMA GotoEffect ==
    ASSUME req \in [Handlers -> AimedRequest], NEW h \in Handlers, req[h].pc # "idle",
           NEW s \in Steps, Goto(h, s),
           s \in {"mark", "answer"} \/ (s = "bootstrap" /\ req[h].pc = "derive")
    PROVE  /\ req' \in [Handlers -> AimedRequest]
           /\ Others(h)
           /\ About(h)
           /\ req'[h].pc = s /\ req'[h].new = req[h].new
           /\ req'[h].from = req[h].from /\ req'[h].to = req[h].to
<1> DEFINE r == [req[h] EXCEPT !.pc = s]
<1>1. r \in AimedRequest
  BY NextRequests
<1>2. /\ r.pc = s /\ r.gateway = req[h].gateway /\ r.identity = req[h].identity
      /\ r.old = req[h].old /\ r.new = req[h].new /\ r.from = req[h].from /\ r.to = req[h].to
  BY DEF AimedRequest, Request
<1>3. req' = [req EXCEPT ![h] = r]
  BY DEF Goto
<1> HIDE DEF r
<1> QED BY <1>1, <1>2, <1>3 DEF Others, About

\* A handler about to record an event keeps what its request is about.
LEMMA EventEffect ==
    ASSUME req \in [Handlers -> AimedRequest], NEW h \in Handlers, req[h].pc # "idle",
           NEW f \in Lifecycles, NEW t \in {"initializing", "running"},
           req' = [req EXCEPT ![h] = [req[h] EXCEPT !.pc = "event", !.from = f, !.to = t]]
    PROVE  /\ req' \in [Handlers -> AimedRequest]
           /\ Others(h)
           /\ About(h)
           /\ req'[h].pc = "event" /\ req'[h].new = req[h].new /\ req'[h].to = t
<1> DEFINE r == [req[h] EXCEPT !.pc = "event", !.from = f, !.to = t]
<1>1. r \in AimedRequest
  BY NextRequests
<1>2. /\ r.pc = "event" /\ r.gateway = req[h].gateway /\ r.identity = req[h].identity
      /\ r.old = req[h].old /\ r.new = req[h].new /\ r.to = t
  BY DEF AimedRequest, Request
<1>3. req' = [req EXCEPT ![h] = r]
  OBVIOUS
<1> HIDE DEF r
<1> QED BY <1>1, <1>2, <1>3 DEF Others, About

-----------------------------------------------------------------------------
(* What each action does, entry by entry, and that it keeps the types *)

RowsElse(g) == \A f \in Gateways : f # g => gateways'[f] = gateways[f]
OnlyRow(g, row) == gateways' = [gateways EXCEPT ![g] = row]

\* The ways in which a step changes a stored row
Still(g) ==
    /\ gateways'[g].stored = gateways[g].stored /\ gateways'[g].boot = gateways[g].boot
    /\ gateways'[g].cred = gateways[g].cred /\ gateways'[g].life = gateways[g].life
Spent(g) ==
    /\ gateways'[g].stored = gateways[g].stored /\ ~gateways'[g].boot
    /\ gateways'[g].cred = gateways[g].cred /\ gateways'[g].life = gateways[g].life
Moved(g, life) ==
    /\ gateways'[g].stored = gateways[g].stored /\ gateways'[g].boot = gateways[g].boot
    /\ gateways'[g].cred = gateways[g].cred /\ gateways'[g].life = life
Credited(g, cred) ==
    /\ gateways'[g].stored = gateways[g].stored /\ gateways'[g].boot = gateways[g].boot
    /\ gateways'[g].cred = cred /\ gateways'[g].life = gateways[g].life

\* One row is replaced, the others stay.
LEMMA OnlyRowEffect ==
    ASSUME gateways \in [Gateways -> Row], NEW g \in Gateways, NEW row \in Row, OnlyRow(g, row)
    PROVE  gateways' \in [Gateways -> Row] /\ gateways'[g] = row /\ RowsElse(g)
BY DEF OnlyRow, RowsElse

\* The request knows the gateway it is about.
LEMMA ReqGateway ==
    ASSUME TypedParts, NEW h \in Handlers, req[h].pc # "idle"
    PROVE  /\ req[h] \in AimedRequest /\ req[h].gateway \in Gateways
           /\ gateways[req[h].gateway] \in Row
BY DEF TypedParts, AimedRequest, Aimed

\* A gateway that is not stored yet is stored with its bootstrap token.
LEMMA CreateGatewayEffect ==
    ASSUME TypedParts, NEW h \in Handlers, NEW g \in Gateways, NEW outcome \in Outcomes,
           CreateGateway(h, g, outcome)
    PROVE  /\ TypedParts'
           /\ ~gateways[g].stored /\ req[h].pc = "idle" /\ RowsElse(g)
           /\ \/ gateways' = gateways /\ req' = req
              \/ /\ gateways'[g] = Created
                 /\ \/ req' = req
                    \/ /\ Others(h) /\ req'[h].pc = "event" /\ req'[h].gateway = g
                       /\ req'[h].new = None /\ req'[h].to = "provisioned"
           /\ UNCHANGED <<etokens, events, shown, regist, held, issued, history>>
<1>1. UNCHANGED <<etokens, events, shown, regist, held, issued, history>>
      /\ ~gateways[g].stored /\ req[h].pc = "idle"
  BY DEF CreateGateway, known
<1>2. faults' \in 0 .. MaxFaults
  BY StoreCallType DEF CreateGateway, TypedParts
<1>3. gateways' = gateways \/ OnlyRow(g, Created)
  BY DEF CreateGateway, OnlyRow
<1>4. gateways' \in [Gateways -> Row] /\ RowsElse(g) /\ (gateways' = gateways \/ gateways'[g] = Created)
  BY <1>3, RowTypes, OnlyRowEffect DEF TypedParts, RowsElse
<1>5. CASE outcome = "ok"
  <2>1. gateways'[g] = Created
    BY <1>5, RowTypes, OnlyRowEffect DEF CreateGateway, OnlyRow, TypedParts
  <2>2. Begin(h, [Idle EXCEPT !.pc = "event", !.gateway = g, !.to = "provisioned"])
    BY <1>5 DEF CreateGateway
  <2>3. [Idle EXCEPT !.pc = "event", !.gateway = g, !.to = "provisioned"] \in AimedRequest
    <3>1. Idle \in Request
      BY IdleRequest DEF AimedRequest
    <3> QED BY <3>1 DEF AimedRequest, Aimed, Request, Steps, Lifecycles
  <2>4. /\ req' \in [Handlers -> AimedRequest] /\ Others(h) /\ req'[h].pc = "event"
        /\ req'[h].gateway = g /\ req'[h].new = None /\ req'[h].to = "provisioned"
    BY <2>2, <2>3 DEF Begin, Others, Idle, TypedParts
  <2> QED BY <1>1, <1>2, <1>4, <2>1, <2>4 DEF TypedParts, history
<1>6. CASE outcome # "ok"
  <2>1. req' = req
    BY <1>6 DEF CreateGateway
  <2> QED BY <1>1, <1>2, <1>4, <2>1 DEF TypedParts, history
<1> QED BY <1>5, <1>6

\* One event is appended, for the gateway of the request.
LEMMA RecordEventEffect ==
    ASSUME TypedParts, NEW h \in Handlers, NEW outcome \in Outcomes, RecordEvent(h, outcome)
    PROVE  LET g == req[h].gateway IN
           /\ TypedParts'
           /\ req[h].pc = "event" /\ Others(h)
           /\ \/ req'[h] = Idle
              \/ /\ req'[h].pc = "answer" /\ About(h) /\ req[h].to # "running"
                 /\ req'[h].new = req[h].new /\ req'[h].to = req[h].to
           /\ \A f \in Gateways : f # g => events'[f] = events[f]
           /\ \/ events'[g] = events[g]
              \/ events'[g] = Append(events[g], [from |-> req[h].from, to |-> req[h].to])
           /\ UNCHANGED <<gateways, etokens, shown, regist, held, issued, history>>
<1> DEFINE g == req[h].gateway
<1>1. UNCHANGED <<gateways, etokens, shown, regist, held, issued, history>> /\ req[h].pc = "event"
  BY DEF RecordEvent, known
<1>2. faults' \in 0 .. MaxFaults
  BY StoreCallType DEF RecordEvent, TypedParts
<1>3. g \in Gateways /\ req[h].from \in Lifecycles /\ req[h].to \in Lifecycles
  BY <1>1, ReqGateway DEF AimedRequest, Request
<1>4. \/ events' = events
      \/ events' = [events EXCEPT ![g] = Append(@, [from |-> req[h].from, to |-> req[h].to])]
  BY DEF RecordEvent
<1>5. events \in [Gateways -> Seq(Event)]
  BY DEF TypedParts
<1>6. /\ events' \in [Gateways -> Seq(Event)]
      /\ \A f \in Gateways : f # g => events'[f] = events[f]
      /\ \/ events'[g] = events[g]
         \/ events'[g] = Append(events[g], [from |-> req[h].from, to |-> req[h].to])
  <2> HIDE DEF g
  <2>1. [from |-> req[h].from, to |-> req[h].to] \in Event
    BY <1>3 DEF Event
  <2>2. Append(events[g], [from |-> req[h].from, to |-> req[h].to]) \in Seq(Event)
    BY <1>3, <1>5, <2>1
  <2> QED BY <1>3, <1>4, <1>5, <2>2
<1>7. Finish(h) \/ (Goto(h, "answer") /\ req[h].to # "running")
  BY DEF RecordEvent
<1>8. /\ req' \in [Handlers -> AimedRequest] /\ Others(h)
      /\ \/ req'[h] = Idle
         \/ /\ req'[h].pc = "answer" /\ About(h) /\ req[h].to # "running"
            /\ req'[h].new = req[h].new /\ req'[h].to = req[h].to
  BY <1>1, <1>7, FinishEffect, GotoEffect DEF TypedParts, Steps
<1> QED BY <1>1, <1>2, <1>6, <1>8 DEF TypedParts, history

\* A provisioning starts from a gateway read with its bootstrap token.
LEMMA ProvisionEffect ==
    ASSUME TypedParts, NEW h \in Handlers, NEW g \in Gateways, NEW i \in Identities, Provision(h, g, i)
    PROVE  /\ TypedParts'
           /\ req[h].pc = "idle" /\ gateways[g].boot /\ gateways[g].cred = None
           /\ Others(h) /\ req'[h].pc = "derive" /\ req'[h].gateway = g /\ req'[h].new = None
           /\ UNCHANGED <<store, known, issued, history>>
<1>1. Begin(h, [Idle EXCEPT !.pc = "derive", !.gateway = g, !.identity = i])
  BY DEF Provision
<1>2. [Idle EXCEPT !.pc = "derive", !.gateway = g, !.identity = i] \in AimedRequest
  <2>1. Idle \in Request
    BY IdleRequest DEF AimedRequest
  <2> QED BY <2>1 DEF AimedRequest, Aimed, Request, Steps
<1>3. /\ req' \in [Handlers -> AimedRequest] /\ Others(h) /\ req'[h].pc = "derive"
      /\ req'[h].gateway = g /\ req'[h].new = None
  BY <1>1, <1>2 DEF Begin, Others, Idle, TypedParts
<1> QED BY <1>3 DEF Provision, TypedParts, store, known, history

\* A RegistToken is added; the others stay.
LEMMA CreateEnrollmentTokenEffect ==
    ASSUME TypedParts, NEW h \in Handlers, NEW outcome \in Outcomes, CreateEnrollmentToken(h, outcome)
    PROVE  /\ TypedParts'
           /\ req[h].pc = "derive" /\ Others(h)
           /\ \/ req'[h] = Idle
              \/ req'[h].pc = "bootstrap" /\ About(h) /\ req'[h].new = req[h].new
           /\ \A n \in DOMAIN etokens : n \in DOMAIN etokens' /\ etokens'[n] = etokens[n]
           /\ UNCHANGED <<gateways, events, known, issued, history>>
<1>1. req[h].pc = "derive" /\ UNCHANGED <<gateways, events, known, issued, history>>
  BY DEF CreateEnrollmentToken
<1>2. faults' \in 0 .. MaxFaults
  BY StoreCallType DEF CreateEnrollmentToken, TypedParts
<1>3. /\ req' \in [Handlers -> AimedRequest] /\ Others(h)
      /\ \/ req'[h] = Idle
         \/ req'[h].pc = "bootstrap" /\ About(h) /\ req'[h].new = req[h].new
  <2>1. Finish(h) \/ Goto(h, "bootstrap")
    BY DEF CreateEnrollmentToken
  <2> QED BY <1>1, <2>1, FinishEffect, GotoEffect DEF TypedParts, Steps
<1> DEFINE t == [gateway |-> req[h].gateway, identity |-> req[h].identity,
                 used |-> 0, status |-> "active", valid |-> TRUE]
<1>4. t \in Token
  BY <1>1, ReqGateway DEF AimedRequest, Aimed, Token
<1>5. etokens' = etokens \/ etokens' = Append(etokens, t)
  BY DEF CreateEnrollmentToken
<1>6. /\ etokens' \in Seq(Token)
      /\ \A n \in DOMAIN etokens : n \in DOMAIN etokens' /\ etokens'[n] = etokens[n]
  <2> HIDE DEF t
  <2>1. etokens \in Seq(Token)
    BY DEF TypedParts
  <2> QED BY <1>4, <1>5, <2>1
<1> QED BY <1>1, <1>2, <1>3, <1>6 DEF TypedParts, known, history

\* The bootstrap token is taken; the provisioning goes on if that succeeded.
LEMMA ConsumeBootstrapEffect ==
    ASSUME TypedParts, NEW h \in Handlers, NEW outcome \in Outcomes, ConsumeBootstrap(h, outcome)
    PROVE  LET g == req[h].gateway
               i == req[h].identity
           IN
           /\ TypedParts'
           /\ req[h].pc = "bootstrap" /\ gateways[g].boot /\ gateways[g].life = "provisioned" /\ i \in Identities
           /\ Others(h) /\ RowsElse(g)
           /\ gateways'[g] = gateways[g] \/ Spent(g)
           /\ \A f \in Gateways : f # g => provisioned'[f] = provisioned[f]
           /\ \/ req'[h] = Idle /\ provisioned' = provisioned
              \/ /\ req'[h].pc = "mark" /\ About(h) /\ req'[h].new = req[h].new
                 /\ provisioned'[g] = Append(provisioned[g], i)
                 /\ Spent(g)
           /\ UNCHANGED <<etokens, events, known, issued, registrations, renewals>>
<1> DEFINE g == req[h].gateway
           i == req[h].identity
<1>1. /\ req[h].pc = "bootstrap" /\ gateways[g].boot /\ gateways[g].life = "provisioned"
      /\ UNCHANGED <<etokens, events, known, issued, registrations, renewals>>
  BY DEF ConsumeBootstrap, BootstrapConsumable
<1>2. faults' \in 0 .. MaxFaults
  BY StoreCallType DEF ConsumeBootstrap, TypedParts
<1>3. g \in Gateways /\ i \in Identities /\ WithoutBootstrap(gateways[g]) \in Row
  BY <1>1, ReqGateway, RowUpdates DEF AimedRequest, Aimed
<1>4. gateways' = gateways \/ OnlyRow(g, WithoutBootstrap(gateways[g]))
  BY DEF ConsumeBootstrap, OnlyRow
<1>5. /\ gateways' \in [Gateways -> Row] /\ RowsElse(g)
      /\ gateways'[g] = gateways[g] \/ gateways'[g] = WithoutBootstrap(gateways[g])
  BY <1>3, <1>4, OnlyRowEffect DEF TypedParts, RowsElse
<1>9. gateways'[g] = WithoutBootstrap(gateways[g]) => Spent(g)
  BY <1>1, ReqGateway DEF WithoutBootstrap, Row, Spent
<1>6. provisioned \in [Gateways -> Seq(Identities)] /\ req \in [Handlers -> AimedRequest]
  BY DEF TypedParts
<1>7. CASE outcome = "ok"
  <2>1. OnlyRow(g, WithoutBootstrap(gateways[g]))
    BY <1>7 DEF ConsumeBootstrap, OnlyRow
  <2>2. gateways'[g] = WithoutBootstrap(gateways[g])
    BY <1>3, <2>1, OnlyRowEffect DEF TypedParts
  <2>3. provisioned' = [provisioned EXCEPT ![g] = Append(@, i)] /\ Goto(h, "mark")
    BY <1>7 DEF ConsumeBootstrap
  <2>4. /\ provisioned' \in [Gateways -> Seq(Identities)]
        /\ provisioned'[g] = Append(provisioned[g], i)
        /\ \A f \in Gateways : f # g => provisioned'[f] = provisioned[f]
    <3> HIDE DEF g, i
    <3> QED BY <1>3, <1>6, <2>3
  <2>5. req' \in [Handlers -> AimedRequest] /\ Others(h) /\ req'[h].pc = "mark" /\ About(h)
        /\ req'[h].new = req[h].new
    BY <1>1, <1>6, <2>3, GotoEffect DEF Steps
  <2> QED BY <1>1, <1>2, <1>3, <1>5, <1>9, <2>2, <2>4, <2>5 DEF TypedParts, known
<1>8. CASE outcome # "ok"
  <2>1. provisioned' = provisioned /\ Finish(h)
    BY <1>8 DEF ConsumeBootstrap
  <2>2. req' \in [Handlers -> AimedRequest] /\ Others(h) /\ req'[h] = Idle
    BY <1>6, <2>1, FinishEffect
  <2> QED BY <1>1, <1>2, <1>3, <1>5, <1>9, <2>1, <2>2 DEF TypedParts, known
<1> QED BY <1>7, <1>8

\* A request given up
LEMMA GivenUpEffect ==
    ASSUME TypedParts, NEW h \in Handlers, BootstrapRefused(h) \/ IssueFails(h)
    PROVE  /\ TypedParts'
           /\ Others(h) /\ req'[h] = Idle
           /\ UNCHANGED <<store, known, issued, history>>
<1>1. Finish(h) /\ UNCHANGED <<store, known, issued, faults, history>>
  BY DEF BootstrapRefused, IssueFails
<1>2. req' \in [Handlers -> AimedRequest] /\ Others(h) /\ req'[h] = Idle
  BY <1>1, FinishEffect DEF TypedParts
<1> QED BY <1>1, <1>2 DEF TypedParts, store, known, history

\* A provisioned gateway becomes initializing; any other state stays.
LEMMA MarkInitializingEffect ==
    ASSUME TypedParts, NEW h \in Handlers, NEW outcome \in Outcomes, MarkInitializing(h, outcome)
    PROVE  LET g == req[h].gateway IN
           /\ TypedParts'
           /\ req[h].pc = "mark" /\ Others(h) /\ RowsElse(g)
           /\ \/ gateways'[g] = gateways[g]
              \/ gateways[g].life = "provisioned" /\ Moved(g, "initializing")
           /\ About(h) /\ req'[h].new = req[h].new
           /\ \/ req'[h].pc = "answer" /\ req'[h].to = req[h].to
              \/ /\ req'[h].pc = "event" /\ req'[h].to = "initializing"
                 /\ gateways[g].life = "provisioned"
                 /\ Moved(g, "initializing")
           /\ UNCHANGED <<etokens, events, known, issued, history>>
<1> DEFINE g == req[h].gateway
           row == [gateways[g] EXCEPT !.life = "initializing"]
<1>1. req[h].pc = "mark" /\ UNCHANGED <<etokens, events, known, issued, history>>
  BY DEF MarkInitializing
<1>2. faults' \in 0 .. MaxFaults
  BY StoreCallType DEF MarkInitializing, TypedParts
<1>3. g \in Gateways /\ row \in Row /\ gateways \in [Gateways -> Row] /\ req \in [Handlers -> AimedRequest]
  BY <1>1, ReqGateway, RowUpdates DEF Lifecycles, TypedParts
<1>4. gateways' = gateways \/ (gateways[g].life = "provisioned" /\ OnlyRow(g, row))
  BY DEF MarkInitializing, OnlyRow, Markable
<1>5. /\ gateways' \in [Gateways -> Row] /\ RowsElse(g)
      /\ gateways'[g] = gateways[g] \/ (gateways[g].life = "provisioned" /\ gateways'[g] = row)
  <2> HIDE DEF row, g
  <2> QED BY <1>3, <1>4, OnlyRowEffect DEF RowsElse
<1>8. gateways'[g] = row => Moved(g, "initializing")
  BY <1>1, ReqGateway DEF Row, Moved
<1>6. CASE outcome = "ok" /\ gateways[g].life = "provisioned"
  <2>1. OnlyRow(g, row)
    BY <1>6 DEF MarkInitializing, OnlyRow, Markable
  <2>2. gateways'[g] = row
    BY <1>3, <2>1, OnlyRowEffect
  <2>3. req' = [req EXCEPT ![h] = [req[h] EXCEPT !.pc = "event", !.from = "provisioned", !.to = "initializing"]]
    BY <1>6 DEF MarkInitializing, Markable
  <2>4. /\ req' \in [Handlers -> AimedRequest] /\ Others(h) /\ About(h)
        /\ req'[h].pc = "event" /\ req'[h].new = req[h].new /\ req'[h].to = "initializing"
    BY <1>1, <1>3, <2>3, EventEffect DEF Lifecycles
  <2> QED BY <1>1, <1>2, <1>3, <1>5, <1>8, <1>6, <2>2, <2>4 DEF TypedParts, known, history
<1>7. CASE ~(outcome = "ok" /\ gateways[g].life = "provisioned")
  <2>1. Goto(h, "answer")
    BY <1>7 DEF MarkInitializing, Markable, Goto
  <2>2. /\ req' \in [Handlers -> AimedRequest] /\ Others(h) /\ About(h)
        /\ req'[h].pc = "answer" /\ req'[h].new = req[h].new /\ req'[h].to = req[h].to
    BY <1>1, <1>3, <2>1, GotoEffect DEF Steps
  <2> QED BY <1>1, <1>2, <1>3, <1>5, <1>8, <2>2 DEF TypedParts, known, history
<1> QED BY <1>6, <1>7

\* Replacing an entry of the token list
LEMMA TokenReplaced ==
    ASSUME etokens \in Seq(Token), NEW n \in DOMAIN etokens, NEW t \in Token,
           etokens' = [etokens EXCEPT ![n] = t]
    PROVE  /\ etokens' \in Seq(Token) /\ DOMAIN etokens' = DOMAIN etokens
           /\ etokens'[n] = t
           /\ \A m \in DOMAIN etokens : m # n => etokens'[m] = etokens[m]
OBVIOUS

\* A used enrolment token is of its type.
LEMMA UsedToken ==
    ASSUME NEW token \in Token
    PROVE  [token EXCEPT !.used = 1, !.status = "exhausted"] \in Token
<1>1. \A u \in 0 .. 1, s \in {"active", "exhausted", "expired"} :
        [token EXCEPT !.used = u, !.status = s] \in Token
  BY DEF Token
<1>2. 1 \in 0 .. 1
  OBVIOUS
<1> QED BY <1>1, <1>2

\* A registration uses the enrolment token it presents.
LEMMA RegisterEffect ==
    ASSUME TypedParts, NEW h \in Handlers, NEW n \in DOMAIN etokens, NEW outcome \in Outcomes,
           Register(h, n, outcome)
    PROVE  LET g == etokens[n].gateway IN
           /\ TypedParts'
           /\ req[h].pc = "idle" /\ etokens[n].used = 0
           /\ g \in Gateways /\ etokens[n].identity \in regist[g]
           /\ DOMAIN etokens' = DOMAIN etokens
           /\ \A m \in DOMAIN etokens : m # n => etokens'[m] = etokens[m]
           /\ etokens'[n] = etokens[n] \/ etokens'[n].used = 1
           /\ \/ req' = req /\ registrations' = registrations
              \/ /\ Others(h) /\ req'[h].pc = "issue" /\ req'[h].gateway = g /\ req'[h].new = None
                 /\ registrations' = Append(registrations, n) /\ etokens'[n].used = 1
           /\ UNCHANGED <<gateways, events, known, issued, provisioned, renewals>>
<1> DEFINE g == etokens[n].gateway
           r == [Idle EXCEPT !.pc = "issue", !.gateway = g, !.identity = etokens[n].identity]
           t == [etokens[n] EXCEPT !.used = 1, !.status = "exhausted"]
<1>1. /\ req[h].pc = "idle" /\ etokens[n].identity \in regist[g]
      /\ UNCHANGED <<gateways, events, known, issued, provisioned, renewals>>
  BY DEF Register
<1>2. faults' \in 0 .. MaxFaults
  BY StoreCallType DEF Register, TypedParts
<1>3. etokens \in Seq(Token) /\ registrations \in Seq(Nat) /\ req \in [Handlers -> AimedRequest]
  BY DEF TypedParts
<1>4. etokens[n] \in Token /\ g \in Gateways /\ etokens[n].identity \in Identities /\ etokens[n].used = 0
      /\ n \in Nat
  <2>1. etokens[n] \in Token /\ n \in Nat
    BY <1>3
  <2>2. etokens[n].used < 1
    BY DEF Register, Consumable
  <2> QED BY <2>1, <2>2 DEF Token
<1>5. t \in Token /\ t.used = 1
  <2>1. t \in Token
    BY <1>4, UsedToken
  <2>2. t.used = 1
    BY <1>4 DEF Token
  <2> QED BY <2>1, <2>2
<1>6. r \in AimedRequest /\ r.pc = "issue" /\ r.gateway = g /\ r.new = None
  <2>1. Idle \in Request
    BY IdleRequest DEF AimedRequest
  <2> HIDE DEF g
  <2>2. r \in AimedRequest
    BY <1>4, <2>1 DEF AimedRequest, Aimed, Request, Steps
  <2>3. r.pc = "issue" /\ r.gateway = g /\ r.new = None
    BY DEF Idle
  <2> QED BY <2>2, <2>3
<1>7. /\ etokens' = etokens \/ etokens' = [etokens EXCEPT ![n] = t]
      /\ outcome = "ok" => etokens' = [etokens EXCEPT ![n] = t]
  <2>1. etokens[n].used + 1 = 1
    BY <1>4
  <2>2. [etokens EXCEPT ![n].used = etokens[n].used + 1, ![n].status = "exhausted"] = [etokens EXCEPT ![n] = t]
    BY <1>3, <1>4, <2>1
  <2>3. \/ outcome # "ok" /\ etokens' = etokens
        \/ etokens' = [etokens EXCEPT ![n].used = etokens[n].used + 1, ![n].status = "exhausted"]
    BY DEF Register
  <2> QED BY <2>2, <2>3
<1>8. outcome = "ok" => Begin(h, r) /\ registrations' = Append(registrations, n)
  BY DEF Register
<1>9. outcome # "ok" => req' = req /\ registrations' = registrations
  BY DEF Register
<1> HIDE DEF g, r, t
<1>10. /\ etokens' \in Seq(Token) /\ DOMAIN etokens' = DOMAIN etokens
       /\ \A m \in DOMAIN etokens : m # n => etokens'[m] = etokens[m]
       /\ etokens'[n] = etokens[n] \/ etokens'[n].used = 1
       /\ outcome = "ok" => etokens'[n].used = 1
  BY <1>3, <1>5, <1>7, TokenReplaced
<1>11. CASE outcome = "ok"
  <2>1. req' \in [Handlers -> AimedRequest] /\ Others(h) /\ req'[h].pc = "issue" /\ req'[h].gateway = g
        /\ req'[h].new = None
    BY <1>3, <1>6, <1>8, <1>11 DEF Begin, Others
  <2>2. registrations' \in Seq(Nat) /\ registrations' = Append(registrations, n)
    <3>1. Append(registrations, n) \in Seq(Nat)
      BY <1>3, <1>4
    <3> QED BY <3>1, <1>8, <1>11
  <2>3. TypedParts'
    BY <1>1, <1>2, <1>10, <2>1, <2>2 DEF TypedParts, known
  <2> QED BY <1>1, <1>4, <1>10, <1>11, <2>1, <2>2, <2>3 DEF g
<1>12. CASE outcome # "ok"
  BY <1>1, <1>2, <1>4, <1>9, <1>10, <1>12 DEF TypedParts, known, g
<1> QED BY <1>11, <1>12

\* A token is marked as refused, or expires.
LEMMA TokenOutEffect ==
    ASSUME TypedParts, NEW n \in DOMAIN etokens,
           (\E outcome \in Outcomes : RegisterRefused(n, outcome)) \/ ExpireToken(n)
    PROVE  /\ TypedParts'
           /\ DOMAIN etokens' = DOMAIN etokens
           /\ \A m \in DOMAIN etokens : etokens'[m].used = etokens[m].used
           /\ UNCHANGED <<gateways, events, req, known, issued, history>>
<1>1. UNCHANGED <<gateways, events, req, known, issued, history>>
  BY DEF RegisterRefused, ExpireToken
<1>2. faults' \in 0 .. MaxFaults
  BY StoreCallType DEF RegisterRefused, ExpireToken, TypedParts
<1>3. etokens \in Seq(Token) /\ etokens[n] \in Token
  BY DEF TypedParts
<1>4. PICK t \in Token : t.used = etokens[n].used /\ etokens' \in {etokens, [etokens EXCEPT ![n] = t]}
  <2> DEFINE expired == [etokens[n] EXCEPT !.status = "expired"]
             invalid == [etokens[n] EXCEPT !.valid = FALSE]
  <2>1. expired \in Token /\ expired.used = etokens[n].used /\ invalid \in Token /\ invalid.used = etokens[n].used
    BY <1>3 DEF Token
  <2>2. etokens' \in {etokens, [etokens EXCEPT ![n] = expired], [etokens EXCEPT ![n] = invalid]}
    BY DEF RegisterRefused, ExpireToken
  <2> HIDE DEF expired, invalid
  <2> QED BY <1>3, <2>1, <2>2
<1>5. /\ etokens' \in Seq(Token) /\ DOMAIN etokens' = DOMAIN etokens
      /\ \A m \in DOMAIN etokens : etokens'[m].used = etokens[m].used
  BY <1>3, <1>4
<1> QED BY <1>1, <1>2, <1>5 DEF TypedParts, known, history

\* The request is given a credential that was not issued before.
LEMMA IssueEffect ==
    ASSUME TypedParts, NEW h \in Handlers, Issue(h)
    PROVE  /\ TypedParts'
           /\ req[h].pc = "issue" /\ issued \in Nat /\ issued' = issued + 1
           /\ Others(h) /\ About(h)
           /\ req'[h].pc = "credential" /\ req'[h].new = issued + 1 /\ issued + 1 \in Nat \ {None}
           /\ UNCHANGED <<store, known, history>>
<1>1. req[h].pc = "issue" /\ issued < MaxCredentials /\ issued' = issued + 1 /\ UNCHANGED <<store, known, faults, history>>
  BY DEF Issue, FreshCredential
<1>2. issued \in 0 .. MaxCredentials /\ req \in [Handlers -> AimedRequest]
  BY DEF TypedParts
<1>3. issued + 1 \in Credentials /\ issued' \in 0 .. MaxCredentials /\ issued \in Nat /\ issued + 1 \in Nat \ {None}
  BY <1>1, <1>2, CenterBounds DEF Credentials, None
<1> DEFINE r == [req[h] EXCEPT !.pc = "credential", !.new = issued + 1]
<1>4. r \in AimedRequest
  BY <1>1, <1>2, <1>3, NextRequests
<1>5. /\ r.pc = "credential" /\ r.gateway = req[h].gateway /\ r.identity = req[h].identity
      /\ r.old = req[h].old /\ r.new = issued + 1
  BY <1>2 DEF AimedRequest, Request
<1>6. req' = [req EXCEPT ![h] = r]
  BY DEF Issue, FreshCredential
<1> HIDE DEF r
<1>7. /\ req' \in [Handlers -> AimedRequest] /\ Others(h) /\ About(h)
      /\ req'[h].pc = "credential" /\ req'[h].new = issued + 1
  BY <1>2, <1>4, <1>5, <1>6 DEF Others, About
<1> QED BY <1>1, <1>3, <1>7 DEF TypedParts, store, known, history

\* The credential of the request replaces whatever credential is stored.
LEMMA UpdateCredentialEffect ==
    ASSUME TypedParts, NEW h \in Handlers, NEW outcome \in Outcomes, UpdateCredential(h, outcome)
    PROVE  LET g == req[h].gateway IN
           /\ TypedParts'
           /\ req[h].pc = "credential" /\ req[h].new \in Credentials
           /\ Others(h) /\ RowsElse(g)
           /\ \/ gateways'[g] = gateways[g]
              \/ Credited(g, req[h].new)
           /\ \/ req'[h] = Idle
              \/ req'[h].pc = "answer" /\ About(h) /\ req'[h].new = req[h].new /\ req'[h].to = req[h].to
              \/ req'[h].pc = "mark" /\ About(h) /\ req'[h].new = req[h].new /\ req'[h].to = req[h].to
           /\ UNCHANGED <<etokens, events, known, issued, provisioned, registrations>>
<1> DEFINE g == req[h].gateway
           row == [gateways[g] EXCEPT !.cred = req[h].new, !.valid = TRUE]
<1>1. req[h].pc = "credential" /\ UNCHANGED <<etokens, events, known, issued, provisioned, registrations>>
  BY DEF UpdateCredential
<1>2. faults' \in 0 .. MaxFaults
  BY StoreCallType DEF UpdateCredential, TypedParts
<1>3. /\ gateways \in [Gateways -> Row] /\ req \in [Handlers -> AimedRequest] /\ g \in Gateways
      /\ req[h].new \in Credentials /\ req[h].old \in {None} \cup Credentials
  BY <1>1 DEF TypedParts, AimedRequest, Aimed, Request
<1>4. row \in Row
  BY <1>3, RowUpdates
<1>5. gateways' = gateways \/ OnlyRow(g, row)
  BY DEF UpdateCredential, OnlyRow
<1>6. /\ gateways' \in [Gateways -> Row] /\ RowsElse(g)
      /\ gateways'[g] = gateways[g] \/ gateways'[g] = row
  <2> HIDE DEF row, g
  <2> QED BY <1>3, <1>4, <1>5, OnlyRowEffect DEF RowsElse
<1>10. gateways'[g] = row => Credited(g, req[h].new)
  BY <1>1, ReqGateway DEF Row, Credited
<1>7. renewals' \subseteq [gateway : Gateways, old : Credentials, new : Credentials]
  <2>1. \/ renewals' = renewals
        \/ req[h].old # None /\ renewals' = renewals \cup {[gateway |-> g, old |-> req[h].old, new |-> req[h].new]}
    BY DEF UpdateCredential
  <2> QED BY <1>3, <2>1 DEF TypedParts
<1>8. Finish(h) \/ Goto(h, "answer") \/ Goto(h, "mark")
  BY DEF UpdateCredential
<1>9. /\ req' \in [Handlers -> AimedRequest] /\ Others(h)
      /\ \/ req'[h] = Idle
         \/ req'[h].pc = "answer" /\ About(h) /\ req'[h].new = req[h].new /\ req'[h].to = req[h].to
         \/ req'[h].pc = "mark" /\ About(h) /\ req'[h].new = req[h].new /\ req'[h].to = req[h].to
  BY <1>1, <1>3, <1>8, FinishEffect, GotoEffect DEF Steps
<1> QED BY <1>1, <1>2, <1>3, <1>6, <1>7, <1>9, <1>10 DEF TypedParts, known

\* A gateway renews its credential, or reports.
LEMMA GatewayCallEffect ==
    ASSUME TypedParts, NEW h \in Handlers, NEW g \in Gateways, NEW cred \in Credentials,
           Renew(h, g, cred) \/ SubmitStatus(h, g, cred)
    PROVE  /\ TypedParts'
           /\ req[h].pc = "idle" /\ gateways[g].cred \in Credentials
           /\ Others(h) /\ req'[h].pc \in {"issue", "status"} /\ req'[h].gateway = g /\ req'[h].new = None
           /\ UNCHANGED <<store, known, issued, history>>
<1>1. req[h].pc = "idle" /\ gateways[g].cred \in Credentials /\ UNCHANGED <<store, known, issued, faults, history>>
  BY DEF Renew, SubmitStatus, Authentic
<1> DEFINE renewal == [Idle EXCEPT !.pc = "issue", !.gateway = g, !.old = cred]
           report == [Idle EXCEPT !.pc = "status", !.gateway = g]
<1>2. renewal \in AimedRequest /\ report \in AimedRequest
  <2>1. Idle \in Request
    BY IdleRequest DEF AimedRequest
  <2> QED BY <2>1 DEF AimedRequest, Aimed, Request, Steps
<1>3. /\ renewal.pc = "issue" /\ renewal.gateway = g /\ renewal.new = None
      /\ report.pc = "status" /\ report.gateway = g /\ report.new = None
  BY DEF Idle
<1>4. Begin(h, renewal) \/ Begin(h, report)
  BY DEF Renew, SubmitStatus
<1> HIDE DEF renewal, report
<1>5. /\ req' \in [Handlers -> AimedRequest] /\ Others(h) /\ req'[h].pc \in {"issue", "status"}
      /\ req'[h].gateway = g /\ req'[h].new = None
  BY <1>2, <1>3, <1>4 DEF Begin, Others, TypedParts
<1> QED BY <1>1, <1>5 DEF TypedParts, store, known, history

\* A report makes the gateway running.
LEMMA UpsertStatusEffect ==
    ASSUME TypedParts, NEW h \in Handlers, NEW outcome \in Outcomes, UpsertStatus(h, outcome)
    PROVE  LET g == req[h].gateway IN
           /\ TypedParts'
           /\ req[h].pc = "status" /\ Others(h) /\ RowsElse(g)
           /\ gateways'[g] = gateways[g] \/ Moved(g, "running")
           /\ \/ req'[h] = Idle
              \/ /\ req'[h].pc = "event" /\ About(h) /\ req'[h].new = req[h].new /\ req'[h].to = "running"
                 /\ gateways[g].life # "running"
                 /\ Moved(g, "running")
           /\ UNCHANGED <<etokens, events, known, issued, history>>
<1> DEFINE g == req[h].gateway
           row == [gateways[g] EXCEPT !.life = "running"]
<1>1. req[h].pc = "status" /\ UNCHANGED <<etokens, events, known, issued, history>>
  BY DEF UpsertStatus
<1>2. faults' \in 0 .. MaxFaults
  BY StoreCallType DEF UpsertStatus, TypedParts
<1>3. /\ g \in Gateways /\ row \in Row /\ gateways[g].life \in Lifecycles
      /\ gateways \in [Gateways -> Row] /\ req \in [Handlers -> AimedRequest]
  BY <1>1, ReqGateway, RowUpdates DEF Lifecycles, TypedParts, Row
<1>4. gateways' = gateways \/ OnlyRow(g, row)
  BY DEF UpsertStatus, OnlyRow
<1>5. /\ gateways' \in [Gateways -> Row] /\ RowsElse(g)
      /\ gateways'[g] = gateways[g] \/ gateways'[g] = row
  <2> HIDE DEF row, g
  <2> QED BY <1>3, <1>4, OnlyRowEffect DEF RowsElse
<1>8. gateways'[g] = row => Moved(g, "running")
  BY <1>1, ReqGateway DEF Row, Moved
<1>6. CASE outcome = "ok" /\ gateways[g].life # "running"
  <2>1. OnlyRow(g, row)
    BY <1>6 DEF UpsertStatus, OnlyRow
  <2>2. gateways'[g] = row
    BY <1>3, <2>1, OnlyRowEffect
  <2>3. req' = [req EXCEPT ![h] = [req[h] EXCEPT !.pc = "event", !.from = gateways[g].life, !.to = "running"]]
    BY <1>6 DEF UpsertStatus
  <2>4. /\ req' \in [Handlers -> AimedRequest] /\ Others(h) /\ About(h)
        /\ req'[h].pc = "event" /\ req'[h].new = req[h].new /\ req'[h].to = "running"
    BY <1>1, <1>3, <2>3, EventEffect
  <2> QED BY <1>1, <1>2, <1>3, <1>5, <1>8, <1>6, <2>2, <2>4 DEF TypedParts, known, history
<1>7. CASE ~(outcome = "ok" /\ gateways[g].life # "running")
  <2>1. Finish(h)
    BY <1>7 DEF UpsertStatus
  <2>2. req' \in [Handlers -> AimedRequest] /\ Others(h) /\ req'[h] = Idle
    BY <1>3, <2>1, FinishEffect
  <2> QED BY <1>1, <1>2, <1>3, <1>5, <1>8, <2>2 DEF TypedParts, known, history
<1> QED BY <1>6, <1>7

\* An answer tells a gateway its RegistToken only if its provisioning was let
\* through, which is where the identity is known (Bootstrap).
LEMMA AnswerEffect ==
    ASSUME TypedParts, Bootstrap, NEW h \in Handlers, NEW delivered \in BOOLEAN, Answer(h, delivered)
    PROVE  LET g == req[h].gateway IN
           /\ TypedParts'
           /\ req[h].pc = "answer" /\ Others(h) /\ req'[h] = Idle
           /\ \A f \in Gateways : f # g => regist'[f] = regist[f] /\ held'[f] = held[f]
           /\ \/ regist'[g] = regist[g]
              \/ Granted(req[h]) /\ regist'[g] = regist[g] \cup {req[h].identity}
           /\ \/ held'[g] = held[g]
              \/ req[h].new # None /\ held'[g] = held[g] \cup {req[h].new}
           /\ UNCHANGED <<store, issued, history>>
<1> DEFINE g == req[h].gateway
<1>1. req[h].pc = "answer" /\ Finish(h) /\ UNCHANGED <<store, issued, faults, history>>
  BY DEF Answer
<1>2. req' \in [Handlers -> AimedRequest] /\ Others(h) /\ req'[h] = Idle
  BY <1>1, FinishEffect DEF TypedParts
<1>3. /\ g \in Gateways /\ (req[h].new # None => req[h].new \in Credentials)
      /\ shown \subseteq Gateways /\ regist \in [Gateways -> SUBSET Identities]
      /\ held \in [Gateways -> SUBSET Credentials]
  BY <1>1 DEF TypedParts, AimedRequest, Aimed, Request
<1>4. Granted(req[h]) => req[h].identity \in Identities
  <2>1. Granted(req[h]) => Provisioned(g, req[h].identity)
    BY DEF Bootstrap
  <2>2. provisioned[g] \in Seq(Identities)
    BY <1>3 DEF TypedParts
  <2> QED BY <2>1, <2>2 DEF Provisioned
<1>5. shown' \in {shown, shown \cup {g}}
  BY DEF Answer, known
<1>6. held' = held \/ (req[h].new # None /\ held' = [held EXCEPT ![g] = @ \cup {req[h].new}])
  BY DEF Answer, known
<1>7. \/ regist' = regist
      \/ Granted(req[h]) /\ regist' = [regist EXCEPT ![g] = @ \cup {req[h].identity}]
  BY <1>1 DEF Answer, known, Granted
<1>8. /\ shown' \subseteq Gateways
      /\ held' \in [Gateways -> SUBSET Credentials]
      /\ \A f \in Gateways : f # g => held'[f] = held[f]
      /\ held'[g] = held[g] \/ (req[h].new # None /\ held'[g] = held[g] \cup {req[h].new})
  <2> HIDE DEF g
  <2> QED BY <1>3, <1>5, <1>6
<1>9. /\ regist' \in [Gateways -> SUBSET Identities]
      /\ \A f \in Gateways : f # g => regist'[f] = regist[f]
      /\ regist'[g] = regist[g] \/ (Granted(req[h]) /\ regist'[g] = regist[g] \cup {req[h].identity})
  <2> HIDE DEF g
  <2> QED BY <1>3, <1>4, <1>7
<1> QED BY <1>1, <1>2, <1>8, <1>9 DEF TypedParts, store, history

\* A restart drops the requests and nothing else.
LEMMA RestartEffect ==
    ASSUME TypedParts, Restart
    PROVE  /\ TypedParts'
           /\ \A h \in Handlers : req'[h] = Idle
           /\ UNCHANGED <<store, known, issued, history>>
BY IdleRequest DEF Restart, TypedParts, store, known, history

\* An expired credential stays stored.
LEMMA ExpireCredentialEffect ==
    ASSUME TypedParts, NEW g \in Gateways, ExpireCredential(g)
    PROVE  /\ TypedParts'
           /\ RowsElse(g) /\ Still(g) /\ gateways[g].cred # None
           /\ UNCHANGED <<etokens, events, req, known, issued, history>>
<1>1. OnlyRow(g, [gateways[g] EXCEPT !.valid = FALSE])
  BY DEF ExpireCredential, OnlyRow
<1>2. [gateways[g] EXCEPT !.valid = FALSE] \in Row /\ gateways \in [Gateways -> Row]
  BY RowUpdates DEF TypedParts
<1>3. /\ gateways' \in [Gateways -> Row] /\ RowsElse(g)
      /\ gateways'[g] = [gateways[g] EXCEPT !.valid = FALSE]
  BY <1>1, <1>2, OnlyRowEffect
<1>4. Still(g)
  BY <1>2, <1>3 DEF Row, Still
<1> QED BY <1>3, <1>4 DEF ExpireCredential, TypedParts, known, history

-----------------------------------------------------------------------------
(* The types are kept *)

\* Every step keeps the types.
LEMMA TypedStep == ASSUME Typed, Bootstrap, Next PROVE Typed'
<1>1. TypedParts
  BY TypedIsParts
<1>2. TypedParts'
  BY <1>1, CreateGatewayEffect, RecordEventEffect, ProvisionEffect, CreateEnrollmentTokenEffect,
     ConsumeBootstrapEffect, GivenUpEffect, MarkInitializingEffect, RegisterEffect, TokenOutEffect,
     IssueEffect, UpdateCredentialEffect, GatewayCallEffect, UpsertStatusEffect, AnswerEffect,
     RestartEffect, ExpireCredentialEffect
  DEF Next, HandlerStep
<1>3. TypedParts' => Typed'
  BY TypedIsParts, PTL
<1> QED BY <1>2, <1>3

-----------------------------------------------------------------------------
(* What a step does to a row, to a request and to the histories *)

\* A credential is not None, and neither is what is counted.
LEMMA NotNone == None \notin Credentials /\ None \notin Nat
BY DEF None, Credentials

\* The fields of the constant rows and of an idle request
LEMMA RowFields ==
    /\ Created.stored /\ Created.boot /\ Created.cred = None /\ Created.life = "provisioned"
    /\ ~Unknown.stored /\ ~Unknown.boot /\ Unknown.cred = None /\ Unknown.life = "none"
    /\ Idle.pc = "idle" /\ Idle.new = None
BY DEF Created, Unknown, Idle

Working(h, pc, g) == req[h].pc = pc /\ req[h].gateway = g

RowMove(g) ==
    \/ gateways'[g] = gateways[g]
    \/ gateways[g].cred # None /\ Still(g)
    \/ ~gateways[g].stored /\ gateways'[g] = Created
    \/ gateways[g].boot /\ gateways[g].life = "provisioned" /\ Spent(g)
    \/ \E h \in Handlers : Working(h, "mark", g) /\ gateways[g].life = "provisioned" /\ Moved(g, "initializing")
    \/ \E h \in Handlers : Working(h, "credential", g) /\ Credited(g, req[h].new)
    \/ \E h \in Handlers : Working(h, "status", g) /\ Moved(g, "running")

\* A request that comes in for a gateway that was read
Arrives(k, g) ==
    /\ req[k].pc = "idle" /\ g \in Gateways /\ req'[k].new = None
    /\ \/ /\ req'[k].pc = "event" /\ req'[k].to = "provisioned"
          /\ ~gateways[g].stored /\ gateways'[g] = Created
       \/ req'[k].pc = "derive" /\ gateways[g].boot
       \/ req'[k].pc = "issue" /\ (gateways[g].cred # None \/ regist[g] # {})
       \/ req'[k].pc = "status" /\ gateways[g].cred # None

\* A request that goes on, for the same gateway and identity
GoesOn(k, g) ==
    /\ About(k) /\ req'[k].new = req[k].new
    /\ \/ req[k].pc = "event" /\ req[k].to # "running" /\ req'[k].pc = "answer" /\ req'[k].to = req[k].to
       \/ req[k].pc = "derive" /\ req'[k].pc = "bootstrap"
       \/ /\ req[k].pc = "bootstrap" /\ req'[k].pc = "mark"
          /\ provisioned'[g] = Append(provisioned[g], req[k].identity) /\ Spent(g)
       \/ req[k].pc = "mark" /\ req'[k].pc = "answer" /\ req'[k].to = req[k].to
       \/ /\ req[k].pc = "mark" /\ req'[k].pc = "event" /\ req'[k].to = "initializing"
          /\ gateways[g].life = "provisioned" /\ Moved(g, "initializing")
       \/ req[k].pc = "credential" /\ req'[k].pc \in {"answer", "mark"} /\ req'[k].to = req[k].to
       \/ /\ req[k].pc = "status" /\ req'[k].pc = "event" /\ req'[k].to = "running"
          /\ gateways[g].life # "running" /\ Moved(g, "running")

GetsCredential(k) ==
    /\ req[k].pc = "issue" /\ req'[k].pc = "credential" /\ About(k)
    /\ issued' = issued + 1 /\ req'[k].new = issued + 1

ReqMove(k) ==
    \/ req'[k] = req[k]
    \/ req'[k] = Idle
    \/ Arrives(k, req'[k].gateway)
    \/ GoesOn(k, req[k].gateway)
    \/ GetsCredential(k)

\* Every step changes a row in one of these ways.
LEMMA RowStep == ASSUME Typed, Bootstrap, Next, NEW g \in Gateways PROVE RowMove(g)
<1> USE DEF RowMove, RowsElse, Working
<1>1. TypedParts
  BY TypedIsParts
<1>2. ASSUME NEW h \in Handlers, NEW f \in Gateways, NEW outcome \in Outcomes, CreateGateway(h, f, outcome)
      PROVE  RowMove(g)
  BY <1>1, <1>2, CreateGatewayEffect
<1>3. ASSUME NEW h \in Handlers, NEW outcome \in Outcomes, ConsumeBootstrap(h, outcome) PROVE RowMove(g)
  BY <1>1, <1>3, ConsumeBootstrapEffect
<1>4. ASSUME NEW h \in Handlers, NEW outcome \in Outcomes, MarkInitializing(h, outcome) PROVE RowMove(g)
  BY <1>1, <1>4, MarkInitializingEffect
<1>5. ASSUME NEW h \in Handlers, NEW outcome \in Outcomes, UpdateCredential(h, outcome) PROVE RowMove(g)
  BY <1>1, <1>5, UpdateCredentialEffect
<1>6. ASSUME NEW h \in Handlers, NEW outcome \in Outcomes, UpsertStatus(h, outcome) PROVE RowMove(g)
  BY <1>1, <1>6, UpsertStatusEffect
<1>7. ASSUME NEW f \in Gateways, ExpireCredential(f) PROVE RowMove(g)
  BY <1>1, <1>7, ExpireCredentialEffect
<1>8. ASSUME UNCHANGED gateways PROVE RowMove(g)
  BY <1>8
<1>9. ASSUME NEW h \in Handlers,
             \/ \E outcome \in Outcomes : RecordEvent(h, outcome) \/ CreateEnrollmentToken(h, outcome)
             \/ BootstrapRefused(h) \/ Issue(h) \/ IssueFails(h)
             \/ \E delivered \in BOOLEAN : Answer(h, delivered)
      PROVE  UNCHANGED gateways
  BY <1>9 DEF RecordEvent, CreateEnrollmentToken, BootstrapRefused, Issue, IssueFails, Answer, store
<1>10. ASSUME \/ \E h \in Handlers, f \in Gateways, i \in Identities : Provision(h, f, i)
              \/ \E h \in Handlers, n \in DOMAIN etokens, outcome \in Outcomes : Register(h, n, outcome)
              \/ \E n \in DOMAIN etokens, outcome \in Outcomes : RegisterRefused(n, outcome)
              \/ \E h \in Handlers, f \in Gateways, cred \in Credentials :
                    Renew(h, f, cred) \/ SubmitStatus(h, f, cred)
              \/ \E n \in DOMAIN etokens : ExpireToken(n)
              \/ Restart
       PROVE  UNCHANGED gateways
  BY <1>10 DEF Provision, Register, RegisterRefused, Renew, SubmitStatus, ExpireToken, Restart, store
<1> HIDE DEF RowMove
<1> QED BY <1>2, <1>3, <1>4, <1>5, <1>6, <1>7, <1>8, <1>9, <1>10 DEF Next, HandlerStep

\* Every step moves a request in one of these ways.
LEMMA ReqStep == ASSUME Typed, Bootstrap, Next, NEW k \in Handlers PROVE ReqMove(k)
<1> USE DEF Others
<1>1. TypedParts
  BY TypedIsParts
<1>2. ASSUME NEW h \in Handlers, NEW g \in Gateways, NEW outcome \in Outcomes, CreateGateway(h, g, outcome)
      PROVE  ReqMove(k)
  BY <1>1, <1>2, CreateGatewayEffect DEF ReqMove, Arrives
<1>3. ASSUME NEW h \in Handlers, NEW g \in Gateways, NEW i \in Identities, Provision(h, g, i)
      PROVE  ReqMove(k)
  BY <1>1, <1>3, ProvisionEffect DEF ReqMove, Arrives
<1>4. ASSUME NEW h \in Handlers, NEW n \in DOMAIN etokens, NEW outcome \in Outcomes, Register(h, n, outcome)
      PROVE  ReqMove(k)
  BY <1>1, <1>4, RegisterEffect DEF ReqMove, Arrives
<1>5. ASSUME NEW h \in Handlers, NEW g \in Gateways, NEW cred \in Credentials,
             Renew(h, g, cred) \/ SubmitStatus(h, g, cred)
      PROVE  ReqMove(k)
  BY <1>1, <1>5, GatewayCallEffect, NotNone DEF ReqMove, Arrives
<1>6. ASSUME NEW h \in Handlers, NEW outcome \in Outcomes, RecordEvent(h, outcome) PROVE ReqMove(k)
  BY <1>1, <1>6, RecordEventEffect DEF ReqMove, GoesOn
<1>7. ASSUME NEW h \in Handlers, NEW outcome \in Outcomes, CreateEnrollmentToken(h, outcome)
      PROVE  ReqMove(k)
  BY <1>1, <1>7, CreateEnrollmentTokenEffect DEF ReqMove, GoesOn
<1>8. ASSUME NEW h \in Handlers, NEW outcome \in Outcomes, ConsumeBootstrap(h, outcome) PROVE ReqMove(k)
  BY <1>1, <1>8, ConsumeBootstrapEffect DEF ReqMove, GoesOn
<1>9. ASSUME NEW h \in Handlers, NEW outcome \in Outcomes, MarkInitializing(h, outcome) PROVE ReqMove(k)
  BY <1>1, <1>9, MarkInitializingEffect DEF ReqMove, GoesOn
<1>10. ASSUME NEW h \in Handlers, NEW outcome \in Outcomes, UpdateCredential(h, outcome) PROVE ReqMove(k)
  BY <1>1, <1>10, UpdateCredentialEffect DEF ReqMove, GoesOn
<1>11. ASSUME NEW h \in Handlers, NEW outcome \in Outcomes, UpsertStatus(h, outcome) PROVE ReqMove(k)
  BY <1>1, <1>11, UpsertStatusEffect DEF ReqMove, GoesOn
<1>12. ASSUME NEW h \in Handlers, Issue(h) PROVE ReqMove(k)
  BY <1>1, <1>12, IssueEffect DEF ReqMove, GetsCredential
<1>13. ASSUME NEW h \in Handlers, \/ BootstrapRefused(h) \/ IssueFails(h)
                                  \/ \E delivered \in BOOLEAN : Answer(h, delivered)
       PROVE  ReqMove(k)
  BY <1>1, <1>13, GivenUpEffect, AnswerEffect DEF ReqMove
<1>14. ASSUME \/ \E n \in DOMAIN etokens, outcome \in Outcomes : RegisterRefused(n, outcome)
              \/ \E n \in DOMAIN etokens : ExpireToken(n)
              \/ \E g \in Gateways : ExpireCredential(g)
              \/ Restart
       PROVE  ReqMove(k)
  BY <1>1, <1>14, TokenOutEffect, ExpireCredentialEffect, RestartEffect DEF ReqMove
<1> QED BY <1>2, <1>3, <1>4, <1>5, <1>6, <1>7, <1>8, <1>9, <1>10, <1>11, <1>12, <1>13, <1>14
        DEF Next, HandlerStep

\* But for a restart, a step is one of a single request.
LEMMA AloneStep ==
    ASSUME Typed, Bootstrap, Next
    PROVE  (\E h \in Handlers : Others(h)) \/ UNCHANGED req \/ \A h \in Handlers : req'[h] = Idle
<1>1. TypedParts
  BY TypedIsParts
<1>2. ASSUME \E h \in Handlers : HandlerStep(h) PROVE \E h \in Handlers : Others(h)
  BY <1>1, <1>2, RecordEventEffect, CreateEnrollmentTokenEffect, ConsumeBootstrapEffect,
     MarkInitializingEffect, UpdateCredentialEffect, UpsertStatusEffect, GivenUpEffect,
     IssueEffect, AnswerEffect DEF HandlerStep
<1> QED BY <1>1, <1>2, CreateGatewayEffect, ProvisionEffect, RegisterEffect, TokenOutEffect,
           GatewayCallEffect, RestartEffect, ExpireCredentialEffect DEF Next, Others

\* An event is recorded by the request that is about to record it.
LEMMA EventsStep ==
    ASSUME Typed, Bootstrap, Next, NEW g \in Gateways
    PROVE  \/ events'[g] = events[g]
           \/ \E h \in Handlers :
                /\ Working(h, "event", g) /\ req'[h].pc # "event" /\ Others(h) /\ UNCHANGED gateways
                /\ events'[g] = Append(events[g], [from |-> req[h].from, to |-> req[h].to])
<1>1. TypedParts
  BY TypedIsParts
<1>2. ASSUME NEW h \in Handlers, NEW outcome \in Outcomes, RecordEvent(h, outcome)
      PROVE  \/ events'[g] = events[g]
             \/ /\ Working(h, "event", g) /\ req'[h].pc # "event" /\ Others(h) /\ UNCHANGED gateways
                /\ events'[g] = Append(events[g], [from |-> req[h].from, to |-> req[h].to])
  BY <1>1, <1>2, RecordEventEffect, RowFields DEF Working
<1>3. \/ \E h \in Handlers, outcome \in Outcomes : RecordEvent(h, outcome)
      \/ UNCHANGED events
  BY <1>1, CreateGatewayEffect, ProvisionEffect, CreateEnrollmentTokenEffect, ConsumeBootstrapEffect,
     GivenUpEffect, MarkInitializingEffect, RegisterEffect, TokenOutEffect, IssueEffect,
     UpdateCredentialEffect, GatewayCallEffect, UpsertStatusEffect, AnswerEffect, RestartEffect,
     ExpireCredentialEffect DEF Next, HandlerStep, store
<1> QED BY <1>2, <1>3

\* A provisioning is let through by taking the bootstrap token.
LEMMA ProvisionedStep ==
    ASSUME Typed, Bootstrap, Next, NEW g \in Gateways
    PROVE  \/ provisioned'[g] = provisioned[g]
           \/ \E h \in Handlers :
                /\ Working(h, "bootstrap", g) /\ gateways[g].boot /\ Spent(g) /\ req[h].identity \in Identities
                /\ provisioned'[g] = Append(provisioned[g], req[h].identity)
<1>1. TypedParts
  BY TypedIsParts
<1>2. ASSUME NEW h \in Handlers, NEW outcome \in Outcomes, ConsumeBootstrap(h, outcome)
      PROVE  \/ provisioned'[g] = provisioned[g]
             \/ /\ Working(h, "bootstrap", g) /\ gateways[g].boot /\ Spent(g) /\ req[h].identity \in Identities
                /\ provisioned'[g] = Append(provisioned[g], req[h].identity)
  BY <1>1, <1>2, ConsumeBootstrapEffect DEF Working
<1>3. \/ \E h \in Handlers, outcome \in Outcomes : ConsumeBootstrap(h, outcome)
      \/ UNCHANGED provisioned
  BY <1>1, CreateGatewayEffect, RecordEventEffect, ProvisionEffect, CreateEnrollmentTokenEffect,
     GivenUpEffect, MarkInitializingEffect, RegisterEffect, TokenOutEffect, IssueEffect,
     UpdateCredentialEffect, GatewayCallEffect, UpsertStatusEffect, AnswerEffect, RestartEffect,
     ExpireCredentialEffect DEF Next, HandlerStep, history
<1> QED BY <1>2, <1>3

\* What a gateway was sent is an answer to a request for it.
LEMMA KnownStep ==
    ASSUME Typed, Bootstrap, Next, NEW g \in Gateways
    PROVE  \/ regist'[g] = regist[g] /\ held'[g] = held[g]
           \/ \E h \in Handlers :
                /\ Working(h, "answer", g) /\ req'[h] = Idle /\ Others(h) /\ UNCHANGED <<issued, provisioned>>
                /\ \/ regist'[g] = regist[g]
                   \/ Granted(req[h]) /\ regist'[g] = regist[g] \cup {req[h].identity}
                /\ \/ held'[g] = held[g]
                   \/ req[h].new # None /\ held'[g] = held[g] \cup {req[h].new}
<1>1. TypedParts
  BY TypedIsParts
<1>2. ASSUME NEW h \in Handlers, NEW delivered \in BOOLEAN, Answer(h, delivered)
      PROVE  \/ regist'[g] = regist[g] /\ held'[g] = held[g]
             \/ /\ Working(h, "answer", g) /\ req'[h] = Idle /\ Others(h) /\ UNCHANGED <<issued, provisioned>>
                /\ \/ regist'[g] = regist[g]
                   \/ Granted(req[h]) /\ regist'[g] = regist[g] \cup {req[h].identity}
                /\ \/ held'[g] = held[g]
                   \/ req[h].new # None /\ held'[g] = held[g] \cup {req[h].new}
  BY <1>1, <1>2, AnswerEffect DEF Working, history
<1>3. \/ \E h \in Handlers, delivered \in BOOLEAN : Answer(h, delivered)
      \/ UNCHANGED <<regist, held>>
  BY <1>1, CreateGatewayEffect, RecordEventEffect, ProvisionEffect, CreateEnrollmentTokenEffect,
     ConsumeBootstrapEffect, GivenUpEffect, MarkInitializingEffect, RegisterEffect, TokenOutEffect,
     IssueEffect, UpdateCredentialEffect, GatewayCallEffect, UpsertStatusEffect, RestartEffect,
     ExpireCredentialEffect DEF Next, HandlerStep, known
<1> QED BY <1>2, <1>3

\* Credentials are numbered one by one.
LEMMA IssuedStep ==
    ASSUME Typed, Bootstrap, Next
    PROVE  /\ issued \in Nat
           /\ \/ UNCHANGED issued
              \/ issued' = issued + 1
<1>1. TypedParts
  BY TypedIsParts
<1>2. issued \in Nat
  BY <1>1, CenterBounds DEF TypedParts
<1>3. \/ UNCHANGED issued
      \/ issued' = issued + 1
  BY <1>1, CreateGatewayEffect, RecordEventEffect, ProvisionEffect, CreateEnrollmentTokenEffect,
     ConsumeBootstrapEffect, GivenUpEffect, MarkInitializingEffect, RegisterEffect, TokenOutEffect,
     IssueEffect, UpdateCredentialEffect, GatewayCallEffect, UpsertStatusEffect, AnswerEffect,
     RestartEffect, ExpireCredentialEffect DEF Next, HandlerStep
<1> QED BY <1>2, <1>3

\* Tokens stay stored, used ones stay used, and a registration uses one.
LEMMA TokensStep ==
    ASSUME Typed, Bootstrap, Next
    PROVE  /\ \A n \in DOMAIN etokens :
                n \in DOMAIN etokens' /\ (etokens'[n].used = etokens[n].used \/ etokens'[n].used = 1)
           /\ \/ UNCHANGED registrations
              \/ \E n \in DOMAIN etokens :
                    /\ etokens[n].used = 0 /\ etokens'[n].used = 1
                    /\ registrations' = Append(registrations, n)
<1>1. TypedParts
  BY TypedIsParts
<1>2. ASSUME NEW h \in Handlers, NEW n \in DOMAIN etokens, NEW outcome \in Outcomes, Register(h, n, outcome)
      PROVE  /\ \A m \in DOMAIN etokens :
                    m \in DOMAIN etokens' /\ (etokens'[m].used = etokens[m].used \/ etokens'[m].used = 1)
             /\ \/ UNCHANGED registrations
                \/ /\ etokens[n].used = 0 /\ etokens'[n].used = 1
                   /\ registrations' = Append(registrations, n)
  BY <1>1, <1>2, RegisterEffect
<1>3. ASSUME NEW h \in Handlers, NEW outcome \in Outcomes, CreateEnrollmentToken(h, outcome)
      PROVE  /\ \A m \in DOMAIN etokens : m \in DOMAIN etokens' /\ etokens'[m].used = etokens[m].used
             /\ UNCHANGED registrations
  BY <1>1, <1>3, CreateEnrollmentTokenEffect DEF history
<1>4. ASSUME NEW n \in DOMAIN etokens,
             (\E outcome \in Outcomes : RegisterRefused(n, outcome)) \/ ExpireToken(n)
      PROVE  /\ \A m \in DOMAIN etokens : m \in DOMAIN etokens' /\ etokens'[m].used = etokens[m].used
             /\ UNCHANGED registrations
  BY <1>1, <1>4, TokenOutEffect DEF history
<1>5. \/ \E h \in Handlers, n \in DOMAIN etokens, outcome \in Outcomes : Register(h, n, outcome)
      \/ \E h \in Handlers, outcome \in Outcomes : CreateEnrollmentToken(h, outcome)
      \/ \E n \in DOMAIN etokens : (\E outcome \in Outcomes : RegisterRefused(n, outcome)) \/ ExpireToken(n)
      \/ UNCHANGED <<etokens, registrations>>
  BY <1>1, CreateGatewayEffect, RecordEventEffect, ProvisionEffect, ConsumeBootstrapEffect,
     GivenUpEffect, MarkInitializingEffect, IssueEffect, UpdateCredentialEffect, GatewayCallEffect,
     UpsertStatusEffect, AnswerEffect, RestartEffect, ExpireCredentialEffect
  DEF Next, HandlerStep, history, store
<1> QED BY <1>2, <1>3, <1>4, <1>5

-----------------------------------------------------------------------------
(* Each part of the invariant is kept *)

\* A stored gateway stays stored, and requests are about stored gateways.
LEMMA PlacedStep == ASSUME Typed, Bootstrap, Backed, Placed, Next PROVE Placed'
<1>1. TypedParts
  BY TypedIsParts
<1>2. ASSUME NEW g \in Gateways PROVE gateways[g].stored => gateways'[g].stored
  BY <1>2, RowStep, RowFields DEF RowMove, Still, Spent, Moved, Credited
<1>3. ASSUME NEW g \in Gateways, ~gateways'[g].stored PROVE gateways'[g] = Unknown
  <2>1. ~gateways[g].stored /\ gateways[g] = Unknown
    BY <1>2, <1>3 DEF Placed
  <2> QED BY <1>3, <2>1, RowStep, RowFields DEF RowMove, Working, Placed, Spent
<1>4. ASSUME NEW g \in Gateways, gateways[g].boot \/ gateways[g].cred # None \/ regist[g] # {}
      PROVE  gateways'[g].stored
  <2>1. regist[g] # {} => provisioned[g] # <<>>
    <3>1. provisioned[g] \in Seq(Identities)
      BY <1>1 DEF TypedParts
    <3> QED BY <3>1 DEF Bootstrap, BootstrapOnce
  <2> QED BY <1>2, <1>4, <2>1, RowFields DEF Placed, Bootstrap
<1>5. ASSUME NEW k \in Handlers, req'[k].pc # "idle" PROVE gateways'[req'[k].gateway].stored
  <2>1. ReqMove(k)
    BY ReqStep
  <2>2. CASE Arrives(k, req'[k].gateway)
    BY <1>4, <2>2, RowFields DEF Arrives
  <2>3. CASE req'[k] = req[k] \/ GoesOn(k, req[k].gateway) \/ GetsCredential(k)
    <3>1. req[k].pc # "idle" /\ req'[k].gateway = req[k].gateway
      BY <1>5, <2>3 DEF GoesOn, GetsCredential, About
    <3> QED BY <1>1, <1>2, <3>1, ReqGateway DEF Placed
  <2> QED BY <1>5, <2>1, <2>2, <2>3, RowFields DEF ReqMove
<1> QED BY <1>3, <1>5 DEF Placed

\* A token is presented again only if it was not used.
LEMMA TokensUsedUpStep == ASSUME Typed, Bootstrap, TokensUsedUp, Next PROVE TokensUsedUp'
<1>1. registrations \in Seq(Nat)
  BY DEF Typed, TypeOK
<1>2. CASE UNCHANGED registrations
  BY <1>2, TokensStep DEF TokensUsedUp, EnrollmentTokenUsedOnce
<1>3. CASE \E n \in DOMAIN etokens : /\ etokens[n].used = 0 /\ etokens'[n].used = 1
                                     /\ registrations' = Append(registrations, n)
  <2>1. PICK n \in DOMAIN etokens : /\ etokens[n].used = 0 /\ etokens'[n].used = 1
                                    /\ registrations' = Append(registrations, n)
    BY <1>3
  <2>2. /\ DOMAIN registrations = 1 .. Len(registrations) /\ Len(registrations) \in Nat
        /\ DOMAIN registrations' = 1 .. Len(registrations) + 1
        /\ registrations'[Len(registrations) + 1] = n
        /\ \A m \in DOMAIN registrations : registrations'[m] = registrations[m]
    BY <1>1, <2>1
  <2>3. \A m \in DOMAIN registrations : registrations[m] # n
    BY <2>1 DEF TokensUsedUp
  <2>4. EnrollmentTokenUsedOnce'
    BY <2>2, <2>3 DEF TokensUsedUp, EnrollmentTokenUsedOnce
  <2>5. \A m \in DOMAIN registrations' :
            registrations'[m] \in DOMAIN etokens' /\ etokens'[registrations'[m]].used = 1
    <3>1. \A m \in DOMAIN registrations' : m = Len(registrations) + 1 \/ m \in DOMAIN registrations
      BY <2>2
    <3>2. n \in DOMAIN etokens' /\ etokens'[n].used = 1
      BY <2>1, TokensStep
    <3>3. \A m \in DOMAIN registrations :
            registrations[m] \in DOMAIN etokens' /\ etokens'[registrations[m]].used = 1
      BY TokensStep DEF TokensUsedUp
    <3> QED BY <2>2, <3>1, <3>2, <3>3
  <2> QED BY <2>4, <2>5 DEF TokensUsedUp
<1> QED BY <1>2, <1>3, TokensStep

\* Sequences that grow by one element
LEMMA Appended ==
    ASSUME NEW S, NEW s \in Seq(S), NEW e \in S, NEW t, t = Append(s, e)
    PROVE  /\ s \in Seq(S) /\ t \in Seq(S) /\ t # <<>>
           /\ DOMAIN s = 1 .. Len(s) /\ Len(s) \in Nat /\ Len(t) = Len(s) + 1
           /\ DOMAIN t = DOMAIN s \cup {Len(s) + 1} /\ Len(s) + 1 \notin DOMAIN s
           /\ t[Len(s) + 1] = e
           /\ \A n \in DOMAIN s : t[n] = s[n]
OBVIOUS

\* A second provisioning finds no bootstrap token.
LEMMA BootstrapStep == ASSUME Typed, Placed, Bootstrap, Backed, Next PROVE Bootstrap'
<1>1. TypedParts
  BY TypedIsParts
<1>2. ASSUME NEW g \in Gateways, NEW i, Provisioned(g, i) PROVE Provisioned(g, i)'
  <2>1. CASE provisioned'[g] = provisioned[g]
    BY <1>2, <2>1 DEF Provisioned
  <2>2. CASE \E h \in Handlers : /\ req[h].identity \in Identities
                                 /\ provisioned'[g] = Append(provisioned[g], req[h].identity)
    <3>1. provisioned[g] \in Seq(Identities)
      BY <1>1 DEF TypedParts
    <3> QED BY <1>2, <2>2, <3>1, Appended DEF Provisioned
  <2> QED BY <2>1, <2>2, ProvisionedStep
<1>3. ASSUME NEW g \in Gateways
      PROVE  /\ Len(provisioned'[g]) <= 1
             /\ provisioned'[g] # <<>> => gateways'[g].stored /\ ~gateways'[g].boot
  <2>1. CASE provisioned'[g] = provisioned[g]
    <3>1. Len(provisioned'[g]) <= 1
      BY <2>1 DEF Bootstrap, BootstrapOnce
    <3>2. gateways[g].stored /\ ~gateways[g].boot => gateways'[g].stored /\ ~gateways'[g].boot
      BY RowStep, RowFields DEF RowMove, Still, Spent, Moved, Credited
    <3> QED BY <2>1, <3>1, <3>2 DEF Bootstrap
  <2>2. CASE \E h \in Handlers :
                /\ Working(h, "bootstrap", g) /\ gateways[g].boot /\ Spent(g) /\ req[h].identity \in Identities
                /\ provisioned'[g] = Append(provisioned[g], req[h].identity)
    <3>1. gateways[g].boot /\ Spent(g)
      BY <2>2
    <3>2. gateways[g].stored
      BY <3>1, RowFields DEF Placed
    <3>3. provisioned[g] = <<>>
      BY <3>1 DEF Bootstrap
    <3>4. Len(provisioned'[g]) = 1
      BY <2>2, <3>3
    <3> QED BY <3>1, <3>2, <3>4 DEF Spent
  <2> QED BY <2>1, <2>2, ProvisionedStep
<1>4. ASSUME NEW k \in Handlers, Granted(req[k])' PROVE Provisioned(req[k].gateway, req[k].identity)'
  <2>1. CASE Granted(req[k]) /\ req[k].pc # "idle" /\ req'[k].gateway = req[k].gateway
             /\ req'[k].identity = req[k].identity
    <3>1. Provisioned(req[k].gateway, req[k].identity) /\ req[k].gateway \in Gateways
      BY <1>1, <2>1, ReqGateway DEF Bootstrap
    <3>3. \E n \in DOMAIN provisioned'[req[k].gateway] : provisioned'[req[k].gateway][n] = req[k].identity
      BY <1>2, <3>1 DEF Provisioned
    <3> QED BY <2>1, <3>3 DEF Provisioned
  <2>2. CASE GoesOn(k, req[k].gateway) /\ req[k].pc = "bootstrap"
    <3>1. /\ req[k].gateway \in Gateways /\ req[k].identity \in Identities
          /\ provisioned'[req[k].gateway] = Append(provisioned[req[k].gateway], req[k].identity)
          /\ provisioned[req[k].gateway] \in Seq(Identities)
      <4>1. req[k].gateway \in Gateways /\ Aimed(req[k])
        BY <1>1, <2>2, ReqGateway DEF AimedRequest
      <4>2. req'[k].pc = "mark"
        BY <1>4, <2>2, RowFields DEF GoesOn, Granted
      <4> QED BY <1>1, <2>2, <4>1 DEF GoesOn, Aimed, TypedParts
    <3>2. \E n \in DOMAIN provisioned'[req[k].gateway] : provisioned'[req[k].gateway][n] = req[k].identity
      <4> DEFINE p == provisioned[req[k].gateway]
                 q == provisioned'[req[k].gateway]
      <4>1. p \in Seq(Identities) /\ q = Append(p, req[k].identity) /\ req[k].identity \in Identities
        BY <3>1
      <4> HIDE DEF p, q
      <4>2. Len(p) + 1 \in DOMAIN q /\ q[Len(p) + 1] = req[k].identity
        BY <4>1, Appended
      <4>3. \E n \in DOMAIN q : q[n] = req[k].identity
        BY <4>2
      <4> QED BY <4>3 DEF q
    <3> QED BY <2>2, <3>2 DEF Provisioned, GoesOn, About
  <2>3. \/ Granted(req[k]) /\ req[k].pc # "idle" /\ req'[k].gateway = req[k].gateway
             /\ req'[k].identity = req[k].identity
        \/ GoesOn(k, req[k].gateway) /\ req[k].pc = "bootstrap"
    <3>1. ~GetsCredential(k) /\ ~Arrives(k, req'[k].gateway) /\ req'[k] # Idle
      BY <1>4, RowFields DEF Granted, GetsCredential, Arrives
    <3>2. CASE req'[k] = req[k]
      BY <1>4, <3>2 DEF Granted
    <3>3. CASE GoesOn(k, req[k].gateway)
      <4>1. req[k].pc = "credential" => req[k].new # None
        BY <1>1, NotNone DEF TypedParts, AimedRequest, Aimed
      <4>2. req[k].pc = "event" => req[k].to \in {"provisioned", "initializing", "running"}
        BY <1>1 DEF TypedParts, AimedRequest, Aimed
      <4> QED BY <1>4, <3>3, <4>1, <4>2 DEF GoesOn, Granted, About
    <3> QED BY <3>1, <3>2, <3>3, ReqStep DEF ReqMove
  <2> QED BY <2>1, <2>2, <2>3
<1>5. ASSUME NEW g \in Gateways, NEW i \in regist'[g] PROVE Provisioned(g, i)'
  <2>1. CASE i \in regist[g]
    BY <1>2, <2>1 DEF Bootstrap, BootstrapOnce, Provisioned
  <2>2. CASE \E h \in Handlers : Working(h, "answer", g) /\ Granted(req[h]) /\ i = req[h].identity
    BY <1>2, <2>2 DEF Bootstrap, Working
  <2> QED BY <2>1, <2>2, KnownStep
<1>6. BootstrapOnce'
  BY <1>3, <1>5 DEF BootstrapOnce, Provisioned
<1> QED BY <1>3, <1>4, <1>6 DEF Bootstrap

\* A step that relies on the bootstrap token being gone, or on a credential
\* being there, still finds it so.
LEMMA BackedStep == ASSUME Typed, Placed, Bootstrap, Backed, Next PROVE Backed'
<1>1. TypedParts
  BY TypedIsParts
<1>2. ASSUME NEW h \in Handlers, NEW g \in Gateways, Working(h, "credential", g)
      PROVE  req[h].new # None /\ ~gateways[g].boot
  BY <1>1, <1>2, NotNone DEF Working, Backed, TypedParts, AimedRequest, Aimed
<1>3. ASSUME NEW g \in Gateways
      PROVE  /\ gateways'[g].life = "initializing" \/ gateways'[g].cred # None => ~gateways'[g].boot
             /\ gateways'[g].life = "running" => gateways'[g].cred # None
             /\ ~gateways[g].boot /\ gateways[g].stored => ~gateways'[g].boot
             /\ gateways[g].cred # None => gateways'[g].cred # None
  <2>1. /\ gateways[g].life = "initializing" \/ gateways[g].cred # None => ~gateways[g].boot
        /\ gateways[g].life = "running" => gateways[g].cred # None
        /\ ~gateways[g].stored => gateways[g].cred = None
    BY RowFields DEF Backed, LifecycleFollowsTokens, Placed
  <2>2. CASE gateways'[g] = gateways[g] \/ Still(g) \/ Spent(g)
    BY <2>1, <2>2 DEF Still, Spent
  <2>3. CASE ~gateways[g].stored /\ gateways'[g] = Created
    BY <2>1, <2>3, RowFields
  <2>4. CASE \E h \in Handlers : Working(h, "mark", g) /\ Moved(g, "initializing")
    BY <2>1, <2>4 DEF Moved, Working, Backed
  <2>5. CASE \E h \in Handlers : Working(h, "credential", g) /\ Credited(g, req[h].new)
    BY <1>2, <2>1, <2>5 DEF Credited
  <2>6. CASE \E h \in Handlers : Working(h, "status", g) /\ Moved(g, "running")
    BY <2>1, <2>6 DEF Moved, Working, Backed
  <2> QED BY <2>2, <2>3, <2>4, <2>5, <2>6, RowStep DEF RowMove
<1>4. ASSUME NEW k \in Handlers
      PROVE  /\ req'[k].pc \in {"mark", "issue", "credential"} => ~gateways'[req'[k].gateway].boot
             /\ req'[k].pc = "status" => gateways'[req'[k].gateway].cred # None
  <2>1. ASSUME req[k].pc # "idle" PROVE req[k].gateway \in Gateways /\ gateways[req[k].gateway].stored
    BY <1>1, <2>1, ReqGateway DEF Placed
  <2>2. CASE req'[k] = req[k]
    BY <1>3, <2>1, <2>2 DEF Backed
  <2>3. CASE Arrives(k, req'[k].gateway)
    <3> DEFINE g == req'[k].gateway
    <3>1. g \in Gateways /\ (req'[k].pc = "issue" => gateways[g].cred # None \/ regist[g] # {})
          /\ (req'[k].pc = "status" => gateways[g].cred # None)
          /\ req'[k].pc \notin {"mark", "credential"}
      BY <2>3 DEF Arrives
    <3>2. regist[g] # {} => ~gateways[g].boot /\ gateways[g].stored
      <4>1. provisioned[g] \in Seq(Identities)
        BY <1>1, <3>1 DEF TypedParts
      <4> QED BY <3>1, <4>1 DEF Bootstrap, BootstrapOnce
    <3>3. gateways[g].cred # None => ~gateways[g].boot /\ gateways[g].stored
      BY <3>1, RowFields DEF Backed, LifecycleFollowsTokens, Placed
    <3> QED BY <1>3, <3>1, <3>2, <3>3
  <2>4. CASE GoesOn(k, req[k].gateway)
    <3>1. /\ req[k].pc # "idle" /\ req'[k].gateway = req[k].gateway
          /\ req'[k].pc \notin {"issue", "credential", "status"}
          /\ req'[k].pc = "mark" => Spent(req[k].gateway) \/ req[k].pc = "credential"
      BY <2>4 DEF GoesOn, About
    <3> QED BY <1>3, <2>1, <3>1 DEF Backed, Spent
  <2>5. CASE GetsCredential(k)
    BY <1>3, <2>1, <2>5 DEF GetsCredential, About, Backed
  <2> QED BY <2>2, <2>3, <2>4, <2>5, ReqStep, RowFields DEF ReqMove
<1> QED BY <1>3, <1>4 DEF Backed, LifecycleFollowsTokens

\* The lifecycle states in their order
LEMMA Ranks ==
    /\ Rank["none"] = 0 /\ Rank["provisioned"] = 1 /\ Rank["initializing"] = 2 /\ Rank["running"] = 3
    /\ \A l \in Lifecycles : Rank[l] \in 0 .. 3 /\ (Rank[l] = 3 => l = "running")
BY DEF Rank, Lifecycles

\* The lifecycle does not move back.
LEMMA LifeStep ==
    ASSUME Typed, Placed, Bootstrap, Next, NEW g \in Gateways
    PROVE  /\ Rank[gateways[g].life] \in 0 .. 3 /\ Rank[gateways'[g].life] \in 0 .. 3
           /\ Rank[gateways[g].life] <= Rank[gateways'[g].life]
<1>1. gateways[g].life \in Lifecycles
  BY DEF Typed, TypeOK, Lifecycles
<1>2. ~gateways[g].stored => gateways[g].life = "none"
  BY RowFields DEF Placed
<1>3. \/ gateways'[g].life = gateways[g].life
      \/ gateways[g].life = "none" /\ gateways'[g].life = "provisioned"
      \/ gateways[g].life = "provisioned" /\ gateways'[g].life = "initializing"
      \/ gateways'[g].life = "running"
  BY <1>2, RowStep, RowFields DEF RowMove, Still, Spent, Moved, Credited
<1>4. gateways'[g].life \in Lifecycles
  BY <1>1, <1>3 DEF Lifecycles
<1> QED BY <1>1, <1>3, <1>4, Ranks

\* An event that becomes due is for a state the step itself reached.
LEMMA EventDue ==
    ASSUME Typed, Placed, Bootstrap, Next, NEW k \in Handlers, req'[k].pc = "event", req'[k] # req[k]
    PROVE  LET g == req'[k].gateway IN
           /\ g \in Gateways
           /\ Rank[gateways[g].life] < Rank[req'[k].to]
           /\ Rank[req'[k].to] <= Rank[gateways'[g].life]
<1> DEFINE g == req'[k].gateway
<1>1. CASE Arrives(k, g)
  <2>1. g \in Gateways /\ gateways'[g] = Created /\ req'[k].to = "provisioned" /\ ~gateways[g].stored
    BY <1>1 DEF Arrives
  <2>2. gateways[g].life = "none"
    BY <2>1, RowFields DEF Placed
  <2> QED BY <2>1, <2>2, RowFields, Ranks
<1>2. CASE GoesOn(k, req[k].gateway)
  <2>1. g = req[k].gateway /\ req[k].pc # "idle"
    BY <1>2 DEF GoesOn, About
  <2>2. g \in Gateways /\ gateways[g].life \in Lifecycles
    BY <2>1, TypedIsParts, ReqGateway DEF Row
  <2>3. \/ /\ req'[k].to = "initializing" /\ gateways[g].life = "provisioned"
           /\ gateways'[g].life = "initializing"
        \/ req'[k].to = "running" /\ gateways[g].life # "running" /\ gateways'[g].life = "running"
    BY <1>2, <2>1 DEF GoesOn, Moved
  <2> QED BY <2>2, <2>3, Ranks
<1>3. ~GetsCredential(k) /\ req'[k] # Idle
  BY RowFields DEF GetsCredential
<1> QED BY <1>1, <1>2, <1>3, ReqStep DEF ReqMove

\* A new event is for a higher state than all that are recorded or due.
LEMMA EventsReachedStep == ASSUME Typed, Placed, Bootstrap, EventsReached, Next PROVE EventsReached'
<1>1. TypedParts
  BY TypedIsParts
<1>2. ASSUME NEW h \in Handlers, req[h].pc = "event"
      PROVE  /\ req[h].gateway \in Gateways /\ req[h].to \in Lifecycles \ {"none"}
             /\ Rank[req[h].to] <= Rank[gateways[req[h].gateway].life]
             /\ \A n \in DOMAIN events[req[h].gateway] : events[req[h].gateway][n].to # req[h].to
             /\ \A j \in Handlers : Pending(j, req[h].gateway, req[h].to) => j = h
  <2>1. req[h].gateway \in Gateways /\ req[h].to \in Lifecycles \ {"none"}
    BY <1>1, <1>2 DEF TypedParts, AimedRequest, Aimed, Request, Lifecycles
  <2> QED BY <1>2, <2>1 DEF EventsReached, RecordedEvent
<1>3. ASSUME NEW g \in Gateways
      PROVE  /\ \A n, m \in DOMAIN events'[g] : events'[g][n].to = events'[g][m].to => n = m
             /\ \A n \in DOMAIN events'[g] :
                    Rank[events'[g][n].to] <= Rank[gateways'[g].life] /\ events'[g][n].to # "none"
  <2>1. CASE events'[g] = events[g]
    <3>1. events[g] \in Seq(Event)
      BY <1>1 DEF TypedParts
    <3>2. \A n \in DOMAIN events[g] : Rank[events[g][n].to] \in 0 .. 3
      <4>1. \A n \in DOMAIN events[g] : events[g][n] \in Event
        BY <3>1
      <4>2. \A e \in Event : e.to \in Lifecycles
        BY DEF Event
      <4> QED BY <4>1, <4>2, Ranks
    <3> QED BY <2>1, <3>2, LifeStep DEF EventsReached, EventsDistinct
  <2>2. CASE \E h \in Handlers :
                /\ Working(h, "event", g) /\ UNCHANGED gateways
                /\ events'[g] = Append(events[g], [from |-> req[h].from, to |-> req[h].to])
    <3>1. PICK h \in Handlers :
                /\ Working(h, "event", g) /\ UNCHANGED gateways
                /\ events'[g] = Append(events[g], [from |-> req[h].from, to |-> req[h].to])
      BY <2>2
    <3> DEFINE e == [from |-> req[h].from, to |-> req[h].to]
    <3>2. e \in Event /\ events[g] \in Seq(Event)
      BY <1>1 DEF TypedParts, Event, AimedRequest, Request
    <3>3. e.to = req[h].to
      OBVIOUS
    <3> HIDE DEF e
    <3>4. /\ DOMAIN events'[g] = DOMAIN events[g] \cup {Len(events[g]) + 1}
          /\ events'[g][Len(events[g]) + 1] = e
          /\ \A n \in DOMAIN events[g] : events'[g][n] = events[g][n]
      BY <3>1, <3>2, Appended DEF e
    <3>5. /\ e.to # "none" /\ Rank[e.to] <= Rank[gateways[g].life]
          /\ \A n \in DOMAIN events[g] : events[g][n].to # e.to
      BY <1>2, <3>1, <3>3 DEF Working
    <3> QED BY <3>1, <3>4, <3>5 DEF EventsReached, EventsDistinct
  <2> QED BY <2>1, <2>2, EventsStep
<1>4. ASSUME NEW k \in Handlers, req'[k].pc = "event"
      PROVE  /\ Rank[req'[k].to] <= Rank[gateways'[req'[k].gateway].life]
             /\ \A n \in DOMAIN events'[req'[k].gateway] : events'[req'[k].gateway][n].to # req'[k].to
             /\ \A j \in Handlers : /\ req'[j].pc = "event" /\ req'[j].gateway = req'[k].gateway
                                    /\ req'[j].to = req'[k].to
                                    => j = k
  <2> DEFINE g == req'[k].gateway
             to == req'[k].to
  <2>1. /\ g \in Gateways /\ Rank[to] \in 0 .. 3 /\ Rank[to] <= Rank[gateways'[g].life]
        /\ \A n \in DOMAIN events[g] : events[g][n].to # to
        /\ \A j \in Handlers : Pending(j, g, to) => j = k
    <3>1. CASE req'[k] = req[k]
      BY <1>2, <1>4, <3>1, LifeStep, Ranks
    <3>2. CASE req'[k] # req[k]
      <4>1. /\ g \in Gateways /\ Rank[gateways[g].life] < Rank[to] /\ Rank[to] <= Rank[gateways'[g].life]
        BY <1>4, <3>2, EventDue
      <4>2. to \in Lifecycles
        <5>1. TypedParts'
          BY TypedStep, TypedIsParts, PTL
        <5> QED BY <5>1 DEF TypedParts, AimedRequest, Request
      <4>3. \A n \in DOMAIN events[g] : events[g][n].to # to
        BY <4>1, <4>2, LifeStep, Ranks DEF EventsReached
      <4>4. \A j \in Handlers : ~Pending(j, g, to)
        BY <1>2, <4>1, <4>2, LifeStep, Ranks DEF Pending
      <4> QED BY <4>1, <4>2, <4>3, <4>4, Ranks
    <3> QED BY <3>1, <3>2
  <2>2. ASSUME NEW h \in Handlers, Working(h, "event", g), req'[h].pc # "event"
        PROVE  req[h].to # to
    BY <1>4, <2>1, <2>2 DEF Working, Pending
  <2>3. \A n \in DOMAIN events'[g] : events'[g][n].to # to
    <3>1. CASE events'[g] = events[g]
      BY <2>1, <3>1
    <3>2. CASE \E h \in Handlers :
                  /\ Working(h, "event", g) /\ req'[h].pc # "event"
                  /\ events'[g] = Append(events[g], [from |-> req[h].from, to |-> req[h].to])
      <4>1. PICK h \in Handlers :
                  /\ Working(h, "event", g) /\ req'[h].pc # "event"
                  /\ events'[g] = Append(events[g], [from |-> req[h].from, to |-> req[h].to])
        BY <3>2
      <4> DEFINE e == [from |-> req[h].from, to |-> req[h].to]
      <4>2. e \in Event /\ events[g] \in Seq(Event)
        BY <1>1, <2>1 DEF TypedParts, Event, AimedRequest, Request
      <4>3. e.to = req[h].to
        OBVIOUS
      <4> HIDE DEF e
      <4>4. /\ DOMAIN events'[g] = DOMAIN events[g] \cup {Len(events[g]) + 1}
            /\ events'[g][Len(events[g]) + 1] = e
            /\ \A n \in DOMAIN events[g] : events'[g][n] = events[g][n]
        <5>1. events'[g] = Append(events[g], e)
          BY <4>1 DEF e
        <5> HIDE DEF g
        <5> QED BY <4>2, <5>1, Appended
      <4>5. e.to # to
        BY <2>2, <4>1, <4>3
      <4> QED BY <2>1, <4>4, <4>5
    <3> QED BY <2>1, <3>1, <3>2, EventsStep
  <2>4. ASSUME NEW j \in Handlers, req'[j].pc = "event", req'[j].gateway = g, req'[j].to = to, j # k
        PROVE  FALSE
    <3>1. CASE req'[j] = req[j]
      BY <2>1, <2>4, <3>1 DEF Pending
    <3>2. CASE req'[j] # req[j] /\ req'[k] = req[k]
      <4>1. Rank[gateways[g].life] < Rank[to]
        BY <2>4, <3>2, EventDue
      <4>2. Rank[to] <= Rank[gateways[g].life]
        BY <1>2, <1>4, <3>2
      <4> QED BY <2>1, <4>1, <4>2, LifeStep
    <3>3. CASE req'[j] # req[j] /\ req'[k] # req[k]
      BY <1>4, <2>4, <3>3, AloneStep, RowFields DEF Others
    <3> QED BY <3>1, <3>2, <3>3
  <2> QED BY <2>1, <2>3, <2>4
<1>5. EventsDistinct'
  BY <1>3 DEF EventsDistinct
<1> QED BY <1>3, <1>4, <1>5 DEF EventsReached, Pending, RecordedEvent

\* A credential is sent only after it is stored, and only by its request.
LEMMA FreshStep == ASSUME Typed, Placed, Bootstrap, Fresh, Next PROVE Fresh'
<1>1. TypedParts
  BY TypedIsParts
<1>2. /\ issued \in Nat /\ issued' \in Nat /\ issued <= issued'
      /\ \A g \in Gateways : held[g] \subseteq Nat
  BY <1>1, IssuedStep DEF TypedParts, Credentials
<1>3. ASSUME NEW k \in Handlers
      PROVE  \/ req'[k].new = req[k].new /\ (req'[k].pc = "credential" => req[k].pc = "credential")
             \/ req'[k].new = None /\ req'[k].pc # "credential"
             \/ GetsCredential(k) /\ req'[k] # req[k]
  BY ReqStep, RowFields DEF ReqMove, Arrives, GoesOn, GetsCredential
<1>4. ASSUME NEW g \in Gateways, NEW c \in held'[g]
      PROVE  \/ c \in held[g]
             \/ \E h \in Handlers : req[h].pc = "answer" /\ req[h].new # None /\ c = req[h].new /\ req'[h] = Idle
  BY <1>4, KnownStep DEF Working
<1>5. \A g \in Gateways : \A c \in held'[g] : c \in Nat /\ c <= issued
  BY <1>2, <1>4 DEF Fresh
<1>6. \A k \in Handlers : req'[k].new # None => req'[k].new \in 1 .. issued'
  BY <1>2, <1>3 DEF Fresh, GetsCredential
<1>7. ASSUME NEW k \in Handlers, req'[k].pc = "credential", NEW g \in Gateways PROVE req'[k].new \notin held'[g]
  <2>1. CASE GetsCredential(k)
    BY <1>2, <1>5, <2>1 DEF GetsCredential
  <2>2. CASE req'[k].new = req[k].new /\ req[k].pc = "credential"
    <3>1. req[k].new \notin held[g]
      BY <2>2 DEF Fresh
    <3>2. \A h \in Handlers : req[h].pc = "answer" /\ req[h].new # None => req[h].new # req[k].new
      BY <2>2 DEF Fresh
    <3> QED BY <1>4, <2>2, <3>1, <3>2
  <2> QED BY <1>3, <1>7, <2>1, <2>2
<1>8. ASSUME NEW h \in Handlers, NEW k \in Handlers, h # k, req'[h].new # None
      PROVE  req'[h].new # req'[k].new
  <2>1. ~(GetsCredential(h) /\ GetsCredential(k) /\ req'[h] # req[h] /\ req'[k] # req[k])
    BY <1>8, AloneStep, RowFields DEF Others, GetsCredential
  <2>2. /\ req[h].new # None => req[h].new \in Nat /\ req[h].new <= issued
        /\ req[k].new # None => req[k].new \in Nat /\ req[k].new <= issued
        /\ req[h].new # None => req[h].new # req[k].new
        /\ None # issued + 1
    BY <1>2, <1>8, NotNone DEF Fresh
  <2> QED BY <1>2, <1>3, <1>8, <2>1, <2>2 DEF GetsCredential
<1> QED BY <1>2, <1>5, <1>6, <1>7, <1>8 DEF Fresh

\* A gateway that was sent a RegistToken, or has a credential, still has.
LEMMA SanctionedStep ==
    ASSUME Typed, Placed, Bootstrap, Sanctioned, Next
    PROVE  Sanctioned'
<1>1. TypedParts
  BY TypedIsParts
<1>2. ASSUME NEW h \in Handlers, NEW g \in Gateways, Working(h, "credential", g)
      PROVE  req[h].new # None
  BY <1>1, <1>2, NotNone DEF Working, TypedParts, AimedRequest, Aimed
<1>3. ASSUME NEW g \in Gateways, gateways[g].cred # None PROVE gateways'[g].cred # None
  <2>1. gateways[g].stored
    BY <1>3, RowFields DEF Placed
  <2> QED BY <1>2, <1>3, <2>1, RowStep DEF RowMove, Still, Spent, Moved, Credited
<1>4. ASSUME NEW g \in Gateways, regist[g] # {} PROVE regist'[g] # {}
  BY <1>4, KnownStep
<1>5. ASSUME NEW k \in Handlers, req'[k].pc \in {"issue", "credential"}
      PROVE  regist'[req'[k].gateway] # {} \/ gateways'[req'[k].gateway].cred # None
  <2>1. CASE req'[k] = req[k]
    <3>1. req[k].gateway \in Gateways
      BY <1>1, <1>5, <2>1, ReqGateway
    <3> QED BY <1>3, <1>4, <1>5, <2>1, <3>1 DEF Sanctioned
  <2>2. CASE Arrives(k, req'[k].gateway)
    <3>1. req'[k].gateway \in Gateways
          /\ (gateways[req'[k].gateway].cred # None \/ regist[req'[k].gateway] # {})
      BY <1>5, <2>2 DEF Arrives
    <3> QED BY <1>3, <1>4, <3>1
  <2>3. CASE GetsCredential(k)
    <3>1. req[k].pc = "issue" /\ req'[k].gateway = req[k].gateway
      BY <2>3 DEF GetsCredential, About
    <3>2. req[k].gateway \in Gateways
      BY <1>1, <3>1, ReqGateway
    <3> QED BY <1>3, <1>4, <3>1, <3>2 DEF Sanctioned
  <2>4. ~GoesOn(k, req[k].gateway) /\ req'[k] # Idle
    BY <1>5, RowFields DEF GoesOn
  <2> QED BY <2>1, <2>2, <2>3, <2>4, ReqStep DEF ReqMove
<1> QED BY <1>5 DEF Sanctioned

-----------------------------------------------------------------------------
(* The invariant *)

\* The invariant holds at first.
LEMMA InitInv == Init => Inv
<1> SUFFICES ASSUME Init PROVE Inv
  OBVIOUS
<1>1. PICK seeds \in SUBSET Gateways : Seeded(seeds)
  BY DEF Init
<1>2. /\ etokens = <<>> /\ registrations = <<>>
      /\ \A h \in Handlers : req[h] = Idle
      /\ \A g \in Gateways : events[g] = <<>> /\ provisioned[g] = <<>> /\ regist[g] = {}
  BY DEF Init
<1>3. ASSUME NEW g \in Gateways
      PROVE  /\ ~gateways[g].boot /\ gateways[g].life = "none"
             /\ ~gateways[g].stored => gateways[g] = Unknown
             /\ held[g] \subseteq {0}
  BY <1>1 DEF Seeded, Unknown, Seed
<1>4. Typed
  BY TypedInit
<1>5. Placed
  BY <1>2, <1>3, RowFields DEF Placed
<1>6. Bootstrap
  BY <1>2, RowFields DEF Bootstrap, BootstrapOnce, Granted
<1>7. TokensUsedUp
  BY <1>2 DEF TokensUsedUp, EnrollmentTokenUsedOnce
<1>8. Backed
  BY <1>2, <1>3, RowFields DEF Backed, LifecycleFollowsTokens
<1>9. EventsReached
  BY <1>2, RowFields DEF EventsReached, EventsDistinct
<1>10. Fresh
  BY <1>2, <1>3, RowFields DEF Fresh, Init
<1>11. Sanctioned
  BY <1>2, RowFields DEF Sanctioned
<1> QED BY <1>4, <1>5, <1>6, <1>7, <1>8, <1>9, <1>10, <1>11 DEF Inv

\* A step that changes nothing keeps the invariant.
LEMMA Stutter == ASSUME Inv, UNCHANGED vars PROVE Inv'
<1>1. UNCHANGED <<gateways, etokens, events, req, shown, regist, held, issued, faults,
                  provisioned, registrations, renewals>>
  BY DEF vars, store, known, history
<1>2. Typed'
  BY <1>1 DEF Inv, Typed, TypeOK, Aimed
<1>3. Placed' /\ Backed'
  BY <1>1 DEF Inv, Placed, Backed, LifecycleFollowsTokens
<1>4. Bootstrap'
  BY <1>1 DEF Inv, Bootstrap, BootstrapOnce, Granted, Provisioned
<1>5. TokensUsedUp'
  BY <1>1 DEF Inv, TokensUsedUp, EnrollmentTokenUsedOnce
<1>6. EventsReached'
  BY <1>1 DEF Inv, EventsReached, EventsDistinct, RecordedEvent, Pending
<1>7. Fresh' /\ Sanctioned'
  BY <1>1 DEF Inv, Fresh, Sanctioned
<1> QED BY <1>2, <1>3, <1>4, <1>5, <1>6, <1>7 DEF Inv

\* Every reachable state satisfies the invariant.
THEOREM InvHolds == Spec => []Inv
<1>1. Init => Inv
  BY InitInv
<1>2. Inv /\ [Next]_vars => Inv'
  <2>1. Inv /\ Next => Inv'
    BY TypedStep, PlacedStep, BootstrapStep, TokensUsedUpStep, BackedStep, EventsReachedStep, FreshStep,
       SanctionedStep
    DEF Inv
  <2> QED BY <2>1, Stutter
<1> QED BY <1>1, <1>2, PTL DEF Spec

-----------------------------------------------------------------------------
(* What it shows *)

\* Everything stored, sent and in progress is of its type.
THEOREM TypeCorrect == Spec => []TypeOK
<1>1. Inv => TypeOK
  BY DEF Inv, Typed
<1> QED BY <1>1, InvHolds, PTL

\* The bootstrap token lets one provisioning through, whatever the number of
\* requests that all read it as unconsumed, and a gateway is sent a RegistToken
\* for the identity of that provisioning only (get_gateway_initial_config).
THEOREM BootstrapLetsOneThrough == Spec => []BootstrapOnce
<1>1. Inv => BootstrapOnce
  BY DEF Inv, Bootstrap
<1> QED BY <1>1, InvHolds, PTL

\* A stored RegistToken lets one registration through, whatever requests
\* present it together and whichever store calls fail
\* (consume_enrollment_token).
THEOREM RegistTokenUsedOnce == Spec => []EnrollmentTokenUsedOnce
<1>1. Inv => EnrollmentTokenUsedOnce
  BY DEF Inv, TokensUsedUp
<1> QED BY <1>1, InvHolds, PTL

\* A gateway that left provisioned, or has a credential, has no bootstrap token
\* any more, and a running one has a credential, although gateway, token,
\* credential and lifecycle are written by different store calls.
THEOREM LifecycleBacked == Spec => []LifecycleFollowsTokens
<1>1. Inv => LifecycleFollowsTokens
  BY DEF Inv, Backed
<1> QED BY <1>1, InvHolds, PTL

\* No transition of a gateway is recorded twice, with any number of requests
\* between their change of the state and the recording of it
\* (record_lifecycle_event).
THEOREM TransitionsRecordedOnce == Spec => []EventsDistinct
<1>1. Inv => EventsDistinct
  BY DEF Inv, EventsReached
<1> QED BY <1>1, InvHolds, PTL

\* No step of a late request demotes a gateway (mark_gateway_initializing,
\* upsert_gateway_status).
THEOREM NeverDemoted == Spec => LifecycleForward
<1>1. Inv /\ Next => \A g \in Gateways : Rank[gateways[g].life] <= Rank[gateways'[g].life]
  BY LifeStep DEF Inv
<1>2. ASSUME Inv, UNCHANGED vars, NEW g \in Gateways
      PROVE  Rank[gateways[g].life] <= Rank[gateways'[g].life]
  <2>1. gateways[g].life \in Lifecycles /\ UNCHANGED gateways
    BY <1>2 DEF Inv, Typed, TypeOK, vars, store, Lifecycles
  <2> QED BY <2>1, Ranks
<1>3. Inv /\ [Next]_vars => [\A g \in Gateways : Rank[gateways[g].life] <= Rank[gateways'[g].life]]_vars
  BY <1>1
<1> QED BY <1>3, InvHolds, PTL DEF LifecycleForward, Spec

\* The credential a step stores was sent to no gateway before: what was
\* replaced stays invalid, although update_gateway_credential stores without
\* looking at what is there.
THEOREM NothingComesBack == Spec => ReplacedStaysInvalid
<1>1. ASSUME Inv, Next, NEW g \in Gateways, gateways'[g].cred # gateways[g].cred, NEW f \in Gateways
      PROVE  gateways'[g].cred \notin held[f]
  <2>1. RowMove(g)
    BY <1>1, RowStep DEF Inv
  <2>2. ~gateways[g].stored => gateways[g].cred = None
    BY <1>1, RowFields DEF Inv, Placed
  <2>3. PICK h \in Handlers : Working(h, "credential", g) /\ Credited(g, req[h].new)
    BY <1>1, <2>1, <2>2, RowFields DEF RowMove, Still, Spent, Moved
  <2> QED BY <1>1, <2>3 DEF Inv, Fresh, Working, Credited
<1>2. Inv /\ [Next]_vars => [\A g \in Gateways : gateways'[g].cred # gateways[g].cred
                                => \A f \in Gateways : gateways'[g].cred \notin held[f]]_vars
  BY <1>1
<1> QED BY <1>2, InvHolds, PTL DEF ReplacedStaysInvalid, Spec

-----------------------------------------------------------------------------
(* Refinement of OnboardingContract *)

Promised == <<Stage, Contract!entry, Contract!bearers, Recorded>>

RowsKept ==
    \A g \in Gateways :
        /\ gateways'[g].boot = gateways[g].boot /\ gateways'[g].cred = gateways[g].cred
        /\ gateways'[g].life = gateways[g].life

UnderwayKept ==
    \A k \in Handlers :
        /\ req'[k].pc = "credential" <=> req[k].pc = "credential"
        /\ req[k].pc = "credential" => req'[k].new = req[k].new

\* What the contract sees changes only with what it is read from.
LEMMA MappedKept ==
    /\ RowsKept => UNCHANGED <<Stage, Open, Current>>
    /\ UnderwayKept => UNCHANGED Underway
    /\ UNCHANGED provisioned => UNCHANGED Admitted
    /\ UNCHANGED events => UNCHANGED Recorded
    /\ UNCHANGED issued => UNCHANGED (Seed .. issued)
<1>1. RowsKept => UNCHANGED Stage /\ UNCHANGED Open /\ UNCHANGED Current
  BY DEF RowsKept, Stage, Open, Current
<1>2. UnderwayKept => UNCHANGED Underway
  BY DEF UnderwayKept, Underway
<1>3. UNCHANGED provisioned => UNCHANGED Admitted
  BY DEF Admitted
<1>4. UNCHANGED events => UNCHANGED Recorded
  BY DEF Recorded
<1> QED BY <1>1, <1>2, <1>3, <1>4

\* A request that neither gets nor stores a credential
LEMMA MovedOn ==
    ASSUME NEW h \in Handlers, Others(h), req[h].pc # "credential", req'[h].pc # "credential"
    PROVE  UnderwayKept
BY DEF UnderwayKept, Others

\* A step that changes nothing the contract sees
LEMMA NothingPromised ==
    ASSUME RowsKept, UnderwayKept, UNCHANGED <<provisioned, regist, issued, events>>
    PROVE  UNCHANGED Promised
BY MappedKept DEF Promised, Contract!entry, Contract!bearers

\* The creation of a gateway
LEMMA CreateContract ==
    ASSUME Inv, NEW h \in Handlers, NEW g \in Gateways, NEW outcome \in Outcomes,
           CreateGateway(h, g, outcome)
    PROVE  [Contract!Next]_Promised
<1>1. TypedParts
  BY TypedIsParts DEF Inv
<1>2. /\ ~gateways[g].stored /\ req[h].pc = "idle" /\ RowsElse(g)
      /\ \/ gateways' = gateways /\ req' = req
         \/ /\ gateways'[g] = Created
            /\ req' = req \/ (Others(h) /\ req'[h].pc = "event")
      /\ UNCHANGED <<events, regist, issued, provisioned>>
  BY <1>1, CreateGatewayEffect DEF history
<1>3. UnderwayKept
  BY <1>2, MovedOn DEF UnderwayKept
<1>4. CASE gateways' = gateways
  <2>1. RowsKept
    BY <1>4 DEF RowsKept
  <2> QED BY <1>2, <1>3, <2>1, NothingPromised
<1>5. CASE gateways'[g] = Created
  <2>1. gateways[g].life = "none" /\ gateways[g].cred = None
    BY <1>2, RowFields DEF Inv, Placed
  <2>2. Stage[g] = "none" /\ Current[g] = None
    BY <2>1 DEF Stage, Current
  <2>3. Stage' = [Stage EXCEPT ![g] = "provisioned"]
    BY <1>2, <1>5, RowFields DEF Stage, RowsElse
  <2>4. Open' = Open \cup {g}
    BY <1>2, <1>5, RowFields DEF Open, RowsElse
  <2>5. UNCHANGED Current
    BY <1>2, <1>5, <2>1, RowFields DEF Current, RowsElse
  <2>6. UNCHANGED <<Admitted, regist, Seed .. issued, Underway, Recorded>>
    BY <1>2, <1>3, MappedKept
  <2>7. Contract!Create(g)
    BY <2>2, <2>3, <2>4, <2>5, <2>6 DEF Contract!Create, Contract!bearers
  <2> QED BY <2>7 DEF Contract!Next
<1> QED BY <1>2, <1>4, <1>5

\* An event is recorded for a stage the gateway has reached.
LEMMA RecordContract ==
    ASSUME Inv, NEW h \in Handlers, NEW outcome \in Outcomes, RecordEvent(h, outcome)
    PROVE  [Contract!Next]_Promised
<1>1. TypedParts
  BY TypedIsParts DEF Inv
<1> DEFINE e == [from |-> req[h].from, to |-> req[h].to]
<1>2. /\ req[h].pc = "event" /\ Others(h) /\ req'[h].pc \in {"idle", "answer"}
      /\ \A f \in Gateways : f # req[h].gateway => events'[f] = events[f]
      /\ \/ events'[req[h].gateway] = events[req[h].gateway]
         \/ events'[req[h].gateway] = Append(events[req[h].gateway], e)
      /\ UNCHANGED <<gateways, regist, issued, provisioned>>
  BY <1>1, RecordEventEffect, RowFields DEF history
<1>3. PICK g \in Gateways : g = req[h].gateway
  BY <1>1, <1>2, ReqGateway
<1>4. e \in Event /\ e.to = req[h].to
  BY <1>1 DEF TypedParts, AimedRequest, Request, Event
<1> HIDE DEF e
<1>5. RowsKept /\ UnderwayKept
  BY <1>2, MovedOn DEF RowsKept
<1>6. CASE events'[g] = events[g]
  <2>1. UNCHANGED Recorded
    BY <1>2, <1>3, <1>6 DEF Recorded
  <2>2. UNCHANGED <<Stage, Open, Current, Underway, Admitted, Seed .. issued>>
    BY <1>2, <1>5, MappedKept
  <2> QED BY <1>2, <2>1, <2>2 DEF Promised, Contract!entry, Contract!bearers
<1>7. CASE events'[g] = Append(events[g], e)
  <2>1. PICK t : t = events'[g]
    OBVIOUS
  <2>2. PICK s \in Seq(Event) : s = events[g]
    BY <1>1 DEF TypedParts
  <2>3. /\ DOMAIN t = DOMAIN s \cup {Len(s) + 1} /\ t[Len(s) + 1] = e
        /\ Len(s) + 1 \notin DOMAIN s
        /\ \A n \in DOMAIN s : t[n] = s[n]
    BY <1>4, <1>7, <2>1, <2>2, Appended
  <2>4. {t[n].to : n \in DOMAIN t} = {s[n].to : n \in DOMAIN s} \cup {req[h].to}
    BY <1>4, <2>3
  <2>5. Recorded[g] = {s[n].to : n \in DOMAIN s} /\ Recorded'[g] = {t[n].to : n \in DOMAIN t}
    BY <2>1, <2>2 DEF Recorded
  <2>6. \A f \in Gateways : f # g => Recorded'[f] = Recorded[f]
    BY <1>2, <1>3 DEF Recorded
  <2>7. Recorded' = [Recorded EXCEPT ![g] = @ \cup {req[h].to}]
    <3>1. /\ Recorded = [f \in Gateways |-> Recorded[f]]
          /\ Recorded' = [f \in Gateways |-> Recorded'[f]]
      BY DEF Recorded
    <3> QED BY <2>4, <2>5, <2>6, <3>1
  <2>8. req[h].to \in {"provisioned", "initializing", "running"} /\ gateways[g].life \in Lifecycles
    BY <1>1, <1>2 DEF TypedParts, AimedRequest, Aimed, Row
  <2>9. Rank[req[h].to] <= Rank[gateways[g].life]
    BY <1>2, <1>3 DEF Inv, EventsReached
  <2>10. req[h].to \in Contract!Reached(gateways[g].life)
    BY <2>8, <2>9, Ranks DEF Lifecycles, Contract!Reached
  <2>11. Stage[g] = gateways[g].life
    BY DEF Stage
  <2>12. UNCHANGED <<Stage, Open, Current, Underway, Admitted, Seed .. issued>>
    BY <1>2, <1>5, MappedKept
  <2>13. Contract!Record(g, req[h].to)
    BY <1>2, <2>7, <2>10, <2>11, <2>12 DEF Contract!Record, Contract!entry, Contract!bearers
  <2> QED BY <2>8, <2>13 DEF Contract!Next
<1> QED BY <1>2, <1>3, <1>6, <1>7

\* The bootstrap token admits the process of the request that consumes it, or
\* nobody when the call fails after the token is gone.
LEMMA AdmitContract ==
    ASSUME Inv, NEW h \in Handlers, NEW outcome \in Outcomes, ConsumeBootstrap(h, outcome)
    PROVE  [Contract!Next]_Promised
<1>1. TypedParts
  BY TypedIsParts DEF Inv
<1>2. PICK g \in Gateways : g = req[h].gateway
  BY <1>1, ReqGateway DEF ConsumeBootstrap
<1>3. PICK i \in Identities : i = req[h].identity
  BY <1>1, ConsumeBootstrapEffect
<1>4. /\ req[h].pc = "bootstrap" /\ gateways[g].boot /\ gateways[g].life = "provisioned"
      /\ Others(h) /\ RowsElse(g) /\ req'[h].pc \in {"idle", "mark"}
      /\ gateways'[g] = gateways[g] \/ Spent(g)
      /\ \A f \in Gateways : f # g => provisioned'[f] = provisioned[f]
      /\ \/ provisioned' = provisioned
         \/ provisioned'[g] = Append(provisioned[g], i) /\ Spent(g)
      /\ UNCHANGED <<events, regist, issued>>
  BY <1>1, <1>2, <1>3, ConsumeBootstrapEffect, RowFields DEF known
<1>5. UnderwayKept
  BY <1>4, MovedOn
<1>6. CASE provisioned' = provisioned /\ gateways'[g] = gateways[g]
  <2>1. RowsKept
    BY <1>4, <1>6 DEF RowsKept, RowsElse
  <2> QED BY <1>4, <1>5, <1>6, <2>1, NothingPromised
<1>7. CASE Spent(g)
  <2>1. UNCHANGED Stage /\ UNCHANGED Current
    BY <1>4, <1>7 DEF Stage, Current, Spent, RowsElse
  <2>2. g \in Open /\ Open' = Open \ {g}
    BY <1>4, <1>7 DEF Open, Spent, RowsElse
  <2>3. UNCHANGED <<Underway, Seed .. issued, Recorded>>
    BY <1>4, <1>5, MappedKept
  <2>4. Admitted' = Admitted \/ Admitted' = [Admitted EXCEPT ![g] = {i}]
    <3>1. CASE provisioned' = provisioned
      BY <3>1, MappedKept
    <3>2. CASE provisioned'[g] = Append(provisioned[g], i)
      <4>1. provisioned[g] = <<>>
        BY <1>4 DEF Inv, Bootstrap
      <4>2. PICK t : t = provisioned'[g]
        OBVIOUS
      <4>3. PICK s \in Seq(Identities) : s = provisioned[g]
        BY <1>1 DEF TypedParts
      <4>4. Len(s) = 0 /\ DOMAIN s = {} /\ t = Append(s, i)
        <5>1. s = <<>>
          BY <4>1, <4>3
        <5>2. Len(s) = 0 /\ DOMAIN s = {}
          BY <5>1
        <5>3. t = Append(s, i)
          BY <3>2, <4>2, <4>3
        <5> QED BY <5>2, <5>3
      <4>5. DOMAIN t = {1} /\ t[1] = i
        BY <4>4, Appended
      <4>6. {t[n] : n \in DOMAIN t} = {i}
        BY <4>5
      <4>7. Admitted'[g] = {i}
        BY <4>2, <4>6 DEF Admitted
      <4>8. \A f \in Gateways : f # g => Admitted'[f] = Admitted[f]
        BY <1>4 DEF Admitted
      <4>9. /\ Admitted = [f \in Gateways |-> Admitted[f]]
            /\ Admitted' = [f \in Gateways |-> Admitted'[f]]
        BY DEF Admitted
      <4> QED BY <4>7, <4>8, <4>9
    <3> QED BY <1>4, <3>1, <3>2
  <2>5. Stage[g] = "provisioned"
    BY <1>4 DEF Stage
  <2>6. Contract!Admit(g, i)
    BY <1>4, <2>1, <2>2, <2>3, <2>4, <2>5 DEF Contract!Admit, Contract!bearers
  <2> QED BY <2>6 DEF Contract!Next
<1> QED BY <1>4, <1>6, <1>7

\* A gateway moves to a stage it may enter.
LEMMA StageContract ==
    ASSUME Inv, NEW h \in Handlers, NEW outcome \in Outcomes,
           MarkInitializing(h, outcome) \/ UpsertStatus(h, outcome)
    PROVE  [Contract!Next]_Promised
<1>1. TypedParts
  BY TypedIsParts DEF Inv
<1>2. PICK g \in Gateways : g = req[h].gateway
  BY <1>1, ReqGateway DEF MarkInitializing, UpsertStatus
<1>3. /\ req[h].pc \in {"mark", "status"} /\ Others(h) /\ RowsElse(g)
      /\ req'[h].pc \in {"answer", "event", "idle"}
      /\ \/ gateways'[g] = gateways[g]
         \/ req[h].pc = "mark" /\ gateways[g].life = "provisioned" /\ Moved(g, "initializing")
         \/ req[h].pc = "status" /\ Moved(g, "running")
      /\ UNCHANGED <<events, regist, issued, provisioned>>
  BY <1>1, <1>2, MarkInitializingEffect, UpsertStatusEffect, RowFields DEF known, history
<1>4. UnderwayKept
  BY <1>3, MovedOn
<1>5. UNCHANGED <<Underway, Admitted, Seed .. issued, Recorded>>
  BY <1>3, <1>4, MappedKept
<1>6. CASE gateways'[g] = gateways[g]
  <2>1. RowsKept
    BY <1>3, <1>6 DEF RowsKept, RowsElse
  <2> QED BY <1>3, <1>4, <2>1, NothingPromised
<1>7. ASSUME NEW s, Moved(g, s)
      PROVE  UNCHANGED Open /\ UNCHANGED Current /\ Stage' = [Stage EXCEPT ![g] = s]
  BY <1>3, <1>7 DEF Open, Current, Stage, Moved, RowsElse
<1>8. CASE req[h].pc = "mark" /\ gateways[g].life = "provisioned" /\ Moved(g, "initializing")
  <2>1. g \notin Open /\ Stage[g] = "provisioned"
    BY <1>2, <1>8 DEF Inv, Backed, Open, Stage
  <2>2. Contract!Initialize(g)
    BY <1>3, <1>5, <1>7, <1>8, <2>1 DEF Contract!Initialize, Contract!entry, Contract!bearers
  <2> QED BY <2>2 DEF Contract!Next
<1>9. CASE req[h].pc = "status" /\ Moved(g, "running")
  <2>1. Current[g] # None
    BY <1>2, <1>9 DEF Inv, Backed, Current
  <2>2. Contract!Run(g)
    BY <1>3, <1>5, <1>7, <1>9, <2>1 DEF Contract!Run, Contract!entry, Contract!bearers
  <2> QED BY <2>2 DEF Contract!Next
<1> QED BY <1>3, <1>6, <1>8, <1>9

\* A credential is generated once.
LEMMA GenerateContract ==
    ASSUME Inv, NEW h \in Handlers, Issue(h)
    PROVE  [Contract!Next]_Promised
<1>1. TypedParts
  BY TypedIsParts DEF Inv
<1>2. PICK c : c = issued + 1
  OBVIOUS
<1>3. /\ req[h].pc = "issue" /\ issued \in Nat /\ issued' = c /\ Others(h)
      /\ req'[h].pc = "credential" /\ req'[h].new = c
      /\ UNCHANGED <<gateways, events, regist, provisioned>>
  BY <1>1, <1>2, IssueEffect DEF store, known, history
<1>4. c \in Credentials
  BY <1>2, <1>3, CenterBounds DEF Issue, Credentials
<1>5. c \notin Seed .. issued /\ Seed .. issued' = (Seed .. issued) \cup {c}
  BY <1>2, <1>3 DEF Seed
<1>6. Underway' = Underway \cup {c}
  BY <1>3, <1>4 DEF Underway, Others
<1>7. UNCHANGED <<Stage, Open, Current, Admitted, Recorded>>
  BY <1>3, MappedKept DEF RowsKept
<1>8. Contract!Generate(c)
  BY <1>3, <1>5, <1>6, <1>7 DEF Contract!Generate, Contract!entry
<1> QED BY <1>4, <1>8 DEF Contract!Next

\* A credential that is stored is under way no more; when the call fails it is
\* only forgotten.
LEMMA GiveContract ==
    ASSUME Inv, NEW h \in Handlers, NEW outcome \in Outcomes, UpdateCredential(h, outcome)
    PROVE  [Contract!Next]_Promised
<1>1. TypedParts
  BY TypedIsParts DEF Inv
<1>2. PICK g \in Gateways : g = req[h].gateway
  BY <1>1, ReqGateway DEF UpdateCredential
<1>3. PICK c \in Credentials : c = req[h].new
  BY <1>1, UpdateCredentialEffect
<1>4. /\ req[h].pc = "credential" /\ Others(h) /\ RowsElse(g) /\ req'[h].pc # "credential"
      /\ gateways'[g] = gateways[g] \/ Credited(g, c)
      /\ UNCHANGED <<events, regist, issued, provisioned>>
  BY <1>1, <1>2, <1>3, UpdateCredentialEffect, RowFields DEF known
<1>5. c # None /\ \A k \in Handlers : k # h => req[k].new # c
  BY <1>3, NotNone DEF Inv, Fresh
<1>6. c \in Underway /\ Underway' = Underway \ {c}
  BY <1>3, <1>4, <1>5 DEF Underway, Others
<1>7. UNCHANGED <<Admitted, Seed .. issued, Recorded>>
  BY <1>4, MappedKept
<1>8. CASE gateways'[g] = gateways[g]
  <2>1. UNCHANGED <<Stage, Open, Current>>
    BY <1>4, <1>8, MappedKept DEF RowsKept, RowsElse
  <2>2. Contract!Forget
    BY <1>4, <1>6, <1>7, <2>1 DEF Contract!Forget, Contract!entry
  <2> QED BY <2>2 DEF Contract!Next
<1>9. CASE Credited(g, c)
  <2>1. UNCHANGED Stage /\ UNCHANGED Open
    BY <1>4, <1>9 DEF Stage, Open, Credited, RowsElse
  <2>2. Current' = [Current EXCEPT ![g] = c]
    BY <1>4, <1>9 DEF Current, Credited, RowsElse
  <2>3. g \notin Open
    BY <1>2, <1>4 DEF Inv, Backed, Open
  <2>4. regist[g] # {} \/ Current[g] # None
    BY <1>2, <1>4 DEF Inv, Sanctioned, Current
  <2>5. Contract!Give(g, c)
    BY <1>4, <1>6, <1>7, <2>1, <2>2, <2>3, <2>4 DEF Contract!Give, Contract!entry
  <2> QED BY <2>5 DEF Contract!Next
<1> QED BY <1>4, <1>8, <1>9

\* Only the process the bootstrap token admitted is sent a RegistToken.
LEMMA InviteContract ==
    ASSUME Inv, NEW h \in Handlers, NEW delivered \in BOOLEAN, Answer(h, delivered)
    PROVE  [Contract!Next]_Promised
<1>1. TypedParts /\ Bootstrap
  BY TypedIsParts DEF Inv
<1>2. PICK g \in Gateways : g = req[h].gateway
  BY <1>1, ReqGateway DEF Answer
<1>3. PICK i : i = req[h].identity
  OBVIOUS
<1>4. /\ req[h].pc = "answer" /\ Others(h) /\ req'[h].pc = "idle"
      /\ \A f \in Gateways : f # g => regist'[f] = regist[f]
      /\ \/ regist'[g] = regist[g]
         \/ Granted(req[h]) /\ regist'[g] = regist[g] \cup {i}
      /\ UNCHANGED <<gateways, events, issued, provisioned>>
  BY <1>1, <1>2, <1>3, AnswerEffect, RowFields DEF store, history
<1>5. regist \in [Gateways -> SUBSET Identities] /\ regist' \in [Gateways -> SUBSET Identities]
  BY <1>1, AnswerEffect DEF TypedParts
<1>6. RowsKept /\ UnderwayKept
  BY <1>4, MovedOn DEF RowsKept
<1>7. CASE regist'[g] = regist[g]
  <2>1. UNCHANGED regist
    BY <1>4, <1>5, <1>7
  <2> QED BY <1>4, <1>6, <2>1, NothingPromised
<1>8. CASE Granted(req[h]) /\ regist'[g] = regist[g] \cup {i}
  <2>1. PICK n \in DOMAIN provisioned[g] : provisioned[g][n] = i
    BY <1>1, <1>2, <1>3, <1>8 DEF Bootstrap, Provisioned
  <2>2. i \in Identities
    BY <1>1, <2>1 DEF TypedParts
  <2>3. i \in Admitted[g]
    BY <2>1 DEF Admitted
  <2>4. regist' = [regist EXCEPT ![g] = @ \cup {i}]
    BY <1>4, <1>5, <1>8
  <2>5. UNCHANGED <<Stage, Open, Current, Underway, Admitted, Seed .. issued, Recorded>>
    BY <1>4, <1>6, MappedKept
  <2>6. Contract!Invite(g, i)
    BY <2>3, <2>4, <2>5 DEF Contract!Invite, Contract!bearers
  <2> QED BY <2>2, <2>6 DEF Contract!Next
<1> QED BY <1>4, <1>7, <1>8

\* A restart forgets what was under way.
LEMMA RestartContract ==
    ASSUME Inv, Restart
    PROVE  [Contract!Next]_Promised
<1>1. \A h \in Handlers : req'[h].pc = "idle"
  BY RestartEffect, TypedIsParts, RowFields DEF Inv
<1>2. Underway' \subseteq Underway
  BY <1>1 DEF Underway
<1>3. UNCHANGED <<Stage, Open, Current, Admitted, Seed .. issued, Recorded, regist>>
  BY MappedKept DEF Restart, RowsKept, store, known, history
<1>4. Contract!Forget
  BY <1>2, <1>3 DEF Contract!Forget, Contract!entry
<1> QED BY <1>4 DEF Contract!Next

\* The other steps change nothing the contract sees.
LEMMA UnseenContract ==
    ASSUME Inv,
           \/ \E h \in Handlers, g \in Gateways, i \in Identities : Provision(h, g, i)
           \/ \E h \in Handlers, outcome \in Outcomes : CreateEnrollmentToken(h, outcome)
           \/ \E h \in Handlers : BootstrapRefused(h) \/ IssueFails(h)
           \/ \E h \in Handlers, n \in DOMAIN etokens, outcome \in Outcomes : Register(h, n, outcome)
           \/ \E n \in DOMAIN etokens, outcome \in Outcomes : RegisterRefused(n, outcome)
           \/ \E h \in Handlers, g \in Gateways, cred \in Credentials :
                Renew(h, g, cred) \/ SubmitStatus(h, g, cred)
           \/ \E n \in DOMAIN etokens : ExpireToken(n)
           \/ \E g \in Gateways : ExpireCredential(g)
           \/ UNCHANGED vars
    PROVE  UNCHANGED Promised
<1> USE DEF store, known, history
<1>1. TypedParts
  BY TypedIsParts DEF Inv
<1>2. ASSUME NEW h \in Handlers, NEW g \in Gateways, NEW i \in Identities, Provision(h, g, i)
      PROVE  UNCHANGED Promised
  <2>1. UnderwayKept
    BY <1>1, <1>2, ProvisionEffect, MovedOn
  <2> QED BY <1>2, <2>1, NothingPromised DEF Provision, RowsKept
<1>3. ASSUME NEW h \in Handlers, NEW outcome \in Outcomes, CreateEnrollmentToken(h, outcome)
      PROVE  UNCHANGED Promised
  <2>1. UnderwayKept
    BY <1>1, <1>3, CreateEnrollmentTokenEffect, MovedOn, RowFields
  <2> QED BY <1>3, <2>1, NothingPromised DEF CreateEnrollmentToken, RowsKept
<1>4. ASSUME NEW h \in Handlers, BootstrapRefused(h) \/ IssueFails(h)
      PROVE  UNCHANGED Promised
  <2>1. req[h].pc # "credential"
    BY <1>4 DEF BootstrapRefused, IssueFails
  <2>2. UnderwayKept
    BY <1>1, <1>4, <2>1, GivenUpEffect, MovedOn, RowFields
  <2> QED BY <1>4, <2>2, NothingPromised DEF BootstrapRefused, IssueFails, RowsKept
<1>5. ASSUME NEW h \in Handlers, NEW n \in DOMAIN etokens, NEW outcome \in Outcomes,
             Register(h, n, outcome)
      PROVE  UNCHANGED Promised
  <2>1. \/ req' = req
        \/ Others(h) /\ req[h].pc = "idle" /\ req'[h].pc = "issue"
    BY <1>1, <1>5, RegisterEffect
  <2>2. UnderwayKept
    BY <2>1, MovedOn DEF UnderwayKept
  <2> QED BY <1>5, <2>2, NothingPromised DEF Register, RowsKept
<1>6. ASSUME NEW n \in DOMAIN etokens,
             (\E outcome \in Outcomes : RegisterRefused(n, outcome)) \/ ExpireToken(n)
      PROVE  UNCHANGED Promised
  BY <1>6, NothingPromised DEF RegisterRefused, ExpireToken, RowsKept, UnderwayKept
<1>7. ASSUME NEW h \in Handlers, NEW g \in Gateways, NEW cred \in Credentials,
             Renew(h, g, cred) \/ SubmitStatus(h, g, cred)
      PROVE  UNCHANGED Promised
  <2>1. UnderwayKept
    BY <1>1, <1>7, GatewayCallEffect, MovedOn
  <2> QED BY <1>7, <2>1, NothingPromised DEF Renew, SubmitStatus, RowsKept
<1>8. ASSUME NEW g \in Gateways, ExpireCredential(g)
      PROVE  UNCHANGED Promised
  <2>1. RowsKept
    BY <1>1, <1>8, ExpireCredentialEffect DEF RowsKept, RowsElse, Still
  <2> QED BY <1>8, <2>1, NothingPromised DEF ExpireCredential, UnderwayKept
<1>9. CASE UNCHANGED vars
  BY <1>9, NothingPromised DEF vars, RowsKept, UnderwayKept
<1> QED BY <1>2, <1>3, <1>4, <1>5, <1>6, <1>7, <1>8, <1>9

\* Every step is one of the contract or changes nothing it sees.
LEMMA ContractStep == Inv /\ [Next]_vars => [Contract!Next]_Promised
<1> SUFFICES ASSUME Inv, [Next]_vars PROVE [Contract!Next]_Promised
  OBVIOUS
<1>1. CASE \E h \in Handlers : HandlerStep(h)
  BY <1>1, RecordContract, AdmitContract, StageContract, GenerateContract, GiveContract,
     InviteContract, UnseenContract DEF HandlerStep
<1> QED BY <1>1, CreateContract, RestartContract, UnseenContract DEF Next

\* The handlers of the center keep what OnboardingContract promises, with any
\* number of requests between any two of their store calls.
THEOREM EnrollmentImplementsContract == Spec => ImplementsOnboardingContract
<1>1. Init => Contract!Init
  <2> SUFFICES ASSUME Init PROVE Contract!Init
    OBVIOUS
  <2>1. PICK seeds \in SUBSET Gateways : Seeded(seeds)
    BY DEF Init
  <2>2. Current = [g \in Gateways |-> IF g \in seeds THEN Seed ELSE None]
    BY <2>1, RowFields DEF Seeded, Current, Unknown
  <2>3. Stage = [g \in Gateways |-> "none"] /\ Open = {}
    BY <2>1 DEF Seeded, Stage, Open, Unknown
  <2>4. Admitted = [g \in Gateways |-> {}] /\ Recorded = [g \in Gateways |-> {}]
    BY DEF Init, Admitted, Recorded
  <2>5. Seed .. issued = {Seed} /\ Underway = {}
    BY RowFields DEF Init, Seed, Underway
  <2> QED BY <2>2, <2>3, <2>4, <2>5 DEF Init, Contract!Init
<1>2. Inv /\ [Next]_vars
        => [Contract!Next]_<<Stage, Contract!entry, Contract!bearers, Recorded>>
  BY ContractStep DEF Promised
<1> QED
  BY <1>1, <1>2, InvHolds, PTL DEF Spec, ImplementsOnboardingContract, Contract!Spec
=============================================================================
