--------------------------- MODULE PgStoreProofs ---------------------------
(***************************************************************************)
(* Proofs about PgStore for any number of callers, gateways, agents, calls *)
(* and failing statements.                                                 *)
(*                                                                         *)
(* Every property compares what a row holds with the order of the calls.   *)
(* The argument is the one of Calls: a call in progress has ended before   *)
(* no call at all, so what it writes can not be hidden, or consumed, by a  *)
(* call that ended before another began.  The rest says for each table     *)
(* what a row shows of the calls that wrote it.                            *)
(***************************************************************************)
EXTENDS PgStore, TLAPS, FiniteSetTheorems

-----------------------------------------------------------------------------
(* Types *)

Lifecycles == {"none", "provisioned", "initializing", "running"}
Row == [stored : BOOLEAN, boot : BOOLEAN, cred : Nat, life : Lifecycles,
        initialized : Nat, seen : Nat]
Token == [stored : BOOLEAN, used : 0 .. 1, status : {"Active", "Exhausted"}, valid : BOOLEAN]
Event == [gateway : Gateways, from : Lifecycles, to : Lifecycles, by : Nat]
AgentStatus == [gateway : Gateways \cup {None}, report : Nat]
Plan == [stored : BOOLEAN, status : {"pending", "approved"}, approvedBy : Nat]
Artifact == [state : {"absent", "partial", "complete"}, by : Nat, alone : BOOLEAN]

GatewayOps == {"create", "issue", "bootstrap", "mark", "credential", "status", "agents", "bind"}
Ops == GatewayOps \cup {"idle", "consume", "plan", "approve", "publish"}
Call == [op : Ops, pc : {"start", "event", "read", "write", "record"}, id : Nat,
         gateway : Gateways \cup {None}, token : TokenKeys \cup {<<>>},
         agents : SUBSET Agents, left : SUBSET Agents, used : 0 .. 1,
         from : Lifecycles, to : Lifecycles]
AnswerRow == [op : Ops, id : Nat, gateway : Gateways \cup {None}, token : TokenKeys \cup {<<>>},
              agents : SUBSET Agents]

\* A call knows the gateway or the token it is about, and is in a phase of its
\* operation.
Aimed(r) ==
    /\ r.op \in GatewayOps => r.gateway \in Gateways
    /\ r.op = "consume" => r.token \in TokenKeys
    /\ r.op = "consume" /\ r.pc = "read" => r.used = 0
    /\ r.pc = "event" => r.op \in {"create", "mark", "status"} /\ (r.to = "running" => r.op = "status")
    /\ r.op = "idle" => r = Idle
AimedCall == {r \in Call : Aimed(r)}

Typed ==
    /\ gateways \in [Gateways -> Row]
    /\ tokens \in [TokenKeys -> Token]
    /\ events \in Seq(Event)
    /\ agents \in [Agents -> AgentStatus]
    /\ plan \in Plan
    /\ bindings \in [Gateways -> Nat]
    /\ releases \subseteq Nat
    /\ artifact \in Artifact
    /\ backend \in Backends
    /\ call \in [Callers -> AimedCall]
    /\ clock \in Seconds
    /\ faults \in 0 .. MaxFaults
    /\ answers \subseteq AnswerRow

-----------------------------------------------------------------------------
(* The inductive invariant *)

\* Calls are numbered in the order they begin.  A call in progress has a
\* number of its own, has ended before no call, and has not been answered.
Numbered(N) ==
    /\ DOMAIN since = 1 .. N
    /\ \A m \in 1 .. N : since[m] \subseteq 1 .. (m - 1)
    /\ \A c \in Callers : call[c].op # "idle" =>
            /\ call[c].id \in 1 .. N
            /\ \A m \in 1 .. N : call[c].id \notin since[m]
            /\ \A d \in Callers : call[d].id = call[c].id => d = c
            /\ \A a \in answers : a.id # call[c].id
    /\ \A a \in answers : a.id \in 1 .. N

Calls == \E N \in Nat : Numbered(N)

Active(c) == call[c].op # "idle"

\* A token that let a call through is exhausted, and a call that found one
\* consumable began before any such call had ended.
Consumed ==
    /\ UsesOverlap
    /\ \A a \in answers : a.op = "consume" =>
        /\ a.token \in TokenKeys /\ tokens[a.token].status = "Exhausted"
        /\ \A c \in Callers : /\ call[c].op = "consume" /\ call[c].pc = "read"
                              /\ call[c].token = a.token
                              => a.id \notin since[call[c].id]

\* A gateway whose transition to running is recorded, or read by its report,
\* runs; a call that read another state began before the calls that have
\* recorded the transition ended.
FirstReports ==
    /\ \A i, j \in DOMAIN events :
        /\ events[i].gateway = events[j].gateway
        /\ events[i].to = "running" /\ events[j].to = "running" /\ i # j
        => Overlap(events[i].by, events[j].by)
    /\ \A n \in DOMAIN events : events[n].to = "running" =>
        /\ events[n].by \in DOMAIN since
        /\ gateways[events[n].gateway].life = "running"
        /\ \A c \in Callers :
            /\ call[c].op = "status" /\ call[c].pc \in {"read", "event"} /\ FirstReport(call[c].from)
            /\ call[c].gateway = events[n].gateway
            => events[n].by \notin since[call[c].id]
    /\ \A c \in Callers : call[c].op = "status" =>
        /\ gateways[call[c].gateway].stored
        /\ call[c].pc = "event" => /\ gateways[call[c].gateway].life = "running"
                                   /\ FirstReport(call[c].from)
    /\ \A g \in Gateways : gateways[g].initialized # None =>
            gateways[g].life = "running" /\ gateways[g].stored
    /\ \A g \in Gateways : gateways[g].life = "running" => gateways[g].stored

\* A row is never one that a call wrote which had ended before the calls that
\* have been acknowledged for it, or have written it and go on.
Kept ==
    /\ AcknowledgedNotHidden
    /\ \A a \in answers : a.op \in GatewayOps => a.gateway \in Gateways
    /\ \A c \in Callers :
        /\ call[c].op = "status" /\ call[c].pc = "event" =>
                gateways[call[c].gateway].seen \notin since[call[c].id]
        /\ call[c].op = "agents" =>
                \A n \in call[c].agents \ call[c].left :
                    agents[n].report \notin since[call[c].id] /\ agents[n].gateway \in Gateways

\* The file is there once a publication has stored it; while nobody mixed it
\* up, a file that is not whole is the one being written, or left behind.
Published ==
    /\ ReleaseWhole
    /\ artifact.by # None => artifact.by \in DOMAIN since
    /\ artifact.state = "absent" => artifact.by = None
    /\ \A c \in Callers : Active(c) /\ call[c].id = artifact.by => call[c].op = "publish"
    /\ \A c \in Callers : call[c].op = "publish" =>
        /\ call[c].pc \in {"write", "record"} => artifact.state # "absent"
        /\ call[c].pc = "write" => backend = "local"
        /\ call[c].pc = "start" => artifact.by # call[c].id
        /\ artifact.alone /\ call[c].pc = "write" => call[c].id = artifact.by
        /\ artifact.alone /\ call[c].pc = "record" /\ call[c].id = artifact.by =>
                artifact.state = "complete"

Inv == Typed /\ Calls /\ Consumed /\ FirstReports /\ Kept /\ Published

-----------------------------------------------------------------------------
(* Calls *)

\* The constant rows are of their types.
LEMMA RowTypes ==
    /\ GatewayRow \in Row /\ SeededRow \in Row /\ Idle \in AimedCall
    /\ TokenRow \in Token /\ AgentRow \in AgentStatus /\ PlanRow \in Plan /\ NoArtifact \in Artifact
    /\ Idle.op = "idle" /\ Idle.pc = "start"
<1>1. GatewayRow \in Row /\ SeededRow \in Row
  <2>1. GatewayRow \in Row
    BY DEF GatewayRow, Row, Lifecycles, None
  <2> QED BY <2>1 DEF SeededRow, Row, Lifecycles
<1>2. Idle \in AimedCall
  <2>1. Idle \in Call
    BY DEF Idle, Call, Ops, GatewayOps, Lifecycles, None
  <2>2. Idle.op = "idle" /\ Idle.pc = "start"
    BY DEF Idle
  <2> QED BY <2>1, <2>2 DEF AimedCall, Aimed, GatewayOps
<1>3. TokenRow \in Token /\ AgentRow \in AgentStatus /\ PlanRow \in Plan /\ NoArtifact \in Artifact
  BY DEF TokenRow, Token, AgentRow, AgentStatus, PlanRow, Plan, NoArtifact, Artifact, None
<1>4. Idle.op = "idle" /\ Idle.pc = "start"
  BY DEF Idle
<1> QED BY <1>1, <1>2, <1>3, <1>4

Others(c) == \A d \in Callers : d # c => call'[d] = call[d]

\* A statement keeps the count of failures within its bound.
LEMMA FaultsType ==
    ASSUME faults \in 0 .. MaxFaults, NEW outcome, Statement(outcome)
    PROVE  faults' \in 0 .. MaxFaults
BY PgBounds DEF Statement

\* One call is replaced, the others stay.
LEMMA OneCall ==
    ASSUME call \in [Callers -> AimedCall], NEW c \in Callers, NEW r \in AimedCall,
           call' = [call EXCEPT ![c] = r]
    PROVE  call' \in [Callers -> AimedCall] /\ call'[c] = r /\ Others(c)
BY DEF Others

\* What is kept of a call that is answered
Answer(c) == [op |-> call[c].op, id |-> call[c].id, gateway |-> call[c].gateway,
              token |-> call[c].token, agents |-> call[c].agents]

Ends(c, ok) ==
    /\ Active(c) /\ Others(c) /\ call'[c] = Idle /\ UNCHANGED since
    /\ answers' = IF ok THEN answers \cup {Answer(c)} ELSE answers

\* A call that returns leaves its caller idle.
LEMMA ReturnEffect ==
    ASSUME Typed, NEW c \in Callers, NEW ok \in BOOLEAN, Active(c), Return(c, ok)
    PROVE  /\ call' \in [Callers -> AimedCall] /\ answers' \subseteq AnswerRow
           /\ Ends(c, ok)
<1>1. call' \in [Callers -> AimedCall] /\ call'[c] = Idle /\ Others(c)
  BY RowTypes, OneCall DEF Typed, Return
<1>2. Answer(c) \in AnswerRow
  BY DEF Answer, AnswerRow, Typed, AimedCall, Call
<1>3. UNCHANGED since /\ answers' = IF ok THEN answers \cup {Answer(c)} ELSE answers
  BY DEF Return, Answer
<1> QED BY <1>1, <1>2, <1>3 DEF Ends, Typed

\* What a call keeps while it goes on
Same(c) ==
    /\ call'[c].op = call[c].op /\ call'[c].id = call[c].id /\ call'[c].gateway = call[c].gateway
    /\ call'[c].token = call[c].token /\ call'[c].agents = call[c].agents

Stays(c) == Active(c) /\ Others(c) /\ Same(c) /\ UNCHANGED history

\* A statement with others after it: the call goes on, or returns with an error.
LEMMA OnwardEffect ==
    ASSUME Typed, NEW c \in Callers, NEW outcome \in Outcomes, Active(c),
           NEW r \in AimedCall, Onward(c, outcome, r),
           r.op = call[c].op, r.id = call[c].id, r.gateway = call[c].gateway,
           r.token = call[c].token, r.agents = call[c].agents
    PROVE  /\ call' \in [Callers -> AimedCall] /\ answers' \subseteq AnswerRow
           /\ \/ outcome = "ok" /\ Stays(c) /\ call'[c] = r
              \/ outcome # "ok" /\ Ends(c, FALSE)
<1>1. CASE outcome = "ok"
  <2>1. call' = [call EXCEPT ![c] = r] /\ UNCHANGED history
    BY <1>1 DEF Onward
  <2>2. call' \in [Callers -> AimedCall] /\ call'[c] = r /\ Others(c)
    BY <2>1, OneCall DEF Typed
  <2> QED BY <1>1, <2>1, <2>2 DEF Stays, Same, history, Typed
<1>2. CASE outcome # "ok"
  BY <1>2, ReturnEffect DEF Onward
<1> QED BY <1>1, <1>2

\* The calls as they go on from one statement to the next
LEMMA NextCalls ==
    ASSUME NEW r \in AimedCall, NEW f \in Lifecycles, NEW t \in Lifecycles
    PROVE  /\ r.op \in {"create", "mark", "status"} /\ (t = "running" => r.op = "status") =>
                /\ [r EXCEPT !.pc = "event", !.to = t] \in AimedCall
                /\ [r EXCEPT !.pc = "event", !.from = f, !.to = t] \in AimedCall
           /\ r.op = "status" => [r EXCEPT !.pc = "read", !.from = f] \in AimedCall
           /\ r.op = "consume" => [r EXCEPT !.pc = "read", !.used = 0] \in AimedCall
           /\ r.op = "approve" => [r EXCEPT !.pc = "read"] \in AimedCall
           /\ r.op = "publish" => /\ [r EXCEPT !.pc = "write"] \in AimedCall
                                  /\ [r EXCEPT !.pc = "record"] \in AimedCall
           /\ \A S \in SUBSET Agents : r.op = "agents" => [r EXCEPT !.left = S] \in AimedCall
<1>1. r \in Call /\ Aimed(r)
  BY DEF AimedCall
<1>2. ASSUME r.op \in {"create", "mark", "status"}, t = "running" => r.op = "status"
      PROVE  [r EXCEPT !.pc = "event", !.to = t] \in AimedCall
  BY <1>1, <1>2 DEF AimedCall, Aimed, Call, GatewayOps
<1>3. ASSUME r.op \in {"create", "mark", "status"}, t = "running" => r.op = "status"
      PROVE  [r EXCEPT !.pc = "event", !.from = f, !.to = t] \in AimedCall
  BY <1>1, <1>3 DEF AimedCall, Aimed, Call, GatewayOps
<1>4. ASSUME r.op = "status" PROVE [r EXCEPT !.pc = "read", !.from = f] \in AimedCall
  BY <1>1, <1>4 DEF AimedCall, Aimed, Call, GatewayOps
<1>5. ASSUME r.op = "consume" PROVE [r EXCEPT !.pc = "read", !.used = 0] \in AimedCall
  <2>1. 0 \in 0 .. 1
    OBVIOUS
  <2>2. [r EXCEPT !.pc = "read", !.used = 0] \in Call
    BY <1>1, <2>1 DEF Call
  <2>3. Aimed([r EXCEPT !.pc = "read", !.used = 0])
    BY <1>1, <1>5 DEF Aimed, Call, GatewayOps
  <2> QED BY <2>2, <2>3 DEF AimedCall
<1>6. ASSUME r.op = "approve" PROVE [r EXCEPT !.pc = "read"] \in AimedCall
  BY <1>1, <1>6 DEF AimedCall, Aimed, Call, GatewayOps
<1>7. ASSUME r.op = "publish" PROVE [r EXCEPT !.pc = "write"] \in AimedCall /\ [r EXCEPT !.pc = "record"] \in AimedCall
  BY <1>1, <1>7 DEF AimedCall, Aimed, Call, GatewayOps
<1>8. ASSUME NEW S \in SUBSET Agents, r.op = "agents" PROVE [r EXCEPT !.left = S] \in AimedCall
  BY <1>1, <1>8 DEF AimedCall, Aimed, Call, GatewayOps
<1> QED BY <1>2, <1>3, <1>4, <1>5, <1>6, <1>7, <1>8

-----------------------------------------------------------------------------
(* What each statement does to the row of a gateway *)

SameBut(g, cred, life, seen) ==
    /\ gateways'[g].stored = gateways[g].stored /\ gateways'[g].initialized = gateways[g].initialized
    /\ gateways'[g].cred = cred /\ gateways'[g].life = life /\ gateways'[g].seen = seen

CreatedRow(g) ==
    /\ ~gateways[g].stored /\ gateways'[g].stored /\ gateways'[g].life = "provisioned"
    /\ gateways'[g].initialized = None /\ gateways'[g].cred = None /\ gateways'[g].seen = None

RunningRow(g, id) ==
    /\ gateways[g].stored /\ gateways'[g].stored /\ gateways'[g].life = "running"
    /\ gateways'[g].cred = gateways[g].cred /\ gateways'[g].seen = id
    /\ gateways'[g].initialized = InitializedAt(gateways[g], id)

RowMove(g) ==
    \/ gateways'[g] = gateways[g]
    \/ CreatedRow(g)
    \/ SameBut(g, gateways[g].cred, gateways[g].life, gateways[g].seen)
    \/ \E c \in Callers : Active(c) /\ SameBut(g, call[c].id, gateways[g].life, gateways[g].seen)
    \/ /\ gateways[g].life = "provisioned"
       /\ SameBut(g, gateways[g].cred, "initializing", gateways[g].seen)
    \/ \E c \in Callers : Active(c) /\ RunningRow(g, call[c].id)

\* Writing one row leaves the others alone.
LEMMA OneRow ==
    ASSUME gateways \in [Gateways -> Row], NEW g \in Gateways, NEW row \in Row,
           gateways' = gateways \/ gateways' = [gateways EXCEPT ![g] = row]
    PROVE  /\ gateways' \in [Gateways -> Row]
           /\ \A f \in Gateways : f # g => gateways'[f] = gateways[f]
           /\ gateways'[g] = gateways[g] \/ gateways'[g] = row
           /\ gateways' = [gateways EXCEPT ![g] = row] => gateways'[g] = row
OBVIOUS

\* A call on a gateway
LEMMA CallOnGateway ==
    ASSUME Typed, NEW c \in Callers, call[c].op \in GatewayOps
    PROVE  /\ Active(c) /\ call[c] \in AimedCall /\ call[c].gateway \in Gateways /\ call[c].id \in Nat
           /\ gateways[call[c].gateway] \in Row
BY DEF Typed, AimedCall, Aimed, Call, Active, GatewayOps

others_gateways == <<tokens, events, agents, plans, published, clock>>

\* create_gateway stores a row that was not there.
LEMMA CreateGatewayEffect ==
    ASSUME Typed, NEW c \in Callers, NEW outcome \in Outcomes, CreateGateway(c, outcome)
    PROVE  /\ Typed' /\ UNCHANGED others_gateways /\ call[c].op = "create"
           /\ \A g \in Gateways : RowMove(g)
           /\ \/ Ends(c, FALSE)
              \/ Stays(c) /\ call'[c].pc = "event" /\ call'[c].to = "provisioned"
<1> DEFINE g == call[c].gateway
           row == [GatewayRow EXCEPT !.stored = TRUE, !.boot = TRUE, !.life = "provisioned"]
           r == [call[c] EXCEPT !.pc = "event", !.to = "provisioned"]
<1>1. call[c].op = "create" /\ UNCHANGED others_gateways /\ faults' \in 0 .. MaxFaults
  BY FaultsType DEF CreateGateway, Typed, others_gateways
<1>2. /\ Active(c) /\ call[c] \in AimedCall /\ g \in Gateways /\ gateways \in [Gateways -> Row]
      /\ FALSE \in BOOLEAN
  BY <1>1, CallOnGateway DEF GatewayOps, Typed
<1>3. /\ row \in Row /\ row.stored /\ row.life = "provisioned"
      /\ row.initialized = None /\ row.cred = None /\ row.seen = None
  BY RowTypes DEF Row, Lifecycles, GatewayRow
<1>4. r \in AimedCall
  BY <1>1, <1>2, NextCalls DEF Lifecycles
<1>5. /\ r.op = call[c].op /\ r.id = call[c].id /\ r.gateway = call[c].gateway /\ r.token = call[c].token
      /\ r.agents = call[c].agents /\ r.pc = "event" /\ r.to = "provisioned"
  BY <1>2 DEF AimedCall, Call
<1>6. \/ gateways' = gateways /\ Return(c, FALSE)
      \/ ~gateways[g].stored /\ Onward(c, outcome, r)
         /\ (gateways' = gateways \/ gateways' = [gateways EXCEPT ![g] = row])
  BY DEF CreateGateway, Committed
<1> HIDE DEF row, r, g
<1>7. /\ gateways' \in [Gateways -> Row] /\ \A f \in Gateways : f # g => gateways'[f] = gateways[f]
      /\ gateways'[g] = gateways[g] \/ (~gateways[g].stored /\ gateways'[g] = row)
  BY <1>2, <1>3, <1>6, OneRow
<1>8. \A f \in Gateways : RowMove(f)
  BY <1>3, <1>7 DEF RowMove, CreatedRow
<1>9. /\ call' \in [Callers -> AimedCall] /\ answers' \subseteq AnswerRow
      /\ \/ Ends(c, FALSE)
         \/ Stays(c) /\ call'[c].pc = "event" /\ call'[c].to = "provisioned"
  <2>1. CASE Return(c, FALSE)
    BY <1>2, <2>1, ReturnEffect
  <2>2. CASE Onward(c, outcome, r)
    BY <1>2, <1>4, <1>5, <2>2, OnwardEffect
  <2> QED BY <1>6, <2>1, <2>2
<1> QED BY <1>1, <1>7, <1>8, <1>9 DEF Typed, others_gateways, plans, published

\* The fields of the rows the statements write
LEMMA RowFields ==
    ASSUME NEW row \in Row, NEW n \in Nat
    PROVE  /\ [row EXCEPT !.boot = FALSE] \in Row
           /\ [row EXCEPT !.cred = n] \in Row
           /\ [row EXCEPT !.life = "initializing"] \in Row
           /\ [row EXCEPT !.life = "running", !.seen = n, !.initialized = InitializedAt(row, n)] \in Row
<1>1. InitializedAt(row, n) \in Nat
  BY DEF InitializedAt, Row
<1>2. [row EXCEPT !.boot = FALSE] \in Row
  BY DEF Row
<1>3. [row EXCEPT !.cred = n] \in Row
  BY DEF Row
<1>4. [row EXCEPT !.life = "initializing"] \in Row
  BY DEF Row, Lifecycles
<1>5. [row EXCEPT !.life = "running", !.seen = n, !.initialized = InitializedAt(row, n)] \in Row
  <2> DEFINE i == InitializedAt(row, n)
  <2> HIDE DEF i
  <2>1. [row EXCEPT !.life = "running", !.seen = n, !.initialized = i] \in Row
    BY <1>1 DEF Row, Lifecycles, i
  <2> QED BY <2>1 DEF i
<1> QED BY <1>2, <1>3, <1>4, <1>5

\* consume_bootstrap_token clears the bootstrap token of one row.
LEMMA ConsumeBootstrapTokenEffect ==
    ASSUME Typed, NEW c \in Callers, NEW outcome \in Outcomes, ConsumeBootstrapToken(c, outcome)
    PROVE  /\ Typed' /\ UNCHANGED others_gateways /\ call[c].op = "bootstrap"
           /\ \A g \in Gateways : RowMove(g)
           /\ \E ok \in BOOLEAN : Ends(c, ok)
<1> DEFINE g == call[c].gateway
           row == [gateways[g] EXCEPT !.boot = FALSE]
           ok == outcome = "ok" /\ BootstrapConsumable(gateways[g])
<1>1. call[c].op = "bootstrap" /\ UNCHANGED others_gateways /\ faults' \in 0 .. MaxFaults
  BY FaultsType DEF ConsumeBootstrapToken, Typed, others_gateways
<1>2. /\ Active(c) /\ g \in Gateways /\ gateways \in [Gateways -> Row] /\ ok \in BOOLEAN
      /\ gateways[g] \in Row
  BY <1>1, CallOnGateway DEF GatewayOps, Typed, BootstrapConsumable
<1>3. row \in Row
  BY <1>2, RowFields
<1>4. gateways'[g] = row => SameBut(g, gateways[g].cred, gateways[g].life, gateways[g].seen)
  BY <1>2 DEF Row, SameBut
<1>5. Return(c, ok) /\ (gateways' = gateways \/ gateways' = [gateways EXCEPT ![g] = row])
  BY DEF ConsumeBootstrapToken, Committed
<1> HIDE DEF row, g, ok
<1>6. gateways' \in [Gateways -> Row] /\ \A f \in Gateways : RowMove(f)
  BY <1>2, <1>3, <1>4, <1>5, OneRow DEF RowMove
<1>7. call' \in [Callers -> AimedCall] /\ answers' \subseteq AnswerRow /\ Ends(c, ok)
  BY <1>2, <1>5, ReturnEffect
<1> QED BY <1>1, <1>2, <1>6, <1>7 DEF Typed, others_gateways, plans, published

\* update_gateway_credential replaces the credential of one row.
LEMMA UpdateGatewayCredentialEffect ==
    ASSUME Typed, NEW c \in Callers, NEW outcome \in Outcomes, UpdateGatewayCredential(c, outcome)
    PROVE  /\ Typed' /\ UNCHANGED others_gateways /\ call[c].op = "credential"
           /\ \A g \in Gateways : RowMove(g)
           /\ \E ok \in BOOLEAN : Ends(c, ok) /\ (ok => gateways'[call[c].gateway].cred = call[c].id)
<1> DEFINE g == call[c].gateway
           row == [gateways[g] EXCEPT !.cred = call[c].id]
           ok == outcome = "ok" /\ gateways[g].stored
<1>1. call[c].op = "credential" /\ UNCHANGED others_gateways /\ faults' \in 0 .. MaxFaults
  BY FaultsType DEF UpdateGatewayCredential, Typed, others_gateways
<1>2. /\ Active(c) /\ g \in Gateways /\ gateways \in [Gateways -> Row]
      /\ gateways[g] \in Row /\ call[c].id \in Nat
  BY <1>1, CallOnGateway DEF GatewayOps, Typed
<1>3. row \in Row /\ ok \in BOOLEAN
  BY <1>2, RowFields
<1>4. gateways'[g] = row => SameBut(g, call[c].id, gateways[g].life, gateways[g].seen)
  BY <1>2 DEF Row, SameBut
<1>5. /\ Return(c, ok)
      /\ gateways' = gateways \/ gateways' = [gateways EXCEPT ![g] = row]
      /\ ok => gateways' = [gateways EXCEPT ![g] = row]
  BY DEF UpdateGatewayCredential, Committed
<1> HIDE DEF row, g, ok
<1>6. /\ gateways' \in [Gateways -> Row] /\ \A f \in Gateways : RowMove(f)
      /\ ok => gateways'[g] = row
  BY <1>2, <1>3, <1>4, <1>5, OneRow DEF RowMove
<1>7. call' \in [Callers -> AimedCall] /\ answers' \subseteq AnswerRow /\ Ends(c, ok)
  BY <1>2, <1>3, <1>5, ReturnEffect
<1>8. ok => gateways'[call[c].gateway].cred = call[c].id
  BY <1>4, <1>6 DEF SameBut, g
<1> QED BY <1>1, <1>3, <1>6, <1>7, <1>8 DEF Typed, others_gateways, plans, published

\* mark_gateway_initializing moves one row from provisioned to initializing.
LEMMA MarkGatewayInitializingEffect ==
    ASSUME Typed, NEW c \in Callers, NEW outcome \in Outcomes, MarkGatewayInitializing(c, outcome)
    PROVE  /\ Typed' /\ UNCHANGED others_gateways /\ call[c].op = "mark"
           /\ \A g \in Gateways : RowMove(g)
           /\ \/ \E ok \in BOOLEAN : Ends(c, ok)
              \/ Stays(c) /\ call'[c].pc = "event" /\ call'[c].to = "initializing"
<1> DEFINE g == call[c].gateway
           row == [gateways[g] EXCEPT !.life = "initializing"]
           r == [call[c] EXCEPT !.pc = "event", !.from = "provisioned", !.to = "initializing"]
<1>1. call[c].op = "mark" /\ UNCHANGED others_gateways /\ faults' \in 0 .. MaxFaults
  BY FaultsType DEF MarkGatewayInitializing, Typed, others_gateways
<1>2. /\ Active(c) /\ call[c] \in AimedCall /\ g \in Gateways /\ gateways \in [Gateways -> Row]
      /\ gateways[g] \in Row
  BY <1>1, CallOnGateway DEF GatewayOps, Typed
<1>3. row \in Row
  BY <1>2, RowFields
<1>4. gateways'[g] = row => SameBut(g, gateways[g].cred, "initializing", gateways[g].seen)
  BY <1>2 DEF Row, SameBut
<1>5. r \in AimedCall
  BY <1>1, <1>2, NextCalls DEF Lifecycles
<1>6. /\ r.op = call[c].op /\ r.id = call[c].id /\ r.gateway = call[c].gateway /\ r.token = call[c].token
      /\ r.agents = call[c].agents /\ r.pc = "event" /\ r.to = "initializing"
  BY <1>2 DEF AimedCall, Call
<1>7. \/ gateways' = gateways /\ Return(c, outcome = "ok")
      \/ gateways[g].life = "provisioned" /\ Onward(c, outcome, r)
         /\ (gateways' = gateways \/ gateways' = [gateways EXCEPT ![g] = row])
  BY DEF MarkGatewayInitializing, Committed, Last, Markable
<1> HIDE DEF row, r, g
<1>8. gateways' \in [Gateways -> Row] /\ \A f \in Gateways : RowMove(f)
  BY <1>2, <1>3, <1>4, <1>7, OneRow DEF RowMove
<1>9. /\ call' \in [Callers -> AimedCall] /\ answers' \subseteq AnswerRow
      /\ \/ \E ok \in BOOLEAN : Ends(c, ok)
         \/ Stays(c) /\ call'[c].pc = "event" /\ call'[c].to = "initializing"
  <2>1. CASE Return(c, outcome = "ok")
    BY <1>2, <2>1, ReturnEffect
  <2>2. CASE Onward(c, outcome, r)
    BY <1>2, <1>5, <1>6, <2>2, OnwardEffect
  <2> QED BY <1>7, <2>1, <2>2
<1> QED BY <1>1, <1>8, <1>9 DEF Typed, others_gateways, plans, published

\* The first statement of a report reads the state the gateway is in.
LEMMA ReadLifecycleEffect ==
    ASSUME Typed, NEW c \in Callers, NEW outcome \in Outcomes, ReadLifecycle(c, outcome)
    PROVE  /\ Typed' /\ UNCHANGED tables /\ call[c].op = "status"
           /\ \/ Ends(c, FALSE)
              \/ Stays(c) /\ call'[c].pc = "read" /\ call'[c].from = gateways[call[c].gateway].life
<1> DEFINE r == [call[c] EXCEPT !.pc = "read", !.from = gateways[call[c].gateway].life]
<1>1. call[c].op = "status" /\ UNCHANGED tables /\ UNCHANGED clock /\ faults' \in 0 .. MaxFaults
  BY FaultsType DEF ReadLifecycle, Typed
<1>2. /\ Active(c) /\ call[c] \in AimedCall /\ gateways[call[c].gateway].life \in Lifecycles
  BY <1>1, CallOnGateway DEF GatewayOps, Row
<1>3. r \in AimedCall
  BY <1>1, <1>2, NextCalls
<1>4. /\ r.op = call[c].op /\ r.id = call[c].id /\ r.gateway = call[c].gateway /\ r.token = call[c].token
      /\ r.agents = call[c].agents /\ r.pc = "read" /\ r.from = gateways[call[c].gateway].life
  BY <1>2 DEF AimedCall, Call
<1>5. Onward(c, outcome, r)
  BY DEF ReadLifecycle
<1> HIDE DEF r
<1>6. /\ call' \in [Callers -> AimedCall] /\ answers' \subseteq AnswerRow
      /\ \/ Ends(c, FALSE)
         \/ Stays(c) /\ call'[c].pc = "read" /\ call'[c].from = gateways[call[c].gateway].life
  BY <1>2, <1>3, <1>4, <1>5, OnwardEffect
<1> QED BY <1>1, <1>6 DEF Typed, tables, plans, published

\* The second makes it running, and an event is due if another state was read.
LEMMA UpsertGatewayStatusEffect ==
    ASSUME Typed, NEW c \in Callers, NEW outcome \in Outcomes, UpsertGatewayStatus(c, outcome)
    PROVE  LET g == call[c].gateway IN
           /\ Typed' /\ UNCHANGED others_gateways /\ call[c].op = "status" /\ call[c].pc = "read"
           /\ \A f \in Gateways : RowMove(f)
           /\ \/ Ends(c, FALSE)
              \/ Ends(c, TRUE) /\ (gateways[g].stored => RunningRow(g, call[c].id))
              \/ /\ Stays(c) /\ call'[c].pc = "event" /\ call'[c].to = "running"
                 /\ call'[c].from = call[c].from /\ FirstReport(call[c].from)
                 /\ gateways[g].stored => RunningRow(g, call[c].id)
<1> DEFINE g == call[c].gateway
           row == [gateways[g] EXCEPT !.life = "running", !.seen = call[c].id,
                                      !.initialized = InitializedAt(gateways[g], call[c].id)]
           r == [call[c] EXCEPT !.pc = "event", !.to = "running"]
<1>1. /\ call[c].op = "status" /\ call[c].pc = "read" /\ UNCHANGED others_gateways
      /\ faults' \in 0 .. MaxFaults
  BY FaultsType DEF UpsertGatewayStatus, Typed, others_gateways
<1>2. /\ Active(c) /\ call[c] \in AimedCall /\ g \in Gateways /\ gateways \in [Gateways -> Row]
      /\ gateways[g] \in Row /\ call[c].id \in Nat
  BY <1>1, CallOnGateway DEF GatewayOps, Typed
<1>3. row \in Row
  BY <1>2, RowFields
<1>4. gateways[g].stored /\ gateways'[g] = row => RunningRow(g, call[c].id)
  <2> DEFINE i == InitializedAt(gateways[g], call[c].id)
  <2>1. row.stored = gateways[g].stored /\ row.life = "running" /\ row.cred = gateways[g].cred
        /\ row.seen = call[c].id /\ row.initialized = i
    <3> HIDE DEF i
    <3>1. row = [gateways[g] EXCEPT !.life = "running", !.seen = call[c].id, !.initialized = i]
      BY DEF i
    <3> QED BY <1>2, <3>1 DEF Row
  <2> HIDE DEF row
  <2> QED BY <2>1 DEF RunningRow
<1>5. r \in AimedCall
  BY <1>1, <1>2, NextCalls DEF Lifecycles
<1>6. /\ r.op = call[c].op /\ r.id = call[c].id /\ r.gateway = call[c].gateway /\ r.token = call[c].token
      /\ r.agents = call[c].agents /\ r.pc = "event" /\ r.to = "running" /\ r.from = call[c].from
  BY <1>2 DEF AimedCall, Call
<1>7. /\ \/ gateways' = gateways
         \/ gateways[g].stored /\ gateways' = [gateways EXCEPT ![g] = row]
      /\ outcome = "ok" /\ gateways[g].stored => gateways' = [gateways EXCEPT ![g] = row]
  BY DEF UpsertGatewayStatus, Committed, Outcomes
<1>8. \/ FirstReport(call[c].from) /\ Onward(c, outcome, r)
      \/ Return(c, outcome = "ok")
  BY DEF UpsertGatewayStatus, Last
<1> HIDE DEF row, r, g
<1>9. /\ gateways' \in [Gateways -> Row] /\ \A f \in Gateways : RowMove(f)
      /\ outcome = "ok" /\ gateways[g].stored => gateways'[g] = row
  BY <1>2, <1>3, <1>4, <1>7, OneRow DEF RowMove
<1>10. outcome = "ok" /\ gateways[g].stored => RunningRow(g, call[c].id)
  BY <1>4, <1>9
<1>11. /\ call' \in [Callers -> AimedCall] /\ answers' \subseteq AnswerRow
       /\ \/ Ends(c, FALSE)
          \/ outcome = "ok" /\ Ends(c, TRUE)
          \/ /\ outcome = "ok" /\ Stays(c) /\ call'[c].pc = "event" /\ call'[c].to = "running"
             /\ call'[c].from = call[c].from /\ FirstReport(call[c].from)
  <2>1. CASE Return(c, outcome = "ok")
    <3>1. CASE outcome = "ok"
      BY <1>2, <2>1, <3>1, ReturnEffect
    <3>2. CASE outcome # "ok"
      BY <1>2, <2>1, <3>2, ReturnEffect
    <3> QED BY <3>1, <3>2
  <2>2. CASE FirstReport(call[c].from) /\ Onward(c, outcome, r)
    BY <1>2, <1>5, <1>6, <2>2, OnwardEffect
  <2> QED BY <1>8, <2>1, <2>2
<1>12. Typed'
  BY <1>1, <1>9, <1>11 DEF Typed, others_gateways, plans, published
<1> QED BY <1>1, <1>9, <1>10, <1>11, <1>12 DEF g

\* record_lifecycle_event appends the event that is due and ends the call.
LEMMA RecordLifecycleEventEffect ==
    ASSUME Typed, NEW c \in Callers, NEW outcome \in Outcomes, RecordLifecycleEvent(c, outcome)
    PROVE  /\ Typed' /\ UNCHANGED <<gateways, tokens, agents, plans, published>>
           /\ call[c].pc = "event" /\ call[c].op \in {"create", "mark", "status"}
           /\ call[c].gateway \in Gateways
           /\ \/ UNCHANGED events
              \/ events' = Append(events, [gateway |-> call[c].gateway, from |-> call[c].from,
                                           to |-> call[c].to, by |-> call[c].id])
           /\ \E ok \in BOOLEAN : Ends(c, ok)
<1>1. /\ call[c].pc = "event" /\ UNCHANGED <<gateways, tokens, agents, plans, published, clock>>
      /\ faults' \in 0 .. MaxFaults
      /\ Return(c, outcome = "ok")
  BY FaultsType DEF RecordLifecycleEvent, Typed, Last
<1>2. /\ call[c] \in AimedCall /\ call[c].op \in {"create", "mark", "status"} /\ call[c].gateway \in Gateways
  BY <1>1 DEF Typed, AimedCall, Aimed, GatewayOps
<1> DEFINE e == [gateway |-> call[c].gateway, from |-> call[c].from, to |-> call[c].to, by |-> call[c].id]
<1>3. e \in Event /\ events \in Seq(Event)
  BY <1>2 DEF Typed, AimedCall, Call, Event
<1>4. events' = events \/ events' = Append(events, e)
  BY DEF RecordLifecycleEvent, Committed
<1>5. events' \in Seq(Event)
  <2> HIDE DEF e
  <2> QED BY <1>3, <1>4
<1>6. Active(c)
  BY <1>2 DEF Active
<1>7. /\ call' \in [Callers -> AimedCall] /\ answers' \subseteq AnswerRow
      /\ \E ok \in BOOLEAN : Ends(c, ok)
  BY <1>1, <1>6, ReturnEffect
<1> QED BY <1>1, <1>2, <1>4, <1>5, <1>7 DEF Typed, plans, published

-----------------------------------------------------------------------------
(* What each statement does to the other tables *)

others_tokens == <<gateways, events, agents, plans, published, clock>>

\* An exhausted token stays exhausted.
StaysExhausted == \A k \in TokenKeys : tokens[k].status = "Exhausted" => tokens'[k].status = "Exhausted"

\* Writing one token leaves the others alone.
LEMMA OneToken ==
    ASSUME tokens \in [TokenKeys -> Token], NEW k \in TokenKeys, NEW row \in Token,
           tokens' = tokens \/ tokens' = [tokens EXCEPT ![k] = row],
           tokens[k].status = "Exhausted" => row.status = "Exhausted"
    PROVE  /\ tokens' \in [TokenKeys -> Token] /\ StaysExhausted
           /\ tokens' = [tokens EXCEPT ![k] = row] => tokens'[k] = row
BY DEF StaysExhausted

\* create_enrollment_token stores a token that was not there.
LEMMA CreateEnrollmentTokenEffect ==
    ASSUME Typed, NEW c \in Callers, NEW outcome \in Outcomes, CreateEnrollmentToken(c, outcome)
    PROVE  /\ Typed' /\ UNCHANGED others_tokens /\ call[c].op = "issue" /\ StaysExhausted
           /\ \E ok \in BOOLEAN : Ends(c, ok)
<1> DEFINE k == <<call[c].gateway, clock>>
           row == [tokens[k] EXCEPT !.stored = TRUE]
<1>1. call[c].op = "issue" /\ UNCHANGED others_tokens /\ faults' \in 0 .. MaxFaults
  BY FaultsType DEF CreateEnrollmentToken, Typed, others_tokens
<1>2. /\ Active(c) /\ k \in TokenKeys /\ tokens \in [TokenKeys -> Token] /\ tokens[k] \in Token
  BY <1>1, CallOnGateway DEF GatewayOps, Typed, TokenKeys
<1>3. row \in Token /\ row.status = tokens[k].status
  BY <1>2 DEF Token
<1>4. tokens' = tokens \/ tokens' = [tokens EXCEPT ![k] = row]
  BY DEF CreateEnrollmentToken, Committed
<1>5. \E ok \in BOOLEAN : Return(c, ok)
  BY DEF CreateEnrollmentToken, Last
<1> HIDE DEF row, k
<1>6. tokens' \in [TokenKeys -> Token] /\ StaysExhausted
  BY <1>2, <1>3, <1>4, OneToken
<1>7. /\ call' \in [Callers -> AimedCall] /\ answers' \subseteq AnswerRow
      /\ \E ok \in BOOLEAN : Ends(c, ok)
  BY <1>2, <1>5, ReturnEffect
<1> QED BY <1>1, <1>6, <1>7 DEF Typed, others_tokens, plans, published

\* The SELECT of consume_enrollment_token lets a consumable token through.
LEMMA SelectEnrollmentTokenEffect ==
    ASSUME Typed, NEW c \in Callers, NEW outcome \in Outcomes, SelectEnrollmentToken(c, outcome)
    PROVE  /\ Typed' /\ UNCHANGED tables /\ call[c].op = "consume" /\ call[c].token \in TokenKeys
           /\ \/ Ends(c, FALSE)
              \/ /\ Stays(c) /\ call'[c].pc = "read"
                 /\ tokens[call[c].token].status # "Exhausted"
<1> DEFINE r == [call[c] EXCEPT !.pc = "read", !.used = 0]
<1>1. call[c].op = "consume" /\ UNCHANGED tables /\ UNCHANGED clock /\ faults' \in 0 .. MaxFaults
  BY FaultsType DEF SelectEnrollmentToken, Typed
<1>2. /\ Active(c) /\ call[c] \in AimedCall /\ call[c].token \in TokenKeys
      /\ tokens[call[c].token] \in Token /\ "none" \in Lifecycles
  BY <1>1 DEF Typed, AimedCall, Aimed, Active, Lifecycles
<1>3. r \in AimedCall
  BY <1>1, <1>2, NextCalls
<1>4. /\ r.op = call[c].op /\ r.id = call[c].id /\ r.gateway = call[c].gateway /\ r.token = call[c].token
      /\ r.agents = call[c].agents /\ r.pc = "read"
  BY <1>2 DEF AimedCall, Call
<1>5. \/ Return(c, FALSE)
      \/ Onward(c, outcome, r) /\ tokens[call[c].token].status # "Exhausted"
  <2>1. CASE Consumable(tokens[call[c].token])
    <3>1. tokens[call[c].token].used = 0 /\ tokens[call[c].token].status # "Exhausted"
      BY <1>2, <2>1 DEF Consumable, Token
    <3> QED BY <2>1, <3>1 DEF SelectEnrollmentToken
  <2>2. CASE ~Consumable(tokens[call[c].token])
    BY <2>2 DEF SelectEnrollmentToken
  <2> QED BY <2>1, <2>2
<1> HIDE DEF r
<1>6. /\ call' \in [Callers -> AimedCall] /\ answers' \subseteq AnswerRow
      /\ \/ Ends(c, FALSE)
         \/ /\ Stays(c) /\ call'[c].pc = "read"
            /\ tokens[call[c].token].status # "Exhausted"
  BY <1>2, <1>3, <1>4, <1>5, ReturnEffect, OnwardEffect
<1> QED BY <1>1, <1>2, <1>6 DEF Typed, tables, plans, published

\* Its UPDATE exhausts the token, whatever it has become since.
LEMMA ConsumeEnrollmentTokenEffect ==
    ASSUME Typed, NEW c \in Callers, NEW outcome \in Outcomes, ConsumeEnrollmentToken(c, outcome)
    PROVE  /\ Typed' /\ UNCHANGED others_tokens /\ StaysExhausted
           /\ call[c].op = "consume" /\ call[c].pc = "read" /\ call[c].token \in TokenKeys
           /\ \E ok \in BOOLEAN : Ends(c, ok) /\ (ok => tokens'[call[c].token].status = "Exhausted")
<1> DEFINE k == call[c].token
           row == [tokens[k] EXCEPT !.used = call[c].used + 1, !.status = "Exhausted"]
<1>1. /\ call[c].op = "consume" /\ call[c].pc = "read" /\ UNCHANGED others_tokens
      /\ faults' \in 0 .. MaxFaults
  BY FaultsType DEF ConsumeEnrollmentToken, Typed, others_tokens
<1>2. /\ Active(c) /\ k \in TokenKeys /\ tokens \in [TokenKeys -> Token] /\ tokens[k] \in Token
      /\ call[c].used = 0
  BY <1>1 DEF Typed, AimedCall, Aimed, Active
<1>3. row \in Token /\ row.status = "Exhausted"
  <2>1. call[c].used + 1 \in 0 .. 1
    BY <1>2
  <2> QED BY <1>2, <2>1 DEF Token
<1>4. /\ tokens' = tokens \/ tokens' = [tokens EXCEPT ![k] = row]
      /\ outcome = "ok" => tokens' = [tokens EXCEPT ![k] = row]
      /\ Return(c, outcome = "ok")
  BY DEF ConsumeEnrollmentToken, Committed, Last
<1> HIDE DEF row, k
<1>5. tokens' \in [TokenKeys -> Token] /\ StaysExhausted /\ (outcome = "ok" => tokens'[k].status = "Exhausted")
  BY <1>2, <1>3, <1>4, OneToken
<1>6. /\ call' \in [Callers -> AimedCall] /\ answers' \subseteq AnswerRow
      /\ \E ok \in BOOLEAN : Ends(c, ok) /\ (ok => outcome = "ok")
  BY <1>2, <1>4, ReturnEffect
<1>7. \E ok \in BOOLEAN : Ends(c, ok) /\ (ok => tokens'[k].status = "Exhausted")
  BY <1>5, <1>6
<1> QED BY <1>1, <1>2, <1>5, <1>6, <1>7 DEF Typed, others_tokens, plans, published, k

\* A token expires.
LEMMA ExpireTokenEffect ==
    ASSUME Typed, NEW k \in TokenKeys, ExpireToken(k)
    PROVE  /\ Typed' /\ UNCHANGED others_tokens /\ StaysExhausted /\ UNCHANGED <<call, history>>
<1> DEFINE row == [tokens[k] EXCEPT !.valid = FALSE]
<1>1. tokens \in [TokenKeys -> Token] /\ tokens[k] \in Token
  BY DEF Typed
<1>2. row \in Token /\ row.status = tokens[k].status
  BY <1>1 DEF Token
<1>3. tokens' = [tokens EXCEPT ![k] = row] /\ UNCHANGED <<others_tokens, call, faults, history>>
  BY DEF ExpireToken, others_tokens
<1> HIDE DEF row
<1>4. tokens' \in [TokenKeys -> Token] /\ StaysExhausted
  BY <1>1, <1>2, <1>3, OneToken
<1> QED BY <1>3, <1>4 DEF Typed, others_tokens, plans, published, history

others_agents == <<gateways, tokens, events, plans, published, clock>>

\* What the statements of a report leave: one agent's row is this call's.
LEMMA UpsertAgentStatusEffect ==
    ASSUME Typed, NEW c \in Callers, NEW a \in Agents, NEW outcome \in Outcomes,
           UpsertAgentStatus(c, a, outcome)
    PROVE  LET mine == agents'[a].report = call[c].id /\ agents'[a].gateway = call[c].gateway IN
           /\ Typed' /\ UNCHANGED others_agents /\ call[c].op = "agents" /\ call[c].gateway \in Gateways
           /\ agents'[a] = agents[a] \/ mine
           /\ \A b \in Agents : b # a => agents'[b] = agents[b]
           /\ \/ Ends(c, FALSE)
              \/ Ends(c, TRUE) /\ mine /\ call[c].left \subseteq {a}
              \/ Stays(c) /\ mine /\ call'[c].left = call[c].left \ {a}
<1> DEFINE row == Reported(agents[a], c)
           r == [call[c] EXCEPT !.left = call[c].left \ {a}]
<1>1. call[c].op = "agents" /\ UNCHANGED others_agents /\ faults' \in 0 .. MaxFaults
  BY FaultsType DEF UpsertAgentStatus, Typed, others_agents
<1>2. /\ Active(c) /\ call[c] \in AimedCall /\ call[c].gateway \in Gateways /\ call[c].id \in Nat
      /\ call[c].left \in SUBSET Agents /\ agents \in [Agents -> AgentStatus]
  BY <1>1, CallOnGateway DEF GatewayOps, Typed, AimedCall, Call
<1>3. row \in AgentStatus /\ row.report = call[c].id /\ row.gateway = call[c].gateway
  BY <1>2 DEF Reported, AgentStatus
<1>4. r \in AimedCall
  <2>1. call[c].left \ {a} \in SUBSET Agents /\ "none" \in Lifecycles
    BY <1>2 DEF Lifecycles
  <2> QED BY <1>1, <1>2, <2>1, NextCalls
<1>5. /\ r.op = call[c].op /\ r.id = call[c].id /\ r.gateway = call[c].gateway /\ r.token = call[c].token
      /\ r.agents = call[c].agents /\ r.left = call[c].left \ {a}
  BY <1>2 DEF AimedCall, Call
<1>6. /\ agents' = agents \/ agents' = [agents EXCEPT ![a] = row]
      /\ outcome = "ok" => agents' = [agents EXCEPT ![a] = row]
      /\ \/ call[c].left \subseteq {a} /\ Return(c, outcome = "ok")
         \/ Onward(c, outcome, r)
  BY DEF UpsertAgentStatus, Committed, Last
<1> HIDE DEF row, r
<1>7. /\ agents' \in [Agents -> AgentStatus]
      /\ agents'[a] = agents[a] \/ agents'[a] = row
      /\ \A b \in Agents : b # a => agents'[b] = agents[b]
      /\ outcome = "ok" => agents'[a] = row
  BY <1>2, <1>3, <1>6
<1>8. /\ call' \in [Callers -> AimedCall] /\ answers' \subseteq AnswerRow
      /\ \/ Ends(c, FALSE)
         \/ outcome = "ok" /\ Ends(c, TRUE) /\ call[c].left \subseteq {a}
         \/ outcome = "ok" /\ Stays(c) /\ call'[c].left = call[c].left \ {a}
  <2>1. CASE call[c].left \subseteq {a} /\ Return(c, outcome = "ok")
    <3>1. CASE outcome = "ok"
      BY <1>2, <2>1, <3>1, ReturnEffect
    <3>2. CASE outcome # "ok"
      BY <1>2, <2>1, <3>2, ReturnEffect
    <3> QED BY <3>1, <3>2
  <2>2. CASE Onward(c, outcome, r)
    BY <1>2, <1>4, <1>5, <2>2, OnwardEffect
  <2> QED BY <1>6, <2>1, <2>2
<1>9. Typed'
  BY <1>1, <1>7, <1>8 DEF Typed, others_agents, plans, published
<1> QED BY <1>1, <1>2, <1>3, <1>7, <1>8, <1>9

others_plan == <<gateways, tokens, events, agents, published, clock>>

\* create_upgrade_plan and the statements of approve_upgrade_plan
LEMMA PlanEffect ==
    ASSUME Typed, NEW c \in Callers, NEW outcome \in Outcomes,
           CreateUpgradePlan(c, outcome) \/ SelectUpgradePlan(c, outcome) \/ ApproveUpgradePlan(c, outcome)
    PROVE  /\ Typed' /\ UNCHANGED others_plan /\ UNCHANGED bindings /\ call[c].op \in {"plan", "approve"}
           /\ \/ plan'.status = plan.status /\ plan'.approvedBy = plan.approvedBy
              \/ plan'.status = "approved" /\ plan'.approvedBy = call[c].id
           /\ \/ Stays(c)
              \/ Ends(c, FALSE)
              \/ Ends(c, TRUE) /\ (call[c].op = "approve" =>
                        plan'.status = "approved" /\ plan'.approvedBy = call[c].id)
<1>1. /\ call[c].op \in {"plan", "approve"} /\ UNCHANGED others_plan /\ UNCHANGED bindings
      /\ faults' \in 0 .. MaxFaults
  BY FaultsType DEF CreateUpgradePlan, SelectUpgradePlan, ApproveUpgradePlan, Typed, others_plan, tables, plans
<1>2. Active(c) /\ call[c] \in AimedCall /\ call[c].id \in Nat /\ plan \in Plan
  BY <1>1 DEF Typed, AimedCall, Call, Active
<1> DEFINE stored == [plan EXCEPT !.stored = TRUE]
           approved == [plan EXCEPT !.status = "approved", !.approvedBy = call[c].id]
           r == [call[c] EXCEPT !.pc = "read"]
<1>3. /\ stored \in Plan /\ stored.status = plan.status /\ stored.approvedBy = plan.approvedBy
      /\ approved \in Plan /\ approved.status = "approved" /\ approved.approvedBy = call[c].id
  BY <1>2 DEF Plan
<1>4. call[c].op = "approve" => r \in AimedCall
  <2>1. "none" \in Lifecycles
    BY DEF Lifecycles
  <2> QED BY <1>2, <2>1, NextCalls
<1>5. /\ r.op = call[c].op /\ r.id = call[c].id /\ r.gateway = call[c].gateway /\ r.token = call[c].token
      /\ r.agents = call[c].agents
  BY <1>2 DEF AimedCall, Call
<1>6. \/ call[c].op = "plan" /\ plan' \in {plan, stored} /\ Return(c, outcome = "ok")
      \/ call[c].op = "approve" /\ plan' = plan /\ (Return(c, FALSE) \/ Onward(c, outcome, r))
      \/ call[c].op = "approve" /\ plan' \in {plan, approved} /\ Return(c, outcome = "ok")
         /\ (outcome = "ok" => plan' = approved)
  BY DEF CreateUpgradePlan, SelectUpgradePlan, ApproveUpgradePlan, Committed, Last, tables, plans
<1> HIDE DEF r, stored, approved
<1>7. ASSUME NEW ok \in BOOLEAN, Return(c, ok)
      PROVE  call' \in [Callers -> AimedCall] /\ answers' \subseteq AnswerRow /\ Ends(c, ok)
  BY <1>2, <1>7, ReturnEffect
<1>8. ASSUME call[c].op = "approve", Onward(c, outcome, r)
      PROVE  /\ call' \in [Callers -> AimedCall] /\ answers' \subseteq AnswerRow
             /\ Ends(c, FALSE) \/ Stays(c)
  BY <1>2, <1>4, <1>5, <1>8, OnwardEffect
<1>9. (outcome = "ok") \in BOOLEAN /\ FALSE \in BOOLEAN
  OBVIOUS
<1>10. call' \in [Callers -> AimedCall] /\ answers' \subseteq AnswerRow /\ plan' \in Plan
  BY <1>2, <1>3, <1>6, <1>7, <1>8, <1>9
<1>11. /\ \/ plan'.status = plan.status /\ plan'.approvedBy = plan.approvedBy
          \/ plan'.status = "approved" /\ plan'.approvedBy = call[c].id
       /\ \/ Stays(c)
          \/ Ends(c, FALSE)
          \/ Ends(c, TRUE) /\ (call[c].op = "approve" =>
                    plan'.status = "approved" /\ plan'.approvedBy = call[c].id)
  <2>1. CASE outcome = "ok"
    BY <1>3, <1>6, <1>7, <1>8, <2>1
  <2>2. CASE outcome # "ok"
    BY <1>3, <1>6, <1>7, <1>8, <2>2
  <2> QED BY <2>1, <2>2
<1> QED BY <1>1, <1>10, <1>11 DEF Typed, others_plan, published

\* bind_gateway_customer replaces the binding of one gateway.
LEMMA BindGatewayCustomerEffect ==
    ASSUME Typed, NEW c \in Callers, NEW outcome \in Outcomes, BindGatewayCustomer(c, outcome)
    PROVE  /\ Typed' /\ UNCHANGED others_plan /\ UNCHANGED plan
           /\ call[c].op = "bind" /\ call[c].gateway \in Gateways
           /\ \A g \in Gateways : bindings'[g] = bindings[g] \/ bindings'[g] = call[c].id
           /\ \/ Ends(c, FALSE)
              \/ Ends(c, TRUE) /\ bindings'[call[c].gateway] = call[c].id
<1>1. call[c].op = "bind" /\ UNCHANGED others_plan /\ UNCHANGED plan /\ faults' \in 0 .. MaxFaults
  BY FaultsType DEF BindGatewayCustomer, Typed, others_plan
<1> DEFINE g == call[c].gateway
           n == call[c].id
<1>2. Active(c) /\ g \in Gateways /\ n \in Nat /\ bindings \in [Gateways -> Nat]
  BY <1>1, CallOnGateway DEF GatewayOps, Typed
<1>3. /\ bindings' = bindings \/ bindings' = [bindings EXCEPT ![g] = n]
      /\ outcome = "ok" => bindings' = [bindings EXCEPT ![g] = n]
      /\ Return(c, outcome = "ok")
  BY DEF BindGatewayCustomer, Committed, Last
<1> HIDE DEF g, n
<1>4. /\ bindings' \in [Gateways -> Nat]
      /\ \A f \in Gateways : bindings'[f] = bindings[f] \/ bindings'[f] = n
      /\ outcome = "ok" => bindings'[g] = n
  BY <1>2, <1>3
<1>5. /\ call' \in [Callers -> AimedCall] /\ answers' \subseteq AnswerRow
      /\ Ends(c, FALSE) \/ (outcome = "ok" /\ Ends(c, TRUE))
  <2>1. CASE outcome = "ok"
    BY <1>2, <1>3, <2>1, ReturnEffect
  <2>2. CASE outcome # "ok"
    BY <1>2, <1>3, <2>2, ReturnEffect
  <2> QED BY <2>1, <2>2
<1>6. Typed'
  BY <1>1, <1>4, <1>5 DEF Typed, others_plan, published
<1> QED BY <1>1, <1>2, <1>4, <1>5, <1>6 DEF g, n

others_release == <<gateways, tokens, events, agents, plans, backend, clock>>

Cleared(c) == artifact'.state = "partial" /\ artifact'.by = call[c].id
              /\ artifact'.alone = ~\E d \in Callers : Writing(d)
Whole(c) == artifact'.state = "complete" /\ artifact'.by = call[c].id /\ artifact'.alone

\* fs::write empties the file.
LEMMA TruncateArtifactEffect ==
    ASSUME Typed, NEW c \in Callers, NEW outcome \in Outcomes, TruncateArtifact(c, outcome)
    PROVE  /\ Typed' /\ UNCHANGED others_release /\ UNCHANGED releases
           /\ call[c].op = "publish" /\ call[c].pc = "start" /\ backend = "local"
           /\ UNCHANGED artifact \/ Cleared(c)
           /\ \/ Ends(c, FALSE)
              \/ Stays(c) /\ Cleared(c) /\ call'[c].pc = "write"
<1> DEFINE new == [state |-> "partial", by |-> call[c].id, alone |-> ~\E d \in Callers : Writing(d)]
           r == [call[c] EXCEPT !.pc = "write"]
<1>1. /\ call[c].op = "publish" /\ call[c].pc = "start" /\ backend = "local"
      /\ UNCHANGED others_release /\ UNCHANGED releases /\ faults' \in 0 .. MaxFaults
  BY FaultsType DEF TruncateArtifact, Typed, others_release, others
<1>2. Active(c) /\ call[c] \in AimedCall /\ call[c].id \in Nat /\ "none" \in Lifecycles /\ artifact \in Artifact
  BY <1>1 DEF Typed, AimedCall, Call, Active, Lifecycles
<1>3. /\ new \in Artifact /\ new.state = "partial" /\ new.by = call[c].id
      /\ new.alone = ~\E d \in Callers : Writing(d)
  BY <1>2 DEF Artifact
<1>4. r \in AimedCall
  BY <1>1, <1>2, NextCalls
<1>5. /\ r.op = call[c].op /\ r.id = call[c].id /\ r.gateway = call[c].gateway /\ r.token = call[c].token
      /\ r.agents = call[c].agents /\ r.pc = "write"
  BY <1>2 DEF AimedCall, Call
<1>6. /\ artifact' = artifact \/ artifact' = new
      /\ outcome = "ok" => artifact' = new
      /\ Onward(c, outcome, r)
  BY DEF TruncateArtifact, Committed
<1> HIDE DEF new, r
<1>7. /\ call' \in [Callers -> AimedCall] /\ answers' \subseteq AnswerRow
      /\ \/ Ends(c, FALSE)
         \/ outcome = "ok" /\ Stays(c) /\ call'[c].pc = "write"
  BY <1>2, <1>4, <1>5, <1>6, OnwardEffect
<1>8. Typed'
  BY <1>1, <1>2, <1>3, <1>6, <1>7 DEF Typed, others_release, plans
<1> QED BY <1>1, <1>3, <1>6, <1>7, <1>8 DEF Cleared

\* fs::write writes it.
LEMMA WriteArtifactEffect ==
    ASSUME Typed, NEW c \in Callers, NEW outcome \in Outcomes, WriteArtifact(c, outcome)
    PROVE  /\ Typed' /\ UNCHANGED others_release /\ UNCHANGED releases
           /\ call[c].op = "publish" /\ call[c].pc = "write"
           /\ artifact'.state \in {"partial", "complete"}
           /\ artifact'.by = artifact.by /\ artifact'.alone = artifact.alone
           /\ \/ Ends(c, FALSE)
              \/ Stays(c) /\ call'[c].pc = "record" /\ (artifact.alone => artifact'.state = "complete")
<1> DEFINE r == [call[c] EXCEPT !.pc = "record"]
<1>1. /\ call[c].op = "publish" /\ call[c].pc = "write"
      /\ UNCHANGED others_release /\ UNCHANGED releases /\ faults' \in 0 .. MaxFaults
  BY FaultsType DEF WriteArtifact, Writing, Typed, others_release, others
<1>2. Active(c) /\ call[c] \in AimedCall /\ "none" \in Lifecycles /\ artifact \in Artifact
  BY <1>1 DEF Typed, AimedCall, Call, Active, Lifecycles
<1>3. PICK state \in {"partial", "complete"} :
        /\ outcome = "ok" /\ artifact.alone => state = "complete"
        /\ artifact' = [artifact EXCEPT !.state = state]
  BY DEF WriteArtifact
<1>4. /\ artifact' \in Artifact /\ artifact'.state = state
      /\ artifact'.by = artifact.by /\ artifact'.alone = artifact.alone
  BY <1>2, <1>3 DEF Artifact
<1>5. r \in AimedCall
  BY <1>1, <1>2, NextCalls
<1>6. /\ r.op = call[c].op /\ r.id = call[c].id /\ r.gateway = call[c].gateway /\ r.token = call[c].token
      /\ r.agents = call[c].agents /\ r.pc = "record"
  BY <1>2 DEF AimedCall, Call
<1>7. Onward(c, outcome, r)
  BY DEF WriteArtifact, Written, Onward
<1> HIDE DEF r
<1>8. /\ call' \in [Callers -> AimedCall] /\ answers' \subseteq AnswerRow
      /\ \/ Ends(c, FALSE)
         \/ outcome = "ok" /\ Stays(c) /\ call'[c].pc = "record"
  BY <1>2, <1>5, <1>6, <1>7, OnwardEffect
<1>9. Typed'
  BY <1>1, <1>4, <1>8 DEF Typed, others_release, plans
<1> QED BY <1>1, <1>3, <1>4, <1>8, <1>9

\* An object appears whole.
LEMMA PutObjectEffect ==
    ASSUME Typed, NEW c \in Callers, NEW outcome \in Outcomes, PutObject(c, outcome)
    PROVE  /\ Typed' /\ UNCHANGED others_release /\ UNCHANGED releases
           /\ call[c].op = "publish" /\ call[c].pc = "start" /\ backend = "object"
           /\ UNCHANGED artifact \/ Whole(c)
           /\ \/ Ends(c, FALSE)
              \/ Stays(c) /\ Whole(c) /\ call'[c].pc = "record"
<1> DEFINE new == [state |-> "complete", by |-> call[c].id, alone |-> TRUE]
           r == [call[c] EXCEPT !.pc = "record"]
<1>1. /\ call[c].op = "publish" /\ call[c].pc = "start" /\ backend = "object"
      /\ UNCHANGED others_release /\ UNCHANGED releases /\ faults' \in 0 .. MaxFaults
  BY FaultsType DEF PutObject, Typed, others_release, others
<1>2. Active(c) /\ call[c] \in AimedCall /\ call[c].id \in Nat /\ "none" \in Lifecycles /\ artifact \in Artifact
  BY <1>1 DEF Typed, AimedCall, Call, Active, Lifecycles
<1>3. new \in Artifact /\ new.state = "complete" /\ new.by = call[c].id /\ new.alone
  BY <1>2 DEF Artifact
<1>4. r \in AimedCall
  BY <1>1, <1>2, NextCalls
<1>5. /\ r.op = call[c].op /\ r.id = call[c].id /\ r.gateway = call[c].gateway /\ r.token = call[c].token
      /\ r.agents = call[c].agents /\ r.pc = "record"
  BY <1>2 DEF AimedCall, Call
<1>6. /\ artifact' = artifact \/ artifact' = new
      /\ outcome = "ok" => artifact' = new
      /\ Onward(c, outcome, r)
  BY DEF PutObject, Committed
<1> HIDE DEF new, r
<1>7. /\ call' \in [Callers -> AimedCall] /\ answers' \subseteq AnswerRow
      /\ \/ Ends(c, FALSE)
         \/ outcome = "ok" /\ Stays(c) /\ call'[c].pc = "record"
  BY <1>2, <1>4, <1>5, <1>6, OnwardEffect
<1>8. Typed'
  BY <1>1, <1>2, <1>3, <1>6, <1>7 DEF Typed, others_release, plans
<1> QED BY <1>1, <1>3, <1>6, <1>7, <1>8 DEF Whole

\* publish_release lists the release.
LEMMA PublishReleaseEffect ==
    ASSUME Typed, NEW c \in Callers, NEW outcome \in Outcomes, PublishRelease(c, outcome)
    PROVE  /\ Typed' /\ UNCHANGED others_release /\ UNCHANGED artifact
           /\ call[c].op = "publish" /\ call[c].pc = "record"
           /\ releases \subseteq releases'
           /\ \/ Ends(c, FALSE)
              \/ Ends(c, TRUE) /\ call[c].id \in releases'
<1>1. /\ call[c].op = "publish" /\ call[c].pc = "record"
      /\ UNCHANGED others_release /\ UNCHANGED artifact /\ faults' \in 0 .. MaxFaults
  BY FaultsType DEF PublishRelease, Typed, others_release, others
<1>2. Active(c) /\ call[c].id \in Nat /\ releases \subseteq Nat
  BY <1>1 DEF Typed, AimedCall, Call, Active
<1>3. /\ releases' = releases \/ releases' = releases \cup {call[c].id}
      /\ outcome = "ok" => releases' = releases \cup {call[c].id}
      /\ Return(c, outcome = "ok")
  BY DEF PublishRelease, Committed, Last
<1>4. /\ call' \in [Callers -> AimedCall] /\ answers' \subseteq AnswerRow
      /\ Ends(c, FALSE) \/ (outcome = "ok" /\ Ends(c, TRUE))
  <2>1. CASE outcome = "ok"
    BY <1>2, <1>3, <2>1, ReturnEffect
  <2>2. CASE outcome # "ok"
    BY <1>2, <1>3, <2>2, ReturnEffect
  <2> QED BY <2>1, <2>2
<1>5. Typed'
  BY <1>1, <1>2, <1>3, <1>4 DEF Typed, others_release, plans
<1> QED BY <1>1, <1>3, <1>4, <1>5

-----------------------------------------------------------------------------
(* Calls begin, go on and end *)

Begins(c) ==
    LET n == Cardinality(DOMAIN since) + 1
    IN  /\ call[c].op = "idle" /\ Others(c)
        /\ call'[c].op # "idle" /\ call'[c].pc = "start" /\ call'[c].id = n
        /\ call'[c].left = call'[c].agents
        /\ call'[c].op = "status" => gateways[call'[c].gateway].stored
        /\ since' = [m \in DOMAIN since \cup {n} |->
                        IF m = n THEN DOMAIN since \ InProgress ELSE since[m]]
        /\ UNCHANGED <<tables, answers>>

\* The number of calls is the number of the last one.
LEMMA CallCount ==
    ASSUME NEW N \in Nat, Numbered(N)
    PROVE  Cardinality(DOMAIN since) = N
<1>1. DOMAIN since = 1 .. N
  BY DEF Numbered
<1>2. Cardinality(1 .. N) = N
  BY FS_Interval
<1> QED BY <1>1, <1>2

\* A handler begins a call of the store.
LEMMA BeginEffect ==
    ASSUME Typed, Calls, NEW c \in Callers, BeginSome(c)
    PROVE  Typed' /\ Begins(c)
<1>1. ASSUME NEW r \in AimedCall, r.op # "idle", r.pc = "start", r.left = r.agents,
             r.op = "status" => gateways[r.gateway].stored, Begin(c, r)
      PROVE  Typed' /\ Begins(c)
  <2> DEFINE n == Cardinality(DOMAIN since) + 1
             q == [r EXCEPT !.id = n]
  <2>1. /\ call[c].op = "idle" /\ UNCHANGED <<tables, clock, faults, answers>>
        /\ call' = [call EXCEPT ![c] = q]
        /\ since' = [m \in DOMAIN since \cup {n} |->
                        IF m = n THEN DOMAIN since \ InProgress ELSE since[m]]
    BY <1>1 DEF Begin
  <2>2. n \in Nat
    BY CallCount DEF Calls
  <2> HIDE DEF n
  <2>3. q \in AimedCall /\ q.op = r.op /\ q.pc = r.pc /\ q.id = n /\ q.left = r.left /\ q.agents = r.agents
        /\ q.gateway = r.gateway
    BY <1>1, <2>2 DEF AimedCall, Aimed, Call, GatewayOps
  <2> HIDE DEF q
  <2>4. call' \in [Callers -> AimedCall] /\ call'[c] = q /\ Others(c)
    BY <2>1, <2>3, OneCall DEF Typed
  <2>5. Typed'
    BY <2>1, <2>4 DEF Typed, tables, plans, published
  <2> QED BY <1>1, <2>1, <2>3, <2>4, <2>5 DEF Begins, n
<1> DEFINE Good(r) == r \in AimedCall /\ r.op # "idle" /\ r.pc = "start" /\ r.left = r.agents
                      /\ (r.op = "status" => gateways[r.gateway].stored) /\ Begin(c, r)
<1>2. ASSUME NEW g \in Gateways,
             \/ AdminCreateGateway(c, g) \/ ProvisionGateway(c, g) \/ StoreCredential(c, g)
             \/ SubmitGatewayStatus(c, g) \/ AdminBindGatewayCustomer(c, g)
      PROVE  \E r : Good(r)
  <2>1. PICK op \in {"create", "issue", "bootstrap", "mark", "credential", "status", "bind"} :
            /\ Begin(c, [Idle EXCEPT !.op = op, !.gateway = g])
            /\ op = "status" => gateways[g].stored
    BY <1>2 DEF AdminCreateGateway, ProvisionGateway, ProvisionCalls, StoreCredential,
                SubmitGatewayStatus, AdminBindGatewayCustomer
  <2> DEFINE r == [Idle EXCEPT !.op = op, !.gateway = g]
  <2>2. /\ r \in AimedCall /\ r.op = op /\ r.pc = "start" /\ r.left = {} /\ r.agents = {} /\ r.gateway = g
    <3>1. r \in AimedCall
      <4>1. Idle \in Call /\ Idle.pc = "start"
        BY RowTypes DEF AimedCall
      <4> QED BY <4>1 DEF AimedCall, Aimed, Call, Ops, GatewayOps
    <3> QED BY <3>1 DEF Idle
  <2> HIDE DEF r
  <2> QED BY <2>1, <2>2 DEF r
<1>3. ASSUME NEW k \in TokenKeys, RegisterGateway(c, k) PROVE \E r : Good(r)
  <2> DEFINE r == [Idle EXCEPT !.op = "consume", !.token = k]
  <2>1. Idle \in Call /\ Idle.pc = "start"
    BY RowTypes DEF AimedCall
  <2>2. r \in AimedCall
    BY <2>1 DEF AimedCall, Aimed, Call, Ops, GatewayOps
  <2>3. r.op = "consume" /\ r.pc = "start" /\ r.left = {} /\ r.agents = {}
    BY DEF Idle
  <2>4. Begin(c, r)
    BY <1>3 DEF RegisterGateway
  <2> HIDE DEF r
  <2> QED BY <2>2, <2>3, <2>4
<1>4. ASSUME NEW g \in Gateways, NEW S \in SUBSET Agents, SubmitAgentStatus(c, g, S) PROVE \E r : Good(r)
  <2> DEFINE r == [Idle EXCEPT !.op = "agents", !.gateway = g, !.agents = S, !.left = S]
  <2>1. Idle \in Call /\ Idle.pc = "start"
    BY RowTypes DEF AimedCall
  <2>2. r \in AimedCall
    BY <2>1 DEF AimedCall, Aimed, Call, Ops, GatewayOps
  <2>3. r.op = "agents" /\ r.pc = "start" /\ r.left = S /\ r.agents = S
    BY DEF Idle
  <2>4. Begin(c, r)
    BY <1>4 DEF SubmitAgentStatus
  <2> HIDE DEF r
  <2> QED BY <2>2, <2>3, <2>4
<1>5. ASSUME AdminCreateUpgradePlan(c) \/ AdminApproveUpgradePlan(c) \/ AdminPublishRelease(c)
      PROVE  \E r : Good(r)
  <2>1. PICK o \in {"plan", "approve", "publish"} : Begin(c, [Idle EXCEPT !.op = o])
    BY <1>5 DEF AdminCreateUpgradePlan, AdminApproveUpgradePlan, AdminPublishRelease
  <2> DEFINE r == [Idle EXCEPT !.op = o]
  <2>2. Idle \in Call /\ Idle.pc = "start"
    BY RowTypes DEF AimedCall
  <2>3. r \in AimedCall
    BY <2>2 DEF AimedCall, Aimed, Call, Ops, GatewayOps
  <2>4. r.op = o /\ r.pc = "start" /\ r.left = {} /\ r.agents = {}
    BY DEF Idle
  <2> HIDE DEF r
  <2> QED BY <2>1, <2>3, <2>4 DEF r
<1>6. \E r : Good(r)
  BY <1>2, <1>3, <1>4, <1>5 DEF BeginSome
<1> QED BY <1>1, <1>6

\* A second passes.
LEMMA TickEffect ==
    ASSUME Typed, Tick
    PROVE  Typed' /\ UNCHANGED <<tables, call, history>>
<1>1. clock' \in Seconds
  BY PgBounds DEF Tick, Typed, Seconds
<1> QED BY <1>1 DEF Tick, Typed, tables, plans, published, history

\* Every step is one of a single call, or of time.
LEMMA CallStep ==
    ASSUME Typed, Calls, Next
    PROVE  /\ Typed'
           /\ \/ \E c \in Callers : Begins(c) \/ Stays(c) \/ \E ok \in BOOLEAN : Ends(c, ok)
              \/ UNCHANGED <<call, history>>
<1>1. ASSUME NEW c \in Callers, NEW outcome \in Outcomes, SomeStatement(c, outcome)
      PROVE  Typed' /\ (Stays(c) \/ \E ok \in BOOLEAN : Ends(c, ok))
  <2>1. TRUE \in BOOLEAN /\ FALSE \in BOOLEAN
    OBVIOUS
  <2>2. CASE CreateGateway(c, outcome)
    BY <2>1, <2>2, CreateGatewayEffect
  <2>3. CASE ConsumeBootstrapToken(c, outcome)
    BY <2>1, <2>3, ConsumeBootstrapTokenEffect
  <2>4. CASE UpdateGatewayCredential(c, outcome)
    BY <2>1, <2>4, UpdateGatewayCredentialEffect
  <2>5. CASE MarkGatewayInitializing(c, outcome)
    BY <2>1, <2>5, MarkGatewayInitializingEffect
  <2>6. CASE ReadLifecycle(c, outcome)
    BY <2>1, <2>6, ReadLifecycleEffect
  <2>7. CASE UpsertGatewayStatus(c, outcome)
    BY <2>1, <2>7, UpsertGatewayStatusEffect
  <2>8. CASE RecordLifecycleEvent(c, outcome)
    BY <2>1, <2>8, RecordLifecycleEventEffect
  <2>9. CASE CreateEnrollmentToken(c, outcome)
    BY <2>1, <2>9, CreateEnrollmentTokenEffect
  <2>10. CASE SelectEnrollmentToken(c, outcome)
    BY <2>1, <2>10, SelectEnrollmentTokenEffect
  <2>11. CASE ConsumeEnrollmentToken(c, outcome)
    BY <2>1, <2>11, ConsumeEnrollmentTokenEffect
  <2>12. CASE BindGatewayCustomer(c, outcome)
    BY <2>1, <2>12, BindGatewayCustomerEffect
  <2>13. CASE TruncateArtifact(c, outcome)
    BY <2>1, <2>13, TruncateArtifactEffect
  <2>14. CASE WriteArtifact(c, outcome)
    BY <2>1, <2>14, WriteArtifactEffect
  <2>15. CASE PutObject(c, outcome)
    BY <2>1, <2>15, PutObjectEffect
  <2>16. CASE PublishRelease(c, outcome)
    BY <2>1, <2>16, PublishReleaseEffect
  <2>17. CASE CreateUpgradePlan(c, outcome) \/ SelectUpgradePlan(c, outcome) \/ ApproveUpgradePlan(c, outcome)
    BY <2>1, <2>17, PlanEffect
  <2>18. ASSUME NEW a \in Agents, UpsertAgentStatus(c, a, outcome)
         PROVE  Typed' /\ (Stays(c) \/ \E ok \in BOOLEAN : Ends(c, ok))
    BY <2>1, <2>18, UpsertAgentStatusEffect
  <2> QED BY <1>1, <2>2, <2>3, <2>4, <2>5, <2>6, <2>7, <2>8, <2>9, <2>10, <2>11, <2>12, <2>13, <2>14, <2>15, <2>16, <2>17, <2>18 DEF SomeStatement
<1>2. ASSUME NEW c \in Callers, BeginSome(c) PROVE Typed' /\ Begins(c)
  BY <1>2, BeginEffect
<1>3. CASE Tick
  BY <1>3, TickEffect
<1>4. ASSUME NEW k \in TokenKeys, ExpireToken(k) PROVE Typed' /\ UNCHANGED <<call, history>>
  BY <1>4, ExpireTokenEffect
<1> QED BY <1>1, <1>2, <1>3, <1>4 DEF Next

\* Calls are numbered in the order they begin.
LEMMA CallsStep == ASSUME Typed, Calls, Next PROVE Calls'
<1>1. PICK N \in Nat : Numbered(N)
  BY DEF Calls
<1>2. CASE UNCHANGED <<call, history>>
  BY <1>1, <1>2 DEF Numbered, Calls, history
<1>3. ASSUME NEW c \in Callers, Stays(c) PROVE Calls'
  <2>1. UNCHANGED <<since, answers>> /\ call'[c].op = call[c].op /\ call'[c].id = call[c].id /\ Others(c)
    BY <1>3 DEF Stays, Same, history
  <2>2. \A d \in Callers : call'[d].op = call[d].op /\ call'[d].id = call[d].id
    BY <2>1 DEF Others
  <2> QED BY <1>1, <2>1, <2>2 DEF Numbered, Calls
<1>4. ASSUME NEW c \in Callers, NEW ok \in BOOLEAN, Ends(c, ok) PROVE Calls'
  <2>1. /\ call'[c] = Idle /\ Others(c) /\ UNCHANGED since /\ call[c].op # "idle" /\ call'[c].op = "idle"
    BY <1>4, RowTypes DEF Ends, Active
  <2>2. \A a \in answers' : a \in answers \/ a.id = call[c].id
    BY <1>4 DEF Ends, Answer
  <2>3. Idle.id = 0 /\ 0 \notin 1 .. N
    BY DEF Idle, None
  <2>4. \A d \in Callers : call'[d].op # "idle" => d # c /\ call'[d] = call[d]
    BY <2>1 DEF Others
  <2>5. \A d \in Callers : call'[d].op # "idle" =>
            \A e \in Callers : call'[e].id = call'[d].id => e = d
    BY <1>1, <2>1, <2>3, <2>4 DEF Numbered, Others
  <2>6. \A d \in Callers : call'[d].op # "idle" => \A a \in answers' : a.id # call'[d].id
    BY <1>1, <2>1, <2>2, <2>4 DEF Numbered
  <2>7. Numbered(N)'
    BY <1>1, <2>1, <2>2, <2>4, <2>5, <2>6 DEF Numbered
  <2> QED BY <2>7 DEF Calls
<1>5. ASSUME NEW c \in Callers, Begins(c) PROVE Calls'
  <2>1. Cardinality(DOMAIN since) + 1 = N + 1
    BY <1>1, CallCount
  <2>2. /\ call[c].op = "idle" /\ Others(c) /\ call'[c].op # "idle" /\ call'[c].id = N + 1
        /\ since' = [m \in DOMAIN since \cup {N + 1} |->
                        IF m = N + 1 THEN DOMAIN since \ InProgress ELSE since[m]]
        /\ answers' = answers
    BY <1>5, <2>1 DEF Begins
  <2>3. /\ DOMAIN since' = 1 .. N + 1
        /\ \A m \in 1 .. N : since'[m] = since[m]
        /\ since'[N + 1] = (1 .. N) \ InProgress
    BY <1>1, <2>2 DEF Numbered
  <2>4. \A m \in 1 .. N + 1 : since'[m] \subseteq 1 .. (m - 1)
    <3>1. \A m \in 1 .. N + 1 : m = N + 1 \/ m \in 1 .. N
      OBVIOUS
    <3>2. (1 .. N) \ InProgress \subseteq 1 .. ((N + 1) - 1)
      OBVIOUS
    <3> QED BY <1>1, <2>3, <3>1, <3>2 DEF Numbered
  <2>5. \A d \in Callers : call'[d].op # "idle" =>
            /\ call'[d].id \in 1 .. N + 1
            /\ d # c => call'[d] = call[d] /\ call[d].id \in 1 .. N /\ call[d].id \in InProgress
    BY <1>1, <2>2 DEF Numbered, Others, InProgress
  <2>6. \A d \in Callers : call'[d].op # "idle" => \A m \in 1 .. N + 1 : call'[d].id \notin since'[m]
    <3>1. \A m \in 1 .. N + 1 : N + 1 \notin since'[m]
      BY <2>4
    <3>2. \A m \in 1 .. N + 1 : m = N + 1 \/ m \in 1 .. N
      OBVIOUS
    <3>3. ASSUME NEW d \in Callers, call'[d].op # "idle", d # c, NEW m \in 1 .. N + 1
          PROVE  call'[d].id \notin since'[m]
      BY <1>1, <2>2, <2>3, <2>5, <3>2, <3>3 DEF Numbered
    <3> QED BY <2>2, <3>1, <3>3
  <2>7. \A d \in Callers : call[d].id # N + 1
    <3>1. \A d \in Callers : call[d].op = "idle" => call[d].id = 0
      BY DEF Typed, AimedCall, Aimed, Idle, None
    <3> QED BY <1>1, <3>1 DEF Numbered
  <2>8. \A d, e \in Callers : call'[d].op # "idle" /\ call'[e].id = call'[d].id => e = d
    BY <1>1, <2>2, <2>5, <2>7 DEF Numbered, Others
  <2>9. \A a \in answers : a.id \in 1 .. N + 1 /\ a.id # N + 1
    BY <1>1 DEF Numbered
  <2>10. \A d \in Callers : call'[d].op # "idle" => \A a \in answers' : a.id # call'[d].id
    BY <1>1, <2>2, <2>5, <2>9 DEF Numbered
  <2>11. Numbered(N + 1)'
    BY <2>2, <2>3, <2>4, <2>5, <2>6, <2>8, <2>9, <2>10 DEF Numbered
  <2> QED BY <2>11 DEF Calls
<1> QED BY <1>2, <1>3, <1>4, <1>5, CallStep

-----------------------------------------------------------------------------
(* What the statements do, table by table *)

Mine(c, n) == agents'[n].report = call[c].id /\ agents'[n].gateway = call[c].gateway

Recorded(c) ==
    /\ call[c].pc = "event" /\ call[c].op \in {"create", "mark", "status"}
    /\ call[c].gateway \in Gateways /\ UNCHANGED gateways
    /\ events' = Append(events, [gateway |-> call[c].gateway, from |-> call[c].from,
                                 to |-> call[c].to, by |-> call[c].id])

\* Of each row, what it was or what the call wrote
Tables(c) ==
    /\ \A g \in Gateways : RowMove(g)
    /\ StaysExhausted
    /\ UNCHANGED events \/ Recorded(c)
    /\ \A n \in Agents : agents'[n] = agents[n] \/ (call[c].op = "agents" /\ Mine(c, n))
    /\ \A g \in Gateways : bindings'[g] = bindings[g] \/ bindings'[g] = call[c].id
    /\ \/ plan'.status = plan.status /\ plan'.approvedBy = plan.approvedBy
       \/ plan'.status = "approved" /\ plan'.approvedBy = call[c].id
    /\ call[c].op # "publish" => UNCHANGED published

\* What a call that is acknowledged has written
Did(c) ==
    LET g == call[c].gateway IN
    /\ call[c].op = "consume" => call[c].pc = "read" /\ call[c].token \in TokenKeys
                                 /\ tokens'[call[c].token].status = "Exhausted"
    /\ call[c].op = "credential" => gateways'[g].cred = call[c].id
    /\ call[c].op = "status" => \/ call[c].pc = "event" /\ UNCHANGED gateways
                                \/ gateways[g].stored => gateways'[g].seen = call[c].id
    /\ call[c].op = "bind" => bindings'[g] = call[c].id
    /\ call[c].op = "approve" => plan'.status = "approved" /\ plan'.approvedBy = call[c].id
    /\ call[c].op = "agents" => \A n \in call[c].agents :
            Mine(c, n) \/ (n \notin call[c].left /\ agents'[n] = agents[n])

\* What a call that goes on has read and written
Goes(c) ==
    LET g == call[c].gateway IN
    /\ call[c].op = "consume" => tokens[call[c].token].status # "Exhausted"
    /\ call[c].op = "status" =>
        \/ call'[c].pc = "read" /\ call'[c].from = gateways[g].life /\ UNCHANGED gateways
        \/ /\ call[c].pc = "read" /\ call'[c].pc = "event" /\ call'[c].from = call[c].from
           /\ FirstReport(call[c].from)
           /\ gateways[g].stored => RunningRow(g, call[c].id)
    /\ call[c].op = "agents" => \A n \in call[c].agents \ call'[c].left :
            Mine(c, n) \/ (n \notin call[c].left /\ agents'[n] = agents[n])

Moves(c) ==
    /\ Active(c) /\ Tables(c)
    /\ \/ Ends(c, FALSE)
       \/ Ends(c, TRUE) /\ Did(c)
       \/ Stays(c) /\ Goes(c)

\* Every statement is a move of its call.
LEMMA StatementStep ==
    ASSUME Typed, NEW c \in Callers, NEW outcome \in Outcomes, SomeStatement(c, outcome),
           call[c].op # "publish"
    PROVE  Moves(c)
<1>1. \A g \in Gateways : gateways'[g] = gateways[g] => RowMove(g)
  BY DEF RowMove
<1>2. UNCHANGED tokens => StaysExhausted
  BY DEF StaysExhausted
<1>3. call[c].gateway \in Gateways \cup {None} /\ call[c].agents \subseteq Agents /\ call[c].left \subseteq Agents
  BY DEF Typed, AimedCall, Call
<1>4. CASE CreateGateway(c, outcome)
  BY <1>1, <1>2, <1>3, <1>4, CreateGatewayEffect DEF Moves, Active, Tables, Did, Goes, RunningRow, others_gateways, plans, published
<1>5. CASE ConsumeBootstrapToken(c, outcome)
  BY <1>1, <1>2, <1>3, <1>5, ConsumeBootstrapTokenEffect DEF Moves, Active, Tables, Did, Goes, RunningRow, others_gateways, plans, published
<1>6. CASE UpdateGatewayCredential(c, outcome)
  BY <1>1, <1>2, <1>3, <1>6, UpdateGatewayCredentialEffect DEF Moves, Active, Tables, Did, Goes, RunningRow, others_gateways, plans, published
<1>7. CASE MarkGatewayInitializing(c, outcome)
  BY <1>1, <1>2, <1>3, <1>7, MarkGatewayInitializingEffect DEF Moves, Active, Tables, Did, Goes, RunningRow, others_gateways, plans, published
<1>8. CASE UpsertGatewayStatus(c, outcome)
  BY <1>1, <1>2, <1>3, <1>8, UpsertGatewayStatusEffect DEF Moves, Active, Tables, Did, Goes, RunningRow, others_gateways, plans, published
<1>9. CASE ReadLifecycle(c, outcome)
  BY <1>1, <1>2, <1>3, <1>9, ReadLifecycleEffect DEF Moves, Active, Tables, Did, Goes, tables, plans, published
<1>10. CASE SelectEnrollmentToken(c, outcome)
  BY <1>1, <1>2, <1>3, <1>10, SelectEnrollmentTokenEffect DEF Moves, Active, Tables, Did, Goes, tables, plans, published
<1>11. CASE RecordLifecycleEvent(c, outcome)
  BY <1>1, <1>2, <1>3, <1>11, RecordLifecycleEventEffect DEF Moves, Active, Tables, Recorded, Did, plans, published
<1>12. CASE CreateEnrollmentToken(c, outcome)
  BY <1>1, <1>2, <1>3, <1>12, CreateEnrollmentTokenEffect DEF Moves, Active, Tables, Did, Goes, others_tokens, plans, published
<1>13. CASE ConsumeEnrollmentToken(c, outcome)
  BY <1>1, <1>2, <1>3, <1>13, ConsumeEnrollmentTokenEffect DEF Moves, Active, Tables, Did, Goes, others_tokens, plans, published
<1>14. CASE BindGatewayCustomer(c, outcome)
  BY <1>1, <1>2, <1>3, <1>14, BindGatewayCustomerEffect DEF Moves, Active, Tables, Did, Goes, others_plan, published
<1>15. CASE CreateUpgradePlan(c, outcome) \/ SelectUpgradePlan(c, outcome) \/ ApproveUpgradePlan(c, outcome)
  BY <1>1, <1>2, <1>3, <1>15, PlanEffect DEF Moves, Active, Tables, Did, Goes, others_plan, published
<1>16. ASSUME NEW a \in Agents, UpsertAgentStatus(c, a, outcome) PROVE Moves(c)
  <2>1. /\ UNCHANGED others_agents /\ call[c].op = "agents"
        /\ agents'[a] = agents[a] \/ Mine(c, a)
        /\ \A b \in Agents : b # a => agents'[b] = agents[b]
        /\ \/ Ends(c, FALSE)
           \/ Ends(c, TRUE) /\ Mine(c, a) /\ call[c].left \subseteq {a}
           \/ Stays(c) /\ Mine(c, a) /\ call'[c].left = call[c].left \ {a}
    BY <1>16, UpsertAgentStatusEffect DEF Mine
  <2>2. Tables(c)
    BY <1>1, <1>2, <2>1 DEF Tables, others_agents, plans, published
  <2>3. Ends(c, TRUE) /\ Mine(c, a) /\ call[c].left \subseteq {a} => Did(c)
    BY <1>3, <2>1 DEF Did
  <2>4. Mine(c, a) /\ call'[c].left = call[c].left \ {a} => Goes(c)
    BY <1>3, <2>1 DEF Goes
  <2> QED BY <2>1, <2>2, <2>3, <2>4 DEF Moves, Active
<1>17. CASE TruncateArtifact(c, outcome) \/ WriteArtifact(c, outcome) \/ PutObject(c, outcome) \/ PublishRelease(c, outcome)
  BY <1>17 DEF TruncateArtifact, WriteArtifact, Writing, PutObject, PublishRelease
<1> QED BY <1>4, <1>5, <1>6, <1>7, <1>8, <1>9, <1>10, <1>11, <1>12, <1>13, <1>14, <1>15, <1>16, <1>17 DEF SomeStatement

\* A publication leaves the other tables alone.
LEMMA PublicationStep ==
    ASSUME Typed, NEW c \in Callers, NEW outcome \in Outcomes, SomeStatement(c, outcome),
           call[c].op = "publish"
    PROVE  /\ Moves(c)
           /\ \/ TruncateArtifact(c, outcome) \/ WriteArtifact(c, outcome)
              \/ PutObject(c, outcome) \/ PublishRelease(c, outcome)
<1>1. \/ TruncateArtifact(c, outcome) \/ WriteArtifact(c, outcome)
      \/ PutObject(c, outcome) \/ PublishRelease(c, outcome)
  BY DEF SomeStatement, CreateGateway, ConsumeBootstrapToken, UpdateGatewayCredential,
         MarkGatewayInitializing, ReadLifecycle, UpsertGatewayStatus, RecordLifecycleEvent,
         CreateEnrollmentToken, SelectEnrollmentToken, ConsumeEnrollmentToken, UpsertAgentStatus,
         CreateUpgradePlan, SelectUpgradePlan, ApproveUpgradePlan, BindGatewayCustomer,
         Typed, AimedCall, Aimed
<1>2. UNCHANGED others_release /\ (Ends(c, FALSE) \/ Ends(c, TRUE) \/ Stays(c))
  BY <1>1, TruncateArtifactEffect, WriteArtifactEffect, PutObjectEffect, PublishReleaseEffect
<1>3. Tables(c) /\ Did(c) /\ Goes(c)
  BY <1>2 DEF Tables, Did, Goes, RowMove, StaysExhausted, others_release, plans
<1> QED BY <1>1, <1>2, <1>3 DEF Moves, Active

\* What time does
Passes ==
    /\ UNCHANGED <<call, history, gateways, events, agents, plans, published>>
    /\ StaysExhausted

\* Every step is a call that begins, a move of a call, or of time.
LEMMA StepKinds ==
    ASSUME Typed, Calls, Next
    PROVE  \/ \E c \in Callers : Begins(c)
           \/ \E c \in Callers : Moves(c)
           \/ Passes
<1>1. ASSUME NEW c \in Callers, NEW outcome \in Outcomes, SomeStatement(c, outcome) PROVE Moves(c)
  BY <1>1, StatementStep, PublicationStep
<1>2. ASSUME NEW c \in Callers, BeginSome(c) PROVE Begins(c)
  BY <1>2, BeginEffect
<1>3. CASE Tick
  BY <1>3, TickEffect DEF Passes, StaysExhausted, tables
<1>4. ASSUME NEW k \in TokenKeys, ExpireToken(k) PROVE Passes
  BY <1>4, ExpireTokenEffect DEF Passes, others_tokens
<1> QED BY <1>1, <1>2, <1>3, <1>4 DEF Next

\* A call in progress has ended before no other, and no call before itself.
LEMMA Order ==
    ASSUME Typed, Calls
    PROVE  /\ \A m \in DOMAIN since : None \notin since[m] /\ m \notin since[m]
           /\ \A c \in Callers : Active(c) => /\ call[c].id \in DOMAIN since
                                              /\ \A m \in DOMAIN since : call[c].id \notin since[m]
                                              /\ \A d \in Callers : call[d].id = call[c].id => d = c
                                              /\ \A a \in answers : a.id # call[c].id
           /\ \A a \in answers : a.id \in DOMAIN since
           /\ None \notin DOMAIN since
<1>1. PICK N \in Nat : Numbered(N)
  BY DEF Calls
<1>2. \A m \in 1 .. N : 0 \notin 1 .. (m - 1) /\ m \notin 1 .. (m - 1)
  OBVIOUS
<1> QED BY <1>1, <1>2 DEF Numbered, Active, None

\* What had ended when a call began is fixed.
LEMMA SinceStep ==
    ASSUME Typed, Calls, Next
    PROVE  \A m \in DOMAIN since : m \in DOMAIN since' /\ since'[m] = since[m]
<1>1. CASE UNCHANGED <<call, history>>
  BY <1>1 DEF history
<1>2. ASSUME NEW c \in Callers, Begins(c)
      PROVE  \A m \in DOMAIN since : m \in DOMAIN since' /\ since'[m] = since[m]
  <2>1. PICK N \in Nat : Numbered(N)
    BY DEF Calls
  <2>2. Cardinality(DOMAIN since) + 1 = N + 1 /\ DOMAIN since = 1 .. N /\ N + 1 \notin 1 .. N
    BY <2>1, CallCount DEF Numbered
  <2> QED BY <1>2, <2>2 DEF Begins
<1>3. ASSUME NEW c \in Callers, Stays(c) \/ \E ok \in BOOLEAN : Ends(c, ok) PROVE UNCHANGED since
  BY <1>3 DEF Stays, Ends, history
<1> QED BY <1>1, <1>2, <1>3, CallStep

-----------------------------------------------------------------------------
(* The parts of the invariant, step by step *)

\* Calls and answers after a step: a call is the one that moved, one that
\* begins, or as it was; an answer is one that was given or the call's that ends.
LEMMA AfterStep ==
    ASSUME Typed, Calls, NEW c \in Callers, Moves(c) \/ Begins(c)
    PROVE  /\ \A d \in Callers : d # c => call'[d] = call[d]
           /\ \A a \in answers' : a \in answers \/ (a = Answer(c) /\ Ends(c, TRUE) /\ Did(c))
           /\ Active(c)' => \/ Stays(c) /\ Goes(c)
                            \/ Begins(c) /\ call'[c].pc = "start" /\ call'[c].left = call'[c].agents
<1>1. CASE Begins(c)
  BY <1>1 DEF Begins, Others
<1>2. CASE Moves(c)
  <2>1. ~Active(c)' \/ ~\E ok \in BOOLEAN : Ends(c, ok)
    BY RowTypes DEF Ends, Active
  <2>2. TRUE \in BOOLEAN /\ FALSE \in BOOLEAN
    OBVIOUS
  <2> QED BY <1>2, <2>1, <2>2 DEF Moves, Ends, Stays, Others, history
<1> QED BY <1>1, <1>2

\* Consumed is preserved.
LEMMA ConsumedStep ==
    ASSUME Typed, Calls, Consumed, Next
    PROVE  Consumed'
<1>1. CASE Passes
  BY <1>1 DEF Passes, Consumed, UsesOverlap, Overlap, StaysExhausted, history
<1>2. ASSUME NEW c \in Callers, Moves(c) \/ Begins(c) PROVE Consumed'
  <2>1. StaysExhausted
    BY <1>2 DEF Moves, Tables, Begins, StaysExhausted, tables
  <2>2. \A m \in DOMAIN since : since'[m] = since[m]
    BY SinceStep
  <2>3. \A a \in answers' : a.op = "consume" =>
            a.token \in TokenKeys /\ tokens'[a.token].status = "Exhausted"
    <3>1. ASSUME NEW a \in answers, a.op = "consume"
          PROVE  a.token \in TokenKeys /\ tokens'[a.token].status = "Exhausted"
      BY <2>1, <3>1 DEF Consumed, StaysExhausted
    <3>2. ASSUME NEW a, a = Answer(c), Did(c), a.op = "consume"
          PROVE  a.token \in TokenKeys /\ tokens'[a.token].status = "Exhausted"
      <4>1. call[c].op = "consume" /\ a.token = call[c].token
        BY <3>2 DEF Answer
      <4> QED BY <3>2, <4>1 DEF Did
    <3> QED BY <1>2, <3>1, <3>2, AfterStep
  <2>4. ASSUME NEW a \in answers', NEW b \in answers', a.op = "consume", b.op = "consume",
               a.token = b.token, a # b
        PROVE  Overlap(a.id, b.id)'
    <3>1. ASSUME NEW x \in answers, NEW y, y = Answer(c), x.op = "consume", y.op = "consume",
                 x.token = y.token, Ends(c, TRUE), Did(c)
          PROVE  y.id \in DOMAIN since /\ Overlap(x.id, y.id)
      <4>1. call[c].op = "consume" /\ call[c].pc = "read" /\ call[c].token = x.token /\ y.id = call[c].id
        BY <3>1 DEF Answer, Did
      <4>2. x.id \notin since[call[c].id]
        BY <4>1, <3>1 DEF Consumed
      <4> QED BY <4>1, <4>2, Order DEF Overlap, Active
    <3>2. CASE a \in answers /\ b \in answers
      BY <2>2, <2>4, <3>2, Order DEF Consumed, UsesOverlap, Overlap
    <3>3. CASE a \in answers /\ b = Answer(c) /\ Ends(c, TRUE) /\ Did(c)
      BY <2>2, <2>4, <3>1, <3>3, Order DEF Overlap
    <3>4. CASE b \in answers /\ a = Answer(c) /\ Ends(c, TRUE) /\ Did(c)
      BY <2>2, <2>4, <3>1, <3>4, Order DEF Overlap
    <3> QED BY <1>2, <2>4, <3>2, <3>3, <3>4, AfterStep
  <2>5. ASSUME NEW a \in answers', a.op = "consume", NEW d \in Callers, call'[d].op = "consume",
               call'[d].pc = "read", call'[d].token = a.token
        PROVE  a.id \notin since'[call'[d].id]
    <3>1. CASE a \in answers
      <4>1. CASE call'[d] = call[d]
        BY <2>2, <2>5, <3>1, <4>1, Order DEF Consumed, Active
      <4>2. CASE d = c /\ Stays(c) /\ Goes(c)
        <5>1. tokens[a.token].status # "Exhausted"
          BY <2>5, <4>2 DEF Stays, Same, Goes
        <5> QED BY <2>5, <3>1, <5>1 DEF Consumed
      <4> QED BY <1>2, <2>5, <4>1, <4>2, AfterStep DEF Active
    <3>2. CASE a = Answer(c) /\ Ends(c, TRUE)
      <4>1. d # c /\ call'[d] = call[d] /\ a.id = call[c].id /\ Active(c)
        BY <2>5, <3>2, RowTypes DEF Ends, Others, Answer
      <4>2. call[d].id \in DOMAIN since
        BY <2>5, <4>1, Order DEF Active
      <4> QED BY <2>2, <4>1, <4>2, Order
    <3> QED BY <1>2, <3>1, <3>2, AfterStep
  <2> QED BY <2>3, <2>4, <2>5 DEF Consumed, UsesOverlap
<1> QED BY <1>1, <1>2, StepKinds

\* A row that is stored stays so, a gateway that runs keeps running, and the
\* time of the first report is kept.
LEMMA RowStep ==
    ASSUME Typed, Calls, FirstReports, Next, NEW g \in Gateways
    PROVE  /\ RowMove(g)
           /\ gateways[g].stored => gateways'[g].stored
           /\ gateways[g].life = "running" => gateways'[g].life = "running"
           /\ gateways'[g].life = "running" => gateways'[g].stored
           /\ gateways[g].initialized # None =>
                gateways'[g].initialized = gateways[g].initialized /\ gateways'[g].life = "running"
           /\ gateways'[g].initialized # None => gateways'[g].life = "running" /\ gateways'[g].stored
<1>1. RowMove(g)
  <2>1. ASSUME NEW c \in Callers, Moves(c) PROVE RowMove(g)
    BY <2>1 DEF Moves, Tables
  <2>2. CASE UNCHANGED gateways
    BY <2>2 DEF RowMove
  <2> QED BY <2>1, <2>2, StepKinds DEF Begins, Passes, tables
<1>2. /\ gateways[g].life = "running" => gateways[g].stored
      /\ gateways[g].initialized # None => gateways[g].life = "running" /\ gateways[g].stored
  BY DEF FirstReports
<1> QED BY <1>1, <1>2 DEF RowMove, SameBut, CreatedRow, RunningRow, InitializedAt

\* A call of a gateway
LEMMA CallGateway ==
    ASSUME Typed, NEW d \in Callers
    PROVE  call[d].op \in GatewayOps => call[d].gateway \in Gateways
BY DEF Typed, AimedCall, Aimed

\* The calls that report of a gateway find it stored; one that goes on to the
\* event has found it in another state, and made it run.
LEMMA ReportingStep ==
    ASSUME Typed, Calls, FirstReports, Next, NEW d \in Callers, call'[d].op = "status"
    PROVE  /\ gateways'[call'[d].gateway].stored
           /\ call'[d].pc = "event" => /\ gateways'[call'[d].gateway].life = "running"
                                       /\ FirstReport(call'[d].from)
<1>1. CASE call'[d] = call[d]
  <2>1. call[d].gateway \in Gateways
    BY <1>1, CallGateway DEF GatewayOps
  <2> QED BY <1>1, <2>1, RowStep DEF FirstReports
<1>2. ASSUME Stays(d), Goes(d)
      PROVE  /\ gateways'[call'[d].gateway].stored
             /\ call'[d].pc = "event" => /\ gateways'[call'[d].gateway].life = "running"
                                         /\ FirstReport(call'[d].from)
  <2>1. call[d].op = "status" /\ call'[d].gateway = call[d].gateway
    BY <1>2 DEF Stays, Same
  <2>2. call[d].gateway \in Gateways /\ gateways[call[d].gateway].stored
    BY <2>1, CallGateway DEF GatewayOps, FirstReports
  <2>3. call'[d].pc = "event" => /\ gateways'[call[d].gateway].life = "running"
                                 /\ FirstReport(call'[d].from)
    BY <1>2, <2>1, <2>2 DEF Goes, RunningRow
  <2> QED BY <2>1, <2>2, <2>3, RowStep
<1>3. ASSUME NEW c \in Callers, Begins(c), c = d
      PROVE  gateways'[call'[d].gateway].stored /\ call'[d].pc # "event"
  BY <1>3 DEF Begins, tables
<1> QED
  <2>1. ASSUME NEW c \in Callers, Moves(c) \/ Begins(c)
        PROVE  call'[d] = call[d] \/ (c = d /\ ((Stays(c) /\ Goes(c)) \/ Begins(c)))
    BY <2>1, AfterStep DEF Active
  <2>2. Passes => call'[d] = call[d]
    BY DEF Passes
  <2> QED BY <1>1, <1>2, <1>3, <2>1, <2>2, StepKinds

\* A call that has read a state other than running began before those ended
\* that have recorded the transition to running of its gateway.
NotEnded(m, g, d) ==
    /\ call'[d].op = "status" /\ call'[d].pc \in {"read", "event"} /\ FirstReport(call'[d].from)
    /\ call'[d].gateway = g
    => m \notin since'[call'[d].id]
Meet(n, m) == n \notin since'[m] /\ m \notin since'[n]

\* The event of a call that ends, behind the others
LEMMA RecordedEvent ==
    ASSUME Typed, NEW c \in Callers, Recorded(c)
    PROVE  LET N == Len(events) + 1 IN
           /\ DOMAIN events' = DOMAIN events \cup {N} /\ N \notin DOMAIN events
           /\ \A n \in DOMAIN events : events'[n] = events[n]
           /\ events'[N].gateway = call[c].gateway /\ events'[N].to = call[c].to
           /\ events'[N].by = call[c].id
           /\ call[c].to = "running" => call[c].op = "status"
<1> DEFINE e == [gateway |-> call[c].gateway, from |-> call[c].from, to |-> call[c].to, by |-> call[c].id]
<1>1. events \in Seq(Event) /\ events' = Append(events, e)
  BY DEF Typed, Recorded
<1>2. e.gateway = call[c].gateway /\ e.to = call[c].to /\ e.by = call[c].id
  OBVIOUS
<1>3. call[c].to = "running" => call[c].op = "status"
  BY DEF Typed, AimedCall, Aimed, Recorded
<1>4. e \in Event
  BY DEF Event, Typed, AimedCall, Call, Recorded
<1> HIDE DEF e
<1>5. /\ Len(events) \in Nat /\ DOMAIN events = 1 .. Len(events)
      /\ Len(events') = Len(events) + 1 /\ DOMAIN events' = 1 .. (Len(events) + 1)
      /\ \A n \in 1 .. Len(events) : events'[n] = events[n]
      /\ events'[Len(events) + 1] = e
  BY <1>1, <1>4
<1>6. \A M \in Nat : 1 .. (M + 1) = (1 .. M) \cup {M + 1} /\ M + 1 \notin 1 .. M
  OBVIOUS
<1> QED BY <1>2, <1>3, <1>5, <1>6

\* FirstReports is preserved.
LEMMA FirstReportsStep ==
    ASSUME Typed, Calls, FirstReports, Next, Typed'
    PROVE  FirstReports'
<1>1. \A m \in DOMAIN since : m \in DOMAIN since' /\ since'[m] = since[m]
  BY SinceStep
<1>2. \A n \in DOMAIN events : events[n].gateway \in Gateways
  <2>1. \A e \in Event : e.gateway \in Gateways
    BY DEF Event
  <2>2. \A n \in DOMAIN events : events[n] \in Event
    BY DEF Typed
  <2> QED BY <2>1, <2>2
<1>3. \A n \in DOMAIN events : events[n].to = "running" =>
        /\ events[n].by \in DOMAIN since' /\ gateways'[events[n].gateway].life = "running"
  BY <1>1, <1>2, RowStep DEF FirstReports
<1>4. ASSUME NEW n \in DOMAIN events, events[n].to = "running", NEW d \in Callers,
             call'[d].op = "status", call'[d].pc \in {"read", "event"}, FirstReport(call'[d].from),
             call'[d].gateway = events[n].gateway
      PROVE  events[n].by \notin since'[call'[d].id]
  <2>1. CASE call'[d] = call[d]
    BY <1>1, <1>4, <2>1, Order DEF FirstReports, Active
  <2>2. ASSUME Stays(d), Goes(d) PROVE events[n].by \notin since'[call'[d].id]
    <3>1. /\ call[d].op = "status" /\ call'[d].id = call[d].id /\ call[d].gateway = events[n].gateway
          /\ since' = since
      BY <1>4, <2>2 DEF Stays, Same, history
    <3>2. gateways[call[d].gateway].life = "running"
      BY <1>4, <3>1 DEF FirstReports
    <3>3. call[d].pc = "read" /\ call'[d].from = call[d].from
      BY <1>4, <2>2, <3>1, <3>2 DEF Goes, FirstReport
    <3> QED BY <1>4, <3>1, <3>3 DEF FirstReports
  <2>3. ASSUME NEW c \in Callers, Moves(c) \/ Begins(c)
        PROVE  call'[d] = call[d] \/ (c = d /\ Stays(d) /\ Goes(d))
    BY <1>4, <2>3, AfterStep DEF Active
  <2> QED BY <2>1, <2>2, <2>3, StepKinds DEF Passes
<1>5. CASE UNCHANGED events
  <2>1. \A i, j \in DOMAIN events' :
            /\ events'[i].gateway = events'[j].gateway
            /\ events'[i].to = "running" /\ events'[j].to = "running" /\ i # j
            => Meet(events'[i].by, events'[j].by)
    BY <1>1, <1>5 DEF FirstReports, Overlap, Meet
  <2>2. \A n \in DOMAIN events' : events'[n].to = "running" =>
            /\ events'[n].by \in DOMAIN since' /\ gateways'[events'[n].gateway].life = "running"
            /\ \A d \in Callers : NotEnded(events'[n].by, events'[n].gateway, d)
    BY <1>3, <1>4, <1>5 DEF NotEnded
  <2> QED BY <2>1, <2>2, ReportingStep, RowStep DEF FirstReports, NotEnded, Meet, Overlap
<1>6. ASSUME NEW c \in Callers, Recorded(c), Moves(c) PROVE FirstReports'
  <2> DEFINE N == Len(events) + 1
  <2>1. /\ DOMAIN events' = DOMAIN events \cup {N} /\ N \notin DOMAIN events
        /\ \A n \in DOMAIN events : events'[n] = events[n]
        /\ events'[N].gateway = call[c].gateway /\ events'[N].to = call[c].to
        /\ events'[N].by = call[c].id
        /\ call[c].to = "running" => call[c].op = "status"
    BY <1>6, RecordedEvent
  <2> HIDE DEF N
  <2>2. /\ call[c].pc = "event" /\ UNCHANGED gateways /\ Active(c) /\ call[c].id \in DOMAIN since
        /\ \A m \in DOMAIN since : call[c].id \notin since[m]
    BY <1>6, Order DEF Recorded, Moves
  <2>3. call[c].op = "status" => gateways[call[c].gateway].life = "running" /\ FirstReport(call[c].from)
    BY <2>2 DEF FirstReports
  <2>4. ASSUME NEW n \in DOMAIN events, events[n].to = "running", events[n].gateway = call[c].gateway,
               call[c].to = "running"
        PROVE  /\ events[n].by \in DOMAIN since
               /\ Meet(events[n].by, call[c].id) /\ Meet(call[c].id, events[n].by)
    <3>1. events[n].by \in DOMAIN since /\ events[n].by \notin since[call[c].id]
      BY <2>1, <2>2, <2>3, <2>4 DEF FirstReports
    <3>2. call[c].id \notin since[events[n].by]
      BY <2>2, <3>1
    <3> QED BY <1>1, <2>2, <3>1, <3>2 DEF Meet
  <2>5. \A i, j \in DOMAIN events' :
            /\ events'[i].gateway = events'[j].gateway
            /\ events'[i].to = "running" /\ events'[j].to = "running" /\ i # j
            => Meet(events'[i].by, events'[j].by)
    <3>1. ASSUME NEW i \in DOMAIN events, NEW j \in DOMAIN events, events[i].gateway = events[j].gateway,
                 events[i].to = "running", events[j].to = "running", i # j
          PROVE  Meet(events[i].by, events[j].by)
      BY <1>1, <3>1 DEF FirstReports, Overlap, Meet
    <3> QED BY <2>1, <2>4, <3>1
  <2>6. events'[N].to = "running" =>
            /\ events'[N].by \in DOMAIN since' /\ gateways'[events'[N].gateway].life = "running"
            /\ \A d \in Callers : NotEnded(events'[N].by, events'[N].gateway, d)
    <3>1. ASSUME call[c].to = "running", NEW d \in Callers, call'[d].op = "status"
          PROVE  call[c].id \notin since'[call'[d].id]
      <4>1. since' = since
        BY <1>6 DEF Moves, Ends, Stays, history
      <4>2. call'[d].id \in DOMAIN since
        <5>1. CASE call'[d] = call[d]
          BY <3>1, <5>1, Order DEF Active
        <5>2. CASE d = c /\ Stays(c)
          BY <2>2, <5>2 DEF Stays, Same
        <5> QED BY <1>6, <3>1, <5>1, <5>2, AfterStep, <2>2 DEF Active, Begins
      <4> QED BY <2>2, <4>1, <4>2
    <3> QED BY <1>1, <2>1, <2>2, <2>3, <3>1 DEF NotEnded
  <2>7. \A n \in DOMAIN events' : events'[n].to = "running" =>
            /\ events'[n].by \in DOMAIN since' /\ gateways'[events'[n].gateway].life = "running"
            /\ \A d \in Callers : NotEnded(events'[n].by, events'[n].gateway, d)
    <3>1. ASSUME NEW n \in DOMAIN events, events[n].to = "running", NEW d \in Callers
          PROVE  NotEnded(events[n].by, events[n].gateway, d)
      BY <1>4, <2>1, <3>1 DEF NotEnded
    <3> QED BY <1>3, <2>1, <2>6, <3>1
  <2> QED BY <2>5, <2>7, ReportingStep, RowStep DEF FirstReports, NotEnded, Meet, Overlap
<1> QED BY <1>5, <1>6, StepKinds DEF Begins, Moves, Tables, Passes, tables

\* What is stored of the number of a call: it stays, is that of a call in
\* progress, or there is none.
Held(new, old) == new = old \/ new = None \/ \E c \in Callers : Active(c) /\ new = call[c].id

LEMMA HeldStep ==
    ASSUME Typed, Calls, FirstReports, Next
    PROVE  /\ \A g \in Gateways : /\ Held(gateways'[g].cred, gateways[g].cred)
                                  /\ Held(gateways'[g].seen, gateways[g].seen)
                                  /\ Held(bindings'[g], bindings[g])
                                  /\ ~gateways[g].stored /\ gateways'[g].stored => gateways'[g].seen = None
           /\ \A n \in Agents : /\ Held(agents'[n].report, agents[n].report)
                                /\ agents[n].gateway \in Gateways => agents'[n].gateway \in Gateways
           /\ Held(plan'.approvedBy, plan.approvedBy)
           /\ plan.status = "approved" => plan'.status = "approved"
<1>1. ASSUME NEW g \in Gateways
      PROVE  /\ Held(gateways'[g].cred, gateways[g].cred) /\ Held(gateways'[g].seen, gateways[g].seen)
             /\ ~gateways[g].stored /\ gateways'[g].stored => gateways'[g].seen = None
  <2>1. RowMove(g)
    BY RowStep
  <2> QED BY <2>1 DEF RowMove, SameBut, CreatedRow, RunningRow, Held
<1>2. ASSUME NEW c \in Callers, Moves(c)
      PROVE  /\ \A g \in Gateways : Held(bindings'[g], bindings[g])
             /\ \A n \in Agents : /\ Held(agents'[n].report, agents[n].report)
                                  /\ agents[n].gateway \in Gateways => agents'[n].gateway \in Gateways
             /\ Held(plan'.approvedBy, plan.approvedBy)
             /\ plan.status = "approved" => plan'.status = "approved"
  <2>1. Active(c) /\ Tables(c)
    BY <1>2 DEF Moves
  <2>2. call[c].op = "agents" => call[c].gateway \in Gateways
    BY CallGateway DEF GatewayOps
  <2> QED BY <2>1, <2>2 DEF Tables, Mine, Held
<1>3. UNCHANGED <<agents, plan, bindings>> \/ \E c \in Callers : Moves(c)
  BY StepKinds DEF Begins, Passes, tables, plans
<1> QED BY <1>1, <1>2, <1>3 DEF Held

\* What a call in progress writes was not hidden from those that have begun.
LEMMA HeldNotHidden ==
    ASSUME Typed, Calls, Next, NEW m \in DOMAIN since, NEW old, NEW new, Held(new, old),
           old \notin since[m]
    PROVE  new \notin since'[m]
BY Order, SinceStep DEF Held

\* A row shows the report of an agent, by a gateway, that is not hidden from
\* a call that has written it.
LEMMA AgentKept ==
    ASSUME Typed, Calls, FirstReports, Next, NEW n \in Agents, NEW m \in DOMAIN since,
           agents[n].report \notin since[m] /\ agents[n].gateway \in Gateways
    PROVE  agents'[n].report \notin since'[m] /\ agents'[n].gateway \in Gateways
BY HeldStep, HeldNotHidden

\* What was acknowledged stays.
LEMMA AcknowledgedStays ==
    ASSUME Typed, Calls, FirstReports, Kept, Next, NEW a \in answers
    PROVE  /\ a.op = "credential" => gateways'[a.gateway].cred \notin since'[a.id]
           /\ a.op = "status" /\ gateways'[a.gateway].stored => gateways'[a.gateway].seen \notin since'[a.id]
           /\ a.op = "bind" => bindings'[a.gateway] \notin since'[a.id]
           /\ a.op = "approve" => plan'.status = "approved" /\ plan'.approvedBy \notin since'[a.id]
           /\ a.op = "agents" => \A n \in a.agents :
                    agents'[n].report \notin since'[a.id] /\ agents'[n].gateway \in Gateways
<1>1. /\ a.id \in DOMAIN since /\ None \notin since[a.id] /\ a.agents \subseteq Agents
      /\ since'[a.id] = since[a.id]
  BY Order, SinceStep DEF Typed, AnswerRow
<1>2. a.op \in GatewayOps => a.gateway \in Gateways
  BY DEF Kept
<1>3. CASE a.op = "credential"
  <2>1. a.gateway \in Gateways /\ gateways[a.gateway].cred \notin since[a.id]
    BY <1>2, <1>3 DEF Kept, AcknowledgedNotHidden, Hides, GatewayOps
  <2> QED BY <1>1, <1>3, <2>1, HeldStep, HeldNotHidden
<1>4. CASE a.op = "status"
  <2>1. a.gateway \in Gateways /\ (gateways[a.gateway].stored => gateways[a.gateway].seen \notin since[a.id])
    BY <1>2, <1>4 DEF Kept, AcknowledgedNotHidden, Hides, GatewayOps
  <2> QED BY <1>1, <1>4, <2>1, HeldStep, HeldNotHidden
<1>5. CASE a.op = "bind"
  <2>1. a.gateway \in Gateways /\ bindings[a.gateway] \notin since[a.id]
    BY <1>2, <1>5 DEF Kept, AcknowledgedNotHidden, Hides, GatewayOps
  <2> QED BY <1>1, <1>5, <2>1, HeldStep, HeldNotHidden
<1>6. CASE a.op = "approve"
  <2>1. plan.status = "approved" /\ plan.approvedBy \notin since[a.id]
    BY <1>6 DEF Kept, AcknowledgedNotHidden, Hides
  <2> QED BY <1>1, <1>6, <2>1, HeldStep, HeldNotHidden
<1>7. CASE a.op = "agents"
  <2>1. \A n \in a.agents : agents[n].report \notin since[a.id] /\ agents[n].gateway \in Gateways
    BY <1>7 DEF Kept, AcknowledgedNotHidden, Hides, ListAgentsByGateway
  <2> QED BY <1>1, <1>7, <2>1, AgentKept
<1> QED BY <1>3, <1>4, <1>5, <1>6, <1>7

\* What a call has written is there when it is acknowledged.
LEMMA AcknowledgedIsThere ==
    ASSUME Typed, Calls, FirstReports, Kept, Next, NEW c \in Callers, Active(c), Did(c)
    PROVE  /\ call[c].op = "credential" => gateways'[call[c].gateway].cred \notin since'[call[c].id]
           /\ call[c].op = "status" => gateways'[call[c].gateway].seen \notin since'[call[c].id]
           /\ call[c].op = "bind" => bindings'[call[c].gateway] \notin since'[call[c].id]
           /\ call[c].op = "approve" => plan'.status = "approved" /\ plan'.approvedBy \notin since'[call[c].id]
           /\ call[c].op = "agents" => \A n \in call[c].agents :
                    agents'[n].report \notin since'[call[c].id] /\ agents'[n].gateway \in Gateways
<1>1. /\ call[c].id \in DOMAIN since /\ call[c].id \notin since[call[c].id]
      /\ since'[call[c].id] = since[call[c].id]
  BY Order, SinceStep
<1>2. call[c].op \in GatewayOps => call[c].gateway \in Gateways
  BY CallGateway
<1>3. CASE call[c].op = "status"
  <2>1. gateways[call[c].gateway].stored
    BY <1>3 DEF FirstReports
  <2>2. CASE call[c].pc = "event" /\ UNCHANGED gateways
    BY <1>1, <1>3, <2>2 DEF Kept
  <2> QED BY <1>1, <1>3, <2>1, <2>2 DEF Did
<1>4. CASE call[c].op = "agents"
  <2>1. call[c].gateway \in Gateways
    BY <1>2, <1>4 DEF GatewayOps
  <2>2. ASSUME NEW n \in call[c].agents
        PROVE  agents'[n].report \notin since'[call[c].id] /\ agents'[n].gateway \in Gateways
    <3>1. CASE Mine(c, n)
      BY <1>1, <2>1, <3>1 DEF Mine
    <3>2. CASE n \notin call[c].left /\ agents'[n] = agents[n]
      BY <1>1, <1>4, <3>2 DEF Kept
    <3> QED BY <1>4, <3>1, <3>2 DEF Did
  <2> QED BY <1>4, <2>2
<1> QED BY <1>1, <1>3, <1>4 DEF Did

\* Kept is preserved.
LEMMA KeptStep ==
    ASSUME Typed, Calls, FirstReports, Kept, Next
    PROVE  Kept'
<1>1. ASSUME NEW a \in answers' PROVE a \in answers \/ \E c \in Callers : a = Answer(c) /\ Active(c) /\ Did(c)
  <2>1. ASSUME NEW c \in Callers, Moves(c) \/ Begins(c)
        PROVE  a \in answers \/ (a = Answer(c) /\ Active(c) /\ Did(c))
    BY <2>1, AfterStep DEF Ends
  <2> QED BY <2>1, StepKinds DEF Passes, history
<1>2. ASSUME NEW a \in answers'
      PROVE  /\ a.op = "credential" => gateways'[a.gateway].cred \notin since'[a.id]
             /\ a.op = "status" /\ gateways'[a.gateway].stored => gateways'[a.gateway].seen \notin since'[a.id]
             /\ a.op = "bind" => bindings'[a.gateway] \notin since'[a.id]
             /\ a.op = "approve" => plan'.status = "approved" /\ plan'.approvedBy \notin since'[a.id]
             /\ a.op = "agents" => \A n \in a.agents :
                      agents'[n].report \notin since'[a.id] /\ agents'[n].gateway \in Gateways
             /\ a.op \in GatewayOps => a.gateway \in Gateways
             /\ a.agents \subseteq Agents
  <2>1. CASE a \in answers
    <3>1. (a.op \in GatewayOps => a.gateway \in Gateways) /\ a.agents \subseteq Agents
      BY <2>1 DEF Kept, Typed, AnswerRow
    <3> QED BY <2>1, <3>1, AcknowledgedStays
  <2>2. ASSUME NEW c \in Callers, a = Answer(c), Active(c), Did(c)
        PROVE  /\ a.op = call[c].op /\ a.id = call[c].id /\ a.gateway = call[c].gateway
               /\ a.agents = call[c].agents /\ a.agents \subseteq Agents
    BY <2>2 DEF Answer, Typed, AimedCall, Call
  <2> QED BY <1>1, <2>1, <2>2, AcknowledgedIsThere, CallGateway
<1>3. AcknowledgedNotHidden'
  <2>1. \A a \in answers' : a.op = "agents" =>
            \A n \in a.agents : \E g \in Gateways : n \in {b \in Agents : agents'[b].gateway = g}
    BY <1>2
  <2> QED BY <1>2, <2>1 DEF AcknowledgedNotHidden, Hides, ListAgentsByGateway
<1>4. ASSUME NEW d \in Callers, call'[d].op = "status", call'[d].pc = "event"
      PROVE  gateways'[call'[d].gateway].seen \notin since'[call'[d].id]
  <2>1. CASE call'[d] = call[d]
    <3>1. /\ call[d].gateway \in Gateways /\ call[d].id \in DOMAIN since
          /\ gateways[call[d].gateway].seen \notin since[call[d].id]
      BY <1>4, <2>1, CallGateway, Order DEF Kept, GatewayOps, Active
    <3> QED BY <2>1, <3>1, HeldStep, HeldNotHidden
  <2>2. ASSUME Stays(d), Goes(d) PROVE gateways'[call'[d].gateway].seen \notin since'[call'[d].id]
    <3>1. call[d].op = "status" /\ call'[d].gateway = call[d].gateway /\ call'[d].id = call[d].id
      BY <1>4, <2>2 DEF Stays, Same
    <3>2. gateways[call[d].gateway].stored /\ call[d].id \in DOMAIN since
      BY <3>1, Order DEF FirstReports, Active
    <3>3. gateways'[call[d].gateway].seen = call[d].id
      BY <1>4, <2>2, <3>1, <3>2 DEF Goes, RunningRow
    <3> QED BY <3>1, <3>2, <3>3, Order, SinceStep
  <2>3. ASSUME NEW c \in Callers, Moves(c) \/ Begins(c)
        PROVE  call'[d] = call[d] \/ (c = d /\ Stays(d) /\ Goes(d))
    BY <1>4, <2>3, AfterStep DEF Active
  <2> QED BY <2>1, <2>2, <2>3, StepKinds DEF Passes
<1>5. ASSUME NEW d \in Callers, call'[d].op = "agents", NEW n \in call'[d].agents \ call'[d].left
      PROVE  agents'[n].report \notin since'[call'[d].id] /\ agents'[n].gateway \in Gateways
  <2>1. CASE call'[d] = call[d]
    <3>1. n \in Agents /\ call[d].id \in DOMAIN since
      BY <1>5, <2>1, Order DEF Typed, AimedCall, Call, Active
    <3>2. agents[n].report \notin since[call[d].id] /\ agents[n].gateway \in Gateways
      BY <1>5, <2>1 DEF Kept
    <3> QED BY <2>1, <3>1, <3>2, AgentKept
  <2>2. ASSUME Stays(d), Goes(d)
        PROVE  agents'[n].report \notin since'[call'[d].id] /\ agents'[n].gateway \in Gateways
    <3>1. /\ call[d].op = "agents" /\ call'[d].gateway = call[d].gateway /\ call'[d].id = call[d].id
          /\ call'[d].agents = call[d].agents
      BY <1>5, <2>2 DEF Stays, Same
    <3>2. /\ call[d].gateway \in Gateways /\ call[d].id \in DOMAIN since
          /\ call[d].id \notin since'[call[d].id] /\ since'[call[d].id] = since[call[d].id]
      BY <3>1, CallGateway, Order, SinceStep DEF GatewayOps, Active
    <3>3. CASE Mine(d, n)
      BY <3>1, <3>2, <3>3 DEF Mine
    <3>4. CASE n \notin call[d].left /\ agents'[n] = agents[n]
      BY <1>5, <3>1, <3>2, <3>4 DEF Kept
    <3> QED BY <1>5, <2>2, <3>1, <3>3, <3>4 DEF Goes
  <2>3. ASSUME NEW c \in Callers, Moves(c) \/ Begins(c)
        PROVE  call'[d] = call[d] \/ (c = d /\ Stays(d) /\ Goes(d))
    BY <1>5, <2>3, AfterStep DEF Active
  <2> QED BY <2>1, <2>2, <2>3, StepKinds DEF Passes
<1> QED BY <1>2, <1>3, <1>4, <1>5 DEF Kept

\* The clauses of Published about a call in progress
Publishing(c) ==
    /\ Active(c) /\ call[c].id = artifact.by => call[c].op = "publish"
    /\ call[c].op = "publish" =>
        /\ call[c].pc \in {"write", "record"} => artifact.state # "absent"
        /\ call[c].pc = "write" => backend = "local"
        /\ call[c].pc = "start" => artifact.by # call[c].id
        /\ artifact.alone /\ call[c].pc = "write" => call[c].id = artifact.by
        /\ artifact.alone /\ call[c].pc = "record" /\ call[c].id = artifact.by =>
                artifact.state = "complete"

\* A file that is not touched: what holds of the calls holds still.
LEMMA FileLeft ==
    ASSUME Typed, Calls, Published, Next, UNCHANGED <<artifact, backend>>, NEW c \in Callers,
           Moves(c), call[c].op = "publish" => ~Stays(c)
    PROVE  /\ \A d \in Callers : Publishing(d)'
           /\ artifact'.by # None => artifact'.by \in DOMAIN since'
<1>1. ASSUME NEW d \in Callers PROVE Publishing(d)'
  <2>1. Publishing(d)
    BY DEF Published, Publishing
  <2>2. CASE call'[d] = call[d]
    BY <2>1, <2>2 DEF Publishing, Active
  <2>3. CASE d = c /\ ~Active(c)'
    BY <2>3 DEF Publishing, Active
  <2>4. CASE d = c /\ Stays(c)
    <3>1. call[c].op # "publish" /\ call'[c].op = call[c].op /\ call'[c].id = call[c].id
      BY <2>4 DEF Stays, Same
    <3> QED BY <2>1, <2>4, <3>1 DEF Publishing, Active
  <2> QED BY <2>2, <2>3, <2>4, AfterStep DEF Begins, Moves, Active
<1>2. artifact'.by # None => artifact'.by \in DOMAIN since'
  BY SinceStep DEF Published
<1> QED BY <1>1, <1>2

\* The statements of a publication, one by one.
LEMMA TruncateStep ==
    ASSUME Typed, Calls, Published, Next, NEW c \in Callers, NEW outcome \in Outcomes,
           TruncateArtifact(c, outcome), Moves(c)
    PROVE  Published'
<1>1. /\ UNCHANGED <<backend, releases, answers, since>> /\ backend = "local" /\ call[c].op = "publish"
      /\ Active(c) /\ call[c].pc = "start"
      /\ UNCHANGED artifact \/ Cleared(c)
      /\ \/ Ends(c, FALSE)
         \/ Stays(c) /\ Cleared(c) /\ call'[c].pc = "write"
  BY TruncateArtifactEffect DEF others_release, Active, Ends, Stays, history
<1>2. CASE UNCHANGED artifact /\ Ends(c, FALSE)
  <2>1. ~Stays(c)
    BY <1>2, RowTypes DEF Ends, Stays, Same, Active
  <2>2. (\A d \in Callers : Publishing(d)') /\ (artifact'.by # None => artifact'.by \in DOMAIN since')
    BY <1>1, <1>2, <2>1, FileLeft
  <2>3. ReleaseWhole'
    BY <1>1, <1>2 DEF Published, ReleaseWhole
  <2>4. artifact'.state = "absent" => artifact'.by = None
    BY <1>2 DEF Published
  <2> QED BY <2>2, <2>3, <2>4 DEF Published, Publishing, Active
<1>3. CASE Cleared(c)
  <2>1. artifact'.state = "partial" /\ artifact'.by = call[c].id /\ call[c].id \in DOMAIN since'
        /\ (artifact'.alone => \A d \in Callers : ~Writing(d))
    BY <1>1, <1>3, Order DEF Cleared
  <2>2. ReleaseWhole'
    BY <1>1, <2>1, Order DEF Published, ReleaseWhole
  <2>3. ASSUME NEW d \in Callers PROVE Publishing(d)'
    <3>1. CASE d = c /\ call'[c].op = "idle"
      BY <3>1 DEF Publishing, Active
    <3>2. CASE d = c /\ Stays(c) /\ call'[c].pc = "write"
      BY <1>1, <2>1, <3>2 DEF Publishing, Stays, Same
    <3>3. CASE d # c /\ call'[d] = call[d]
      BY <1>1, <2>1, <3>3, Order DEF Publishing, Published, Writing, Active
    <3> QED BY <1>1, <3>1, <3>2, <3>3, RowTypes DEF Ends, Stays, Others
  <2> QED BY <2>1, <2>2, <2>3 DEF Published, Publishing, Active
<1> QED BY <1>1, <1>2, <1>3

LEMMA WriteStep ==
    ASSUME Typed, Calls, Published, Next, NEW c \in Callers, NEW outcome \in Outcomes,
           WriteArtifact(c, outcome), Moves(c)
    PROVE  Published'
<1>1. /\ UNCHANGED <<backend, releases, answers, since>> /\ call[c].op = "publish"
      /\ Active(c) /\ call[c].pc = "write" /\ artifact'.state \in {"partial", "complete"}
      /\ artifact'.by = artifact.by /\ artifact'.alone = artifact.alone
      /\ \/ Ends(c, FALSE)
         \/ Stays(c) /\ call'[c].pc = "record" /\ (artifact.alone => artifact'.state = "complete")
  BY WriteArtifactEffect DEF others_release, Active, Ends, Stays, history
<1>2. backend = "local" /\ (artifact.alone => artifact.by = call[c].id)
  BY <1>1 DEF Published
<1>3. ReleaseWhole'
  BY <1>1, <1>2, Order DEF Published, ReleaseWhole
<1>4. ASSUME NEW d \in Callers PROVE Publishing(d)'
  <2>1. CASE d = c /\ call'[c].op = "idle"
    BY <2>1 DEF Publishing, Active
  <2>2. CASE d = c /\ Stays(c) /\ call'[c].pc = "record" /\ (artifact.alone => artifact'.state = "complete")
    BY <1>1, <2>2 DEF Publishing, Stays, Same
  <2>3. CASE d # c /\ call'[d] = call[d]
    BY <1>1, <1>2, <2>3, Order DEF Publishing, Published, Active
  <2> QED BY <1>1, <2>1, <2>2, <2>3, RowTypes DEF Ends, Stays, Others
<1>5. artifact'.state # "absent" /\ (artifact'.by # None => artifact'.by \in DOMAIN since')
  BY <1>1 DEF Published
<1> QED BY <1>3, <1>4, <1>5 DEF Published, Publishing, Active

LEMMA PutStep ==
    ASSUME Typed, Calls, Published, Next, NEW c \in Callers, NEW outcome \in Outcomes,
           PutObject(c, outcome), Moves(c)
    PROVE  Published'
<1>1. /\ UNCHANGED <<backend, releases, answers, since>> /\ backend = "object" /\ call[c].op = "publish"
      /\ Active(c) /\ call[c].pc = "start"
      /\ UNCHANGED artifact \/ Whole(c)
      /\ \/ Ends(c, FALSE)
         \/ Stays(c) /\ Whole(c) /\ call'[c].pc = "record"
  BY PutObjectEffect DEF others_release, Active, Ends, Stays, history
<1>2. CASE UNCHANGED artifact /\ Ends(c, FALSE)
  <2>1. ~Stays(c)
    BY <1>2, RowTypes DEF Ends, Stays, Same, Active
  <2>2. (\A d \in Callers : Publishing(d)') /\ (artifact'.by # None => artifact'.by \in DOMAIN since')
    BY <1>1, <1>2, <2>1, FileLeft
  <2>3. ReleaseWhole'
    BY <1>1, <1>2 DEF Published, ReleaseWhole
  <2>4. artifact'.state = "absent" => artifact'.by = None
    BY <1>2 DEF Published
  <2> QED BY <2>2, <2>3, <2>4 DEF Published, Publishing, Active
<1>3. CASE Whole(c)
  <2>1. artifact'.state = "complete" /\ artifact'.by = call[c].id /\ call[c].id \in DOMAIN since'
    BY <1>1, <1>3, Order DEF Whole
  <2>2. ReleaseWhole'
    BY <1>1, <2>1, Order DEF Published, ReleaseWhole
  <2>3. ASSUME NEW d \in Callers PROVE Publishing(d)'
    <3>1. CASE d = c /\ call'[c].op = "idle"
      BY <3>1 DEF Publishing, Active
    <3>2. CASE d = c /\ Stays(c) /\ call'[c].pc = "record"
      BY <1>1, <2>1, <3>2 DEF Publishing, Stays, Same
    <3>3. CASE d # c /\ call'[d] = call[d]
      BY <1>1, <2>1, <3>3, Order DEF Publishing, Published, Active
    <3> QED BY <1>1, <3>1, <3>2, <3>3, RowTypes DEF Ends, Stays, Others
  <2> QED BY <2>1, <2>2, <2>3 DEF Published, Publishing, Active
<1> QED BY <1>1, <1>2, <1>3

LEMMA RecordStep ==
    ASSUME Typed, Calls, Published, Next, NEW c \in Callers, NEW outcome \in Outcomes,
           PublishRelease(c, outcome), Moves(c)
    PROVE  Published'
<1>1. /\ UNCHANGED <<backend, artifact>> /\ call[c].op = "publish" /\ call[c].pc = "record" /\ Active(c)
      /\ releases \subseteq releases'
      /\ Ends(c, FALSE) \/ (Ends(c, TRUE) /\ call[c].id \in releases')
  BY PublishReleaseEffect DEF others_release, Active
<1>2. ~Stays(c)
  BY <1>1, RowTypes DEF Ends, Stays, Same, Active
<1>3. (\A d \in Callers : Publishing(d)') /\ (artifact'.by # None => artifact'.by \in DOMAIN since')
  BY <1>1, <1>2, FileLeft
<1>4. \A a \in answers' : a \in answers \/ (a.id = call[c].id /\ call[c].id \in releases')
  BY <1>1 DEF Ends, Answer
<1>5. artifact.state # "absent" /\ (artifact.alone /\ call[c].id = artifact.by => artifact.state = "complete")
  BY <1>1 DEF Published
<1>6. ReleaseWhole'
  BY <1>1, <1>4, <1>5 DEF Published, ReleaseWhole
<1> QED BY <1>1, <1>3, <1>5, <1>6 DEF Published, Publishing, Active

\* Published is preserved.
LEMMA PublishedStep ==
    ASSUME Typed, Calls, Published, Next
    PROVE  Published'
<1>1. ASSUME NEW c \in Callers, NEW outcome \in Outcomes, SomeStatement(c, outcome),
             call[c].op = "publish"
      PROVE  Published'
  BY <1>1, PublicationStep, TruncateStep, WriteStep, PutStep, RecordStep
<1>2. ASSUME NEW c \in Callers, NEW outcome \in Outcomes, SomeStatement(c, outcome),
             call[c].op # "publish"
      PROVE  Published'
  <2>1. Moves(c) /\ UNCHANGED published /\ Active(c)
    BY <1>2, StatementStep DEF Moves, Tables
  <2>2. (\A d \in Callers : Publishing(d)') /\ (artifact'.by # None => artifact'.by \in DOMAIN since')
    BY <1>2, <2>1, FileLeft DEF published
  <2>3. \A a \in answers' : a \in answers \/ (a.id = call[c].id /\ a.op # "publish")
    <3>1. Answer(c).id = call[c].id /\ Answer(c).op = call[c].op
      BY DEF Answer
    <3> QED BY <1>2, <2>1, <3>1, AfterStep
  <2>4. artifact.by # call[c].id
    BY <1>2, <2>1 DEF Published
  <2>5. ReleaseWhole'
    BY <2>1, <2>3, <2>4 DEF Published, ReleaseWhole, published
  <2>6. artifact'.state = "absent" => artifact'.by = None
    BY <2>1 DEF Published, published
  <2> QED BY <2>2, <2>5, <2>6 DEF Published, Publishing, Active
<1>3. ASSUME NEW c \in Callers, Begins(c) PROVE Published'
  <2>1. UNCHANGED <<published, answers>> /\ call'[c].pc = "start" /\ call'[c].id \notin DOMAIN since
        /\ call'[c].id # None
    <3>1. PICK N \in Nat : Numbered(N)
      BY DEF Calls
    <3>2. N + 1 \notin 1 .. N /\ N + 1 # 0
      OBVIOUS
    <3> QED BY <1>3, <3>1, <3>2, CallCount DEF Begins, tables, Numbered, None
  <2>2. artifact.by # call'[c].id
    BY <2>1 DEF Published
  <2>3. ASSUME NEW d \in Callers PROVE Publishing(d)'
    <3>1. CASE call'[d] = call[d]
      BY <2>1, <3>1 DEF Publishing, Published, published, Active
    <3>2. CASE d = c
      BY <2>1, <2>2, <3>2 DEF Publishing, published
    <3> QED BY <1>3, <3>1, <3>2 DEF Begins, Others
  <2>4. artifact'.by # None => artifact'.by \in DOMAIN since'
    BY <2>1, SinceStep DEF Published, published
  <2> QED BY <2>1, <2>3, <2>4 DEF Published, ReleaseWhole, Publishing, published, Active
<1>4. CASE UNCHANGED <<call, history, published>>
  BY <1>4 DEF Published, ReleaseWhole, published, history, Active
<1>5. ASSUME NEW c \in Callers, BeginSome(c) PROVE Begins(c)
  BY <1>5, BeginEffect
<1> QED BY <1>1, <1>2, <1>3, <1>4, <1>5 DEF Next, Tick, ExpireToken, tables

-----------------------------------------------------------------------------
(* The invariant and the theorems *)

\* The invariant holds when the center starts.
LEMMA InitInv == ASSUME Init PROVE Inv
<1>1. Typed
  <2>1. gateways \in [Gateways -> Row]
    BY RowTypes DEF Init
  <2>2. events \in Seq(Event) /\ clock \in Seconds /\ faults \in 0 .. MaxFaults /\ None \in Nat
    BY PgBounds DEF Init, Seconds, None
  <2>3. /\ tokens \in [TokenKeys -> Token] /\ agents \in [Agents -> AgentStatus] /\ plan \in Plan
        /\ artifact \in Artifact /\ call \in [Callers -> AimedCall]
    BY RowTypes DEF Init
  <2> QED BY <2>1, <2>2, <2>3 DEF Init, Typed
<1>2. /\ \A c \in Callers : call[c].op = "idle"
      /\ answers = {} /\ events = <<>> /\ releases = {} /\ artifact = NoArtifact /\ DOMAIN since = {}
  BY RowTypes DEF Init
<1>3. Calls
  <2>1. 0 \in Nat /\ 1 .. 0 = {}
    OBVIOUS
  <2> QED BY <1>2, <2>1 DEF Calls, Numbered
<1>4. \A g \in Gateways : /\ gateways[g].initialized = None
                          /\ gateways[g].life # "running"
  BY DEF Init, SeededRow, GatewayRow
<1>5. artifact.state = "absent" /\ artifact.by = None
  BY <1>2 DEF NoArtifact
<1>6. Consumed /\ Kept
  BY <1>2 DEF Consumed, UsesOverlap, Kept, AcknowledgedNotHidden
<1>7. FirstReports
  BY <1>2, <1>4 DEF FirstReports
<1>8. Published
  BY <1>2, <1>5 DEF Published, ReleaseWhole, Active
<1> QED BY <1>1, <1>3, <1>6, <1>7, <1>8 DEF Inv

\* A step that changes nothing keeps it.
LEMMA Stutter == ASSUME Inv, UNCHANGED vars PROVE Inv'
<1>1. Typed'
  BY DEF Inv, Typed, vars, tables, plans, published, history
<1>2. Calls'
  BY DEF Inv, Calls, Numbered, vars, history
<1>3. Consumed' /\ Kept'
  BY DEF Inv, Consumed, UsesOverlap, Overlap, Kept, AcknowledgedNotHidden, Hides, ListAgentsByGateway,
         vars, tables, plans, history
<1>4. FirstReports'
  BY DEF Inv, FirstReports, Overlap, vars, tables, history
<1>5. Published'
  BY DEF Inv, Published, ReleaseWhole, Active, vars, tables, published, history
<1> QED BY <1>1, <1>2, <1>3, <1>4, <1>5 DEF Inv

\* The inductive invariant holds in every state the store can reach.
THEOREM InvHolds == Spec => []Inv
<1>1. Init => Inv
  BY InitInv
<1>2. Inv /\ [Next]_vars => Inv'
  <2>1. ASSUME Inv, Next PROVE Inv'
    <3>1. Typed'
      BY <2>1, CallStep DEF Inv
    <3>2. Calls' /\ Consumed' /\ Kept' /\ Published'
      BY <2>1, CallsStep, ConsumedStep, KeptStep, PublishedStep DEF Inv
    <3>3. FirstReports'
      BY <2>1, <3>1, FirstReportsStep DEF Inv
    <3> QED BY <3>1, <3>2, <3>3 DEF Inv
  <2> QED BY <2>1, Stutter
<1> QED BY <1>1, <1>2, PTL DEF Spec

\* Every table holds rows, and every caller a call, of its type (pg_store.rs).
THEOREM TypeCorrect == Spec => []Typed
<1>1. Inv => Typed
  BY DEF Inv
<1> QED BY <1>1, InvHolds, PTL

\* consume_enrollment_token lets two calls through with one token only if they
\* overlap: the exhausted row that the first has committed is read by every
\* later one.
THEOREM TokenPassesOverlap == Spec => []UsesOverlap
<1>1. Inv => UsesOverlap
  BY DEF Inv, Consumed
<1> QED BY <1>1, InvHolds, PTL

\* upsert_gateway_status records two transitions to running of one gateway only
\* for reports that overlap.
THEOREM FirstReportsMeet == Spec => []FirstReportsOverlap
<1>1. Inv => FirstReportsOverlap
  BY DEF Inv, FirstReports, FirstReportsOverlap, ListLifecycleEvents
<1> QED BY <1>1, InvHolds, PTL

\* Without transactions, what a call was answered Ok for is never hidden by a
\* call that had returned before it began.
THEOREM NothingAcknowledgedIsHidden == Spec => []AcknowledgedNotHidden
<1>1. Inv => AcknowledgedNotHidden
  BY DEF Inv, Kept
<1> QED BY <1>1, InvHolds, PTL

\* admin_publish_release lists a release only with its file, which only a
\* failed or a simultaneous publication can leave unfinished, and only in a
\* directory.
THEOREM ListedReleasesWhole == Spec => []ReleaseWhole
<1>1. Inv => ReleaseWhole
  BY DEF Inv, Published
<1> QED BY <1>1, InvHolds, PTL

\* COALESCE(initialized_at, ...) keeps the time of the first report, and no
\* statement of a late call takes a gateway back from running.
THEOREM StaysInitialized == Spec => InitializedForGood
<1> DEFINE Good == \A g \in Gateways : gateways[g].initialized # None =>
                        /\ gateways'[g].initialized = gateways[g].initialized
                        /\ gateways'[g].life = "running"
<1>1. Inv /\ [Next]_vars => [Good]_vars
  BY RowStep DEF Inv
<1> QED BY <1>1, InvHolds, PTL DEF InitializedForGood, Spec
=============================================================================
