-------------------------- MODULE FleetStatusProofs --------------------------
(***************************************************************************)
(* Proofs about FleetStatus for any finite set of gateways, any agents and *)
(* any number of attempts, reports and copies of requests.                 *)
(*                                                                         *)
(* Three arguments carry them.  A gateway reports with a credential only   *)
(* after it has come up (Onboarded).  A request of a client tells of its   *)
(* latest report, or one that was overtaken (Latest).  And every copy, row *)
(* and sample of one report tells the same status: there is one account of *)
(* what each gateway said at each time, which all of them follow           *)
(* (Consistent).                                                           *)
(***************************************************************************)
EXTENDS FleetStatus, TLAPS, FiniteSetTheorems

-----------------------------------------------------------------------------
(* Types *)

Report == [at : Nat, status : Statuses \cup {"none"}]
Row == [boot : BOOLEAN, regist : {"none", "active", "used"}, cred : BOOLEAN,
        life : {"none", "provisioned", "initializing", "running"}, report : Report]
Phases == {"fetch", "register", "status", "agents"}
Tokens == {"bootstrap", "regist", "runtime"}
ClientState == [phase : Phases, token : Tokens, at : Nat, attempt : Nat, waiting : BOOLEAN,
                status : Statuses]
Request == [gateway : Gateways, kind : Phases, token : Tokens, at : Nat, attempt : Nat,
            status : Statuses, pc : {"sent", "push"}]
ListedRow == [agent : Agents, gateway : Gateways, at : Nat, status : Statuses]
Sample == [gateway : Gateways, at : Nat, up : 0 .. 1]
SampleOfAgent == [agent : Agents, gateway : Gateways, at : Nat, up : 0 .. 1]

Typed ==
    /\ gateways \in [Gateways -> Row]
    /\ agents \subseteq ListedRow
    /\ series \subseteq Sample
    /\ agentSeries \subseteq SampleOfAgent
    /\ sim \in [Gateways -> ClientState]
    /\ requests \subseteq Request
    /\ acked \in [Gateways -> Nat]
    /\ overtaken \in [Gateways -> SUBSET Nat]

-----------------------------------------------------------------------------
(* The inductive invariant *)

HasReport(g) == gateways[g].report # NoReport

\* A gateway reports with the credential it came up with, and runs then; it
\* holds the runtime token only in the loop of its reports.
Onboarded ==
    /\ \A g \in Gateways :
        /\ gateways[g].boot => gateways[g].regist = "none" /\ ~gateways[g].cred
        /\ HasReport(g) <=> gateways[g].life = "running"
        /\ HasReport(g) => gateways[g].cred
        /\ sim[g].token = "runtime" => sim[g].phase \in {"status", "agents"}
    /\ \A r \in requests :
        /\ r.token = "runtime" => sim[r.gateway].token = "runtime"
        /\ r.pc = "push" => r.kind = "status" /\ HasReport(r.gateway)
    /\ \A row \in agents : gateways[row.gateway].cred /\ sim[row.gateway].token = "runtime"

\* The rows of the agents are those of one report, of every agent.
OneReport ==
    /\ \A p, q \in agents : p.gateway = q.gateway /\ (p.agent = q.agent => p = q)
    /\ agents # {} => \A a \in Agents : \E row \in agents : row.agent = a
    /\ agentSeries # {} => agents # {}

\* A report under way is the client's latest, or one it has gone on from
\* before; what is shown is as late as the latest acknowledged one, and as
\* those on their way back to the client, or it was overtaken.
Latest ==
    /\ \A g \in Gateways :
        /\ acked[g] <= sim[g].at
        /\ gateways[g].report.at < acked[g] => gateways[g].report.at \in overtaken[g]
    /\ \A r \in requests :
        /\ r.at <= sim[r.gateway].at
        /\ r.kind = "status" => r.at = sim[r.gateway].at \/ r.at \in overtaken[r.gateway]
        /\ r.pc = "push" => \/ r.at <= gateways[r.gateway].report.at
                            \/ gateways[r.gateway].report.at \in overtaken[r.gateway]

\* What every gateway said at each time: one account that the clients, the
\* copies of their requests, the rows and the samples follow.
Accounts == [Gateways -> [Nat -> 0 .. 1]]
Follows(said) ==
    /\ \A g \in Gateways :
        /\ said[g][sim[g].at] = Up(sim[g])
        /\ HasReport(g) => /\ gateways[g].report.at <= sim[g].at
                           /\ said[g][gateways[g].report.at] = Up(gateways[g].report)
    /\ \A r \in requests : r.at <= sim[r.gateway].at /\ said[r.gateway][r.at] = Up(r)
    /\ \A row \in agents : row.at <= sim[row.gateway].at /\ said[row.gateway][row.at] = Up(row)
    /\ \A s \in series : s.at <= sim[s.gateway].at /\ said[s.gateway][s.at] = s.up
    /\ \A s \in agentSeries : s.at <= sim[s.gateway].at /\ said[s.gateway][s.at] = s.up

Consistent ==
    /\ \E said \in Accounts : Follows(said)
    /\ \A s \in series : HasReport(s.gateway)

Inv == Typed /\ Onboarded /\ OneReport /\ Latest /\ Consistent

-----------------------------------------------------------------------------
(* The client *)

\* What a client does after a request leaves its time and status, and the
\* runtime token to one that reports.
LEMMA ProceedingType ==
    ASSUME NEW c \in ClientState, NEW ok \in BOOLEAN
    PROVE  LET p == Proceeding(c, ok) IN
           /\ p \in ClientState /\ p.at = c.at /\ p.status = c.status
           /\ p.token = "runtime" => p.phase \in {"status", "agents"} \/ c.token = "runtime"
           /\ c.token = "runtime" /\ c.phase \in {"status", "agents"} =>
                    p.token = "runtime" /\ p.phase \in {"status", "agents"}
<1> DEFINE done == [c EXCEPT !.waiting = FALSE]
<1>1. /\ done \in ClientState /\ done.at = c.at /\ done.status = c.status
      /\ done.token = c.token /\ done.phase = c.phase
  BY DEF ClientState
<1>2. c.phase \in Phases
  BY DEF ClientState
<1> HIDE DEF done
<1> DEFINE Moved(ph) == [done EXCEPT !.phase = ph]
           With(ph, tk) == [done EXCEPT !.phase = ph, !.token = tk]
<1>3. /\ \A ph \in Phases : /\ Moved(ph) \in ClientState
                            /\ Moved(ph).at = c.at
                            /\ Moved(ph).status = c.status
                            /\ Moved(ph).token = c.token
                            /\ Moved(ph).phase = ph
      /\ \A ph \in Phases, tk \in Tokens :
            /\ With(ph, tk) \in ClientState
            /\ With(ph, tk).at = c.at
            /\ With(ph, tk).status = c.status
            /\ With(ph, tk).token = tk
            /\ With(ph, tk).phase = ph
  BY <1>1 DEF ClientState
<1> HIDE DEF Moved, With
<1>4. /\ {"fetch", "register", "status", "agents"} = Phases
      /\ "runtime" \in Tokens /\ "regist" \in Tokens /\ "bootstrap" \in Tokens
  BY DEF Phases, Tokens
<1>5. \/ c.phase = "fetch" /\ Proceeding(c, ok) = With("register", "regist")
      \/ c.phase = "register" /\ Proceeding(c, ok) = With("status", "runtime")
      \/ c.phase = "register" /\ Proceeding(c, ok) = With("status", "bootstrap")
      \/ c.phase = "status" /\ Proceeding(c, ok) = Moved("agents")
      \/ Proceeding(c, ok) = Moved("status")
  BY <1>2 DEF Proceeding, done, Phases, Moved, With
<1>6. ASSUME NEW ph \in Phases, NEW tk \in Tokens, ph \in {"status", "agents"} \/ tk # "runtime",
             c.phase \in {"fetch", "register"},
             Proceeding(c, ok) = With(ph, tk)
      PROVE  LET p == Proceeding(c, ok) IN
             /\ p \in ClientState /\ p.at = c.at /\ p.status = c.status
             /\ p.token = "runtime" => p.phase \in {"status", "agents"}
  BY <1>3, <1>6
<1>7. ASSUME NEW ph \in {"status", "agents"}, Proceeding(c, ok) = Moved(ph)
      PROVE  LET p == Proceeding(c, ok) IN
             /\ p \in ClientState /\ p.at = c.at /\ p.status = c.status
             /\ p.token = c.token /\ p.phase = ph
  BY <1>3, <1>4, <1>7
<1>8. CASE /\ c.phase \in {"fetch", "register"}
           /\ \E ph \in Phases, tk \in Tokens : /\ ph \in {"status", "agents"} \/ tk # "runtime"
                                                /\ Proceeding(c, ok) = With(ph, tk)
  BY <1>6, <1>8
<1>9. CASE \E ph \in {"status", "agents"} : Proceeding(c, ok) = Moved(ph)
  BY <1>7, <1>9
<1> QED BY <1>4, <1>5, <1>8, <1>9

\* How a client may change beside a new report: the report it is about stays,
\* and so does a runtime token.
ClientMove(g) ==
    /\ sim'[g].at = sim[g].at /\ sim'[g].status = sim[g].status
    /\ sim'[g].token = "runtime" => sim'[g].phase \in {"status", "agents"}
    /\ sim[g].token = "runtime" => sim'[g].token = "runtime"

AckedMove(g, r, ok) ==
    acked'[g] = acked[g] \/ (ok /\ r.kind = "status" /\ g = r.gateway /\ acked'[g] = r.at)

\* An answer removes the copy; only the client it is for is affected.
LEMMA AnswerEffect ==
    ASSUME Typed, Onboarded, NEW r \in requests, NEW ok \in BOOLEAN, NEW delivered \in BOOLEAN,
           Answer(r, ok, delivered)
    PROVE  /\ requests' = requests \ {r} /\ UNCHANGED overtaken
           /\ sim' \in [Gateways -> ClientState] /\ acked' \in [Gateways -> Nat]
           /\ \A g \in Gateways : ClientMove(g) /\ AckedMove(g, r, ok)
<1> DEFINE c == sim[r.gateway]
           p == Proceeding(c, ok)
<1>1. r \in Request /\ r.gateway \in Gateways /\ r.at \in Nat
  BY DEF Typed, Request
<1>2. c \in ClientState
  BY <1>1 DEF Typed
<1>3. /\ p \in ClientState /\ p.at = c.at /\ p.status = c.status
      /\ p.token = "runtime" => p.phase \in {"status", "agents"} \/ c.token = "runtime"
      /\ c.token = "runtime" /\ c.phase \in {"status", "agents"} =>
               p.token = "runtime" /\ p.phase \in {"status", "agents"}
  BY <1>2, ProceedingType
<1>4. /\ requests' = requests \ {r} /\ UNCHANGED overtaken
      /\ sim' = sim \/ sim' = [sim EXCEPT ![r.gateway] = p]
      /\ acked' = acked \/ (ok /\ r.kind = "status" /\ acked' = [acked EXCEPT ![r.gateway] = r.at])
  BY DEF Answer
<1> HIDE DEF c, p
<1>5. sim' \in [Gateways -> ClientState] /\ acked' \in [Gateways -> Nat]
  BY <1>1, <1>3, <1>4 DEF Typed
<1>6. ASSUME NEW g \in Gateways PROVE ClientMove(g)
  <2>1. sim'[g] = sim[g] \/ (g = r.gateway /\ sim'[g] = p)
    BY <1>4 DEF Typed
  <2>2. sim[g].token = "runtime" => sim[g].phase \in {"status", "agents"}
    BY DEF Onboarded
  <2> QED BY <1>3, <2>1, <2>2 DEF ClientMove, c
<1>7. ASSUME NEW g \in Gateways PROVE AckedMove(g, r, ok)
  BY <1>4 DEF AckedMove, Typed
<1> QED BY <1>4, <1>5, <1>6, <1>7

-----------------------------------------------------------------------------
(* The kinds of steps *)

tables == <<gateways, agents, series, agentSeries>>

\* The client of a gateway sends a copy of its request, of the next one or of
\* the one it waits for.
Sends(g) ==
    /\ \E q \in Request :
        /\ requests' = requests \cup {q}
        /\ q.gateway = g /\ q.token = sim[g].token /\ q.pc = "sent"
        /\ q.at = sim'[g].at /\ q.status = sim'[g].status
    /\ sim'[g].token = sim[g].token /\ sim'[g].phase = sim[g].phase
    /\ \/ sim'[g].at = sim[g].at /\ sim'[g].status = sim[g].status
       \/ /\ sim'[g].at = sim[g].at + 1
          /\ \A r \in requests : r.gateway = g /\ r.kind = "status" => r.at \in overtaken'[g]
    /\ \A h \in Gateways : overtaken[h] \subseteq overtaken'[h] /\ (h # g => sim'[h] = sim[h])
    /\ UNCHANGED <<tables, acked>>

\* The row of a gateway that is provisioned or registers
RowMove(g) ==
    /\ gateways'[g].report = gateways[g].report
    /\ \/ gateways'[g] = gateways[g]
       \/ /\ gateways[g].boot /\ ~gateways'[g].boot
          /\ gateways'[g].cred = gateways[g].cred /\ gateways'[g].life = "initializing"
       \/ /\ ~gateways[g].boot /\ ~gateways'[g].boot
          /\ gateways'[g].cred /\ gateways'[g].life = gateways[g].life

\* A copy is answered, or lost, or the client gives up: nothing is reported.
Rests ==
    /\ requests' \subseteq requests
    /\ \A g \in Gateways : ClientMove(g) /\ RowMove(g)
    /\ UNCHANGED <<agents, series, agentSeries, acked, overtaken>>

Reports(r) ==
    /\ r \in requests /\ r.kind = "status" /\ r.pc = "sent" /\ Authenticated(r)
    /\ \E q \in Request :
        /\ requests' = (requests \ {r}) \cup {q}
        /\ q.gateway = r.gateway /\ q.kind = r.kind /\ q.token = r.token /\ q.at = r.at
        /\ q.status = r.status
    /\ gateways'[r.gateway].boot = gateways[r.gateway].boot
    /\ gateways'[r.gateway].regist = gateways[r.gateway].regist
    /\ gateways'[r.gateway].cred /\ gateways'[r.gateway].life = "running"
    /\ gateways'[r.gateway].report = ReportOf(r)
    /\ \A g \in Gateways : g # r.gateway => gateways'[g] = gateways[g]
    /\ UNCHANGED <<agents, series, agentSeries, sim, acked, overtaken>>

Pushes(r) ==
    /\ r \in requests /\ r.pc = "push"
    /\ requests' = requests \ {r}
    /\ \A g \in Gateways : /\ ClientMove(g)
                           /\ acked'[g] = acked[g] \/ (g = r.gateway /\ acked'[g] = r.at)
    /\ series' = series \/ series' = series \cup {[gateway |-> r.gateway, at |-> r.at, up |-> Up(r)]}
    /\ UNCHANGED <<gateways, agents, agentSeries, overtaken>>

Lists(r) ==
    /\ r \in requests /\ Authenticated(r)
    /\ requests' = requests \ {r}
    /\ \A g \in Gateways : ClientMove(g)
    /\ agents' = {AgentRow(a, r) : a \in Agents}
    /\ agentSeries' \subseteq agentSeries \cup AgentSamplesOf(r)
    /\ UNCHANGED <<gateways, series, acked, overtaken>>

\* A client that sends a copy of its request
LEMMA NextClient ==
    ASSUME Typed, NEW g \in Gateways, NEW c \in ClientState,
           sim' = [sim EXCEPT ![g] = c], requests' = requests \cup {Copy(g, c)}
    PROVE  /\ sim' \in [Gateways -> ClientState] /\ sim'[g] = c
           /\ \A h \in Gateways : h # g => sim'[h] = sim[h]
           /\ requests' \subseteq Request
           /\ Copy(g, c) \in Request /\ Copy(g, c).gateway = g /\ Copy(g, c).token = c.token
           /\ Copy(g, c).pc = "sent" /\ Copy(g, c).at = c.at /\ Copy(g, c).status = c.status
<1>1. sim \in [Gateways -> ClientState]
  BY DEF Typed
<1>2. /\ Copy(g, c) \in Request
      /\ Copy(g, c).gateway = g /\ Copy(g, c).token = c.token /\ Copy(g, c).pc = "sent"
      /\ Copy(g, c).at = c.at /\ Copy(g, c).status = c.status
  BY DEF Copy, Request, ClientState
<1>3. sim' \in [Gateways -> ClientState] /\ sim'[g] = c /\ \A h \in Gateways : h # g => sim'[h] = sim[h]
  BY <1>1
<1> QED BY <1>2, <1>3 DEF Typed

\* The next request, of a new report or an old one
LEMMA SendEffect ==
    ASSUME Typed, NEW g \in Gateways, NEW status \in Statuses, SendRequest(g, status)
    PROVE  Typed' /\ Sends(g)
<1> DEFINE c == sim[g]
           next == [c EXCEPT !.waiting = TRUE, !.attempt = 1,
                             !.at = IF c.phase = "status" THEN @ + 1 ELSE @,
                             !.status = IF c.phase = "status" THEN status ELSE @]
           late == {r.at : r \in {q \in requests : q.gateway = g /\ q.kind = "status"}}
<1>1. c \in ClientState
  BY DEF Typed
<1>2. /\ next \in ClientState /\ next.token = c.token /\ next.phase = c.phase
      /\ (next.at = c.at /\ next.status = c.status) \/ next.at = c.at + 1
  <2>1. c.at \in Nat /\ c.at + 1 \in Nat /\ c.status \in Statuses
    BY <1>1 DEF ClientState
  <2>2. CASE c.phase = "status"
    <3>1. next = [c EXCEPT !.waiting = TRUE, !.attempt = 1, !.at = c.at + 1, !.status = status]
      BY <2>2
    <3> HIDE DEF next
    <3> QED BY <1>1, <2>1, <3>1 DEF ClientState
  <2>3. CASE c.phase # "status"
    <3>1. next = [c EXCEPT !.waiting = TRUE, !.attempt = 1, !.at = c.at, !.status = c.status]
      BY <2>3
    <3> HIDE DEF next
    <3> QED BY <1>1, <2>1, <3>1 DEF ClientState
  <2> QED BY <2>2, <2>3
<1>3. /\ sim' = [sim EXCEPT ![g] = next] /\ requests' = requests \cup {Copy(g, next)}
      /\ overtaken' = [overtaken EXCEPT ![g] = @ \cup late] /\ UNCHANGED <<tables, acked>>
  BY DEF SendRequest, tables
<1>4. late \subseteq Nat /\ \A r \in requests : r.gateway = g /\ r.kind = "status" => r.at \in late
  BY DEF Typed, Request
<1> HIDE DEF next, late
<1>5. /\ sim' \in [Gateways -> ClientState] /\ sim'[g] = next
      /\ \A h \in Gateways : h # g => sim'[h] = sim[h]
      /\ requests' \subseteq Request
      /\ Copy(g, next) \in Request /\ Copy(g, next).gateway = g
      /\ Copy(g, next).token = next.token /\ Copy(g, next).pc = "sent"
      /\ Copy(g, next).at = next.at /\ Copy(g, next).status = next.status
  BY <1>2, <1>3, NextClient
<1>6. /\ overtaken' \in [Gateways -> SUBSET Nat] /\ overtaken'[g] = overtaken[g] \cup late
      /\ \A h \in Gateways : h # g => overtaken'[h] = overtaken[h]
  BY <1>3, <1>4 DEF Typed
<1> QED BY <1>2, <1>3, <1>4, <1>5, <1>6 DEF Typed, Sends, tables

\* The same request again
LEMMA RetryEffect ==
    ASSUME Typed, NEW g \in Gateways, Retry(g)
    PROVE  Typed' /\ Sends(g)
<1> DEFINE c == sim[g]
           next == [c EXCEPT !.attempt = @ + 1]
<1>1. c \in ClientState
  BY DEF Typed
<1>2. /\ next \in ClientState /\ next.token = c.token /\ next.phase = c.phase
      /\ next.at = c.at /\ next.status = c.status
  BY <1>1 DEF ClientState
<1>3. /\ sim' = [sim EXCEPT ![g] = next] /\ requests' = requests \cup {Copy(g, next)}
      /\ UNCHANGED <<tables, acked, overtaken>>
  BY DEF Retry, tables
<1> HIDE DEF next
<1>4. /\ sim' \in [Gateways -> ClientState] /\ sim'[g] = next
      /\ \A h \in Gateways : h # g => sim'[h] = sim[h]
      /\ requests' \subseteq Request
      /\ Copy(g, next) \in Request /\ Copy(g, next).gateway = g
      /\ Copy(g, next).token = next.token /\ Copy(g, next).pc = "sent"
      /\ Copy(g, next).at = next.at /\ Copy(g, next).status = next.status
  BY <1>2, <1>3, NextClient
<1> QED BY <1>2, <1>3, <1>4 DEF Typed, Sends, tables

\* The client gives up and goes on.
LEMMA GiveUpEffect ==
    ASSUME Typed, Onboarded, NEW g \in Gateways, GiveUp(g)
    PROVE  Typed' /\ Rests
<1> DEFINE c == sim[g]
           p == Proceeding(c, FALSE)
<1>1. c \in ClientState /\ FALSE \in BOOLEAN
  BY DEF Typed
<1>2. /\ p \in ClientState /\ p.at = c.at /\ p.status = c.status
      /\ p.token = "runtime" => p.phase \in {"status", "agents"} \/ c.token = "runtime"
      /\ c.token = "runtime" /\ c.phase \in {"status", "agents"} =>
               p.token = "runtime" /\ p.phase \in {"status", "agents"}
  BY <1>1, ProceedingType
<1>3. sim' = [sim EXCEPT ![g] = p] /\ UNCHANGED <<tables, requests, acked, overtaken>>
  BY DEF GiveUp, tables
<1> HIDE DEF p
<1>4. sim' \in [Gateways -> ClientState] /\ sim'[g] = p /\ \A h \in Gateways : h # g => sim'[h] = sim[h]
  BY <1>2, <1>3 DEF Typed
<1>5. \A h \in Gateways : ClientMove(h)
  BY <1>2, <1>4 DEF ClientMove, Onboarded
<1> QED BY <1>3, <1>4, <1>5 DEF Typed, Rests, RowMove, tables

\* The rows of the tables stay of their types when a row is replaced.
LEMMA OneRow ==
    ASSUME Typed, NEW g \in Gateways, NEW row \in Row,
           gateways' = gateways \/ gateways' = [gateways EXCEPT ![g] = row]
    PROVE  /\ gateways' \in [Gateways -> Row]
           /\ \A h \in Gateways : h # g => gateways'[h] = gateways[h]
           /\ gateways'[g] = gateways[g] \/ gateways'[g] = row
           /\ gateways' = [gateways EXCEPT ![g] = row] => gateways'[g] = row
BY DEF Typed

\* Provisioning and registration
LEMMA OnboardingEffect ==
    ASSUME Typed, Onboarded, NEW r \in requests, NEW delivered \in BOOLEAN,
           ProvisionGateway(r, delivered) \/ RegisterGateway(r, delivered)
    PROVE  Typed' /\ Rests
<1> DEFINE g == r.gateway
           row == gateways[g]
           provisioned == [row EXCEPT !.boot = FALSE, !.regist = "active", !.life = "initializing"]
           registered == [row EXCEPT !.regist = "used", !.cred = TRUE]
<1>1. g \in Gateways /\ row \in Row
  BY DEF Typed, Request
<1>2. /\ provisioned \in Row /\ ~provisioned.boot /\ provisioned.cred = row.cred
      /\ provisioned.life = "initializing" /\ provisioned.report = row.report
      /\ registered \in Row /\ registered.boot = row.boot /\ registered.cred
      /\ registered.life = row.life /\ registered.report = row.report
  BY <1>1 DEF Row
<1>3. /\ UNCHANGED <<agents, series, agentSeries>> /\ r.kind # "status"
      /\ \E ok \in BOOLEAN : Answer(r, ok, delivered)
      /\ \/ gateways' = gateways
         \/ row.boot /\ gateways' = [gateways EXCEPT ![g] = provisioned]
         \/ row.regist = "active" /\ gateways' = [gateways EXCEPT ![g] = registered]
  <2>1. row.boot \in BOOLEAN /\ (row.regist = "active") \in BOOLEAN
    BY <1>1 DEF Row
  <2> QED BY <2>1 DEF ProvisionGateway, RegisterGateway
<1>4. row.regist = "active" => ~row.boot
  BY <1>1 DEF Onboarded
<1> HIDE DEF provisioned, registered
<1>5. /\ gateways' \in [Gateways -> Row] /\ \A h \in Gateways : h # g => gateways'[h] = gateways[h]
      /\ \/ gateways'[g] = row
         \/ row.boot /\ gateways'[g] = provisioned
         \/ row.regist = "active" /\ gateways'[g] = registered
  BY <1>1, <1>2, <1>3, OneRow
<1>6. \A h \in Gateways : RowMove(h)
  BY <1>2, <1>4, <1>5 DEF RowMove
<1>7. /\ requests' = requests \ {r} /\ UNCHANGED overtaken
      /\ sim' \in [Gateways -> ClientState] /\ acked' \in [Gateways -> Nat]
      /\ \A h \in Gateways : ClientMove(h) /\ acked'[h] = acked[h]
  BY <1>3, AnswerEffect DEF AckedMove
<1>8. acked' = acked
  BY <1>7 DEF Typed
<1> QED BY <1>3, <1>5, <1>6, <1>7, <1>8 DEF Typed, Rests

\* A refusal, a failure of the store, a copy that is lost
LEMMA NothingStoredEffect ==
    ASSUME Typed, Onboarded, NEW r \in requests, Refuse(r) \/ StoreFails(r) \/ Lose(r)
    PROVE  Typed' /\ Rests
<1>1. UNCHANGED tables /\ FALSE \in BOOLEAN /\ TRUE \in BOOLEAN
  BY DEF Refuse, StoreFails, Lose, tables
<1>2. CASE Lose(r)
  <2>1. \A g \in Gateways : ClientMove(g)
    BY <1>2 DEF Lose, ClientMove, Onboarded
  <2> QED BY <1>1, <1>2, <2>1 DEF Lose, Typed, Rests, RowMove, tables
<1>3. CASE Answer(r, FALSE, TRUE)
  <2>1. /\ requests' = requests \ {r} /\ UNCHANGED overtaken
        /\ sim' \in [Gateways -> ClientState] /\ acked' \in [Gateways -> Nat]
        /\ \A h \in Gateways : ClientMove(h) /\ acked'[h] = acked[h]
    BY <1>1, <1>3, AnswerEffect DEF AckedMove
  <2>2. acked' = acked
    BY <2>1 DEF Typed
  <2> QED BY <1>1, <2>1, <2>2 DEF Typed, Rests, RowMove, tables
<1> QED BY <1>2, <1>3 DEF Refuse, StoreFails

\* upsert_gateway_status
LEMMA ReportEffect ==
    ASSUME Typed, NEW r \in requests, SubmitGatewayStatus(r)
    PROVE  Typed' /\ Reports(r)
<1> DEFINE g == r.gateway
           row == [gateways[g] EXCEPT !.report = ReportOf(r), !.life = "running"]
           q == [r EXCEPT !.pc = "push"]
<1>1. r \in Request /\ g \in Gateways /\ gateways[g] \in Row
  BY DEF Typed, Request
<1>2. ReportOf(r) \in Report
  BY <1>1 DEF ReportOf, Report, Request
<1>3. /\ row \in Row /\ row.boot = gateways[g].boot /\ row.regist = gateways[g].regist
      /\ row.cred = gateways[g].cred /\ row.life = "running" /\ row.report = ReportOf(r)
  BY <1>1, <1>2 DEF Row
<1>4. /\ q \in Request /\ q.gateway = r.gateway /\ q.kind = r.kind /\ q.token = r.token /\ q.at = r.at
      /\ q.status = r.status
  BY <1>1 DEF Request
<1>5. /\ gateways' = [gateways EXCEPT ![g] = row] /\ requests' = (requests \ {r}) \cup {q}
      /\ UNCHANGED <<agents, series, agentSeries, sim, acked, overtaken>>
  BY <1>1 DEF SubmitGatewayStatus, Typed, Row
<1>6. r.kind = "status" /\ r.pc = "sent" /\ Authenticated(r)
  BY DEF SubmitGatewayStatus
<1> HIDE DEF row, q
<1>7. /\ gateways' \in [Gateways -> Row] /\ \A h \in Gateways : h # g => gateways'[h] = gateways[h]
      /\ gateways'[g] = row
  BY <1>1, <1>3, <1>5, OneRow
<1> QED BY <1>3, <1>4, <1>5, <1>6, <1>7 DEF Typed, Reports, Authenticated

\* push_gateway_status and the answer
LEMMA PushEffect ==
    ASSUME Typed, Onboarded, NEW r \in requests, NEW pushed \in BOOLEAN, NEW delivered \in BOOLEAN,
           PushGatewayStatus(r, pushed, delivered)
    PROVE  Typed' /\ Pushes(r)
<1> DEFINE s == [gateway |-> r.gateway, at |-> r.at, up |-> Up(r)]
<1>1. r \in Request
  BY DEF Typed
<1>2. s \in Sample
  <2>1. Up(r) \in 0 .. 1
    BY DEF Up
  <2> QED BY <1>1, <2>1 DEF Sample, Request
<1>3. /\ r.pc = "push" /\ UNCHANGED <<gateways, agents, agentSeries>> /\ Answer(r, TRUE, delivered)
      /\ series' = series \/ series' = series \cup {s}
  BY DEF PushGatewayStatus
<1>4. /\ requests' = requests \ {r} /\ UNCHANGED overtaken
      /\ sim' \in [Gateways -> ClientState] /\ acked' \in [Gateways -> Nat]
      /\ \A h \in Gateways : /\ ClientMove(h)
                             /\ acked'[h] = acked[h] \/ (h = r.gateway /\ acked'[h] = r.at)
  BY <1>3, AnswerEffect DEF AckedMove
<1> QED BY <1>2, <1>3, <1>4 DEF Typed, Pushes

\* submit_agent_status
LEMMA ListEffect ==
    ASSUME Typed, Onboarded, NEW r \in requests, NEW pushed \in BOOLEAN, NEW delivered \in BOOLEAN,
           SubmitAgentStatus(r, pushed, delivered)
    PROVE  Typed' /\ Lists(r)
<1>1. r \in Request
  BY DEF Typed
<1>2. \A a \in Agents : AgentRow(a, r) \in ListedRow
  BY <1>1 DEF AgentRow, ListedRow, Request
<1>3. AgentSamplesOf(r) \subseteq SampleOfAgent
  <2>1. Up(r) \in 0 .. 1
    BY DEF Up
  <2>2. \A a \in Agents : AgentSample(a, r) \in SampleOfAgent
    BY <1>1, <2>1 DEF AgentSample, SampleOfAgent, Request
  <2> QED BY <2>2 DEF AgentSamplesOf
<1>4. /\ UNCHANGED <<gateways, series>> /\ Answer(r, TRUE, delivered) /\ Authenticated(r)
      /\ r.kind # "status"
      /\ agents' = {AgentRow(a, r) : a \in Agents}
      /\ agentSeries' \subseteq agentSeries \cup AgentSamplesOf(r)
      /\ agentSeries' = agentSeries \/ agentSeries' = agentSeries \cup AgentSamplesOf(r)
  BY DEF SubmitAgentStatus, Replaced
<1>5. /\ requests' = requests \ {r} /\ UNCHANGED overtaken
      /\ sim' \in [Gateways -> ClientState] /\ acked' \in [Gateways -> Nat]
      /\ \A h \in Gateways : ClientMove(h) /\ acked'[h] = acked[h]
  BY <1>4, AnswerEffect DEF AckedMove
<1>6. acked' = acked
  BY <1>5 DEF Typed
<1> QED BY <1>2, <1>3, <1>4, <1>5, <1>6 DEF Typed, Lists

\* Every step is of one of the five kinds.
LEMMA StepKinds ==
    ASSUME Typed, Onboarded, FleetNext
    PROVE  /\ Typed'
           /\ \/ \E g \in Gateways : Sends(g)
              \/ Rests
              \/ \E r \in requests : Reports(r) \/ Pushes(r) \/ Lists(r)
<1>1. ASSUME NEW g \in Gateways, NEW status \in Statuses, SendRequest(g, status) PROVE Typed' /\ Sends(g)
  BY <1>1, SendEffect
<1>2. ASSUME NEW g \in Gateways, Retry(g) PROVE Typed' /\ Sends(g)
  BY <1>2, RetryEffect
<1>3. ASSUME NEW g \in Gateways, GiveUp(g) PROVE Typed' /\ Rests
  BY <1>3, GiveUpEffect
<1>4. ASSUME NEW r \in requests, SubmitGatewayStatus(r) PROVE Typed' /\ Reports(r)
  BY <1>4, ReportEffect
<1>5. ASSUME NEW r \in requests, Refuse(r) \/ StoreFails(r) \/ Lose(r) PROVE Typed' /\ Rests
  BY <1>5, NothingStoredEffect
<1>6. ASSUME NEW r \in requests, NEW delivered \in BOOLEAN,
             ProvisionGateway(r, delivered) \/ RegisterGateway(r, delivered)
      PROVE  Typed' /\ Rests
  BY <1>6, OnboardingEffect
<1>7. ASSUME NEW r \in requests, NEW delivered \in BOOLEAN, NEW pushed \in BOOLEAN,
             PushGatewayStatus(r, pushed, delivered)
      PROVE  Typed' /\ Pushes(r)
  BY <1>7, PushEffect
<1>8. ASSUME NEW r \in requests, NEW delivered \in BOOLEAN, NEW pushed \in BOOLEAN,
             SubmitAgentStatus(r, pushed, delivered)
      PROVE  Typed' /\ Lists(r)
  BY <1>8, ListEffect
<1> QED BY <1>1, <1>2, <1>3, <1>4, <1>5, <1>6, <1>7, <1>8 DEF FleetNext

-----------------------------------------------------------------------------
(* Onboarding *)

\* A gateway keeps the runtime token in the loop of its reports, and each of
\* its copies carries a token it holds.
LEMMA OnboardedStep ==
    ASSUME Typed, Typed', Onboarded,
           \/ \E g \in Gateways : Sends(g)
           \/ Rests
           \/ \E r \in requests : Reports(r) \/ Pushes(r) \/ Lists(r)
    PROVE  Onboarded'
<1> USE DEF HasReport
<1>1. /\ \A r \in requests : r.gateway \in Gateways
      /\ \A r \in requests' : r.gateway \in Gateways
      /\ \A row \in agents : row.gateway \in Gateways
      /\ \A row \in agents' : row.gateway \in Gateways
  BY DEF Typed, Request, ListedRow
<1>2. ASSUME NEW g \in Gateways, Sends(g) PROVE Onboarded'
  <2>1. UNCHANGED <<gateways, agents>>
    BY <1>2 DEF Sends, tables
  <2>2. \A h \in Gateways : sim'[h].token = sim[h].token /\ sim'[h].phase = sim[h].phase
    BY <1>2 DEF Sends
  <2>3. \A r \in requests' : r \in requests \/ (r.gateway = g /\ r.token = sim[g].token /\ r.pc = "sent")
    BY <1>2 DEF Sends
  <2> QED BY <1>1, <2>1, <2>2, <2>3 DEF Onboarded
<1>3. CASE Rests
  <2>1. \A g \in Gateways : ClientMove(g) /\ RowMove(g)
    BY <1>3 DEF Rests
  <2>2. ASSUME NEW g \in Gateways
        PROVE  /\ gateways'[g].boot => gateways'[g].regist = "none" /\ ~gateways'[g].cred
               /\ gateways'[g].report # NoReport <=> gateways'[g].life = "running"
               /\ gateways'[g].report # NoReport => gateways'[g].cred
               /\ sim'[g].token = "runtime" => sim'[g].phase \in {"status", "agents"}
               /\ gateways[g].cred => gateways'[g].cred
               /\ sim[g].token = "runtime" => sim'[g].token = "runtime"
               /\ gateways'[g].report = gateways[g].report
    <3>1. ClientMove(g) /\ RowMove(g)
      BY <2>1
    <3>2. /\ gateways[g].boot => gateways[g].regist = "none" /\ ~gateways[g].cred
          /\ gateways[g].report # NoReport <=> gateways[g].life = "running"
          /\ gateways[g].report # NoReport => gateways[g].cred
      BY DEF Onboarded
    <3> QED BY <3>1, <3>2 DEF ClientMove, RowMove
  <2>3. requests' \subseteq requests /\ agents' = agents
    BY <1>3 DEF Rests
  <2> QED BY <1>1, <2>2, <2>3 DEF Onboarded
<1>4. ASSUME NEW r \in requests, Reports(r) PROVE Onboarded'
  <2>1. /\ gateways'[r.gateway].boot = gateways[r.gateway].boot
        /\ gateways'[r.gateway].regist = gateways[r.gateway].regist
        /\ gateways'[r.gateway].cred /\ gateways'[r.gateway].life = "running"
        /\ gateways'[r.gateway].report = ReportOf(r)
        /\ \A g \in Gateways : g # r.gateway => gateways'[g] = gateways[g]
        /\ UNCHANGED <<agents, sim>> /\ gateways[r.gateway].cred /\ r.token = "runtime"
    BY <1>4 DEF Reports, Authenticated
  <2>2. ReportOf(r) # NoReport
    BY DEF ReportOf, NoReport, Typed, Request, Statuses
  <2>3. \A q \in requests' : \/ q \in requests
                             \/ q.gateway = r.gateway /\ q.kind = "status" /\ q.token = "runtime"
    BY <1>4, <2>1 DEF Reports
  <2>4. sim[r.gateway].token = "runtime"
    BY <2>1 DEF Onboarded
  <2>5. ~gateways[r.gateway].boot
    BY <1>1, <2>1 DEF Onboarded
  <2>6. \A g \in Gateways : /\ HasReport(g) => (HasReport(g))'
                            /\ gateways[g].cred => gateways'[g].cred
    BY <2>1, <2>2
  <2>7. \A g \in Gateways :
          /\ gateways'[g].boot => gateways'[g].regist = "none" /\ ~gateways'[g].cred
          /\ gateways'[g].report # NoReport <=> gateways'[g].life = "running"
          /\ gateways'[g].report # NoReport => gateways'[g].cred
          /\ sim'[g].token = "runtime" => sim'[g].phase \in {"status", "agents"}
    BY <2>1, <2>2, <2>5 DEF Onboarded
  <2>8. \A q \in requests' :
          /\ q.token = "runtime" => sim'[q.gateway].token = "runtime"
          /\ q.pc = "push" => q.kind = "status" /\ gateways'[q.gateway].report # NoReport
    BY <1>1, <2>1, <2>2, <2>3, <2>4, <2>6 DEF Onboarded
  <2>9. \A row \in agents' : gateways'[row.gateway].cred /\ sim'[row.gateway].token = "runtime"
    BY <1>1, <2>1, <2>6 DEF Onboarded
  <2> QED BY <2>7, <2>8, <2>9 DEF Onboarded
<1>5. ASSUME NEW r \in requests, Pushes(r) \/ Lists(r) PROVE Onboarded'
  <2>1. /\ requests' \subseteq requests /\ gateways' = gateways
        /\ \A g \in Gateways : ClientMove(g)
        /\ \A row \in agents' : \/ row \in agents
                                \/ row.gateway = r.gateway /\ Authenticated(r)
    BY <1>5 DEF Pushes, Lists, AgentRow
  <2>2. Authenticated(r) => gateways[r.gateway].cred /\ sim[r.gateway].token = "runtime"
    BY DEF Authenticated, Onboarded
  <2>3. \A g \in Gateways : /\ sim'[g].token = "runtime" => sim'[g].phase \in {"status", "agents"}
                            /\ sim[g].token = "runtime" => sim'[g].token = "runtime"
    BY <2>1 DEF ClientMove
  <2> QED BY <1>1, <2>1, <2>2, <2>3 DEF Onboarded
<1> QED BY <1>2, <1>3, <1>4, <1>5

-----------------------------------------------------------------------------
(* The rows of the agents *)

\* submit_agent_status replaces the rows of all agents by those of one report.
LEMMA OneReportStep ==
    ASSUME Typed, OneReport,
           \/ \E g \in Gateways : Sends(g)
           \/ Rests
           \/ \E r \in requests : Reports(r) \/ Pushes(r) \/ Lists(r)
    PROVE  OneReport'
<1>1. CASE UNCHANGED <<agents, agentSeries>>
  BY <1>1 DEF OneReport
<1>2. ASSUME NEW r \in requests, Lists(r) PROVE OneReport'
  <2>1. agents' = {AgentRow(a, r) : a \in Agents} /\ agentSeries' \subseteq agentSeries \cup AgentSamplesOf(r)
    BY <1>2 DEF Lists
  <2>2. \A a \in Agents : AgentRow(a, r).agent = a /\ AgentRow(a, r).gateway = r.gateway
    BY DEF AgentRow
  <2>3. \A p, q \in agents' : p.gateway = q.gateway /\ (p.agent = q.agent => p = q)
    BY <2>1, <2>2
  <2>4. \A a \in Agents : \E row \in agents' : row.agent = a
    BY <2>1, <2>2
  <2>5. agentSeries' # {} => agents' # {}
    <3>1. agentSeries # {} => \E a \in Agents : TRUE
      BY DEF Typed, SampleOfAgent
    <3>2. AgentSamplesOf(r) # {} => \E a \in Agents : TRUE
      BY DEF AgentSamplesOf
    <3> QED BY <2>1, <2>4, <3>1, <3>2
  <2> QED BY <2>3, <2>4, <2>5 DEF OneReport
<1> QED BY <1>1, <1>2 DEF Sends, Rests, Reports, Pushes, tables

-----------------------------------------------------------------------------
(* The latest report *)

\* Whatever is sent, answered and stored, a report is the latest of its
\* gateway or overtaken, and so is what is shown.
LEMMA LatestStep ==
    ASSUME Typed, Typed', Latest,
           \/ \E g \in Gateways : Sends(g)
           \/ Rests
           \/ \E r \in requests : Reports(r) \/ Pushes(r) \/ Lists(r)
    PROVE  Latest'
<1>1. /\ \A r \in requests : r.gateway \in Gateways /\ r.at \in Nat
      /\ \A r \in requests' : r.gateway \in Gateways /\ r.at \in Nat
      /\ \A g \in Gateways : /\ sim[g].at \in Nat /\ sim'[g].at \in Nat
                             /\ acked[g] \in Nat /\ acked'[g] \in Nat
                             /\ gateways[g].report.at \in Nat /\ gateways'[g].report.at \in Nat
  BY DEF Typed, Request, ClientState, Row, Report
<1>2. /\ \A g \in Gateways :
          /\ acked[g] <= sim[g].at
          /\ gateways[g].report.at < acked[g] => gateways[g].report.at \in overtaken[g]
      /\ \A r \in requests :
          /\ r.at <= sim[r.gateway].at
          /\ r.kind = "status" => r.at = sim[r.gateway].at \/ r.at \in overtaken[r.gateway]
          /\ r.pc = "push" => \/ r.at <= gateways[r.gateway].report.at
                              \/ gateways[r.gateway].report.at \in overtaken[r.gateway]
  BY DEF Latest
<1>3. ASSUME NEW g \in Gateways, Sends(g) PROVE Latest'
  <2>1. /\ UNCHANGED <<gateways, acked>>
        /\ \A h \in Gateways : overtaken[h] \subseteq overtaken'[h] /\ sim'[h].at >= sim[h].at
        /\ \A r \in requests' : r \in requests \/ (r.gateway = g /\ r.at = sim'[g].at /\ r.pc = "sent")
    BY <1>1, <1>3 DEF Sends, tables
  <2>2. ASSUME NEW h \in Gateways
        PROVE  /\ acked'[h] <= sim'[h].at
               /\ gateways'[h].report.at < acked'[h] => gateways'[h].report.at \in overtaken'[h]
    BY <1>1, <1>2, <2>1
  <2>3. ASSUME NEW r \in requests
        PROVE  /\ r.at <= sim'[r.gateway].at
               /\ r.kind = "status" => r.at = sim'[r.gateway].at \/ r.at \in overtaken'[r.gateway]
               /\ r.pc = "push" => \/ r.at <= gateways'[r.gateway].report.at
                                   \/ gateways'[r.gateway].report.at \in overtaken'[r.gateway]
    <3>1. r.kind = "status" => \/ sim'[r.gateway].at = sim[r.gateway].at
                               \/ r.at \in overtaken'[r.gateway]
      BY <1>1, <1>3 DEF Sends
    <3> QED BY <1>1, <1>2, <2>1, <3>1
  <2>4. ASSUME NEW r \in requests', r.gateway = g, r.at = sim'[g].at, r.pc = "sent"
        PROVE  /\ r.at <= sim'[r.gateway].at
               /\ r.kind = "status" => r.at = sim'[r.gateway].at \/ r.at \in overtaken'[r.gateway]
               /\ r.pc = "push" => \/ r.at <= gateways'[r.gateway].report.at
                                   \/ gateways'[r.gateway].report.at \in overtaken'[r.gateway]
    BY <1>1, <2>4
  <2> QED BY <2>1, <2>2, <2>3, <2>4 DEF Latest
<1>4. CASE Rests
  <2>1. /\ requests' \subseteq requests /\ UNCHANGED <<acked, overtaken>>
        /\ \A g \in Gateways : sim'[g].at = sim[g].at /\ gateways'[g].report = gateways[g].report
    BY <1>4 DEF Rests, ClientMove, RowMove
  <2> QED BY <1>1, <1>2, <2>1 DEF Latest
<1>5. ASSUME NEW r \in requests, Reports(r) PROVE Latest'
  <2>1. /\ UNCHANGED <<sim, acked, overtaken>> /\ r.kind = "status"
        /\ gateways'[r.gateway].report.at = r.at
        /\ \A g \in Gateways : g # r.gateway => gateways'[g] = gateways[g]
        /\ \A q \in requests' : \/ q \in requests
                                \/ q.gateway = r.gateway /\ q.kind = "status" /\ q.at = r.at
    BY <1>5 DEF Reports, ReportOf
  <2>2. /\ r.at <= sim[r.gateway].at
        /\ r.at < sim[r.gateway].at => r.at \in overtaken[r.gateway]
    BY <1>1, <1>2, <2>1
  <2>3. ASSUME NEW h \in Gateways
        PROVE  /\ acked'[h] <= sim'[h].at
               /\ gateways'[h].report.at < acked'[h] => gateways'[h].report.at \in overtaken'[h]
    BY <1>1, <1>2, <2>1, <2>2
  <2>4. ASSUME NEW q \in requests'
        PROVE  /\ q.at <= sim'[q.gateway].at
               /\ q.kind = "status" => q.at = sim'[q.gateway].at \/ q.at \in overtaken'[q.gateway]
    BY <1>1, <1>2, <2>1, <2>2
  <2>5. ASSUME NEW q \in requests', q.pc = "push"
        PROVE  \/ q.at <= gateways'[q.gateway].report.at
               \/ gateways'[q.gateway].report.at \in overtaken'[q.gateway]
    <3>1. CASE q.gateway = r.gateway
      BY <1>1, <2>1, <2>2, <2>4, <3>1
    <3>2. CASE q.gateway # r.gateway
      BY <1>1, <1>2, <2>1, <2>5, <3>2
    <3> QED BY <3>1, <3>2
  <2> QED BY <2>3, <2>4, <2>5 DEF Latest
<1>6. ASSUME NEW r \in requests, Pushes(r) PROVE Latest'
  <2>1. /\ requests' \subseteq requests /\ UNCHANGED <<gateways, overtaken>> /\ r.pc = "push"
        /\ \A g \in Gateways : /\ sim'[g].at = sim[g].at
                               /\ acked'[g] = acked[g] \/ (g = r.gateway /\ acked'[g] = r.at)
    BY <1>6 DEF Pushes, ClientMove
  <2>2. ASSUME NEW g \in Gateways
        PROVE  /\ acked'[g] <= sim'[g].at
               /\ gateways'[g].report.at < acked'[g] => gateways'[g].report.at \in overtaken'[g]
    <3>1. CASE acked'[g] = acked[g]
      BY <1>2, <2>1, <3>1
    <3>2. CASE g = r.gateway /\ acked'[g] = r.at
      BY <1>1, <1>2, <2>1, <3>2
    <3> QED BY <2>1, <3>1, <3>2
  <2> QED BY <1>1, <1>2, <2>1, <2>2 DEF Latest
<1>7. ASSUME NEW r \in requests, Lists(r) PROVE Latest'
  <2>1. /\ requests' \subseteq requests /\ UNCHANGED <<gateways, acked, overtaken>>
        /\ \A g \in Gateways : sim'[g].at = sim[g].at
    BY <1>7 DEF Lists, ClientMove
  <2> QED BY <1>1, <1>2, <2>1 DEF Latest
<1> QED BY <1>3, <1>4, <1>5, <1>6, <1>7

-----------------------------------------------------------------------------
(* One account of what was said *)

\* What is told of a report depends on its status alone.
LEMMA UpOfStatus ==
    ASSUME NEW p, NEW q, p.status = q.status
    PROVE  Up(p) = Up(q) /\ Up(p) \in 0 .. 1
BY DEF Up

\* A new report is added to the account, under a time nothing was said about.
LEMMA SendsConsistent ==
    ASSUME Typed, Typed', Consistent, NEW g \in Gateways, Sends(g)
    PROVE  Consistent'
<1>1. PICK said \in Accounts : Follows(said)
  BY DEF Consistent
<1>2. /\ \A h \in Gateways : sim[h].at \in Nat /\ sim'[h].at \in Nat /\ gateways[h].report.at \in Nat
      /\ \A r \in requests : r.gateway \in Gateways /\ r.at \in Nat
      /\ \A row \in agents : row.gateway \in Gateways /\ row.at \in Nat
      /\ \A s \in series : s.gateway \in Gateways /\ s.at \in Nat
      /\ \A s \in agentSeries : s.gateway \in Gateways /\ s.at \in Nat
  BY DEF Typed, Request, ClientState, Row, Report, ListedRow, Sample, SampleOfAgent
<1>3. /\ UNCHANGED <<gateways, agents, series, agentSeries>>
      /\ \A h \in Gateways : h # g => sim'[h] = sim[h]
      /\ \A r \in requests' : \/ r \in requests
                              \/ r.gateway = g /\ r.at = sim'[g].at /\ r.status = sim'[g].status
      /\ \/ sim'[g].at = sim[g].at /\ sim'[g].status = sim[g].status
         \/ sim'[g].at = sim[g].at + 1
  BY DEF Sends, tables
<1>4. Up(sim'[g]) \in 0 .. 1 /\ sim'[g].at \in Nat
  BY <1>2, UpOfStatus
<1>5. PICK of : of = [said[g] EXCEPT ![sim'[g].at] = Up(sim'[g])]
  OBVIOUS
<1>6. PICK new : new = [said EXCEPT ![g] = of]
  OBVIOUS
<1>7. /\ of \in [Nat -> 0 .. 1] /\ of[sim'[g].at] = Up(sim'[g])
      /\ \A t \in Nat : t # sim'[g].at => of[t] = said[g][t]
  BY <1>1, <1>4, <1>5 DEF Accounts
<1>8. /\ new \in Accounts /\ new[g] = of
      /\ \A h \in Gateways : h # g => new[h] = said[h]
  BY <1>1, <1>6, <1>7 DEF Accounts
<1>9. ASSUME NEW h \in Gateways, NEW t \in Nat, t <= sim[h].at
      PROVE  new[h][t] = said[h][t] /\ t <= sim'[h].at
  <2>1. CASE h = g /\ t = sim'[g].at
    <3>1. t = sim[g].at /\ sim'[g].status = sim[g].status
      BY <1>2, <1>3, <1>9, <2>1
    <3>2. said[g][sim[g].at] = Up(sim[g])
      BY <1>1 DEF Follows
    <3>3. Up(sim[g]) = Up(sim'[g])
      BY <3>1, UpOfStatus
    <3> QED BY <1>2, <1>7, <1>8, <2>1, <3>1, <3>2, <3>3
  <2>2. CASE h = g /\ t # sim'[g].at
    BY <1>2, <1>3, <1>7, <1>8, <1>9, <2>2
  <2>3. CASE h # g
    BY <1>3, <1>8, <1>9, <2>3
  <2> QED BY <2>1, <2>2, <2>3
<1>10. ASSUME NEW h \in Gateways
      PROVE  /\ new[h][sim'[h].at] = Up(sim'[h])
             /\ HasReport(h) => /\ gateways[h].report.at <= sim'[h].at
                                /\ new[h][gateways[h].report.at] = Up(gateways[h].report)
  <2>1. CASE h = g
    BY <1>1, <1>2, <1>7, <1>8, <1>9, <2>1 DEF Follows
  <2>2. CASE h # g
    BY <1>1, <1>2, <1>3, <1>9, <2>2 DEF Follows
  <2> QED BY <2>1, <2>2
<1>11. ASSUME NEW r \in requests'
      PROVE  r.at <= sim'[r.gateway].at /\ new[r.gateway][r.at] = Up(r)
  <2>1. CASE r \in requests
    <3>1. r.at <= sim[r.gateway].at /\ said[r.gateway][r.at] = Up(r)
      BY <1>1, <2>1 DEF Follows
    <3> QED BY <1>2, <1>9, <2>1, <3>1
  <2>2. CASE r.gateway = g /\ r.at = sim'[g].at /\ r.status = sim'[g].status
    BY <1>2, <1>7, <1>8, <2>2, UpOfStatus
  <2> QED BY <1>3, <2>1, <2>2
<1>12. /\ \A row \in agents : row.at <= sim'[row.gateway].at /\ new[row.gateway][row.at] = Up(row)
       /\ \A s \in series : s.at <= sim'[s.gateway].at /\ new[s.gateway][s.at] = s.up
       /\ \A s \in agentSeries : s.at <= sim'[s.gateway].at /\ new[s.gateway][s.at] = s.up
  BY <1>1, <1>2, <1>9 DEF Follows
<1>13. Follows(new)'
  BY <1>3, <1>10, <1>11, <1>12 DEF Follows, HasReport
<1>14. \A s \in series' : (HasReport(s.gateway))'
  BY <1>2, <1>3 DEF Consistent, HasReport
<1> QED BY <1>8, <1>13, <1>14 DEF Consistent

\* What is stored of a report says what its copy says.
LEMMA StoresConsistent ==
    ASSUME Typed, Typed', Onboarded, Consistent,
           Rests \/ \E r \in requests : Reports(r) \/ Pushes(r) \/ Lists(r)
    PROVE  Consistent'
<1>1. PICK said \in Accounts : Follows(said)
  BY DEF Consistent
<1>2. /\ \A r \in requests : r.gateway \in Gateways
      /\ \A row \in agents : row.gateway \in Gateways
      /\ \A s \in series : s.gateway \in Gateways
      /\ \A s \in agentSeries : s.gateway \in Gateways
  BY DEF Typed, Request, ListedRow, Sample, SampleOfAgent
<1>3. \A g \in Gateways : sim'[g].at = sim[g].at /\ Up(sim'[g]) = Up(sim[g])
  <2>1. \A g \in Gateways : sim'[g].at = sim[g].at /\ sim'[g].status = sim[g].status
    BY DEF Rests, Reports, Pushes, Lists, ClientMove
  <2> QED BY <2>1, UpOfStatus
<1>4. /\ \A g \in Gateways :
          /\ said[g][sim[g].at] = Up(sim[g])
          /\ HasReport(g) => /\ gateways[g].report.at <= sim[g].at
                             /\ said[g][gateways[g].report.at] = Up(gateways[g].report)
      /\ \A r \in requests : r.at <= sim[r.gateway].at /\ said[r.gateway][r.at] = Up(r)
      /\ \A row \in agents : row.at <= sim[row.gateway].at /\ said[row.gateway][row.at] = Up(row)
      /\ \A s \in series : s.at <= sim[s.gateway].at /\ said[s.gateway][s.at] = s.up
      /\ \A s \in agentSeries : s.at <= sim[s.gateway].at /\ said[s.gateway][s.at] = s.up
      /\ \A s \in series : HasReport(s.gateway)
  BY <1>1 DEF Consistent, Follows
<1>5. CASE Rests
  <2>1. /\ requests' \subseteq requests /\ UNCHANGED <<agents, series, agentSeries>>
        /\ \A g \in Gateways : gateways'[g].report = gateways[g].report
    BY <1>5 DEF Rests, RowMove
  <2>2. Follows(said)'
    BY <1>2, <1>3, <1>4, <2>1 DEF Follows, HasReport
  <2>3. \A s \in series' : (HasReport(s.gateway))'
    BY <1>2, <1>4, <2>1 DEF HasReport
  <2> QED BY <2>2, <2>3 DEF Consistent
<1>6. ASSUME NEW r \in requests, Reports(r) PROVE Consistent'
  <2>1. /\ UNCHANGED <<agents, series, agentSeries>>
        /\ gateways'[r.gateway].report = ReportOf(r)
        /\ \A g \in Gateways : g # r.gateway => gateways'[g] = gateways[g]
        /\ \A q \in requests' : \/ q \in requests
                                \/ q.gateway = r.gateway /\ q.at = r.at /\ q.status = r.status
    BY <1>6 DEF Reports
  <2>2. ReportOf(r).at = r.at /\ Up(ReportOf(r)) = Up(r) /\ ReportOf(r) # NoReport
    <3>1. ReportOf(r).status = r.status /\ ReportOf(r).at = r.at
      BY DEF ReportOf
    <3>2. ReportOf(r) # NoReport
      BY DEF ReportOf, NoReport, Typed, Request, Statuses
    <3> QED BY <3>1, <3>2, UpOfStatus
  <2>3. \A q \in requests' : q.at <= sim'[q.gateway].at /\ said[q.gateway][q.at] = Up(q)
    <3> SUFFICES ASSUME NEW q \in requests'
                 PROVE  q.at <= sim'[q.gateway].at /\ said[q.gateway][q.at] = Up(q)
      OBVIOUS
    <3>1. CASE q \in requests
      BY <1>2, <1>3, <1>4, <3>1
    <3>2. CASE q.gateway = r.gateway /\ q.at = r.at /\ q.status = r.status
      BY <1>2, <1>3, <1>4, <3>2, UpOfStatus
    <3> QED BY <2>1, <3>1, <3>2
  <2>4. \A g \in Gateways :
          /\ said[g][sim'[g].at] = Up(sim'[g])
          /\ gateways'[g].report # NoReport =>
                /\ gateways'[g].report.at <= sim'[g].at
                /\ said[g][gateways'[g].report.at] = Up(gateways'[g].report)
    BY <1>2, <1>3, <1>4, <2>1, <2>2 DEF HasReport
  <2>5. Follows(said)'
    BY <1>2, <1>3, <1>4, <2>1, <2>3, <2>4 DEF Follows, HasReport
  <2>6. \A s \in series' : (HasReport(s.gateway))'
    BY <1>2, <1>4, <2>1, <2>2 DEF HasReport
  <2> QED BY <2>5, <2>6 DEF Consistent
<1>7. ASSUME NEW r \in requests, Pushes(r) PROVE Consistent'
  <2>1. /\ requests' \subseteq requests /\ UNCHANGED <<gateways, agents, agentSeries>> /\ r.pc = "push"
        /\ \A s \in series' : \/ s \in series
                              \/ s.gateway = r.gateway /\ s.at = r.at /\ s.up = Up(r)
    BY <1>7 DEF Pushes
  <2>2. HasReport(r.gateway)
    BY <2>1 DEF Onboarded
  <2>3. Follows(said)'
    BY <1>2, <1>3, <1>4, <2>1 DEF Follows, HasReport
  <2>4. \A s \in series' : (HasReport(s.gateway))'
    BY <1>4, <2>1, <2>2 DEF HasReport
  <2> QED BY <2>3, <2>4 DEF Consistent
<1>8. ASSUME NEW r \in requests, Lists(r) PROVE Consistent'
  <2>1. /\ requests' \subseteq requests /\ UNCHANGED <<gateways, series>>
        /\ agents' = {AgentRow(a, r) : a \in Agents}
        /\ agentSeries' \subseteq agentSeries \cup AgentSamplesOf(r)
    BY <1>8 DEF Lists
  <2>2. \A row \in agents' : row.gateway = r.gateway /\ row.at = r.at /\ Up(row) = Up(r)
    <3>1. \A row \in agents' : row.gateway = r.gateway /\ row.at = r.at /\ row.status = r.status
      BY <2>1 DEF AgentRow
    <3> QED BY <3>1, UpOfStatus
  <2>3. \A s \in agentSeries' : \/ s \in agentSeries
                                \/ s.gateway = r.gateway /\ s.at = r.at /\ s.up = Up(r)
    BY <2>1 DEF AgentSamplesOf, AgentSample
  <2>4. Follows(said)'
    BY <1>2, <1>3, <1>4, <2>1, <2>2, <2>3 DEF Follows, HasReport
  <2>5. \A s \in series' : (HasReport(s.gateway))'
    BY <1>4, <2>1 DEF HasReport
  <2> QED BY <2>4, <2>5 DEF Consistent
<1> QED BY <1>5, <1>6, <1>7, <1>8

-----------------------------------------------------------------------------
(* The invariant *)

\* Nothing is reported at first, and all clients start from the same status.
LEMMA InitInv == FleetInit => Inv
<1> SUFFICES ASSUME FleetInit PROVE Inv
  OBVIOUS
<1>1. /\ agents = {} /\ series = {} /\ agentSeries = {} /\ requests = {}
      /\ acked = [g \in Gateways |-> 0] /\ overtaken = [g \in Gateways |-> {}]
  BY DEF FleetInit
<1>2. NoReport \in Report
  BY DEF NoReport, Report
<1>3. /\ Created \in Row /\ SeededRow \in Row
      /\ Created.boot /\ Created.regist = "none" /\ ~Created.cred /\ Created.life = "provisioned"
      /\ ~SeededRow.boot /\ SeededRow.life = "none"
      /\ Created.report = NoReport /\ SeededRow.report = NoReport
  BY <1>2 DEF Created, SeededRow, Row
<1>4. /\ gateways \in [Gateways -> Row]
      /\ \A g \in Gateways : gateways[g] = Created \/ gateways[g] = SeededRow
  BY <1>3 DEF FleetInit
<1>5. /\ \A ph \in Phases, tk \in Tokens :
          /\ Client(ph, tk) \in ClientState
          /\ Client(ph, tk).at = 0 /\ Client(ph, tk).status = "online"
          /\ Client(ph, tk).token = tk /\ Client(ph, tk).phase = ph
      /\ "status" \in Phases /\ "fetch" \in Phases /\ "runtime" \in Tokens /\ "bootstrap" \in Tokens
  BY DEF Client, ClientState, Statuses, Phases, Tokens
<1>6. /\ sim \in [Gateways -> ClientState]
      /\ \A g \in Gateways : /\ sim[g].at = 0 /\ sim[g].status = "online"
                             /\ sim[g].token = "runtime" => sim[g].phase = "status"
  BY <1>5 DEF FleetInit
<1>7. Typed
  BY <1>1, <1>4, <1>6 DEF Typed
<1>8. Onboarded
  BY <1>1, <1>3, <1>4, <1>6 DEF Onboarded, HasReport
<1>9. OneReport
  BY <1>1 DEF OneReport
<1>10. Latest
  BY <1>1, <1>4, <1>6, <1>7 DEF Latest, Typed, Row, Report
<1>11. Consistent
  <2>1. PICK said : said = [g \in Gateways |-> [t \in Nat |-> 1]]
    OBVIOUS
  <2>2. said \in Accounts /\ \A g \in Gateways : said[g][0] = 1
    BY <2>1 DEF Accounts
  <2>3. \A g \in Gateways : said[g][sim[g].at] = Up(sim[g])
    BY <1>6, <2>2 DEF Up
  <2>4. Follows(said)
    BY <1>1, <1>3, <1>4, <2>3 DEF Follows, HasReport
  <2> QED BY <1>1, <2>2, <2>4 DEF Consistent
<1> QED BY <1>7, <1>8, <1>9, <1>10, <1>11 DEF Inv

\* A step of any of the five kinds keeps the invariant.
LEMMA NextInv == Inv /\ [FleetNext]_fleetVars => Inv'
<1> SUFFICES ASSUME Inv, [FleetNext]_fleetVars PROVE Inv'
  OBVIOUS
<1> USE DEF Inv
<1>1. CASE FleetNext
  <2>1. /\ Typed'
        /\ \/ \E g \in Gateways : Sends(g)
           \/ Rests
           \/ \E r \in requests : Reports(r) \/ Pushes(r) \/ Lists(r)
    BY <1>1, StepKinds
  <2>2. Onboarded'
    BY <2>1, OnboardedStep
  <2>3. OneReport'
    BY <2>1, OneReportStep
  <2>4. Latest'
    BY <2>1, LatestStep
  <2>5. Consistent'
    BY <2>1, SendsConsistent, StoresConsistent
  <2> QED BY <2>1, <2>2, <2>3, <2>4, <2>5
<1>2. CASE UNCHANGED fleetVars
  <2>1. Typed'
    BY <1>2 DEF Typed, fleetVars
  <2>2. Onboarded' /\ OneReport' /\ Latest'
    BY <1>2 DEF Onboarded, HasReport, OneReport, Latest, fleetVars
  <2>3. Consistent'
    BY <1>2 DEF Consistent, Follows, HasReport, fleetVars
  <2> QED BY <2>1, <2>2, <2>3
<1> QED BY <1>1, <1>2

\* The inductive invariant holds of the fleet.
THEOREM InvHolds == FleetSpec => []Inv
BY InitInv, NextInv, PTL DEF FleetSpec

\* Every variable stays in its type: the rows of the store, the samples of
\* the time series, the clients and the copies of their requests.
THEOREM TypeCorrect == FleetSpec => []Typed
<1>1. Inv => Typed
  BY DEF Inv
<1> QED BY <1>1, InvHolds, PTL

-----------------------------------------------------------------------------
(* The views *)

\* Every gateway is either online or offline.
LEMMA OnlineOrOffline ==
    Cardinality(Online) + Cardinality(Offline) = Cardinality(Gateways)
<1>1. /\ Online \subseteq Gateways /\ Offline \subseteq Gateways
      /\ Online \cap Offline = {} /\ Online \cup Offline = Gateways
  BY DEF Online, Offline
<1>2. IsFiniteSet(Online) /\ IsFiniteSet(Offline)
  BY <1>1, FleetSeeds, FS_Subset
<1>3. Cardinality(Gateways) = Cardinality(Online) + Cardinality(Offline) - Cardinality({})
  BY <1>1, <1>2, FS_Union
<1>4. /\ Cardinality({}) = 0
      /\ Cardinality(Online) \in Nat /\ Cardinality(Offline) \in Nat
  BY <1>2, FS_EmptySet, FS_CardinalityType
<1> QED BY <1>3, <1>4

\* The views of the gateways agree with each other: what is reported runs, has
\* a credential and has used its bootstrap token, and the counts add up.
THEOREM ViewsHold == FleetSpec => []ViewsAgree
<1>1. Inv => ViewsAgree
  <2> SUFFICES ASSUME Inv PROVE ViewsAgree
    OBVIOUS
  <2>1. ASSUME NEW g \in Gateways
        PROVE  /\ g \in Reported <=> InstanceState(g) = "running"
               /\ g \in Reported => Initialized(g) /\ gateways[g].cred /\ ~gateways[g].boot
    BY DEF Inv, Onboarded, HasReport, Reported, InstanceState, Initialized
  <2>2. ASSUME NEW g \in Gateways, ListedAgents(g) # {}
        PROVE  gateways[g].cred /\ sim[g].token = "runtime"
    <3>1. PICK row \in agents : row.gateway = g
      BY <2>2 DEF ListedAgents
    <3> QED BY <3>1 DEF Inv, Onboarded
  <2>3. Online \subseteq Reported
    BY DEF Online, Reported, NoReport
  <2> QED BY <2>1, <2>2, <2>3, OnlineOrOffline DEF ViewsAgree
<1> QED BY <1>1, InvHolds, PTL

\* An older report than the latest acknowledged one is shown only if a copy of
\* it was under way when the gateway went on, however copies are reordered.
THEOREM OnlyOvertakenAreOlder == FleetSpec => []OlderOnlyIfOvertaken
<1>1. Inv => OlderOnlyIfOvertaken
  BY DEF Inv, Latest, OlderOnlyIfOvertaken
<1> QED BY <1>1, InvHolds, PTL

\* No agent is listed under two gateways.
THEOREM AgentsListedOnce == FleetSpec => []AgentListedOnce
<1>1. Inv => AgentListedOnce
  BY DEF Inv, OneReport, AgentListedOnce, ListedAgents
<1> QED BY <1>1, InvHolds, PTL

-----------------------------------------------------------------------------
(* The histories *)

\* merge_gateway_history: where the samples of a time agree, the history has
\* their value.
LEMMA ByTimeAgrees ==
    ASSUME NEW samples, NEW t \in DOMAIN ByTime(samples), NEW u,
           \A s \in samples : s.at = t => s.up = u
    PROVE  ByTime(samples)[t] = u
<1> DEFINE sample == CHOOSE s \in samples : s.at = t
<1>1. t \in {s.at : s \in samples}
  BY DEF ByTime
<1>2. sample \in samples /\ sample.at = t
  BY <1>1
<1>3. ByTime(samples)[t] = sample.up
  BY <1>1 DEF ByTime
<1> HIDE DEF sample
<1> QED BY <1>2, <1>3

\* Histories and status tell the same of a report, no time has two values,
\* and what has a history is listed.
THEOREM HistoriesAgree == FleetSpec => []HistoryAgrees
<1>1. Inv => HistoryAgrees
  <2> SUFFICES ASSUME Inv PROVE HistoryAgrees
    OBVIOUS
  <2>1. PICK said \in Accounts : Follows(said)
    BY DEF Inv, Consistent
  <2>2. /\ \A g \in Gateways : HasReport(g) =>
                said[g][gateways[g].report.at] = Up(gateways[g].report)
        /\ \A row \in agents : said[row.gateway][row.at] = Up(row)
        /\ \A s \in series : said[s.gateway][s.at] = s.up /\ HasReport(s.gateway)
        /\ \A s \in agentSeries : said[s.gateway][s.at] = s.up
    BY <2>1 DEF Inv, Consistent, Follows
  <2>3. ASSUME NEW p \in series, NEW q \in series, p.gateway = q.gateway, p.at = q.at
        PROVE  p = q
    <3>1. p.up = q.up
      BY <2>2, <2>3
    <3> QED BY <2>3, <3>1 DEF Inv, Typed, Sample
  <2>4. ASSUME NEW g \in Gateways, HasUptime(g) PROVE g \in Reported
    BY <2>2, <2>4 DEF HasUptime, GatewaySamples, Reported, HasReport
  <2>5. ASSUME NEW g \in Gateways, gateways[g].report.at \in DOMAIN GatewayHistory(g)
        PROVE  GatewayHistory(g)[gateways[g].report.at] = 1 <=> g \in Online
    <3> DEFINE shown == gateways[g].report.at
    <3>1. shown \in DOMAIN ByTime(GatewaySamples(g))
      BY <2>5 DEF GatewayHistory
    <3>2. HasUptime(g)
      BY <3>1 DEF ByTime, HasUptime
    <3>3. said[g][shown] = Up(gateways[g].report)
      BY <2>2, <2>4, <3>2 DEF Reported, HasReport
    <3>4. \A s \in GatewaySamples(g) : s.at = shown => s.up = Up(gateways[g].report)
      BY <2>2, <3>3 DEF GatewaySamples
    <3>5. GatewayHistory(g)[shown] = Up(gateways[g].report)
      BY <3>1, <3>4, ByTimeAgrees DEF GatewayHistory
    <3> QED BY <3>5 DEF Up, Online
  <2>6. ASSUME NEW row \in agents, row.at \in DOMAIN AgentHistory(row.gateway, row.agent)
        PROVE  AgentHistory(row.gateway, row.agent)[row.at] = 1 <=> row.status = "online"
    <3> DEFINE samples == AgentSamples(row.gateway, row.agent)
    <3>1. row.at \in DOMAIN ByTime(samples)
      BY <2>6 DEF AgentHistory
    <3>2. \A s \in samples : s.at = row.at => s.up = Up(row)
      BY <2>2 DEF AgentSamples
    <3>3. AgentHistory(row.gateway, row.agent)[row.at] = Up(row)
      BY <3>1, <3>2, ByTimeAgrees DEF AgentHistory
    <3> QED BY <3>3 DEF Up
  <2>7. ASSUME NEW s \in agentSeries PROVE \E row \in agents : row.agent = s.agent
    <3>1. s.agent \in Agents
      BY DEF Inv, Typed, SampleOfAgent
    <3> QED BY <3>1 DEF Inv, OneReport
  <2> QED BY <2>3, <2>4, <2>5, <2>6, <2>7 DEF HistoryAgrees
<1> QED BY <1>1, InvHolds, PTL
=============================================================================
