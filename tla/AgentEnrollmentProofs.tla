------------------------ MODULE AgentEnrollmentProofs ------------------------
(***************************************************************************)
(* Proofs about AgentEnrollment for any number of install codes, agents    *)
(* and concurrent requests, any max_uses and any lifetimes.                *)
(***************************************************************************)
EXTENDS AgentEnrollment, FiniteSetTheorems, TLAPS

-----------------------------------------------------------------------------
(* The inductive invariant *)

Enrolling == {"reserve", "issue", "commit", "rollback"}
InFlight == {"commit", "swap", "granted", "renewed"}
Answering == {"granted", "renewed"}

\* A request knows the agent, and an enrolment the token, it is about.
Aimed(r) ==
    /\ r.pc # "idle" => r.agent \in Agents
    /\ r.pc \in Enrolling => r.token \in Tokens
    /\ r.pc \in InFlight => r.new \in Credentials
    /\ r.pc = "swap" => r.old \in Credentials

AimedRequest == {r \in Request : Aimed(r)}

\* TypeOK, with requests that know what they are about.
Typed ==
    /\ tokens \in [Tokens -> Token]
    /\ agents \in [Agents -> Registration]
    /\ req \in [Handlers -> AimedRequest]
    /\ held \in [Agents -> SUBSET Credentials]
    /\ issued \in 0 .. MaxCredentials
    /\ faults \in 0 .. MaxFaults
    /\ enrolled \in [Tokens -> SUBSET Agents]
    /\ renewals \subseteq [agent : Agents, old : Credentials, new : Credentials]

\* The agents a token registered are finitely many and stay registered.
EnrolledRegistered ==
    \A t \in Tokens :
        /\ IsFiniteSet(enrolled[t])
        /\ \A a \in enrolled[t] : Registered(a)

\* The bearer tokens in flight were generated, were not sent to anyone yet,
\* and no two requests have the same.
Fresh ==
    /\ \A a \in Agents : \A c \in held[a] : c <= issued
    /\ \A h \in Handlers : req[h].pc \in InFlight =>
            /\ req[h].new \in 1 .. issued
            /\ \A a \in Agents : req[h].new \notin held[a]
    /\ \A h, k \in Handlers :
            (h # k /\ req[h].pc \in InFlight /\ req[k].pc \in InFlight) => req[h].new # req[k].new

\* A renewal presents a credential its agent was sent, and asks for a later one.
SwapForward ==
    \A h \in Handlers : req[h].pc = "swap" =>
        /\ req[h].old \in held[req[h].agent]
        /\ req[h].old < req[h].new

\* A credential that was renewed is older than the stored one.
RenewedAreOlder == \A r \in renewals : r.old < agents[r.agent].cred

\* Every credential in the store, now or before, was generated; the one a
\* request is about to store is new to the store.
Unused ==
    /\ \A a \in Agents : agents[a].cred <= issued
    /\ \A r \in renewals : r.old <= issued
    /\ \A h \in Handlers : req[h].pc \in {"commit", "swap"} =>
            /\ \A a \in Agents : agents[a].cred # req[h].new
            /\ \A r \in renewals : r.old # req[h].new

Uses == EnrolledRegistered /\ UsedCountExact /\ RegisteredOnce

Bearers ==
    /\ Fresh /\ SwapForward /\ RenewedAreOlder
    /\ RenewedOnce /\ AnswerIsStored /\ HeldUntilRenewed

Inv == Typed /\ Uses /\ Bearers /\ Unused

-----------------------------------------------------------------------------
(* Type correctness *)

\* Updates of a token that keep its type
LEMMA TokenUpdates ==
    ASSUME NEW token \in Token, NEW u \in 0 .. MaxUses, NEW g \in 0 .. ReservationTTL,
           NEW s \in Statuses
    PROVE  [token EXCEPT !.used = u, !.age = g, !.status = s] \in Token
  BY DEF Token

LEMMA ReleasedToken ==
    ASSUME NEW token \in Token
    PROVE  /\ Release(token) \in Token
           /\ RecoverExpiredReservation(token) \in Token
           /\ ValidatedToken(token) \in Token
           /\ RolledBack(token) \in Token
  <1>1. /\ (IF token.used > 0 THEN token.used - 1 ELSE 0) \in 0 .. MaxUses
        /\ 0 \in 0 .. ReservationTTL
        /\ "active" \in Statuses
    BY UsesAssumption, TTLAssumption DEF Token, Statuses
  <1>2. Release(token) \in Token
    BY <1>1, TokenUpdates DEF Release
  <1>. QED  BY <1>2 DEF RecoverExpiredReservation, ValidatedToken, RolledBack, Token, Statuses

\* The requests the steps of a handler leave behind know what they are about.
Steps == {"idle", "reserve", "issue", "commit", "rollback", "swap", "granted", "renewed"}

LEMMA IdleRequest == Idle \in AimedRequest
  <1>1. Idle \in Request
    BY TTLAssumption DEF Idle, Request, None
  <1>2. Idle.pc = "idle"
    BY DEF Idle
  <1>. QED  BY <1>1, <1>2 DEF AimedRequest, Aimed, Enrolling, InFlight

LEMMA MovedRequest ==
    ASSUME NEW r \in AimedRequest, NEW s \in Steps,
           r.pc # "idle",
           s \in Enrolling => r.pc \in Enrolling,
           s \in InFlight => r.pc \in InFlight,
           s # "swap"
    PROVE  [r EXCEPT !.pc = s] \in AimedRequest
  BY DEF AimedRequest, Aimed, Request, Steps

LEMMA LaterRequest ==
    ASSUME NEW r \in AimedRequest
    PROVE  [r EXCEPT !.left = Sooner(@)] \in AimedRequest
  <1>1. Sooner(r.left) \in 0 .. CredentialTTL
    BY TTLAssumption DEF Sooner, AimedRequest, Request
  <1>. QED  BY <1>1 DEF AimedRequest, Aimed, Request

LEMMA EnrolmentRequest ==
    ASSUME NEW t \in Tokens, NEW a \in Agents
    PROVE  [Idle EXCEPT !.pc = "reserve", !.token = t, !.agent = a] \in AimedRequest
  <1>1. Idle \in Request
    BY IdleRequest DEF AimedRequest
  <1>2. [Idle EXCEPT !.pc = "reserve", !.token = t, !.agent = a] \in Request
    BY <1>1 DEF Request
  <1>. QED  BY <1>1, <1>2 DEF AimedRequest, Aimed, Request, InFlight

LEMMA IssuedRequest ==
    ASSUME NEW r \in AimedRequest, r.pc = "issue", NEW c \in Credentials
    PROVE  [r EXCEPT !.pc = "commit", !.new = c, !.left = CredentialTTL] \in AimedRequest
  <1>1. CredentialTTL \in 0 .. CredentialTTL
    BY TTLAssumption
  <1>. QED  BY <1>1 DEF AimedRequest, Aimed, Request, Enrolling

LEMMA RenewalRequest ==
    ASSUME NEW a \in Agents, NEW o \in Credentials, NEW c \in Credentials
    PROVE  [Idle EXCEPT !.pc = "swap", !.agent = a, !.old = o, !.new = c, !.left = CredentialTTL]
                \in AimedRequest
  <1>1. Idle \in Request
    BY IdleRequest DEF AimedRequest
  <1>2. CredentialTTL \in 0 .. CredentialTTL
    BY TTLAssumption
  <1>3. [Idle EXCEPT !.pc = "swap", !.agent = a, !.old = o, !.new = c, !.left = CredentialTTL]
            \in Request
    BY <1>1, <1>2 DEF Request
  <1>. QED  BY <1>1, <1>3 DEF AimedRequest, Aimed, Request, Enrolling

LEMMA TypedTypeOK == Typed => TypeOK
  BY DEF Typed, TypeOK, AimedRequest

LEMMA TypeInit == Init => Typed
  BY IdleRequest, UsesAssumption, TTLAssumption, BoundAssumption
  DEF Init, Typed, Token, Registration, Absent, Unregistered, Statuses, Credentials, None

LEMMA TypeStep == Typed /\ [Next]_vars => Typed'
  <1>. SUFFICES ASSUME Typed, [Next]_vars
                PROVE  Typed'
    OBVIOUS
  <1>. USE BoundAssumption DEF Typed, history
  <1>1. ASSUME NEW t \in Tokens, IssueInstallCode(t)
        PROVE  Typed'
    BY <1>1, UsesAssumption, TTLAssumption DEF IssueInstallCode, Token, Statuses
  <1>2. ASSUME NEW t \in Tokens, NEW outcome \in Outcomes, ValidateBootstrapToken(t, outcome)
        PROVE  Typed'
    BY <1>2, ReleasedToken DEF ValidateBootstrapToken, StoreCall, Outcomes
  <1>3. ASSUME NEW h \in Handlers, NEW t \in Tokens, NEW a \in Agents, EnrollAgent(h, t, a)
        PROVE  Typed'
    BY <1>3, EnrolmentRequest DEF EnrollAgent
  <1>4. ASSUME NEW h \in Handlers, NEW a \in Agents, NEW cred \in Credentials,
               RenewCredential(h, a, cred)
        PROVE  Typed'
    <2>1. issued + 1 \in Credentials /\ issued + 1 \in 0 .. MaxCredentials
      BY <1>4 DEF RenewCredential, Credentials
    <2>. QED  BY <1>4, <2>1, RenewalRequest DEF RenewCredential
  <1>5. ASSUME NEW h \in Handlers, NEW outcome \in Outcomes, Reserve(h, outcome)
        PROVE  Typed'
    <2>. DEFINE token == RecoverExpiredReservation(tokens[req[h].token])
                reserved == [token EXCEPT !.used = @ + 1, !.age = 0, !.status = "reserved"]
    <2>1. req[h].token \in Tokens /\ req[h].pc = "reserve"
      BY <1>5 DEF Reserve, AimedRequest, Aimed, Enrolling
    <2>2. token \in Token /\ token.used < MaxUses
      BY <1>5, <2>1, ReleasedToken DEF Reserve, Reservable
    <2>3. reserved \in Token
      <3>. HIDE DEF token
      <3>1. /\ token.used + 1 \in 0 .. MaxUses
            /\ 0 \in 0 .. ReservationTTL
            /\ "reserved" \in Statuses
        BY <2>2, UsesAssumption, TTLAssumption DEF Token, Statuses
      <3>. QED  BY <2>2, <3>1, TokenUpdates
    <2>4. tokens' = tokens \/ tokens' = [tokens EXCEPT ![req[h].token] = reserved]
      BY <1>5 DEF Reserve
    <2>5. [req[h] EXCEPT !.pc = "issue"] \in AimedRequest
      BY <2>1, MovedRequest DEF Steps, Enrolling, InFlight
    <2>6. req' \in [Handlers -> AimedRequest]
      BY <1>5, <2>5, IdleRequest DEF Reserve, Goto, Finish
    <2>. HIDE DEF reserved
    <2>. QED  BY <1>5, <2>1, <2>3, <2>4, <2>6 DEF Reserve, StoreCall, Outcomes
  <1>6. ASSUME NEW h \in Handlers, NEW outcome \in Outcomes, Commit(h, outcome)
        PROVE  Typed'
    <2>1. /\ req[h].token \in Tokens /\ req[h].agent \in Agents
          /\ req[h].new \in Credentials /\ req[h].left \in 0 .. CredentialTTL
          /\ req[h].pc = "commit"
      BY <1>6 DEF Commit, AimedRequest, Aimed, Enrolling, InFlight, Request
    <2>2. tokens' \in [Tokens -> Token]
      BY <1>6, <2>1, TTLAssumption DEF Commit, Token, Statuses
    <2>3. agents' \in [Agents -> Registration] /\ enrolled' \in [Tokens -> SUBSET Agents]
      BY <1>6, <2>1 DEF Commit, Registration
    <2>4. \A s \in {"granted", "rollback"} : [req[h] EXCEPT !.pc = s] \in AimedRequest
      BY <2>1, MovedRequest DEF Steps, Enrolling, InFlight
    <2>5. req' \in [Handlers -> AimedRequest]
      BY <1>6, <2>4 DEF Commit, Goto
    <2>. QED  BY <1>6, <2>2, <2>3, <2>5 DEF Commit, StoreCall, Outcomes
  <1>7. ASSUME NEW h \in Handlers, NEW outcome \in Outcomes, Rollback(h, outcome)
        PROVE  Typed'
    <2>1. req[h].token \in Tokens
      BY <1>7 DEF Rollback, AimedRequest, Aimed, Enrolling
    <2>. QED  BY <1>7, <2>1, ReleasedToken, IdleRequest DEF Rollback, StoreCall, Outcomes, Finish
  <1>8. ASSUME NEW h \in Handlers, NEW outcome \in Outcomes, Swap(h, outcome)
        PROVE  Typed'
    <2>1. /\ req[h].agent \in Agents /\ req[h].left \in 0 .. CredentialTTL
          /\ req[h].new \in Credentials /\ req[h].old \in Credentials
          /\ req[h].pc = "swap"
      BY <1>8 DEF Swap, AimedRequest, Aimed, InFlight, Request
    <2>2. [req[h] EXCEPT !.pc = "renewed"] \in AimedRequest
      BY <2>1, MovedRequest DEF Steps, Enrolling, InFlight
    <2>3. req' \in [Handlers -> AimedRequest]
      BY <1>8, <2>2, IdleRequest DEF Swap, Goto, Finish
    <2>4. agents' \in [Agents -> Registration]
      BY <1>8, <2>1 DEF Swap, Registration
    <2>5. renewals' \subseteq [agent : Agents, old : Credentials, new : Credentials]
      BY <1>8, <2>1 DEF Swap
    <2>. QED  BY <1>8, <2>3, <2>4, <2>5 DEF Swap, StoreCall, Outcomes
  <1>9. ASSUME NEW h \in Handlers, ReserveRefused(h) \/ SwapRefused(h)
        PROVE  Typed'
    BY <1>9, IdleRequest DEF ReserveRefused, SwapRefused, Finish
  <1>10. ASSUME NEW h \in Handlers, Issue(h)
         PROVE  Typed'
    <2>1. issued + 1 \in Credentials /\ issued + 1 \in 0 .. MaxCredentials
      BY <1>10 DEF Issue, Credentials
    <2>2. [req[h] EXCEPT !.pc = "commit", !.new = issued + 1, !.left = CredentialTTL]
            \in AimedRequest
      BY <1>10, <2>1, IssuedRequest DEF Issue
    <2>. QED  BY <1>10, <2>1, <2>2 DEF Issue
  <1>11. ASSUME NEW h \in Handlers, IssueFails(h) \/ CommitRefused(h)
         PROVE  Typed'
    <2>1. [req[h] EXCEPT !.pc = "rollback"] \in AimedRequest
      BY <1>11, MovedRequest DEF IssueFails, CommitRefused, Steps, Enrolling, InFlight
    <2>. QED  BY <1>11, <2>1 DEF IssueFails, CommitRefused, Goto
  <1>12. ASSUME NEW h \in Handlers, NEW delivered \in BOOLEAN, Respond(h, delivered)
         PROVE  Typed'
    <2>1. req[h].agent \in Agents /\ req[h].new \in Credentials
      BY <1>12 DEF Respond, AimedRequest, Aimed, InFlight
    <2>. QED  BY <1>12, <2>1, IdleRequest DEF Respond, Finish
  <1>13. CASE Crash
    BY <1>13, IdleRequest DEF Crash
  <1>14. CASE Tick
    <2>1. tokens' \in [Tokens -> Token]
      <3>1. \A token \in Token, g \in 0 .. ReservationTTL, l \in 0 .. TokenTTL :
                [token EXCEPT !.age = g, !.left = l] \in Token
        BY DEF Token
      <3>2. \A token \in Token :
                /\ token.age \in 0 .. ReservationTTL
                /\ Older(token.age, ReservationTTL) \in 0 .. ReservationTTL
                /\ Sooner(token.left) \in 0 .. TokenTTL
        BY TTLAssumption DEF Older, Sooner, Token
      <3>. QED  BY <1>14, <3>1, <3>2 DEF Tick
    <2>2. agents' \in [Agents -> Registration]
      <3>1. \A r \in Registration, l \in 0 .. CredentialTTL : [r EXCEPT !.left = l] \in Registration
        BY DEF Registration
      <3>2. \A r \in Registration : Sooner(r.left) \in 0 .. CredentialTTL
        BY TTLAssumption DEF Sooner, Registration
      <3>. QED  BY <1>14, <3>1, <3>2 DEF Tick
    <2>3. req' \in [Handlers -> AimedRequest]
      BY <1>14, LaterRequest DEF Tick
    <2>. QED  BY <1>14, <2>1, <2>2, <2>3 DEF Tick
  <1>15. CASE UNCHANGED vars
    BY <1>15 DEF vars
  <1>. QED
    BY <1>1, <1>2, <1>3, <1>4, <1>5, <1>6, <1>7, <1>8, <1>9, <1>10, <1>11, <1>12, <1>13, <1>14, <1>15
    DEF Next, HandlerStep
-----------------------------------------------------------------------------
(* Install codes *)

\* used_count of a token that registered n agents
Counts(token, n) ==
    CASE token.status = "reserved" -> token.used = n + 1
      [] token.status = "expired"  -> token.used \in {n, n + 1}
      [] OTHER                     -> token.used = n

\* Giving a reservation back and expiry keep the count right, and so does a
\* reservation.
LEMMA CountsKept ==
    ASSUME NEW token \in Token, NEW n \in Nat, Counts(token, n)
    PROVE  /\ Counts(RecoverExpiredReservation(token), n)
           /\ Counts(ValidatedToken(token), n)
           /\ Counts(RolledBack(token), n)
           /\ token.status = "active" =>
                Counts([token EXCEPT !.used = @ + 1, !.age = 0, !.status = "reserved"], n)
  <1>. USE DEF Token, Statuses, Counts
  <1>1. token.status = "reserved" => Counts(Release(token), n)
    BY UsesAssumption DEF Release
  <1>2. Counts(RecoverExpiredReservation(token), n)
    BY <1>1 DEF RecoverExpiredReservation
  <1>3. Counts([token EXCEPT !.status = "expired"], n)
    OBVIOUS
  <1>. QED  BY <1>1, <1>2, <1>3 DEF ValidatedToken, RolledBack

LEMMA EnrolledCount ==
    ASSUME Typed, Uses, NEW t \in Tokens
    PROVE  Cardinality(enrolled[t]) \in Nat /\ Counts(tokens[t], Cardinality(enrolled[t]))
  BY FS_CardinalityType DEF Uses, EnrolledRegistered, UsedCountExact, Counts

\* A step that registers nobody and changes tokens in one of these ways keeps
\* the invariant.
LEMMA UsesKept ==
    ASSUME Typed, Uses, Typed',
           enrolled' = enrolled,
           \A a \in Agents : Registered(a) => Registered(a)',
           \A t \in Tokens : Counts(tokens[t], Cardinality(enrolled[t]))
                                => Counts(tokens'[t], Cardinality(enrolled[t]))
    PROVE  Uses'
  <1>1. EnrolledRegistered'
    BY DEF Uses, EnrolledRegistered, Typed
  <1>2. RegisteredOnce'
    BY DEF Uses, RegisteredOnce
  <1>3. \A t \in Tokens : Counts(tokens'[t], Cardinality(enrolled'[t]))
    BY EnrolledCount
  <1>4. UsedCountExact'
    BY <1>3 DEF UsedCountExact, Counts
  <1>. QED  BY <1>1, <1>2, <1>4 DEF Uses

LEMMA UsesInit == Init => Uses
  <1>. SUFFICES ASSUME Init
                PROVE  Uses
    OBVIOUS
  <1>1. \A t \in Tokens : IsFiniteSet(enrolled[t]) /\ Cardinality(enrolled[t]) = 0
    BY FS_EmptySet DEF Init
  <1>. QED  BY <1>1 DEF Init, Uses, EnrolledRegistered, UsedCountExact, RegisteredOnce, Absent

LEMMA UsesStep == Typed /\ Uses /\ [Next]_vars => Uses'
  <1>. SUFFICES ASSUME Typed, Uses, [Next]_vars
                PROVE  Uses'
    OBVIOUS
  <1>. USE TypeStep DEF history
  <1>1. ASSUME UNCHANGED <<tokens, agents, enrolled>>
        PROVE  Uses'
    BY <1>1, UsesKept DEF Registered
  <1>2. ASSUME NEW t \in Tokens, IssueInstallCode(t)
        PROVE  Uses'
    <2>1. \A u \in Tokens : Counts(tokens[u], Cardinality(enrolled[u]))
                                => Counts(tokens'[u], Cardinality(enrolled[u]))
      BY <1>2 DEF IssueInstallCode, Typed, Counts, Absent
    <2>. QED  BY <1>2, <2>1, UsesKept DEF IssueInstallCode, Registered
  <1>3. ASSUME NEW h \in Handlers, NEW outcome \in Outcomes, Reserve(h, outcome)
        PROVE  Uses'
    <2>. DEFINE token == RecoverExpiredReservation(tokens[req[h].token])
                reserved == [token EXCEPT !.used = @ + 1, !.age = 0, !.status = "reserved"]
    <2>1. req[h].token \in Tokens
      BY <1>3 DEF Reserve, Typed, AimedRequest, Aimed, Enrolling
    <2>2. token \in Token /\ token.status = "active"
      BY <1>3, <2>1, ReleasedToken DEF Reserve, Reservable, Typed
    <2>3. tokens' = tokens \/ tokens' = [tokens EXCEPT ![req[h].token] = reserved]
      BY <1>3 DEF Reserve
    <2>4. Counts(token, Cardinality(enrolled[req[h].token]))
      BY <2>1, CountsKept, EnrolledCount DEF Typed
    <2>5. Counts(reserved, Cardinality(enrolled[req[h].token]))
      <3>. HIDE DEF token
      <3>. QED  BY <2>1, <2>2, <2>4, CountsKept, EnrolledCount
    <2>6. \A t \in Tokens : Counts(tokens[t], Cardinality(enrolled[t]))
                                => Counts(tokens'[t], Cardinality(enrolled[t]))
      <3>. HIDE DEF reserved
      <3>. QED  BY <2>3, <2>5 DEF Typed
    <2>. QED  BY <1>3, <2>6, UsesKept DEF Reserve, Registered
  <1>4. ASSUME NEW h \in Handlers, NEW outcome \in Outcomes, Rollback(h, outcome)
        PROVE  Uses'
    <2>1. \A t \in Tokens : Counts(tokens[t], Cardinality(enrolled[t]))
                                => Counts(tokens'[t], Cardinality(enrolled[t]))
      BY <1>4, CountsKept, EnrolledCount DEF Rollback, Typed
    <2>. QED  BY <1>4, <2>1, UsesKept DEF Rollback, Registered
  <1>5. ASSUME NEW h \in Handlers, NEW outcome \in Outcomes, Swap(h, outcome)
        PROVE  Uses'
    <2>1. req[h].new \in Credentials
      BY <1>5 DEF Swap, Typed, AimedRequest, Aimed, InFlight
    <2>2. \A a \in Agents : Registered(a) => Registered(a)'
      BY <1>5, <2>1, BoundAssumption DEF Swap, Registered, Typed, Credentials, None
    <2>. QED  BY <1>5, <2>2, UsesKept DEF Swap
  <1>6. CASE Tick
    <2>1. \A a \in Agents : agents'[a].cred = agents[a].cred
      BY <1>6 DEF Tick, Typed, Registration
    <2>2. \A t \in Tokens : tokens'[t].status = tokens[t].status /\ tokens'[t].used = tokens[t].used
      BY <1>6 DEF Tick, Typed, Token
    <2>. QED  BY <1>6, <2>1, <2>2, UsesKept DEF Tick, Registered, Counts
  <1>7. ASSUME NEW h \in Handlers, NEW outcome \in Outcomes, Commit(h, outcome)
        PROVE  Uses'
    <2>. DEFINE t == req[h].token
                a == req[h].agent
                n == Cardinality(enrolled[t])
    <2>1. t \in Tokens /\ a \in Agents /\ req[h].new \in Credentials
      BY <1>7 DEF Commit, Typed, AimedRequest, Aimed, Enrolling, InFlight
    <2>2. CASE outcome = "lost"
      BY <1>7, <2>2, UsesKept DEF Commit, Registered
    <2>3. CASE outcome # "lost"
      <3>1. /\ enrolled' = [enrolled EXCEPT ![t] = @ \cup {a}]
            /\ agents' = [agents EXCEPT ![a] = [cred |-> req[h].new, left |-> req[h].left]]
            /\ tokens' = [tokens EXCEPT ![t].status = IF tokens[t].used >= MaxUses
                                                        THEN "used" ELSE "active",
                                        ![t].age = 0]
            /\ ~Registered(a)
            /\ tokens[t].status = "reserved"
        BY <1>7, <2>3 DEF Commit, Committable
      <3>. HIDE DEF t, a
      <3>2. \A u \in Tokens : a \notin enrolled[u]
        BY <3>1 DEF Uses, EnrolledRegistered
      <3>3. IsFiniteSet(enrolled[t]) /\ n \in Nat /\ tokens[t].used = n + 1
        BY <2>1, <3>1, EnrolledCount DEF Uses, EnrolledRegistered, Counts
      <3>4. IsFiniteSet(enrolled[t] \cup {a}) /\ Cardinality(enrolled[t] \cup {a}) = n + 1
        BY <2>1, <3>2, <3>3, FS_AddElement
      <3>5. /\ enrolled'[t] = enrolled[t] \cup {a}
            /\ \A u \in Tokens \ {t} : enrolled'[u] = enrolled[u] /\ tokens'[u] = tokens[u]
            /\ tokens'[t].used = n + 1
            /\ tokens'[t].status \in {"used", "active"}
        BY <2>1, <3>1, <3>3 DEF Typed, Token
      <3>6. \A b \in Agents : Registered(b)' <=> Registered(b) \/ b = a
        BY <2>1, <3>1, BoundAssumption DEF Registered, Typed, Credentials, None
      <3>7. EnrolledRegistered'
        BY <2>1, <3>4, <3>5, <3>6 DEF Uses, EnrolledRegistered, Typed
      <3>8. RegisteredOnce'
        BY <2>1, <3>2, <3>5 DEF Uses, RegisteredOnce
      <3>9. UsedCountExact'
        BY <3>4, <3>5 DEF Uses, UsedCountExact
      <3>. QED  BY <3>7, <3>8, <3>9 DEF Uses
    <2>. QED  BY <2>2, <2>3
  <1>8. ASSUME NEW h \in Handlers,
               \/ ReserveRefused(h) \/ Issue(h) \/ IssueFails(h) \/ CommitRefused(h)
               \/ SwapRefused(h) \/ \E delivered \in BOOLEAN : Respond(h, delivered)
        PROVE  Uses'
    BY <1>8, <1>1 DEF ReserveRefused, Issue, IssueFails, CommitRefused, SwapRefused, Respond
  <1>9. CASE \/ \E h \in Handlers, t \in Tokens, a \in Agents : EnrollAgent(h, t, a)
             \/ \E h \in Handlers, a \in Agents, cred \in Credentials : RenewCredential(h, a, cred)
             \/ Crash
             \/ UNCHANGED vars
    BY <1>1, <1>9 DEF EnrollAgent, RenewCredential, Crash, vars
  <1>10. ASSUME NEW t \in Tokens, NEW outcome \in Outcomes, ValidateBootstrapToken(t, outcome)
         PROVE  Uses'
    <2>1. \A u \in Tokens : Counts(tokens[u], Cardinality(enrolled[u]))
                                => Counts(tokens'[u], Cardinality(enrolled[u]))
      BY <1>10, CountsKept, EnrolledCount DEF ValidateBootstrapToken, Typed
    <2>. QED  BY <1>10, <2>1, UsesKept DEF ValidateBootstrapToken, Registered
  <1>. QED
    BY <1>2, <1>3, <1>4, <1>5, <1>6, <1>7, <1>8, <1>9, <1>10 DEF Next, HandlerStep

-----------------------------------------------------------------------------
(* Credentials *)

LEMMA BearersInit == Init => Bearers
  BY DEF Init, Bearers, Fresh, SwapForward, RenewedAreOlder, RenewedOnce, AnswerIsStored,
         HeldUntilRenewed, Idle, InFlight

\* A step that leaves the credentials alone and ends requests, or moves them
\* to a step without a credential, keeps the invariant.
LEMMA BearersKept ==
    ASSUME Typed, Bearers, Typed',
           UNCHANGED <<held, issued, renewals>>,
           \A a \in Agents : agents'[a].cred = agents[a].cred,
           \A h \in Handlers : req'[h].pc \in InFlight =>
                /\ req'[h].pc = req[h].pc /\ req'[h].agent = req[h].agent
                /\ req'[h].old = req[h].old /\ req'[h].new = req[h].new
    PROVE  Bearers'
  <1>. USE DEF Bearers, Typed
  <1>1. Fresh'
    BY DEF Fresh
  <1>2. SwapForward'
    BY DEF SwapForward, InFlight
  <1>3. RenewedAreOlder'
    BY DEF RenewedAreOlder
  <1>4. RenewedOnce'
    BY DEF RenewedOnce
  <1>5. AnswerIsStored'
    BY DEF AnswerIsStored, InFlight, AimedRequest, Aimed
  <1>6. HeldUntilRenewed'
    BY DEF HeldUntilRenewed
  <1>. QED  BY <1>1, <1>2, <1>3, <1>4, <1>5, <1>6

\* A new bearer token in the request of h, which was in no flight before
LEMMA BearersIssued ==
    ASSUME Typed, Bearers, Typed', NEW h \in Handlers,
           UNCHANGED <<agents, held, renewals>>,
           issued' = issued + 1,
           req[h].pc \notin InFlight,
           \A k \in Handlers \ {h} : req'[k] = req[k],
           req'[h].new = issued + 1,
           \/ req'[h].pc = "commit"
           \/ req'[h].pc = "swap" /\ req'[h].old \in held[req'[h].agent]
    PROVE  Bearers'
  <1>. USE DEF Bearers, Typed
  <1>1. req'[h].pc \notin Answering /\ issued \in Nat /\ (req'[h].pc = "swap" => req'[h].agent \in Agents)
    BY DEF Answering, AimedRequest, Aimed
  <1>2. Fresh'
    BY <1>1 DEF Fresh, AimedRequest, Aimed, Credentials
  <1>3. SwapForward'
    <2>1. req'[h].pc = "swap" => req'[h].old <= issued /\ req'[h].old \in Credentials
      BY <1>1 DEF Fresh, AimedRequest, Aimed
    <2>2. req'[h].pc = "swap" => req'[h].old < req'[h].new
      BY <1>1, <2>1 DEF Credentials
    <2>. QED  BY <2>2 DEF SwapForward
  <1>4. RenewedAreOlder'
    BY DEF RenewedAreOlder
  <1>5. RenewedOnce'
    BY DEF RenewedOnce
  <1>6. AnswerIsStored'
    BY <1>1 DEF AnswerIsStored, Answering
  <1>7. HeldUntilRenewed'
    BY DEF HeldUntilRenewed
  <1>. QED  BY <1>2, <1>3, <1>4, <1>5, <1>6, <1>7

\* The credential of an agent's request h is stored.
LEMMA BearersStored ==
    ASSUME Typed, Bearers, Typed', NEW h \in Handlers, NEW a \in Agents,
           UNCHANGED <<held, issued>>,
           req[h].agent = a,
           \/ /\ req[h].pc = "commit" /\ agents[a].cred = None
              /\ renewals' = renewals
           \/ /\ req[h].pc = "swap" /\ agents[a].cred = req[h].old
              /\ renewals' = renewals \cup {[agent |-> a, old |-> req[h].old, new |-> req[h].new]},
           agents' = [agents EXCEPT ![a] = [cred |-> req[h].new, left |-> req[h].left]],
           \A k \in Handlers \ {h} : req'[k] = req[k],
           \/ req'[h].pc \notin InFlight
           \/ /\ req'[h].pc \in Answering
              /\ req'[h].agent = a /\ req'[h].new = req[h].new
    PROVE  Bearers'
  <1>. USE DEF Bearers, Typed
  <1>1. /\ req[h].pc \in InFlight /\ req[h].new \in Credentials
        /\ agents[a].cred < req[h].new
        /\ agents'[a].cred = req[h].new
        /\ \A b \in Agents \ {a} : agents'[b].cred = agents[b].cred
    BY DEF InFlight, AimedRequest, Aimed, SwapForward, Credentials, None
  <1>2. \A b \in Agents : agents[b].cred \in Nat /\ agents'[b].cred \in Nat
    BY BoundAssumption DEF Registration, Credentials, None
  <1>3. \A k \in Handlers \ {h} : req[k].pc \in Answering => req[k].agent # a
    <2>. SUFFICES ASSUME NEW k \in Handlers \ {h}, req[k].pc \in Answering, req[k].agent = a
                  PROVE  FALSE
      OBVIOUS
    <2>1. agents[a].cred = req[k].new /\ req[k].new \in Credentials
      BY DEF AnswerIsStored, Answering, AimedRequest, Aimed, InFlight
    <2>2. agents[a].cred # None
      BY <2>1, BoundAssumption DEF Credentials, None
    <2>3. req[h].pc = "swap" /\ req[k].new \in held[a]
      BY <2>1, <2>2 DEF SwapForward
    <2>. QED  BY <2>3 DEF Fresh, Answering, InFlight
  <1>4. Fresh'
    BY <1>1 DEF Fresh, Answering, InFlight
  <1>5. SwapForward'
    BY DEF SwapForward, Answering, InFlight
  <1>6. RenewedAreOlder'
    <2>1. \A r \in renewals' : r.agent \in Agents /\ r.old \in Nat
      BY BoundAssumption DEF Credentials
    <2>2. \A r \in renewals : r.old < agents'[r.agent].cred
      BY <1>1, <1>2, BoundAssumption DEF RenewedAreOlder, Credentials
    <2>. QED  BY <1>1, <2>2 DEF RenewedAreOlder
  <1>7. RenewedOnce'
    <2>1. \A r \in renewals : ~(r.agent = a /\ r.old = agents[a].cred)
      BY <1>2 DEF RenewedAreOlder
    <2>. QED  BY <2>1 DEF RenewedOnce
  <1>8. AnswerIsStored'
    BY <1>1, <1>3 DEF AnswerIsStored, Answering, InFlight, AimedRequest, Aimed
  <1>9. HeldUntilRenewed'
    <2>1. \A c \in held[a] : c # None
      BY BoundAssumption DEF Credentials, None
    <2>2. agents[a].cred \in held[a] =>
                [agent |-> a, old |-> agents[a].cred, new |-> req[h].new] \in renewals'
      BY <2>1
    <2>3. ASSUME NEW c \in held[a]
          PROVE  c = agents'[a].cred \/ \E r \in renewals' : r.agent = a /\ r.old = c
      <3>1. CASE c = agents[a].cred
        BY <2>2, <3>1
      <3>2. CASE c # agents[a].cred
        BY <3>2 DEF HeldUntilRenewed
      <3>. QED  BY <3>1, <3>2
    <2>4. ASSUME NEW b \in Agents \ {a}, NEW c \in held[b]
          PROVE  c = agents'[b].cred \/ \E r \in renewals' : r.agent = b /\ r.old = c
      BY <1>1 DEF HeldUntilRenewed
    <2>. QED  BY <2>3, <2>4 DEF HeldUntilRenewed
  <1>. QED  BY <1>4, <1>5, <1>6, <1>7, <1>8, <1>9

LEMMA BearersStep == Typed /\ Bearers /\ [Next]_vars => Bearers'
  <1>. SUFFICES ASSUME Typed, Bearers, [Next]_vars
                PROVE  Bearers'
    OBVIOUS
  <1>1. Typed'
    BY TypeStep
  <1>. USE <1>1 DEF history
  <1>2. \A h \in Handlers : req[h] \in Request /\ req'[h] \in Request
    BY DEF Typed, AimedRequest
  <1>3. Idle.pc = "idle"
    BY DEF Idle
  <1>4. ASSUME NEW h \in Handlers, Finish(h), UNCHANGED <<agents, held, issued, renewals>>
        PROVE  Bearers'
    BY <1>3, <1>4, BearersKept DEF Finish, Typed, InFlight
  <1>5. ASSUME NEW h \in Handlers, NEW s \in {"issue", "rollback"}, Goto(h, s),
               UNCHANGED <<agents, held, issued, renewals>>
        PROVE  Bearers'
    BY <1>2, <1>5, BearersKept DEF Goto, Typed, Request, InFlight
  <1>6. ASSUME NEW h \in Handlers, NEW outcome \in Outcomes, Reserve(h, outcome)
        PROVE  Bearers'
    BY <1>4, <1>5, <1>6 DEF Reserve
  <1>7. ASSUME NEW h \in Handlers, NEW outcome \in Outcomes, Rollback(h, outcome)
        PROVE  Bearers'
    BY <1>4, <1>7 DEF Rollback
  <1>8. ASSUME NEW h \in Handlers,
               ReserveRefused(h) \/ IssueFails(h) \/ CommitRefused(h) \/ SwapRefused(h)
        PROVE  Bearers'
    BY <1>4, <1>5, <1>8 DEF ReserveRefused, IssueFails, CommitRefused, SwapRefused
  <1>9. ASSUME NEW h \in Handlers, Issue(h)
        PROVE  Bearers'
    BY <1>2, <1>9, BearersIssued DEF Issue, Typed, Request, InFlight
  <1>10. ASSUME NEW h \in Handlers, NEW a \in Agents, NEW cred \in Credentials,
                RenewCredential(h, a, cred)
         PROVE  Bearers'
    <2>1. Idle \in Request
      BY IdleRequest DEF AimedRequest
    <2>2. /\ req'[h].pc = "swap" /\ req'[h].agent = a /\ req'[h].old = cred
          /\ req'[h].new = issued + 1
      BY <1>10, <2>1 DEF RenewCredential, Typed, Request
    <2>. QED  BY <1>10, <2>2, BearersIssued DEF RenewCredential, Typed, InFlight
  <1>11. ASSUME NEW h \in Handlers, NEW outcome \in Outcomes, Commit(h, outcome)
         PROVE  Bearers'
    <2>1. CASE outcome = "lost"
      BY <1>5, <1>11, <2>1 DEF Commit
    <2>2. CASE outcome # "lost"
      <3>1. req[h].pc = "commit" /\ req[h].agent \in Agents
        BY <1>11 DEF Commit, Typed, AimedRequest, Aimed
      <3>2. req'[h].agent = req[h].agent /\ req'[h].new = req[h].new
            /\ req'[h].pc \in {"granted", "rollback"}
        BY <1>2, <1>11 DEF Commit, Goto, Typed, Request
      <3>. QED  BY <1>11, <2>2, <3>1, <3>2, BearersStored
                DEF Commit, Committable, Registered, Goto, Typed, InFlight, Answering
    <2>. QED  BY <2>1, <2>2
  <1>12. ASSUME NEW h \in Handlers, NEW outcome \in Outcomes, Swap(h, outcome)
         PROVE  Bearers'
    <2>1. CASE outcome = "lost"
      BY <1>4, <1>12, <2>1 DEF Swap
    <2>2. CASE outcome # "lost"
      <3>1. req[h].pc = "swap" /\ req[h].agent \in Agents
        BY <1>12 DEF Swap, Typed, AimedRequest, Aimed
      <3>2. \/ req'[h].agent = req[h].agent /\ req'[h].new = req[h].new /\ req'[h].pc = "renewed"
            \/ req'[h].pc = "idle"
        BY <1>2, <1>3, <1>12 DEF Swap, Goto, Finish, Typed, Request
      <3>3. \A k \in Handlers \ {h} : req'[k] = req[k]
        BY <1>12 DEF Swap, Goto, Finish, Typed
      <3>. QED  BY <1>12, <2>2, <3>1, <3>2, <3>3, BearersStored
                DEF Swap, Swappable, InFlight, Answering
    <2>. QED  BY <2>1, <2>2
  <1>13. ASSUME NEW h \in Handlers, NEW delivered \in BOOLEAN, Respond(h, delivered)
         PROVE  Bearers'
    <2>1. CASE ~delivered
      BY <1>4, <1>13, <2>1 DEF Respond
    <2>2. CASE delivered
      <3>. DEFINE a == req[h].agent
                  c == req[h].new
      <3>1. /\ a \in Agents /\ c \in Credentials /\ c <= issued
            /\ agents[a].cred = c /\ req[h].pc \in InFlight
        BY <1>13 DEF Respond, Typed, AimedRequest, Aimed, InFlight, Bearers, AnswerIsStored, Fresh
      <3>2. /\ held' = [held EXCEPT ![a] = @ \cup {c}]
            /\ UNCHANGED <<agents, issued, renewals>>
            /\ req'[h].pc = "idle"
            /\ \A k \in Handlers \ {h} : req'[k] = req[k]
        BY <1>3, <1>13, <2>2 DEF Respond, Finish, Typed
      <3>. HIDE DEF a, c
      <3>3. \A k \in Handlers : req'[k].pc \in InFlight => k # h /\ req[k].new # c
        BY <3>1, <3>2 DEF Bearers, Fresh, InFlight, c
      <3>4. Fresh'
        BY <3>1, <3>2, <3>3 DEF Bearers, Fresh, Typed
      <3>5. SwapForward'
        BY <3>1, <3>2 DEF Bearers, SwapForward, Typed, AimedRequest, Aimed
      <3>6. RenewedAreOlder' /\ RenewedOnce'
        BY <3>2 DEF Bearers, RenewedAreOlder, RenewedOnce
      <3>7. AnswerIsStored'
        BY <3>2 DEF Bearers, AnswerIsStored
      <3>8. HeldUntilRenewed'
        BY <3>1, <3>2 DEF Bearers, HeldUntilRenewed, Typed
      <3>. QED  BY <3>4, <3>5, <3>6, <3>7, <3>8 DEF Bearers
    <2>. QED  BY <2>1, <2>2
  <1>14. ASSUME NEW h \in Handlers, NEW t \in Tokens, NEW a \in Agents, EnrollAgent(h, t, a)
         PROVE  Bearers'
    <2>1. Idle \in Request
      BY IdleRequest DEF AimedRequest
    <2>2. req'[h].pc = "reserve"
      BY <1>14, <2>1 DEF EnrollAgent, Typed, Request
    <2>. QED  BY <1>14, <2>2, BearersKept DEF EnrollAgent, Typed, InFlight
  <1>15. CASE Tick
    <2>1. \A a \in Agents : agents'[a].cred = agents[a].cred
      BY <1>15 DEF Tick, Typed, Registration
    <2>2. \A h \in Handlers : /\ req'[h].pc = req[h].pc /\ req'[h].agent = req[h].agent
                              /\ req'[h].old = req[h].old /\ req'[h].new = req[h].new
      BY <1>2, <1>15 DEF Tick, Typed, Request
    <2>. QED  BY <1>15, <2>1, <2>2, BearersKept DEF Tick
  <1>16. CASE Crash
    BY <1>3, <1>16, BearersKept DEF Crash, InFlight
  <1>17. CASE \/ \E t \in Tokens : IssueInstallCode(t)
              \/ \E t \in Tokens, outcome \in Outcomes : ValidateBootstrapToken(t, outcome)
              \/ UNCHANGED vars
    BY <1>17, BearersKept DEF IssueInstallCode, ValidateBootstrapToken, vars
  <1>. QED
    BY <1>6, <1>7, <1>8, <1>9, <1>10, <1>11, <1>12, <1>13, <1>14, <1>15, <1>16, <1>17
    DEF Next, HandlerStep

-----------------------------------------------------------------------------
(* New credentials *)

LEMMA UnusedInit == Init => Unused
  BY DEF Init, Unused, Unregistered, Idle, None

\* The bearer tokens stored or replaced were generated before.
LEMMA StoredNumbers ==
    ASSUME Typed
    PROVE  /\ issued \in Nat
           /\ \A a \in Agents : agents[a].cred \in Nat
           /\ \A r \in renewals : r.old \in Nat
  BY BoundAssumption DEF Typed, Registration, Credentials, None

\* A step that stores no credential, and moves no request to where one is
\* stored unless with the bearer token just generated, keeps the invariant.
LEMMA UnusedKept ==
    ASSUME Typed, Unused,
           UNCHANGED renewals,
           \A a \in Agents : agents'[a].cred = agents[a].cred,
           issued' \in {issued, issued + 1},
           \A h \in Handlers : req'[h].pc \in {"commit", "swap"} =>
                \/ req[h].pc \in {"commit", "swap"} /\ req'[h].new = req[h].new
                \/ issued' = issued + 1 /\ req'[h].new = issued'
    PROVE  Unused'
  <1>1. issued' \in Nat /\ issued <= issued'
    BY StoredNumbers
  <1>2. \A a \in Agents : agents'[a].cred <= issued'
    BY <1>1, StoredNumbers DEF Unused
  <1>3. \A r \in renewals' : r.old <= issued'
    BY <1>1, StoredNumbers DEF Unused
  <1>4. ASSUME NEW h \in Handlers, req'[h].pc \in {"commit", "swap"}
        PROVE  /\ \A a \in Agents : agents'[a].cred # req'[h].new
               /\ \A r \in renewals' : r.old # req'[h].new
    <2>1. CASE req[h].pc \in {"commit", "swap"} /\ req'[h].new = req[h].new
      BY <2>1 DEF Unused
    <2>2. CASE issued' = issued + 1 /\ req'[h].new = issued'
      BY <2>2, StoredNumbers DEF Unused
    <2>. QED  BY <1>4, <2>1, <2>2
  <1>. QED  BY <1>2, <1>3, <1>4 DEF Unused

\* The credential of an agent's request h is stored, and is no longer unused:
\* the other requests have others.
LEMMA UnusedStored ==
    ASSUME Typed, Fresh, Unused, NEW h \in Handlers, NEW a \in Agents,
           UNCHANGED issued,
           req[h].pc \in {"commit", "swap"},
           agents' = [agents EXCEPT ![a] = [cred |-> req[h].new, left |-> req[h].left]],
           \A r \in renewals' : r \in renewals \/ r.old = agents[a].cred,
           \A k \in Handlers \ {h} : req'[k] = req[k],
           req'[h].pc \notin {"commit", "swap"}
    PROVE  Unused'
  <1>1. /\ req[h].new <= issued
        /\ \A k \in Handlers \ {h} : req[k].pc \in {"commit", "swap"} => req[k].new # req[h].new
    BY DEF Fresh, InFlight, Typed
  <1>2. /\ agents'[a].cred = req[h].new
        /\ \A b \in Agents \ {a} : agents'[b].cred = agents[b].cred
    BY DEF Typed
  <1>3. \A b \in Agents : agents'[b].cred <= issued'
    BY <1>1, <1>2 DEF Unused
  <1>4. \A r \in renewals' : r.old <= issued'
    BY DEF Unused
  <1>5. ASSUME NEW k \in Handlers, req'[k].pc \in {"commit", "swap"}
        PROVE  /\ \A b \in Agents : agents'[b].cred # req'[k].new
               /\ \A r \in renewals' : r.old # req'[k].new
    <2>1. k # h /\ req'[k] = req[k] /\ req[k].pc \in {"commit", "swap"}
      BY <1>5
    <2>. QED  BY <1>1, <1>2, <2>1 DEF Unused
  <1>. QED  BY <1>3, <1>4, <1>5 DEF Unused

LEMMA UnusedStep == Typed /\ Fresh /\ Unused /\ [Next]_vars => Unused'
  <1>. SUFFICES ASSUME Typed, Fresh, Unused, [Next]_vars
                PROVE  Unused'
    OBVIOUS
  <1>. USE DEF history
  <1>1. \A h \in Handlers : req[h] \in Request
    BY DEF Typed, AimedRequest
  <1>2. Idle.pc = "idle" /\ Idle \in Request
    BY IdleRequest DEF Idle, AimedRequest
  <1>3. ASSUME NEW h \in Handlers, Finish(h), UNCHANGED <<agents, issued, renewals>>
        PROVE  Unused'
    BY <1>2, <1>3, UnusedKept DEF Finish, Typed
  <1>4. ASSUME NEW h \in Handlers, NEW s \in {"issue", "rollback"}, Goto(h, s),
               UNCHANGED <<agents, issued, renewals>>
        PROVE  Unused'
    BY <1>1, <1>4, UnusedKept DEF Goto, Typed, Request
  <1>5. ASSUME NEW h \in Handlers, NEW outcome \in Outcomes,
               Reserve(h, outcome) \/ Rollback(h, outcome)
        PROVE  Unused'
    BY <1>3, <1>4, <1>5 DEF Reserve, Rollback
  <1>6. ASSUME NEW h \in Handlers,
               \/ ReserveRefused(h) \/ IssueFails(h) \/ CommitRefused(h) \/ SwapRefused(h)
               \/ \E delivered \in BOOLEAN : Respond(h, delivered)
        PROVE  Unused'
    BY <1>3, <1>4, <1>6 DEF ReserveRefused, IssueFails, CommitRefused, SwapRefused, Respond
  <1>7. ASSUME NEW h \in Handlers, Issue(h)
        PROVE  Unused'
    BY <1>1, <1>7, UnusedKept DEF Issue, Typed, Request
  <1>8. ASSUME NEW h \in Handlers, NEW a \in Agents, NEW cred \in Credentials,
               RenewCredential(h, a, cred)
        PROVE  Unused'
    <2>1. req'[h].new = issued + 1 /\ \A k \in Handlers \ {h} : req'[k] = req[k]
      BY <1>2, <1>8 DEF RenewCredential, Typed, Request
    <2>. QED  BY <1>8, <2>1, UnusedKept DEF RenewCredential
  <1>9. ASSUME NEW h \in Handlers, NEW outcome \in Outcomes, Commit(h, outcome)
        PROVE  Unused'
    <2>1. CASE outcome = "lost"
      BY <1>4, <1>9, <2>1 DEF Commit
    <2>2. CASE outcome # "lost"
      <3>1. req[h].pc = "commit" /\ req[h].agent \in Agents
        BY <1>9 DEF Commit, Typed, AimedRequest, Aimed
      <3>2. /\ req'[h].pc \in {"granted", "rollback"}
            /\ \A k \in Handlers \ {h} : req'[k] = req[k]
        BY <1>1, <1>9 DEF Commit, Goto, Typed, Request
      <3>. QED  BY <1>9, <2>2, <3>1, <3>2, UnusedStored DEF Commit
    <2>. QED  BY <2>1, <2>2
  <1>10. ASSUME NEW h \in Handlers, NEW outcome \in Outcomes, Swap(h, outcome)
         PROVE  Unused'
    <2>1. CASE outcome = "lost"
      BY <1>3, <1>10, <2>1 DEF Swap
    <2>2. CASE outcome # "lost"
      <3>1. req[h].pc = "swap" /\ req[h].agent \in Agents
        BY <1>10 DEF Swap, Typed, AimedRequest, Aimed
      <3>2. /\ req'[h].pc \in {"renewed", "idle"}
            /\ \A k \in Handlers \ {h} : req'[k] = req[k]
        BY <1>1, <1>2, <1>10 DEF Swap, Goto, Finish, Typed, Request
      <3>. QED  BY <1>10, <2>2, <3>1, <3>2, UnusedStored DEF Swap, Swappable
    <2>. QED  BY <2>1, <2>2
  <1>11. ASSUME NEW h \in Handlers, NEW t \in Tokens, NEW a \in Agents, EnrollAgent(h, t, a)
         PROVE  Unused'
    <2>1. req'[h].pc = "reserve" /\ \A k \in Handlers \ {h} : req'[k] = req[k]
      BY <1>2, <1>11 DEF EnrollAgent, Typed, Request
    <2>. QED  BY <1>11, <2>1, UnusedKept DEF EnrollAgent
  <1>12. CASE Tick
    <2>1. \A a \in Agents : agents'[a].cred = agents[a].cred
      BY <1>12 DEF Tick, Typed, Registration
    <2>2. \A h \in Handlers : req'[h].pc = req[h].pc /\ req'[h].new = req[h].new
      BY <1>1, <1>12 DEF Tick, Typed, Request
    <2>. QED  BY <1>12, <2>1, <2>2, UnusedKept DEF Tick
  <1>13. CASE Crash
    BY <1>2, <1>13, UnusedKept DEF Crash
  <1>14. CASE \/ \E t \in Tokens : IssueInstallCode(t)
              \/ \E t \in Tokens, outcome \in Outcomes : ValidateBootstrapToken(t, outcome)
              \/ UNCHANGED vars
    BY <1>14, UnusedKept DEF IssueInstallCode, ValidateBootstrapToken, vars
  <1>. QED
    BY <1>5, <1>6, <1>7, <1>8, <1>9, <1>10, <1>11, <1>12, <1>13, <1>14 DEF Next, HandlerStep

-----------------------------------------------------------------------------
(* The theorems *)

LEMMA InvHolds == Spec => []Inv
  <1>1. Init => Inv
    BY TypeInit, UsesInit, BearersInit, UnusedInit DEF Inv
  <1>2. Inv /\ [Next]_vars => Inv'
    BY TypeStep, UsesStep, BearersStep, UnusedStep DEF Inv, Bearers
  <1>. QED  BY <1>1, <1>2, PTL DEF Spec

\* Stored tokens and registrations, requests in progress and credentials keep
\* their types in every interleaving of the enrolment and renewal handlers.
THEOREM EnrollmentTypeCorrect == Spec => []TypeOK
  <1>1. Inv => TypeOK
    BY TypedTypeOK DEF Inv
  <1>. QED  BY <1>1, InvHolds, PTL

\* used_count of an install code is always the number of agents registered
\* with it and of its open reservation.
THEOREM CountStaysExact == Spec => []UsedCountExact
  <1>1. Inv => UsedCountExact
    BY DEF Inv, Uses
  <1>. QED  BY <1>1, InvHolds, PTL

\* An install code registers at most max_uses agents.
THEOREM UsesStayBounded == Spec => []WithinMaxUses
  <1>1. ASSUME Inv, NEW t \in Tokens
        PROVE  Cardinality(enrolled[t]) <= MaxUses
    <2>1. Cardinality(enrolled[t]) \in Nat /\ Counts(tokens[t], Cardinality(enrolled[t]))
      BY <1>1, EnrolledCount DEF Inv
    <2>2. tokens[t].used \in 0 .. MaxUses
      BY <1>1 DEF Inv, Typed, Token
    <2>. QED  BY <2>1, <2>2, UsesAssumption DEF Counts
  <1>2. Inv => WithinMaxUses
    BY <1>1 DEF WithinMaxUses
  <1>. QED  BY <1>2, InvHolds, PTL

\* No agent is registered by two install codes.
THEOREM AgentRegisteredOnce == Spec => []RegisteredOnce
  <1>1. Inv => RegisteredOnce
    BY DEF Inv, Uses
  <1>. QED  BY <1>1, InvHolds, PTL

\* A reservation left behind does not consume the install code.
THEOREM ReservationReusable == Spec => []AbandonedReservationReusable
  <1>1. ASSUME Inv, NEW t \in Tokens, NEW a \in Agents,
               tokens[t].status = "reserved", tokens[t].age >= ReservationTTL,
               tokens[t].left > 0, ~Registered(a)
        PROVE  Reservable(RecoverExpiredReservation(tokens[t]), a)
    <2>1. tokens[t] \in Token /\ tokens[t].used > 0
      BY <1>1, EnrolledCount DEF Inv, Typed, Counts
    <2>2. RecoverExpiredReservation(tokens[t]) = Release(tokens[t])
      BY <1>1 DEF RecoverExpiredReservation
    <2>3. /\ Release(tokens[t]).status = "active"
          /\ Release(tokens[t]).used < MaxUses
          /\ Release(tokens[t]).left = tokens[t].left
      BY <2>1, UsesAssumption DEF Release, Token
    <2>. QED  BY <1>1, <2>2, <2>3 DEF Reservable
  <1>2. Inv => AbandonedReservationReusable
    BY <1>1 DEF AbandonedReservationReusable
  <1>. QED  BY <1>2, InvHolds, PTL

\* Of the renewals that present one credential, one succeeds.
THEOREM CredentialRenewedOnce == Spec => []RenewedOnce
  <1>1. Inv => RenewedOnce
    BY DEF Inv, Bearers
  <1>. QED  BY <1>1, InvHolds, PTL

\* The credential on its way to an agent is the one in the store.
THEOREM AnswerStaysStored == Spec => []AnswerIsStored
  <1>1. Inv => AnswerIsStored
    BY DEF Inv, Bearers
  <1>. QED  BY <1>1, InvHolds, PTL

\* A credential an agent was sent is valid until the agent has it renewed.
THEOREM HeldStaysValid == Spec => []HeldUntilRenewed
  <1>1. Inv => HeldUntilRenewed
    BY DEF Inv, Bearers
  <1>. QED  BY <1>1, InvHolds, PTL
-----------------------------------------------------------------------------
(* Refinement of EnrollmentContract *)

Promised == <<enrolled, Aside, Current, Spent>>

\* A step that changes the count of one code at most, and no registration or
\* credential, sets a use aside, gives one back, or changes nothing promised.
LEMMA CountStep ==
    ASSUME Typed, Uses, Typed', NEW t \in Tokens,
           UNCHANGED <<enrolled, renewals>>,
           \A a \in Agents : agents'[a].cred = agents[a].cred,
           \A u \in Tokens \ {t} : tokens'[u].used = tokens[u].used,
           \/ tokens'[t].used = tokens[t].used
           \/ tokens[t].status = "reserved" /\ tokens'[t].used = tokens[t].used - 1
           \/ tokens[t].status = "active" /\ tokens'[t].used = tokens[t].used + 1
    PROVE  [Contract!Next]_Promised
  <1>. DEFINE n == Cardinality(enrolled[t])
  <1>1. UNCHANGED <<Current, Spent>>
    BY DEF Current, Spent
  <1>2. /\ n \in Nat /\ Counts(tokens[t], n)
        /\ tokens[t].used \in 0 .. MaxUses /\ tokens'[t].used \in 0 .. MaxUses
    BY EnrolledCount DEF Typed, Token
  <1>. HIDE DEF n
  <1>3. \A u \in Tokens \ {t} : u \in Aside' <=> u \in Aside
    BY DEF Aside
  <1>4. /\ t \in Aside <=> tokens[t].used > n
        /\ t \in Aside' <=> tokens'[t].used > n
    BY DEF Aside, n
  <1>5. Aside \subseteq Tokens /\ Aside' \subseteq Tokens
    BY DEF Aside
  <1>6. CASE tokens'[t].used = tokens[t].used
    <2>1. UNCHANGED Aside
      BY <1>3, <1>4, <1>5, <1>6
    <2>. QED  BY <1>1, <2>1 DEF Promised
  <1>7. CASE tokens[t].status = "reserved" /\ tokens'[t].used = tokens[t].used - 1
    <2>1. tokens[t].used = n + 1
      BY <1>2, <1>7 DEF Counts
    <2>2. t \in Aside /\ t \notin Aside'
      BY <1>2, <1>4, <1>7, <2>1
    <2>3. Aside' = Aside \ {t}
      BY <1>3, <1>5, <2>2
    <2>. QED  BY <1>1, <2>2, <2>3 DEF Contract!Next, Contract!GiveBack
  <1>8. CASE tokens[t].status = "active" /\ tokens'[t].used = tokens[t].used + 1
    <2>1. tokens[t].used = n
      BY <1>2, <1>8 DEF Counts
    <2>2. t \notin Aside /\ t \in Aside' /\ n < MaxUses
      BY <1>2, <1>4, <1>8, <2>1, UsesAssumption
    <2>3. Aside' = Aside \cup {t}
      BY <1>3, <1>5, <2>2
    <2>4. Contract!Cardinality(enrolled[t]) = Cardinality(enrolled[t])
      BY DEF Cardinality, Contract!Cardinality
    <2>5. Contract!SetAside(t)
      BY <1>1, <2>2, <2>3, <2>4 DEF Contract!SetAside, n
    <2>. QED  BY <2>5 DEF Contract!Next
  <1>. QED  BY <1>6, <1>7, <1>8

\* A step that leaves counts, registrations and credentials alone changes
\* nothing promised.
LEMMA PromisedKept ==
    ASSUME UNCHANGED <<enrolled, renewals>>,
           \A a \in Agents : agents'[a].cred = agents[a].cred,
           \A t \in Tokens : tokens'[t].used = tokens[t].used
    PROVE  UNCHANGED Promised
  BY DEF Promised, Aside, Current, Spent

\* Giving a reservation back takes one from the count.
LEMMA CountReleased ==
    ASSUME NEW token \in Token, NEW n \in Nat, Counts(token, n)
    PROVE  /\ \/ RecoverExpiredReservation(token) = token
              \/ /\ token.status = "reserved"
                 /\ RecoverExpiredReservation(token).used = token.used - 1
           /\ \/ ValidatedToken(token).used = token.used
              \/ token.status = "reserved" /\ ValidatedToken(token).used = token.used - 1
           /\ \/ RolledBack(token).used = token.used
              \/ token.status = "reserved" /\ RolledBack(token).used = token.used - 1
  <1>1. token.status = "reserved" => Release(token).used = token.used - 1
    BY DEF Release, Counts, Token
  <1>2. [token EXCEPT !.status = "expired"].used = token.used
    BY DEF Token
  <1>. QED  BY <1>1, <1>2 DEF RecoverExpiredReservation, ValidatedToken, RolledBack

\* A registration takes the use set aside for it.
LEMMA CommitRegisters ==
    ASSUME Typed, Uses, Unused, NEW h \in Handlers, NEW outcome \in Outcomes,
           Commit(h, outcome), outcome # "lost"
    PROVE  Contract!Next
  <1>. DEFINE t == req[h].token
              a == req[h].agent
              n == Cardinality(enrolled[t])
  <1>1. /\ t \in Tokens /\ a \in Agents /\ req[h].new \in Credentials /\ req[h].pc = "commit"
    BY DEF Commit, Typed, AimedRequest, Aimed, Enrolling, InFlight
  <1>2. /\ enrolled' = [enrolled EXCEPT ![t] = @ \cup {a}]
        /\ agents' = [agents EXCEPT ![a] = [cred |-> req[h].new, left |-> req[h].left]]
        /\ tokens' = [tokens EXCEPT ![t].status = IF tokens[t].used >= MaxUses
                                                    THEN "used" ELSE "active",
                                    ![t].age = 0]
        /\ ~Registered(a)
        /\ tokens[t].status = "reserved"
        /\ renewals' = renewals
    BY DEF Commit, Committable
  <1>3. Contract!New(req[h].new)
    BY <1>1 DEF Contract!New, Current, Spent, Unused
  <1>. HIDE DEF t, a
  <1>4. a \notin enrolled[t]
    BY <1>1, <1>2 DEF Uses, EnrolledRegistered
  <1>5. IsFiniteSet(enrolled[t]) /\ n \in Nat /\ tokens[t].used = n + 1
    BY <1>1, <1>2, EnrolledCount DEF Uses, EnrolledRegistered, Counts
  <1>6. Cardinality(enrolled[t] \cup {a}) = n + 1
    BY <1>4, <1>5, FS_AddElement
  <1>7. /\ enrolled'[t] = enrolled[t] \cup {a}
        /\ \A u \in Tokens \ {t} : enrolled'[u] = enrolled[u] /\ tokens'[u] = tokens[u]
        /\ tokens'[t].used = n + 1
    BY <1>1, <1>2, <1>5 DEF Typed, Token
  <1>8. t \in Aside /\ t \notin Aside'
    <2>1. tokens[t].used > n /\ ~(tokens'[t].used > Cardinality(enrolled'[t]))
      BY <1>5, <1>6, <1>7
    <2>. QED  BY <1>1, <2>1 DEF Aside
  <1>9. \A u \in Tokens \ {t} : u \in Aside' <=> u \in Aside
    BY <1>7 DEF Aside
  <1>10. Aside' = Aside \ {t}
    <2>1. Aside \subseteq Tokens /\ Aside' \subseteq Tokens
      BY DEF Aside
    <2>. QED  BY <1>8, <1>9, <2>1
  <1>11. Current[a] = None /\ Current' = [Current EXCEPT ![a] = req[h].new]
    BY <1>1, <1>2 DEF Current, Registered, Typed
  <1>12. Spent' = Spent
    BY <1>2 DEF Spent
  <1>13. Contract!Register(t, a, req[h].new)
    BY <1>2, <1>3, <1>8, <1>10, <1>11, <1>12 DEF Contract!Register
  <1>. QED  BY <1>1, <1>13 DEF Contract!Next

\* A renewal that is stored replaces the agent's credential by a new one.
LEMMA SwapRenews ==
    ASSUME Typed, Unused, NEW h \in Handlers, NEW outcome \in Outcomes,
           Swap(h, outcome), outcome # "lost"
    PROVE  Contract!Next
  <1>. DEFINE a == req[h].agent
  <1>1. /\ a \in Agents /\ req[h].new \in Credentials /\ req[h].old \in Credentials
        /\ req[h].pc = "swap"
    BY DEF Swap, Typed, AimedRequest, Aimed, InFlight
  <1>2. /\ agents' = [agents EXCEPT ![a] = [cred |-> req[h].new, left |-> req[h].left]]
        /\ renewals' = renewals \cup {[agent |-> a, old |-> req[h].old, new |-> req[h].new]}
        /\ agents[a].cred = req[h].old
        /\ UNCHANGED <<tokens, enrolled>>
    BY DEF Swap, Swappable
  <1>3. Contract!New(req[h].new)
    BY <1>1 DEF Contract!New, Current, Spent, Unused
  <1>. HIDE DEF a
  <1>4. Current[a] = req[h].old /\ Current[a] # None
    BY <1>1, <1>2, BoundAssumption DEF Current, Credentials, None
  <1>5. Current' = [Current EXCEPT ![a] = req[h].new]
    BY <1>1, <1>2 DEF Current, Typed
  <1>6. Spent' = Spent \cup {Current[a]}
    <2>1. PICK r : r = [agent |-> a, old |-> req[h].old, new |-> req[h].new]
      OBVIOUS
    <2>2. renewals' = renewals \cup {r} /\ r.old = Current[a]
      BY <1>2, <1>4, <2>1
    <2>. QED  BY <2>2 DEF Spent
  <1>7. UNCHANGED <<enrolled, Aside>>
    BY <1>2 DEF Aside
  <1>8. Contract!Renew(a, req[h].new)
    BY <1>3, <1>4, <1>5, <1>6, <1>7 DEF Contract!Renew
  <1>. QED  BY <1>1, <1>8 DEF Contract!Next

\* Every step of a handler, of the clock or of a restart is one step of the
\* contract or changes nothing promised.
LEMMA ContractStep == Inv /\ [Next]_vars => [Contract!Next]_Promised
  <1>. SUFFICES ASSUME Inv, [Next]_vars
                PROVE  [Contract!Next]_Promised
    OBVIOUS
  <1>. USE DEF history
  <1>1. Typed /\ Uses /\ Unused /\ Typed'
    BY TypeStep DEF Inv
  <1>2. \A t \in Tokens : tokens[t] \in Token
    BY <1>1 DEF Typed
  <1>3. ASSUME NEW t \in Tokens, IssueInstallCode(t)
        PROVE  [Contract!Next]_Promised
    <2>1. \A u \in Tokens : tokens'[u].used = tokens[u].used
      BY <1>1, <1>3 DEF IssueInstallCode, Typed, Absent
    <2>. QED  BY <1>3, <2>1, PromisedKept DEF IssueInstallCode
  <1>4. ASSUME NEW t \in Tokens, NEW outcome \in Outcomes, ValidateBootstrapToken(t, outcome)
        PROVE  [Contract!Next]_Promised
    <2>1. \/ tokens' = tokens
          \/ tokens' = [tokens EXCEPT ![t] = ValidatedToken(tokens[t])]
      BY <1>4 DEF ValidateBootstrapToken
    <2>2. \/ ValidatedToken(tokens[t]).used = tokens[t].used
          \/ /\ tokens[t].status = "reserved"
             /\ ValidatedToken(tokens[t]).used = tokens[t].used - 1
      BY <1>1, <1>2, EnrolledCount, CountReleased
    <2>3. \/ tokens'[t].used = tokens[t].used
          \/ tokens[t].status = "reserved" /\ tokens'[t].used = tokens[t].used - 1
      BY <1>1, <2>1, <2>2 DEF Typed
    <2>4. \A u \in Tokens \ {t} : tokens'[u].used = tokens[u].used
      BY <1>1, <2>1 DEF Typed
    <2>. QED  BY <1>1, <1>4, <2>3, <2>4, CountStep DEF ValidateBootstrapToken
  <1>5. ASSUME NEW h \in Handlers, NEW outcome \in Outcomes, Rollback(h, outcome)
        PROVE  [Contract!Next]_Promised
    <2>1. PICK t \in Tokens : t = req[h].token
      BY <1>1, <1>5 DEF Rollback, Typed, AimedRequest, Aimed, Enrolling
    <2>2. \/ tokens' = tokens
          \/ tokens' = [tokens EXCEPT ![t] = RolledBack(tokens[t])]
      BY <1>5, <2>1 DEF Rollback
    <2>3. \/ RolledBack(tokens[t]).used = tokens[t].used
          \/ tokens[t].status = "reserved" /\ RolledBack(tokens[t]).used = tokens[t].used - 1
      BY <1>1, <1>2, EnrolledCount, CountReleased
    <2>4. \/ tokens'[t].used = tokens[t].used
          \/ tokens[t].status = "reserved" /\ tokens'[t].used = tokens[t].used - 1
      BY <1>1, <2>2, <2>3 DEF Typed
    <2>5. \A u \in Tokens \ {t} : tokens'[u].used = tokens[u].used
      BY <1>1, <2>2 DEF Typed
    <2>. QED  BY <1>1, <1>5, <2>4, <2>5, CountStep DEF Rollback
  <1>6. ASSUME NEW h \in Handlers, NEW outcome \in Outcomes, Reserve(h, outcome)
        PROVE  [Contract!Next]_Promised
    <2>1. PICK t \in Tokens : t = req[h].token
      BY <1>1, <1>6 DEF Reserve, Typed, AimedRequest, Aimed, Enrolling
    <2>2. PICK token \in Token : token = RecoverExpiredReservation(tokens[t])
      BY <1>2, ReleasedToken
    <2>3. token.status = "active" /\ token.used \in Nat
      BY <1>6, <2>1, <2>2, UsesAssumption DEF Reserve, Reservable, Token
    <2>4. PICK taken : taken = [token EXCEPT !.used = @ + 1, !.age = 0, !.status = "reserved"]
      OBVIOUS
    <2>5. tokens' = tokens \/ tokens' = [tokens EXCEPT ![t] = taken]
      BY <1>6, <2>1, <2>2, <2>4 DEF Reserve
    <2>6. taken.used = token.used + 1
      BY <2>4 DEF Token
    <2>7. \/ token = tokens[t]
          \/ tokens[t].status = "reserved" /\ token.used = tokens[t].used - 1
      BY <1>1, <1>2, <2>2, EnrolledCount, CountReleased
    <2>8. \/ taken.used = tokens[t].used
          \/ tokens[t].status = "active" /\ taken.used = tokens[t].used + 1
      <3>1. tokens[t].used \in Nat
        BY <1>2, UsesAssumption DEF Token
      <3>. QED  BY <2>3, <2>6, <2>7, <3>1
    <2>9. \/ tokens'[t].used = tokens[t].used
          \/ tokens[t].status = "active" /\ tokens'[t].used = tokens[t].used + 1
      BY <1>1, <2>5, <2>8 DEF Typed
    <2>10. \A u \in Tokens \ {t} : tokens'[u].used = tokens[u].used
      BY <1>1, <2>5 DEF Typed
    <2>. QED  BY <1>1, <1>6, <2>9, <2>10, CountStep DEF Reserve
  <1>7. ASSUME NEW h \in Handlers, NEW outcome \in Outcomes, Commit(h, outcome)
        PROVE  [Contract!Next]_Promised
    <2>1. CASE outcome = "lost"
      BY <1>7, <2>1, PromisedKept DEF Commit
    <2>2. CASE outcome # "lost"
      BY <1>1, <1>7, <2>2, CommitRegisters
    <2>. QED  BY <2>1, <2>2
  <1>8. ASSUME NEW h \in Handlers, NEW outcome \in Outcomes, Swap(h, outcome)
        PROVE  [Contract!Next]_Promised
    <2>1. CASE outcome = "lost"
      BY <1>8, <2>1, PromisedKept DEF Swap
    <2>2. CASE outcome # "lost"
      BY <1>1, <1>8, <2>2, SwapRenews
    <2>. QED  BY <2>1, <2>2
  <1>9. ASSUME NEW h \in Handlers,
               \/ ReserveRefused(h) \/ Issue(h) \/ IssueFails(h) \/ CommitRefused(h)
               \/ SwapRefused(h) \/ \E delivered \in BOOLEAN : Respond(h, delivered)
        PROVE  [Contract!Next]_Promised
    BY <1>9, PromisedKept
    DEF ReserveRefused, Issue, IssueFails, CommitRefused, SwapRefused, Respond
  <1>10. CASE \/ \E h \in Handlers, t \in Tokens, a \in Agents : EnrollAgent(h, t, a)
              \/ \E h \in Handlers, a \in Agents, cred \in Credentials :
                    RenewCredential(h, a, cred)
              \/ Crash
              \/ UNCHANGED vars
    BY <1>10, PromisedKept DEF EnrollAgent, RenewCredential, Crash, vars
  <1>11. CASE Tick
    <2>1. \A a \in Agents : agents'[a].cred = agents[a].cred
      BY <1>1, <1>11 DEF Tick, Typed, Registration
    <2>2. \A t \in Tokens : tokens'[t].used = tokens[t].used
      BY <1>1, <1>11 DEF Tick, Typed, Token
    <2>. QED  BY <1>11, <2>1, <2>2, PromisedKept DEF Tick
  <1>. QED
    BY <1>3, <1>4, <1>5, <1>6, <1>7, <1>8, <1>9, <1>10, <1>11 DEF Next, HandlerStep

\* The handlers of enrolment and renewal keep what EnrollmentContract promises:
\* a use of a code is taken or given back once, and credentials are replaced
\* for good, in every interleaving with crashes and failing store calls.
THEOREM EnrollmentImplementsContract == Spec => ImplementsEnrollmentContract
  <1>1. Init => Contract!Init
    <2>. SUFFICES ASSUME Init
                  PROVE  Contract!Init
      OBVIOUS
    <2>1. Aside = {}
      BY FS_EmptySet DEF Init, Aside, Absent
    <2>2. Current = [a \in Agents |-> None] /\ Spent = {}
      BY DEF Init, Current, Spent, Unregistered
    <2>. QED  BY <2>1, <2>2 DEF Init, Contract!Init
  <1>2. Inv /\ [Next]_vars => [Contract!Next]_<<enrolled, Aside, Current, Spent>>
    BY ContractStep DEF Promised
  <1>. QED
    BY <1>1, <1>2, InvHolds, PTL DEF Spec, ImplementsEnrollmentContract, Contract!Spec
=============================================================================
