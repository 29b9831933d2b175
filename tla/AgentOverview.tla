---------------------------- MODULE AgentOverview ----------------------------
(***************************************************************************)
(* The overview of the agents of a gateway (crates/warp-gateway:           *)
(* api/overview.rs) beside the requests that change what it shows:         *)
(* enrolments (api/enrollment.rs) and status reports (api/agent_ops.rs).   *)
(*                                                                         *)
(* The overview counts the agents of one load of the store, and lists      *)
(* cards from that load and from the list of recent agents in memory, read *)
(* a moment later.  An enrolment is in the store before it is in the list; *)
(* a restart empties the list.  Reports and enrolments take their times    *)
(* before they wait for the store, an overview takes its own after the     *)
(* load.  A load that fails counts as an empty store.                      *)
(***************************************************************************)
EXTENDS Integers, FiniteSets, SequencesExt

CONSTANTS
    Agents,     \* agent ids
    Views,      \* overview requests at the same time
    Cards,      \* length of the list (6 in the code)
    Window,     \* ONLINE_WINDOW_SECONDS
    Requested,  \* requested_at of enrolments, read as times: the agents' own clocks
    MaxSecond,  \* bound: the clock of the gateway
    Reporters,  \* bound: the agents that report their status
    MaxReports  \* bound: status reports under way at the same time

ASSUME OverviewConstants ==
    /\ Cards \in Nat /\ Window \in Nat /\ MaxSecond \in Nat /\ MaxReports \in Nat
    /\ Requested \subseteq Nat /\ Reporters \subseteq Agents

VARIABLES
    agents,     \* the stored registrations
    recent,     \* recent_online_agents, newest first
    enrolling,  \* enrolments accepted by the store, not yet in the list
    reports,    \* status reports authenticated, not yet stored
    view,       \* the overview requests
    clock,
    \* History: for each agent the time of its newest answered report, and
    \* the times of its other reports under way when that one was answered.
    acked, overtaken

stored == <<agents, acked, overtaken>>
overviewVars == <<stored, recent, enrolling, reports, view, clock>>

Never == -1
Absent == [registered |-> FALSE, at |-> 0, seen |-> 0]

\* An overview: the snapshot it loaded, its time, whom it counts as online and
\* the cards it lists.  History: acked and overtaken when it loaded.
NoView == [pc |-> "idle", ok |-> TRUE, rows |-> [a \in Agents |-> Absent], now |-> 0, online |-> {}, cards |-> {},
           acked |-> [a \in Agents |-> Never], overtaken |-> [a \in Agents |-> {}]]

RegisteredIn(rows) == {a \in Agents : rows[a].registered}
Registered == RegisteredIn(agents)

OverviewInit ==
    /\ agents = [a \in Agents |-> Absent]
    /\ recent = <<>>
    /\ enrolling = {}
    /\ reports = {}
    /\ view = [v \in Views |-> NoView]
    /\ clock = 0
    /\ acked = [a \in Agents |-> Never]
    /\ overtaken = [a \in Agents |-> {}]

-----------------------------------------------------------------------------
(* enroll_agent *)

\* registered_at: the time the agent sent, or the time of whoever reads it if it
\* does not parse.  The store and the list parse it with different libraries.
RegisteredAt(asked, now) == {asked, now}

\* The store call of an enrolment (AgentEnrollment), which took its time before
\* it waited for the store: done, failed without a trace, or failed with the
\* registration stored.  Only an accepted enrolment goes on to
\* record_recent_online_agent.
Accepted(outcome) == outcome = "ok"

CommitRegistration(a, asked, now, outcome) ==
    /\ a \notin Registered
    /\ IF outcome = "lost" THEN UNCHANGED agents
       ELSE \E at \in RegisteredAt(asked, now) :
                agents' = [agents EXCEPT ![a] = [registered |-> TRUE, at |-> at, seen |-> now]]
    /\ IF Accepted(outcome)
        THEN /\ acked' = [acked EXCEPT ![a] = now]
             /\ enrolling' = enrolling \cup {[agent |-> a, asked |-> asked, since |-> now]}
        ELSE UNCHANGED <<acked, enrolling>>
    /\ UNCHANGED <<overtaken, recent, reports, view, clock>>

\* retain: the list has one entry of an agent at most.
Without(list, a) ==
    IF \A i \in DOMAIN list : list[i].agent # a THEN list
    ELSE RemoveAt(list, CHOOSE i \in DOMAIN list : list[i].agent = a)

\* record_recent_online_agent: the time is taken, then retain, insert at the
\* front and truncate under the lock.
RecordRecentOnlineAgent(e, now) ==
    LET others == Without(recent, e.agent)
    IN  /\ enrolling' = enrolling \ {e}
        /\ \E at \in RegisteredAt(e.asked, now) :
                recent' = SubSeq(<<[agent |-> e.agent, at |-> at]>> \o others, 1,
                                 IF Len(others) < Cards THEN Len(others) + 1 ELSE Cards)
        /\ UNCHANGED <<stored, reports, view, clock>>

-----------------------------------------------------------------------------
(* submit_agent_status *)

\* authenticate_agent on a snapshot, and the time of the report
BeginReport(a) ==
    /\ a \in Registered
    /\ Cardinality(reports) < MaxReports
    /\ reports' = reports \cup {[agent |-> a, at |-> clock]}
    /\ UNCHANGED <<stored, recent, enrolling, view, clock>>

MutLastSeenKept(row, at) == row
Reported(row, at) == [row EXCEPT !.seen = at]

\* The store call; the samples for the time series come after it and their
\* failure is only logged.
StoreReport(r) ==
    LET others == {q.at : q \in {p \in reports \ {r} : p.agent = r.agent}}
    IN  /\ agents' = [agents EXCEPT ![r.agent] = Reported(@, r.at)]
        /\ reports' = reports \ {r}
        /\ IF r.at >= acked[r.agent]
            THEN /\ acked' = [acked EXCEPT ![r.agent] = r.at]
                 /\ overtaken' = [overtaken EXCEPT ![r.agent] = others]
            ELSE UNCHANGED <<acked, overtaken>>
        /\ UNCHANGED <<recent, enrolling, view, clock>>

\* The store call fails (500): without a trace, or with the report stored.
ReportFails(r, outcome) ==
    /\ agents' = IF outcome = "lost" THEN agents ELSE [agents EXCEPT ![r.agent] = Reported(@, r.at)]
    /\ reports' = reports \ {r}
    /\ UNCHANGED <<acked, overtaken, recent, enrolling, view, clock>>

-----------------------------------------------------------------------------
(* agent_overview *)

\* load().unwrap_or_default()
LoadAgents(v, ok) ==
    /\ view[v].pc = "idle"
    /\ view' = [view EXCEPT ![v] = [NoView EXCEPT
                    !.pc = "loaded", !.ok = ok, !.rows = IF ok THEN agents ELSE @,
                    !.acked = acked, !.overtaken = overtaken]]
    /\ UNCHANGED <<stored, recent, enrolling, reports, clock>>

\* agent_is_online
Online(row, now) == now - row.seen \in 0 .. Window

\* The time of the overview, and the count
CountOnline(v) ==
    /\ view[v].pc = "loaded"
    /\ view' = [view EXCEPT ![v].pc = "counted", ![v].now = clock,
                    ![v].online = {a \in RegisteredIn(view[v].rows) : Online(view[v].rows[a], clock)}]
    /\ UNCHANGED <<stored, recent, enrolling, reports, clock>>

\* The newest registrations, however ties are ordered.
Newest(entries) ==
    {cards \in SUBSET entries :
        /\ Cardinality(cards) = IF Cardinality(entries) < Cards THEN Cardinality(entries) ELSE Cards
        /\ \A c \in cards, e \in entries \ cards : e.at <= c.at}

MutMissingEntries(entries, cards) == entries \ cards
\* The entries of agents that have no card
Missing(entries, cards) == {e \in entries : \A c \in cards : c.agent # e.agent}

\* The cards of the load, and of the list in memory those of other agents.
MergeRecent(v) ==
    LET rows == view[v].rows
        loaded == {[agent |-> a, at |-> rows[a].at] : a \in RegisteredIn(rows)}
        listed == {recent[i] : i \in DOMAIN recent}
    IN  /\ view[v].pc = "counted"
        /\ \E cards \in Newest(loaded \cup Missing(listed, loaded)) :
                view' = [view EXCEPT ![v].pc = "shown", ![v].cards = cards]
        /\ UNCHANGED <<stored, recent, enrolling, reports, clock>>

RefreshOverview(v) ==
    /\ view[v].pc = "shown"
    /\ view' = [view EXCEPT ![v] = NoView]
    /\ UNCHANGED <<stored, recent, enrolling, reports, clock>>

-----------------------------------------------------------------------------
RestartProcess ==
    /\ recent' = <<>>
    /\ enrolling' = {}
    /\ reports' = {}
    /\ view' = [v \in Views |-> NoView]
    /\ UNCHANGED <<stored, clock>>

Tick ==
    /\ clock < MaxSecond
    /\ clock' = clock + 1
    /\ UNCHANGED <<stored, recent, enrolling, reports, view>>

OverviewNext ==
    \/ \E a \in Agents, asked \in Requested, now \in 0 .. clock, outcome \in {"ok", "lost", "kept"} :
            CommitRegistration(a, asked, now, outcome)
    \/ \E e \in enrolling : \E now \in e.since .. clock : RecordRecentOnlineAgent(e, now)
    \/ \E a \in Reporters : BeginReport(a)
    \/ \E r \in reports : StoreReport(r)
    \/ \E r \in reports, outcome \in {"lost", "kept"} : ReportFails(r, outcome)
    \/ \E v \in Views, ok \in BOOLEAN : LoadAgents(v, ok)
    \/ \E v \in Views : CountOnline(v) \/ MergeRecent(v) \/ RefreshOverview(v)
    \/ RestartProcess
    \/ Tick

OverviewSpec == OverviewInit /\ [][OverviewNext]_overviewVars

-----------------------------------------------------------------------------
(* Properties *)

\* Cards come from the load and from the list in memory, read at another moment
\* and with times that may differ.  Each is that of a registered agent, so that
\* one a successful load does not count was enrolled since; and an agent has one
\* card, whichever source it is from.
CardsOfEnrolled ==
    \A v \in Views :
        /\ {c.agent : c \in view[v].cards} \subseteq Registered
        /\ \A c, d \in view[v].cards : c.agent = d.agent => c = d

\* An overview that could load the store counts as online every agent that had
\* been answered within the window before it, unless another report of the agent
\* was under way when its newest answered one was stored, with a time out of the
\* window: stored later, that one takes last_seen_at back, until the next is
\* answered.
OnlineCounted ==
    \A v \in Views, a \in Agents :
        LET o == view[v] IN
        (/\ o.pc \in {"counted", "shown"} /\ o.ok
         /\ o.acked[a] # Never /\ o.now - o.acked[a] \in 0 .. Window
         /\ \A t \in o.overtaken[a] : o.now - t <= Window) => a \in o.online
=============================================================================
