# warp-insight in TLA+

This directory is a verification development of warp-insight: TLA+ modules of its
core logic, TLC configurations that check them on small instances, and TLAPS proofs
of the properties that matter most for every size. `PROJECT.json` lists the
components, the runs, the mutants that show each property has teeth, the source lines
behind each definition, the hazards, the findings and the theorems. Paths below are
relative to the repository; `src/` in `PROJECT.json` is its root.

## 1. The system

Agents on hosts enrol with a gateway (`crates/warp-gateway`), gateways enrol with a
control center (`crates/wist-center`). Records flow from agents upstream with sequence
numbers; a receiver decides for each number whether it was accepted, dropped on
purpose or lost (`crates/wist-delivery`), and the counts are reconciled. Both services
are axum servers over a store that is one JSON file (or PostgreSQL in the center).

| Component | State | Operations | What is hard about it |
|---|---|---|---|
| Gap detector (`wist-delivery/watermark.rs`) | `committed`, `observed`, `high`, `dropped_ranges` | `observe`, `commit_range`, the `settle` loop | any order and repetition of records and ranges; the window's edge; `u64` arithmetic |
| Quality channel and ledger (`channel.rs`, `report.rs`, `reconcile.rs`) | tracker, counters, reported ranges | `on_record`, `on_dropped_range`, `balanced` | counting numbers rather than calls; repeated and late reports |
| File stores (`warp-gateway/infra/store.rs`, `wist-center/infra/store.rs`) | the file, a temporary file, a mutex per path, a lock file | `load`, `update`, `update_result` | threads and processes; every step may fail; crash and power loss |
| Agent enrolment (`warp-gateway/api/install.rs`, `enrollment.rs`, `agent_ops.rs`) | install codes, registrations, credentials | issue a code, fetch config or package, enrol (reserve, issue, commit, roll back), renew | several store calls per request, reservations that expire under a slow one, errors after the change is stored, lost answers |
| Gateway enrolment (`wist-center/api/admin_ops.rs`, `gateway_ops.rs`) | gateways, enrolment tokens, lifecycle events | create, provision, register, renew, report status | tokens consumed in one call and paid for in another; decisions on an earlier read |
| Failure limiter (`api/rate_limit.rs`, `api/admin_auth.rs` of both) | buckets per client | check, record, clear, evict | check and record are two critical sections, each with a clock reading before the lock |
| PostgreSQL store (`wist-center/infra/pg_store.rs`) | tables | the store trait | a call is several statements on a pool, outside a transaction; each may fail after it was committed |
| Artifact store (`admin_ops.rs`, `artifacts.rs`) | a file or an object, and a release record | publish | two stores for one release, a file written in place |
| Fleet view of the center (`admin_ops.rs`, `gateway_ops.rs`, `store.rs`, `vm.rs`) | gateways and agents with their last report, samples in a time series database | receive reports, push samples, list, history, uptime | reports repeated, lost and out of order; a sample may be missing or late |
| Agent overview of the gateway (`overview.rs`, `agent_ops.rs`) | recent agents in memory beside the store | report status, build the overview | two sources read at different moments; the time of a report is taken before the store's lock |
| Pipeline topology (`pipeline.rs`, `victoria_metrics.rs`) | none | query level by level, group, sum | children and groups come from queries of different moments |
| Host metrics (`host_metrics.rs`) | none | query one host | - |
| Install signing, package hash, install (`install_signing.rs`, `install.rs`, `install.sh`) | two caches keyed by file time and length; key and certificate of the start | sign, hash, serve, verify | concurrent refills around a file change; one install spans several requests |
| Simulator (`insight-simulator`) | token and phase of its gateway | provision, register, report, retry | retry of what may have been done |
| Configuration and TLS | what is loaded at the start | parse, load | what the process keeps while the files change |
| Data types, session and upgrader skeletons, web consoles | none of their own | declare, render | - |

Interactions: the handlers of both services call their store, one locked
read-modify-write at a time, and everything between two calls interleaves; the limiter
wraps every authenticating handler; the channel drives the gap detector; gateways
report to the center, which stores the report and then pushes samples; hosts fetch
script, signature, package and configuration from the gateway one after the other.

The properties that make each component correct are in section 3, the hazards they are
aimed at in `PROJECT.json`.

## 2. Modules and their code

* **`StreamContract`** - what a receiver promises: each number gets at most one
  verdict, a verdict is never taken back, and a number is given up only when the
  stream is more than `Lag` past it.
* **`WatermarkTracker`** - `watermark.rs`. The variables are the struct's fields.
  `observe` is `ObserveDuplicate` or `ObserveNew`; `commit_range` is
  `CommitRangeIgnored` or `CommitRange`, which contains `insert_dropped_range`; each
  round of the `settle` loop is one step, and `settling` keeps other calls out, as
  `&mut self` does. `accepted`, `lost`, `filtered` remember the return values. Sums
  saturate or wrap where the code's do.
* **`QualityChannel`** - `channel.rs`, `report.rs`, `reconcile.rs`: extends the
  tracker with the counters and the ranges kept for the report.
* **`AtomicStore`** - what a store promises: an update is applied to the latest
  snapshot in one step, and stays once its call returned Ok; one that is not confirmed
  may vanish in a power failure.
* **`AdminStore`** - the store code shared by both services, one action per system
  call: mutex, file lock, load, open, write, fsync, rename, directory sync, the two
  unlocks, an error at any of them, a process crash, a power failure. A snapshot is
  the set of updates in it.
* **`AgentEnrollment`** - the enrolment handlers of the gateway. A store call is one
  step, justified by `AdminStore` implementing `AtomicStore`; it succeeds, fails
  (`lost`), or fails after the rename (`kept`), where the caller sees an error and the
  change is stored. Times are ages and remaining lifetimes, capped at the limits the
  code compares with. `enrolled` and `renewals` are history.
* **`EnrollmentContract`** - what a gateway promises about install codes and agent
  credentials: a use of a code is set aside one at a time and is given back or taken
  once, an agent is registered once, its credentials are new and replaced for good.
  `AgentEnrollment` implements it: a use is aside while `used_count` is ahead of the
  registrations, the credential is that of the registration, the replaced ones are
  those renewed.
* **`GatewayEnrollment`** - the same for the center: creation, provisioning with a
  RegistToken derived from the identity, registration, renewal, status reports,
  lifecycle events, restarts.
* **`OnboardingContract`** - what the center promises about a gateway: the bootstrap
  token admits one process and only that one is invited to register; a credential is
  generated once and stored at most once, for a gateway that was invited or has one;
  stages are entered in order and only reached ones are recorded. `GatewayEnrollment`
  implements it: `open` are the gateways with a bootstrap token, `invited` the
  identities sent a RegistToken, `pending` the credentials of requests in progress.
* **`RateLimit`** - the limiter and `require_admin_bearer` around it. A request reads
  the clock in one step and takes the lock in another.
* **`PgStore`** - the PostgreSQL store. A call is its statements, one step each, on
  tables that other calls change in between; a statement can fail before (`lost`) or
  after (`kept`) it is committed, and a failure ends the call. `since` keeps, for each
  call, which calls had returned before it began: what a store under one lock
  guarantees for every pair of calls, this one guarantees for those that do not
  overlap, and the properties say so. Handlers call the store one call at a time and
  look the gateway up before, so the model lets any call come at any time on gateways
  that exist; how the handlers chain them is `GatewayEnrollment`. The publication of a
  release is here too: a file that is truncated and then written, or an object that is
  put, and then the record.
* **`FleetStatus`** - gateways that come up and report, and what the center shows. The
  client is `run_gateway` of the simulator with its fallbacks (a gateway that cannot
  provision or register goes on to report with the token it has) and the retry of
  `send_json`; copies of a request are in flight together, are lost, or arrive after
  the client gave up. Storing a gateway's report and pushing its samples are two
  steps. Provisioning and registration are one step each, which `GatewayEnrollment`
  takes apart; an agent's report is stored and pushed in one step, since the rows and
  the samples of one report are compared only with each other. The views (status list,
  instance list, initialization, on- and offline, agents, histories, uptime) are
  operators over this state. The gateways may report the same agent, as when it moves.
* **`InstallServing`** - install codes, the signed script and the package. Files are a
  version and whether they are written out, with their modification time; all versions
  have one length. Looking at a file, reading it and filling a cache are separate
  steps where the code holds no lock over them. A host goes through the requests of
  the install command and of `install.sh`. It fails where what it was served does not
  fit together, and is refused where a request is not answered: by the limiter, whose
  bucket other hosts behind one address share (here a choice, in `RateLimit` a state),
  for its token or its admin's, for a store call that fails, an unreadable file or a
  broken connection.
* **`AgentOverview`** - the overview beside enrolments and status reports: the load of
  the store, the count a moment later, the merge with the list in memory later still,
  six (here `Cards`) newest cards, the online window. An enrolment's `requested_at` is
  the agent's own text: where it does not parse, the stored row and the list take a
  time each (`RegisteredAt`). A report may be stored and answered with an error all the
  same. A load that fails counts nobody and leaves the cards of the list in memory; the
  total and the longest lag, which are read off the loaded rows, are left out.
* **`PipelineView`** - the topology: five queries in order over a database whose series
  change in between, then groups, sums and summary as operators. A curve is a function
  from times to rates.
* **`GatewayViews`** - the last three side by side. They share no state, so each
  behaviour is about one of them; nothing is lost by that, and they are checked by one
  run.
* **`WatermarkProofs`** (the tracker and the channel), **`AdminStoreProofs`**,
  **`RateLimitProofs`**, **`AgentEnrollmentProofs`**, **`GatewayEnrollmentProofs`**,
  **`PgStoreProofs`**, **`FleetStatusProofs`**, **`GatewayViewsProofs`** (the installs,
  the overview and the topology) - the theorems.
* **`MC*`** - instances for TLC.

Left out of these modules on purpose: logging, wording and JSON shape; tenants and
environments, which are copied along; the limiter in the enrolment handlers (it only
refuses); the non-unix build, where the file lock is empty.
`revoke_enrollment_token` is in the store trait, but no route calls it.
`enrollment_tokens` is a hash map, so `find` may meet any of several rows with one
hash; `Register` chooses among them. `doc/design/center/gateway-enrollment-flow.md:194`
lists a rotation endpoint the router does not have.

## 3. Runs

Passing runs (the instance, and why it is large enough):

| Run | Checks | Instance |
|---|---|---|
| `watermark` | no number accepted and lost, nothing below the watermark unaccounted, watermark monotone, refinement of `StreamContract`, `settle` ends | numbers 0..6, `Lag` 2, start 1, `u64::MAX` 7: two gaps, three ranges and a window between them fit, and the end of the range of numbers is reached; calls are unlimited |
| `quality_channel` | `accepted_count` and `lost_count` exact; the ledger identity for reports made once and in time | numbers 0..4, `Lag` 1, 3 reports |
| `admin_store` | file never torn, confirmed update never lost, refinement of `AtomicStore`, calls end | 3 calls, two in one process and one in another: contention for either lock; failures, crashes and power losses unlimited |
| `agent_enrollment` | install code used at most `max_uses` times, its count exact, abandoned reservation usable again, credential renewed once and valid until renewed, refinement of `EnrollmentContract` | 2 requests, 2 codes, 2 agents, 3 credentials, 1 failing store call; crashes and lost answers unlimited |
| `gateway_enrollment` | bootstrap token provisions once, stored RegistToken registers once, lifecycle follows the tokens, each transition recorded once, replaced credential stays invalid, refinement of `OnboardingContract` | 1 gateway (seeded or created), 2 identities, 2 requests, 2 tokens, 3 credentials, 1 failing call. Gateways share no state beyond the store, so one is enough |
| `rate_limit` | map bounded, overshoot bounded by the requests in flight, block respected until it or the window ends | 2 clients, 2 requests, limit 2, window 2, block 2, 1 bucket, clock to 6: a window, a block and another window |
| `pg_store` | two uses of a token, and two recorded first reports, only by overlapping calls; what was confirmed is not hidden by an earlier call; a listed release is whole unless its publication failed or was mixed up; running is for good | 1 gateway, 2 agents, 3 calls of any kind at once, 1 failing statement, 2 seconds, both artifact stores. Each property relates two calls; the third makes what they meet |
| `fleet_status` | the views agree with each other; an older report is shown only if it was overtaken; an agent is listed once; histories and status do not contradict | a seeded and an enrolling gateway, 1 agent they both report, 2 attempts, 2 reports, 2 copies in flight; losses unlimited. A retry that overtakes, and a report of the other gateway, fit |
| `gateway_views` | cache entries are the content of the file their stamp is of; what an install was served fits together unless something changed under it; cards are of enrolled agents, one of each; an overview counts an agent answered in time as online; rows, groups and sums add up | 2 hosts, 2 replaced files; 2 agents, 2 cards, window 1, clock to 2, one agent with 2 reports in flight: a report can overtake another by more than the window, and a later one make good for it (agents are counted one by one); the times of a row and of the list differ either way; 5 series in 3 levels with a loss group, 4 curves, 2 changes of the database |

Every property is broken by a mutant of the code that the run detects. That an agent
is registered once (`RegisteredOnce`) and that the lifecycle never moves back
(`LifecycleForward`) follow from the two contracts, so no run checks them separately:
`Register` asks for an agent without a credential and never takes one away, and no
stage is entered from a later one. Both are theorems all the same.

The ledger run needs the premise `ReportsDisjoint`: a repeated or late report is
counted although the tracker ignores it. `FailsOnlyIfDisturbed` speaks of
installs whose requests were all answered: the limiter, a failing store or an
unreadable file may end any install (`RateLimited`, `TokenRefused`, `CodeRefused`,
`RequestBreaks`). It needs two replacements of a file to be a tick of the file
system's clock apart; the truncation and the writing of one replacement need not be.
`OnlineCounted` speaks of overviews that could load the store (`unwrap_or_default`
counts nobody otherwise). A report that is stored after one with a later time does
hide an agent that was answered; the property says that nothing else does: only
reports that were under way when the newest answered one was stored, and no longer
than until the next one is answered. The gateway's clock does not go back. Symmetry is used only in runs without liveness
properties. Type invariants are not among the runs' properties: they are proved
(section 4), those of the tracker, both stores, the limiter, both enrolments, the
fleet, the installs, the overview and the topology.

Deadlock is checked except where behaviours end by the bounds on calls or reports
(`pg_store`, `fleet_status`).

Runs that show a disagreement between the code and what the repository says of it:

| Run | Shows |
|---|---|
| `pg_token_twice` | over PostgreSQL two registrations that present one token together both succeed: `SELECT ... FOR UPDATE` runs outside a transaction; the comment on the token says it cannot be replayed |
| `identity_loss` | an agent whose enrolment answer was lost is refused as a duplicate; the protocol document says it must enrol again |
| `gateway_renewal` | two renewals that present one credential both succeed, since the center overwrites where the gateway compares and swaps; the comment says atomic and the same |

Four smaller divergences are visible in the models and have no run of their own:
`settle` jumps a dropped range and leaves numbers of it in `observed`
(`WatermarkTracker.SettleRange`), where the comment at `watermark.rs:35` says there are
none; `on_dropped_range` counts a repeated report (`QualityChannel.OnDroppedRange`),
where `reconcile.rs:28` states an identity; two provisionings with one identity store
one RegistToken twice (`GatewayEnrollment.CreateEnrollmentToken`), where
`gateway_ops.rs:397` says it is consumed once; a block ends with the window of the
first failure (`RateLimit.Outdated`), where the head comment of `rate_limit.rs` says
60 s.

**Fairness.** `watermark`: weak fairness of the settle step, since the loop has no
blocking step and nothing else runs in it. `admin_store`: weak fairness of every step
of a call that has started other than a failure - a thread that holds the locks goes on, and one that waits
for a lock nobody else takes any more gets it; no call is made to start. A crash ends
a call and releases its locks, so fairness of the holder is not assumed beyond its
life. The other modules state no liveness: the services retry nothing, the
simulator gives up after its attempts, and no request is made to come.

## 4. Proofs

Every safety property the passing runs check is proved for all values of the
constants; so are the type invariants and the refinements of `StreamContract`,
`AtomicStore`, `EnrollmentContract` and `OnboardingContract`. Each proof is by an
inductive invariant.

The constants are restricted only by the named `ASSUME`s, all of which the runs
evaluate. Most say that a limit of the code is a positive number. Two ask for finite
sets where the code counts: the requests at the same time (`HandlersAssumption`) and
the gateways of a center (`FleetSeeds`). `PipelineConstants` asks for what is summed to
be finite: finitely many series of finitely many points, at times after 1970, whose
values are natural numbers.

* **`WatermarkProofs`** (any `Lag`, any width, any numbers below `u64::MAX`, any
  start). The properties are not inductive: that an accepted number is never lost needs
  to know that it stays in `observed` until the watermark has passed it. The invariant
  adds: high and range ends are numbers that arrived, so no increment wraps
  (`Reachable`); `observed` holds exactly the accepted numbers ahead of the watermark
  (`SeenInWindow`); lost numbers are behind it (`LostSettled`); pending ranges cover
  exactly the filtered numbers ahead of it (`FilteredPending`). The lemmas show that
  `next_back()` finds the only candidate and that merging keeps ranges apart. Proved:
  every safety property of the tracker, monotonicity, and that it implements
  `StreamContract`. `SeqAssumption` (no record carries `u64::MAX`) is needed: `end + 1`
  wraps otherwise. Of the channel, which takes the tracker's steps (`ChannelTracks`):
  its counters are the sizes of the sets of numbers they stand for (`CountsStayExact`),
  since each number is counted in the step that gives it its one verdict, and the
  ledger balances (`LedgerBalances`), since reports made once and in time count each
  filtered number once.
* **`AdminStoreProofs`** (any calls and processes). The invariant: whoever is between
  load and save has the file lock (`LockHeld`), works on the latest snapshot
  (`LocalFresh`) and has it in its temporary file (`TempFresh`); updates in the file
  come from calls past the rename and confirmed ones are durable (`Placed`); the
  durable file is never ahead (`DurableOlder`). Proved: never torn, no update lost,
  refinement of `AtomicStore` under crash and power loss.
* **`RateLimitProofs`** (any limits). The invariant: times are in the past
  (`TimesPast`) and a block that runs is in the bucket (`BlockStored`). Proved: a block
  is respected until it or the window ends, for requests that read the clock long
  before they take the lock. For the counts: an eviction makes room before a bucket is
  added (`Capacity`), and the failures recorded for a client and its requests in flight
  are together below the limit plus the number of handlers (`Headroom`), which bounds
  the overshoot.
* **`AgentEnrollmentProofs`** (any codes, agents, requests and lifetimes). The
  invariant relates the count of a code to the agents registered with it, and the
  credentials in flight to the number generated so far: every bearer token is fresh,
  so equal ones have one origin. Proved: a code registers at most `max_uses` agents,
  an agent is registered by one code, a credential is renewed once and is valid until
  its holder renews it. For the refinement of `EnrollmentContract` the invariant says
  what a handler may rely on several store calls after it generated a credential:
  neither the store nor any renewal has it (`Unused`). Each store call is then one
  step of the contract or changes nothing promised: a commit registers and takes the
  use set aside, whoever reserved it; a reservation that expires and is taken over by
  another request keeps the one use aside; a second rollback finds nothing to release;
  an error after the rename is the step itself, one before it a stutter.
* **`GatewayEnrollmentProofs`** (any gateways, identities, concurrent requests and
  failing calls). A handler acts on what it read, or was let do, several store calls
  ago. The invariant says for each step of a request what of that still holds: what is
  stored stays stored (`Placed`); once a provisioning has consumed the bootstrap token
  it is gone, and only that one answers a RegistToken (`Bootstrap`); a token that let a
  registration through is used up (`TokensUsedUp`); a request about to move the
  lifecycle or store a credential has the tokens behind it (`Backed`); the lifecycle has
  reached the state of every event recorded or about to be (`EventsReached`); credentials
  under way are distinct and sent to nobody (`Fresh`). Proved: `LifecycleForward` and all
  properties of the run. For the refinement of `OnboardingContract`, a
  request that issues or stores a credential does it for a gateway that was sent a
  RegistToken or has a credential (`Sanctioned`), although that was checked in an
  earlier call. A restart, and an update of the credential that fails, forget
  credentials under way.
* **`PgStoreProofs`** (any callers, gateways, agents, calls and failing statements). The
  properties compare what a row holds with the order of calls. The core is `Calls`: a
  call in progress ended before no call, so what it writes cannot be hidden by one that
  ended before another began; `Consumed`, `FirstReports`, `Kept` and `Published` say for
  each table what a row shows of the calls that wrote it. Proved: two uses of a token
  and two recorded first reports only by overlapping calls, nothing confirmed is hidden,
  a listed release is whole, a gateway stays initialized.
* **`FleetStatusProofs`** (any finite set of gateways, any agents, attempts, reports and
  copies). A gateway reports only after it has come up (`Onboarded`); a request tells
  of its client's latest report or one that was overtaken (`Latest`); and there is one
  account of what each gateway said at each time, which every copy, row and sample
  follows (`Consistent`: without the account, two samples of one time could not be
  compared). Proved: the four properties of the run.
* **`GatewayViewsProofs`** (any hosts, replaced files, agents, views and reports).
  `ViewsSpec` implies the specification of each part, so each is proved of its own.
  *Installs*: a stamp in flight is that of the file now, or one the file had before and
  will not have again (`SeenOf`, `Before`), and content under a stamp is the content of
  that moment (`Holds`), in the caches (`CachesHold`) and in what a request carries from
  one step to another (`Carried`); an install nothing came across holds the current
  hash, key and certificate (`OnCourse`). Truncation raises the time, and writing either
  raises it or makes the file whole: so stamps never come back. *Overview*: the
  list in memory, and what is on its way there, is of agents the store has, each once
  (`ListedEnrolled`), so a card of the list is a second one only if the load has the
  agent, which the merge excludes; the time of each report under way, and
  `last_seen_at`, is not before the newest answered report unless it was under way then
  (`TimesReckoned`); what an overview loaded was in order then, and its count is that
  of the loaded rows at its own later time (`ViewsInOrder`). *Topology*: each answer was true of the
  database at some moment, and still is if nothing changed since the request began
  (`PipelineInv`). What an undisturbed request shows then comes from one database, and
  `RowsAddUp` is about sums over its series: rows and groups each add up to the series
  of their level, since adding group by group adds each series once (`SeriesByGroup`),
  and a group's rate is at most that of its rows, whose last samples may be of different times. The
  sums are folds over finite sets. Their recursion is solved, and its solution shown
  unique, by induction over the subsets of a set (`SubsetInduction`), which is had from
  the well-foundedness of the strict subset order without a predicate as a parameter.
  The code adds `f64`; the model and the proof add natural numbers, so what is shown is
  that the same samples are added, not that rounding agrees.

Only model-checked: `SettleTerminates` and `CallsEnd`, which are liveness under
fairness and out of TLAPS' reach. The three runs that show a disagreement are
counterexamples and have no theorem.

## 5. Plan

The plan is carried out. What could be added:

1. An abstract specification for the PostgreSQL store (each call takes effect at its
   statements, in the order of those that do not overlap) and one for the limiter, and
   their refinements; today their properties stand on their own.
2. Enrolment over the file store step by step. The enrolment modules take a store call
   as one step, which `StoreImplementsContract` justifies; the composition of the two
   is argued, not proved.

## 6. Not modelled

* `host_metrics.rs`, the metric histories of the overview's cards, the cumulative
  totals of the topology, the memory, CPU and latency series: queries whose results are
  passed on or attached, without state.
* Which gateways an upgrade plan resolves to, and the checks on its input: made before
  the one store call that `PgStore` has. Nothing executes a plan in this repository.
* `poll_control_commands` and `report_action_result` of the gateway, which answer
  without a change of state; the download of published artifacts.
* Parsing and field validation of the configuration; key generation.
* The web consoles, the domain crates, `wist-gateway` and `wist-upgrader`, whose
  functions are empty; the agent role of the simulator.
