# A verification project for xaccel

TLA+ models of the xaccel game accelerator, model-checked with TLC on small instances,
and theorems about them checked by TLAPS for every value of the constants. Paths below
are relative to the repository.

## 1. The system

A **node** (`node-core`) runs at the edge. It accepts UDP, TCP and QUIC packets from game
clients, turns a signed ticket into a short-lived session, and relays payloads upstream for
the sessions it granted. The **control API** (`control-api`, one binary over MySQL) registers
nodes, publishes their network configuration, collects their reports, queues tasks for them,
synchronises the business catalog, and issues the tickets ("connect intents") clients present
to nodes. A node only ever calls the control API, never the reverse; clients talk to nodes and to
the business endpoints of the control API.

| Component (code) | State it keeps | Operations | Makes it correct |
|---|---|---|---|
| Node tunnel (`session.rs`, `session_store.rs`, `auth.rs`, `listener.rs`) | session table, probe sequence, counters | probe, session.data, raw frame, sweep | relays are authorised and within the ttl; ids unique; every packet ends |
| Route policies (`route_policy.rs`) | none | hash, match | what is matched is what was signed |
| Remote configuration (`control_plane.rs`, `config.rs`, `state.rs`, `quic_tunnel.rs`, `main.rs`; `update_admin_node_config`, `node_config`) | revision and network on both sides, `config.toml`, bound sockets | publish, poll, persist, apply, report, restart | one configuration per revision; converges; tells when a restart is due |
| Remote tasks (`control_plane.rs`; `insert_admin_node_task`, `claim_next_node_task`, `update_node_task_result`) | task rows | create, claim, execute, report | at most once, in order, truthful result |
| Handshake and reports (`node_handshake`, `node_report`) | status, last seen, revision, report rows | persist | late reports do not undo newer state |
| Life cycle and bootstrap (`exchange_bootstrap_token`, `update_admin_node_status`, `persist_node_*`, `install.sh`) | status, tokens, secret | create, exchange, report, order, delete | a token is used once; node and panel agree on the secret; an order stands |
| Scheduler, connect intents (`issue_*`, `select_*candidate`, `insert_connect_intent`) | intents, requests under way | select, sign, insert, answer | nodes in service; one intent per ticket; an answer that explains the choice |
| Catalog (`sync_business_catalog`, `delete_business_catalog`, admin games and rules, seeding) | games, categories, regions, rules | sync, delete, write | all or nothing; idempotent |
| Health alerts (`build_node_health_alert_specs`, `reconcile_node_health_alerts`, `update_health_alert_status`) | alert rows | list, answer | what is wrong is open, what is right is resolved |
| Operation tasks, SSH, deployment, upgrade (`admin_run_ssh_action`, `admin_deploy_node`) | task rows, credentials | store, start, run, finish | every task ends; a verdict is about what was tried |
| Admin accounts and sessions (`update_admin_user`, `verify_admin_session_token`) | account rows, signed tokens | log in, create, update, disable | a role that was taken away lapses in the sessions too; what is locked out stays out until another admin asks for it |
| Settings, business API tokens, migrations, dashboard, probe client, backend mock, installers | - | - | - |

How they interact: the configuration loop, the report loop and the task loop of a node are
independent tokio tasks over one shared `RuntimeState`; packets are handled by a task each; panel
handlers run concurrently and meet only in MySQL transactions. What is hard: handlers that keep a
snapshot across awaits, answers lost or late in both directions, a process that may die between
two steps of a write, and the panel and a node disagreeing about what the other has seen.
`PROJECT.json` lists these places one by one under `hazards`.

## 2. Modules

| Module | Models | Kind |
|---|---|---|
| `NodeSessions` | the tunnel of a node | component |
| `NodeSessionsProofs` | theorems about it, that the counters reconcile among them | proofs |
| `NodeConfigSync` | network configuration from panel to socket and back | component |
| `NodeConfigSyncProofs` | theorems about it | proofs |
| `TaskQueue` | what remote tasks promise an operator | abstract specification |
| `NodeTasks` | the task queue of the panel, the task loop of a node; implements `TaskQueue` | component |
| `NodeTasksProofs` | theorems about it, the refinement among them | proofs |
| `NodeLifecycle` | a node as the panel sees it, from bootstrap to deletion | component |
| `NodeLifecycleProofs` | theorems about it | proofs |
| `RoutePolicy` | what panel, probe and node make of a route policy | pure operators |
| `ConnectIntents` | requests for a node, from selection to ticket; composes `RoutePolicy` | component |
| `ConnectIntentsProofs` | theorems about it and about the policies | proofs |
| `HealthAlerts` | alerts about a node, reconciled by whoever lists them | component |
| `HealthAlertsProofs` | theorems about it | proofs |
| `CatalogStore` | what the business system may rely on | abstract specification |
| `Catalog` | the catalog, statement by statement; implements `CatalogStore` | component |
| `CatalogProofs` | theorems about it, the refinement among them | proofs |
| `Operations` | SSH actions, deployments and credentials of a node | component |
| `Accounts` | accounts of admins and their sessions | component |
| `PanelAdmin` | the two of them together | composition |
| `PanelAdminProofs` | theorems about it | proofs |
| `MC...` | constants of the instances TLC checks | model checking |

Each component module has a section *Slips*: operators no action uses, each a plausible mistake in
a definition further down. Replacing the definition by the slip makes TLC find the property
violated, which shows that the property is about the code and not about the shape of the model
(`mutants` in `PROJECT.json`).

### NodeSessions

State: `sessions` is `SessionStore.udp_sessions`, `sequence` the atomic `probe_sequence`, `stats`
the counters of `RuntimeStats` a handler bumps, `now` and `started_at` what `now_unix()` says and
when the process began. `task[t]` is the local state of a packet handler: the request, the id a
probe drew, the **snapshot** of the session that `record_udp_session_io` returned, and the
resolved destination. `granted` and `sent` are history: what probes registered and what went
upstream.

A handler is cut into actions at its awaits, because the tokio runtime interleaves handlers there:
`ReceiveProbe` (everything up to `build_session_id`), `RegisterSession` (its own step: two worker
threads interleave between drawing a sequence number and inserting); `ReceiveData` (the table
lookup and the token check), `Resolve`/`ResolveFails` (name lookup), `Transmit` (bind, connect,
send), then `RelayReplies`, `RelayTimesOut` or `RelayFails`. `HealthSnapshot` sweeps the table, as every
report and health request does. `Restart` loses everything in memory.

Session ids are `[at, seq]`, the second and the sequence number; transport and peer address only
make them more distinct. A restart is taken to need at least one second (`RestartDelay`;
`RestartSec=3` in the unit). A `systemctl restart`, also the one a remote task schedules, has no such
pause; a stop and a start within one wall-clock second are outside the model, and so is a clock
that is set back.

### NodeConfigSync

State: `panel` is the row in `accel_nodes` (revision and endpoints), `file` is `config.toml`,
`runtime` is `RuntimeState.runtime_config`, `bound` what the sockets are bound to, `poll` the program
counter of `run_config_loop`, `reports` the revisions in reports and handshakes under way. `published`
is history.

`fetch_and_apply_config` is cut where others can act: the request, the answer, the write (two steps,
`fs::write` truncates before it writes), the application in memory. `Stop` may come at any of them;
`Start` is `main` up to the handshake: it reads the file and binds, and fails when it cannot
(`StartFails`, systemd tries again). Two kinds of endpoint are distinguished because the code
treats them differently: the UDP/TCP listener, whose change is deferred and marked
`restart_required`, and the QUIC listener, whose fields are replaced at once.

### TaskQueue and NodeTasks

`TaskQueue` says what an operator may rely on: tasks are handed out in the order they were
created, each is carried out at most once, and "succeeded" or "failed" is said only truthfully. It does
not promise that a task that was handed out is heard of again, because the code does not: the answer
to a claim may be lost after the commit, and the node never repeats a result.

`NodeTasks` has the panel's transactions in two steps (`SelectTask` takes the row lock of
`FOR UPDATE`, `CommitClaim` updates and commits), answers and results that get lost, a node that gives
up waiting and polls again, and restarts. The refinement mapping takes `status` as it is and `done` to
the tasks some boot of the node carried out (`carried_out`, history); requests under way, locks, the
node's program counter and restarts are stutters.

### NodeLifecycle

State: `row` is the status and the secret of `accel_nodes`, `token` is `node_bootstrap_tokens`,
`install[h]` an installer on host `h` with the exchange it asks for, `identity[h]` what the node on
`h` signs with, `change` the status orders under way, `mail` handshakes and reports under way.
`order` and `exchanges` are history.

`exchange_bootstrap_token` is two steps, `LockToken` and `CommitExchange`, because `FOR UPDATE` holds the
rows of the token and the node between them; everything else that touches the row waits (`Locked`). An
order of an admin is two steps because it holds nothing: the row is read before it is written. An
answer may be lost after the commit, installers are run again with any token, a message may come
late, when its node has another status, another secret, or is gone.

### RoutePolicy and ConnectIntents

`RoutePolicy` translates `validate_route_policy` and `representative_route_policy_target` of the panel,
`match_route_policy_target` of the node and `select_session_target` of the probe client. Addresses are
numbers of `Width` bits (32 or 128 in the code, 3 in the runs), so masks and prefixes are computed as the
code computes them; a domain is any other value.

In `ConnectIntents` a handler is cut at its awaits: `Receive`, `Select` (the SQL of
`select_candidate` or `select_per_session_candidate`), `Sign`, `Insert`, `Answer`, and `Abandon` at any of
them. Nodes go in and out of service (`TurnNode`), reports come, late ones too (`StoreReport`), admins turn
rules on and off and the clock advances between any two of these. `seen` is history: the nodes that were
online at some time since the request came.

### HealthAlerts

An alert list is also what keeps the table: `admin_list_health_alerts` reads the nodes (`Read`), upserts an
alert per thing that is wrong (`Upsert`, one statement each) and resolves the rest (`ResolveMissing`). Nothing
holds two listings apart. `Severity` is `build_node_health_alert_specs`, key by key. Reports, handshakes,
orders, SSH checks and answers to alerts happen meanwhile. `Upsert` keeps the order of assignments of
`ON DUPLICATE KEY UPDATE`: MySQL evaluates them from left to right, so `resolved_at` of an alert that comes
back is never cleared.

### CatalogStore and Catalog

`CatalogStore` states syncs and deletes by what holds of the catalog after them. `Catalog` normalises a request
(`normalize_business_sync_catalog`: what is nested inherits game and region, default external ids) and turns it
into a program of transactions and SQL statements, which `Execute` runs one by one; a handler is its program,
the transaction whose `turn` it is and the number of its statements that are `done`. A transaction under way
is the only one (`holder`), which is what the row and gap locks of InnoDB make of transactions over
the same rows. `Fail` comes after any statement: a refused one, a database error, a client that is gone, the
end of the panel. The refinement mapping takes what is committed (`saved`); admins write games in one or two
transactions, so the abstract `WriteGame` and `DropGame` are two steps as well.

### Operations, Accounts and PanelAdmin

`Operations`: a handler records a task (`InsertTask`), runs a command (`EndCommand`, `TimeUp`), waits after an
upgrade for the node (`Reported`, `TimeUp`), finishes the task (`Finish`) and writes the verdict to the credential
(`Mark`). `Drop` ends it anywhere before, and leaves the task running. Credentials are replaced and deleted and
the node is deleted meanwhile. `update_ssh_credential_status` goes by node, so a verdict may land on a
credential that was stored during the command; `during` is the history that says so.

`Accounts`: sessions are signed tokens that `Tick` runs down; nobody looks at the account again while they live, and
`require_admin_super` believes them. A login reads the row (`ReadLogin`) and signs the token from what it read
(`IssueToken`), so a token may be handed out after the account was disabled. An update is the check of the request
(`Ask`), a read (`ReadUser`) and a write of all columns (`WriteUser`). **An update may therefore undo a disabling** that came
between its read and its write (`control-api/src/main.rs:8945-8984`): no property says that a disabled account
stays disabled, because the code does not keep it so. `SessionsLapse` says what happens to an account that does
lose a role for good; `LockedOutStays` says from when on an account cannot come back by such an accident: once no
session, login or update is left that had read it before. `PanelAdmin` interleaves the two modules.

## 3. Runs

| Run | Instance | Shows |
|---|---|---|
| `node_sessions` | 2 handlers, 2 targets, 3 packets, clock 0..3, ttl 2, one restart | `RelayAuthorised`, `RelayAdmittedAlive`, `TtlHonoured`, `CountersReconcile`, `SessionIdFresh` |
| `node_sessions_live` | 2 handlers, 1 target, ttl 1, clock 0..2 | `EveryPacketAnswered`, `SessionsReclaimed` |
| `config_sync` | 2 listener and 2 QUIC endpoints (one unbindable) or none, 3 revisions, any number of restarts | `OneConfigPerRevision`, `ListenAddrTruthful`, `RestartSurfaced`, `RestartTakesEffect` |
| `config_sync_live` | 1 listener endpoint, the same QUIC endpoints, 3 revisions | `ConfigConverges` |
| `config_sync_quic` | as `config_sync`, 2 revisions | **violated**: `EndpointChangeSurfaced` |
| `node_tasks` | 3 tasks, 2 overlapping polls, 2 restarts | `ImplementsQueue`, `HandedOutOnce`, `SucceededMeansRestart`, `TasksHandedOut` |
| `node_lifecycle` | 1 node, 2 tokens, 2 hosts, 1 order at a time, 2 secrets | `TokenUsedOnce`, `SecretsAgree`, `OrdersStand`, `OnlineWasInstalled`, `InstalledNodesShowUp` |
| `connect_intents` | 2 requests at once, 2 nodes, 3 rules, a user with 2 devices; 5 policies over 3-bit addresses | `ScheduledWasOnline`, `SchedulerInfoAgrees`, `IntentsIdentify`, `PickedIsAdmitted`, `PolicyMeansWhatItLists` |
| `connect_intents_order` | 1 request, 2 rules of a region on nodes of the same quality | **violated**: `PriorityDecides` |
| `health_alerts` | 2 listings, 7 alert keys, 2 events, clock 0..2, slow after 0 and stale after 1 | `AlertsConverge` |
| `catalog` | 2 handlers, 4 requests out of 13, 2 games, 2 nodes | `ImplementsStore`, `SyncIdempotent` |
| `panel_admin` | 2 operations, 2 tasks, 2 credentials; 1 account, 2 logins or updates at once, sessions of 1 tick | `VerdictsAreEarned`, `OperationsEnd`, `SessionsLapse` |

Every instance but those of the violated runs also checks its module's `TypeOK`.

Why the bounds are enough. Two handlers are the least that race, and no step looks at more than one
other handler.

- `node_sessions`: three packets per life allow a probe, a second probe or relay, and a late one; the
  clock passes one whole ttl and a second beyond, or a restart. The credentials are one for each case
  the verifier distinguishes: none, bound to a target (and the first to expire), bound to a policy; a
  rejected token only bumps counters.
- `config_sync`: three revisions are a change, another change deferred behind it, and one that takes the
  first back.
- `node_tasks`: three tasks and two polls give a task held up by a lost one and a claim that races with another.
- `node_lifecycle`: two installations, by two hosts with a token each, are an installation and a repetition, at
  once or one after the other, with an order or the deletion of the node in between; ids are never used twice,
  so a second node adds nothing but interleavings.
- `connect_intents`: a rule of the region of the player, one of another region and one of none; a request of
  the catalog against every other kind of request. The policies have every host type (`ipv6` is matched as
  `ipv4`), alone and combined, with prefixes of 0 bits, of all bits and of a base that is not aligned. A clock of two seconds
  puts two requests of a user within one second, and apart. Constraint `Busy`: once the one row there is
  room for is stored and nobody is served, nothing a property speaks of happens any more.
- `health_alerts`: an age is fresh, slow or stale; two events are a change and its reversal, a change and an
  answer, or a listing that fails meanwhile.
- `catalog`: a nested catalog, a flat one with the same route twice, one that contradicts itself, deletions by
  every kind of key, and the admin. Four requests write, overwrite, delete and sync again.
- `panel_admin`: an action or deployment, and a second operation whose credential is another; an account that is
  disabled or given another role while a login and an update have read it, by itself or by another admin; a token
  is good for its last tick and not after it. Constraint
  `Apart`: the halves share no variable, so each is looked at while the other rests.

The theorems of section 5 need none of these bounds.

Handlers (`node_sessions`) and listener endpoints (`config_sync`, `config_sync_quic`) are interchangeable and
declared symmetric; no run with a liveness property declares a symmetry. Deadlock is checked in every run
but `node_lifecycle` and does not occur. In `node_lifecycle` the ids of nodes and tokens run out: once the node
is deleted and nothing is under way, nothing is left to do.

### The findings

`config_sync_quic` states what `api/openapi-node.yaml:167` and `README.md:149-151` say: endpoint
and listener changes are marked `restart_required` until the service restarts. `network_listener_changed`
(`node-core/src/state.rs:377`) looks at the UDP/TCP endpoint only. A revision that changes the QUIC port, or
disables QUIC, is applied in memory, reported as applied with `restart_required = false`, and the QUIC
socket stays as it was at the last start. `RestartSurfaced`, the same claim about the UDP/TCP
endpoint, holds.

`connect_intents_order` states what `README.md:158-160` and `docs/control-api-mysql.md:229` say: freshness and
load decide "when route priority and bandwidth quality are otherwise equal". `select_candidate`
(`control-api/src/main.rs:7519`) orders by freshness before priority, so a rule of a worse priority is
chosen while the node of the better one has not reported for more than 90 seconds.

## 4. Fairness and liveness

- `NodeSessions!Fairness`: weak fairness of each handler's own steps. The tokio runtime polls every
  ready task; a lookup ends (the resolver has its own time-out, the code sets none); `timeout(..)` around
  the upstream wait fires whether or not an answer comes. A reply is *not* fair: upstreams may
  stay silent for ever. Weak fairness of `HealthSnapshot`: the report loop takes one at every tick. A
  node whose control plane is disabled and whose health endpoint nobody asks sweeps only when
  the next session is registered.
- `NodeConfigSync!Fairness`: `Restart=always` (weak fairness of `Start`), a loop that polls at every
  tick, and no failure that strikes every single attempt (strong fairness of the successful steps). Without the
  last nothing could be promised. `ConfigConverges` excludes two states the code cannot leave
  by itself, `Stuck`: a `config.toml` cut short by a crash or a full disk, and a persisted endpoint that
  cannot be bound at the next start, because `main` binds before it starts the control plane. `docs/node-ops-upgrade.md:15`
  and `106-108` describe a node that is `degraded` or goes back to the last configuration when it cannot listen on
  a new one; the code has neither, so a stuck node is not caught by this property but exempt from it.
- `NodeTasks!Fairness`: the loop goes on polling, requests are served or given up, and not every poll
  is refused. Results and answers may all be lost.

- `NodeLifecycle!Fairness`: a node that was installed reports at every tick; a message that is sent again and
  again gets through at last, also past a row that is locked time and again (strong fairness of
  `StoreMessage`); a transaction of the panel ends, and not every one is rolled back. Installers, admins and
  the first exchange are not fair: nobody has to install a node.
- `HealthAlerts!Fairness`: weak fairness of each listing's steps. An open dashboard lists the alerts every 30 seconds
  (`static/admin-dashboard.html:7986`, `9184`). With no dashboard open and nobody asking, alerts are not
  reconciled at all: the code has no other place that does.
- `PanelAdmin!Fairness`: a handler that lives does what it can do by itself, and its timers run out
  (`SSH_ACTION_TIMEOUT_SEC`, `SSH_UPGRADE_REPORT_WAIT_SEC`). Commands, reports and admins are not fair.
  `OperationsEnd` promises nothing of the task of a handler that is gone: such a row stays running, and
  nothing in the panel looks after it. Time goes on (weak fairness of `Tick`); that is all `SessionsLapse` needs, logins
  and updates need not end.
- Nothing ages out a node that falls silent: it keeps the status of its last report. `docs/admin-node-install-flow.md:59` and
  `docs/node-ops-upgrade.md:17` have it go `offline` when its heartbeat times out; no code does that, so `NodeLifecycle` states
  no such property. What the panel does have is the alert `report_stale` (`HealthAlerts`) and a worse place in the
  scheduler's order (`ConnectIntents`).

`ConnectIntents` and `Catalog` state no liveness: a request may be abandoned at any point, and nobody is
promised an answer. Liveness is checked by TLC only; TLAPS has no support for `ENABLED` in this version.

## 5. Theorems

Proved for any handlers, targets, nodes, rules, users and bounds, from the named assumptions of the modules,
which say no more than that constants have their types, `None` is no value, and durations and bounds are natural
numbers (ttl and restart delay at least one second). Policies and catalogs are typed as serde reads them: the lists of
a request are lists (`TypedPolicy`, `CatalogAssumption`), of any length. TLC evaluates each of them in some run.

`NodeSessionsProofs`: `TypeCorrect`, `RelaysAreAuthorised`, `RelaysAreAdmittedAlive`, `SessionsLiveOut`,
`SessionIdsAreFresh`. None of these properties is inductive: `RelayAuthorised` speaks of what has been
sent, so `IInv` follows the authority back. A pending probe holds the identity its verified token implies
(`PendingHonest`), a session in the table has the identity of the probe that registered it
(`SessionsBacked`), a handler past its admission holds a snapshot of such a session, with a request
that session may make, taken while it lived (`RelayingBacked`), and a destination was allowed by that
very snapshot (`DestinationAllowed`). The last two are what makes it harmless that the table changes
during an await. Ids are fresh because an id of this life has a sequence number already passed and
one of an earlier life a second before this one began (`IdsOrdered`, `IdsDistinct`). Each action is a
lemma; `QuietStep` disposes of the many steps that only end a handler, count, or drop expired sessions.

`CountersBalance`, in the same module: between drawing a sequence number and registering the session the
books are short by one for each pending probe (`ProbeBooks`, by the cardinality of a finite set of handlers);
the other counters are bumped together and balance in every state (`RelayBooks`).

`NodeConfigSyncProofs`: `TypeCorrect`, `RevisionsNameConfigs`, `ListenersAreReported`, `ChangesAreSurfaced`,
`RestartsTakeEffect`. The argument is an order: what is reported <= what is applied <= what is in the
file <= what is published (`RevisionsKnown`, `FileAhead`), so no report can raise the column that numbers
revisions, and whatever a restart reads is at least as new as what was applied. `PollShape` ties the
program counter of the loop to the answer it holds.

`NodeTasksProofs`: `TypeCorrect`, `SuccessIsTrue`, `TasksAreHandedOutOnce`, `QueueImplemented`. A running task
not yet heard of is in at most one place: a committed claim, the hands of the node, or a result under
way (`OnePlace`), and each place knows whether the task was carried out (`CommittedFresh`, `NodeKnows`,
`ResultsKnow`). `LockHolds` says that what a transaction read under its row lock is still so when it
commits. From these, each step of `NodeTasks` is a step of `TaskQueue` or a stutter (`NextSim`).

`NodeLifecycleProofs`: `TypeCorrect`, `TokensAreUsedOnce`, `HostsAndPanelAgree`, `LateMessagesKeepOrders`,
`OnlineNodesWereInstalled`. A transaction has the row to itself (`LocksExclude`) and finds at its commit what it
read (`LocksHold`); a used token stays used (`UsedTokens`); the answer under way is about the secret of the row
(`AnswersAgree`), which never changes once it is there (`SecretsExchanged`). `RefersBack` and `TokensCascade` keep what refers
to a node from outliving or preceding its row.

`ConnectIntentsProofs`: `TypeCorrect`, `TicketsNameNodesInService`, `AnswersExplainTheChoice`,
`TicketsHaveTheirOwnIntent`. A request under way has seen whatever is online now (`SeenCovers`), so the node
selected is one it has seen; what is known of a choice when it is selected (`Chosen`) cannot be undone by time passing
or rules going (`ChoicesHold`); and as long as an answer is due, its row is stored and no ticket or
other answer has its id (`InsertedAlone`), which is what the unique key gives.

`PoliciesMeanWhatTheyList` and `PicksAreLetThrough`, in the same module, are about `RoutePolicy`. A masked comparison
of two addresses is one of their leading bits (`MaskedIsPrefix`), for addresses of any width: masks are sums of
powers of two, and `Power` is a recursive function whose values are found by induction (`PowerValues`,
`Halves`). From this a policy admits exactly what its rules list (`AdmitsWhatIsListed`), and what the panel picks, or
the probe derives from it, is among that (`PicksAreAdmitted`, `PicksHaveNames`). A policy under way is one the
panel accepted (`ReceivedIsValid`), which is all the two theorems need of the state. `PortNumbers` may be any numbers; the
run has 0 to 8.

`HealthAlertsProofs`: `TypeCorrect`, whose one clause that is more than a type says that `resolved_at` of a resolved alert
is not NULL, whoever resolved it (it keeps the time of the first resolution when the alert comes back and is
resolved again, see `Upsert`); `ListingsSettle` and `AgreementStays`, the safety half of the liveness property
`AlertsConverge`. Once nothing happens to the node any more, a listing goes on with what holds (`Calm`), and what it
has said already is right and stays right (`Underway`); it ends with a table that agrees, and from then on every
listing leaves the table as it is. What remains for TLC is that a listing does end, which needs fairness.

`CatalogProofs`: `Inductive`, `TypeCorrect`, `SyncsAreIdempotent`, `Implements`. `IInv` says that both copies of the tables are
well formed (ids below `next_id`, a key and a node for every rule, no id and no key twice), and that a transaction under
way has made of `saved` what the statements that are `done` make of it, none of which was refused (`UnderWay`). Such a
transaction therefore commits `Final(saved, statements)`, and each program has a closed form: what a list of
deletes leaves (`DeleteIs`), and, for a sync, the last game, region and rule of each key with what no key names
(`GamesAre`, `RegionsAre`, `RulesAre`; `SyncPuts`). Those of a delete are the abstract operation word for word; those of a
sync satisfy `CatalogStore!PutRows`, and they give idempotence, because a key that is there is there once and is
overwritten by the same last row. `NormalisedLists` shows what normalisation is good for: no rule goes without an external
id, so none is inserted again.

Programs are as long as the requests, so these closed forms are proved by induction over the number of statements. The
library's induction theorems take an operator and cannot be used by the installed provers, so `Least` and `ByInduction`
prove, from the finiteness of an initial segment of the naturals, that a *set* which holds 0 and is closed under
successors is all of `Nat`. What a recursive function computes follows by putting such a set together from the
partial solutions of its equation (`RunSteps`, `FlattenSteps`, `DistinctFacts`, `PowerExists`).

`PanelAdminProofs`: `TypeCorrect`, `VerdictsEarned`, `LockedOutAccountsStay`. The task of a handler is there and says what the
handler is about (`TasksStand`) and no other handler has it (`TasksDistinct`), as long as the node exists;
whoever will mark the credential works with it or was at work when it was stored (`InUseCovered`). `LockedOutAccountsStay`
is the safety half of what happens to a disabled account: `LockedOut` (disabled, no session, no login under way, no
update under way that would write "active") is kept by every step but a request of another admin (`LockedOutKept`).
"Another" is where the sessions matter: without one the account cannot ask for itself.

Only model-checked: the liveness properties (`EveryPacketAnswered`, `SessionsReclaimed`, `ConfigConverges`, `TasksHandedOut`,
`InstalledNodesShowUp`, `AlertsConverge`, `OperationsEnd`, `SessionsLapse`), because TLAPS has no `ENABLED` in this version. Every
invariant and action property of the passing runs is stated by a theorem.

## 6. Not modelled

- **Wire formats and encodings**, byte counts, audit and business API logs, texts. Cryptography is assumed sound: a signature or
  hash that verifies was made from that content; encryption of stored credentials is the identity of a number.
- **Admin dashboard and read-only listings, diagnostics, downloads, API documents**: `SELECT`s and presentation. No
  state of the system changes; the one listing that writes is `HealthAlerts`.
- **Settings and business API tokens**: a setting is one row, last write wins. The token of the business API is a
  cell in memory and a line of an env file that is read at the next start only; there is one hazard in
  it, listed in `PROJECT.json`, but no promise in code or documents to state it against.
- **DDL of the migrations**: statements that are skipped if already done, without a transaction, before any
  request is served. What they write into the catalog is `Catalog!Restart`.
- **Endpoints of nodes** (unique `server_ip` and `server_port`, updates of a node's texts): one statement each, guarded by
  a key of the database. Their effect on a running node is `NodeConfigSync`.
- **Loop counters, metrics and raw reports** of the control plane client: nothing in the system reads them back.
- **Client probe** but for the target it derives, and the **backend mock**: test clients; `NodeSessions` and `ConnectIntents`
  let clients ask for anything in any order.
- **Installers** beyond the bootstrap call, the file and the unit they write: shell around package managers.
- A clock that is set back, and a stop and a start of a node within one second.
- **Details of the data**: keys of the catalog that differ in case only, which the collation of the database takes for
  equal, and gaps in its ids; the row limit of alert listings; a deployment that reads back, after storing its credential, the
  one another request has stored since; addresses with spaces around them and blocks without a prefix. No property
  depends on them.
- **Readers of several tables**: `ImplementsStore` is about committed states. A catalog listing takes one `SELECT` per table,
  outside a transaction, and may show the games of one committed state with the rules of the next.

What a next step would add: an abstract session lease that `NodeSessions` implements; abstract specifications of the
scheduler and of the alert table; the migrations with a panel that dies between two of them.
