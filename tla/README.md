# SDQP verification project

SDQP (Secure Data Query Platform) lets investigators query production data
sources under approval: permissions are requested and approved, queries run
through adapters and workers, results become encrypted snapshots, and
everything is audited. The Rust workspace has an API (`apps/sdqp-api`), a query
worker (`apps/sdqp-worker`), a browser client (`apps/sdqp-frontend`) and
nineteen crates. This directory holds TLA+ models of the parts whose
correctness depends on the order in which things happen, TLC configurations
that check small instances of them, and TLAPS proofs that hold for every
instance.

`PROJECT.json` maps every modelling definition to the lines it translates, and
lists the runs, the mutants that show each property can fail, the findings, the
hazards and the theorems.

## 1. Inventory

State and operations of each component; the last column is what is hard about
it and what makes it correct.

| Component | State | Operations | Hard behaviour, and what must hold |
|---|---|---|---|
| circuit breaker (`datasource-adapter/circuit.rs`) | failure count and `opened_at` per source | `allow`, `record_success`, `record_failure`, `source_snapshot` | read under one mutex and used under another; reopening after the backoff |
| adapter scheduler (`datasource-adapter/scheduler.rs`) | runtimes, tasks and circuit, one mutex each; a semaphore per registration | `execute_query` with retries, `cancel_task`, register, start, stop, `refresh_health` | interleaved critical sections, lost wakeups; permits and gauges add up, retries are bounded and stop on cancellation, every query ends |
| query task registry (`datasource-adapter/task.rs`) | task snapshots and broadcast channels in memory | create, mark, cancel, upsert, subscribe | shared by handlers, runs and a sync loop; outcomes are final |
| durable query queue (`sdqp-api/phase2.rs`, `persistence.rs`) | `query_tasks`, `snapshots`, `snapshot_cache_entries` | submit, cancel, sync loop, audit of outcomes; or run the query itself | two processes on one table, crashes, stale reads; what is reported and audited is what happened |
| query worker (`sdqp-worker`) | a claimed row, a breaker | claim, check, look up, execute, store, complete, fail, retry | racing cancellations and claims, lost updates, leases; one worker per row |
| data source adapters (`datasource-adapter/adapters.rs`) | - | connect, run | I/O |
| approval engine and callbacks (`approval-engine`, `stage7_governance.rs`) | applications, instances, actions, grants | submit, approve, reject, delegate, time out | load-modify-save without versions, partial failure; no grant before every step was approved |
| permission engine (`permission-engine`) | grants and their status | merge, guard, eligibility, lifecycle triggers | several reasons for one suspension, expiry; ended grants stay ended |
| governance runtime (`stage7_governance.rs`) | notification deliveries, lifecycle jobs | tick, deliver with retries | one failing item ends a whole tick; everything due is done in the end |
| HR integration (`sdqp-hr-integration`, `stage7_governance.rs`) | directory, checkpoints, recorded events | poll, webhook, snapshot, LDAP search, route an approver | polls beside webhooks, cycles of managers; no event lost or applied twice |
| audit chain (`sdqp-audit`, `sdqp-api/lib.rs`) | chain, checkpoints, hot store, replica file | append, checkpoint, verify, restore | stores in any order after the lock; the chain verifies |
| audit forwarding and retention | boundaries, bundles, deliveries, deletion records | archive, forward, seal | no transaction; nothing lost before its deadline |
| encryption, KMS and key rotation (`sdqp-encryption`, `phase8.rs`) | snapshots, wrapped keys, rotation states | delete, restore, purge, refresh, rotate | cycles write back copies taken earlier; kept snapshots decrypt, purged ones are gone |
| tenant isolation and project lifecycle | project state | create, change state, delete | effects on grants and snapshots in several statements |
| sessions, MFA and SSO (`system-security/auth`) | pending and active sessions, tokens | log in, verify, refresh, evaluate, step up, log out | clones reach the table in any order; tokens are good for one use |
| SSO and SCIM protocols | users and groups | patch, synchronise | dozens of patches, each of which may fail; disabled accounts have no session |
| credential rotation and transport security (`system-security/transport.rs`) | keys, states | rotate, retry, give up | several statements; accepted and stored secret agree |
| MCP gateway (`sdqp-mcp-gateway`) | agents, token buckets | register, authenticate, charge, run a tool | two buckets under two locks; the limits hold |
| evidence packages, TSA and anchoring (`sdqp-evidence`, `phase5.rs`) | export tasks, packages, tokens | build, anchor, refresh, authorise, download | certificates for events that move to the archive; a completed export is anchored |
| UEBA (`sdqp-ueba`, `stage11_ueba.rs`, `phase6.rs`) | topic, offset, alerts, rules | publish, detect, mitigate; version, replay, tune, calibrate rules | mitigation, record and offset are separate; no detection skipped |
| data classification (`phase9.rs`, `sdqp-data-classification`) | rule versions, policies, runs | detect, review, activate | detections that began before a review |
| data view (`phase4.rs`, `sdqp-data-view`) | - | page, pivot, drill down; templates | masking twice, snapshots deleted meanwhile |
| watermarking, configuration, contracts, core, sqlx and test kit, remaining API surface, frontend | - | - | signal processing, declarations, wiring, clients |

How they interact. The API's handlers run queries in process (through the
scheduler and the registry) or insert rows in `query_tasks` for workers. Workers
and API share nothing but the database; a sync loop in the API copies rows to
its registry and audits outcomes. Approval callbacks and the governance loop
share the approval tables; the grants they produce authorise queries, and HR
events, audit signals, projects and time end them. Results become snapshots,
which the vault encrypts, rotates and purges and the data view shows. Every
handler appends to the audit chain; UEBA reads the audit events and acts on
sessions and grants; evidence packages are built from them.

The compose files start one API process, so the models
have one (which may restart) and any number of workers.

## 2. Modules

An action is one SQL statement, one critical section or one step between two
awaits, with the local computation around it. A statement that may fail has a
`...Fails` action or a disjunct with a fault counter; what the code does with
the error (ignore it, answer 500, end the loop's turn) is part of it. A restart
drops the memory of the process and loads what the code loads. History variables
are commented as such; they record what properties refer to and guard nothing.

| Module | What it models | State and the code's |
|---|---|---|
| `CircuitBreaker` | the breaker's record | `Breaker` is `CircuitFailureRecord`, the clock abstracted to `none`, `recent`, `elapsed`; the count is capped at threshold + 1, beyond which nothing tells values apart |
| `AdapterScheduler` | the scheduler, one action per critical section | `runtime`, `tstate`/`attempts`/`cancelled`, `breaker` are the three maps; `pc` is where `execute_query` stands, `snap` a breaker snapshot it carries, `wait` the `cancelled()` future of the current `select!` (`checked`: flag read, `Notified` not yet created: here a wakeup can be lost); semaphores are numbered per registration |
| `QueryQueue` | the durable queue with workers | `row` is `query_tasks`, `reg` the API's registry, `events` the outcomes in `audit_events`; `submit`, `cancel`, `sync` are the API's activities, `worker` and `breaker` the workers' |
| `QueryTaskPromise` | what the API promises of a task it runs itself | the reported state and the outcomes a task has had |
| `InProcessQuery` | queries in the API process | `registry`, `rows`; `job` is the submission and `run_query_task`, `canceller` the cancel request; `store`, `objects`, `snapshotRows`, `cacheIndex`, `cacheRows` are where results go; `socket` is `task_stream_handler` |
| `ApproverRouting` | `route_approver` as an operator | the first level of the manager chain at which the loop ends, then the targets, then the fallback |
| `ApprovalWorkflow` | applications, instances and grants | `app`, `inst`, `grants`, `actions` are the tables, `registry` the `PermissionRegistry`; `submit`, `call`, `tick` hold the copies loaded and not saved yet; `said` (history) the approvals the engine accepted |
| `GrantLifecycle` | grants after their approval | `grantMem`, `grantRow`: registry and table; `lifecycleJob`: a job that loaded the directory, then the grants, and applies its transitions one by one |
| `ProjectLifecycle` | projects and what their state does to grants | `projectMem`, `projectRow`, `stored`, `storedRow`; `admin`: a request that changes memory, purges, then stores |
| `HrSync` | the four HR providers | `feed`/`entries` the provider, `hrCursor` the checkpoint, `recorded` the events, `hrJob` the calls under way |
| `NotificationDelivery` | the deliveries of the governance tick | `delivery` the table, `noticeLoop` the loop |
| `Sessions` | login, second factor, refresh, step-up, revocation | `pending`/`active` and their rows; `saves` the clones on their way to the table |
| `ScimProvisioning` | patches and synchronisation | `groups`, `groupRow`, `users`, `userRow`; `job`: a request and the patches it still has to apply |
| `CredentialRotation` | rotation of the integration keys | `keyMem`, `keyRow`, `rot`, `rotRow`; `cycle`: a rotation cycle and the copy of the state it carries |
| `McpGateway` | agents and their limits | `minutes`, `hours` the buckets, `call` a call between them |
| `SnapshotVault` | encrypted snapshots | `rec`, `snapRow`, `objects`, `cached`, `cachedRow`, `tombstone`, `keyState`, `keyStateRow`; `request` and `keyCycle` carry copies; a ciphertext is the keys that open it |
| `AuditTrail` | chain, retention, forwarding, deletion evidence | `trail` in memory, `hotEvents`/`hotChecks` the store, `boundaries`, `bundles`, `replica`; `appends`, `retention`, `forwards` what is under way; a hash stands for its event |
| `EvidenceExport` | packages and downloads | `exportTasks`/`exportRows`, `packageRows`, `tokens`/`tokenRows`; `exportCall` the requests; a digest is the value it is computed from |
| `DataPolicies` | classification | `versions`, `policies`, `findings`; `detection` and `review` what is under way |
| `SnapshotView` | pages, pivots, drilldowns | `inMemory`/`inRow` the snapshot, `viewer` a client between its requests; text is a sequence of character codes, because masking decides by character |
| `AnalysisTemplates` | templates | `templates`, `templateRows`, `handler` with its copy |
| `UebaStream` | publication, detection, mitigation | `topic`, `offset`, `detector` the loop; `sess`, `access`, `alertRows` what it changes |
| `UebaRules` | rule versions, replay, tuning, calibration | `ruleRows`, `proposals`, `replayRun`, `calibration`; `editor` the requests |
| `MC...` | constants, symmetry and the parts explored | section 3 |
| `...Proofs` | theorems | section 5 |

`HrSync` and `ProjectLifecycle` extend `GrantLifecycle`, `ScimProvisioning`
extends `Sessions`, `ApprovalWorkflow` extends `ApproverRouting`, and scheduler
and queue extend `CircuitBreaker`: in each pair the two share state.
`InProcessQuery` implements `QueryTaskPromise`, with the registry's state as
`status` (`KeepsPromise`; checked by TLC with its liveness, its safety part
proved).

Left out throughout: wording, log lines, metrics, timestamps that nothing
compares, HTTP routing, statistical baselines (two counting rules stand for
them), and the inside of primitives: encryption, hashing, signatures. Requests
that are refused without a change are steps only where they charge or read
something.

## 3. Runs

A run that explores several instances has a variable `part`, chosen in the
initial state and never changed, that says which; each part bounds the rest of
the state in its MC module. All but the two violations explore their instance
exhaustively. The runs check no deadlock: requests, faults and restarts run out
in a bounded instance, and the system may then really stop.

### Passing runs

| Run | Parts and instance | What it shows |
|---|---|---|
| `scheduler` | `queries`: 3 queries, 1 permit, 2 attempts, threshold 2, two of them cancelled; `admin`: 2 queries with one attempt, 1 administrator, 2 registrations | `TypeOK`, `PermitConservation`: no permit leaks or comes back twice; `GaugesFaithful`: the gauges and outcome counters are what they say; `AttemptsBounded`, `CancelStopsRetries` |
| `queue` | `outcomes`: 2 tasks with one cache key, 2 workers, a fault of each side; `cancels`: 1 task cancelled at any time, 2 workers, a fault of the API, of the audit log and of a worker; `again`: 1 task cancelled twice, 2 workers | `ClaimsExclusive`, `OutcomesReported`, `OutcomeIsFinal` |
| `approval_callbacks` | 1 application, a parallel and a serial step, 2 calls at a time and 3 in all, the tick, 1 fault | `GrantsEarned`, `ClosedMeansDecided` |
| `approval_submissions` | 2 submissions with one merge key, 1 call, an approver who comes and goes, 1 fault, a fair tick | `OnePendingApplication`, `OverdueIsEscalated` |
| `identity` | `sessions`: a password and an SSO login, 2 verifications and 2 refreshes at a time; `accounts`: an account changed during its login; `sync`: 2 requests and a changing provider; `credentials`: 2 keys, the job and an administrator, 2 faults or restarts, 1 where cycles overlap | `SessionsSound`, `DirectoryFollowed`, `SecretsInStep` |
| `governance` | `projects`: 1 grant, 2 project changes, 1 signal, time, the tick and a job; `hr`: each provider, 2 events, 2 calls that overlap | `RegistryMatchesTable`, `EndedStaysEnded`, `EventsAppliedOnce`, `GrantsFollowHr` |
| `records` | `vault`: 2 snapshots, 1 user, the job's and an administrator's cycle, 2 calls, a fault or restart, overlaps about one snapshot; `trail`: 2 writers, 3 events, 2 days, forwarding apart; `evidence`: 2 calls, 1 export, 2 projects | `SnapshotsReadable`, `PurgedIsGone`, `ChainIntact`, `KeptUntilDeadline`, `ExportsSound` |
| `analysis` | `queries` (as below, grants changing), `policies`, `views`, `templates`, `behaviour`, `rules`, `agents` | `ResultsGenuine`, `PoliciesHold`, `ViewsHonest`, `TemplatesHold`, `DetectionsHold`, `RulesSound`, `RateHolds` |
| `queries` | `scheduler`: 2 queries, 1 permit; `queue`: 2 tasks, 1 worker, an API fault; `api`: 2 tasks, 1 websocket, one after the other | under fairness: `QueriesTerminate`, `EveryTaskSettles`, `KeepsPromise` (the refinement of `QueryTaskPromise`), `StreamsTold` |
| `loops` | `credentials`, `notices`, `projects`, `keys` (2 snapshots, 2 days), `behaviour`, each with a fault or restart | under fairness: `RotationSettles`, `DeliveriesSettle`, `ClosedProjectHasNoGrants`, `DueKeysRotated`, `BurstsMitigated` |

Several properties are conjunctions of named parts, so that one run can check
them together; each part carries the comment that states it. Examples:
`GaugesFaithful` is `LocationMatchesState`, `RunningGaugeExact`,
`GaugesNeverOverReport`, `QueueGaugeShortByFailures` and `OutcomesCountedOnce`; `OutcomesReported` is
`RegistryReportsOutcome`, `AuditedMeansLogged` and `CompletedNamesSnapshot`;
`SessionsSound` holds that a login becomes one session, a refresh token is
exchanged once, the table is never ahead of memory and a revoked session stays
revoked; `ChainIntact` that chain, replica and store verify and agree, deletion
evidence encloses its event, and recorded deliveries arrived.

Conditions in the properties are the interleavings and faults under which the
code does not keep them, no more: `~vaultOverlap`, `~overlap`, `~crossed`,
`~disturbed`, `auditClean` and the like are history variables that become
true when two writers of the same rows really met or a statement really failed,
and the runs reach states on both sides of each.

### Bounds

`Max...` constants bound what could go on for ever: requests, faults, restarts,
versions, days, events. They are guards of the actions that count them. Two
workers, callbacks, cycles or requests are what it takes for two to meet on a
row; a third adds another of the same and is left to the proofs, which have no
bounds. Two attempts show a retry and its limit; three queries on one permit a
queue with a successor. One fault of each kind meets every statement, and so
does one restart; where a part allows two in all, a restart meets what a fault
left. `MaxRegistrations = 2` lets the old and the new semaphore meet. Two days
cross the archiving threshold and a retention deadline. Two data keys' ages
(`DekDays = 1`, `KekDays = 2`) let a cycle find either due. In `loops`,
`BatchLimit = 2` holds every snapshot of the instance (section 4 on smaller
ones); in `records` the batch is smaller than the instance. A task is submitted
once and cancelled up to twice: a second cancellation is refused unless the sync
loop has put back into the registry what the row still said, and the part
`again` has both requests in any order.

Symmetry is used for interchangeable actors (tasks, calls, writers, requests;
two cancellations of one task)
in runs of safety and action properties only.

### Fairness

- `AdapterScheduler`: tokio polls ready futures (weak fairness of a query's own
  steps), an attempt ends by its timeout, and tokio's semaphore is first in,
  first out (strong fairness of `AcquirePermit`).
- `QueryQueue`: handlers, sync loop and polling loops run on.
- `InProcessQuery`: spawned jobs, cancel requests and open streams go on.
- `ApprovalWorkflow`, `GrantLifecycle`, `ProjectLifecycle`,
  `NotificationDelivery`: `spawn_governance_runtime` ticks again whatever a tick
  returned, and requests that were begun go on; back-offs pass.
- `CredentialRotation`, `SnapshotVault`, `UebaStream`: the runtime jobs start
  again and again, and what was begun goes on.

Nothing is assumed of users, administrators, faults, restarts, providers or the
calendar. In `queries` and `loops` the fairness is the disjunction over the
parts of `<>[](part = x)` with the fairness of the one explored.

## 4. What the code does otherwise

Two runs are expected to be violated; `PROJECT.json` quotes the lines:

| Run | Property | The code |
|---|---|---|
| `queue_cancel_lost` | `AcceptedCancelHolds` | may answer that a task is cancelled after the sync loop overwrote the cancellation, and store the older state |
| `cache_isolation` | `CacheRespectsGrants` | keys the cache by the first of the merged grants, so that a result selected under a grant that has ended is served again |

The modules state further things that the repository says and the code does
not do. They are not among the runs; each can be checked by naming it in a cfg:

| Property | Where the code differs |
|---|---|
| `QueryQueue!LeaseExpires` | no statement reads `lease_expires_at` (worker `persistence.rs:332`), a row whose worker died stays running |
| `QueryQueue!PermissionFailureNotRetried` | the worker retries every failure (worker `lib.rs:538`; design v1.2:185) |
| `AdapterScheduler!FailuresOpenCircuit` | `opened_at` is stamped once: after the first back-off failures leave the circuit closed (`circuit.rs:67`; design v1.2:183) |
| `AuditTrail!SealedByOwnEvent` | a deletion record is sealed with the checkpoint of whatever event came last |
| `AuditTrail!VerifiesFromGenesis` | after the first archiving the chain in memory starts at the boundary, and `verify_chain` in the sealing of a deletion fails |
| `EvidenceExport!RefreshCompletes` | a refresh that finds the anchor confirmed leaves the task as it is when the package verifies only with it (`phase5.rs:917-920`; `uat_stage10_evidence_export.rs:441`) |
| `DataPolicies!RefusedActivationHarmless` | activating a retired version retires the active one and is then answered "not found" (`persistence.rs:2026-2079`, `phase9.rs:348-351`) |
| `UebaRules!TuningTowardsTarget` | a threshold may be lowered although there were more hits than the target (`phase6.rs:1873-1888`) |
| `McpGateway!RetryAfterSuffices` | the delay suggested to a refused agent may be too short (`rate_limit.rs:42`, `:106-130`) |

Other behaviour that the models show and a maintainer should know:

- Queries. A second cancellation of a task, accepted because the sync loop put
  the old state back over the first, may read that state in `persist_task_state`
  and write Pending over the Cancelled row (`phase2.rs:901-925`, `:1844`), so that
  the task runs: the exception `Rewritten` of `OutcomeIsFinal`. `mark_task_failed`
  takes a task that ran off `queued_tasks` a second time (`scheduler.rs:890`): with
  others waiting the gauge then shows one too few for each such failure, and no
  more than that (`QueueGaugeShortByFailures`). `claim_next_query_task` orders by ascending priority, so `Low` (25)
  goes before `Critical` (100) (worker `persistence.rs:337`). A failed
  `save_snapshot` of the worker is ignored, and the task completes with an id
  that has no row. `audit_terminal_task_completions` marks a row audited although
  its event could not be persisted. `register_adapter` gives an adapter a second
  semaphore while the first is in use. A task that completes late sets a
  stopped adapter back to `Healthy`.
- Approvals. A save of a stale copy may reopen an instance that was approved or
  rejected, so that a denied application can still be granted. A callback that
  fails after `save_permission_grant` leaves an active grant beside an open
  instance. Anybody with an approver's role may reject. A parallel step that was
  delegated or escalated may be satisfied by one person. A submission whose
  application could not be saved leaves an instance that blocks its merge key
  and never times out; one whose notifications could not be queued leaves an
  application the registry does not know. Rerouting an approver who is not in
  the directory, which the system fallback may be, ends the tick:
  `OverdueIsEscalated` is checked with a directory that knows them all.
- Grants. A suspended grant does not record why: `ProjectResumed` and
  `AuditCleared` reactivate one that the other reason still holds.
- Keys. A restart in the middle of a credential's rotation leaves the stored
  status `Rotating`, which is never due again: `RotationSettles` excludes it.
  With a batch smaller than what stays due, the last snapshots are never
  reached (`phase8.rs:646` takes them in a fixed order): `DueKeysRotated` is
  checked with a batch that holds them all. After a switch of the KMS provider
  what Vault wrapped cannot be read.
  A cycle that loaded its rows before a purge brings the purged record back to
  memory, and may save it (`phase8.rs:925`): but for the object, `PurgedIsGone`
  promises a purge only without overlaps.
- HR. A webhook moves the cursor to its own event, past what was not polled yet
  (`stage7_governance.rs:1887`): what lies between is lost unless it is posted too.
  An event is recorded before it is applied; if its user is unknown, or the upsert
  or the lifecycle job then fails, it is never applied, because a redelivery is
  skipped. `EventsAppliedOnce` counts recorded events.
- Sessions. A row a revocation was not written to is read back by a restart. A
  login between its factors when its account is disabled becomes a session.
- Evidence. Two downloads that both find a token unconsumed are both served.
- Analysis. A detection overwrites a review made since it read the policies; two
  activations of a rule, or one that fails halfway, leave two active versions or
  none; two handlers of one template leave row and memory apart.

Where a hazard of `PROJECT.json` has a note, the code does go wrong there, or the
run does not reach it, and the note says what the property still promises. Three
have no property: the lease of a dead worker, the login of a disabled account and
the overtaken review. Beyond those listed: `stop_adapter` sets Stopping, cancels,
then sets Stopped, while a task may complete in between (`scheduler.rs:419`).

## 5. Proofs

TLC checks small instances; the theorems hold for every value of the constants:
any sets of tasks, sources, workers, requests, cycles, providers and directories,
any bounds of faults and restarts. Each proof has the same shape: an inductive
invariant, checked by TLC first, is shown to hold initially and to be preserved
by every action, and the properties follow from it. The theorems in
`PROJECT.json` that name no property state those invariants.

| Module | Theorems |
|---|---|
| `AdapterSchedulerProofs` | `TypeCorrect`, `LocationCorrect`, `PermitsConserved`, `AttemptsAreBounded`, `CancellationStopsRetries`, `GaugesAreFaithful` |
| `QueryQueueProofs` | `InvariantHolds`, `ClaimsExclusiveHolds`, `OutcomesReportedHolds`, `OutcomesAreFinal` of `Spec`; `PoliciesInvHolds`, `PoliciesHoldAlways` of `PoliciesSpec`; `RulesInvHolds`, `RulesSoundHolds` of `RulesSpec` |
| `ApprovalWorkflowProofs` | `InvariantHolds`, `GrantsEarnedHolds`, `ClosedMeansDecidedHolds`, `OnePendingHolds` |
| `InProcessQueryProofs` | `InvariantHolds`, `ResultsGenuineHolds`, `RegistryKeepsPromise` of `InProcSpec`; `TemplatesInvHolds`, `TemplatesHoldAlways` of `TemplatesSpec`; `UebaInvHolds`, `DetectionsHoldAlways` of `UebaSpec`; `ViewInvHolds`, `ViewsHonestHolds` of `ViewSpec` |
| `IdentityProofs` | `IdentityInvHolds`, `SessionsSoundHolds`, `DirectoryFollowedHolds` of `IdentitySpec`; `RotationInvHolds`, `SecretsInStepHolds` of `RotationSpec`; `GatewayInvHolds`, `RateHoldsAlways` of `McpSpec` |
| `SnapshotVaultProofs` | `InvariantHolds`, `SnapshotsReadableHolds`, `PurgedIsGoneHolds` of `VaultSpec`; `ExportInvHolds`, `ExportsSoundHolds` of `ExportSpec` |
| `GovernanceProofs` | `InvHolds`, `RegistryMatchesTableHolds`, `EndedStaysEndedHolds` of `GovernanceSpec`; `HrInvHolds`, `EventsAppliedOnceHolds`, `HrKeepsEnded`, `HrSearchInvHolds`, `DeparturesFoundHolds`, `HrFollowInvHolds`, `GrantsFollowHrHolds` of `HrSpec` |
| `AuditTrailProofs` | `AuditInvHolds`, `KeptUntilDeadlineHolds`, `IntactInvHolds`, `ChainIntactHolds` |

The arguments:

- **Scheduler.** `LocationMatchesState` is inductive with the types: a cancelled
  task is on its way to `drop(permit)` exactly when the tasks map says
  `Running`. With it, each action moves at most one task in or out of
  `Holders`, and `PermitConservation` is a matter of cardinalities.
  `AttemptsBounded` and `CancelStopsRetries` need `RetryInv`: a task in a backoff
  has attempts left, and one that began an attempt after its cancellation
  finds the flag set when it next polls the `cancelled()` future. The gauges
  need `SourcesKnown`, that only a registered source has tasks past admission,
  and are shown per source: an action changes the place of one task and the
  gauges of its source only.
- **Queue.** `QueueInv` says that no copy of a row (registry, the loop's rows, a
  cancel handler's entry) is ahead of the row, what a worker at each step knows
  of the row it claimed, and what the audit loop is about to append. Exclusive
  claims rest on a worker being busy exactly with a row that says running,
  which fails only for cancelled tasks, hence `Uncancelled`. A worker's updates ask
  for `running`; and a row says Cancelled only once a request to cancel the task has
  written it (`Placed`), so that a request that changes it is another one (`Rewritten`).
- **Approvals.** `WorkflowInv` says of every copy in flight, not only of the
  table, that its approvals were given (`Genuine`), because a save may put any
  of them back; that a call past its first statement has put its decision on
  record (`Decided`); and that instances of one merge key exclude each other
  (`KeysUnique`), which is where the unique index comes in. Lemmas say what
  routing and the engine's operations return.
- **Queries in the API process.** `InProcInv` says that every record of a task,
  in memory, stored or about to be stored, tells an outcome the task had
  (`RecordsGenuine`); where the job stands fixes what stores and registry hold
  (`JobOrdered`); cache entries are backed by store, objects and rows
  (`StoresBacked`); and no websocket queue overflows (`QueuesShort`). For the
  refinement, each action is shown to be a step of `QueryTaskPromise` or a
  stutter under the mapping of `Promise`.
- **Classification.** A detection reads which fields are confirmed and writes
  policies statements later. `DetectionFits` says in between that a field it is
  about to classify was not confirmed when it read them, or is in `overtaken`
  because it was reviewed since; so only such a detection takes a review away
  (`ReviewsHold`). Activations are READ COMMITTED transactions of two
  statements; as long as none overlapped another, the one under way knows every
  active version (`ActivationsApart`), and version numbers have no gaps, whoever
  inserts them (`VersionsTyped`). A run that is marked confirmed has a field that
  justifies it (`Justifies`), and its own detection does not come back to that
  field. That patterns in any number and order leave a policy sensitive and
  masked (`EscalationHolds`) is a statement about a recursive function: it is
  proved by taking the least prefix of the patterns for which it fails.
- **Saved analyses.** A handler copies a template, saves the copy and then puts
  it into memory. `TemplatesHold` speaks of templates nobody is busy with;
  `TemplatesInv` says in between, of each that no two handlers changed at a time:
  the row is as public as its owner asked (`RowAsAsked`, because the owner's
  wish is fulfilled by the save), memory and row agree until its one handler has
  saved, and from then on what it saved is all that memory lacks (`AloneFits`).
  A restart loads the rows and forgets handlers, so either way they agree.
- **Behaviour.** `ActedUpon` says how far the loop has come with the alerts it
  holds: their sessions are ended, then their grants signalled, and only then
  are they stored, so that none is on record too early; only a restart brings a
  session back (`RowBehind`: its row is never stricter than memory). For the
  bursts, `BurstsCovered` says of the saved offset that the alerts on record
  count every burst before it that can be read, and of the place the loop has
  read to, that these and the alerts it is still to store do, for the tenants it is
  done with. This stays true while others record and publish because an event is
  kept in ClickHouse when it is recorded or never, so what can be read before
  an offset does not grow (`Mine`); and an alert that is already on record by
  its signature has the count of the one it stands for.
- **Views.** Every page is computed anew from what the viewer may see at that
  moment. `ShownFits` says that what was shown so far is the sorted, masked snapshot
  up to the cursor (`FirstShown`), as long as grant and policies stay. That a
  page's order and a bucket's key survive a second masking is the lemma that
  masking a masked text changes nothing, case by case of the strategy, from the
  places of the kept characters (`Starred`). A text that begins with `@` is the
  exception, for it has nothing before it to keep: masked again, it gets longer.
  Text is one code per character; that `mask_value` slices a phone number by bytes
  is seen of single-byte text only.
- **Rules.** A request carries versions across statements that others may change
  meanwhile. What identifies a version never changes once it is stored, so that
  each copy stays one of a stored version (`KnownRule`), and a version that has an
  id but is not stored yet shares it with nobody (`NewRule`, `EditorsFit`): applied
  proposals rest on that. That a rule has one active version holds only as long as
  no two requests met and none failed halfway; `AloneInOrder` says what the one
  request under way then knows: all versions, when it chooses a number, and every
  active one, when it retires them. Between the insert of an active version and
  the end of its activation there are two (`BeingActivated`). That no more than
  half of the users reach a calibrated threshold is a counting argument:
  `RankedFound` says that what stands at an index of the sorted counts has more
  than that many not above it.
- **Sessions.** Memory, table and the clones on their way to the table differ
  while requests overlap. `IdentityInv` says that no copy of a session is ahead
  of memory or belongs to another session (`CopiesFollow`), that a login which
  became a session is left in no stage where it could be verified again, in
  memory or in the rows a restart reads back (`LoginsSpent`), and that a token
  that is still good was exchanged by earlier processes only
  (`ExchangesCounted`). `RevokedStaysRevoked` is a conjunct of `SessionsSound`;
  it follows because no step but a restart revives a session (`SessionsGoOn`).
- **Directory.** A synchronisation applies, across awaits, a plan it made
  earlier. `SyncsOnCourse` says that until somebody else touches the directory,
  whatever still differs from the provider has its patch in the plan;
  `LateKnown`, that a login that may still become a session belongs to an account
  in use or was under way when the account ended.
- **Credentials.** While a rotation is under way, key, row, state and its row
  differ in every combination. `RotationInv` says for each step of the one cycle
  how far each may be apart, and that the stored state says Rotating before the
  stored secret changes, so that a restart does not take the old state for the
  new secret. The theorem holds as long as no two cycles met, and for a state
  that was not stored and a restart after it together the version may be the
  one before; both conditions are in `KeyMatchesState`.
- **Agents.** Between the two locks of the limiter a call has spent a token of the
  minute bucket and is not allowed yet. `LedgerFits` counts those calls
  (`Halfway`): what a bucket let through and what it holds is at most a full
  bucket and the refill since it was created. Registering an agent anew does not
  matter, because a bucket keeps the limits it was created with. For the wait
  after a refusal, `ToldFits` says that nobody has charged the line since, except
  calls still between the locks, and `WaitFits` that a call which waited alone was
  let through by the minute bucket, or waited less than that bucket takes to
  fill a token. The theorem is about the time both take, for any limits, 0
  included, not the delay the
  limiter suggests: `RetryAfterSuffices` is violated.
- **Vault.** Readability is not inductive by itself: requests and cycles write
  back copies taken earlier, so the copies must be readable too (`AllWhole`)
  and a cycle must still have a copy of every snapshot it will look at
  (`CycleFits`). That part holds under every overlap, failure and restart. For
  the purge, memory and row differ while one is being saved; `RowsFollow` says
  by whom, and `PurgedLeavesNothing` what each step of a purge has removed.
  `TombstonesTrue` needs none of this: nothing puts an object back, and a request
  is past its deletion before it writes the tombstone.
- **Evidence.** Every await of a handler ends a step, so a version of an export
  task lives in memory, in its row and in the requests that will write it back
  (`Versions`), in any combination and age; a download token likewise (`Copies`).
  `ExportInv` says of each version that it is consistent in itself, that it says
  completed only with a confirmed anchor and after the task was certified
  (`GoodVersion`), and that all name one user and project (`OneOwner`); of each
  copy of a token, that its task was certified and has its user and project
  (`CopyFits`). A new version keeps the owner because it is made from another, a
  first one because nobody else knows of a task whose package is being certified
  (`CertifyFits`), and for a token because its row is inserted before it is
  answered (`SaveTokenFits`). So nothing has to be known of the order in which
  versions are written, and a restart, which forgets memory and requests, only
  removes some.
- **Grants.** `EndedStaysEnded` needs no more than that every transition a job
  carries starts from Active or Suspended (`GrantsInv`): both updates are
  compare-and-set. `RegistryMatchesTable` speaks only of the moment when all is
  done; `InStep` says before it, for each job, request and activation, which
  grants and projects it has changed in memory and not yet in the tables, so
  that whatever differs is on the list of somebody under way. `InStep` needs
  that no two writers met and no statement failed (`Calm`), as the property does.
- **HR.** A call saves the cursor that it read at its start or computed from its
  page, possibly after another has moved it: `CursorsCover` says of both what it
  says of the stored cursor, that every event up to it is recorded or among the
  items the call still has to take, or that a webhook's event came after it
  (`Taken`). That an event is applied at most once rests
  on `insert_hr_event_if_new`. The maximum of stamps and ids that the model takes
  with `Max` is in their set by `MaxOfBounded`, which uses the library's
  well-founded induction only for the minimum of a set of naturals.
- **What HR says.** `DeparturesFound` and `GrantsFollowEvents` speak of rest.
  `HrSearchInv` says before it that no watermark, wherever it stands (the
  stored row, what a call has read, what it will save), is later than the stamp of
  an entry not read since it changed (`InReach`): that is why the search asks
  for `>=`, two changes may share a stamp. While no two writers met and nothing
  failed, a call's items are what the entries say until they change (`CallRead`),
  and whoever left is stored or among the items (`LeaversFound`). `HrFollowInv`
  adds, of each grant that contradicts the row an event wrote, that the job behind
  the event is about to load it with that row or has it among its transitions
  (`HandledBy`), and that a callback under way has checked the stored row
  (`CallbacksFresh`). `HrFollowInvHolds` and `GrantsFollowHrHolds` assume that the
  eligibility rule has `requireActive`, the default of
  `require_active_hr_record` (`lifecycle.rs:66`). A rule may switch it off, and
  then an approval after the departure makes the grant active until the
  governance loop revokes it: TLC finds that in 17 states.
  `DeparturesFoundHolds` has no such hypothesis.
- **Audit trail.** `KeptUntilDeadline` speaks of rows and files only. `AuditInv`
  adds what makes the deletion of rows safe: from the insert of a bundle to the
  deletion the bundle's file is there (`Bundled`), what the run holds is still the
  plan it began with (`RunOK`, across every statement that may fail), and no
  bundle expires before the last of its events (`BundlesKeep`), because
  `retention_until` is the latest deadline. That latest deadline exists because
  there are four retention categories and a bounded number of days
  (`DeadlineTyped`). Nothing is assumed of the order of appends, of failures or
  of restarts.
- **The chain.** `ChainIntact` speaks of the moments when nothing is under way;
  `IntactInv` says what holds in between. As long as no statement the chain
  needs failed, the trail in memory, the copies that requests will write to the
  replica file and the trail a run hands over are numbered from their anchors on
  (`Chained`, so that links, counts and signatures verify); the plan of a run is
  still where the chain begins, because appends go on its other end and only the
  run archives (`PlanIsPrefix`); and the rows are the chain without what the run
  has deleted and what requests have still to insert (`StoreFollows`). The two
  never meet: what waits is of today, what is deleted is from before today
  (`Today`, `PlanOld`, from `archive_after` of at least one day). A restart brings
  the same chain back because the slots of its events tell the rows apart
  (`LoadUnique`); where they do not, the property excepts it. The one active
  boundary, the evidence of deletions and the deliveries hold whatever fails
  (`BaseInv`).

TLC confirmed each of them as an invariant before it was proved: `InProcInv` on
170 318 states of the run's instance and ten million of the unrestricted
`InProcNext`, `RotationInv` on 301 898 states, `IdentityInv`
on 682 538 of the run's instances and 6.6 million of the unrestricted
`IdentityNext`, `VaultInv` on three instances of
up to 6.9 million, `GovernanceInv` on 1.3 and 3.3 million, `HrInv` on 1.8
million, `HrFollowInv` on 437 838 of the `hr` part of the run and 4.3 million of one with
two employees and two grants (not finished), `AuditInv` on the states of the run and 1.9 million of the
unrestricted `AuditNext`, `GatewayInv` on 1.3 million (three calls at a time, two registrations), `ExportInv` on 4
million (two requests, two users, a fault or a restart; not finished), `TemplatesInv` on 244 734 (two templates, authors and handlers, five calls),
`UebaInv` on 880 683 (six events, a fault or a restart) and 19 million of a wider
instance (not finished), `IntactInv` on 173 281 states of the run and 1.6 million of
the unrestricted `AuditNext` with three events of one kind, `PoliciesInv` on
421 480 (three detections, two reviews, a fault) and 5.9 million of a wider instance
(two fields, two reviewers; not finished), `RulesInv` on 1.9 million (two requests at a time, two
rules, two new versions, a fault) and 5.6 million of a wider instance (not finished). Several first versions were not inductive, and TLC or
a failed proof step showed why; the copies in flight in `AllWhole` and the
stored state in `RowNamesKey` came from there. A
failed proof also showed that `GroupMatches` and `UserMatches` were written as
`CASE`s whose guards overlapped. The order in which `RetireOther` retires two
versions of one number was undefined in the model, as it is in the query it
stands for; now it is either. Two parts of `PoliciesHold` turned out to be true
of the run's instance only and were corrected: a rule may call a field sensitive
and show it (`ShownByRule`), and of three detections the third may replace what the
second wrote over a review before the review marks its run (16 states).

Assumptions are the named `ASSUME`s of the modules: `SchedulerAssumption`,
`ThresholdAssumption`, `QueueAssumption`, `RoutingAssumption`,
`WorkflowAssumption`, `InProcessAssumption`, `SessionsAssumption`,
`ScimAssumption`, `RotationAssumption`, `VaultAssumption`, `GrantAssumption`,
`ProjectAssumption`, `HrAssumption`, `AuditAssumption`, `McpGatewayAssumption`,
`ExportAssumption`, `AnalysisTemplatesAssumption`, `UebaAssumption`,
`DataPoliciesAssumption`, `UebaRulesAssumption`, `SnapshotViewAssumption`. They fix the types of constants; those that say more are
that `Tasks` of the scheduler is finite, `MaxAttempts` of the queue positive,
a flow not empty, a grant denies no field it allows, the number of a
snapshot's first data key is its own, somebody logs in, there is a project, a page has a row, the mark of an empty entry in the evidence tables
is no task, token or record, the events that the detection loop is already
through with at the start are no bursts (there is no alert yet, and the loop
would have stored one), and jobs,
administrators and grants, which name the writers that may meet, are told apart. TLC evaluates them in every run.

Only model-checked. Liveness under fairness (`EveryTaskSettles`,
`QueriesTerminate`, `StreamsTold`, `OverdueIsEscalated`, the `Settles` part of
`KeepsPromise` and the run `loops`) is out of the provers' reach, and so is
induction over data in general, except where a least counterexample does instead.
Every safety property that the passing runs check is proved.

## 6. Not modelled

Query execution inside data sources, SQL rendering, encryption primitives,
hashing, signatures, watermark signal processing, configuration loading, HTTP
routing and parsing, reports, DLP patterns, metrics and the browser client: they
have no interleaved state, or are floating point and text beyond what TLC can
enumerate. The models see them as an outcome: success, transient or fatal
failure, what a text matches. Parts of components that are modelled only partly
are named in `PROJECT.json`: the worker's heartbeat and health server, the
parsing and signatures of OIDC, SAML and SCIM messages, TLS settings and the
integration rate limiter, the read-only tools of the gateway, PDF and ASN.1 of
evidence packages, workbooks and charts of the data view, and the statistical
baselines of UEBA.
