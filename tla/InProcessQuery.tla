--------------------------- MODULE InProcessQuery ---------------------------
(***************************************************************************)
(* Queries that run in the API process (no external worker):               *)
(* submit_query_handler, run_query_task, cancel_task_handler and           *)
(* task_stream_handler of apps/sdqp-api/src/phase2.rs over the registry of *)
(* crates/sdqp-datasource-adapter/src/task.rs, the merging of grants in    *)
(* crates/sdqp-permission-engine and the tables query_tasks, snapshots and *)
(* snapshot_cache_entries.  One user, project and data source; a task's    *)
(* snapshot has the task's number.                                         *)
(***************************************************************************)
EXTENDS Integers, Sequences, FiniteSets, FiniteSetsExt

CONSTANTS
  Tasks,             \* tasks that may be submitted
  Granted,           \* the grants, in the order of the permission registry:
                     \* [allowed, denied: sets of fields, select: set of rows,
                     \*  from, until: days]
  Requests,          \* sets of fields a query may ask for
  Sockets,           \* websockets on the task streams
  MaxGrantChanges,   \* bound: grants that begin or cease to be active
  MaxQueryFaults,    \* bound: failed statements and object writes
  MaxQueryRestarts   \* bound: restarts

ASSUME InProcessAssumption ==
  /\ \A g \in DOMAIN Granted : Granted[g].denied \intersect Granted[g].allowed = {}
  /\ MaxGrantChanges \in Nat /\ MaxQueryFaults \in Nat /\ MaxQueryRestarts \in Nat

VARIABLES
  activeGrants,    \* grants the registry holds as active
  registry,        \* QueryTaskRegistry
  rows,            \* query_tasks
  job,             \* the submission of each task, then run_query_task
  canceller,       \* the cancel request of each task
  signalled,       \* tasks the scheduler was asked to cancel
  store,           \* the snapshot store: fields and rows of each snapshot
  objects,         \* snapshots whose ciphertext the object store has
  snapshotRows,    \* stored snapshots
  cacheIndex, cacheRows,   \* cache keys in memory and stored
  socket,          \* task streams
  withDatabase,    \* whether the API has persistence
  grantChanges, queryFaults, queryRestarts,
  history          \* outcomes each task has had; grants when it was prepared

queryVars == <<activeGrants, registry, rows, job, canceller, signalled, store, objects,
               snapshotRows, cacheIndex, cacheRows, socket, withDatabase, grantChanges,
               queryFaults, queryRestarts, history>>

memoryVars == <<store, cacheIndex>>
tableVars == <<rows, snapshotRows, cacheRows>>
boundVars == <<grantChanges, queryFaults, queryRestarts>>

Final == {"completed", "failed", "cancelled"}

NoSnapshot == 0

Task(state, snapshot, hit) == [state |-> state, snapshot |-> snapshot, hit |-> hit]

NoTask == Task("none", NoSnapshot, FALSE)

Idle == [pc |-> "idle", key |-> <<>>, result |-> <<>>, write |-> NoTask]

Closed == [pc |-> "closed", task |-> NoSnapshot, replay |-> FALSE, queue |-> <<>>,
           told |-> "nothing"]

JobSteps == {"idle", "save", "start", "write", "spawn", "execute", "object", "snapshot", "cache",
             "writeLast", "over"}

InProcTypeOK ==
  /\ activeGrants \subseteq DOMAIN Granted
  /\ \A t \in Tasks :
       /\ registry[t].state \in Final \union {"none", "pending", "running"}
       /\ (registry[t].state = "completed") => registry[t].snapshot \in Tasks
       /\ registry[t].hit => registry[t].state = "completed" /\ registry[t].snapshot # t
       /\ rows[t].state # "none" => withDatabase
       /\ job[t].pc \in JobSteps
  /\ snapshotRows \subseteq objects
  /\ \A s \in Sockets : Len(socket[s].queue) < 16

InProcInit ==
  /\ activeGrants = DOMAIN Granted
  /\ registry = [t \in Tasks |-> NoTask] /\ rows = [t \in Tasks |-> NoTask]
  /\ job = [t \in Tasks |-> Idle] /\ canceller = [t \in Tasks |-> Idle]
  /\ signalled = {} /\ store = <<>> /\ objects = {} /\ snapshotRows = {}
  /\ cacheIndex = <<>> /\ cacheRows = <<>>
  /\ socket = [s \in Sockets |-> Closed]
  /\ withDatabase \in BOOLEAN
  /\ grantChanges = 0 /\ queryFaults = 0 /\ queryRestarts = 0
  /\ history = [t \in Tasks |-> [outcomes |-> {}, grants |-> {}]]

\* insert of a map: a value that was there is replaced.
Put(map, key, value) ==
  [k \in DOMAIN map \union {key} |-> IF k = key THEN value ELSE map[k]]

----
(* The registry.  Every update is published to the subscribers. *)

Publish(t, state) ==
  socket' = [s \in Sockets |->
    IF socket[s].task = t /\ socket[s].pc \in {"subscribed", "open"}
    THEN [socket[s] EXCEPT !.queue = Append(@, state)] ELSE socket[s]]

\* QueryTaskRegistry::update: the state is replaced whatever it was.
Update(t, task) ==
  /\ registry' = [registry EXCEPT ![t] = task]
  /\ history' = [history EXCEPT ![t].outcomes =
                   IF task.state \in Final THEN @ \union {task.state} ELSE @]
  /\ Publish(t, task.state)

MarkRunning(t) == Update(t, [registry[t] EXCEPT !.state = "running"])

MarkCompleted(t, snapshot, hit) == Update(t, Task("completed", snapshot, hit))

MarkFailed(t) == Update(t, [registry[t] EXCEPT !.state = "failed"])

CancelTask(t) == Update(t, [registry[t] EXCEPT !.state = "cancelled"])

\* persist_task_state takes the state now and writes it later.
Persist(worker, t, next) == [worker EXCEPT ![t].pc = next, ![t].write = registry'[t]]

----
(* Grants. *)

\* Mutant: an allowance wins over a denial.
MergeGrants_AllowWins(active) ==
  [grant |-> Min(active),
   fields |-> UNION {Granted[g].allowed : g \in active},
   select |-> UNION {Granted[g].select : g \in active}]

\* merged_active_grant and merge_grants: a denial in any active grant wins,
\* the conditions are alternatives, the id is that of the first.
MergeGrants(active) ==
  [grant |-> Min(active),
   fields |-> (UNION {Granted[g].allowed : g \in active})
                \ (UNION {Granted[g].denied : g \in active}),
   select |-> UNION {Granted[g].select : g \in active}]

\* Grants whose validities do not overlap have no merger.
Mergeable(active) ==
  active # {} /\ \A g, h \in active : Granted[g].from <= Granted[h].until

\* Approvals, expiry and revocations of other modules.
GrantChanges(g) ==
  /\ grantChanges < MaxGrantChanges
  /\ activeGrants' = (activeGrants \ {g}) \union ({g} \ activeGrants)
  /\ grantChanges' = grantChanges + 1
  /\ UNCHANGED <<registry, rows, job, canceller, signalled, memoryVars, objects, snapshotRows,
                 cacheRows, socket, withDatabase, queryFaults, queryRestarts, history>>

----
(* Submission. *)

\* build_cache_key: of the grant it has the id, not the conditions.
QueryCacheKey(grant, fields) == <<grant, fields>>

\* prepare_query_execution with apply_grant_to_query; refusals change nothing.
Prepare(t, fields) ==
  LET merged == MergeGrants(activeGrants)
  IN  /\ job[t].pc = "idle" /\ registry[t].state = "none" /\ history[t].outcomes = {}
      /\ \A u \in Tasks : u < t => history[u].grants # {}
      /\ Mergeable(activeGrants)
      /\ fields \subseteq merged.fields
      /\ registry' = [registry EXCEPT ![t] = Task("pending", NoSnapshot, FALSE)]
      /\ history' = [history EXCEPT ![t].grants = activeGrants]
      /\ job' = [job EXCEPT ![t] =
           [pc |-> IF withDatabase THEN "save" ELSE "start",
            key |-> QueryCacheKey(merged.grant, fields),
            result |-> [fields |-> fields, select |-> merged.select],
            write |-> Task("pending", NoSnapshot, FALSE)]]
      /\ UNCHANGED <<activeGrants, canceller, signalled, memoryVars, objects, tableVars, socket,
                     withDatabase, boundVars>>

Fault == queryFaults < MaxQueryFaults /\ queryFaults' = queryFaults + 1

\* save_task; after a failure the caller gets an error and the task stays.
SaveTask(t) ==
  /\ job[t].pc = "save"
  /\ \/ /\ rows' = [rows EXCEPT ![t] = job[t].write]
        /\ job' = [job EXCEPT ![t].pc = "start"] /\ UNCHANGED queryFaults
     \/ Fault /\ job' = [job EXCEPT ![t].pc = "over"] /\ UNCHANGED rows
  /\ UNCHANGED <<activeGrants, registry, canceller, signalled, memoryVars, objects, snapshotRows,
                 cacheRows, socket, withDatabase, grantChanges, queryRestarts, history>>

\* The rest of submit_query_handler up to its next await.
Start(t) ==
  /\ job[t].pc = "start"
  /\ IF job[t].key \in DOMAIN cacheIndex
     THEN /\ MarkCompleted(t, cacheIndex[job[t].key], TRUE)
          /\ job' = Persist(job, t, "writeLast")
     ELSE /\ MarkRunning(t)
          /\ job' = Persist(job, t, "write")
  /\ UNCHANGED <<activeGrants, rows, canceller, signalled, memoryVars, objects, snapshotRows,
                 cacheRows, withDatabase, boundVars>>

\* save_task_state: an UPDATE, its failure ignored.
SaveTaskState(worker, t) ==
  \/ rows' = [rows EXCEPT ![t] = IF @.state = "none" THEN @ ELSE worker[t].write]
     /\ UNCHANGED queryFaults
  \/ withDatabase /\ Fault /\ UNCHANGED rows

WriteState(t) ==
  /\ job[t].pc \in {"write", "writeLast"}
  /\ SaveTaskState(job, t)
  /\ job' = [job EXCEPT ![t].pc = IF @ = "write" THEN "spawn" ELSE "over"]
  /\ UNCHANGED <<activeGrants, registry, canceller, signalled, memoryVars, objects, snapshotRows,
                 cacheRows, socket, withDatabase, grantChanges, queryRestarts, history>>

----
(* run_query_task. *)

\* The only look at a cancellation.
RunQueryTask(t) ==
  /\ job[t].pc = "spawn"
  /\ job' = [job EXCEPT ![t].pc = IF registry[t].state = "cancelled" THEN "over" ELSE "execute"]
  /\ UNCHANGED <<activeGrants, registry, canceller, signalled, memoryVars, objects, tableVars,
                 socket, withDatabase, boundVars, history>>

\* The scheduler answers with rows; they are encoded, encrypted and kept in
\* the snapshot store of the process.
ExecuteQuery(t) ==
  /\ job[t].pc = "execute"
  /\ store' = Put(store, t, job[t].result)
  /\ job' = [job EXCEPT ![t].pc = "object"]
  /\ UNCHANGED <<activeGrants, registry, canceller, signalled, cacheIndex, objects, tableVars,
                 socket, withDatabase, boundVars, history>>

\* It answers with an error, or what it answered cannot be encoded.
QueryFails(t) ==
  /\ job[t].pc = "execute"
  /\ \/ t \in signalled /\ CancelTask(t)
     \/ MarkFailed(t)
  /\ job' = Persist(job, t, "writeLast")
  /\ UNCHANGED <<activeGrants, canceller, signalled, memoryVars, objects, tableVars, withDatabase,
                 boundVars>>

\* put_ciphertext, then the cache index and the registry without an await.
StoreObject(t) ==
  /\ job[t].pc = "object"
  /\ \/ /\ objects' = objects \union {t}
        /\ cacheIndex' = Put(cacheIndex, job[t].key, t)
        /\ MarkCompleted(t, t, FALSE)
        /\ job' = [job EXCEPT ![t].pc = IF withDatabase THEN "snapshot" ELSE "over"]
        /\ UNCHANGED queryFaults
     \/ /\ Fault /\ MarkFailed(t)
        /\ job' = Persist(job, t, "writeLast")
        /\ UNCHANGED <<objects, cacheIndex>>
  /\ UNCHANGED <<activeGrants, canceller, signalled, store, tableVars, withDatabase, grantChanges,
                 queryRestarts>>

\* save_snapshot; what is detected in its fields is DataPolicies'.
SaveSnapshot(t) ==
  /\ job[t].pc = "snapshot"
  /\ \/ snapshotRows' = snapshotRows \union {t} /\ UNCHANGED queryFaults
     \/ Fault /\ UNCHANGED snapshotRows
  /\ job' = [job EXCEPT ![t].pc = "cache"]
  /\ UNCHANGED <<activeGrants, registry, canceller, signalled, memoryVars, objects, rows,
                 cacheRows, socket, withDatabase, grantChanges, queryRestarts, history>>

\* save_cache_entry: the table refers to snapshots, so that an entry without
\* its snapshot is refused; errors are ignored.
SaveCacheEntry(t) ==
  /\ job[t].pc = "cache"
  /\ \/ /\ cacheRows' = IF t \in snapshotRows THEN Put(cacheRows, job[t].key, t) ELSE cacheRows
        /\ UNCHANGED queryFaults
     \/ Fault /\ UNCHANGED cacheRows
  /\ job' = [job EXCEPT ![t].pc = "writeLast", ![t].write = registry[t]]
  /\ UNCHANGED <<activeGrants, registry, canceller, signalled, memoryVars, objects, rows,
                 snapshotRows, socket, withDatabase, grantChanges, queryRestarts, history>>

----
(* Cancellation, streams, restart. *)

\* Mutant: a finished task is cancelled too.
AskCancel_Finished(t) ==
  /\ canceller[t].pc = "idle" /\ registry[t].state # "none"
  /\ CancelTask(t)
  /\ canceller' = [canceller EXCEPT ![t].pc = "signal"]
  /\ UNCHANGED <<activeGrants, rows, job, signalled, memoryVars, objects, snapshotRows, cacheRows,
                 withDatabase, boundVars>>

\* cancel_task_handler under the registry's lock.
AskCancel(t) ==
  /\ canceller[t].pc = "idle" /\ registry[t].state \in {"pending", "running"}
  /\ CancelTask(t)
  /\ canceller' = [canceller EXCEPT ![t].pc = "signal"]
  /\ UNCHANGED <<activeGrants, rows, job, signalled, memoryVars, objects, snapshotRows, cacheRows,
                 withDatabase, boundVars>>

\* adapter_scheduler.cancel_task reaches a query that is being executed.
SignalScheduler(t) ==
  /\ canceller[t].pc = "signal"
  /\ signalled' = IF job[t].pc = "execute" THEN signalled \union {t} ELSE signalled
  /\ canceller' = [canceller EXCEPT ![t].pc = "write", ![t].write = registry[t]]
  /\ UNCHANGED <<activeGrants, registry, rows, job, memoryVars, objects, snapshotRows, cacheRows,
                 socket, withDatabase, boundVars, history>>

WriteCancelled(t) ==
  /\ canceller[t].pc = "write"
  /\ SaveTaskState(canceller, t)
  /\ canceller' = [canceller EXCEPT ![t].pc = "over"]
  /\ UNCHANGED <<activeGrants, registry, job, signalled, memoryVars, objects, snapshotRows,
                 cacheRows, socket, withDatabase, grantChanges, queryRestarts, history>>

\* task_stream_handler subscribes, then reads the state it may replay.
Subscribe(s, t) ==
  /\ socket[s].pc = "closed" /\ socket[s].told = "nothing" /\ registry[t].state # "none"
  /\ \E replay \in BOOLEAN :
       socket' = [socket EXCEPT
         ![s] = [Closed EXCEPT !.pc = "subscribed", !.task = t, !.replay = replay]]
  /\ UNCHANGED <<activeGrants, registry, rows, job, canceller, signalled, memoryVars, objects,
                 snapshotRows, cacheRows, withDatabase, boundVars, history>>

\* Mutant: the last state is not replayed.
OpenStream_NoReplay(s) ==
  /\ socket[s].pc = "subscribed"
  /\ socket' = [socket EXCEPT ![s].pc = "open"]
  /\ UNCHANGED <<activeGrants, registry, rows, job, canceller, signalled, memoryVars, objects,
                 snapshotRows, cacheRows, withDatabase, boundVars, history>>

OpenStream(s) ==
  /\ socket[s].pc = "subscribed"
  /\ socket' = [socket EXCEPT ![s].pc = "open",
                  ![s].told = IF socket[s].replay THEN registry[socket[s].task].state ELSE @]
  /\ UNCHANGED <<activeGrants, registry, rows, job, canceller, signalled, memoryVars, objects,
                 snapshotRows, cacheRows, withDatabase, boundVars, history>>

SendEvent(s) ==
  /\ socket[s].pc = "open" /\ socket[s].queue # <<>>
  /\ socket' = [socket EXCEPT
       ![s].told = Head(socket[s].queue), ![s].queue = Tail(@),
       ![s].pc = IF Head(socket[s].queue) \in Final THEN "closed" ELSE @]
  /\ UNCHANGED <<activeGrants, registry, rows, job, canceller, signalled, memoryVars, objects,
                 snapshotRows, cacheRows, withDatabase, boundVars, history>>

\* recover_inflight_query_tasks, at the start of a process of this mode.
RecoverInflight(stored) ==
  [t \in Tasks |-> IF stored[t].state \in {"pending", "running"}
                   THEN [stored[t] EXCEPT !.state = "failed"] ELSE stored[t]]

\* The process ends; new_persistent reads back the tables.
RestartApi ==
  /\ withDatabase /\ queryRestarts < MaxQueryRestarts /\ queryRestarts' = queryRestarts + 1
  /\ rows' = RecoverInflight(rows) /\ registry' = rows'
  /\ store' = [t \in snapshotRows |-> store[t]] /\ cacheIndex' = cacheRows
  /\ job' = [t \in Tasks |-> [Idle EXCEPT !.pc = IF history[t].grants = {} THEN "idle" ELSE "over"]]
  /\ canceller' = [t \in Tasks |->
       [Idle EXCEPT !.pc = IF canceller[t].pc = "idle" THEN "idle" ELSE "over"]]
  /\ signalled' = {} /\ socket' = [s \in Sockets |-> Closed]
  /\ history' = [t \in Tasks |->
       [history[t] EXCEPT !.outcomes = @ \union ({rows'[t].state} \ {"none"})]]
  /\ UNCHANGED <<activeGrants, objects, snapshotRows, cacheRows, withDatabase, grantChanges,
                 queryFaults>>

JobStep(t) ==
  \/ SaveTask(t) \/ Start(t) \/ WriteState(t) \/ RunQueryTask(t) \/ ExecuteQuery(t)
  \/ QueryFails(t) \/ StoreObject(t) \/ SaveSnapshot(t) \/ SaveCacheEntry(t)

CancelStep(t) == SignalScheduler(t) \/ WriteCancelled(t)

SocketStep(s) == OpenStream(s) \/ SendEvent(s)

InProcNext ==
  \/ \E t \in Tasks :
       \/ \E fields \in Requests : Prepare(t, fields)
       \/ JobStep(t) \/ AskCancel(t) \/ CancelStep(t)
  \/ \E s \in Sockets : SocketStep(s) \/ \E t \in Tasks : Subscribe(s, t)
  \/ \E g \in DOMAIN Granted : GrantChanges(g)
  \/ RestartApi

\* Requests and spawned tasks run to their end: the scheduler bounds every
\* query by its timeout.
InProcFairness ==
  /\ \A t \in Tasks : WF_queryVars(JobStep(t)) /\ WF_queryVars(CancelStep(t))
  /\ \A s \in Sockets : WF_queryVars(SocketStep(s))

InProcSpec == InProcInit /\ [][InProcNext]_queryVars /\ InProcFairness

----
(* Properties. *)

\* The registry implements the promise of QueryTaskPromise: whatever
\* requests, runs, cancellations, failed writes and restarts interleave,
\* completed and failed are never replaced, a restart leaves nothing in
\* flight and reports no success that had not been one, and what runs ends.
Promise == INSTANCE QueryTaskPromise
  WITH status <- [t \in Tasks |-> registry[t].state],
       outcomes <- [t \in Tasks |-> history[t].outcomes]

KeepsPromise == Promise!Spec

\* What the cache index names can be opened: its snapshot is in the snapshot
\* store and the ciphertext in the object store, after any failed statement
\* and any restart, although the three are written apart
\* (phase2.rs:1408-1531).
CacheIsBacked ==
  \A key \in DOMAIN cacheIndex :
    /\ cacheIndex[key] \in DOMAIN store /\ cacheIndex[key] \in objects
    /\ store[cacheIndex[key]].fields = key[2]

\* A completed task names a snapshot with the fields that were asked for,
\* none of which an active grant denied when the query was prepared, and
\* that was selected under a set of grants led by the one that leads now
\* (prepare_query_execution, merge_grants, build_cache_key).
ResultsAuthorised ==
  \A t \in Tasks : registry[t].state = "completed" /\ registry[t].snapshot \in DOMAIN store =>
    LET s == registry[t].snapshot
    IN  /\ \A g \in history[t].grants : store[s].fields \intersect Granted[g].denied = {}
        /\ Min(history[s].grants) = Min(history[t].grants)
        /\ store[s].select = UNION {Granted[g].select : g \in history[s].grants}

\* A websocket that asked for the last state learns a final state once the
\* task has one, whenever it was opened (task_stream_handler subscribes
\* before it reads the state it replays).
StreamsTold ==
  \A s \in Sockets :
    (socket[s].pc = "open" /\ socket[s].replay /\ registry[socket[s].task].state \in Final)
    ~> (socket[s].told \in Final \/ queryRestarts > 0)

\* The isolation the design asks of the cache key, which is to hash the query
\* with the conditions of its grants (SDQP_SYSTEM_DESIGN_v1.2.md:178): a
\* completed task shows rows that its own grants select.  Not so:
\* build_cache_key names only the first grant.
CacheRespectsGrants ==
  \A t \in Tasks : registry[t].state = "completed" /\ registry[t].snapshot \in DOMAIN store =>
    store[registry[t].snapshot].select \subseteq UNION {Granted[g].select : g \in history[t].grants}

----
(* What the results and the promise rest on. *)

States == Final \union {"none", "pending", "running"}

TaskRecord == [state : States, snapshot : Tasks \union {NoSnapshot}, hit : BOOLEAN]

Stream == [pc : {"closed", "subscribed", "open"}, task : Tasks \union {NoSnapshot},
           replay : BOOLEAN, queue : Seq(States), told : States \union {"nothing"}]

\* Tasks whose rows have been put into the snapshot store, or never will be.
Stored == {t \in Tasks : job[t].pc \in {"object", "snapshot", "cache", "writeLast", "over"}}

Selected(active) == UNION {Granted[g].select : g \in active}

\* None of the active grants denies a field of a result.
Undenied(result, active) == \A g \in active : result.fields \intersect Granted[g].denied = {}

\* What anybody may know of t: its state now, or one it has had.
Genuine(t, task) ==
  /\ task.state \in Final => task.state \in history[t].outcomes
  /\ task.hit => task.state = "completed" /\ task.snapshot # t
  /\ task.state = "completed" =>
       /\ task.snapshot \in Stored
       /\ Min(history[task.snapshot].grants) = Min(history[t].grants)
       /\ task.snapshot \in DOMAIN store => Undenied(store[task.snapshot], history[t].grants)

RecordsGenuine(t) ==
  /\ Genuine(t, registry[t]) /\ Genuine(t, rows[t])
  /\ Genuine(t, job[t].write) /\ Genuine(t, canceller[t].write)

\* Where the submission and the run of t stand agrees with the registry and
\* with what t was prepared with.
JobOrdered(t) ==
  /\ history[t].grants = {} <=> job[t].pc = "idle"
  /\ job[t].pc = "idle" => /\ registry[t] = NoTask /\ rows[t] = NoTask
                           /\ history[t].outcomes = {}
                           /\ job[t] = Idle /\ canceller[t] = Idle
  /\ job[t].pc \in {"save", "start"} => registry[t].state \in {"pending", "cancelled"}
  /\ job[t].pc \in {"write", "spawn", "execute", "object"} =>
       registry[t].state \in {"running", "cancelled"}
  /\ rows[t].state # "none" \/ job[t].pc \in {"save", "snapshot", "cache"} => withDatabase
  /\ job[t].pc \notin {"idle", "over"} =>
       /\ job[t].key = <<Min(history[t].grants), job[t].result.fields>>
       /\ job[t].result.select = Selected(history[t].grants)
       /\ Undenied(job[t].result, history[t].grants)
  /\ job[t].pc \in {"object", "snapshot", "cache"} =>
       t \in DOMAIN store /\ store[t] = job[t].result
  /\ job[t].pc \in {"snapshot", "cache"} => t \in objects

\* s may be served under the cache key.
Serves(key, s) ==
  /\ s \in DOMAIN store /\ s \in objects
  /\ key = <<Min(history[s].grants), store[s].fields>>

StoresBacked ==
  /\ DOMAIN store \subseteq Stored
  /\ \A s \in DOMAIN store : store[s].select = Selected(history[s].grants)
  /\ snapshotRows \subseteq objects \intersect DOMAIN store
  /\ \A key \in DOMAIN cacheIndex : Serves(key, cacheIndex[key])
  /\ \A key \in DOMAIN cacheRows :
       Serves(key, cacheRows[key]) /\ cacheRows[key] \in snapshotRows

\* A task publishes at most three events, so that no broadcast channel, of
\* sixteen events, ever drops one on a slow socket.
Published(t) ==
  (CASE job[t].pc \in {"idle", "save", "start"} -> 0
     [] job[t].pc \in {"write", "spawn", "execute", "object"} -> 1
     [] OTHER -> 2)
  + (IF canceller[t].pc = "idle" THEN 0 ELSE 1)

QueuesShort ==
  \A s \in Sockets :
    \/ socket[s].pc = "closed" /\ socket[s].queue = <<>>
    \/ \E t \in Tasks : socket[s].task = t /\ Len(socket[s].queue) <= Published(t)

\* w keeps a record like Idle for each task.
TaskWorkers(w) ==
  /\ w = [t \in Tasks |-> [pc |-> w[t].pc, key |-> w[t].key,
                          result |-> w[t].result, write |-> w[t].write]]
  /\ \A t \in Tasks : w[t].write \in TaskRecord

InProcTypes ==
  /\ activeGrants \subseteq DOMAIN Granted
  /\ registry \in [Tasks -> TaskRecord] /\ rows \in [Tasks -> TaskRecord]
  /\ TaskWorkers(job) /\ TaskWorkers(canceller)
  /\ \A t \in Tasks : job[t].pc \in JobSteps
  /\ history \in [Tasks -> [outcomes : SUBSET Final, grants : SUBSET DOMAIN Granted]]
  /\ socket \in [Sockets -> Stream]

InProcInv ==
  /\ InProcTypes
  /\ \A t \in Tasks : RecordsGenuine(t) /\ JobOrdered(t)
  /\ StoresBacked /\ QueuesShort

\* Results are genuine: a cache entry opens a snapshot, and a result holds only
\* what the grants allowed when its query was prepared (run_query_task).
ResultsGenuine == InProcTypeOK /\ CacheIsBacked /\ ResultsAuthorised
=============================================================================
