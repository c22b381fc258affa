----------------------------- MODULE QueryQueue -----------------------------
(***************************************************************************)
(* The durable query queue of the deployment with external workers         *)
(* (external_query_worker): the API's handlers and its in-memory           *)
(* QueryTaskRegistry (apps/sdqp-api/src/phase2.rs,                         *)
(* crates/sdqp-datasource-adapter/src/task.rs), the query_tasks table      *)
(* behind both (persistence.rs of both apps), and the workers that claim   *)
(* rows of it (apps/sdqp-worker/src/lib.rs).                               *)
(*                                                                         *)
(* An action is one SQL statement or one critical section on the registry. *)
(* All tasks are of one data source.  A snapshot id is abstracted to       *)
(* whether the snapshots table has its row.                                *)
(***************************************************************************)
EXTENDS CircuitBreaker, FiniteSets

CONSTANTS
  Tasks,              \* query tasks; each is submitted at most once
  Workers,            \* worker processes, each polling sequentially
  Priority,           \* the priority value of a task
  CacheKey,           \* the cache key of a task
  Cancels,            \* requests to cancel a task, several of a task too
  Asks,               \* the task a request is for
  MaxAttempts,        \* max_attempts of a task
  MaxApiFaults,       \* bound: crashes and failed statements of the API
  MaxAuditFaults,     \* bound: audit events that cannot be persisted
  MaxWorkerFaults     \* bound: crashes and failed statements of workers

ASSUME QueueAssumption ==
  /\ Tasks # {} /\ Asks \in [Cancels -> Tasks]
  /\ Priority \in [Tasks -> Nat]
  /\ DOMAIN CacheKey = Tasks
  /\ MaxAttempts \in Nat \ {0}
  /\ MaxApiFaults \in Nat
  /\ MaxAuditFaults \in Nat
  /\ MaxWorkerFaults \in Nat

VARIABLES
  row,        \* query_tasks
  reg,        \* the API's QueryTaskRegistry
  cached,     \* keys of snapshot_cache_entries
  submit,     \* where submit_query_handler of a task stands
  cancel,     \* where cancel_task_handler of a request stands
  sync,       \* the loop of spawn_persistent_task_sync
  worker,     \* what a worker is doing
  breaker,    \* a worker's circuit breaker
  events,     \* the outcomes of a task that are in audit_events
  faults      \* faults so far

apiVars    == <<submit, cancel, sync>>
workerVars == <<worker, breaker>>
vars == <<row, reg, cached, submit, cancel, sync, worker, breaker, events,
          faults>>

State    == {"Absent", "Pending", "Running", "Completed", "Failed", "Cancelled"}
Terminal == {"Completed", "Failed", "Cancelled"}
Stored   == {"none", "stored", "missing"}

Entry == [state : State, snapshot : Stored]
Row   == [state : State, snapshot : Stored, attempts : Nat, audited : BOOLEAN]

\* What load_query_tasks reads of a row.
View(r) == [state |-> r.state, snapshot |-> r.snapshot]

NoEntry == [state |-> "Absent", snapshot |-> "none"]
NoRow   == [state |-> "Absent", snapshot |-> "none", attempts |-> 0,
            audited |-> FALSE]

\* What a worker holds of the task it works on.
Work ==
  [pc : {"idle", "check", "lookup", "hit", "open", "execute", "recheck", "store",
         "complete", "failure"},
   task : Tasks, attempts : Nat,
   result : {"none", "rows", "transient", "fatal", "stored", "missing"}]

TypeOK ==
  /\ row \in [Tasks -> Row]
  /\ reg \in [Tasks -> Entry]
  /\ cached \subseteq {CacheKey[t] : t \in Tasks}
  /\ submit \in [Tasks -> {"idle", "created", "done", "lost"}]
  /\ cancel \in [Cancels -> [pc : {"idle", "persist", "write", "log",
                                   "accepted", "lost"},
                             entry : Entry]]
  /\ sync \in [pc : {"load", "apply", "unaudited", "audit", "mark"},
               rows : [Tasks -> Entry], todo : SUBSET Tasks, now : SUBSET Tasks]
  /\ worker \in [Workers -> Work]
  /\ breaker \in [Workers -> Breaker]
  /\ events \in [Tasks -> SUBSET Terminal]
  /\ faults \in [api : 0..MaxApiFaults, audit : 0..MaxAuditFaults,
                 worker : 0..MaxWorkerFaults]

IdleSync == [pc |-> "load", rows |-> [t \in Tasks |-> NoEntry],
             todo |-> {}, now |-> {}]
IdleWorker == [pc |-> "idle", task |-> CHOOSE t \in Tasks : TRUE,
               attempts |-> 0, result |-> "none"]

Init ==
  /\ row = [t \in Tasks |-> NoRow]
  /\ reg = [t \in Tasks |-> NoEntry]
  /\ cached = {}
  /\ submit = [t \in Tasks |-> "idle"]
  /\ cancel = [c \in Cancels |-> [pc |-> "idle", entry |-> NoEntry]]
  /\ sync = IdleSync
  /\ worker = [w \in Workers |-> IdleWorker]
  /\ breaker = [w \in Workers |-> NoFailures]
  /\ events = [t \in Tasks |-> {}]
  /\ faults = [api |-> 0, audit |-> 0, worker |-> 0]

ApiFault ==
  /\ faults.api < MaxApiFaults
  /\ faults' = [faults EXCEPT !.api = @ + 1]

AuditFault ==
  /\ faults.audit < MaxAuditFaults
  /\ faults' = [faults EXCEPT !.audit = @ + 1]

WorkerFault ==
  /\ faults.worker < MaxWorkerFaults
  /\ faults' = [faults EXCEPT !.worker = @ + 1]

----
(* submit_query_handler. *)

CreateTask(t) ==
  /\ submit[t] = "idle"
  /\ reg' = [reg EXCEPT ![t].state = "Pending"]
  /\ submit' = [submit EXCEPT ![t] = "created"]
  /\ UNCHANGED <<row, cached, cancel, sync, workerVars, events, faults>>

SaveTask(t) ==
  /\ submit[t] = "created"
  /\ row' = [row EXCEPT ![t].state = reg[t].state,
                        ![t].snapshot = reg[t].snapshot]
  /\ submit' = [submit EXCEPT ![t] = "done"]
  /\ UNCHANGED <<reg, cached, cancel, sync, workerVars, events, faults>>

\* The handler answers 500 and leaves the registry's entry behind.
SaveTaskFails(t) ==
  /\ submit[t] = "created"
  /\ ApiFault
  /\ submit' = [submit EXCEPT ![t] = "lost"]
  /\ UNCHANGED <<row, reg, cached, cancel, sync, workerVars, events>>

----
(* cancel_task_handler.  A task that is terminal in the registry is        *)
(* refused without any effect.  The caller knows the id from the answer    *)
(* to its submission.                                                      *)

CancelInRegistry(c) ==
  /\ submit[Asks[c]] = "done"
  /\ cancel[c].pc = "idle"
  /\ reg[Asks[c]].state \in {"Pending", "Running"}
  /\ reg' = [reg EXCEPT ![Asks[c]].state = "Cancelled"]
  /\ cancel' = [cancel EXCEPT ![c].pc = "persist"]
  /\ UNCHANGED <<row, cached, submit, sync, workerVars, events, faults>>

\* persist_task_state reads the registry again.
ReadForPersist(c) ==
  /\ cancel[c].pc = "persist"
  /\ cancel' = [cancel EXCEPT ![c] = [pc |-> "write", entry |-> reg[Asks[c]]]]
  /\ UNCHANGED <<row, reg, cached, submit, sync, workerVars, events, faults>>

\* save_task_state, an update whatever the row's state is.
SaveTaskState(c) ==
  /\ cancel[c].pc = "write"
  /\ row' = [row EXCEPT ![Asks[c]].state = cancel[c].entry.state,
                        ![Asks[c]].snapshot = cancel[c].entry.snapshot]
  /\ cancel' = [cancel EXCEPT ![c] = [pc |-> "log", entry |-> NoEntry]]
  /\ UNCHANGED <<reg, cached, submit, sync, workerVars, events, faults>>

\* The update fails, which is ignored.
SaveTaskStateFails(c) ==
  /\ cancel[c].pc = "write"
  /\ ApiFault
  /\ cancel' = [cancel EXCEPT ![c] = [pc |-> "log", entry |-> NoEntry]]
  /\ UNCHANGED <<row, reg, cached, submit, sync, workerVars, events>>

\* append_phase2_audit, then the answer.
AuditCancel(c) ==
  /\ cancel[c].pc = "log"
  /\ cancel' = [cancel EXCEPT ![c].pc = "accepted"]
  /\ events' = [events EXCEPT ![Asks[c]] = @ \cup {"Cancelled"}]
  /\ UNCHANGED <<row, reg, cached, submit, sync, workerVars, faults>>

\* The event cannot be persisted, which is logged and otherwise ignored.
AuditCancelFails(c) ==
  /\ cancel[c].pc = "log"
  /\ AuditFault
  /\ cancel' = [cancel EXCEPT ![c].pc = "accepted"]
  /\ UNCHANGED <<row, reg, cached, submit, sync, workerVars, events>>

----
(* spawn_persistent_task_sync: copy the table to the registry, then audit  *)
(* the terminal rows that are not audited yet, one by one.                 *)

SyncLoad ==
  /\ sync.pc = "load"
  /\ sync' = [sync EXCEPT !.pc = "apply",
                          !.rows = [t \in Tasks |-> View(row[t])]]
  /\ UNCHANGED <<row, reg, cached, submit, cancel, workerVars, events, faults>>

\* upsert_snapshot of every row.
SyncApply ==
  /\ sync.pc = "apply"
  /\ reg' = [t \in Tasks |->
               IF sync.rows[t].state = "Absent" THEN reg[t] ELSE sync.rows[t]]
  /\ sync' = [IdleSync EXCEPT !.pc = "unaudited"]
  /\ UNCHANGED <<row, cached, submit, cancel, workerVars, events, faults>>

\* load_unaudited_terminal_tasks; the loop's tasks keep the state read here.
LoadUnaudited ==
  LET due == {t \in Tasks : row[t].state \in Terminal /\ ~row[t].audited} IN
  /\ sync.pc = "unaudited"
  /\ sync' = [sync EXCEPT !.pc = IF due = {} THEN "load" ELSE "audit",
                          !.todo = due,
                          !.rows = [t \in Tasks |-> IF t \in due
                                      THEN View(row[t]) ELSE NoEntry]]
  /\ UNCHANGED <<row, reg, cached, submit, cancel, workerVars, events, faults>>

\* Mutant: the row is marked first; a crash in between loses the event.
MarkBeforeAppend(t) ==
  /\ sync.pc = "audit"
  /\ t \in sync.todo
  /\ row' = [row EXCEPT ![t].audited = TRUE]
  /\ sync' = [sync EXCEPT !.pc = "mark", !.now = {t}]
  /\ UNCHANGED <<reg, cached, submit, cancel, workerVars, events, faults>>

AppendAudit(t) ==
  /\ sync.pc = "audit"
  /\ t \in sync.todo
  /\ events' = [events EXCEPT ![t] = @ \cup {sync.rows[t].state}]
  /\ sync' = [sync EXCEPT !.pc = "mark", !.now = {t}]
  /\ UNCHANGED <<row, reg, cached, submit, cancel, workerVars, faults>>

\* persist_audit_append fails, which is logged; the row is marked all the same.
AppendAuditFails(t) ==
  /\ sync.pc = "audit"
  /\ t \in sync.todo
  /\ AuditFault
  /\ sync' = [sync EXCEPT !.pc = "mark", !.now = {t}]
  /\ UNCHANGED <<row, reg, cached, submit, cancel, workerVars, events>>

\* The loop goes on with the next task, or starts over.
Audited(t) ==
  sync' = IF sync.todo = {t} THEN IdleSync
          ELSE [sync EXCEPT !.pc = "audit", !.todo = @ \ {t}, !.now = {},
                            !.rows[t] = NoEntry]

MarkAudited(t) ==
  /\ sync.pc = "mark"
  /\ t \in sync.now
  /\ row' = [row EXCEPT ![t].audited = TRUE]
  /\ Audited(t)
  /\ UNCHANGED <<reg, cached, submit, cancel, workerVars, events, faults>>

MarkAuditedFails(t) ==
  /\ sync.pc = "mark"
  /\ t \in sync.now
  /\ ApiFault
  /\ Audited(t)
  /\ UNCHANGED <<row, reg, cached, submit, cancel, workerVars, events>>

\* A read of the loop fails and the rest of that half is skipped.
SyncReadFails ==
  /\ sync.pc \in {"load", "unaudited"}
  /\ ApiFault
  /\ sync' = [sync EXCEPT !.pc = IF @ = "load" THEN "unaudited" ELSE "load"]
  /\ UNCHANGED <<row, reg, cached, submit, cancel, workerVars, events>>

\* The API process dies and comes back: handlers and the loop are gone, the
\* registry is restored from the table.
ApiCrash ==
  /\ ApiFault
  /\ reg' = [t \in Tasks |-> View(row[t])]
  /\ submit' = [t \in Tasks |->
                  IF submit[t] = "created" THEN "lost" ELSE submit[t]]
  /\ cancel' = [c \in Cancels |-> IF cancel[c].pc \in {"persist", "write", "log"}
                                  THEN [pc |-> "lost", entry |-> NoEntry]
                                  ELSE cancel[c]]
  /\ sync' = IdleSync
  /\ UNCHANGED <<row, cached, workerVars, events>>

----
(* The worker: spawn_query_polling_loop and process_query_task. *)

At(w, pc) == worker[w].pc = pc
Goto(w, pc) == worker' = [worker EXCEPT ![w].pc = pc]
Job(w) == worker[w].task
Done(w) == worker' = [worker EXCEPT ![w] = IdleWorker]

\* Mutant: the update has no condition on the state.
UpdateRowAlways(t, r) == row' = [row EXCEPT ![t] = r]

\* The updates of the worker leave a cancelled row alone.
UpdateRow(t, r) ==
  row' = [row EXCEPT ![t] = IF @.state = "Cancelled" THEN @ ELSE r]

Completed(r, snapshot) ==
  [r EXCEPT !.state = "Completed", !.snapshot = snapshot, !.audited = FALSE]
Failed(r) == [r EXCEPT !.state = "Failed", !.audited = FALSE]
Retried(r) == [r EXCEPT !.state = "Pending"]

\* ORDER BY priority, created_at: the smallest value goes first.
NextInLine(t) ==
  \A u \in Tasks : row[u].state = "Pending" => Priority[t] <= Priority[u]

\* Mutant: expired leases are claimed again, however far the worker is.
ClaimRunning(w, t) ==
  /\ At(w, "idle")
  /\ row[t].state \in {"Pending", "Running"}
  /\ row' = [row EXCEPT ![t].state = "Running", ![t].attempts = @ + 1]
  /\ worker' = [worker EXCEPT ![w] =
       [pc |-> "check", task |-> t, attempts |-> row'[t].attempts,
        result |-> "none"]]
  /\ UNCHANGED <<reg, cached, apiVars, breaker, events, faults>>

ClaimNextQueryTask(w, t) ==
  /\ At(w, "idle")
  /\ row[t].state = "Pending"
  /\ NextInLine(t)
  /\ row' = [row EXCEPT ![t].state = "Running", ![t].attempts = @ + 1]
  /\ worker' = [worker EXCEPT ![w] =
       [pc |-> "check", task |-> t, attempts |-> row'[t].attempts,
        result |-> "none"]]
  /\ UNCHANGED <<reg, cached, apiVars, breaker, events, faults>>

\* Where a task goes on that is not cancelled.
AfterCheck(w) == CASE At(w, "check")             -> "lookup"
                   [] worker[w].result = "rows"  -> "store"
                   [] OTHER                      -> "failure"

\* load_task_state, before and after the query: a cancelled task is dropped.
CheckTaskState(w) ==
  /\ worker[w].pc \in {"check", "recheck"}
  /\ IF row[Job(w)].state = "Cancelled" THEN Done(w) ELSE Goto(w, AfterCheck(w))
  /\ UNCHANGED <<row, reg, cached, apiVars, breaker, events, faults>>

\* The breaker decides on a task whose result is not cached.
AfterMiss(w) == IF Allow(breaker[w]) THEN "execute" ELSE "open"

\* load_cache_entry, then the breaker.
LookUp(w) ==
  /\ At(w, "lookup")
  /\ Goto(w, IF CacheKey[Job(w)] \in cached THEN "hit" ELSE AfterMiss(w))
  /\ UNCHANGED <<row, reg, cached, apiVars, breaker, events, faults>>

CompleteFromCache(w) ==
  /\ At(w, "hit")
  /\ UpdateRow(Job(w), Completed(row[Job(w)], "stored"))
  /\ Done(w)
  /\ UNCHANGED <<reg, cached, apiVars, breaker, events, faults>>

FailBreakerOpen(w) ==
  /\ At(w, "open")
  /\ UpdateRow(Job(w), Failed(row[Job(w)]))
  /\ Done(w)
  /\ UNCHANGED <<reg, cached, apiVars, breaker, events, faults>>

\* The adapter answers with rows, a transient error or timeout, or an error
\* that no retry can cure (an authentication or permission failure).
ExecuteQuery(w) ==
  /\ At(w, "execute")
  /\ \E result \in {"rows", "transient", "fatal"} :
       worker' = [worker EXCEPT ![w].pc = "recheck", ![w].result = result]
  /\ UNCHANGED <<row, reg, cached, apiVars, breaker, events, faults>>

\* Encode, encrypt, store the object, save_snapshot and save_cache_entry.
StoreSnapshot(w) ==
  /\ At(w, "store")
  /\ worker' = [worker EXCEPT ![w].pc = "complete", ![w].result = "stored"]
  /\ cached' = cached \cup {CacheKey[Job(w)]}
  /\ UNCHANGED <<row, reg, apiVars, breaker, events, faults>>

\* The object cannot be stored, and the task fails; or save_snapshot fails,
\* which is ignored, and the cache entry is refused for lack of its row; or
\* only save_cache_entry fails, which is ignored too.
StoreSnapshotFails(w) ==
  /\ At(w, "store")
  /\ WorkerFault
  /\ \/ Goto(w, "failure")
     \/ \E result \in {"missing", "stored"} :
          worker' = [worker EXCEPT ![w].pc = "complete", ![w].result = result]
  /\ UNCHANGED <<row, reg, cached, apiVars, breaker, events>>

CompleteTask(w) ==
  /\ At(w, "complete")
  /\ UpdateRow(Job(w), Completed(row[Job(w)], worker[w].result))
  /\ breaker' = [breaker EXCEPT ![w] = NoFailures]
  /\ Done(w)
  /\ UNCHANGED <<reg, cached, apiVars, events, faults>>

\* Mutant: a task that may be retried is left running.
HandleTaskFailureNoReset(w) ==
  /\ At(w, "failure")
  /\ breaker' = [breaker EXCEPT ![w] = RecordFailure(@)]
  /\ IF worker[w].attempts < MaxAttempts
     THEN UNCHANGED row ELSE UpdateRow(Job(w), Failed(row[Job(w)]))
  /\ Done(w)
  /\ UNCHANGED <<reg, cached, apiVars, events, faults>>

HandleTaskFailure(w) ==
  /\ At(w, "failure")
  /\ breaker' = [breaker EXCEPT ![w] = RecordFailure(@)]
  /\ UpdateRow(Job(w), IF worker[w].attempts < MaxAttempts
                       THEN Retried(row[Job(w)]) ELSE Failed(row[Job(w)]))
  /\ Done(w)
  /\ UNCHANGED <<reg, cached, apiVars, events, faults>>

\* The last update fails, its error is ignored, and the breaker records the
\* query as if it had not.
UpdateLost(w) ==
  /\ worker[w].pc \in {"hit", "open", "complete", "failure"}
  /\ WorkerFault
  /\ breaker' = [breaker EXCEPT ![w] =
       CASE At(w, "complete") -> NoFailures
         [] At(w, "failure")  -> RecordFailure(@)
         [] OTHER             -> @]
  /\ Done(w)
  /\ UNCHANGED <<row, reg, cached, apiVars, events>>

\* load_task_state or load_cache_entry fails: the task counts as not
\* cancelled, or as not cached.
ReadFails(w) ==
  /\ worker[w].pc \in {"check", "recheck", "lookup"}
  /\ WorkerFault
  /\ Goto(w, IF At(w, "lookup") THEN AfterMiss(w) ELSE AfterCheck(w))
  /\ UNCHANGED <<row, reg, cached, apiVars, breaker, events>>

\* The process dies and comes back; nothing reads lease_expires_at.
WorkerCrash(w) ==
  /\ ~At(w, "idle")
  /\ WorkerFault
  /\ Done(w)
  /\ breaker' = [breaker EXCEPT ![w] = NoFailures]
  /\ UNCHANGED <<row, reg, cached, apiVars, events>>

BackoffElapses(w) ==
  /\ breaker[w].opened_at = "recent"
  /\ breaker' = [breaker EXCEPT ![w] = BackoffElapsed(@)]
  /\ UNCHANGED <<row, reg, cached, apiVars, worker, events, faults>>

----
SubmitStep(t) == CreateTask(t) \/ SaveTask(t)
CancelStep(c) == ReadForPersist(c) \/ SaveTaskState(c) \/ AuditCancel(c)

SyncStep ==
  \/ SyncLoad \/ SyncApply \/ LoadUnaudited
  \/ \E t \in Tasks : AppendAudit(t) \/ MarkAudited(t)

WorkerStep(w) ==
  \/ \E t \in Tasks : ClaimNextQueryTask(w, t)
  \/ CheckTaskState(w) \/ LookUp(w) \/ CompleteFromCache(w)
  \/ FailBreakerOpen(w) \/ ExecuteQuery(w) \/ StoreSnapshot(w)
  \/ CompleteTask(w) \/ HandleTaskFailure(w)

Faults ==
  \/ ApiCrash
  \/ SyncReadFails
  \/ \E t \in Tasks : SaveTaskFails(t) \/ AppendAuditFails(t) \/ MarkAuditedFails(t)
  \/ \E c \in Cancels : SaveTaskStateFails(c) \/ AuditCancelFails(c)
  \/ \E w \in Workers :
       \/ StoreSnapshotFails(w) \/ UpdateLost(w)
       \/ ReadFails(w) \/ WorkerCrash(w)

Next ==
  \/ \E t \in Tasks : SubmitStep(t)
  \/ \E c \in Cancels : CancelInRegistry(c) \/ CancelStep(c)
  \/ SyncStep
  \/ \E w \in Workers : WorkerStep(w) \/ BackoffElapses(w)
  \/ Faults

Spec == Init /\ [][Next]_vars

\* The sync loop and the polling loops run for ever, handlers run to their
\* end, and a query ends at the latest by its timeout.
Fairness ==
  /\ \A t \in Tasks : WF_vars(SubmitStep(t))
  /\ \A c \in Cancels : WF_vars(CancelStep(c))
  /\ WF_vars(SyncStep)
  /\ \A w \in Workers : WF_vars(WorkerStep(w))

FairSpec == Spec /\ Fairness

----
(* Properties. *)

Busy(t) == {w \in Workers : ~At(w, "idle") /\ Job(w) = t}

\* The requests to cancel a task that have begun, and the tasks without one.
Asked(t) == {c \in Cancels : Asks[c] = t /\ cancel[c].pc # "idle"}
Uncancelled == {t \in Tasks : Asked(t) = {}}

\* The claim statement hands a task to one worker at a time: as long as
\* nobody cancels it, retries, crashes and lost updates never let two workers
\* run the same task.
SingleFlight == \A t \in Uncancelled : Cardinality(Busy(t)) <= 1

\* As long as nobody cancels it, a task is claimed at most max_attempts times,
\* by whichever workers.
AttemptsBounded == \A t \in Uncancelled : row[t].attempts <= MaxAttempts

\* As long as nobody cancels it, the outcome the API reports from its registry
\* is the outcome of the row, however stale the rows the loop applies are.
RegistryReportsOutcome ==
  \A t \in Uncancelled : reg[t].state \in Terminal => reg[t] = View(row[t])

\* As long as the audit log takes what it is given, completion_audited is set
\* only after it has the outcome the row now has, cancelled tasks aside: a
\* crash between the append and the mark repeats an event but loses none.
\* "全链路可审计": all that was done, and its outcome, is on record.
AuditedMeansLogged ==
  faults.audit = 0 =>
    \A t \in Uncancelled : row[t].audited => events[t] = {row[t].state}

\* Every task the API accepts ends, its outcome reaches the registry and the
\* audit log, although the API may crash and attempts may fail.
EveryTaskSettles ==
  \A t \in Tasks :
    submit[t] = "done" ~> /\ row[t].state \in Terminal
                          /\ row[t].audited
                          /\ reg[t] = View(row[t])

\* A request to cancel writes what it read of the registry, after another
\* request of the same task.
Rewritten(t) ==
  \E c, d \in Asked(t) : c # d /\ cancel[c].pc = "write" /\ cancel'[c].pc = "log"

\* Outcomes are final: a terminal row keeps its state and snapshot as long as
\* nobody cancels its task, and once the table says cancelled no late
\* complete_task, fail_task or reset_task_for_retry revives the task, nor does
\* a request to cancel it, unless another was there before: then persist_task_state
\* can write back a state the sync loop had copied between the two.
OutcomeIsFinal ==
  [][\A t \in Tasks :
       /\ t \in Uncancelled /\ row[t].state \in Terminal => View(row'[t]) = View(row[t])
       /\ row[t].state = "Cancelled" => row'[t].state = "Cancelled" \/ Rewritten(t)]_vars

\* A completed row names a snapshot even when cancel_task_handler wrote back
\* a state that the sync loop had copied to the registry.
CompletedNamesSnapshot ==
  \A t \in Tasks : row[t].state = "Completed" => row[t].snapshot # "none"

\* uat_stage6_query_orchestration: a cancellation answered with OK leads to
\* the state "cancelled".
AcceptedCancelHolds ==
  \A c \in Cancels : cancel[c].pc = "accepted" => row[Asks[c]].state = "Cancelled"

\* A claim is a lease of query_lease_secs: a running task does not stay
\* running for ever when its worker dies.
LeaseExpires ==
  \A t \in Tasks : row[t].state = "Running" ~> row[t].state # "Running"

\* "认证/权限失败不重试": an authentication or permission failure is not
\* retried.
PermissionFailureNotRetried ==
  [][\A w \in Workers :
       At(w, "failure") /\ worker[w].result = "fatal" =>
         row'[Job(w)].state # "Pending"]_vars

\* What the loop is about to append and a worker is about to write.
LocalInv ==
  /\ sync.now \subseteq sync.todo
  /\ sync.pc \in {"load", "apply", "unaudited"} => sync.todo = {}
  /\ \A t \in sync.todo : sync.rows[t].state \in Terminal
  /\ \A w \in Workers : worker[w].pc = "complete" => worker[w].result \in {"stored", "missing"}

\* Why the outcomes are told as they are, in parts.  A task is not in the table
\* before save_task of its submission is through, and whoever asks for a
\* cancellation has found its entry in the registry.
Placed(t) ==
  /\ submit[t] # "done" => /\ row[t] = NoRow /\ t \in Uncancelled
                           /\ sync.rows[t] = NoEntry /\ events[t] = {}
  /\ submit[t] = "idle" => reg[t] = NoEntry
  /\ submit[t] = "created" => reg[t] = [state |-> "Pending", snapshot |-> "none"]
  /\ row[t].state = "Cancelled" =>
       \E c \in Cancels : Asks[c] = t /\ cancel[c].pc \in {"log", "accepted", "lost"}
  /\ t \in Uncancelled => reg[t].state # "Cancelled"

RowInv == \A t \in Tasks : Placed(t)

\* A worker has a task that was submitted; as long as nobody cancels it, the
\* row is running with the attempts the claim returned, and no other worker
\* has the task.
WorkerInv ==
  \A w \in Workers :
    worker[w].pc # "idle" =>
      LET t == worker[w].task IN
      /\ submit[t] = "done"
      /\ t \in Uncancelled =>
           /\ row[t].state = "Running" /\ row[t].attempts = worker[w].attempts
           /\ \A v \in Workers : worker[v].pc # "idle" /\ worker[v].task = t => v = w

\* A task is pending again only while attempts are left.
AttemptsInv ==
  \A t \in Uncancelled :
    /\ row[t].attempts <= MaxAttempts
    /\ row[t].state = "Pending" => row[t].attempts < MaxAttempts

\* What the registry, the loop and the log have of a task's outcome is the
\* row's, which changes no more.
Reported(t) ==
  /\ reg[t].state \in Terminal => reg[t] = View(row[t])
  /\ sync.rows[t].state \in Terminal => sync.rows[t] = View(row[t])
  /\ events[t] # {} => row[t].state \in Terminal /\ events[t] = {row[t].state}
  /\ faults.audit = 0 =>
       /\ sync.pc = "mark" /\ t \in sync.now => events[t] # {}
       /\ row[t].audited => events[t] # {}

ReportInv == \A t \in Uncancelled : Reported(t)

\* Every copy of a completed row names a snapshot.
Named(e) == e.state = "Completed" => e.snapshot # "none"

SnapshotInv ==
  /\ \A t \in Tasks : Named(row[t]) /\ Named(reg[t]) /\ Named(sync.rows[t])
  /\ \A c \in Cancels : Named(cancel[c].entry)

\* The inductive invariant.
QueueInv ==
  /\ TypeOK
  /\ LocalInv
  /\ RowInv
  /\ WorkerInv
  /\ AttemptsInv
  /\ ReportInv
  /\ SnapshotInv

\* A claim is exclusive: no two workers run a task nobody cancels at once, and
\* they run it max_attempts times at most, whatever is lost, retried or
\* crashes (claim_next_query_task, reset_task_for_retry).
ClaimsExclusive == TypeOK /\ SingleFlight /\ AttemptsBounded

\* What is told of a task is what became of it: the outcome in the registry is
\* the one in the row, completion_audited means that the audit log has it, and
\* a completed row names a snapshot (sync_persisted_task_registry,
\* audit_terminal_task_completions).
OutcomesReported ==
  /\ RegistryReportsOutcome
  /\ AuditedMeansLogged
  /\ CompletedNamesSnapshot
=============================================================================
