-------------------------- MODULE AdapterScheduler --------------------------
(***************************************************************************)
(* The adapter lifecycle scheduler                                         *)
(* (crates/sdqp-datasource-adapter/src/scheduler.rs).  Tasks run           *)
(* execute_query concurrently, administrators register, start, stop and    *)
(* probe adapters, and users cancel tasks.  All of them share three maps,  *)
(* each behind its own mutex: runtimes, tasks and circuit.                 *)
(*                                                                         *)
(* An action is one critical section.  A critical section on tasks is      *)
(* merged with the neighbouring one of the same task: others only ask      *)
(* whether the task's state is terminal.  A breaker snapshot taken under   *)
(* the circuit mutex and used later under the runtimes mutex stays a local *)
(* of the task (snap) and may be stale when it is used.                    *)
(***************************************************************************)
EXTENDS CircuitBreaker, FiniteSets, Integers

CONSTANTS
  Sources,            \* data source ids
  Started,            \* the sources of from_started_configs
  Tasks,              \* task ids; a task is submitted at most once
  Admins,             \* concurrent callers of start, stop and refresh_health
  Concurrency,        \* permits of an adapter's semaphore
  MaxAttempts,        \* retry_policy.max_attempts
  MaxRegistrations    \* bound: semaphores one source may go through

ASSUME SchedulerAssumption ==
  /\ Sources # {}
  /\ Started \subseteq Sources
  /\ IsFiniteSet(Tasks)
  /\ Concurrency \in Nat \ {0}
  /\ MaxAttempts \in Nat
  /\ MaxRegistrations \in Nat \ {0}

VARIABLES
  runtime,       \* runtimes: the AdapterRuntimeRecord of a source
  permits,       \* free permits of the source's n-th semaphore
  breaker,       \* circuit
  tstate,        \* tasks[t].state, "Absent" before create_task_record
  attempts,      \* tasks[t].attempts
  cancelled,     \* tasks[t].cancellation.cancelled
  pc,            \* where execute_query of t stands
  target,        \* request.data_source_id of t
  sem,           \* which semaphore of its source t queues on
  snap,          \* the breaker snapshot t took last
  wait,          \* the cancelled() future of the select! t is in
  late,          \* history: attempts t began after it had been cancelled
  admin          \* what an administrator's call is doing

schedVars == <<runtime, permits, breaker, tstate, attempts, cancelled>>
vars == <<runtime, permits, breaker, tstate, attempts, cancelled,
          pc, target, sem, snap, wait, late, admin>>

RuntimeState == {"Absent", "Registered", "Starting", "Healthy", "Degraded",
                 "Stopping", "Stopped", "Unavailable"}
QueryState   == {"Absent", "Pending", "Running", "Completed", "Failed",
                 "Cancelled"}
Terminal     == {"Completed", "Failed", "Cancelled"}

Runtime == [state : RuntimeState, epoch : 0..MaxRegistrations,
            queued : Nat, running : Nat, completed : Nat, failed : Nat,
            cancelled : Nat, submitted : Nat]

Location ==
  {"idle", "circuit", "reserve", "absent", "reject", "rejected", "acquire",
   "granted", "running", "attempt", "transient", "fatal", "backoff",
   "succeeded", "completing", "exhausted", "failing", "cancelling",
   "release", "done"}

AdminCall == [op : {"idle", "starting", "stopping", "disconnecting",
                    "checking", "reporting"},
              source : Sources, found : RuntimeState]

TypeOK ==
  /\ runtime \in [Sources -> Runtime]
  /\ permits \in [Sources -> [1..MaxRegistrations -> Nat]]
  /\ breaker \in [Sources -> Breaker]
  /\ tstate \in [Tasks -> QueryState]
  /\ attempts \in [Tasks -> Nat]
  /\ cancelled \in [Tasks -> BOOLEAN]
  /\ pc \in [Tasks -> Location]
  /\ target \in [Tasks -> Sources]
  /\ sem \in [Tasks -> 0..MaxRegistrations]
  /\ snap \in [Tasks -> Snapshot]
  /\ wait \in [Tasks -> {"unchecked", "checked", "registered", "notified"}]
  /\ late \in [Tasks -> Nat]
  /\ admin \in [Admins -> AdminCall]

----
(* Records and initial state. *)

\* Mutant: a plain subtraction, which underflows.
PlainPred(n) == n - 1

SaturatingPred(n) == IF n > 0 THEN n - 1 ELSE 0

\* AdapterRuntimeRecord::registered with the source's n-th semaphore.
RegisteredRecord(n) ==
  [state |-> "Registered", epoch |-> n, queued |-> 0, running |-> 0,
   completed |-> 0, failed |-> 0, cancelled |-> 0, submitted |-> 0]

\* A source the runtimes map does not know.
AbsentRecord == [RegisteredRecord(0) EXCEPT !.state = "Absent"]

StartedRecord == [RegisteredRecord(1) EXCEPT !.state = "Healthy"]

IdleAdmin == [op |-> "idle", source |-> CHOOSE s \in Sources : TRUE,
              found |-> "Absent"]

Init ==
  /\ runtime = [s \in Sources |->
                  IF s \in Started THEN StartedRecord ELSE AbsentRecord]
  /\ permits = [s \in Sources |-> [n \in 1..MaxRegistrations |-> Concurrency]]
  /\ breaker = [s \in Sources |-> NoFailures]
  /\ tstate = [t \in Tasks |-> "Absent"]
  /\ attempts = [t \in Tasks |-> 0]
  /\ cancelled = [t \in Tasks |-> FALSE]
  /\ pc = [t \in Tasks |-> "idle"]
  /\ target \in [Tasks -> Sources]
  /\ sem = [t \in Tasks |-> 0]
  /\ snap = [t \in Tasks |-> SourceSnapshot(NoFailures)]
  /\ wait = [t \in Tasks |-> "unchecked"]
  /\ late = [t \in Tasks |-> 0]
  /\ admin = [a \in Admins |-> IdleAdmin]

----
(* What the critical sections on runtimes do to the record r of a source,  *)
(* given a breaker snapshot c or the state st of the task.                 *)

WithState(r, st) == [r EXCEPT !.state = st]

\* reserve_runtime_slot
CountSubmission(r, c) ==
  [r EXCEPT !.state = IF c.failure_count > 0 THEN "Degraded" ELSE @,
            !.queued = @ + 1,
            !.submitted = @ + 1]

\* mark_task_rejected
CountRejected(r, c) ==
  [r EXCEPT !.failed = @ + 1,
            !.state = IF c.open THEN "Unavailable" ELSE @]

\* Mutant: the task starts to run without leaving the queue gauge.
CountRunningStillQueued(r) == [r EXCEPT !.running = @ + 1]

\* mark_task_running
CountRunning(r) ==
  [r EXCEPT !.queued = SaturatingPred(@), !.running = @ + 1]

\* mark_task_completed
CountCompleted(r, c) ==
  [r EXCEPT !.running = SaturatingPred(@),
            !.completed = @ + 1,
            !.state = IF c.failure_count > 0 THEN "Degraded" ELSE "Healthy"]

\* The state record_adapter_failure and mark_task_failed leave.
FailureState(c) == IF c.open THEN "Unavailable" ELSE "Degraded"

\* mark_task_failed takes the task off both gauges, although it left the
\* queue when it started to run.
CountFailed(r, c) ==
  [r EXCEPT !.running = SaturatingPred(@),
            !.queued = SaturatingPred(@),
            !.failed = @ + 1,
            !.state = FailureState(c)]

\* mark_task_cancelled
CountCancelled(r, st) ==
  [r EXCEPT !.queued = IF st = "Pending" THEN SaturatingPred(@) ELSE @,
            !.running = IF st = "Running" THEN SaturatingPred(@) ELSE @,
            !.cancelled = @ + 1]

----
UpdateRuntime(t, r) == runtime' = [runtime EXCEPT ![target[t]] = r]

At(t, from) == pc[t] = from
Goto(t, to) == pc' = [pc EXCEPT ![t] = to]

\* Entering a select! builds a fresh cancelled() future.
FreshSelect(t) == wait' = [wait EXCEPT ![t] = "unchecked"]

TakeSnapshot(t) ==
  snap' = [snap EXCEPT ![t] = SourceSnapshot(breaker[target[t]])]

----
(* execute_query: submission and admission. *)

CreateTaskRecord(t) ==
  /\ At(t, "idle")
  /\ tstate' = [tstate EXCEPT ![t] = "Pending"]
  /\ Goto(t, "circuit")
  /\ UNCHANGED <<runtime, permits, breaker, attempts, cancelled, target, sem,
                 snap, wait, late, admin>>

ReadCircuit(t) ==
  /\ At(t, "circuit")
  /\ TakeSnapshot(t)
  /\ Goto(t, "reserve")
  /\ UNCHANGED <<schedVars, target, sem, wait, late, admin>>

\* The admission critical section of reserve_runtime_slot.
ReserveRuntimeSlot(t) ==
  LET r == runtime[target[t]] IN
  /\ At(t, "reserve")
  /\ \/ /\ r.state = "Absent"
        /\ Goto(t, "absent")
        /\ UNCHANGED <<runtime, sem, wait>>
     \/ /\ r.state \notin {"Absent", "Healthy", "Degraded"}
        /\ Goto(t, "reject")
        /\ UNCHANGED <<runtime, sem, wait>>
     \/ /\ r.state \in {"Healthy", "Degraded"}
        /\ snap[t].open
        /\ UpdateRuntime(t, WithState(r, "Unavailable"))
        /\ Goto(t, "reject")
        /\ UNCHANGED <<sem, wait>>
     \/ /\ r.state \in {"Healthy", "Degraded"}
        /\ ~snap[t].open
        /\ UpdateRuntime(t, CountSubmission(r, snap[t]))
        /\ sem' = [sem EXCEPT ![t] = r.epoch]
        /\ FreshSelect(t)
        /\ Goto(t, "acquire")
  /\ UNCHANGED <<permits, breaker, tstate, attempts, cancelled, target, snap,
                 late, admin>>

MarkTaskFailedWithoutRuntime(t) ==
  /\ At(t, "absent")
  /\ tstate' = [tstate EXCEPT ![t] = "Failed"]
  /\ Goto(t, "done")
  /\ UNCHANGED <<runtime, permits, breaker, attempts, cancelled, target, sem,
                 snap, wait, late, admin>>

MarkTaskRejected(t) ==
  /\ At(t, "reject")
  /\ tstate' = [tstate EXCEPT ![t] = "Failed"]
  /\ TakeSnapshot(t)
  /\ Goto(t, "rejected")
  /\ UNCHANGED <<runtime, permits, breaker, attempts, cancelled, target, sem,
                 wait, late, admin>>

CountRejection(t) ==
  /\ At(t, "rejected")
  /\ UpdateRuntime(t, CountRejected(runtime[target[t]], snap[t]))
  /\ Goto(t, "done")
  /\ UNCHANGED <<permits, breaker, tstate, attempts, cancelled, target, sem,
                 snap, wait, late, admin>>

----
(* select! { work, cancellation.cancelled() }.  cancelled() first loads    *)
(* the flag, then creates the Notified future; notify_waiters wakes only   *)
(* futures that already exist.  select! polls its branches in random       *)
(* order, so work that is ready at once may win before the flag is read.   *)

Selecting == {"acquire", "attempt", "backoff"}

\* Mutant: cancelled() waits for the notification without loading the flag.
CheckCancelledWithoutFlag(t) ==
  /\ pc[t] \in Selecting
  /\ wait[t] = "unchecked"
  /\ wait' = [wait EXCEPT ![t] = "checked"]
  /\ UNCHANGED <<schedVars, pc, target, sem, snap, late, admin>>

CheckCancelled(t) ==
  /\ pc[t] \in Selecting
  /\ wait[t] = "unchecked"
  /\ \/ /\ cancelled[t]
        /\ Goto(t, "cancelling")
        /\ UNCHANGED wait
     \/ /\ ~cancelled[t]
        /\ wait' = [wait EXCEPT ![t] = "checked"]
        /\ UNCHANGED pc
  /\ UNCHANGED <<schedVars, target, sem, snap, late, admin>>

RegisterWaiter(t) ==
  /\ pc[t] \in Selecting
  /\ wait[t] = "checked"
  /\ wait' = [wait EXCEPT ![t] = "registered"]
  /\ UNCHANGED <<schedVars, pc, target, sem, snap, late, admin>>

CancelBranch(t) ==
  /\ pc[t] \in Selecting
  /\ wait[t] = "notified"
  /\ Goto(t, "cancelling")
  /\ UNCHANGED <<schedVars, target, sem, snap, wait, late, admin>>

----
(* execute_query and execute_with_retry. *)

AcquirePermit(t) ==
  /\ At(t, "acquire")
  /\ wait[t] # "checked"
  /\ permits[target[t]][sem[t]] > 0
  /\ permits' = [permits EXCEPT ![target[t]][sem[t]] = @ - 1]
  /\ Goto(t, "granted")
  /\ UNCHANGED <<runtime, breaker, tstate, attempts, cancelled, target, sem,
                 snap, wait, late, admin>>

MarkTaskRunning(t) ==
  /\ At(t, "granted")
  /\ tstate' = [tstate EXCEPT ![t] = "Running"]
  /\ UpdateRuntime(t, CountRunning(runtime[target[t]]))
  /\ Goto(t, "running")
  /\ UNCHANGED <<permits, breaker, attempts, cancelled, target, sem, snap,
                 wait, late, admin>>

BeginAttempt(t) ==
  /\ At(t, "running")
  /\ attempts' = [attempts EXCEPT ![t] = @ + 1]
  /\ late' = [late EXCEPT ![t] = IF cancelled[t] THEN @ + 1 ELSE @]
  /\ FreshSelect(t)
  /\ Goto(t, "attempt")
  /\ UNCHANGED <<runtime, permits, breaker, tstate, cancelled, target, sem,
                 snap, admin>>

\* The adapter answers; record_adapter_success.
AttemptSucceeds(t) ==
  /\ At(t, "attempt")
  /\ wait[t] # "checked"
  /\ breaker' = [breaker EXCEPT ![target[t]] = NoFailures]
  /\ Goto(t, "succeeded")
  /\ UNCHANGED <<runtime, permits, tstate, attempts, cancelled, target, sem,
                 snap, wait, late, admin>>

\* The adapter reports an error, transient or fatal by the markers of
\* is_retryable_adapter_error, or the timeout expires, which is always
\* transient; the critical section of record_adapter_failure on circuit.
AttemptFails(t) ==
  /\ At(t, "attempt")
  /\ wait[t] # "checked"
  /\ breaker' = [breaker EXCEPT ![target[t]] = RecordFailure(@)]
  /\ snap' = [snap EXCEPT ![t] = SourceSnapshot(breaker'[target[t]])]
  /\ \E outcome \in {"transient", "fatal"} : Goto(t, outcome)
  /\ UNCHANGED <<runtime, permits, tstate, attempts, cancelled, target, sem,
                 wait, late, admin>>

\* Mutant: max_attempts counts retries, not attempts.
GivesUpOneLater(t) ==
  attempts[t] > MaxAttempts \/ At(t, "fatal") \/ snap[t].open

GivesUp(t) == attempts[t] >= MaxAttempts \/ At(t, "fatal") \/ snap[t].open

\* record_adapter_failure on runtimes, and the decision to retry.
AfterFailure(t) ==
  /\ pc[t] \in {"transient", "fatal"}
  /\ UpdateRuntime(t, WithState(runtime[target[t]], FailureState(snap[t])))
  /\ \/ GivesUp(t) /\ Goto(t, "exhausted") /\ UNCHANGED wait
     \/ ~GivesUp(t) /\ Goto(t, "backoff") /\ FreshSelect(t)
  /\ UNCHANGED <<permits, breaker, tstate, attempts, cancelled, target, sem,
                 snap, late, admin>>

\* The sleep of sleep_backoff is never over when it is first polled, so the
\* cancelled() future has been polled too.
BackoffOver(t) ==
  /\ At(t, "backoff")
  /\ wait[t] \in {"registered", "notified"}
  /\ Goto(t, "running")
  /\ UNCHANGED <<schedVars, target, sem, snap, wait, late, admin>>

----
(* The end of execute_query. *)

MarkTaskCompleted(t) ==
  /\ At(t, "succeeded")
  /\ tstate' = [tstate EXCEPT ![t] = "Completed"]
  /\ TakeSnapshot(t)
  /\ Goto(t, "completing")
  /\ UNCHANGED <<runtime, permits, breaker, attempts, cancelled, target, sem,
                 wait, late, admin>>

CountCompletion(t) ==
  /\ At(t, "completing")
  /\ UpdateRuntime(t, CountCompleted(runtime[target[t]], snap[t]))
  /\ Goto(t, "release")
  /\ UNCHANGED <<permits, breaker, tstate, attempts, cancelled, target, sem,
                 snap, wait, late, admin>>

MarkTaskFailed(t) ==
  /\ At(t, "exhausted")
  /\ tstate' = [tstate EXCEPT ![t] = "Failed"]
  /\ TakeSnapshot(t)
  /\ Goto(t, "failing")
  /\ UNCHANGED <<runtime, permits, breaker, attempts, cancelled, target, sem,
                 wait, late, admin>>

CountFailure(t) ==
  /\ At(t, "failing")
  /\ UpdateRuntime(t, CountFailed(runtime[target[t]], snap[t]))
  /\ Goto(t, "release")
  /\ UNCHANGED <<permits, breaker, tstate, attempts, cancelled, target, sem,
                 snap, wait, late, admin>>

\* Mutant: a cancelled task always drops a permit, held or not.
MarkTaskCancelledAlwaysReleases(t) ==
  /\ At(t, "cancelling")
  /\ tstate' = [tstate EXCEPT ![t] = "Cancelled"]
  /\ UpdateRuntime(t, CountCancelled(runtime[target[t]], tstate[t]))
  /\ Goto(t, "release")
  /\ UNCHANGED <<permits, breaker, attempts, cancelled, target, sem, snap,
                 wait, late, admin>>

\* A task cancelled while it waited for its permit holds none.
MarkTaskCancelled(t) ==
  /\ At(t, "cancelling")
  /\ tstate' = [tstate EXCEPT ![t] = "Cancelled"]
  /\ UpdateRuntime(t, CountCancelled(runtime[target[t]], tstate[t]))
  /\ \/ tstate[t] = "Pending" /\ Goto(t, "done")
     \/ tstate[t] = "Running" /\ Goto(t, "release")
  /\ UNCHANGED <<permits, breaker, attempts, cancelled, target, sem, snap,
                 wait, late, admin>>

\* Mutant: the permit is forgotten, not dropped.
ReleasePermitForgotten(t) ==
  /\ At(t, "release")
  /\ Goto(t, "done")
  /\ UNCHANGED <<schedVars, target, sem, snap, wait, late, admin>>

\* drop(permit), to the semaphore the permit came from.
ReleasePermit(t) ==
  /\ At(t, "release")
  /\ permits' = [permits EXCEPT ![target[t]][sem[t]] = @ + 1]
  /\ Goto(t, "done")
  /\ UNCHANGED <<runtime, breaker, tstate, attempts, cancelled, target, sem,
                 snap, wait, late, admin>>

----
(* Users and administrators. *)

Cancellable(t) == tstate[t] \notin Terminal \cup {"Absent"}

\* QueryCancellation::cancel of every task in C.
Cancel(C) ==
  /\ cancelled' = [t \in Tasks |-> t \in C \/ cancelled[t]]
  /\ wait' = [t \in Tasks |-> IF t \in C /\ wait[t] = "registered"
                              THEN "notified" ELSE wait[t]]

CancelTask(t) ==
  /\ Cancellable(t)
  /\ Cancel({t})
  /\ UNCHANGED <<runtime, permits, breaker, tstate, attempts, pc, target, sem,
                 snap, late, admin>>

RegisterAdapter(s) ==
  /\ runtime[s].epoch < MaxRegistrations
  /\ runtime' = [runtime EXCEPT ![s] = RegisteredRecord(@.epoch + 1)]
  /\ UNCHANGED <<permits, breaker, tstate, attempts, cancelled, pc, target,
                 sem, snap, wait, late, admin>>

\* Administrator a goes on with the call op for source s; found is what the
\* call remembers of the record it saw.
Calls(a, op, s, found) ==
  admin' = [admin EXCEPT ![a] = [op |-> op, source |-> s, found |-> found]]

Returns(a) == admin' = [admin EXCEPT ![a] = IdleAdmin]

SetState(s, states) ==
  \E st \in states : runtime' = [runtime EXCEPT ![s] = WithState(@, st)]

StartAdapter(a, s) ==
  /\ admin[a].op = "idle"
  /\ runtime[s].state # "Absent"
  /\ SetState(s, {"Starting"})
  /\ Calls(a, "starting", s, "Starting")
  /\ UNCHANGED <<permits, breaker, tstate, attempts, cancelled, pc, target,
                 sem, snap, wait, late>>

\* The adapter's connect returned.
StartDone(a) ==
  /\ admin[a].op = "starting"
  /\ SetState(admin[a].source, {"Healthy", "Unavailable"})
  /\ Returns(a)
  /\ UNCHANGED <<permits, breaker, tstate, attempts, cancelled, pc, target,
                 sem, snap, wait, late>>

StopAdapter(a, s) ==
  /\ admin[a].op = "idle"
  /\ runtime[s].state # "Absent"
  /\ SetState(s, {"Stopping"})
  /\ Calls(a, "stopping", s, "Stopping")
  /\ UNCHANGED <<permits, breaker, tstate, attempts, cancelled, pc, target,
                 sem, snap, wait, late>>

StopCancelTasks(a) ==
  /\ admin[a].op = "stopping"
  /\ Cancel({t \in Tasks : target[t] = admin[a].source /\ Cancellable(t)})
  /\ Calls(a, "disconnecting", admin[a].source, "Stopping")
  /\ UNCHANGED <<runtime, permits, breaker, tstate, attempts, pc, target,
                 sem, snap, late>>

\* The adapter's disconnect returned.
StopDone(a) ==
  /\ admin[a].op = "disconnecting"
  /\ SetState(admin[a].source, {"Stopped", "Degraded"})
  /\ Returns(a)
  /\ UNCHANGED <<permits, breaker, tstate, attempts, cancelled, pc, target,
                 sem, snap, wait, late>>

\* Reads the record; a source that is not in operation is not probed.
RefreshHealth(a, s) ==
  /\ admin[a].op = "idle"
  /\ runtime[s].state \in {"Healthy", "Degraded", "Unavailable"}
  /\ Calls(a, "checking", s, runtime[s].state)
  /\ UNCHANGED <<schedVars, pc, target, sem, snap, wait, late>>

\* The state the health check calls for, with the breaker as it is now.
ProbedState(c) ==
  {IF c.open THEN "Unavailable"
   ELSE IF c.failure_count > 0 THEN "Degraded" ELSE "Healthy",
   "Degraded", "Unavailable"}

RefreshProbe(a) ==
  /\ admin[a].op = "checking"
  /\ \E st \in ProbedState(SourceSnapshot(breaker[admin[a].source])) :
       Calls(a, "reporting", admin[a].source, st)
  /\ UNCHANGED <<schedVars, pc, target, sem, snap, wait, late>>

\* Written whatever the state has become since it was read.
RefreshDone(a) ==
  /\ admin[a].op = "reporting"
  /\ SetState(admin[a].source, {admin[a].found})
  /\ Returns(a)
  /\ UNCHANGED <<permits, breaker, tstate, attempts, cancelled, pc, target,
                 sem, snap, wait, late>>

BackoffElapses(s) ==
  /\ breaker[s].opened_at = "recent"
  /\ breaker' = [breaker EXCEPT ![s] = BackoffElapsed(@)]
  /\ UNCHANGED <<runtime, permits, tstate, attempts, cancelled, pc, target,
                 sem, snap, wait, late, admin>>

----
(* execute_query of t goes on by itself, except for the permit. *)
TaskStep(t) ==
  \/ ReadCircuit(t) \/ ReserveRuntimeSlot(t)
  \/ MarkTaskFailedWithoutRuntime(t) \/ MarkTaskRejected(t)
  \/ CountRejection(t)
  \/ CheckCancelled(t) \/ RegisterWaiter(t) \/ CancelBranch(t)
  \/ MarkTaskRunning(t) \/ BeginAttempt(t)
  \/ AttemptSucceeds(t) \/ AttemptFails(t) \/ AfterFailure(t)
  \/ BackoffOver(t)
  \/ MarkTaskCompleted(t) \/ CountCompletion(t)
  \/ MarkTaskFailed(t) \/ CountFailure(t)
  \/ MarkTaskCancelled(t) \/ ReleasePermit(t)

AdminStep(a) ==
  \/ \E s \in Sources :
       StartAdapter(a, s) \/ StopAdapter(a, s) \/ RefreshHealth(a, s)
  \/ StartDone(a) \/ StopCancelTasks(a) \/ StopDone(a)
  \/ RefreshProbe(a) \/ RefreshDone(a)

Next ==
  \/ \E t \in Tasks : CreateTaskRecord(t) \/ AcquirePermit(t)
                        \/ TaskStep(t) \/ CancelTask(t)
  \/ \E a \in Admins : AdminStep(a)
  \/ \E s \in Sources : RegisterAdapter(s) \/ BackoffElapses(s)

Spec == Init /\ [][Next]_vars

\* The runtime polls every ready future, an attempt ends at the latest by its
\* timeout, and the semaphore serves its queue first in, first out.
Fairness ==
  \A t \in Tasks : WF_vars(TaskStep(t)) /\ SF_vars(AcquirePermit(t))

FairSpec == Spec /\ Fairness

----
(* Properties. *)

\* t waits for a permit, or for its cancellation to be counted.
Queueing(t) ==
  \/ pc[t] \in {"acquire", "granted"}
  \/ pc[t] = "cancelling" /\ tstate[t] = "Pending"

\* t is on the running gauge.
Executing(t) ==
  \/ pc[t] \in {"running", "attempt", "transient", "fatal", "backoff",
                "succeeded", "completing", "exhausted", "failing"}
  \/ pc[t] = "cancelling" /\ tstate[t] = "Running"

HoldsPermit(t) == pc[t] \in {"granted", "release"} \/ Executing(t)

Holders(s, n) == {t \in Tasks : HoldsPermit(t) /\ target[t] = s /\ sem[t] = n}

\* No interleaving of queries, cancellations, lost wakeups, stops and
\* re-registrations leaks a permit of a semaphore or gives one back twice:
\* the free ones and those of the tasks between acquire_owned and
\* drop(permit) are always the adapter's concurrency.
PermitConservation ==
  \A s \in Sources : \A n \in 1..MaxRegistrations :
    permits[s][n] + Cardinality(Holders(s, n)) = Concurrency

\* Where a task stands in execute_query agrees with what the tasks map says
\* of it, so mark_task_cancelled takes a task off the right gauge, and
\* mark_task_failed follows an attempt.
LocationMatchesState ==
  \A t \in Tasks :
    /\ pc[t] \in {"circuit", "reserve", "acquire", "granted"} =>
         tstate[t] = "Pending"
    /\ pc[t] \in {"running", "attempt", "transient", "fatal", "backoff",
                  "succeeded", "exhausted"} => tstate[t] = "Running"
    /\ pc[t] = "cancelling" => tstate[t] \in {"Pending", "Running"}
    /\ pc[t] = "failing" => tstate[t] = "Failed"
    /\ pc[t] \in {"attempt", "transient", "fatal", "backoff", "exhausted",
                  "failing"} => attempts[t] > 0

\* queued_tasks and running_tasks of a health snapshot never exceed the
\* tasks that are queued or running, so they are 0 once a source is drained,
\* although a re-registration resets both under the tasks' feet.  This is an
\* upper bound only: how far queued_tasks may fall behind is said next.
GaugesNeverOverReport ==
  \A s \in Sources :
    /\ runtime[s].queued <=
         Cardinality({t \in Tasks : Queueing(t) /\ target[t] = s})
    /\ runtime[s].running <=
         Cardinality({t \in Tasks : Executing(t) /\ target[t] = s})

\* t ran and failed, and mark_task_failed has counted it.
FailedAfterRunning(t) ==
  tstate[t] = "Failed" /\ attempts[t] > 0 /\ pc[t] \in {"release", "done"}

\* queued_tasks of a source that was never re-registered is short of the
\* queued tasks by no more than one for each query that ran and failed:
\* mark_task_failed takes a failed query off the queue gauge a second time,
\* and with it a task that still waits; nothing else hides one.  Before the
\* first failure the gauge is exact.
QueueGaugeShortByFailures ==
  \A s \in Sources :
    runtime[s].epoch <= 1 =>
      Cardinality({t \in Tasks : Queueing(t) /\ target[t] = s}) <=
        runtime[s].queued +
          Cardinality({t \in Tasks : FailedAfterRunning(t) /\ target[t] = s})

\* running_tasks is exact for a source that was never re-registered: its
\* saturating decrements never saturate.
RunningGaugeExact ==
  \A s \in Sources :
    runtime[s].epoch <= 1 =>
      runtime[s].running =
        Cardinality({t \in Tasks : Executing(t) /\ target[t] = s})

\* Every query of a source that was never re-registered, a rejected one too,
\* is counted in exactly one of completed, failed and cancelled_tasks.
OutcomesCountedOnce ==
  \A s \in Started :
    runtime[s].epoch = 1 =>
      runtime[s].completed + runtime[s].failed + runtime[s].cancelled =
        Cardinality({t \in Tasks : /\ pc[t] \in {"release", "done"}
                                   /\ target[t] = s})

\* execute_with_retry never tries an adapter more than max_attempts times
\* (once when max_attempts is 0), whatever the breaker does meanwhile.
AttemptsBounded == \A t \in Tasks : attempts[t] <= 1 \/ attempts[t] <= MaxAttempts

\* At most one attempt begins after cancel_task returned true, even when the
\* wakeup falls between the flag check and the registration of the waiter.
CancelStopsRetries == \A t \in Tasks : late[t] <= 1

\* Why both hold: a task runs on only while attempts are left, and a task
\* that has begun an attempt after its cancellation finds the flag set when
\* it next polls the cancelled() future of a backoff.
RetryInv ==
  \A t \in Tasks :
    /\ attempts[t] <= 1 \/ attempts[t] <= MaxAttempts
    /\ pc[t] = "backoff" => attempts[t] < MaxAttempts
    /\ pc[t] = "running" => attempts[t] = 0 \/ attempts[t] < MaxAttempts
    /\ pc[t] \in {"idle", "circuit", "reserve", "acquire", "granted"} =>
         attempts[t] = 0 /\ late[t] = 0
    /\ late[t] <= 1
    /\ late[t] = 1 => /\ cancelled[t]
                      /\ pc[t] # "running"
                      /\ pc[t] = "backoff" => wait[t] = "unchecked"


\* A submitted query ends, and gives its permit back, whatever happens to
\* its adapter: no lost wakeup or leaked permit blocks it for ever.
QueriesTerminate ==
  \A t \in Tasks :
    tstate[t] = "Pending" ~> tstate[t] \in Terminal /\ pc[t] = "done"

\* "连续 N 次失败后停止尝试" (after N consecutive failures stop trying): the
\* failure that makes the count reach or pass the threshold leaves the
\* circuit open.
FailuresOpenCircuit ==
  [][\A s \in Sources :
       /\ breaker'[s].failures > breaker[s].failures
       /\ Threshold > 0
       /\ breaker'[s].failures >= Threshold
       => ~Allow(breaker'[s])]_vars

\* What the gauges rest on: only a source that the runtimes map knows has
\* tasks past admission and administrators at work, and the sources of
\* from_started_configs are always known, so that none of their tasks ends
\* uncounted in mark_task_failed_without_runtime.
SourcesKnown ==
  /\ \A s \in Sources : runtime[s].state = "Absent" <=> runtime[s].epoch = 0
  /\ \A s \in Started : runtime[s].epoch # 0
  /\ \A t \in Tasks :
       /\ pc[t] = "absent" => target[t] \notin Started
       /\ pc[t] \notin {"idle", "circuit", "reserve", "absent", "done"} =>
            runtime[target[t]].epoch # 0
  /\ \A a \in Admins :
       admin[a].op # "idle" => /\ runtime[admin[a].source].epoch # 0
                               /\ admin[a].found # "Absent"

\* What a health snapshot says of a source: its gauges never show more than
\* there is; unless the source was registered anew, running_tasks is exact,
\* queued_tasks is short by at most the queries that ran and failed, and
\* every query is counted in one outcome (AdapterHealthSnapshot).
GaugesFaithful ==
  /\ LocationMatchesState
  /\ RunningGaugeExact
  /\ GaugesNeverOverReport
  /\ QueueGaugeShortByFailures
  /\ OutcomesCountedOnce
=============================================================================
