----------------------------- MODULE MCQueries ------------------------------
(* What must eventually happen to a query: in the adapter's scheduler, in  *)
(* the queue served by workers, and in the API that runs queries itself.   *)
(* The variable part says which of the three is explored.                  *)
EXTENDS MCInProcessQuery

VARIABLES
  runtime, permits, breaker, tstate, attempts, cancelled, pc, target, sem, snap, wait, late, admin,
  row, reg, cached, submit, cancel, sync, worker, workerBreaker, events, faults,
  part

schedulerVars == <<runtime, permits, breaker, tstate, attempts, cancelled, pc, target, sem, snap,
                   wait, late, admin>>
queueVars == <<row, reg, cached, submit, cancel, sync, worker, workerBreaker, events, faults>>

\* Two queries compete for one permit of an adapter.
Scheduler == INSTANCE AdapterScheduler WITH
  Sources <- {"source"}, Started <- {"source"}, Admins <- {},
  Concurrency <- 1, MaxAttempts <- 2, MaxRegistrations <- 1, Threshold <- 2

\* Two tasks of their own keys and priorities, Low and Critical, for one
\* worker; attempts fail and the API fails or crashes once.
Queue == INSTANCE QueryQueue WITH
  Workers <- {"worker"}, Priority <- <<25, 100>>, CacheKey <- <<"k1", "k2">>, Cancels <- {}, Asks <- <<>>,
  MaxAttempts <- 2, MaxApiFaults <- 1, MaxAuditFaults <- 0, MaxWorkerFaults <- 0, Threshold <- 2,
  breaker <- workerBreaker

MCInit ==
  /\ InProcInit /\ Scheduler!Init /\ Queue!Init
  /\ part \in {"scheduler", "queue", "api"}
  /\ part # "api" => withDatabase

MCNext ==
  /\ \/ part = "scheduler" /\ Scheduler!Next /\ UNCHANGED <<queueVars, queryVars>>
     \/ part = "queue" /\ Queue!Next /\ UNCHANGED <<schedulerVars, queryVars>>
     \/ part = "api" /\ InProcStep /\ grantChanges' = 0 /\ UNCHANGED <<schedulerVars, queueVars>>
  /\ part' = part

MCFairness ==
  \/ <>[](part = "scheduler") /\ Scheduler!Fairness
  \/ <>[](part = "queue") /\ Queue!Fairness
  \/ <>[](part = "api") /\ InProcFairness

MCSpec == MCInit /\ [][MCNext]_<<queryVars, schedulerVars, queueVars, part>> /\ MCFairness

\* Every query the scheduler accepts ends and gives its permit back
\* (AdapterLifecycleScheduler::execute_query).
QueriesTerminate == Scheduler!QueriesTerminate

\* Every accepted task ends, and its outcome reaches the audit log and the
\* registry (query_tasks, the worker's loop and the API's loop).
EveryTaskSettles == Queue!EveryTaskSettles
=============================================================================
