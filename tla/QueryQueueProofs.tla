-------------------------- MODULE QueryQueueProofs --------------------------
(* Theorems about the durable query queue, for any tasks, workers and      *)
(* bounds: the types, then the inductive invariant QueueInv action by      *)
(* action, then what it implies.  Theorems about the classification that   *)
(* follows a query, for any rules, patterns, detections and reviewers: its *)
(* invariant PoliciesInv says between the statements what the properties   *)
(* say of the tables, of the copies that detections and reviews hold.      *)
(* Theorems about the governance of the behaviour rules, for any editors,  *)
(* rules, activities and bounds: RulesInv says what a request holds at     *)
(* each of its statements, and what it knows as long as it met nobody.     *)
EXTENDS QueryQueue, DataPolicies, UebaRules, FiniteSetTheorems, WellFoundedInduction, TLAPS

LEMMA BreakerTypes ==
  /\ \A b \in Breaker : RecordFailure(b) \in Breaker /\ BackoffElapsed(b) \in Breaker
  /\ NoFailures \in Breaker
BY ThresholdAssumption DEF Breaker, RecordFailure, BackoffElapsed, NoFailures

LEMMA EntryTypes ==
  /\ NoEntry \in Entry /\ NoRow \in Row
  /\ \A r \in Row : View(r) \in Entry
  /\ \A e \in Entry, s \in State : [e EXCEPT !.state = s] \in Entry
BY DEF NoEntry, NoRow, Entry, Row, View, State, Stored

LEMMA RowTypes ==
  ASSUME NEW r \in Row
  PROVE  /\ \A e \in Entry : [r EXCEPT !.state = e.state, !.snapshot = e.snapshot] \in Row
         /\ [r EXCEPT !.audited = TRUE] \in Row
         /\ [r EXCEPT !.state = "Running", !.attempts = @ + 1] \in Row
         /\ \A s \in Stored : Completed(r, s) \in Row
         /\ Failed(r) \in Row
         /\ Retried(r) \in Row
<1> USE DEF Row, Entry, State, Stored
<1>1. r.attempts + 1 \in Nat OBVIOUS
<1>2. \A s \in Stored : Completed(r, s) \in Row BY DEF Completed
<1>3. Failed(r) \in Row /\ Retried(r) \in Row BY DEF Failed, Retried
<1>4. \A e \in Entry : [r EXCEPT !.state = e.state, !.snapshot = e.snapshot] \in Row OBVIOUS
<1>5. [r EXCEPT !.audited = TRUE] \in Row OBVIOUS
<1>6. [r EXCEPT !.state = "Running", !.attempts = @ + 1] \in Row BY <1>1
<1> QED BY <1>2, <1>3, <1>4, <1>5, <1>6

LEMMA WorkTypes ==
  ASSUME TypeOK, NEW w \in Workers
  PROVE  /\ IdleWorker \in Work
         /\ \A pc \in {"lookup", "hit", "open", "execute", "store", "failure"} :
              [worker[w] EXCEPT !.pc = pc] \in Work
         /\ \A pc \in {"recheck", "complete"} :
            \A r \in {"rows", "transient", "fatal", "stored", "missing"} :
              [worker[w] EXCEPT !.pc = pc, !.result = r] \in Work
<1> USE DEF TypeOK
<1>1. IdleWorker \in Work BY QueueAssumption DEF IdleWorker, Work
<1>2. worker[w] \in Work OBVIOUS
<1>3. \A pc \in {"lookup", "hit", "open", "execute", "store", "failure"} :
        [worker[w] EXCEPT !.pc = pc] \in Work
  BY <1>2 DEF Work
<1>4. \A pc \in {"recheck", "complete"} :
      \A r \in {"rows", "transient", "fatal", "stored", "missing"} :
        [worker[w] EXCEPT !.pc = pc, !.result = r] \in Work
  BY <1>2 DEF Work
<1> QED BY <1>1, <1>3, <1>4

LEMMA FaultTypes ==
  ASSUME TypeOK, ApiFault \/ AuditFault \/ WorkerFault
  PROVE  faults' \in [api : 0..MaxApiFaults, audit : 0..MaxAuditFaults,
                      worker : 0..MaxWorkerFaults]
<1> USE QueueAssumption DEF TypeOK
<1>1. CASE ApiFault
  <2>1. faults.api + 1 \in 0..MaxApiFaults BY <1>1 DEF ApiFault
  <2> QED BY <1>1, <2>1 DEF ApiFault
<1>2. CASE AuditFault
  <2>1. faults.audit + 1 \in 0..MaxAuditFaults BY <1>2 DEF AuditFault
  <2> QED BY <1>2, <2>1 DEF AuditFault
<1>3. CASE WorkerFault
  <2>1. faults.worker + 1 \in 0..MaxWorkerFaults BY <1>3 DEF WorkerFault
  <2> QED BY <1>3, <2>1 DEF WorkerFault
<1> QED BY <1>1, <1>2, <1>3

LEMMA SubmitTypeOK ==
  ASSUME TypeOK, NEW t \in Tasks, SubmitStep(t) \/ SaveTaskFails(t)
  PROVE  TypeOK'
<1> USE EntryTypes, RowTypes, FaultTypes DEF TypeOK, workerVars, State
<1>1. CASE CreateTask(t) BY <1>1 DEF CreateTask
<1>2. CASE SaveTask(t) BY <1>2 DEF SaveTask
<1>3. CASE SaveTaskFails(t) BY <1>3 DEF SaveTaskFails
<1> QED BY <1>1, <1>2, <1>3 DEF SubmitStep

LEMMA CancelTypeOK ==
  ASSUME TypeOK, NEW c \in Cancels,
         CancelInRegistry(c) \/ CancelStep(c) \/ SaveTaskStateFails(c) \/ AuditCancelFails(c)
  PROVE  TypeOK'
<1> USE EntryTypes, RowTypes, FaultTypes DEF TypeOK, workerVars
<1> DEFINE Asking == [pc : {"idle", "persist", "write", "log", "accepted", "lost"}, entry : Entry]
<1>0. /\ Asks[c] \in Tasks /\ "Cancelled" \in State /\ "Cancelled" \in Terminal
      /\ cancel[c].entry \in Entry /\ reg[Asks[c]] \in Entry /\ row[Asks[c]] \in Row
  BY QueueAssumption DEF State, Terminal
<1>1. CASE CancelInRegistry(c)
  <2>1. reg' \in [Tasks -> Entry] BY <1>0, <1>1 DEF CancelInRegistry
  <2>2. cancel' \in [Cancels -> Asking] BY <1>1 DEF CancelInRegistry
  <2> QED BY <1>1, <2>1, <2>2 DEF CancelInRegistry
<1>2. CASE ReadForPersist(c)
  <2>1. cancel' \in [Cancels -> Asking] BY <1>0, <1>2 DEF ReadForPersist
  <2> QED BY <1>2, <2>1 DEF ReadForPersist
<1>3. CASE SaveTaskState(c)
  <2>1. row' \in [Tasks -> Row] BY <1>0, <1>3 DEF SaveTaskState
  <2> QED BY <1>3, <2>1 DEF SaveTaskState
<1>4. CASE SaveTaskStateFails(c) BY <1>4 DEF SaveTaskStateFails
<1>5. CASE AuditCancel(c)
  <2>1. events' \in [Tasks -> SUBSET Terminal] BY <1>0, <1>5 DEF AuditCancel
  <2> QED BY <1>5, <2>1 DEF AuditCancel
<1>6. CASE AuditCancelFails(c) BY <1>6 DEF AuditCancelFails
<1> QED BY <1>1, <1>2, <1>3, <1>4, <1>5, <1>6 DEF CancelStep

LEMMA SyncTypeOK ==
  ASSUME TypeOK, LocalInv, NEW t \in Tasks,
         \/ SyncLoad \/ SyncApply \/ LoadUnaudited \/ SyncReadFails \/ ApiCrash
         \/ AppendAudit(t) \/ AppendAuditFails(t) \/ MarkAudited(t) \/ MarkAuditedFails(t)
  PROVE  TypeOK'
<1> USE EntryTypes, RowTypes, FaultTypes DEF TypeOK, workerVars
<1>0. ASSUME Audited(t)
      PROVE  sync' \in [pc : {"load", "apply", "unaudited", "audit", "mark"},
                        rows : [Tasks -> Entry], todo : SUBSET Tasks, now : SUBSET Tasks]
  <2>1. CASE sync.todo = {t} BY <1>0, <2>1 DEF Audited, IdleSync
  <2>2. CASE sync.todo # {t} BY <1>0, <2>2 DEF Audited
  <2> QED BY <2>1, <2>2
<1>1. CASE SyncLoad BY <1>1 DEF SyncLoad
<1>2. CASE SyncApply BY <1>2 DEF SyncApply, IdleSync
<1>3. CASE LoadUnaudited BY <1>3 DEF LoadUnaudited
<1>4. CASE AppendAudit(t)
  <2>1. sync.rows[t].state \in Terminal BY <1>4 DEF AppendAudit, LocalInv
  <2>2. events' \in [Tasks -> SUBSET Terminal] BY <1>4, <2>1 DEF AppendAudit
  <2> QED BY <1>4, <2>2 DEF AppendAudit
<1>5. CASE AppendAuditFails(t) BY <1>5 DEF AppendAuditFails
<1>6. CASE MarkAudited(t) BY <1>6, <1>0 DEF MarkAudited
<1>7. CASE MarkAuditedFails(t) BY <1>7, <1>0 DEF MarkAuditedFails
<1>8. CASE SyncReadFails BY <1>8 DEF SyncReadFails
<1>9. CASE ApiCrash BY <1>9 DEF ApiCrash, IdleSync
<1> QED BY <1>1, <1>2, <1>3, <1>4, <1>5, <1>6, <1>7, <1>8, <1>9

\* A worker's step keeps the types of what it changes.
LEMMA WorkerTypeOK ==
  ASSUME TypeOK, LocalInv, NEW w \in Workers,
         \/ WorkerStep(w) \/ StoreSnapshotFails(w) \/ UpdateLost(w)
         \/ ReadFails(w) \/ WorkerCrash(w) \/ BackoffElapses(w)
  PROVE  TypeOK'
<1> USE FaultTypes DEF TypeOK, apiVars
<1>0. /\ Job(w) \in Tasks /\ row[Job(w)] \in Row /\ worker[w] \in Work /\ breaker[w] \in Breaker
  BY DEF Job, Work
<1>a. ASSUME NEW r \in Row, UpdateRow(Job(w), r) PROVE row' \in [Tasks -> Row] BY <1>0, <1>a DEF UpdateRow
<1>b. ASSUME Done(w) PROVE worker' \in [Workers -> Work] BY <1>b, WorkTypes DEF Done
<1>c. ASSUME NEW pc \in {"lookup", "hit", "open", "execute", "store", "failure"}, Goto(w, pc)
      PROVE  worker' \in [Workers -> Work]
  BY <1>c, WorkTypes DEF Goto
<1>d. /\ AfterMiss(w) \in {"execute", "open"}
      /\ AfterCheck(w) \in {"lookup", "store", "failure"}
  BY DEF AfterMiss, AfterCheck
<1>1. ASSUME NEW t \in Tasks, ClaimNextQueryTask(w, t) PROVE TypeOK'
  <2>1. row' \in [Tasks -> Row] BY <1>1, RowTypes DEF ClaimNextQueryTask
  <2>2. row'[t].attempts \in Nat BY <2>1 DEF Row
  <2>3. [pc |-> "check", task |-> t, attempts |-> row'[t].attempts, result |-> "none"] \in Work
    BY <2>2 DEF Work
  <2> QED BY <1>1, <2>1, <2>3 DEF ClaimNextQueryTask
<1>2. CASE CheckTaskState(w)
  <2>1. worker' \in [Workers -> Work] BY <1>2, <1>b, <1>c, <1>d DEF CheckTaskState
  <2> QED BY <1>2, <2>1 DEF CheckTaskState
<1>3. CASE LookUp(w)
  <2>1. worker' \in [Workers -> Work] BY <1>3, <1>c, <1>d DEF LookUp
  <2> QED BY <1>3, <2>1 DEF LookUp
<1>4. CASE CompleteFromCache(w)
  <2>1. Completed(row[Job(w)], "stored") \in Row BY <1>0, RowTypes DEF Stored
  <2> QED BY <1>4, <2>1, <1>a, <1>b DEF CompleteFromCache
<1>5. CASE FailBreakerOpen(w)
  <2>1. Failed(row[Job(w)]) \in Row BY <1>0, RowTypes
  <2> QED BY <1>5, <2>1, <1>a, <1>b DEF FailBreakerOpen
<1>6. CASE ExecuteQuery(w)
  <2>1. PICK result \in {"rows", "transient", "fatal"} :
          worker' = [worker EXCEPT ![w].pc = "recheck", ![w].result = result]
    BY <1>6 DEF ExecuteQuery
  <2>2. worker' = [worker EXCEPT ![w] = [worker[w] EXCEPT !.pc = "recheck", !.result = result]] BY <2>1
  <2>3. worker' \in [Workers -> Work] BY <2>2, WorkTypes
  <2> QED BY <1>6, <2>3 DEF ExecuteQuery
<1>7. CASE StoreSnapshot(w)
  <2>1. worker' \in [Workers -> Work] BY <1>7, WorkTypes DEF StoreSnapshot
  <2> QED BY <1>7, <1>0, <2>1 DEF StoreSnapshot
<1>8. CASE CompleteTask(w)
  <2>1. worker[w].result \in Stored BY <1>8 DEF CompleteTask, LocalInv, At, Stored
  <2>2. Completed(row[Job(w)], worker[w].result) \in Row BY <1>0, <2>1, RowTypes
  <2> QED BY <1>8, <2>2, <1>a, <1>b, BreakerTypes DEF CompleteTask
<1>9. CASE HandleTaskFailure(w)
  <2>1. Failed(row[Job(w)]) \in Row /\ Retried(row[Job(w)]) \in Row BY <1>0, RowTypes
  <2>2. row' \in [Tasks -> Row] BY <1>9, <2>1, <1>a DEF HandleTaskFailure
  <2> QED BY <1>9, <1>0, <2>2, <1>b, BreakerTypes DEF HandleTaskFailure
<1>10. CASE StoreSnapshotFails(w)
  <2>1. worker' \in [Workers -> Work]
    <3>1. CASE Goto(w, "failure") BY <3>1, <1>c
    <3>2. ASSUME NEW result \in {"missing", "stored"},
                 worker' = [worker EXCEPT ![w].pc = "complete", ![w].result = result]
          PROVE  worker' \in [Workers -> Work]
      <4>1. worker' = [worker EXCEPT
              ![w] = [worker[w] EXCEPT !.pc = "complete", !.result = result]]
        BY <3>2
      <4> QED BY <4>1, WorkTypes
    <3> QED BY <1>10, <3>1, <3>2 DEF StoreSnapshotFails
  <2> QED BY <1>10, <2>1 DEF StoreSnapshotFails
<1>11. CASE UpdateLost(w)
  <2>1. breaker' \in [Workers -> Breaker] BY <1>11, <1>0, BreakerTypes DEF UpdateLost
  <2> QED BY <1>11, <1>b, <2>1 DEF UpdateLost
<1>12. CASE ReadFails(w)
  <2>1. worker' \in [Workers -> Work] BY <1>12, <1>c, <1>d DEF ReadFails
  <2> QED BY <1>12, <2>1 DEF ReadFails
<1>13. CASE WorkerCrash(w) BY <1>13, <1>b, BreakerTypes DEF WorkerCrash
<1>14. CASE BackoffElapses(w)
  <2>1. breaker' \in [Workers -> Breaker] BY <1>14, <1>0, BreakerTypes DEF BackoffElapses
  <2> QED BY <1>14, <2>1 DEF BackoffElapses
<1> QED BY <1>1, <1>2, <1>3, <1>4, <1>5, <1>6, <1>7, <1>8, <1>9, <1>10, <1>11,
           <1>12, <1>13, <1>14 DEF WorkerStep

LEMMA NextTypeOK == TypeOK /\ LocalInv /\ [Next]_vars => TypeOK'
<1> SUFFICES ASSUME TypeOK, LocalInv, [Next]_vars PROVE TypeOK' OBVIOUS
<1>0. Tasks # {} BY QueueAssumption
<1>1. ASSUME NEW t \in Tasks, SubmitStep(t) \/ SaveTaskFails(t) PROVE TypeOK' BY <1>1, SubmitTypeOK
<1>2. ASSUME NEW c \in Cancels,
             CancelInRegistry(c) \/ CancelStep(c) \/ SaveTaskStateFails(c) \/ AuditCancelFails(c)
      PROVE  TypeOK'
  BY <1>2, CancelTypeOK
<1>3. ASSUME NEW t \in Tasks,
             AppendAudit(t) \/ AppendAuditFails(t) \/ MarkAudited(t) \/ MarkAuditedFails(t)
      PROVE  TypeOK'
  BY <1>3, SyncTypeOK
<1>4. CASE SyncLoad \/ SyncApply \/ LoadUnaudited \/ SyncReadFails \/ ApiCrash BY <1>0, <1>4, SyncTypeOK
<1>5. ASSUME NEW w \in Workers,
             \/ WorkerStep(w) \/ StoreSnapshotFails(w) \/ UpdateLost(w)
             \/ ReadFails(w) \/ WorkerCrash(w) \/ BackoffElapses(w)
      PROVE  TypeOK'
  BY <1>5, WorkerTypeOK
<1>6. CASE UNCHANGED vars BY <1>6 DEF vars, workerVars, TypeOK
<1> QED BY <1>1, <1>2, <1>3, <1>4, <1>5, <1>6 DEF Next, SyncStep, Faults

----
(* The other parts of the invariant. *)

\* What QueueInv says beside the types.
Parts == LocalInv /\ RowInv /\ WorkerInv /\ AttemptsInv /\ ReportInv /\ SnapshotInv

LEMMA SubmitParts ==
  ASSUME QueueInv, NEW t \in Tasks, SubmitStep(t) \/ SaveTaskFails(t)
  PROVE  Parts'
<1> USE DEF QueueInv, TypeOK, workerVars, NoEntry, NoRow, View, At, Job, Named
<1>0. Placed(t) /\ Uncancelled \subseteq Tasks BY DEF RowInv, Uncancelled
<1>u. Uncancelled' = Uncancelled
  BY DEF SubmitStep, CreateTask, SaveTask, SaveTaskFails, Uncancelled, Asked
<1>1. CASE CreateTask(t)
  <2>1. LocalInv' BY <1>1 DEF CreateTask, LocalInv
  <2>2. RowInv'
    <3> SUFFICES ASSUME NEW u \in Tasks PROVE Placed(u)' BY DEF RowInv
    <3>1. Placed(u) BY DEF RowInv
    <3>2. CASE u = t BY <1>u, <1>1, <3>1, <3>2 DEF CreateTask, Placed, Entry
    <3>3. CASE u # t BY <1>u, <1>1, <3>1, <3>3 DEF CreateTask, Placed
    <3> QED BY <3>2, <3>3
  <2>3. WorkerInv' BY <1>0, <1>u, <1>1 DEF CreateTask, WorkerInv, Work
  <2>4. AttemptsInv' BY <1>0, <1>u, <1>1 DEF CreateTask, AttemptsInv
  <2>5. ReportInv' BY <1>0, <1>u, <1>1 DEF CreateTask, ReportInv, Reported, Entry, Terminal
  <2>6. SnapshotInv' BY <1>1 DEF CreateTask, SnapshotInv, Entry
  <2> QED BY <2>1, <2>2, <2>3, <2>4, <2>5, <2>6 DEF Parts
<1>2. CASE SaveTask(t)
  <2>0. /\ submit[t] = "created" /\ row[t] = NoRow /\ reg[t].state = "Pending"
        /\ reg[t].snapshot = "none" /\ sync.rows[t] = NoEntry /\ events[t] = {}
        /\ t \in Uncancelled
    BY <1>0, <1>2 DEF SaveTask, Placed
  <2>a. /\ row'[t].state = "Pending" /\ row'[t].snapshot = "none"
        /\ row'[t].attempts = 0 /\ row'[t].audited = FALSE
    BY <1>2, <2>0 DEF SaveTask, Row
  <2>b. \A u \in Tasks \ {t} : row'[u] = row[u] /\ submit'[u] = submit[u] BY <1>2 DEF SaveTask
  <2>c. submit'[t] = "done" /\ UNCHANGED <<reg, cancel, sync, worker, events, faults>>
    BY <1>2 DEF SaveTask
  <2>1. LocalInv' BY <2>c DEF LocalInv
  <2>2. RowInv'
    <3> SUFFICES ASSUME NEW u \in Tasks PROVE Placed(u)' BY DEF RowInv
    <3>1. Placed(u) BY DEF RowInv
    <3>2. CASE u = t BY <1>u, <2>0, <2>a, <2>c, <3>1, <3>2 DEF Placed
    <3>3. CASE u # t BY <1>u, <2>b, <2>c, <3>1, <3>3 DEF Placed
    <3> QED BY <3>2, <3>3
  <2>3. WorkerInv' BY <1>0, <1>u, <2>0, <2>b, <2>c DEF WorkerInv, Work
  <2>4. AttemptsInv' BY <1>0, <1>u, <2>a, <2>b, <2>c, QueueAssumption DEF AttemptsInv
  <2>5. ReportInv'
    <3> SUFFICES ASSUME NEW u \in Uncancelled' PROVE Reported(u)' BY DEF ReportInv
    <3>1. u \in Tasks /\ Reported(u) BY <1>0, <1>u DEF ReportInv
    <3>2. CASE u = t BY <1>u, <2>0, <2>a, <2>c, <3>1, <3>2 DEF Reported, Terminal
    <3>3. CASE u # t BY <1>u, <2>b, <2>c, <3>1, <3>3 DEF Reported
    <3> QED BY <3>2, <3>3
  <2>6. SnapshotInv' BY <2>a, <2>b, <2>c DEF SnapshotInv
  <2> QED BY <2>1, <2>2, <2>3, <2>4, <2>5, <2>6 DEF Parts
<1>3. CASE SaveTaskFails(t)
  <2>1. LocalInv' BY <1>3 DEF SaveTaskFails, LocalInv
  <2>2. RowInv' BY <1>0, <1>u, <1>3 DEF SaveTaskFails, RowInv, Placed
  <2>3. WorkerInv' BY <1>0, <1>u, <1>3 DEF SaveTaskFails, WorkerInv, Work
  <2>4. AttemptsInv' BY <1>0, <1>u, <1>3 DEF SaveTaskFails, AttemptsInv
  <2>5. ReportInv' BY <1>0, <1>u, <1>3 DEF SaveTaskFails, ReportInv, Reported, ApiFault
  <2>6. SnapshotInv' BY <1>3 DEF SaveTaskFails, SnapshotInv
  <2> QED BY <2>1, <2>2, <2>3, <2>4, <2>5, <2>6 DEF Parts
<1> QED BY <1>1, <1>2, <1>3 DEF SubmitStep

LEMMA CancelParts ==
  ASSUME QueueInv, NEW c \in Cancels,
         CancelInRegistry(c) \/ CancelStep(c) \/ SaveTaskStateFails(c) \/ AuditCancelFails(c)
  PROVE  Parts'
<1> DEFINE t == Asks[c]
<1> USE DEF QueueInv, TypeOK, workerVars, NoEntry, View, At, Job
<1>0. t \in Tasks /\ Placed(t) BY QueueAssumption DEF RowInv
<1>a. ASSUME \A u \in Tasks \ {t} : row'[u] = row[u] /\ events'[u] = events[u] /\ reg'[u] = reg[u],
             \A d \in Cancels \ {c} : cancel'[d] = cancel[d],
             cancel'[c].pc # "idle", submit[t] = "done", faults'.audit >= faults.audit,
             \/ row'[t].state = "Cancelled" => row[t].state = "Cancelled"
             \/ cancel'[c].pc \in {"log", "accepted", "lost"},
             cancel[c].pc \in {"log", "accepted", "lost"}
               => cancel'[c].pc \in {"log", "accepted", "lost"},
             Named(row'[t]), Named(reg'[t]), Named(cancel'[c].entry),
             UNCHANGED <<submit, sync, worker>>
      PROVE  Parts'
  <2>0. Uncancelled' \subseteq Uncancelled \ {t} BY <1>a DEF Uncancelled, Asked
  <2>a. \A u \in Tasks \ {t} : u \in Uncancelled => u \in Uncancelled' BY <1>a DEF Uncancelled, Asked
  <2>b. Uncancelled \subseteq Tasks BY DEF Uncancelled
  <2> HIDE DEF t
  <2>1. LocalInv' BY <1>a DEF LocalInv
  <2>2. RowInv'
    <3> SUFFICES ASSUME NEW u \in Tasks PROVE Placed(u)' BY DEF RowInv
    <3>1. Placed(u) BY DEF RowInv
    <3>2. row'[u].state = "Cancelled" =>
            \E d \in Cancels : Asks[d] = u /\ cancel'[d].pc \in {"log", "accepted", "lost"}
      <4>1. CASE row[u].state = "Cancelled"
        <5>1. PICK d \in Cancels : Asks[d] = u /\ cancel[d].pc \in {"log", "accepted", "lost"}
          BY <3>1, <4>1 DEF Placed
        <5>2. cancel'[d].pc \in {"log", "accepted", "lost"} BY <1>a, <5>1
        <5> QED BY <5>1, <5>2
      <4>2. CASE row[u].state # "Cancelled" BY <1>a, <4>2 DEF t
      <4> QED BY <4>1, <4>2
    <3>3. CASE u = t BY <1>a, <2>0, <3>1, <3>2, <3>3 DEF Placed
    <3>4. CASE u # t BY <1>a, <2>0, <2>a, <3>1, <3>2, <3>4 DEF Placed
    <3> QED BY <3>3, <3>4
  <2>3. WorkerInv' BY <1>a, <2>0 DEF WorkerInv, Work
  <2>4. AttemptsInv' BY <1>a, <2>0, <2>b DEF AttemptsInv
  <2>5. ReportInv'
    <3> SUFFICES ASSUME NEW u \in Uncancelled' PROVE Reported(u)' BY DEF ReportInv
    <3>1. u # t /\ u \in Tasks /\ Reported(u) BY <2>0, <2>b DEF ReportInv
    <3>2. faults'.audit = 0 => faults.audit = 0 BY <1>a
    <3> QED BY <1>a, <3>1, <3>2 DEF Reported
  <2>6. SnapshotInv'
    <3>1. \A u \in Tasks : Named(row'[u]) /\ Named(reg'[u]) /\ Named(sync'.rows[u])
      BY <1>a DEF SnapshotInv
    <3>2. \A d \in Cancels : Named(cancel'[d].entry) BY <1>a DEF SnapshotInv
    <3> QED BY <3>1, <3>2 DEF SnapshotInv, Named
  <2> QED BY <2>1, <2>2, <2>3, <2>4, <2>5, <2>6 DEF Parts
<1>b. Named(row[t]) /\ Named(reg[t]) /\ Named(cancel[c].entry) BY <1>0 DEF SnapshotInv
<1>c. cancel[c].pc # "idle" => submit[t] = "done" BY <1>0 DEF Placed, Uncancelled, Asked
<1>d. faults.audit \in Nat /\ (AuditFault => faults'.audit >= faults.audit)
      /\ (ApiFault => faults'.audit = faults.audit)
  BY DEF AuditFault, ApiFault
<1>e. reg[t] \in Entry /\ row[t] \in Row BY <1>0
<1>1. CASE CancelInRegistry(c)
  <2>1. /\ submit[t] = "done" /\ cancel'[c].pc = "persist" /\ Named(cancel'[c].entry)
        /\ cancel[c].pc = "idle" /\ reg'[t].state = "Cancelled"
        /\ \A u \in Tasks \ {t} : reg'[u] = reg[u]
        /\ \A d \in Cancels \ {c} : cancel'[d] = cancel[d]
        /\ UNCHANGED <<row, submit, sync, worker, events, faults>>
    BY <1>1, <1>0, <1>b, <1>e DEF CancelInRegistry, Entry
  <2>2. Named(reg'[t]) BY <2>1 DEF Named
  <2> QED BY <1>0, <1>a, <1>b, <1>d, <2>1, <2>2
<1>2. CASE ReadForPersist(c) BY <1>2, <1>0, <1>a, <1>b, <1>c, <1>d DEF ReadForPersist
<1>3. CASE SaveTaskState(c)
  <2>1. row'[t].state = cancel[c].entry.state /\ row'[t].snapshot = cancel[c].entry.snapshot
    BY <1>3, <1>0, <1>e DEF SaveTaskState, Row
  <2>2. Named(row'[t]) BY <1>b, <2>1 DEF Named
  <2>3. cancel'[c] = [pc |-> "log", entry |-> NoEntry] BY <1>3 DEF SaveTaskState
  <2>4. Named(cancel'[c].entry) BY <2>3 DEF Named
  <2> QED BY <1>3, <1>0, <1>a, <1>b, <1>c, <1>d, <2>2, <2>3, <2>4 DEF SaveTaskState
<1>4. CASE SaveTaskStateFails(c)
  <2>1. cancel'[c] = [pc |-> "log", entry |-> NoEntry] BY <1>4 DEF SaveTaskStateFails
  <2>2. Named(cancel'[c].entry) BY <2>1 DEF Named
  <2> QED BY <1>4, <1>0, <1>a, <1>b, <1>c, <1>d, <2>1, <2>2 DEF SaveTaskStateFails
<1>5. CASE AuditCancel(c) BY <1>5, <1>0, <1>a, <1>b, <1>c, <1>d DEF AuditCancel
<1>6. CASE AuditCancelFails(c) BY <1>6, <1>0, <1>a, <1>b, <1>c, <1>d DEF AuditCancelFails
<1> QED BY <1>1, <1>2, <1>3, <1>4, <1>5, <1>6 DEF CancelStep

LEMMA SyncParts ==
  ASSUME QueueInv,
         SyncLoad \/ SyncApply \/ LoadUnaudited \/ SyncReadFails \/ ApiCrash
  PROVE  Parts'
<1> USE DEF QueueInv, TypeOK, workerVars, NoEntry, View, At, Job, Named, Asked
<1>1. CASE SyncLoad
  <2>1. LocalInv' BY <1>1 DEF SyncLoad, LocalInv
  <2>2. RowInv'
    <3> SUFFICES ASSUME NEW u \in Tasks PROVE Placed(u)' BY DEF RowInv
    <3>1. Placed(u) BY DEF RowInv
    <3>2. sync'.rows[u] = View(row[u]) /\ UNCHANGED <<row, reg, submit, cancel, events>>
      BY <1>1 DEF SyncLoad
    <3>3. Uncancelled' = Uncancelled BY <3>2 DEF Uncancelled
    <3> HIDE DEF QueueInv, TypeOK, Asked
    <3> QED BY <3>1, <3>2, <3>3 DEF Placed, NoRow
  <2>3. WorkerInv' BY <1>1 DEF SyncLoad, WorkerInv, Work, Uncancelled
  <2>4. AttemptsInv' BY <1>1 DEF SyncLoad, AttemptsInv, Uncancelled
  <2>5. ReportInv'
    <3>1. /\ sync'.pc = "apply" /\ (\A u \in Tasks : sync'.rows[u] = View(row[u]))
          /\ UNCHANGED <<row, reg, cancel, events, faults>>
      BY <1>1 DEF SyncLoad
    <3>2. Uncancelled' = Uncancelled /\ Uncancelled \subseteq Tasks BY <3>1 DEF Uncancelled
    <3>3. \A u \in Uncancelled : Reported(u) BY DEF ReportInv
    <3> HIDE DEF QueueInv, TypeOK, Asked
    <3> QED BY <3>1, <3>2, <3>3 DEF ReportInv, Reported
  <2>6. SnapshotInv' BY <1>1 DEF SyncLoad, SnapshotInv
  <2> QED BY <2>1, <2>2, <2>3, <2>4, <2>5, <2>6 DEF Parts
<1>2. CASE SyncApply
  <2>0. /\ \A u \in Tasks : reg'[u] = IF sync.rows[u].state = "Absent" THEN reg[u] ELSE sync.rows[u]
        /\ sync' = [IdleSync EXCEPT !.pc = "unaudited"]
        /\ UNCHANGED <<row, submit, cancel, worker, events, faults>>
    BY <1>2 DEF SyncApply
  <2>a. \A u \in Tasks : sync'.rows[u] = NoEntry BY <2>0 DEF IdleSync
  <2>u. Uncancelled' = Uncancelled BY <2>0 DEF Uncancelled
  <2>1. LocalInv' BY <2>0 DEF LocalInv, IdleSync
  <2>2. RowInv'
    <3> SUFFICES ASSUME NEW u \in Tasks PROVE Placed(u)' BY DEF RowInv
    <3>1. Placed(u) BY DEF RowInv
    <3>2. CASE u \in Uncancelled
      <4>1. Reported(u) BY <3>2 DEF ReportInv
      <4>a. row[u].state # "Cancelled"
        <5>1. \A c \in Cancels : Asks[c] = u => cancel[c].pc = "idle" BY <3>2 DEF Uncancelled
        <5> HIDE DEF QueueInv, TypeOK, Asked
        <5> QED BY <3>1, <5>1 DEF Placed
      <4>b. reg[u].state # "Cancelled" /\ reg'[u].state \in {reg[u].state, sync.rows[u].state}
        BY <2>0, <3>1, <3>2 DEF Placed
      <4>c. sync.rows[u].state = "Cancelled" => row[u].state = "Cancelled" BY <4>1 DEF Reported, Terminal
      <4>2. reg'[u].state # "Cancelled" BY <4>a, <4>b, <4>c
      <4> HIDE DEF QueueInv, TypeOK, Asked
      <4> QED BY <2>0, <2>a, <2>u, <3>1, <4>2 DEF Placed
    <3>3. CASE u \notin Uncancelled
      <4> HIDE DEF QueueInv, TypeOK, Asked
      <4> QED BY <2>0, <2>a, <2>u, <3>1, <3>3 DEF Placed
    <3> QED BY <3>2, <3>3
  <2>3. WorkerInv' BY <2>0 DEF WorkerInv, Work, Uncancelled
  <2>4. AttemptsInv' BY <2>0 DEF AttemptsInv, Uncancelled
  <2>5. ReportInv'
    <3> SUFFICES ASSUME NEW u \in Uncancelled' PROVE Reported(u)' BY DEF ReportInv
    <3>1. u \in Tasks /\ Reported(u) BY <2>0 DEF ReportInv, Uncancelled
    <3>2. sync'.pc # "mark" BY <2>0 DEF IdleSync
    <3> QED BY <2>0, <2>a, <3>1, <3>2 DEF Reported, Terminal
  <2>6. SnapshotInv' BY <2>0, <2>a DEF SnapshotInv
  <2> QED BY <2>1, <2>2, <2>3, <2>4, <2>5, <2>6 DEF Parts
<1>3. CASE LoadUnaudited
  <2> DEFINE due == {u \in Tasks : row[u].state \in Terminal /\ ~row[u].audited}
  <2>0. /\ sync.pc = "unaudited" /\ sync'.todo = due /\ sync'.now = sync.now
        /\ sync'.pc = IF due = {} THEN "load" ELSE "audit"
        /\ \A u \in Tasks : sync'.rows[u] = IF u \in due THEN View(row[u]) ELSE NoEntry
        /\ UNCHANGED <<row, reg, submit, cancel, worker, events, faults>>
    BY <1>3 DEF LoadUnaudited
  <2>a. sync'.now = {} /\ (sync'.pc \in {"load", "apply", "unaudited"} => due = {}) BY <2>0 DEF LocalInv
  <2>b. ASSUME NEW u \in due PROVE u \in Tasks /\ sync'.rows[u].state \in Terminal
    <3>1. u \in Tasks /\ sync'.rows[u] = View(row[u]) /\ row[u].state \in Terminal BY <2>0
    <3> QED BY <3>1
  <2>c. \A u \in Tasks : sync'.rows[u] \in {View(row[u]), NoEntry} BY <2>0
  <2> HIDE DEF due
  <2>1. LocalInv' BY <2>0, <2>a, <2>b DEF LocalInv
  <2>2. RowInv'
    <3> SUFFICES ASSUME NEW u \in Tasks PROVE Placed(u)' BY DEF RowInv
    <3>1. Placed(u) BY DEF RowInv
    <3> QED BY <2>0, <2>c, <3>1 DEF Placed, NoRow, Uncancelled
  <2>3. WorkerInv' BY <2>0 DEF WorkerInv, Work, Uncancelled
  <2>4. AttemptsInv' BY <2>0 DEF AttemptsInv, Uncancelled
  <2>5. ReportInv' BY <2>0, <2>a, <2>c DEF ReportInv, Reported, Uncancelled, Terminal
  <2>6. SnapshotInv' BY <2>0, <2>c DEF SnapshotInv
  <2> QED BY <2>1, <2>2, <2>3, <2>4, <2>5, <2>6 DEF Parts
<1>4. CASE SyncReadFails
  <2>0. /\ sync'.todo = sync.todo /\ sync'.now = sync.now /\ sync'.rows = sync.rows
        /\ sync.pc \in {"load", "unaudited"} /\ sync'.pc \in {"load", "unaudited"}
        /\ UNCHANGED <<row, reg, submit, cancel, worker, events>> /\ faults'.audit = faults.audit
    BY <1>4 DEF SyncReadFails, ApiFault
  <2>1. LocalInv' BY <2>0 DEF LocalInv
  <2>2. RowInv' BY <2>0 DEF RowInv, Placed, Uncancelled
  <2>3. WorkerInv' BY <2>0 DEF WorkerInv, Work, Uncancelled
  <2>4. AttemptsInv' BY <2>0 DEF AttemptsInv, Uncancelled
  <2>5. ReportInv' BY <2>0 DEF ReportInv, Reported, Uncancelled
  <2>6. SnapshotInv' BY <2>0 DEF SnapshotInv
  <2> QED BY <2>1, <2>2, <2>3, <2>4, <2>5, <2>6 DEF Parts
<1>5. CASE ApiCrash
  <2>0. /\ \A u \in Tasks :
             /\ reg'[u] = View(row[u])
             /\ submit'[u] = IF submit[u] = "created" THEN "lost" ELSE submit[u]
        /\ \A c \in Cancels :
             cancel'[c] = IF cancel[c].pc \in {"persist", "write", "log"}
                          THEN [pc |-> "lost", entry |-> NoEntry] ELSE cancel[c]
        /\ sync' = IdleSync
        /\ UNCHANGED <<row, worker, events>> /\ faults'.audit = faults.audit
    BY <1>5 DEF ApiCrash, ApiFault
  <2>a. \A u \in Tasks : sync'.rows[u] = NoEntry BY <2>0 DEF IdleSync
  <2>c. \A u \in Tasks : /\ submit'[u] # "created" /\ (submit'[u] = "idle" => submit[u] = "idle")
                         /\ submit[u] = "done" <=> submit'[u] = "done"
    BY <2>0
  <2>d. \A c \in Cancels :
          /\ cancel'[c].pc = "idle" <=> cancel[c].pc = "idle"
          /\ cancel[c].pc \in {"log", "accepted", "lost"} => cancel'[c].pc \in {"accepted", "lost"}
          /\ cancel'[c].entry \in {cancel[c].entry, NoEntry}
    <3> TAKE c \in Cancels
    <3>1. CASE cancel[c].pc \in {"persist", "write", "log"}
      <4>1. cancel'[c] = [pc |-> "lost", entry |-> NoEntry] BY <2>0, <3>1
      <4> QED BY <3>1, <4>1
    <3>2. CASE cancel[c].pc \notin {"persist", "write", "log"}
      <4>1. cancel'[c] = cancel[c] BY <2>0, <3>2
      <4> QED BY <3>2, <4>1
    <3> QED BY <3>1, <3>2
  <2>b. Uncancelled' = Uncancelled BY <2>d DEF Uncancelled
  <2>1. LocalInv' BY <2>0 DEF LocalInv, IdleSync
  <2>2. RowInv'
    <3> SUFFICES ASSUME NEW u \in Tasks PROVE Placed(u)' BY DEF RowInv
    <3>1. Placed(u) BY DEF RowInv
    <3>2. row'[u] = row[u] /\ events'[u] = events[u] /\ reg'[u] = View(row[u]) BY <2>0
    <3>3. submit'[u] = "idle" => reg'[u] = NoEntry BY <2>c, <3>1, <3>2 DEF Placed, NoRow, Uncancelled
    <3>4. u \in Uncancelled' => reg'[u].state # "Cancelled" BY <2>b, <3>1, <3>2 DEF Placed, Uncancelled
    <3>5. row'[u].state = "Cancelled" =>
            \E c \in Cancels : Asks[c] = u /\ cancel'[c].pc \in {"log", "accepted", "lost"}
      BY <2>d, <3>1, <3>2 DEF Placed
    <3> QED BY <2>a, <2>b, <2>c, <3>1, <3>2, <3>3, <3>4, <3>5 DEF Placed
  <2>3. WorkerInv' BY <2>0, <2>b, <2>c DEF WorkerInv, Work, Uncancelled
  <2>4. AttemptsInv' BY <2>0, <2>b DEF AttemptsInv, Uncancelled
  <2>5. ReportInv'
    <3> SUFFICES ASSUME NEW u \in Uncancelled' PROVE Reported(u)' BY DEF ReportInv
    <3>1. u \in Tasks /\ Reported(u) BY <2>b DEF ReportInv, Uncancelled
    <3>2. sync'.pc # "mark" BY <2>0 DEF IdleSync
    <3> QED BY <2>0, <2>a, <3>1, <3>2 DEF Reported, Terminal
  <2>6. SnapshotInv'
    <3>1. ASSUME NEW u \in Tasks PROVE Named(row'[u]) /\ Named(reg'[u]) /\ Named(sync'.rows[u])
      <4>1. row'[u] = row[u] /\ reg'[u] = View(row[u]) /\ sync'.rows[u] = NoEntry BY <2>0, <2>a
      <4> QED BY <4>1 DEF SnapshotInv
    <3>2. ASSUME NEW c \in Cancels PROVE Named(cancel'[c].entry)
      <4>1. cancel'[c].entry \in {cancel[c].entry, NoEntry} BY <2>d
      <4> QED BY <4>1 DEF SnapshotInv
    <3> QED BY <3>1, <3>2 DEF SnapshotInv
  <2> QED BY <2>1, <2>2, <2>3, <2>4, <2>5, <2>6 DEF Parts
<1> QED BY <1>1, <1>2, <1>3, <1>4, <1>5

\* The loop's steps for one task: only its row's mark, its events and the
\* loop's own state change.
LEMMA AuditParts ==
  ASSUME QueueInv, NEW t \in Tasks,
         AppendAudit(t) \/ AppendAuditFails(t) \/ MarkAudited(t) \/ MarkAuditedFails(t)
  PROVE  Parts'
<1> USE DEF QueueInv, TypeOK, workerVars, NoEntry, View, At, Job, Named, Asked
<1>0. /\ sync.pc \in {"audit", "mark"} /\ t \in sync.todo
      /\ sync.rows[t].state \in Terminal /\ submit[t] = "done"
  <2>1. sync.pc \in {"audit", "mark"} /\ t \in sync.todo /\ sync.rows[t].state \in Terminal
    BY DEF AppendAudit, AppendAuditFails, MarkAudited, MarkAuditedFails, LocalInv
  <2>2. Placed(t) BY DEF RowInv
  <2> QED BY <2>1, <2>2 DEF Placed, Terminal
<1>a. /\ UNCHANGED <<reg, submit, cancel, worker>>
      /\ \A u \in Tasks \ {t} : row'[u] = row[u] /\ events'[u] = events[u]
      /\ row'[t].state = row[t].state /\ row'[t].snapshot = row[t].snapshot
      /\ row'[t].attempts = row[t].attempts
  BY DEF AppendAudit, AppendAuditFails, MarkAudited, MarkAuditedFails, Row
<1>b. /\ \A u \in Tasks : sync'.rows[u] \in {sync.rows[u], NoEntry}
      /\ sync'.now \subseteq sync'.todo
      /\ sync'.pc \in {"load", "audit", "mark"} /\ (sync'.pc = "load" => sync'.todo = {})
      /\ \A u \in sync'.todo : u \in sync.todo /\ sync'.rows[u] = sync.rows[u]
      /\ sync'.pc = "mark" => sync'.now = {t}
  <2>1. CASE AppendAudit(t) \/ AppendAuditFails(t)
    <3>1. /\ sync'.rows = sync.rows /\ sync'.todo = sync.todo
          /\ sync'.pc = "mark" /\ sync'.now = {t}
      BY <2>1 DEF AppendAudit, AppendAuditFails
    <3> QED BY <1>0, <3>1
  <2>2. CASE MarkAudited(t) \/ MarkAuditedFails(t)
    <3>1. CASE sync.todo = {t} BY <2>2, <3>1 DEF MarkAudited, MarkAuditedFails, Audited, IdleSync
    <3>2. CASE sync.todo # {t}
      <4>1. /\ sync'.rows = [sync.rows EXCEPT ![t] = NoEntry]
            /\ sync'.todo = sync.todo \ {t} /\ sync'.pc = "audit" /\ sync'.now = {}
        BY <2>2, <3>2 DEF MarkAudited, MarkAuditedFails, Audited
      <4> QED BY <4>1
    <3> QED BY <3>1, <3>2
  <2> QED BY <2>1, <2>2
<1>1. LocalInv' BY <1>a, <1>b DEF LocalInv
<1>2. RowInv'
  <2> SUFFICES ASSUME NEW u \in Tasks PROVE Placed(u)' BY DEF RowInv
  <2>1. Placed(u) BY DEF RowInv
  <2>2. CASE u = t BY <1>0, <1>a, <1>b, <2>1, <2>2 DEF Placed, Uncancelled
  <2>3. CASE u # t BY <1>a, <1>b, <2>1, <2>3 DEF Placed, Uncancelled
  <2> QED BY <2>2, <2>3
<1>3. WorkerInv' BY <1>a DEF WorkerInv, Work, Uncancelled
<1>4. AttemptsInv' BY <1>a DEF AttemptsInv, Uncancelled
<1>5. ReportInv'
  <2> SUFFICES ASSUME NEW u \in Uncancelled' PROVE Reported(u)' BY DEF ReportInv
  <2>1. u \in Tasks /\ Reported(u) BY <1>a DEF ReportInv, Uncancelled
  <2>2. faults'.audit = 0 => faults.audit = 0 /\ ~AppendAuditFails(t)
    BY DEF AppendAudit, AppendAuditFails, MarkAudited, MarkAuditedFails, ApiFault, AuditFault
  <2>3. CASE u # t BY <1>a, <1>b, <2>1, <2>2, <2>3 DEF Reported, Terminal
  <2>4. CASE u = t
    <3>1. sync.rows[t] = View(row[t]) /\ row[t].state \in Terminal BY <1>0, <2>1, <2>4 DEF Reported
    <3>2. events'[t] \in {events[t], events[t] \cup {row[t].state}}
      BY <3>1 DEF AppendAudit, AppendAuditFails, MarkAudited, MarkAuditedFails
    <3>3. events'[t] # {} => events'[t] = {row[t].state} BY <2>1, <2>4, <3>2 DEF Reported
    <3>4. faults'.audit = 0 => events'[t] # {}
      <4>1. CASE AppendAudit(t) BY <4>1 DEF AppendAudit
      <4>2. CASE MarkAudited(t) \/ MarkAuditedFails(t)
        BY <2>1, <2>2, <2>4, <4>2 DEF Reported, MarkAudited, MarkAuditedFails
      <4> QED BY <2>2, <4>1, <4>2
    <3> QED BY <1>a, <1>b, <2>1, <2>4, <3>1, <3>3, <3>4 DEF Reported, Terminal
  <2> QED BY <2>3, <2>4
<1>6. SnapshotInv' BY <1>a, <1>b DEF SnapshotInv
<1> QED BY <1>1, <1>2, <1>3, <1>4, <1>5, <1>6 DEF Parts

\* The worker goes on with its task, or drops it; the row stays as it is.
LEMMA WorkerMovesOn ==
  ASSUME QueueInv, NEW w \in Workers, NEW x \in Work,
         worker' = [worker EXCEPT ![w] = x],
         \/ x.pc = "idle"
         \/ /\ ~At(w, "idle") /\ x.task = Job(w) /\ x.attempts = worker[w].attempts,
         x.pc = "complete" => x.result \in {"stored", "missing"},
         UNCHANGED <<row, reg, submit, cancel, sync, events>>,
         faults'.audit = faults.audit
  PROVE  Parts'
<1> USE DEF QueueInv, TypeOK, View, At, Job, Named
<1>u. Uncancelled' = Uncancelled /\ Uncancelled \subseteq Tasks BY DEF Uncancelled, Asked
<1> USE <1>u
<1>1. LocalInv' BY DEF LocalInv
<1>2. RowInv' BY DEF RowInv, Placed
<1>3. WorkerInv'
  <2>1. \A v \in Workers : worker'[v].pc # "idle" =>
          /\ worker[v].pc # "idle" /\ worker'[v].task = worker[v].task
          /\ worker'[v].attempts = worker[v].attempts
    OBVIOUS
  <2> QED BY <2>1 DEF WorkerInv, Work
<1>4. AttemptsInv' BY DEF AttemptsInv
<1>5. ReportInv' BY DEF ReportInv, Reported
<1>6. SnapshotInv' BY DEF SnapshotInv
<1> QED BY <1>1, <1>2, <1>3, <1>4, <1>5, <1>6 DEF Parts

\* The worker writes an outcome, or that the task is pending again, unless
\* the row is cancelled, and is done.
LEMMA WorkerWrites ==
  ASSUME QueueInv, NEW w \in Workers, ~At(w, "idle"), NEW r \in Row,
         UpdateRow(Job(w), r), Done(w),
         r.state \in {"Completed", "Failed", "Pending"},
         r.attempts = row[Job(w)].attempts,
         r.audited => row[Job(w)].audited,
         r.state = "Completed" => r.snapshot # "none",
         r.state = "Pending" => worker[w].attempts < MaxAttempts,
         UNCHANGED <<reg, submit, cancel, sync, events, faults>>
  PROVE  Parts'
<1> DEFINE t == Job(w)
<1> USE DEF QueueInv, TypeOK, View, At, Job, Named
<1>u. Uncancelled' = Uncancelled /\ Uncancelled \subseteq Tasks BY DEF Uncancelled, Asked
<1> USE <1>u
<1>0. /\ t \in Tasks /\ submit[t] = "done" /\ Placed(t)
      /\ t \in Uncancelled => /\ row[t].state = "Running"
                                  /\ row[t].attempts = worker[w].attempts
  BY DEF WorkerInv, RowInv, Work
<1>a. /\ \A u \in Tasks \ {t} : row'[u] = row[u]
      /\ row'[t] = IF row[t].state = "Cancelled" THEN row[t] ELSE r
  BY <1>0 DEF UpdateRow
<1>b. \A v \in Workers : worker'[v].pc # "idle" => v # w /\ worker'[v] = worker[v] BY DEF Done, IdleWorker
<1>c. t \in Uncancelled => row'[t] = r BY <1>0, <1>a
<1> HIDE DEF t
<1>1. LocalInv' BY <1>b DEF LocalInv
<1>2. RowInv'
  <2> SUFFICES ASSUME NEW u \in Tasks PROVE Placed(u)' BY DEF RowInv
  <2>1. Placed(u) BY DEF RowInv
  <2>2. CASE u = t
    <3>1. row'[t].state = "Cancelled" => row[t].state = "Cancelled" BY <1>a
    <3> QED BY <1>0, <2>1, <2>2, <3>1 DEF Placed
  <2>3. CASE u # t BY <1>a, <2>1, <2>3 DEF Placed
  <2> QED BY <2>2, <2>3
<1>3. WorkerInv'
  <2> SUFFICES ASSUME NEW v \in Workers, worker'[v].pc # "idle"
               PROVE  /\ submit[worker[v].task] = "done"
                      /\ worker[v].task \in Uncancelled =>
                           /\ row'[worker[v].task].state = "Running"
                           /\ row'[worker[v].task].attempts = worker[v].attempts
                           /\ \A x \in Workers :
                                worker'[x].pc # "idle" /\ worker'[x].task = worker[v].task => x = v
    BY <1>b DEF WorkerInv
  <2>1. v # w /\ worker[v].pc # "idle" /\ worker[v].task \in Tasks BY <1>b DEF Work
  <2>2. CASE worker[v].task \in Uncancelled
    <3>1. worker[v].task # t BY <2>1, <2>2 DEF WorkerInv, t
    <3> QED BY <1>a, <1>b, <2>1, <2>2, <3>1 DEF WorkerInv
  <2> QED BY <2>1, <2>2 DEF WorkerInv
<1>4. AttemptsInv' BY <1>0, <1>a, <1>c DEF AttemptsInv, t
<1>5. ReportInv'
  <2> SUFFICES ASSUME NEW u \in Tasks, u \in Uncancelled PROVE Reported(u)' BY DEF ReportInv
  <2>1. Reported(u) BY DEF ReportInv
  <2>2. CASE u = t
    <3>1. /\ reg[t].state \notin Terminal /\ sync.rows[t].state \notin Terminal
          /\ events[t] = {}
          /\ faults.audit = 0 => ~row[t].audited /\ ~(sync.pc = "mark" /\ t \in sync.now)
      BY <1>0, <2>1, <2>2 DEF Reported, Terminal
    <3> QED BY <1>c, <2>2, <3>1 DEF Reported, t
  <2>3. CASE u # t BY <1>a, <2>1, <2>3 DEF Reported
  <2> QED BY <2>2, <2>3
<1>6. SnapshotInv' BY <1>a DEF SnapshotInv
<1> QED BY <1>1, <1>2, <1>3, <1>4, <1>5, <1>6 DEF Parts

\* claim_next_query_task: a pending task, which no worker has.
LEMMA ClaimParts ==
  ASSUME QueueInv, NEW w \in Workers, NEW t \in Tasks, ClaimNextQueryTask(w, t)
  PROVE  Parts'
<1> USE DEF QueueInv, TypeOK, View, At, Job, Named, apiVars
<1>0. /\ worker[w].pc = "idle" /\ row[t].state = "Pending"
      /\ row' = [row EXCEPT ![t] = [row[t] EXCEPT !.state = "Running", !.attempts = @ + 1]]
      /\ worker' = [worker EXCEPT ![w] = [pc |-> "check", task |-> t,
                      attempts |-> row'[t].attempts, result |-> "none"]]
      /\ UNCHANGED <<reg, submit, cancel, sync, events, faults>>
  BY DEF ClaimNextQueryTask
<1>u. Uncancelled' = Uncancelled /\ Uncancelled \subseteq Tasks BY <1>0 DEF Uncancelled, Asked
<1> USE <1>u
<1>a. /\ \A u \in Tasks \ {t} : row'[u] = row[u]
      /\ row'[t].state = "Running" /\ row'[t].snapshot = row[t].snapshot
      /\ row'[t].attempts = row[t].attempts + 1 /\ row'[t].audited = row[t].audited
  BY <1>0 DEF Row
<1>b. /\ \A v \in Workers \ {w} : worker'[v] = worker[v]
      /\ worker'[w].task = t /\ worker'[w].attempts = row'[t].attempts
      /\ worker'[w].pc = "check"
  BY <1>0
<1>c. submit[t] = "done" /\ Placed(t) BY <1>0 DEF RowInv, Placed, NoRow
<1>1. LocalInv' BY <1>0, <1>b DEF LocalInv
<1>2. RowInv'
  <2> SUFFICES ASSUME NEW u \in Tasks PROVE Placed(u)' BY DEF RowInv
  <2>1. Placed(u) BY DEF RowInv
  <2>2. CASE u = t BY <1>0, <1>a, <1>c, <2>2 DEF Placed
  <2>3. CASE u # t BY <1>0, <1>a, <2>1, <2>3 DEF Placed
  <2> QED BY <2>2, <2>3
<1>3. WorkerInv'
  <2>1. t \in Uncancelled => \A v \in Workers : worker[v].pc # "idle" => worker[v].task # t
    BY <1>0 DEF WorkerInv
  <2> SUFFICES ASSUME NEW v \in Workers, worker'[v].pc # "idle", NEW u, u = worker'[v].task
               PROVE  /\ submit[u] = "done"
                      /\ u \in Uncancelled =>
                           /\ row'[u].state = "Running"
                           /\ row'[u].attempts = worker'[v].attempts
                           /\ \A x \in Workers :
                                worker'[x].pc # "idle" /\ worker'[x].task = u => x = v
    BY <1>0 DEF WorkerInv
  <2>2. CASE v = w BY <1>a, <1>b, <1>c, <2>1, <2>2
  <2>3. CASE v # w
    <3>1. /\ u \in Tasks /\ u = worker[v].task /\ worker[v].pc # "idle" /\ submit[u] = "done"
      BY <1>b, <2>3 DEF WorkerInv, Work
    <3>2. CASE u \in Uncancelled
      <4>1. u # t BY <2>1, <3>1, <3>2
      <4> QED BY <1>a, <1>b, <2>3, <3>1, <3>2, <4>1 DEF WorkerInv
    <3> QED BY <3>1, <3>2
  <2> QED BY <2>2, <2>3
<1>4. AttemptsInv'
  <2> SUFFICES ASSUME NEW u \in Tasks, u \in Uncancelled
               PROVE  /\ row'[u].attempts <= MaxAttempts
                      /\ row'[u].state = "Pending" => row'[u].attempts < MaxAttempts
    BY <1>0 DEF AttemptsInv
  <2>1. CASE u = t
    <3>1. row[t].attempts < MaxAttempts BY <1>0, <2>1 DEF AttemptsInv
    <3>2. row[t].attempts \in Nat /\ MaxAttempts \in Nat BY QueueAssumption DEF Row
    <3> QED BY <1>a, <2>1, <3>1, <3>2
  <2>2. CASE u # t BY <1>a, <2>2 DEF AttemptsInv
  <2> QED BY <2>1, <2>2
<1>5. ReportInv'
  <2> SUFFICES ASSUME NEW u \in Tasks, u \in Uncancelled PROVE Reported(u)' BY <1>0 DEF ReportInv
  <2>1. Reported(u) BY DEF ReportInv
  <2>2. CASE u = t BY <1>0, <1>a, <2>1, <2>2 DEF Reported, Terminal
  <2>3. CASE u # t BY <1>0, <1>a, <2>1, <2>3 DEF Reported
  <2> QED BY <2>2, <2>3
<1>6. SnapshotInv'
  <2> SUFFICES ASSUME NEW u \in Tasks PROVE Named(row'[u]) BY <1>0 DEF SnapshotInv
  <2>1. CASE u = t BY <1>a, <2>1
  <2>2. CASE u # t BY <1>a, <2>2 DEF SnapshotInv
  <2> QED BY <2>1, <2>2
<1> QED BY <1>1, <1>2, <1>3, <1>4, <1>5, <1>6 DEF Parts

LEMMA WorkerParts ==
  ASSUME QueueInv, NEW w \in Workers,
         \/ WorkerStep(w) \/ StoreSnapshotFails(w) \/ UpdateLost(w)
         \/ ReadFails(w) \/ WorkerCrash(w) \/ BackoffElapses(w)
  PROVE  Parts'
<1> USE DEF QueueInv, apiVars
<1>0. /\ worker \in [Workers -> Work] /\ worker[w] \in Work /\ IdleWorker \in Work
      /\ Job(w) \in Tasks /\ row[Job(w)] \in Row
  <2>1. IdleWorker \in Work BY WorkTypes
  <2>2. worker \in [Workers -> Work] /\ row \in [Tasks -> Row] BY DEF TypeOK
  <2> QED BY <2>1, <2>2 DEF Work, Job
<1>a. ASSUME NEW pc \in {"lookup", "hit", "open", "execute", "store", "failure"}, Goto(w, pc),
             ~At(w, "idle"), UNCHANGED <<row, reg, submit, cancel, sync, events>>,
             faults'.audit = faults.audit
      PROVE  Parts'
  <2> DEFINE x == [worker[w] EXCEPT !.pc = pc]
  <2>1. x \in Work /\ worker' = [worker EXCEPT ![w] = x] BY <1>a, WorkTypes DEF Goto
  <2>2. x.task = Job(w) /\ x.attempts = worker[w].attempts /\ x.pc # "complete" BY <1>0 DEF Job, Work
  <2> HIDE DEF x
  <2> QED BY <1>a, <2>1, <2>2, WorkerMovesOn
<1>b. ASSUME Done(w), UNCHANGED <<row, reg, submit, cancel, sync, events>>,
             faults'.audit = faults.audit
      PROVE  Parts'
  <2>1. IdleWorker.pc = "idle" BY DEF IdleWorker
  <2> QED BY <1>0, <1>b, <2>1, WorkerMovesOn DEF Done
<1>c. ASSUME NEW pc \in {"recheck", "complete"},
             NEW r \in {"rows", "transient", "fatal", "stored", "missing"},
             worker' = [worker EXCEPT ![w].pc = pc, ![w].result = r],
             pc = "complete" => r \in {"stored", "missing"},
             ~At(w, "idle"), UNCHANGED <<row, reg, submit, cancel, sync, events>>,
             faults'.audit = faults.audit
      PROVE  Parts'
  <2> DEFINE x == [worker[w] EXCEPT !.pc = pc, !.result = r]
  <2>1. x \in Work /\ worker' = [worker EXCEPT ![w] = x] BY <1>0, <1>c, WorkTypes
  <2>2. x.task = Job(w) /\ x.attempts = worker[w].attempts /\ x.pc = pc /\ x.result = r
    BY <1>0 DEF Job, Work
  <2> HIDE DEF x
  <2> QED BY <1>c, <2>1, <2>2, WorkerMovesOn
<1>d. /\ AfterMiss(w) \in {"execute", "open"}
      /\ AfterCheck(w) \in {"lookup", "store", "failure"}
  BY DEF AfterMiss, AfterCheck
<1>e. /\ (WorkerFault => faults'.audit = faults.audit)
      /\ (UNCHANGED faults => faults'.audit = faults.audit)
  BY DEF WorkerFault, TypeOK
<1>1. ASSUME NEW t \in Tasks, ClaimNextQueryTask(w, t) PROVE Parts' BY <1>1, ClaimParts
<1>2. CASE CheckTaskState(w) BY <1>2, <1>a, <1>b, <1>d, <1>e DEF CheckTaskState, At
<1>3. CASE LookUp(w) BY <1>3, <1>a, <1>d, <1>e DEF LookUp, At
<1>4. CASE CompleteFromCache(w)
  <2> DEFINE r == Completed(row[Job(w)], "stored")
  <2>1. /\ r \in Row /\ r.state = "Completed" /\ r.snapshot = "stored" /\ ~r.audited
        /\ r.attempts = row[Job(w)].attempts
    BY <1>0, RowTypes DEF Completed, Row, Stored
  <2> HIDE DEF r
  <2> QED BY <1>4, <2>1, WorkerWrites DEF CompleteFromCache, At, r
<1>5. CASE FailBreakerOpen(w)
  <2> DEFINE r == Failed(row[Job(w)])
  <2>1. /\ r \in Row /\ r.state = "Failed" /\ ~r.audited
        /\ r.attempts = row[Job(w)].attempts
    BY <1>0, RowTypes DEF Failed, Row
  <2> HIDE DEF r
  <2> QED BY <1>5, <2>1, WorkerWrites DEF FailBreakerOpen, At, r
<1>6. CASE ExecuteQuery(w) BY <1>6, <1>c, <1>e DEF ExecuteQuery, At
<1>7. CASE StoreSnapshot(w) BY <1>7, <1>c, <1>e DEF StoreSnapshot, At
<1>8. CASE CompleteTask(w)
  <2> DEFINE r == Completed(row[Job(w)], worker[w].result)
  <2>0. worker[w].result \in {"stored", "missing"} BY <1>8 DEF CompleteTask, LocalInv, At
  <2>1. /\ r \in Row /\ r.state = "Completed" /\ r.snapshot # "none" /\ ~r.audited
        /\ r.attempts = row[Job(w)].attempts
    BY <1>0, <2>0, RowTypes DEF Completed, Row, Stored
  <2> HIDE DEF r
  <2> QED BY <1>8, <2>1, WorkerWrites DEF CompleteTask, At, r
<1>9. CASE HandleTaskFailure(w)
  <2>1. CASE worker[w].attempts < MaxAttempts
    <3> DEFINE r == Retried(row[Job(w)])
    <3>1. /\ r \in Row /\ r.state = "Pending" /\ (r.audited => row[Job(w)].audited)
          /\ r.attempts = row[Job(w)].attempts
      BY <1>0, RowTypes DEF Retried, Row
    <3> HIDE DEF r
    <3> QED BY <1>9, <2>1, <3>1, WorkerWrites DEF HandleTaskFailure, At, r
  <2>2. CASE ~(worker[w].attempts < MaxAttempts)
    <3> DEFINE r == Failed(row[Job(w)])
    <3>1. /\ r \in Row /\ r.state = "Failed" /\ ~r.audited
          /\ r.attempts = row[Job(w)].attempts
      BY <1>0, RowTypes DEF Failed, Row
    <3> HIDE DEF r
    <3> QED BY <1>9, <2>2, <3>1, WorkerWrites DEF HandleTaskFailure, At, r
  <2> QED BY <2>1, <2>2
<1>10. CASE StoreSnapshotFails(w) BY <1>10, <1>a, <1>c, <1>e DEF StoreSnapshotFails, At
<1>11. CASE UpdateLost(w) BY <1>11, <1>b, <1>e DEF UpdateLost
<1>12. CASE ReadFails(w) BY <1>12, <1>a, <1>d, <1>e DEF ReadFails, At
<1>13. CASE WorkerCrash(w) BY <1>13, <1>b, <1>e DEF WorkerCrash
<1>14. CASE BackoffElapses(w)
  <2>1. worker' = [worker EXCEPT ![w] = worker[w]] BY <1>0, <1>14 DEF BackoffElapses
  <2> QED BY <1>0, <1>14, <2>1, WorkerMovesOn DEF BackoffElapses, LocalInv, At, Job
<1> QED BY <1>1, <1>2, <1>3, <1>4, <1>5, <1>6, <1>7, <1>8, <1>9, <1>10, <1>11,
           <1>12, <1>13, <1>14 DEF WorkerStep

----
(* The theorems. *)

LEMMA InitInv == Init => QueueInv
<1> SUFFICES ASSUME Init PROVE QueueInv OBVIOUS
<1> USE QueueAssumption DEF Init
<1>1. TypeOK
  <2>1. IdleWorker \in Work BY DEF IdleWorker, Work
  <2>2. IdleSync \in [pc : {"load", "apply", "unaudited", "audit", "mark"},
                      rows : [Tasks -> Entry], todo : SUBSET Tasks, now : SUBSET Tasks]
    BY EntryTypes DEF IdleSync
  <2>3. faults \in [api : 0..MaxApiFaults, audit : 0..MaxAuditFaults,
                    worker : 0..MaxWorkerFaults]
    OBVIOUS
  <2> QED BY <2>1, <2>2, <2>3, EntryTypes, BreakerTypes DEF TypeOK
<1>2. LocalInv BY DEF LocalInv, IdleSync, IdleWorker
<1>3. RowInv BY DEF RowInv, Placed, Uncancelled, Asked, IdleSync, NoRow, NoEntry
<1>4. WorkerInv BY DEF WorkerInv, IdleWorker
<1>5. AttemptsInv BY DEF AttemptsInv, Uncancelled, NoRow
<1>6. ReportInv BY DEF ReportInv, Reported, Uncancelled, NoRow, NoEntry, IdleSync, Terminal
<1>7. SnapshotInv BY DEF SnapshotInv, Named, NoRow, NoEntry, IdleSync
<1> QED BY <1>1, <1>2, <1>3, <1>4, <1>5, <1>6, <1>7 DEF QueueInv

LEMMA NextInv == QueueInv /\ [Next]_vars => QueueInv'
<1> SUFFICES ASSUME QueueInv, [Next]_vars PROVE QueueInv' OBVIOUS
<1>0. TypeOK' BY NextTypeOK DEF QueueInv
<1>1. ASSUME NEW t \in Tasks, SubmitStep(t) \/ SaveTaskFails(t) PROVE Parts' BY <1>1, SubmitParts
<1>2. ASSUME NEW c \in Cancels,
             CancelInRegistry(c) \/ CancelStep(c) \/ SaveTaskStateFails(c) \/ AuditCancelFails(c)
      PROVE  Parts'
  BY <1>2, CancelParts
<1>3. ASSUME NEW t \in Tasks,
             AppendAudit(t) \/ AppendAuditFails(t) \/ MarkAudited(t) \/ MarkAuditedFails(t)
      PROVE  Parts'
  BY <1>3, AuditParts
<1>4. ASSUME SyncLoad \/ SyncApply \/ LoadUnaudited \/ SyncReadFails \/ ApiCrash
      PROVE  Parts'
  BY <1>4, SyncParts
<1>5. ASSUME NEW w \in Workers,
             \/ WorkerStep(w) \/ StoreSnapshotFails(w) \/ UpdateLost(w)
             \/ ReadFails(w) \/ WorkerCrash(w) \/ BackoffElapses(w)
      PROVE  Parts'
  BY <1>5, WorkerParts
<1>6. ASSUME UNCHANGED vars PROVE Parts'
  <2> USE <1>6 DEF vars, apiVars, workerVars, QueueInv, Asked
  <2>1. LocalInv' BY DEF LocalInv
  <2>2. RowInv' BY DEF RowInv, Placed, Uncancelled
  <2>3. WorkerInv' BY DEF WorkerInv, Uncancelled
  <2>4. AttemptsInv' BY DEF AttemptsInv, Uncancelled
  <2>5. ReportInv' BY DEF ReportInv, Reported, Uncancelled, View
  <2>6. SnapshotInv' BY DEF SnapshotInv, Named
  <2> QED BY <2>1, <2>2, <2>3, <2>4, <2>5, <2>6 DEF Parts
<1>7. Parts' BY <1>1, <1>2, <1>3, <1>4, <1>5, <1>6 DEF Next, SyncStep, Faults
<1> QED BY <1>0, <1>7 DEF QueueInv, Parts

\* The invariant of the queue: whatever is lost, retried, cancelled or
\* crashes, the table, the registry, the loop and the workers stay related as
\* QueueInv says.
THEOREM InvariantHolds == Spec => []QueueInv
<1>1. Init => QueueInv BY InitInv
<1>2. QueueInv /\ [Next]_vars => QueueInv' BY NextInv
<1> QED BY <1>1, <1>2, PTL DEF Spec

\* No two workers run a task that nobody cancels, and they run it at most
\* max_attempts times (claim_next_query_task, reset_task_for_retry).
THEOREM ClaimsExclusiveHolds == Spec => []ClaimsExclusive
<1>1. QueueInv => ClaimsExclusive
  <2> SUFFICES ASSUME QueueInv PROVE ClaimsExclusive OBVIOUS
  <2>1. ASSUME NEW t \in Uncancelled PROVE Cardinality(Busy(t)) <= 1
    <3>1. \A v, w \in Busy(t) : v = w BY DEF Busy, At, Job, QueueInv, WorkerInv
    <3>2. CASE Busy(t) = {} BY <3>2, FS_EmptySet
    <3>3. CASE Busy(t) # {}
      <4>1. PICK w : w \in Busy(t) BY <3>3
      <4>2. Busy(t) = {w} BY <3>1, <4>1
      <4>3. Cardinality(Busy(t)) = 1 BY <4>2, FS_Singleton
      <4> QED BY <4>3
    <3> QED BY <3>2, <3>3
  <2>2. AttemptsBounded BY DEF AttemptsBounded, QueueInv, AttemptsInv
  <2> QED BY <2>1, <2>2 DEF ClaimsExclusive, SingleFlight, QueueInv
<1> QED BY <1>1, InvariantHolds, PTL

\* The registry and the audit log tell of a task what its row says, and a
\* completed row names a snapshot (sync_persisted_task_registry,
\* audit_terminal_task_completions, complete_task).
THEOREM OutcomesReportedHolds == Spec => []OutcomesReported
<1>1. QueueInv => OutcomesReported
  <2> SUFFICES ASSUME QueueInv PROVE OutcomesReported OBVIOUS
  <2>1. RegistryReportsOutcome BY DEF RegistryReportsOutcome, QueueInv, ReportInv, Reported
  <2>2. AuditedMeansLogged BY DEF AuditedMeansLogged, QueueInv, ReportInv, Reported
  <2>3. CompletedNamesSnapshot BY DEF CompletedNamesSnapshot, QueueInv, SnapshotInv, Named
  <2> QED BY <2>1, <2>2, <2>3 DEF OutcomesReported
<1> QED BY <1>1, InvariantHolds, PTL

\* What a step may do to a row: nothing but claim, settle and mark it as long
\* as nobody cancels its task, and nothing revives a cancelled one but a
\* request to cancel it after another.
OutcomeKept(t) ==
  /\ t \in Uncancelled /\ row[t].state \in Terminal => View(row'[t]) = View(row[t])
  /\ row[t].state = "Cancelled" => row'[t].state = "Cancelled" \/ Rewritten(t)

LEMMA StepKeepsOutcomes ==
  ASSUME QueueInv, QueueInv', Next, NEW t \in Tasks
  PROVE  OutcomeKept(t)
<1> USE DEF OutcomeKept, QueueInv, TypeOK, View
<1>0. Placed(t) BY DEF RowInv
<1>1. ASSUME NEW w \in Workers, ~At(w, "idle"), NEW r, UpdateRow(Job(w), r)
      PROVE  OutcomeKept(t)
  BY <1>1 DEF UpdateRow, WorkerInv, At, Job, Terminal, Work
<1>2. ASSUME NEW w \in Workers, WorkerStep(w)
      PROVE  OutcomeKept(t)
  <2>1. ASSUME NEW u \in Tasks, ClaimNextQueryTask(w, u)
        PROVE  row[t].state = "Pending" \/ row'[t] = row[t]
    BY <2>1 DEF ClaimNextQueryTask
  <2>2. CASE CheckTaskState(w) \/ LookUp(w) \/ ExecuteQuery(w) \/ StoreSnapshot(w)
    BY <2>2 DEF CheckTaskState, LookUp, ExecuteQuery, StoreSnapshot
  <2>3. CASE CompleteFromCache(w) BY <2>3, <1>1 DEF CompleteFromCache, At
  <2>4. CASE FailBreakerOpen(w) BY <2>4, <1>1 DEF FailBreakerOpen, At
  <2>5. CASE CompleteTask(w) BY <2>5, <1>1 DEF CompleteTask, At
  <2>6. CASE HandleTaskFailure(w) BY <2>6, <1>1 DEF HandleTaskFailure, At
  <2> QED BY <1>2, <2>1, <2>2, <2>3, <2>4, <2>5, <2>6 DEF WorkerStep, Terminal
<1>3. ASSUME NEW u \in Tasks, SaveTask(u) PROVE OutcomeKept(t)
  <2>1. CASE u # t BY <1>3, <2>1 DEF SaveTask
  <2>2. CASE u = t BY <1>0, <1>3, <2>2 DEF SaveTask, Placed, NoRow, Terminal
  <2> QED BY <2>1, <2>2
<1>8. ASSUME NEW c \in Cancels, SaveTaskState(c) PROVE OutcomeKept(t)
  <2>0. cancel[c].pc = "write" /\ cancel'[c].pc = "log" /\ Asks[c] \in Tasks
    BY <1>8, QueueAssumption DEF SaveTaskState
  <2>1. CASE Asks[c] # t
    <3>1. row'[t] = row[t] BY <1>8, <2>0, <2>1 DEF SaveTaskState
    <3> QED BY <3>1
  <2>2. CASE Asks[c] = t
    <3>1. c \in Asked(t) BY <2>0, <2>2 DEF Asked
    <3>2. t \notin Uncancelled BY <3>1 DEF Uncancelled
    <3>3. ASSUME row[t].state = "Cancelled" PROVE Rewritten(t)
      <4>1. PICK d \in Cancels : Asks[d] = t /\ cancel[d].pc \in {"log", "accepted", "lost"}
        BY <1>0, <3>3 DEF Placed
      <4>2. d # c /\ d \in Asked(t) BY <2>0, <4>1 DEF Asked
      <4> QED BY <2>0, <3>1, <4>2 DEF Rewritten
    <3> QED BY <3>2, <3>3
  <2> QED BY <2>1, <2>2
<1>4. ASSUME NEW u \in Tasks, MarkAudited(u) PROVE View(row'[t]) = View(row[t])
  BY <1>4 DEF MarkAudited, Row
<1>5. ASSUME UNCHANGED row
      PROVE  OutcomeKept(t)
  BY <1>5
<1>6. \/ \E w \in Workers : WorkerStep(w)
      \/ \E u \in Tasks : SaveTask(u)
      \/ \E c \in Cancels : SaveTaskState(c)
      \/ \E u \in Tasks : MarkAudited(u)
      \/ UNCHANGED row
  BY DEF Next, SubmitStep, CancelStep, SyncStep, Faults, CreateTask, CancelInRegistry,
         ReadForPersist, AuditCancel, SyncLoad, SyncApply, LoadUnaudited, AppendAudit,
         BackoffElapses, ApiCrash, SyncReadFails, SaveTaskFails, SaveTaskStateFails,
         AuditCancelFails, AppendAuditFails, MarkAuditedFails, StoreSnapshotFails,
         UpdateLost, ReadFails, WorkerCrash
<1>7. ASSUME NEW u \in Tasks, MarkAudited(u)
      PROVE  OutcomeKept(t)
  BY <1>4, <1>7
<1> QED BY <1>2, <1>3, <1>5, <1>6, <1>7, <1>8

\* Outcomes are final: a terminal row nobody cancels keeps its state and
\* snapshot, and no late update of a worker revives a cancelled task, nor does
\* a request to cancel it that is the only one, whatever the registry holds
\* (complete_task, fail_task, reset_task_for_retry: state != 'cancelled';
\* persist_task_state).
THEOREM OutcomesAreFinal == Spec => OutcomeIsFinal
<1>1. QueueInv /\ QueueInv' /\ [Next]_vars
        => [\A t \in Tasks : OutcomeKept(t)]_vars
  BY StepKeepsOutcomes
<1> QED BY <1>1, InvariantHolds, PTL DEF Spec, OutcomeIsFinal, OutcomeKept

----
(* Classification: the invariant. *)

PolicyRecord ==
  [level : 0..5, mask : Masks, status : {"none", "pending", "confirmed"},
   source : {"none", "rules", "samples", "review"}, version : {None} \cup Books,
   run : {None} \cup Detections]

VersionRecord(n) ==
  [number : 1..n, status : {"draft", "active", "retired"},
   rules : {RuleBooks[i] : i \in DOMAIN RuleBooks}]

\* Versions are numbered from 1 on without a gap, in whatever order requests
\* that read the highest number insert theirs.
VersionsTyped ==
  \E n \in Books :
    /\ versions \in [1..n -> VersionRecord(n)]
    /\ \A v, w \in 1..n : versions[v].number = versions[w].number => v = w
    /\ \A r \in Reviewers : review[r].pc = "number" => review[r].version \in 1..n+1

FindingRecord ==
  [status : {"pending", "confirmed"}, fields : SUBSET PolicyFields, version : Books]

UnderWay == {"version", "record", "policies"}

DetectionRecord ==
  [pc : {"idle", "over"} \cup UnderWay, known : SUBSET PolicyFields, version : {None} \cup Books,
   found : FoundIn \cup {<<>>}, todo : SUBSET PolicyFields]

ReviewSteps == {"idle", "number", "retire", "activate", "confirm", "close"}

PoliciesTyped ==
  /\ policies \in [PolicyFields -> PolicyRecord]
  /\ DOMAIN findings \subseteq Detections /\ findings \in [DOMAIN findings -> FindingRecord]
  /\ detection \in [Detections -> DetectionRecord]
  /\ review = [r \in Reviewers |-> review[r]]
  /\ overlapped \in BOOLEAN /\ overtaken \subseteq Detections \X PolicyFields

\* A policy in itself, its version and its run.
PolicyFits(f) ==
  /\ policies[f].status = "none" <=> policies[f].run = None
  /\ policies[f].source = "review" => policies[f].status = "confirmed"
  /\ policies[f].version # None => policies[f].version \in DOMAIN versions
  /\ policies[f].source = "samples" =>
       /\ policies[f].level >= 4 /\ policies[f].status = "pending"
       /\ policies[f].mask # "none" \/ ShownByRule(policies[f], f)
  /\ policies[f].run # None =>
       policies[f].run \in DOMAIN findings /\ f \in findings[policies[f].run].fields

\* What a detection knows; a field it is about to classify was not confirmed
\* when it read the policies, or reviewed since.
DetectionFits(d) ==
  LET x == detection[d]
  IN  /\ x.pc # "idle" => x.found \in FoundIn
      /\ x.pc \in UnderWay => \A f \in PolicyFields :
           policies[f].source = "review" => f \in x.known \/ <<d, f>> \in overtaken
      /\ x.pc \in {"record", "policies"} =>
           x.version \in DOMAIN versions /\ x.todo \cap x.known = {}
      /\ x.pc \in {"idle", "version", "record"} => d \notin DOMAIN findings
      /\ x.pc = "policies" => d \in DOMAIN findings /\ x.todo \subseteq findings[d].fields

ReviewedInTime(f) ==
  policies[f].source = "review" \/ \E e \in Detections : <<e, f>> \in overtaken

\* What an activation holds, and how far a confirmation has come.
ReviewFits(r) ==
  LET x == review[r]
  IN  /\ x \in [pc : ReviewSteps, version : Nat, seen : {x.seen}, fields : SUBSET PolicyFields]
      /\ x.pc \in {"retire", "activate"} =>
           x.version \in DOMAIN versions /\ x.seen \subseteq DOMAIN versions
      /\ x.pc \in {"confirm", "close"} =>
           /\ x.version \in DOMAIN versions
           /\ \A f \in x.fields :
                /\ policies[f].status # "none"
                /\ (\E y \in x.seen : y[1] = f) \/ ReviewedInTime(f)
      /\ x.pc = "confirm" =>
           /\ x.seen \subseteq x.fields \X PolicyRecord
           /\ \A y, z \in x.seen : y[1] = z[1] => y = z
      /\ x.pc = "close" => x.seen = {}

\* One activation at a time, which knows of every version that is active.
ActivationsApart ==
  ~overlapped =>
    /\ \A a, b \in ActiveVersions : a = b
    /\ \A r, q \in Activating : r = q
    /\ \A r \in Activating : ActiveVersions \subseteq review[r].seen \cup {review[r].version}

\* The field that justifies that a run is marked confirmed; the run's own
\* detection will not come back to it.
Justifies(f, d) ==
  \/ ReviewedInTime(f)
  \/ policies[f].run # d /\ (detection[d].pc = "policies" => f \notin detection[d].todo)

RunsJustified ==
  \A d \in DOMAIN findings : findings[d].status = "confirmed" =>
    \E f \in findings[d].fields : Justifies(f, d)

PoliciesInv ==
  /\ PoliciesTyped
  /\ VersionsTyped
  /\ \A f \in PolicyFields : PolicyFits(f)
  /\ \A d \in Detections : DetectionFits(d)
  /\ \A r \in Reviewers : ReviewFits(r)
  /\ ActivationsApart
  /\ RunsJustified
----
(* Classification: what its operators return. *)

LEMMA LeastNumber ==
  ASSUME NEW S \in SUBSET Nat, S # {}
  PROVE  Min(S) \in S /\ \A y \in S : Min(S) <= y
<1>1. PICK x \in S : \A y \in S : ~ (<<y, x>> \in OpToRel(<, Nat)) BY NatLessThanWellFounded, WFMin
<1>2. \A m, n \in Nat : m < n => <<m, n>> \in OpToRel(<, Nat) BY DEF OpToRel
<1>3. ASSUME NEW y \in S PROVE x <= y
  <2>1. x \in Nat /\ y \in Nat OBVIOUS
  <2>2. ~ (y < x) BY <1>1, <1>2, <2>1
  <2> QED BY <2>1, <2>2
<1> QED BY <1>3 DEF Min

LEMMA HighestNumber ==
  ASSUME NEW N \in Nat, NEW S, S \subseteq 0..N, S # {}
  PROVE  Max(S) \in S /\ \A r \in S : r <= Max(S)
<1> DEFINE T == {N - s : s \in S}
<1>1. T \in SUBSET Nat /\ T # {}
  <2>1. \A s \in S : N - s \in Nat OBVIOUS
  <2> QED BY <2>1
<1> HIDE DEF T
<1>2. Min(T) \in T /\ \A y \in T : Min(T) <= y BY <1>1, LeastNumber
<1>3. PICK s \in S : Min(T) = N - s BY <1>2 DEF T
<1>4. ASSUME NEW r \in S PROVE s >= r
  <2>1. N - r \in T BY DEF T
  <2>2. N - s <= N - r BY <1>2, <1>3, <2>1
  <2> QED BY <2>2
<1> QED BY <1>4 DEF Max

RuleRecord == [matches : SUBSET PolicyFields, level : 1..5, mask : Masks, detects : BOOLEAN]

RuleBook == {RuleBooks[i] : i \in DOMAIN RuleBooks}

LEMMA BooksTyped == \A rules \in RuleBook : rules \in Seq(RuleRecord)
BY DataPoliciesAssumption DEF RuleBook, RuleRecord

LEMMA RuleForFound ==
  ASSUME NEW rules \in RuleBook, NEW f
  PROVE  RuleFor(rules, f) # None =>
           RuleFor(rules, f) \in DOMAIN rules /\ rules[RuleFor(rules, f)] \in RuleRecord
<1> DEFINE matching == {i \in DOMAIN rules : f \in rules[i].matches}
<1>1. rules \in Seq(RuleRecord) BY BooksTyped
<1>2. matching \in SUBSET Nat BY <1>1
<1>3. matching # {} => Min(matching) \in matching BY <1>2, LeastNumber
<1>4. RuleFor(rules, f) = IF matching = {} THEN None ELSE Min(matching) BY DEF RuleFor
<1>5. matching \subseteq DOMAIN rules OBVIOUS
<1> HIDE DEF matching
<1> QED BY <1>1, <1>3, <1>4, <1>5

\* A policy before it is saved.
Draft(version) ==
  [level : 1..5, mask : Masks, status : {"none", "pending", "confirmed"},
   source : {"none", "rules", "samples", "review"}, version : {None, version}, run : {None}]

LEMMA BaseTyped ==
  ASSUME NEW rules \in RuleBook, NEW version, NEW f
  PROVE  LET base == BasePolicy(rules, version, f)
         IN  /\ base \in Draft(version)
             /\ base.source = "rules" /\ base.status # "none"
             /\ base.mask = "none" =>
                  /\ base.version = version /\ RuleFor(rules, f) # None
                  /\ rules[RuleFor(rules, f)].level = base.level
                  /\ rules[RuleFor(rules, f)].mask = "none"
<1>1. CASE RuleFor(rules, f) = None BY <1>1 DEF BasePolicy, Policy, Draft, Masks
<1>2. CASE RuleFor(rules, f) # None
  <2> DEFINE rule == rules[RuleFor(rules, f)]
  <2>1. rule \in RuleRecord BY <1>2, RuleForFound
  <2> HIDE DEF rule
  <2>2. BasePolicy(rules, version, f)
          = Policy(rule.level, rule.mask,
                   IF RequiresConfirmation(rule) THEN "pending" ELSE "confirmed", "rules", version)
    BY <1>2 DEF BasePolicy, rule
  <2>3. rule.level \in 1..5 /\ rule.mask \in Masks BY <2>1 DEF RuleRecord
  <2> QED BY <1>2, <2>2, <2>3 DEF Policy, Draft, rule
<1> QED BY <1>1, <1>2

\* Patterns leave a policy as it was, or give it a mask.
Raised(p, q, version) ==
  q \in Draft(version) /\ q.version = p.version /\ (q = p \/ q.mask # "none")

LEMMA EscalatedByOne ==
  ASSUME NEW version, NEW p \in Draft(version), NEW pattern \in Patterns
  PROVE  Raised(p, EscalateBy(p, pattern), version) /\ EscalateBy(p, pattern).level >= 4
<1> DEFINE With(l, m) == IF p.level < l THEN [p EXCEPT !.level = l, !.mask = m] ELSE p
<1>1. ASSUME NEW l \in {4, 5}, NEW m \in Masks \ {"none"}
      PROVE  Raised(p, With(l, m), version) /\ With(l, m).level >= 4
  <2>1. [p EXCEPT !.level = l, !.mask = m] \in Draft(version)
    <3>1. l \in 1..5 /\ m \in Masks OBVIOUS
    <3> QED BY <3>1 DEF Draft
  <2>5. /\ [p EXCEPT !.level = l, !.mask = m].level = l
        /\ [p EXCEPT !.level = l, !.mask = m].mask = m
        /\ [p EXCEPT !.level = l, !.mask = m].version = p.version
    BY DEF Draft
  <2>2. p.level \in 1..5 BY DEF Draft
  <2>3. CASE p.level < l BY <2>1, <2>3, <2>5 DEF Raised
  <2>4. CASE ~ (p.level < l) BY <2>2, <2>4 DEF Raised
  <2> QED BY <2>3, <2>4
<1>2. "full" \in Masks \ {"none"} /\ "email" \in Masks \ {"none"} /\ "phone" \in Masks \ {"none"}
  BY DEF Masks
<1>3. \E l \in {4, 5}, m \in Masks \ {"none"} : EscalateBy(p, pattern) = With(l, m)
  <2>1. pattern \in {"id_card", "bank_card"} => EscalateBy(p, pattern) = With(5, "full") BY DEF EscalateBy
  <2>2. pattern = "email" => EscalateBy(p, pattern) = With(4, "email") BY DEF EscalateBy
  <2>3. pattern = "phone" => EscalateBy(p, pattern) = With(4, "phone") BY DEF EscalateBy
  <2> HIDE DEF With
  <2> QED BY <1>2, <2>1, <2>2, <2>3 DEF Patterns
<1> HIDE DEF With
<1> QED BY <1>1, <1>3

\* Pattern after pattern, up to the n-th.
Fold(p, patterns, n, g) ==
  g = [k \in 0..n |-> IF k = 0 THEN p ELSE EscalateBy(g[k - 1], patterns[k])]

LEMMA FoldExists ==
  ASSUME NEW p, NEW patterns \in Seq(Patterns)
  PROVE  \E g : Fold(p, patterns, Len(patterns), g)
<1> DEFINE S == {n \in 0..Len(patterns) : ~ \E g : Fold(p, patterns, n, g)}
<1>0. Len(patterns) \in 0..Len(patterns) OBVIOUS
<1>1. SUFFICES ASSUME S # {} PROVE FALSE BY <1>0
<1>2. S \in SUBSET Nat OBVIOUS
<1>3. PICK n \in S : \A y \in S : n <= y BY <1>1, <1>2, LeastNumber
<1>4. n \in 0..Len(patterns) /\ ~ \E g : Fold(p, patterns, n, g) BY <1>3
<1>5. CASE n = 0
  <2>1. Fold(p, patterns, n, [k \in 0..0 |-> p]) BY <1>5 DEF Fold
  <2> QED BY <1>4, <2>1
<1>6. CASE n # 0
  <2>1. n - 1 \in 0..Len(patterns) /\ ~ (n <= n - 1) /\ n \in Nat BY <1>4, <1>6
  <2>2. PICK g : Fold(p, patterns, n - 1, g) BY <1>3, <2>1
  <2> DEFINE h == [k \in 0..n |-> IF k = n THEN EscalateBy(g[n - 1], patterns[n]) ELSE g[k]]
  <2>3. \A k \in 0..(n - 1) : h[k] = g[k] BY <2>1
  <2>4. ASSUME NEW k \in 0..n
        PROVE  h[k] = IF k = 0 THEN p ELSE EscalateBy(h[k - 1], patterns[k])
    <3>1. CASE k = n
      <4>1. n - 1 \in 0..(n - 1) /\ h[n] = EscalateBy(g[n - 1], patterns[n]) BY <2>1, <1>4, <1>6
      <4> HIDE DEF h
      <4> QED BY <1>6, <2>3, <3>1, <4>1
    <3>2. CASE k # n
      <4>1. k \in 0..(n - 1) BY <2>1, <3>2
      <4>2. h[k] = g[k] /\ (k # 0 => h[k - 1] = g[k - 1])
        <5>1. k # 0 => k - 1 \in 0..(n - 1) BY <2>1, <4>1
        <5> HIDE DEF h
        <5> QED BY <2>3, <4>1, <5>1
      <4>3. g[k] = IF k = 0 THEN p ELSE EscalateBy(g[k - 1], patterns[k]) BY <2>2, <4>1 DEF Fold
      <4> HIDE DEF h
      <4> QED BY <4>2, <4>3
    <3> QED BY <3>1, <3>2
  <2>5. h = [k \in 0..n |-> h[k]] OBVIOUS
  <2> HIDE DEF h
  <2>6. Fold(p, patterns, n, h) BY <2>4, <2>5 DEF Fold
  <2> QED BY <1>4, <2>6
<1> QED BY <1>5, <1>6

LEMMA FoldRaises ==
  ASSUME NEW version, NEW p \in Draft(version), NEW patterns \in Seq(Patterns), patterns # <<>>,
         NEW g, Fold(p, patterns, Len(patterns), g)
  PROVE  Raised(p, g[Len(patterns)], version) /\ g[Len(patterns)].level >= 4
<1> DEFINE OK(n) == Raised(p, g[n], version) /\ (n # 0 => g[n].level >= 4)
           S == {n \in 0..Len(patterns) : ~ OK(n)}
<1>0. Len(patterns) \in Nat \ {0} OBVIOUS
<1>1. \A n \in 0..Len(patterns) : g[n] = IF n = 0 THEN p ELSE EscalateBy(g[n - 1], patterns[n])
  BY DEF Fold
<1>2. ASSUME S # {} PROVE FALSE
  <2>1. S \in SUBSET Nat BY <1>0
  <2>2. PICK n \in S : \A y \in S : n <= y BY <1>2, <2>1, LeastNumber
  <2>3. n \in 0..Len(patterns) /\ ~ OK(n) BY <2>2
  <2>4. n # 0
    <3>1. g[0] = p BY <1>0, <1>1
    <3> QED BY <2>3, <3>1 DEF Raised
  <2>5. n - 1 \in 0..Len(patterns) /\ ~ (n <= n - 1) /\ n \in DOMAIN patterns BY <1>0, <2>3, <2>4
  <2>6. OK(n - 1) BY <2>2, <2>5
  <2>7. g[n] = EscalateBy(g[n - 1], patterns[n]) /\ patterns[n] \in Patterns BY <1>1, <2>3, <2>4, <2>5
  <2>8. g[n - 1] \in Draft(version) BY <2>6 DEF Raised
  <2>9. Raised(g[n - 1], g[n], version) /\ g[n].level >= 4 BY <2>7, <2>8, EscalatedByOne
  <2>10. OK(n) BY <2>6, <2>9 DEF Raised
  <2> QED BY <2>3, <2>10
<1>3. Len(patterns) \in 0..Len(patterns) BY <1>0
<1> HIDE DEF OK
<1>4. OK(Len(patterns)) BY <1>2, <1>3
<1> QED BY <1>0, <1>4 DEF OK

\* Patterns of any number and in any order make a policy sensitive, pending
\* and masked, unless its rule shows what it calls sensitive.
LEMMA EscalationHolds ==
  ASSUME NEW version, NEW p \in Draft(version), NEW patterns \in Seq(Patterns), patterns # <<>>
  PROVE  LET q == Escalated(p, patterns)
         IN  /\ q \in Draft(version) /\ q.version = p.version
             /\ q.level >= 4 /\ q.status = "pending" /\ q.source = "samples"
             /\ q.mask # "none" \/ (p.mask = "none" /\ p.level >= 4)
<1> DEFINE q == Escalated(p, patterns)
<1>1. \E g : Fold(p, patterns, Len(patterns), g) BY FoldExists
<1>2. PICK g : /\ Fold(p, patterns, Len(patterns), g)
               /\ q = [g[Len(patterns)] EXCEPT !.status = "pending", !.source = "samples"]
  BY <1>1 DEF Escalated, Fold
<1>3. Raised(p, g[Len(patterns)], version) /\ g[Len(patterns)].level >= 4 BY <1>2, FoldRaises
<1> HIDE DEF q
<1> QED BY <1>2, <1>3 DEF Raised, Draft, q

LEMMA ClassifyTyped ==
  ASSUME NEW rules \in RuleBook, NEW version, NEW f, NEW patterns \in Seq(Patterns)
  PROVE  LET q == Classify(rules, version, f, patterns)
         IN  /\ q \in Draft(version) /\ q.status # "none" /\ q.source \in {"rules", "samples"}
             /\ q.source = "samples" =>
                  /\ q.level >= 4 /\ q.status = "pending"
                  /\ \/ q.mask # "none"
                     \/ /\ q.version = version /\ RuleFor(rules, f) # None
                        /\ rules[RuleFor(rules, f)].level >= 4
                        /\ rules[RuleFor(rules, f)].mask = "none"
<1> DEFINE base == BasePolicy(rules, version, f)
<1>1. /\ base \in Draft(version)
      /\ base.source = "rules" /\ base.status # "none"
      /\ base.mask = "none" =>
           /\ base.version = version /\ RuleFor(rules, f) # None
           /\ rules[RuleFor(rules, f)].level = base.level
           /\ rules[RuleFor(rules, f)].mask = "none"
  BY BaseTyped
<1> HIDE DEF base
<1>2. CASE patterns = <<>> BY <1>1, <1>2 DEF Classify, base
<1>3. CASE patterns # <<>>
  <2> DEFINE q == Escalated(base, patterns)
  <2>1. Classify(rules, version, f, patterns) = q BY <1>3 DEF Classify, base
  <2>2. /\ q \in Draft(version) /\ q.version = base.version
        /\ q.level >= 4 /\ q.status = "pending" /\ q.source = "samples"
        /\ q.mask # "none" \/ (base.mask = "none" /\ base.level >= 4)
    BY <1>1, <1>3, EscalationHolds
  <2> HIDE DEF q
  <2> QED BY <1>1, <2>1, <2>2
<1> QED BY <1>2, <1>3

----
(* Classification: what a step leaves as it was. *)

VersionsKept ==
  /\ DOMAIN versions \subseteq DOMAIN versions'
  /\ \A v \in DOMAIN versions : versions'[v].rules = versions[v].rules

FindingsKept ==
  /\ DOMAIN findings \subseteq DOMAIN findings'
  /\ \A d \in DOMAIN findings : findings'[d].fields = findings[d].fields

LEMMA VersionsKnown ==
  ASSUME VersionsTyped, NEW v \in DOMAIN versions
  PROVE  v \in Books /\ v # None /\ versions[v].rules \in RuleBook
<1>1. PICK n \in Books : versions \in [1..n -> VersionRecord(n)] BY DEF VersionsTyped
<1>2. v \in 1..n /\ versions[v] \in VersionRecord(n) BY <1>1
<1>3. n \in Nat /\ n <= MaxBooks /\ MaxBooks \in Nat BY DataPoliciesAssumption DEF Books
<1> QED BY <1>2, <1>3 DEF VersionRecord, RuleBook, Books, None

LEMMA PolicyKept ==
  ASSUME PoliciesInv, VersionsKept, FindingsKept,
         NEW f \in PolicyFields, policies'[f] = policies[f]
  PROVE  PolicyFits(f)'
<1>1. PolicyFits(f) BY DEF PoliciesInv
<1>2. policies[f].version # None => policies[f].version \in DOMAIN versions BY <1>1 DEF PolicyFits
<1>3. ShownByRule(policies[f], f) => ShownByRule(policies[f], f)' BY <1>2 DEF ShownByRule, VersionsKept
<1> QED BY <1>1, <1>2, <1>3 DEF PolicyFits, VersionsKept, FindingsKept, ShownByRule

LEMMA DetectionKept ==
  ASSUME PoliciesInv, VersionsKept, FindingsKept, NEW d \in Detections,
         detection'[d] = detection[d], overtaken \subseteq overtaken',
         d \in DOMAIN findings' => d \in DOMAIN findings,
         detection[d].pc \in UnderWay => \A f \in PolicyFields :
           policies'[f].source = "review" => policies[f].source = "review" \/ <<d, f>> \in overtaken'
  PROVE  DetectionFits(d)'
BY DEF PoliciesInv, DetectionFits, VersionsKept, FindingsKept

ReviewsKept ==
  \A f \in PolicyFields :
    /\ policies[f].status # "none" => policies'[f].status # "none"
    /\ ReviewedInTime(f) => ReviewedInTime(f)'

LEMMA ReviewKept ==
  ASSUME PoliciesInv, VersionsKept, ReviewsKept, NEW r \in Reviewers, review'[r] = review[r]
  PROVE  ReviewFits(r)'
<1>1. ReviewFits(r) /\ review[r].fields \subseteq PolicyFields BY DEF PoliciesInv, ReviewFits
<1> QED BY <1>1 DEF ReviewFits, VersionsKept, ReviewsKept

LEMMA NothingReviewed ==
  ASSUME UNCHANGED policies, overtaken \subseteq overtaken'
  PROVE  ReviewsKept
BY DEF ReviewsKept, ReviewedInTime

\* Runs stay justified.
LEMMA RunsKept ==
  ASSUME PoliciesInv, FindingsKept,
         \A d \in DOMAIN findings' : findings'[d].status = "confirmed" =>
           d \in DOMAIN findings /\ findings[d].status = "confirmed",
         \A d \in DOMAIN findings : \A f \in PolicyFields : Justifies(f, d) => Justifies(f, d)'
  PROVE  RunsJustified'
<1>1. ASSUME NEW d \in DOMAIN findings', findings'[d].status = "confirmed"
      PROVE  \E f \in findings'[d].fields : Justifies(f, d)'
  <2>1. d \in DOMAIN findings /\ findings[d].status = "confirmed" BY <1>1
  <2>2. PICK f \in findings[d].fields : Justifies(f, d) BY <2>1 DEF PoliciesInv, RunsJustified
  <2>3. findings[d] \in FindingRecord BY <2>1 DEF PoliciesInv, PoliciesTyped
  <2>4. f \in PolicyFields BY <2>2, <2>3 DEF FindingRecord
  <2> QED BY <2>1, <2>2, <2>4 DEF FindingsKept
<1> QED BY <1>1 DEF RunsJustified

\* Activations are not concerned.
LEMMA ActivationsKept ==
  ASSUME PoliciesInv, UNCHANGED <<versions, overlapped>>,
         \A r \in Reviewers : \/ review'[r] = review[r]
                              \/ review'[r].pc \notin {"retire", "activate"}
  PROVE  ActivationsApart'
<1>1. ActiveVersions' = ActiveVersions BY DEF ActiveVersions
<1>2. \A r \in Activating' : r \in Activating /\ review'[r] = review[r] BY DEF Activating
<1> QED BY <1>1, <1>2 DEF PoliciesInv, ActivationsApart

----
(* Classification: the start, and detections. *)

LEMMA PoliciesInitInv == ASSUME PoliciesInit PROVE PoliciesInv
<1>1. RuleBooks[1] \in {RuleBooks[i] : i \in DOMAIN RuleBooks} BY DataPoliciesAssumption
<1>2. 1 \in Books BY DataPoliciesAssumption DEF Books
<1>3. versions \in [1..1 -> VersionRecord(1)]
  <2>1. 1..1 = {1} OBVIOUS
  <2>2. [number |-> 1, status |-> "active", rules |-> RuleBooks[1]] \in VersionRecord(1)
    BY <1>1, <2>1 DEF VersionRecord
  <2> QED BY <2>1, <2>2 DEF PoliciesInit
<1>4. VersionsTyped
  <2>1. \A r \in Reviewers : review[r].pc = "idle" BY DEF PoliciesInit, IdleReview
  <2>2. \A v, w \in 1..1 : v = w OBVIOUS
  <2> QED BY <1>2, <1>3, <2>1, <2>2 DEF VersionsTyped
<1>5. PoliciesTyped
  <2>1. NoPolicy \in PolicyRecord BY DEF NoPolicy, Policy, PolicyRecord, Masks, None
  <2>2. Waiting \in DetectionRecord BY DEF Waiting, DetectionRecord
  <2>3. DOMAIN findings = {} /\ findings \in [DOMAIN findings -> FindingRecord] BY DEF PoliciesInit
  <2> QED BY <2>1, <2>2, <2>3 DEF PoliciesInit, PoliciesTyped
<1>6. ASSUME NEW f \in PolicyFields PROVE PolicyFits(f) BY DEF PoliciesInit, PolicyFits, NoPolicy, Policy
<1>7. ASSUME NEW d \in Detections PROVE DetectionFits(d)
  <2>1. detection[d].pc = "idle" /\ DOMAIN findings = {} BY DEF PoliciesInit, Waiting
  <2> QED BY <2>1 DEF DetectionFits, UnderWay
<1>8. ASSUME NEW r \in Reviewers PROVE ReviewFits(r) /\ r \notin Activating
  BY DEF PoliciesInit, ReviewFits, IdleReview, Activating, ReviewSteps, None
<1>9. ActivationsApart
  <2>1. DOMAIN versions = {1} BY DEF PoliciesInit
  <2> QED BY <1>8, <2>1 DEF ActivationsApart, ActiveVersions, Activating
<1>10. RunsJustified BY DEF PoliciesInit, RunsJustified
<1> QED BY <1>4, <1>5, <1>6, <1>7, <1>8, <1>9, <1>10 DEF PoliciesInv

LEMMA DetectionMoves ==
  ASSUME PoliciesInv, NEW d \in Detections,
         UNCHANGED <<versions, policies, review, overlapped>>,
         FindingsKept, DOMAIN findings' \subseteq DOMAIN findings \cup {d},
         findings' \in [DOMAIN findings' -> FindingRecord],
         \A e \in DOMAIN findings' : findings'[e].status = "confirmed" =>
           e \in DOMAIN findings /\ findings[e].status = "confirmed",
         detection' \in [Detections -> DetectionRecord],
         \A e \in Detections \ {d} : detection'[e] = detection[e],
         overtaken \subseteq overtaken', overtaken' \subseteq Detections \X PolicyFields,
         DetectionFits(d)',
         d \in DOMAIN findings /\ detection'[d].pc = "policies" =>
           detection[d].pc = "policies" /\ detection'[d].todo = detection[d].todo
  PROVE  PoliciesInv'
<1>1. VersionsKept /\ VersionsTyped' BY DEF PoliciesInv, VersionsKept, VersionsTyped
<1>2. PoliciesTyped' BY DEF PoliciesInv, PoliciesTyped
<1>3. ReviewsKept BY NothingReviewed
<1>4. ASSUME NEW f \in PolicyFields PROVE PolicyFits(f)' BY <1>1, PolicyKept
<1>5. ASSUME NEW e \in Detections PROVE DetectionFits(e)'
  <2>1. CASE e # d BY <2>1, <1>1, DetectionKept
  <2> QED BY <2>1
<1>6. ASSUME NEW r \in Reviewers PROVE ReviewFits(r)' BY <1>1, <1>3, ReviewKept
<1>7. ActivationsApart' BY ActivationsKept
<1>8. ASSUME NEW e \in DOMAIN findings, NEW f \in PolicyFields, Justifies(f, e)
      PROVE  Justifies(f, e)'
  <2>1. ReviewedInTime(f) => ReviewedInTime(f)' BY <1>3 DEF ReviewsKept
  <2>2. e \in Detections BY DEF PoliciesInv, PoliciesTyped
  <2> QED BY <1>8, <2>1, <2>2 DEF Justifies
<1>9. RunsJustified' BY <1>8, RunsKept
<1> QED BY <1>1, <1>2, <1>4, <1>5, <1>6, <1>7, <1>9 DEF PoliciesInv

LEMMA DetectionKnown ==
  ASSUME PoliciesInv, NEW d \in Detections
  PROVE  detection[d] \in DetectionRecord /\ DetectionFits(d)
BY DEF PoliciesInv, PoliciesTyped

LEMMA LoadPoliciesKeeps ==
  ASSUME PoliciesInv, NEW d \in Detections, LoadPolicies(d)
  PROVE  PoliciesInv'
<1>1. PICK found \in FoundIn, failed \in BOOLEAN :
        /\ detection' = [detection EXCEPT ![d] =
             [Waiting EXCEPT !.pc = "version", !.found = found,
                !.known = IF failed THEN {} ELSE ConfirmedFields]]
        /\ overtaken' = overtaken \union (IF failed THEN {d} \X PolicyFields ELSE {})
  BY DEF LoadPolicies
<1> DEFINE K == IF failed THEN {} ELSE ConfirmedFields
           x == [Waiting EXCEPT !.pc = "version", !.found = found, !.known = K]
<1>2. detection' = [detection EXCEPT ![d] = x] BY <1>1
<1>3. K \subseteq PolicyFields BY DEF ConfirmedFields
<1>4. detection \in [Detections -> DetectionRecord] BY DEF PoliciesInv, PoliciesTyped
<1> HIDE DEF K
<1>5. x.pc = "version" /\ x.found = found /\ x.known = K /\ x \in DetectionRecord
  BY <1>3 DEF DetectionRecord, Waiting, UnderWay
<1> HIDE DEF x
<1>6. ASSUME NEW f \in PolicyFields, policies[f].source = "review"
      PROVE  f \in K \/ <<d, f>> \in overtaken'
  <2>1. CASE failed BY <1>1, <2>1
  <2>2. CASE ~failed BY <1>6, <2>2 DEF PoliciesInv, PolicyFits, ConfirmedFields, K
  <2> QED BY <2>1, <2>2
<1>7. detection'[d] = x /\ detection[d].pc = "idle" /\ d \notin DOMAIN findings
  BY <1>2, <1>4, DetectionKnown DEF LoadPolicies, DetectionFits
<1>8. UNCHANGED <<versions, policies, findings, review, overlapped>> BY DEF LoadPolicies
<1>9. DetectionFits(d)' BY <1>5, <1>6, <1>7, <1>8 DEF DetectionFits
<1>10. overtaken' \subseteq Detections \X PolicyFields BY <1>1 DEF PoliciesInv, PoliciesTyped
<1>11. /\ detection' \in [Detections -> DetectionRecord]
       /\ \A e \in Detections \ {d} : detection'[e] = detection[e]
  BY <1>2, <1>4, <1>5
<1>12. FindingsKept /\ findings' \in [DOMAIN findings' -> FindingRecord]
  BY <1>8 DEF FindingsKept, PoliciesInv, PoliciesTyped
<1> QED BY <1>1, <1>5, <1>7, <1>8, <1>9, <1>10, <1>11, <1>12, DetectionMoves

\* A detection ends, with what it has.
LEMMA DetectionOver ==
  ASSUME PoliciesInv, NEW d \in Detections, detection[d].pc # "idle",
         detection' = [detection EXCEPT ![d].pc = "over"],
         UNCHANGED <<versions, policies, findings, review, overlapped, overtaken>>
  PROVE  PoliciesInv'
<1>1. detection \in [Detections -> DetectionRecord] BY DEF PoliciesInv, PoliciesTyped
<1>2. [detection[d] EXCEPT !.pc = "over"] \in DetectionRecord BY <1>1 DEF DetectionRecord
<1>3. /\ detection' \in [Detections -> DetectionRecord]
      /\ \A e \in Detections \ {d} : detection'[e] = detection[e]
      /\ detection'[d].pc = "over" /\ detection'[d].found = detection[d].found
  BY <1>1, <1>2 DEF DetectionRecord
<1>4. overtaken' \subseteq Detections \X PolicyFields BY DEF PoliciesInv, PoliciesTyped
<1>5. FindingsKept /\ findings' \in [DOMAIN findings' -> FindingRecord]
  BY DEF FindingsKept, PoliciesInv, PoliciesTyped
<1>6. DetectionFits(d)' BY <1>3, DetectionKnown DEF DetectionFits, UnderWay
<1> QED BY <1>3, <1>4, <1>5, <1>6, DetectionMoves

LEMMA ActiveKnown ==
  ASSUME VersionsTyped, ActiveVersion # None
  PROVE  ActiveVersion \in ActiveVersions
<1>1. ActiveVersions # {} BY DEF ActiveVersion
<1>2. PICK n \in Books : versions \in [1..n -> VersionRecord(n)] BY DEF VersionsTyped
<1> DEFINE numbers == {versions[v].number : v \in ActiveVersions}
<1>3. n \in Nat BY DataPoliciesAssumption DEF Books
<1>4. \A v \in ActiveVersions : versions[v].number \in 0..n
  BY <1>2, <1>3 DEF ActiveVersions, VersionRecord
<1>5. numbers \subseteq 0..n /\ numbers # {} BY <1>1, <1>4
<1> HIDE DEF numbers
<1>6. Max(numbers) \in numbers /\ \A k \in numbers : k <= Max(numbers) BY <1>3, <1>5, HighestNumber
<1>7. PICK v \in ActiveVersions : versions[v].number = Max(numbers) BY <1>6 DEF numbers
<1>8. \A w \in ActiveVersions : versions[w].number <= versions[v].number BY <1>6, <1>7 DEF numbers
<1> QED BY <1>1, <1>8 DEF ActiveVersion

LEMMA LoadRulesKeeps ==
  ASSUME PoliciesInv, NEW d \in Detections, LoadRules(d)
  PROVE  PoliciesInv'
<1> DEFINE todo == PolicyFields \ detection[d].known
<1>0. /\ detection[d].pc = "version" /\ detection[d] \in DetectionRecord /\ DetectionFits(d)
      /\ UNCHANGED <<versions, policies, findings, review, overlapped, overtaken>>
  BY DetectionKnown DEF LoadRules
<1>1. CASE detection' = [detection EXCEPT ![d].pc = "over"] BY <1>0, <1>1, DetectionOver
<1>2. CASE /\ ActiveVersion # None
           /\ detection' = [detection EXCEPT ![d].pc = "record", ![d].todo = todo,
                                             ![d].version = ActiveVersion]
  <2> DEFINE x == [detection[d] EXCEPT !.pc = "record", !.todo = todo, !.version = ActiveVersion]
  <2>1. detection \in [Detections -> DetectionRecord] BY DEF PoliciesInv, PoliciesTyped
  <2>2. detection' = [detection EXCEPT ![d] = x] BY <1>2, <2>1
  <2>3. ActiveVersion \in DOMAIN versions /\ ActiveVersion \in Books
    <3>1. ActiveVersion \in DOMAIN versions BY <1>2, ActiveKnown DEF PoliciesInv, ActiveVersions
    <3> QED BY <3>1, VersionsKnown DEF PoliciesInv
  <2>4. /\ x.pc = "record" /\ x.todo = todo /\ x.version = ActiveVersion
        /\ x.found = detection[d].found /\ x.known = detection[d].known /\ x \in DetectionRecord
    BY <1>0, <2>3 DEF DetectionRecord, UnderWay
  <2> HIDE DEF x
  <2>5. /\ detection' \in [Detections -> DetectionRecord]
        /\ \A e \in Detections \ {d} : detection'[e] = detection[e]
        /\ detection'[d] = x
    BY <2>1, <2>2, <2>4
  <2>6. DetectionFits(d)' BY <1>0, <2>3, <2>4, <2>5 DEF DetectionFits, UnderWay
  <2>7. overtaken' \subseteq Detections \X PolicyFields BY <1>0 DEF PoliciesInv, PoliciesTyped
  <2>8. FindingsKept /\ findings' \in [DOMAIN findings' -> FindingRecord]
    BY <1>0 DEF FindingsKept, PoliciesInv, PoliciesTyped
  <2> QED BY <1>0, <2>4, <2>5, <2>6, <2>7, <2>8, DetectionMoves
<1> QED BY <1>1, <1>2 DEF LoadRules

LEMMA RecordRunKeeps ==
  ASSUME PoliciesInv, NEW d \in Detections, RecordRun(d)
  PROVE  PoliciesInv'
<1>0. /\ detection[d].pc = "record" /\ detection[d] \in DetectionRecord /\ DetectionFits(d)
      /\ UNCHANGED <<versions, policies, review, overlapped, overtaken>>
  BY DetectionKnown DEF RecordRun
<1>1. CASE detection' = [detection EXCEPT ![d].pc = "over"] /\ UNCHANGED findings
  BY <1>0, <1>1, DetectionOver
<1>2. CASE /\ findings' = RowsWith(findings, d, [status |-> "pending", fields |-> detection[d].todo,
                                                 version |-> detection[d].version])
           /\ detection' = [detection EXCEPT ![d].pc = "policies"]
  <2> DEFINE x == [detection[d] EXCEPT !.pc = "policies"]
             made == [status |-> "pending", fields |-> detection[d].todo,
                     version |-> detection[d].version]
  <2>1. detection \in [Detections -> DetectionRecord] BY DEF PoliciesInv, PoliciesTyped
  <2>2. detection' = [detection EXCEPT ![d] = x] BY <1>2, <2>1
  <2>3. /\ x.pc = "policies" /\ x.todo = detection[d].todo /\ x.version = detection[d].version
        /\ x.found = detection[d].found /\ x.known = detection[d].known /\ x \in DetectionRecord
    BY <1>0 DEF DetectionRecord, UnderWay
  <2> HIDE DEF x
  <2>4. /\ detection' \in [Detections -> DetectionRecord]
        /\ \A e \in Detections \ {d} : detection'[e] = detection[e]
        /\ detection'[d] = x
    BY <2>1, <2>2, <2>3
  <2>5. d \notin DOMAIN findings /\ detection[d].version \in DOMAIN versions BY <1>0 DEF DetectionFits
  <2>6. made \in FindingRecord /\ made.status = "pending" /\ made.fields = detection[d].todo
    <3>1. detection[d].version \in Books BY <2>5, VersionsKnown DEF PoliciesInv
    <3> QED BY <1>0, <3>1 DEF FindingRecord, DetectionRecord
  <2> HIDE DEF made
  <2>7. /\ DOMAIN findings' = DOMAIN findings \cup {d} /\ findings'[d] = made
        /\ \A e \in DOMAIN findings : findings'[e] = findings[e]
        /\ findings' = [e \in DOMAIN findings' |-> findings'[e]]
    BY <1>2, <2>5 DEF RowsWith, made
  <2>8. FindingsKept /\ findings' \in [DOMAIN findings' -> FindingRecord]
    BY <2>6, <2>7 DEF FindingsKept, PoliciesInv, PoliciesTyped
  <2>9. \A e \in DOMAIN findings' : findings'[e].status = "confirmed" =>
          e \in DOMAIN findings /\ findings[e].status = "confirmed"
    BY <2>6, <2>7
  <2>10. DetectionFits(d)' BY <1>0, <2>3, <2>4, <2>6, <2>7 DEF DetectionFits, UnderWay
  <2>11. overtaken' \subseteq Detections \X PolicyFields BY <1>0 DEF PoliciesInv, PoliciesTyped
  <2> QED BY <1>0, <2>4, <2>5, <2>7, <2>8, <2>9, <2>10, <2>11, DetectionMoves
<1> QED BY <1>1, <1>2 DEF RecordRun

LEMMA PolicyRowTyped ==
  ASSUME PoliciesInv, NEW d \in Detections, NEW f \in PolicyFields,
         detection[d].pc = "policies"
  PROVE  LET made == PolicyRow(d, f)
         IN  /\ made \in PolicyRecord /\ made.run = d
             /\ made.status # "none" /\ made.source \in {"rules", "samples"}
             /\ made.version # None => made.version \in DOMAIN versions
             /\ made.source = "samples" =>
                  /\ made.level >= 4 /\ made.status = "pending"
                  /\ made.mask # "none" \/ ShownByRule(made, f)
<1> DEFINE v == detection[d].version
           rules == versions[v].rules
           q == Classify(rules, v, f, detection[d].found[f])
           made == [q EXCEPT !.run = d]
<1>1. v \in DOMAIN versions /\ detection[d].found \in FoundIn
  BY DetectionKnown DEF DetectionFits, UnderWay
<1>2. v \in Books /\ v # None /\ rules \in RuleBook BY <1>1, VersionsKnown DEF PoliciesInv
<1>3. detection[d].found[f] \in Seq(Patterns) BY <1>1, DataPoliciesAssumption
<1>4. PolicyRow(d, f) = made BY DEF PolicyRow
<1> HIDE DEF v, rules
<1>5. /\ q \in Draft(v) /\ q.status # "none" /\ q.source \in {"rules", "samples"}
      /\ q.source = "samples" =>
           /\ q.level >= 4 /\ q.status = "pending"
           /\ \/ q.mask # "none"
              \/ /\ q.version = v /\ RuleFor(rules, f) # None
                 /\ rules[RuleFor(rules, f)].level >= 4
                 /\ rules[RuleFor(rules, f)].mask = "none"
  BY <1>2, <1>3, ClassifyTyped
<1> HIDE DEF q
<1>6. /\ made \in PolicyRecord /\ made.run = d /\ made.status = q.status /\ made.source = q.source
      /\ made.version = q.version /\ made.level = q.level /\ made.mask = q.mask
      /\ q.version \in {None, v}
  BY <1>2, <1>5 DEF Draft, PolicyRecord
<1> HIDE DEF made
<1>7. made.source = "samples" => made.mask # "none" \/ ShownByRule(made, f)
  BY <1>2, <1>5, <1>6 DEF ShownByRule, rules
<1> QED BY <1>1, <1>4, <1>5, <1>6, <1>7

LEMMA SavePolicyKeeps ==
  ASSUME PoliciesInv, NEW d \in Detections, NEW f \in PolicyFields, SavePolicy(d, f)
  PROVE  PoliciesInv'
<1>0. /\ detection[d].pc = "policies" /\ f \in detection[d].todo
      /\ detection[d] \in DetectionRecord /\ DetectionFits(d)
      /\ UNCHANGED <<versions, findings, review, overlapped, overtaken>>
  BY DetectionKnown DEF SavePolicy
<1>1. CASE detection' = [detection EXCEPT ![d].pc = "over"] /\ UNCHANGED policies
  BY <1>0, <1>1, DetectionOver
<1>2. CASE /\ policies' = [policies EXCEPT ![f] = PolicyRow(d, f)]
           /\ detection' = [detection EXCEPT ![d].todo = @ \ {f},
                ![d].pc = IF detection[d].todo = {f} THEN "over" ELSE @]
  <2> DEFINE made == PolicyRow(d, f)
             step == IF detection[d].todo = {f} THEN "over" ELSE "policies"
             x == [detection[d] EXCEPT !.todo = detection[d].todo \ {f}, !.pc = step]
  <2>1. /\ made \in PolicyRecord /\ made.run = d
        /\ made.status # "none" /\ made.source \in {"rules", "samples"}
        /\ made.version # None => made.version \in DOMAIN versions
        /\ made.source = "samples" =>
             /\ made.level >= 4 /\ made.status = "pending"
             /\ made.mask # "none" \/ ShownByRule(made, f)
    BY <1>0, PolicyRowTyped
  <2> HIDE DEF made
  <2>2. /\ policies \in [PolicyFields -> PolicyRecord]
        /\ detection \in [Detections -> DetectionRecord]
    BY DEF PoliciesInv, PoliciesTyped
  <2>3. /\ policies' \in [PolicyFields -> PolicyRecord] /\ policies'[f] = made
        /\ \A g \in PolicyFields \ {f} : policies'[g] = policies[g]
    BY <1>2, <2>1, <2>2 DEF made
  <2>4. detection' = [detection EXCEPT ![d] = x] BY <1>0, <1>2, <2>2
  <2>5. step \in {"over", "policies"} OBVIOUS
  <2> HIDE DEF step
  <2>6. /\ x.pc \in {"over", "policies"} /\ x.todo = detection[d].todo \ {f}
        /\ x.version = detection[d].version
        /\ x.found = detection[d].found /\ x.known = detection[d].known /\ x \in DetectionRecord
    BY <1>0, <2>5 DEF DetectionRecord, UnderWay
  <2> HIDE DEF x
  <2>7. /\ detection' \in [Detections -> DetectionRecord]
        /\ \A e \in Detections \ {d} : detection'[e] = detection[e]
        /\ detection'[d] = x
    BY <2>2, <2>4, <2>6
  <2>8. policies[f].source = "review" => <<d, f>> \in overtaken BY <1>0 DEF DetectionFits, UnderWay
  <2>9. VersionsKept /\ FindingsKept /\ VersionsTyped'
    BY <1>0 DEF VersionsKept, FindingsKept, PoliciesInv, VersionsTyped
  <2>10. ReviewsKept BY <1>0, <2>1, <2>3, <2>8 DEF ReviewsKept, ReviewedInTime
  <2>11. PoliciesTyped' BY <1>0, <2>3, <2>7 DEF PoliciesInv, PoliciesTyped
  <2>12. ASSUME NEW g \in PolicyFields PROVE PolicyFits(g)'
    <3>1. CASE g # f BY <2>3, <2>9, <3>1, PolicyKept
    <3>2. CASE g = f
      <4>1. d \in DOMAIN findings /\ f \in findings[d].fields /\ d # None
        BY <1>0, DataPoliciesAssumption DEF DetectionFits
      <4>2. policies'[f] = made /\ versions' = versions /\ findings' = findings BY <1>0, <2>3
      <4>3. ShownByRule(policies[f], f)' <=> ShownByRule(made, f) BY <4>2 DEF ShownByRule
      <4> QED BY <2>1, <3>2, <4>1, <4>2, <4>3 DEF PolicyFits
    <3> QED BY <3>1, <3>2
  <2>13. \A g \in PolicyFields : policies'[g].source = "review" => policies[g].source = "review"
    BY <2>1, <2>3
  <2>14. ASSUME NEW e \in Detections PROVE DetectionFits(e)'
    <3>1. CASE e # d BY <1>0, <2>7, <2>9, <2>13, <3>1, DetectionKept
    <3>2. CASE e = d BY <1>0, <2>6, <2>7, <2>13, <3>2 DEF DetectionFits, UnderWay
    <3> QED BY <3>1, <3>2
  <2>15. ASSUME NEW r \in Reviewers PROVE ReviewFits(r)' BY <1>0, <2>9, <2>10, ReviewKept
  <2>16. ActivationsApart' BY <1>0, ActivationsKept
  <2>17. ASSUME NEW e \in DOMAIN findings, NEW g \in PolicyFields, Justifies(g, e)
         PROVE  Justifies(g, e)'
    <3>1. ReviewedInTime(g) => ReviewedInTime(g)' BY <2>10 DEF ReviewsKept
    <3>2. e \in Detections BY DEF PoliciesInv, PoliciesTyped
    <3>3. CASE g = f /\ ~ ReviewedInTime(g)
      <4>1. e # d BY <1>0, <2>17, <3>3 DEF Justifies
      <4> QED BY <2>1, <2>3, <2>7, <2>17, <3>2, <3>3, <4>1 DEF Justifies
    <3>4. CASE g # f /\ ~ ReviewedInTime(g)
      <4>1. policies'[g] = policies[g] BY <2>3, <3>4
      <4>2. detection'[e].pc = "policies" =>
              detection[e].pc = "policies" /\ detection'[e].todo \subseteq detection[e].todo
        BY <1>0, <2>6, <2>7, <3>2
      <4> QED BY <2>17, <3>4, <4>1, <4>2 DEF Justifies
    <3> QED BY <3>1, <3>3, <3>4 DEF Justifies
  <2>18. RunsJustified'
    <3>1. \A e \in DOMAIN findings' : findings'[e].status = "confirmed" =>
            e \in DOMAIN findings /\ findings[e].status = "confirmed"
      BY <1>0
    <3> QED BY <2>9, <2>17, <3>1, RunsKept
  <2> QED BY <2>9, <2>11, <2>12, <2>14, <2>15, <2>16, <2>18 DEF PoliciesInv
<1> QED BY <1>1, <1>2 DEF SavePolicy

----
(* Classification: reviews and activations. *)

LEMMA ReviewMoves ==
  ASSUME PoliciesInv, NEW r \in Reviewers, NEW x,
         review' = [review EXCEPT ![r] = x],
         UNCHANGED <<policies, findings, detection, overtaken>>,
         VersionsKept, VersionsTyped', ReviewFits(r)',
         overlapped' \in BOOLEAN, ActivationsApart'
  PROVE  PoliciesInv'
<1>1. FindingsKept /\ ReviewsKept BY NothingReviewed DEF FindingsKept
<1>2. /\ review = [q \in Reviewers |-> review[q]]
      /\ \A q \in Reviewers \ {r} : review'[q] = review[q]
      /\ review' = [q \in Reviewers |-> review'[q]]
  BY DEF PoliciesInv, PoliciesTyped
<1>3. PoliciesTyped' BY <1>2 DEF PoliciesInv, PoliciesTyped
<1>4. ASSUME NEW f \in PolicyFields PROVE PolicyFits(f)' BY <1>1, PolicyKept
<1>5. ASSUME NEW d \in Detections PROVE DetectionFits(d)' BY <1>1, DetectionKept
<1>6. ASSUME NEW q \in Reviewers PROVE ReviewFits(q)' BY <1>1, <1>2, ReviewKept
<1>7. RunsJustified'
  <2>1. \A d \in DOMAIN findings : \A f \in PolicyFields : Justifies(f, d) => Justifies(f, d)'
    BY DEF Justifies, ReviewedInTime
  <2> QED BY <1>1, <2>1, RunsKept
<1> QED BY <1>3, <1>4, <1>5, <1>6, <1>7 DEF PoliciesInv

LEMMA ReviewSet ==
  ASSUME PoliciesInv, NEW r \in Reviewers, NEW x, review' = [review EXCEPT ![r] = x]
  PROVE  review'[r] = x /\ \A q \in Reviewers \ {r} : review'[q] = review[q]
<1>1. review = [q \in Reviewers |-> review[q]] BY DEF PoliciesInv, PoliciesTyped
<1> QED BY <1>1

LEMMA IdleReviewFits ==
  ASSUME NEW r \in Reviewers, review'[r] = IdleReview
  PROVE  ReviewFits(r)' /\ review'[r].pc = "idle"
BY DEF ReviewFits, IdleReview, ReviewSteps, None

LEMMA SameVersions ==
  ASSUME PoliciesInv, UNCHANGED versions,
         \A q \in Reviewers : review'[q] = review[q] \/ review'[q].pc # "number"
  PROVE  VersionsKept /\ VersionsTyped'
BY DEF PoliciesInv, VersionsKept, VersionsTyped

\* A request ends.
LEMMA ReviewOver ==
  ASSUME PoliciesInv, NEW r \in Reviewers,
         review' = [review EXCEPT ![r] = IdleReview],
         UNCHANGED <<versions, policies, findings, detection, overlapped, overtaken>>
  PROVE  PoliciesInv'
<1>1. review'[r] = IdleReview /\ \A q \in Reviewers \ {r} : review'[q] = review[q] BY ReviewSet
<1>2. ReviewFits(r)' /\ review'[r].pc = "idle" BY <1>1, IdleReviewFits
<1>3. VersionsKept /\ VersionsTyped' BY <1>1, <1>2, SameVersions
<1>4. ActivationsApart' BY <1>1, <1>2, ActivationsKept
<1>5. overlapped' \in BOOLEAN BY DEF PoliciesInv, PoliciesTyped
<1> QED BY <1>2, <1>3, <1>4, <1>5, ReviewMoves

LEMMA VersionCount ==
  ASSUME PoliciesInv
  PROVE  \E n \in Books :
           /\ n \in Nat /\ n <= MaxBooks /\ Cardinality(DOMAIN versions) = n
           /\ versions \in [1..n -> VersionRecord(n)]
           /\ \A v, w \in 1..n : versions[v].number = versions[w].number => v = w
           /\ \A r \in Reviewers : review[r].pc = "number" => review[r].version \in 1..n+1
<1>1. PICK n \in Books :
        /\ versions \in [1..n -> VersionRecord(n)]
        /\ \A v, w \in 1..n : versions[v].number = versions[w].number => v = w
        /\ \A r \in Reviewers : review[r].pc = "number" => review[r].version \in 1..n+1
  BY DEF PoliciesInv, VersionsTyped
<1>2. n \in Nat /\ n <= MaxBooks BY DataPoliciesAssumption DEF Books
<1>3. Cardinality(1..n) = n BY <1>2, FS_Interval
<1>4. DOMAIN versions = 1..n BY <1>1
<1> QED BY <1>1, <1>2, <1>3, <1>4

LEMMA ReadNumberKeeps ==
  ASSUME PoliciesInv, NEW r \in Reviewers, ReadNumber(r)
  PROVE  PoliciesInv'
<1> DEFINE numbers == {versions[v].number : v \in DOMAIN versions}
           x == [IdleReview EXCEPT !.pc = "number", !.version = Max(numbers) + 1]
<1>1. review' = [review EXCEPT ![r] = x] BY DEF ReadNumber, NewReview
<1>2. x.pc = "number" /\ x.version = Max(numbers) + 1 BY DEF IdleReview
<1>3. PICK n \in Books :
        /\ n \in Nat
        /\ versions \in [1..n -> VersionRecord(n)]
        /\ \A v, w \in 1..n : versions[v].number = versions[w].number => v = w
        /\ \A q \in Reviewers : review[q].pc = "number" => review[q].version \in 1..n+1
  BY VersionCount
<1>4. 1 \in DOMAIN versions /\ \A v \in DOMAIN versions : versions[v].number \in 1..n
  BY <1>3 DEF VersionRecord, Books
<1>5. numbers \subseteq 0..n /\ numbers # {} /\ numbers \subseteq 1..n BY <1>3, <1>4
<1> HIDE DEF numbers
<1>6. Max(numbers) \in 1..n BY <1>3, <1>5, HighestNumber
<1>7. x.version \in 1..n+1 BY <1>2, <1>3, <1>6
<1>7a. x \in [pc : ReviewSteps, version : Nat, seen : {x.seen}, fields : SUBSET PolicyFields]
  <2>1. Max(numbers) + 1 \in Nat BY <1>3, <1>6
  <2>2. x \in [pc : ReviewSteps, version : Nat, seen : {{}}, fields : SUBSET PolicyFields]
    BY <2>1 DEF IdleReview, ReviewSteps
  <2>3. x.seen = {} BY <2>2
  <2> QED BY <2>2, <2>3
<1> HIDE DEF x
<1>8. review'[r] = x /\ \A q \in Reviewers \ {r} : review'[q] = review[q] BY <1>1, ReviewSet
<1>9. UNCHANGED <<versions, policies, findings, detection, overlapped, overtaken>> BY DEF ReadNumber
<1>10. VersionsKept /\ VersionsTyped'
  <2>1. \A q \in Reviewers : review'[q].pc = "number" => review'[q].version \in 1..n+1 BY <1>3, <1>7, <1>8
  <2> QED BY <1>3, <1>9, <2>1 DEF VersionsKept, VersionsTyped
<1>11. ReviewFits(r)' BY <1>2, <1>8, <1>7a DEF ReviewFits
<1>12. ActivationsApart' BY <1>2, <1>8, <1>9, ActivationsKept
<1>13. overlapped' \in BOOLEAN BY <1>9 DEF PoliciesInv, PoliciesTyped
<1> QED BY <1>1, <1>9, <1>10, <1>11, <1>12, <1>13, ReviewMoves

\* Of two requests that read the same number one inserts it.
LEMMA InsertVersionKeeps ==
  ASSUME PoliciesInv, NEW r \in Reviewers, InsertVersion(r)
  PROVE  PoliciesInv'
<1>1. /\ review' = [review EXCEPT ![r] = IdleReview] /\ review[r].pc = "number"
      /\ UNCHANGED <<policies, findings, detection, overlapped, overtaken>>
  BY DEF InsertVersion
<1>2. CASE UNCHANGED versions BY <1>1, <1>2, ReviewOver
<1>3. CASE /\ \A v \in DOMAIN versions : versions[v].number # review[r].version
           /\ Cardinality(DOMAIN versions) < MaxBooks
           /\ \E i \in DOMAIN RuleBooks :
                versions' = RowsWith(versions, Cardinality(DOMAIN versions) + 1,
                  [number |-> review[r].version, status |-> "draft", rules |-> RuleBooks[i]])
  <2>1. PICK n \in Books :
          /\ n \in Nat /\ n <= MaxBooks /\ Cardinality(DOMAIN versions) = n
          /\ versions \in [1..n -> VersionRecord(n)]
          /\ \A v, w \in 1..n : versions[v].number = versions[w].number => v = w
          /\ \A q \in Reviewers : review[q].pc = "number" => review[q].version \in 1..n+1
    BY VersionCount
  <2>2. PICK i \in DOMAIN RuleBooks :
          versions' = RowsWith(versions, n + 1,
            [number |-> review[r].version, status |-> "draft", rules |-> RuleBooks[i]])
    BY <1>3, <2>1
  <2> DEFINE made == [number |-> review[r].version, status |-> "draft", rules |-> RuleBooks[i]]
  <2>3. n + 1 \in Books /\ n + 1 \notin 1..n /\ 1..(n + 1) = 1..n \cup {n + 1}
    BY <1>3, <2>1, DataPoliciesAssumption DEF Books
  <2>4. review[r].version \in 1..(n + 1) BY <1>1, <2>1
  <2>5. made \in VersionRecord(n + 1) /\ made.status = "draft" /\ made.number = review[r].version
    BY <2>4 DEF VersionRecord
  <2> HIDE DEF made
  <2>6. /\ DOMAIN versions' = 1..(n + 1) /\ versions'[n + 1] = made
        /\ \A v \in 1..n : versions'[v] = versions[v]
        /\ versions' = [v \in 1..(n + 1) |-> versions'[v]]
    BY <2>1, <2>2, <2>3 DEF RowsWith, made
  <2>7. \A v \in 1..n : versions[v] \in VersionRecord(n + 1)
    <3>1. \A v \in 1..n : versions[v] \in VersionRecord(n) BY <2>1
    <3>2. 1..n \subseteq 1..(n + 1) BY <2>1
    <3> QED BY <3>1, <3>2 DEF VersionRecord
  <2>8. versions' \in [1..(n + 1) -> VersionRecord(n + 1)] BY <2>3, <2>5, <2>6, <2>7
  <2>9. \A v, w \in 1..(n + 1) : versions'[v].number = versions'[w].number => v = w
    <3>1. \A v \in 1..n : versions[v].number # made.number BY <1>3, <2>1, <2>5
    <3> QED BY <2>1, <2>3, <2>6, <3>1
  <2>10. review'[r] = IdleReview /\ \A q \in Reviewers \ {r} : review'[q] = review[q] BY <1>1, ReviewSet
  <2>11. ReviewFits(r)' /\ review'[r].pc = "idle" BY <2>10, IdleReviewFits
  <2>12. \A q \in Reviewers : review'[q].pc = "number" => review'[q].version \in 1..((n + 1) + 1)
    <3>1. 1..(n + 1) \subseteq 1..((n + 1) + 1) BY <2>1
    <3> QED BY <2>1, <2>10, <2>11, <3>1
  <2>13. VersionsTyped' BY <2>3, <2>8, <2>9, <2>12 DEF VersionsTyped
  <2>14. VersionsKept BY <2>1, <2>3, <2>6 DEF VersionsKept
  <2>15. ActiveVersions' = ActiveVersions BY <2>1, <2>3, <2>5, <2>6 DEF ActiveVersions
  <2>16. ActivationsApart'
    <3>1. \A q \in Activating' : q \in Activating /\ review'[q] = review[q] BY <2>10, <2>11 DEF Activating
    <3> QED BY <1>1, <2>15, <3>1 DEF PoliciesInv, ActivationsApart
  <2>17. overlapped' \in BOOLEAN BY <1>1 DEF PoliciesInv, PoliciesTyped
  <2> QED BY <1>1, <2>11, <2>13, <2>14, <2>16, <2>17, ReviewMoves
<1> QED BY <1>2, <1>3 DEF InsertVersion

LEMMA BeginActivationKeeps ==
  ASSUME PoliciesInv, NEW r \in Reviewers, NEW v \in DOMAIN versions, BeginActivation(r, v)
  PROVE  PoliciesInv'
<1> DEFINE x == [IdleReview EXCEPT !.pc = "retire", !.version = v, !.seen = ActiveVersions \ {v}]
<1>1. review' = [review EXCEPT ![r] = x] BY DEF BeginActivation, NewReview
<1>2. v \in Nat BY VersionsKnown DEF PoliciesInv, Books
<1>3. /\ x.pc = "retire" /\ x.version = v /\ x.seen = ActiveVersions \ {v}
      /\ x \in [pc : ReviewSteps, version : Nat, seen : {ActiveVersions \ {v}}, fields : SUBSET PolicyFields]
  BY <1>2 DEF IdleReview, ReviewSteps
<1> HIDE DEF x
<1>4. review'[r] = x /\ \A q \in Reviewers \ {r} : review'[q] = review[q] BY <1>1, ReviewSet
<1>5. /\ UNCHANGED <<versions, policies, findings, detection, overtaken>>
      /\ overlapped' = (overlapped \/ Activating # {}) /\ overlapped' \in BOOLEAN
  BY DEF BeginActivation
<1>6. VersionsKept /\ VersionsTyped' BY <1>3, <1>4, <1>5, SameVersions
<1>7. ReviewFits(r)' BY <1>3, <1>4, <1>5 DEF ReviewFits, ActiveVersions
<1>8. ActivationsApart'
  <2>1. ActiveVersions' = ActiveVersions BY <1>5 DEF ActiveVersions
  <2>2. SUFFICES ASSUME ~overlapped, Activating = {} PROVE ActivationsApart' BY <1>5 DEF ActivationsApart
  <2>3. Activating' \subseteq {r} BY <1>4, <2>2 DEF Activating
  <2>4. \A q \in Activating' : ActiveVersions' \subseteq review'[q].seen \cup {review'[q].version}
    BY <1>3, <1>4, <2>1, <2>3
  <2> QED BY <2>1, <2>2, <2>3, <2>4 DEF PoliciesInv, ActivationsApart
<1> QED BY <1>1, <1>5, <1>6, <1>7, <1>8, ReviewMoves

LEMMA ActivationKnown ==
  ASSUME PoliciesInv, NEW r \in Reviewers
  PROVE  /\ ReviewFits(r)
         /\ review[r] \in [pc : ReviewSteps, version : Nat, seen : {review[r].seen},
                           fields : SUBSET PolicyFields]
BY DEF PoliciesInv, ReviewFits

LEMMA RetireOthersKeeps ==
  ASSUME PoliciesInv, NEW r \in Reviewers, RetireOthers(r)
  PROVE  PoliciesInv'
<1> DEFINE S == review[r].seen \intersect ActiveVersions
           x == [review[r] EXCEPT !.pc = "activate", !.seen = S]
<1>1. review' = [review EXCEPT ![r] = x]
  <2>1. review = [q \in Reviewers |-> review[q]] BY DEF PoliciesInv, PoliciesTyped
  <2> QED BY <2>1 DEF RetireOthers
<1>2. /\ review[r].pc = "retire"
      /\ UNCHANGED <<versions, policies, findings, detection, overlapped, overtaken>>
  BY DEF RetireOthers
<1>3. ReviewFits(r)
      /\ review[r] \in [pc : ReviewSteps, version : Nat, seen : {review[r].seen},
                        fields : SUBSET PolicyFields]
  BY ActivationKnown
<1>4. review[r].version \in DOMAIN versions /\ S \subseteq DOMAIN versions BY <1>2, <1>3 DEF ReviewFits
<1>5. /\ x.pc = "activate" /\ x.version = review[r].version /\ x.seen = S
      /\ x \in [pc : ReviewSteps, version : Nat, seen : {S}, fields : SUBSET PolicyFields]
  <2> HIDE DEF S
  <2> QED BY <1>3 DEF ReviewSteps
<1> HIDE DEF x
<1>6. review'[r] = x /\ \A q \in Reviewers \ {r} : review'[q] = review[q] BY <1>1, ReviewSet
<1>7. VersionsKept /\ VersionsTyped' BY <1>2, <1>5, <1>6, SameVersions
<1>8. ReviewFits(r)' BY <1>2, <1>4, <1>5, <1>6 DEF ReviewFits
<1>9. ActivationsApart'
  <2>1. ActiveVersions' = ActiveVersions BY <1>2 DEF ActiveVersions
  <2>2. Activating' = Activating /\ r \in Activating BY <1>2, <1>5, <1>6 DEF Activating
  <2>3. ASSUME ~overlapped, NEW q \in Activating
        PROVE  ActiveVersions \subseteq review'[q].seen \cup {review'[q].version}
    <3>1. ActiveVersions \subseteq review[q].seen \cup {review[q].version}
      BY <2>3 DEF PoliciesInv, ActivationsApart
    <3> QED BY <1>5, <1>6, <3>1 DEF Activating
  <2> QED BY <1>2, <2>1, <2>2, <2>3 DEF PoliciesInv, ActivationsApart
<1>10. overlapped' \in BOOLEAN BY <1>2 DEF PoliciesInv, PoliciesTyped
<1> QED BY <1>1, <1>2, <1>7, <1>8, <1>9, <1>10, ReviewMoves

\* Only the status of versions changes.
LEMMA StatusChanged ==
  ASSUME PoliciesInv, DOMAIN versions' = DOMAIN versions,
         versions' = [v \in DOMAIN versions |-> versions'[v]],
         \A v \in DOMAIN versions :
           \/ versions'[v] = versions[v]
           \/ \E s \in {"active", "retired"} : versions'[v] = [versions[v] EXCEPT !.status = s],
         \A q \in Reviewers : review'[q] = review[q] \/ review'[q].pc # "number"
  PROVE  VersionsKept /\ VersionsTyped'
<1>1. PICK n \in Books :
        /\ versions \in [1..n -> VersionRecord(n)]
        /\ \A v, w \in 1..n : versions[v].number = versions[w].number => v = w
        /\ \A q \in Reviewers : review[q].pc = "number" => review[q].version \in 1..n+1
  BY DEF PoliciesInv, VersionsTyped
<1>2. ASSUME NEW v \in 1..n
      PROVE  /\ versions'[v] \in VersionRecord(n)
             /\ versions'[v].number = versions[v].number /\ versions'[v].rules = versions[v].rules
  <2>1. versions[v] \in VersionRecord(n) BY <1>1
  <2>2. CASE versions'[v] = versions[v] BY <2>1, <2>2
  <2>3. CASE \E s \in {"active", "retired"} : versions'[v] = [versions[v] EXCEPT !.status = s]
    <3>1. PICK s \in {"active", "retired"} : versions'[v] = [versions[v] EXCEPT !.status = s] BY <2>3
    <3> QED BY <2>1, <3>1 DEF VersionRecord
  <2>4. v \in DOMAIN versions BY <1>1
  <2> QED BY <2>2, <2>3, <2>4
<1>3. DOMAIN versions = 1..n BY <1>1
<1>4. versions' \in [1..n -> VersionRecord(n)] BY <1>2, <1>3
<1> QED BY <1>1, <1>2, <1>3, <1>4 DEF VersionsKept, VersionsTyped

LEMMA VersionRecords ==
  ASSUME PoliciesInv, NEW v \in DOMAIN versions
  PROVE  \E n : versions[v] \in VersionRecord(n)
BY DEF PoliciesInv, VersionsTyped

LEMMA CommitActivationKeeps ==
  ASSUME PoliciesInv, NEW r \in Reviewers, CommitActivation(r)
  PROVE  PoliciesInv'
<1> DEFINE v == review[r].version
           seen == review[r].seen
           After(w) == IF w \in seen THEN [versions[w] EXCEPT !.status = "retired"]
                      ELSE IF w = v /\ versions[w].status # "retired"
                        THEN [versions[w] EXCEPT !.status = "active"]
                      ELSE versions[w]
<1>1. /\ review[r].pc = "activate"
      /\ versions' = [w \in DOMAIN versions |-> After(w)]
      /\ review' = [review EXCEPT ![r] = IdleReview]
      /\ UNCHANGED <<policies, findings, detection, overlapped, overtaken>>
  BY DEF CommitActivation
<1>2. review'[r] = IdleReview /\ \A q \in Reviewers \ {r} : review'[q] = review[q] BY <1>1, ReviewSet
<1>3. ReviewFits(r)' /\ review'[r].pc = "idle" BY <1>2, IdleReviewFits
<1>4. \A w \in DOMAIN versions :
        \/ After(w) = versions[w]
        \/ \E s \in {"active", "retired"} : After(w) = [versions[w] EXCEPT !.status = s]
  OBVIOUS
<1>5. \A w \in DOMAIN versions : After(w).status = "active" =>
        w \notin seen /\ (w = v \/ versions[w].status = "active")
  <2>1. ASSUME NEW w \in DOMAIN versions, w \in seen PROVE After(w).status = "retired"
    <3>1. PICK n : versions[w] \in VersionRecord(n) BY VersionRecords
    <3> QED BY <2>1, <3>1 DEF VersionRecord
  <2> QED BY <2>1
<1> HIDE DEF After
<1>6. /\ DOMAIN versions' = DOMAIN versions
      /\ versions' = [w \in DOMAIN versions |-> versions'[w]]
      /\ \A w \in DOMAIN versions : versions'[w] = After(w)
  BY <1>1
<1>7. VersionsKept /\ VersionsTyped' BY <1>2, <1>3, <1>4, <1>6, StatusChanged
<1>8. ActivationsApart'
  <2>1. SUFFICES ASSUME ~overlapped PROVE ActivationsApart' BY <1>1 DEF ActivationsApart
  <2>2. r \in Activating BY <1>1 DEF Activating
  <2>3. Activating' = {}
    <3>1. Activating' \subseteq Activating \ {r} BY <1>2, <1>3 DEF Activating
    <3>2. \A q \in Activating : q = r BY <2>1, <2>2 DEF PoliciesInv, ActivationsApart
    <3> QED BY <3>1, <3>2
  <2>4. ActiveVersions \subseteq seen \cup {v} BY <2>1, <2>2 DEF PoliciesInv, ActivationsApart
  <2>5. ActiveVersions' \subseteq {v} BY <1>5, <1>6, <2>4 DEF ActiveVersions
  <2> QED BY <2>3, <2>5 DEF ActivationsApart
<1>9. overlapped' \in BOOLEAN BY <1>1 DEF PoliciesInv, PoliciesTyped
<1> QED BY <1>1, <1>3, <1>7, <1>8, <1>9, ReviewMoves

LEMMA RetireVersionKeeps ==
  ASSUME PoliciesInv, NEW r \in Reviewers, NEW v \in DOMAIN versions, RetireVersion(r, v)
  PROVE  PoliciesInv'
<1>1. /\ versions' = [versions EXCEPT ![v].status = "retired"]
      /\ review' = [review EXCEPT ![r] = IdleReview]
      /\ UNCHANGED <<policies, findings, detection, overlapped, overtaken>>
  BY DEF RetireVersion, NewReview
<1>2. review'[r] = IdleReview /\ \A q \in Reviewers \ {r} : review'[q] = review[q] BY <1>1, ReviewSet
<1>3. ReviewFits(r)' /\ review'[r].pc = "idle" BY <1>2, IdleReviewFits
<1>4. versions = [w \in DOMAIN versions |-> versions[w]] BY DEF PoliciesInv, VersionsTyped
<1>5. /\ DOMAIN versions' = DOMAIN versions
      /\ versions' = [w \in DOMAIN versions |-> versions'[w]]
      /\ versions'[v] = [versions[v] EXCEPT !.status = "retired"]
      /\ \A w \in DOMAIN versions \ {v} : versions'[w] = versions[w]
  BY <1>1, <1>4
<1>6. VersionsKept /\ VersionsTyped' BY <1>2, <1>3, <1>5, StatusChanged
<1>7. versions'[v].status = "retired"
  <2>1. PICK n : versions[v] \in VersionRecord(n) BY VersionRecords
  <2> QED BY <1>5, <2>1 DEF VersionRecord
<1>8. ActivationsApart'
  <2>1. ActiveVersions' \subseteq ActiveVersions BY <1>5, <1>7 DEF ActiveVersions
  <2>2. \A q \in Activating' : q \in Activating /\ review'[q] = review[q] BY <1>2, <1>3 DEF Activating
  <2> QED BY <1>1, <2>1, <2>2 DEF PoliciesInv, ActivationsApart
<1>9. overlapped' \in BOOLEAN BY <1>1 DEF PoliciesInv, PoliciesTyped
<1> QED BY <1>1, <1>3, <1>6, <1>8, <1>9, ReviewMoves

LEMMA BeginConfirmKeeps ==
  ASSUME PoliciesInv, NEW r \in Reviewers, NEW v \in DOMAIN versions,
         NEW fields \in SUBSET PolicyFields, BeginConfirm(r, v, fields)
  PROVE  PoliciesInv'
<1> DEFINE seen == {<<f, policies[f]>> : f \in fields}
           x == [IdleReview EXCEPT !.pc = "confirm", !.version = v, !.fields = fields, !.seen = seen]
<1>1. /\ review' = [review EXCEPT ![r] = x]
      /\ \A f \in fields : policies[f].status # "none"
      /\ UNCHANGED <<versions, policies, findings, detection, overlapped, overtaken>>
  BY DEF BeginConfirm, NewReview
<1>2. v \in Nat BY VersionsKnown DEF PoliciesInv, Books
<1>3. /\ seen \subseteq fields \X PolicyRecord
      /\ \A y, z \in seen : y[1] = z[1] => y = z
      /\ \A f \in fields : \E y \in seen : y[1] = f
  <2>1. policies \in [PolicyFields -> PolicyRecord] BY DEF PoliciesInv, PoliciesTyped
  <2>2. seen \subseteq fields \X PolicyRecord BY <2>1
  <2>3. ASSUME NEW y \in seen, NEW z \in seen, y[1] = z[1] PROVE y = z
    <3>1. PICK f \in fields : y = <<f, policies[f]>> OBVIOUS
    <3>2. PICK g \in fields : z = <<g, policies[g]>> OBVIOUS
    <3> QED BY <2>3, <3>1, <3>2
  <2>4. ASSUME NEW f \in fields PROVE \E y \in seen : y[1] = f
    <3>1. <<f, policies[f]>> \in seen OBVIOUS
    <3> QED BY <3>1
  <2> QED BY <2>2, <2>3, <2>4
<1> HIDE DEF seen
<1>4. /\ x.pc = "confirm" /\ x.version = v /\ x.fields = fields /\ x.seen = seen
      /\ x \in [pc : ReviewSteps, version : Nat, seen : {seen}, fields : SUBSET PolicyFields]
  BY <1>2 DEF IdleReview, ReviewSteps
<1> HIDE DEF x
<1>5. review'[r] = x /\ \A q \in Reviewers \ {r} : review'[q] = review[q] BY <1>1, ReviewSet
<1>6. VersionsKept /\ VersionsTyped' BY <1>1, <1>4, <1>5, SameVersions
<1>7. ReviewFits(r)' BY <1>1, <1>3, <1>4, <1>5 DEF ReviewFits
<1>8. ActivationsApart' BY <1>1, <1>4, <1>5, ActivationsKept
<1>9. overlapped' \in BOOLEAN BY <1>1 DEF PoliciesInv, PoliciesTyped
<1> QED BY <1>1, <1>6, <1>7, <1>8, <1>9, ReviewMoves

\* The policy that a reviewer confirms, and no other, is the reviewer's.
LEMMA FieldConfirmed ==
  ASSUME PoliciesInv, NEW r \in Reviewers, NEW f \in PolicyFields, ConfirmField(r, f)
  PROVE  /\ policies' \in [PolicyFields -> PolicyRecord]
         /\ policies'[f].status = "confirmed" /\ policies'[f].source = "review"
         /\ policies'[f].version = review[r].version /\ policies'[f].run = policies[f].run
         /\ \A g \in PolicyFields \ {f} : policies'[g] = policies[g]
<1> DEFINE y == CHOOSE y \in review[r].seen : y[1] = f
           v == review[r].version
           made == [Confirmed(y[2], f, v) EXCEPT !.run = policies[f].run]
<1>1. /\ review[r].pc = "confirm" /\ \E z \in review[r].seen : z[1] = f
      /\ policies' = [policies EXCEPT ![f] = made]
  BY DEF ConfirmField
<1>2. ReviewFits(r) BY ActivationKnown
<1>3. /\ y \in review[r].seen /\ y[1] = f
      /\ y[2] \in PolicyRecord
  <2>1. y \in review[r].seen /\ y[1] = f BY <1>1
  <2> HIDE DEF y
  <2> QED BY <1>1, <1>2, <2>1 DEF ReviewFits
<1> HIDE DEF y
<1>4. v \in DOMAIN versions /\ v \in Books /\ versions[v].rules \in RuleBook
  <2>1. v \in DOMAIN versions BY <1>1, <1>2 DEF ReviewFits
  <2> QED BY <2>1, VersionsKnown DEF PoliciesInv
<1> HIDE DEF v
<1>5. policies[f] \in PolicyRecord /\ policies \in [PolicyFields -> PolicyRecord]
  BY DEF PoliciesInv, PoliciesTyped
<1>6. /\ made \in PolicyRecord /\ made.run = policies[f].run
      /\ made.status = "confirmed" /\ made.source = "review" /\ made.version = v
  <2> DEFINE q == Confirmed(y[2], f, v)
  <2>1. q \in PolicyRecord /\ q.status = "confirmed" /\ q.source = "review" /\ q.version = v
    <3> DEFINE i == RuleFor(versions[v].rules, f)
    <3>1. CASE i = None
      <4>1. q = [y[2] EXCEPT !.status = "confirmed", !.source = "review", !.version = v]
        BY <3>1 DEF Confirmed
      <4> HIDE DEF q
      <4> QED BY <1>3, <1>4, <4>1 DEF PolicyRecord
    <3>2. CASE i # None
      <4> DEFINE bound == [y[2] EXCEPT !.level = versions[v].rules[i].level,
                                       !.mask = versions[v].rules[i].mask]
      <4>1. versions[v].rules[i] \in RuleRecord BY <1>4, <3>2, RuleForFound
      <4>2. q = [bound EXCEPT !.status = "confirmed", !.source = "review", !.version = v]
        BY <3>2 DEF Confirmed
      <4>3. bound \in PolicyRecord
        <5>1. versions[v].rules[i].level \in 0..5 /\ versions[v].rules[i].mask \in Masks
          BY <4>1 DEF RuleRecord
        <5> HIDE DEF i
        <5> QED BY <1>3, <5>1 DEF PolicyRecord
      <4> HIDE DEF q, bound
      <4> QED BY <1>4, <4>2, <4>3 DEF PolicyRecord
    <3> QED BY <3>1, <3>2
  <2> HIDE DEF q
  <2>2. made = [q EXCEPT !.run = policies[f].run] BY DEF q
  <2>3. policies[f].run \in {None} \cup Detections BY <1>5 DEF PolicyRecord
  <2> HIDE DEF made
  <2> QED BY <2>1, <2>2, <2>3 DEF PolicyRecord
<1> HIDE DEF made
<1> QED BY <1>1, <1>5, <1>6 DEF v

LEMMA ConfirmFieldKeeps ==
  ASSUME PoliciesInv, NEW r \in Reviewers, NEW f \in PolicyFields, ConfirmField(r, f)
  PROVE  PoliciesInv'
<1> DEFINE y == CHOOSE y \in review[r].seen : y[1] = f
           v == review[r].version
           step == IF review[r].seen = {y} THEN "close" ELSE "confirm"
           x == [review[r] EXCEPT !.seen = review[r].seen \ {y}, !.pc = step]
           late == {d \in Detections : detection[d].pc \in UnderWay}
<1>1. /\ review[r].pc = "confirm" /\ \E z \in review[r].seen : z[1] = f
      /\ overtaken' = overtaken \union {<<d, f>> : d \in late}
      /\ UNCHANGED <<versions, findings, detection, overlapped>>
  BY DEF ConfirmField, UnderWay
<1>2. ReviewFits(r)
      /\ review[r] \in [pc : ReviewSteps, version : Nat, seen : {review[r].seen},
                        fields : SUBSET PolicyFields]
  BY ActivationKnown
<1>3. review' = [review EXCEPT ![r] = x]
  <2>1. review = [q \in Reviewers |-> review[q]] BY DEF PoliciesInv, PoliciesTyped
  <2>2. review' = [review EXCEPT ![r].seen = @ \ {y},
                     ![r].pc = IF review[r].seen = {y} THEN "close" ELSE @]
    BY DEF ConfirmField
  <2> QED BY <1>1, <2>1, <2>2
<1>4. /\ y \in review[r].seen /\ y[1] = f
      /\ \A z \in review[r].seen : z[1] = f => z = y
      /\ f \in review[r].fields /\ policies[f].status # "none"
  <2>1. y \in review[r].seen /\ y[1] = f BY <1>1
  <2> HIDE DEF y
  <2> QED BY <1>1, <1>2, <2>1 DEF ReviewFits
<1> HIDE DEF y
<1>5. v \in DOMAIN versions BY <1>1, <1>2 DEF ReviewFits
<1> HIDE DEF v
<1>6. policies[f] \in PolicyRecord /\ PolicyFits(f) BY DEF PoliciesInv, PoliciesTyped
<1> DEFINE made == policies'[f]
<1>7. /\ made.status = "confirmed" /\ made.source = "review"
      /\ made.version = v /\ made.run = policies[f].run
  BY FieldConfirmed DEF v
<1> HIDE DEF made
<1>8. /\ policies' \in [PolicyFields -> PolicyRecord] /\ policies'[f] = made
      /\ \A g \in PolicyFields \ {f} : policies'[g] = policies[g]
  BY FieldConfirmed DEF made
<1>9. /\ overtaken \subseteq overtaken' /\ overtaken' \subseteq Detections \X PolicyFields
      /\ \A d \in late : <<d, f>> \in overtaken'
  BY <1>1 DEF PoliciesInv, PoliciesTyped
<1>10. /\ x.pc = step /\ x.version = review[r].version /\ x.fields = review[r].fields
       /\ x.seen = review[r].seen \ {y}
       /\ x \in [pc : ReviewSteps, version : Nat, seen : {review[r].seen \ {y}},
                 fields : SUBSET PolicyFields]
  <2>1. step \in ReviewSteps BY DEF ReviewSteps
  <2> HIDE DEF step
  <2> QED BY <1>2, <2>1 DEF ReviewSteps
<1> HIDE DEF x
<1>11. review'[r] = x /\ \A q \in Reviewers \ {r} : review'[q] = review[q] BY <1>3, ReviewSet
<1>12. x.pc \in {"confirm", "close"} /\ (x.pc = "close" => x.seen = {}) BY <1>10
<1>13. VersionsKept /\ VersionsTyped' /\ FindingsKept BY <1>1, <1>11, <1>12, SameVersions DEF FindingsKept
<1>14. ReviewsKept BY <1>7, <1>8, <1>9 DEF ReviewsKept, ReviewedInTime
<1>15. PoliciesTyped'
  <2>1. review' = [q \in Reviewers |-> review'[q]] BY <1>3 DEF PoliciesInv, PoliciesTyped
  <2> QED BY <1>1, <1>8, <1>9, <2>1 DEF PoliciesInv, PoliciesTyped
<1>16. ASSUME NEW g \in PolicyFields PROVE PolicyFits(g)'
  <2>1. CASE g # f BY <1>8, <1>13, <2>1, PolicyKept
  <2>2. CASE g = f BY <1>1, <1>4, <1>5, <1>6, <1>7, <1>8, <2>2 DEF PolicyFits
  <2> QED BY <2>1, <2>2
<1>17. ASSUME NEW d \in Detections PROVE DetectionFits(d)'
  <2>1. ASSUME detection[d].pc \in UnderWay, NEW g \in PolicyFields, policies'[g].source = "review"
        PROVE  policies[g].source = "review" \/ <<d, g>> \in overtaken'
    BY <1>8, <1>9, <2>1
  <2> QED BY <1>1, <1>9, <1>13, <2>1, DetectionKept
<1>18. ASSUME NEW q \in Reviewers PROVE ReviewFits(q)'
  <2>1. CASE q # r BY <1>11, <1>13, <1>14, <2>1, ReviewKept
  <2>2. CASE q = r
    <3>1. ReviewedInTime(f)' BY <1>7, <1>8 DEF ReviewedInTime
    <3>2. ASSUME NEW g \in x.fields
          PROVE  policies'[g].status # "none" /\ ((\E z \in x.seen : z[1] = g) \/ ReviewedInTime(g)')
      <4>1. g \in PolicyFields /\ policies[g].status # "none"
            /\ ((\E z \in review[r].seen : z[1] = g) \/ ReviewedInTime(g))
        BY <1>1, <1>2, <1>10, <3>2 DEF ReviewFits
      <4>2. CASE g = f BY <1>14, <3>1, <4>1, <4>2 DEF ReviewsKept
      <4>3. CASE g # f
        <5>1. \A z \in review[r].seen : z[1] = g => z \in x.seen BY <1>4, <1>10, <4>3
        <5> QED BY <1>14, <4>1, <5>1 DEF ReviewsKept
      <4> QED BY <4>2, <4>3
    <3>3. /\ x.seen \subseteq x.fields \X PolicyRecord
          /\ \A y1, z1 \in x.seen : y1[1] = z1[1] => y1 = z1
      BY <1>1, <1>2, <1>10 DEF ReviewFits
    <3>4. x.version \in DOMAIN versions' BY <1>1, <1>5, <1>10 DEF v
    <3>5. x \in [pc : ReviewSteps, version : Nat, seen : {x.seen}, fields : SUBSET PolicyFields] BY <1>10
    <3> QED BY <1>11, <1>12, <2>2, <3>2, <3>3, <3>4, <3>5 DEF ReviewFits
  <2> QED BY <2>1, <2>2
<1>19. ActivationsApart' BY <1>1, <1>11, <1>12, ActivationsKept
<1>20. RunsJustified'
  <2>1. ASSUME NEW d \in DOMAIN findings, NEW g \in PolicyFields, Justifies(g, d)
        PROVE  Justifies(g, d)'
    <3>1. ReviewedInTime(g) => ReviewedInTime(g)' BY <1>14 DEF ReviewsKept
    <3>2. policies'[g].run = policies[g].run BY <1>7, <1>8
    <3> QED BY <1>1, <2>1, <3>1, <3>2 DEF Justifies
  <2>2. \A d \in DOMAIN findings' : findings'[d].status = "confirmed" =>
          d \in DOMAIN findings /\ findings[d].status = "confirmed"
    BY <1>1
  <2> QED BY <1>13, <2>1, <2>2, RunsKept
<1> QED BY <1>13, <1>15, <1>16, <1>17, <1>18, <1>19, <1>20 DEF PoliciesInv

----
(* Classification: the theorems. *)

\* The run that a policy points to by then is justified by that policy.
LEMMA CloseRunsKeeps ==
  ASSUME PoliciesInv, NEW r \in Reviewers, CloseRuns(r)
  PROVE  PoliciesInv'
<1> DEFINE After(d) == IF \E f \in review[r].fields : policies[f].run = d
                       THEN [findings[d] EXCEPT !.status = "confirmed"] ELSE findings[d]
<1>1. /\ review[r].pc = "close"
      /\ findings' = [d \in DOMAIN findings |-> After(d)]
      /\ review' = [review EXCEPT ![r] = IdleReview]
      /\ UNCHANGED <<versions, policies, detection, overlapped, overtaken>>
  BY DEF CloseRuns
<1>2. review'[r] = IdleReview /\ \A q \in Reviewers \ {r} : review'[q] = review[q] BY <1>1, ReviewSet
<1>3. ReviewFits(r)' /\ review'[r].pc = "idle" BY <1>2, IdleReviewFits
<1>4. \A d \in DOMAIN findings : findings[d] \in FindingRecord BY DEF PoliciesInv, PoliciesTyped
<1>5. \A d \in DOMAIN findings : After(d) \in FindingRecord /\ After(d).fields = findings[d].fields
  <2>1. ASSUME NEW d \in DOMAIN findings
        PROVE  /\ [findings[d] EXCEPT !.status = "confirmed"] \in FindingRecord
               /\ [findings[d] EXCEPT !.status = "confirmed"].fields = findings[d].fields
    BY <1>4 DEF FindingRecord
  <2> QED BY <1>4, <2>1
<1>6. \A d \in DOMAIN findings :
        \/ After(d) = findings[d]
        \/ \E f \in review[r].fields : policies[f].run = d
  OBVIOUS
<1> HIDE DEF After
<1>7. /\ DOMAIN findings' = DOMAIN findings
      /\ \A d \in DOMAIN findings : findings'[d] = After(d)
      /\ findings' \in [DOMAIN findings' -> FindingRecord]
  BY <1>1, <1>5
<1>8. VersionsKept /\ VersionsTyped' /\ FindingsKept
  BY <1>1, <1>2, <1>3, <1>5, <1>7, SameVersions DEF FindingsKept
<1>9. ReviewsKept BY <1>1, NothingReviewed
<1>10. PoliciesTyped'
  <2>1. review' = [q \in Reviewers |-> review'[q]] BY <1>1 DEF PoliciesInv, PoliciesTyped
  <2> QED BY <1>1, <1>7, <2>1 DEF PoliciesInv, PoliciesTyped
<1>11. ASSUME NEW f \in PolicyFields PROVE PolicyFits(f)' BY <1>1, <1>8, PolicyKept
<1>12. ASSUME NEW d \in Detections PROVE DetectionFits(d)' BY <1>1, <1>7, <1>8, DetectionKept
<1>13. ASSUME NEW q \in Reviewers PROVE ReviewFits(q)'
  <2>1. CASE q # r BY <1>2, <1>8, <1>9, <2>1, ReviewKept
  <2> QED BY <1>3, <2>1
<1>14. ActivationsApart' BY <1>1, <1>2, <1>3, ActivationsKept
<1>15. ASSUME NEW d \in DOMAIN findings, NEW f, Justifies(f, d)
       PROVE  Justifies(f, d)'
  BY <1>1, <1>15 DEF Justifies, ReviewedInTime
<1>16. ASSUME NEW d \in DOMAIN findings', findings'[d].status = "confirmed"
       PROVE  \E f \in findings'[d].fields : Justifies(f, d)'
  <2>1. d \in DOMAIN findings /\ findings'[d] = After(d) /\ findings'[d].fields = findings[d].fields
    BY <1>5, <1>7
  <2>2. CASE After(d) = findings[d]
    <3>1. PICK f \in findings[d].fields : Justifies(f, d)
      BY <1>16, <2>1, <2>2 DEF PoliciesInv, RunsJustified
    <3> QED BY <1>15, <2>1, <3>1
  <2>3. CASE \E f \in review[r].fields : policies[f].run = d
    <3>1. PICK f \in review[r].fields : policies[f].run = d BY <2>3
    <3>2. ReviewFits(r) BY DEF PoliciesInv
    <3>3. f \in PolicyFields /\ review[r].seen = {} /\ ReviewedInTime(f)
      BY <1>1, <3>1, <3>2 DEF ReviewFits
    <3>4. d # None BY <2>1, DataPoliciesAssumption DEF PoliciesInv, PoliciesTyped
    <3>5. f \in findings[d].fields BY <3>1, <3>3, <3>4 DEF PoliciesInv, PolicyFits
    <3>6. Justifies(f, d) BY <3>3 DEF Justifies
    <3> QED BY <1>15, <2>1, <3>5, <3>6
  <2> QED BY <1>6, <2>1, <2>2, <2>3
<1>17. RunsJustified' BY <1>16 DEF RunsJustified
<1> QED BY <1>8, <1>10, <1>11, <1>12, <1>13, <1>14, <1>17 DEF PoliciesInv

LEMMA PoliciesStutter ==
  ASSUME PoliciesInv, UNCHANGED policyVars
  PROVE  PoliciesInv'
<1>1. VersionsKept /\ VersionsTyped' /\ FindingsKept /\ ReviewsKept BY NothingReviewed
     DEF policyVars, PoliciesInv, VersionsTyped, VersionsKept, FindingsKept
<1>2. PoliciesTyped' BY DEF policyVars, PoliciesInv, PoliciesTyped
<1>3. ASSUME NEW f \in PolicyFields PROVE PolicyFits(f)' BY <1>1, PolicyKept DEF policyVars
<1>4. ASSUME NEW d \in Detections PROVE DetectionFits(d)' BY <1>1, DetectionKept DEF policyVars
<1>5. ASSUME NEW r \in Reviewers PROVE ReviewFits(r)' BY <1>1, ReviewKept DEF policyVars
<1>6. ActivationsApart' BY ActivationsKept DEF policyVars
<1>7. RunsJustified' BY DEF policyVars, PoliciesInv, RunsJustified, Justifies, ReviewedInTime
<1> QED BY <1>1, <1>2, <1>3, <1>4, <1>5, <1>6, <1>7 DEF PoliciesInv

LEMMA PoliciesNextInv ==
  ASSUME PoliciesInv, [PoliciesNext]_policyVars
  PROVE  PoliciesInv'
<1>1. ASSUME NEW d \in Detections,
             \/ LoadPolicies(d) \/ LoadRules(d) \/ RecordRun(d)
             \/ \E f \in PolicyFields : SavePolicy(d, f)
      PROVE  PoliciesInv'
  BY <1>1, LoadPoliciesKeeps, LoadRulesKeeps, RecordRunKeeps, SavePolicyKeeps
<1>2. ASSUME NEW r \in Reviewers, RollBack(r) PROVE PoliciesInv' BY <1>2, ReviewOver DEF RollBack
<1>3. ASSUME NEW r \in Reviewers, ConfirmFails(r) PROVE PoliciesInv' BY <1>3, ReviewOver DEF ConfirmFails
<1>4. ASSUME NEW r \in Reviewers,
             \/ ReadNumber(r) \/ InsertVersion(r) \/ RetireOthers(r) \/ CommitActivation(r)
             \/ \E f \in PolicyFields : ConfirmField(r, f)
             \/ CloseRuns(r)
      PROVE  PoliciesInv'
  BY <1>4, ReadNumberKeeps, InsertVersionKeeps, RetireOthersKeeps, CommitActivationKeeps,
     ConfirmFieldKeeps, CloseRunsKeeps
<1>5. ASSUME NEW r \in Reviewers, NEW v \in DOMAIN versions,
             \/ BeginActivation(r, v) \/ RetireVersion(r, v)
             \/ \E fields \in SUBSET PolicyFields : BeginConfirm(r, v, fields)
      PROVE  PoliciesInv'
  BY <1>5, BeginActivationKeeps, RetireVersionKeeps, BeginConfirmKeeps
<1> QED BY <1>1, <1>2, <1>3, <1>4, <1>5, PoliciesStutter DEF PoliciesNext

\* The invariant holds for any rules, patterns, detections and reviewers: a
\* field that a detection is about to classify was not reviewed when it read
\* the policies, an activation apart from others knows every active version,
\* and each confirmed run has a field that justifies it
\* (save_classification_detection_run, activate_classification_rule_version).
THEOREM PoliciesInvHolds == PoliciesSpec => []PoliciesInv
<1>1. PoliciesInit => PoliciesInv BY PoliciesInitInv
<1>2. PoliciesInv /\ [PoliciesNext]_policyVars => PoliciesInv' BY PoliciesNextInv
<1> QED BY <1>1, <1>2, PTL DEF PoliciesSpec

LEMMA PoliciesTyping == ASSUME PoliciesInv PROVE PoliciesTypeOK
<1>1. PICK n \in Books :
        /\ n \in Nat /\ n <= MaxBooks
        /\ versions \in [1..n -> VersionRecord(n)]
        /\ \A v, w \in 1..n : versions[v].number = versions[w].number => v = w
  BY VersionCount
<1>2. DOMAIN versions = 1..n /\ 1..n \subseteq Books BY <1>1, DataPoliciesAssumption DEF Books
<1>3. \A v \in DOMAIN versions : versions[v].status \in {"draft", "active", "retired"}
  BY <1>1, <1>2 DEF VersionRecord
<1>4. ASSUME NEW f \in PolicyFields
      PROVE  /\ policies[f].level \in 0..5 /\ policies[f].status \in {"none", "pending", "confirmed"}
             /\ policies[f].version # None => policies[f].version \in DOMAIN versions
             /\ policies[f].status = "none" <=> policies[f].run = None
  BY DEF PoliciesInv, PoliciesTyped, PolicyFits, PolicyRecord
<1>5. ASSUME NEW d \in Detections
      PROVE  detection[d].pc \in {"idle", "version", "record", "policies", "over"}
  BY DEF PoliciesInv, PoliciesTyped, DetectionRecord, UnderWay
<1>6. ASSUME NEW r \in Reviewers
      PROVE  review[r].pc \in {"idle", "number", "retire", "activate", "confirm", "close"}
  BY DEF PoliciesInv, ReviewFits, ReviewSteps
<1> QED BY <1>1, <1>2, <1>3, <1>4, <1>5, <1>6 DEF PoliciesTypeOK

LEMMA OneActive == ASSUME PoliciesInv PROVE OneActiveVersion
<1>1. SUFFICES ASSUME ~overlapped PROVE Cardinality(ActiveVersions) <= 1 BY DEF OneActiveVersion
<1>2. CASE ActiveVersions = {}
  <2>1. Cardinality(ActiveVersions) = 0 BY <1>2, FS_EmptySet
  <2> QED BY <2>1
<1>3. CASE ActiveVersions # {}
  <2>1. PICK a : a \in ActiveVersions BY <1>3
  <2>2. ActiveVersions = {a} BY <1>1, <2>1 DEF PoliciesInv, ActivationsApart
  <2>3. Cardinality({a}) = 1 BY FS_Singleton
  <2> QED BY <2>2, <2>3
<1> QED BY <1>2, <1>3

LEMMA Traceable == ASSUME PoliciesInv PROVE SensitiveUntilReviewed /\ FindingsTraceable
<1>1. SensitiveUntilReviewed BY DEF PoliciesInv, PolicyFits, SensitiveUntilReviewed
<1>2. ASSUME NEW f \in PolicyFields, policies[f].status # "none"
      PROVE  policies[f].run \in DOMAIN findings /\ f \in findings[policies[f].run].fields
  BY <1>2 DEF PoliciesInv, PolicyFits
<1>3. ASSUME NEW d \in DOMAIN findings, findings[d].status = "confirmed"
      PROVE  \E f \in findings[d].fields : \/ policies[f].source = "review"
                                           \/ policies[f].run # d
                                           \/ \E e \in Detections : <<e, f>> \in overtaken
  BY <1>3 DEF PoliciesInv, RunsJustified, Justifies, ReviewedInTime
<1> QED BY <1>1, <1>2, <1>3 DEF FindingsTraceable

\* Only the row of a detection takes a review away, and that one was under way.
LEMMA ReviewsStand ==
  ASSUME PoliciesInv, [PoliciesNext]_policyVars, NEW f \in PolicyFields,
         policies[f].source = "review", policies'[f].source # "review"
  PROVE  \E d \in Detections : <<d, f>> \in overtaken
<1>0. policies \in [PolicyFields -> PolicyRecord] /\ policies' # policies
  BY DEF PoliciesInv, PoliciesTyped
<1>1. ASSUME NEW d \in Detections, NEW g \in PolicyFields, SavePolicy(d, g)
      PROVE  <<d, f>> \in overtaken
  <2>1. g = f BY <1>0, <1>1 DEF SavePolicy
  <2>2. detection[d].pc = "policies" /\ f \in detection[d].todo /\ DetectionFits(d)
    BY <1>1, <2>1, DetectionKnown DEF SavePolicy
  <2> QED BY <2>2 DEF DetectionFits, UnderWay
<1>2. ASSUME NEW r \in Reviewers, NEW g \in PolicyFields, ConfirmField(r, g)
      PROVE  FALSE
  BY <1>2, FieldConfirmed
<1>3. ASSUME NEW d \in Detections, LoadPolicies(d) \/ LoadRules(d) \/ RecordRun(d) PROVE FALSE
  BY <1>0, <1>3 DEF LoadPolicies, LoadRules, RecordRun
<1>4. ASSUME NEW r \in Reviewers,
             \/ ReadNumber(r) \/ InsertVersion(r) \/ RetireOthers(r) \/ CommitActivation(r)
             \/ RollBack(r) \/ CloseRuns(r) \/ ConfirmFails(r)
      PROVE  FALSE
  BY <1>0, <1>4 DEF ReadNumber, InsertVersion, RetireOthers, CommitActivation, RollBack,
                    CloseRuns, ConfirmFails
<1>5. ASSUME NEW r \in Reviewers, NEW v \in DOMAIN versions,
             \/ BeginActivation(r, v) \/ RetireVersion(r, v)
             \/ \E fields \in SUBSET PolicyFields : BeginConfirm(r, v, fields)
      PROVE  FALSE
  BY <1>0, <1>5 DEF BeginActivation, RetireVersion, BeginConfirm
<1> QED BY <1>0, <1>1, <1>2, <1>3, <1>4, <1>5 DEF PoliciesNext, policyVars

\* Classification holds for any rules, patterns, detections and reviewers: as
\* long as activations do not overlap at most one version is active, what was
\* seen to be sensitive stays pending and masked until it is reviewed, every
\* policy is traced to its run, and no detection takes back a review it could
\* have known of (phase2.rs, phase9.rs).
THEOREM PoliciesHoldAlways == PoliciesSpec => PoliciesHold
<1> DEFINE Sound == PoliciesTypeOK /\ OneActiveVersion /\ SensitiveUntilReviewed /\ FindingsTraceable
           Stands == \A f \in PolicyFields :
                       policies[f].source = "review" /\ policies'[f].source # "review" =>
                         \E d \in Detections : <<d, f>> \in overtaken
<1>1. PoliciesSpec => []PoliciesInv BY PoliciesInvHolds
<1>2. PoliciesInv => Sound BY PoliciesTyping, OneActive, Traceable
<1>3. PoliciesInv /\ [PoliciesNext]_policyVars => [Stands]_policyVars BY ReviewsStand
<1>4. PoliciesSpec => [][PoliciesNext]_policyVars BY PTL DEF PoliciesSpec
<1> HIDE DEF Sound, Stands
<1>5. PoliciesSpec => []Sound BY <1>1, <1>2, PTL
<1>6. PoliciesSpec => [][Stands]_policyVars BY <1>1, <1>3, <1>4, PTL
<1> QED BY <1>5, <1>6 DEF Sound, Stands, PoliciesHold, ReviewsHold

----
(* Rules: the invariant. *)

\* Name, version, threshold and origin of a version never change.
SameRule(c, d) ==
  /\ c.id = d.id /\ c.name = d.name /\ c.version = d.version
  /\ c.threshold = d.threshold /\ c.base = d.base

UebaRecord ==
  [id : RuleIds, name : NameIds, version : 1..MaxRuleVersions+1,
   status : {"draft", "active", "retired"}, enabled : BOOLEAN, threshold : Nat \ {0},
   base : {NoRule} \cup RuleIds]

SoundRule(c) == c \in UebaRecord /\ (c.status = "retired" => ~c.enabled)

\* A copy of a stored version, as it is or as it was.
KnownRule(c) == SoundRule(c) /\ c.id \in DOMAIN ruleRows /\ SameRule(c, ruleRows[c.id])

BaseFits(c) ==
  c.base # NoRule => /\ c.base \in DOMAIN ruleRows
                     /\ ruleRows[c.base].name = c.name /\ ruleRows[c.base].version < c.version

RowsFit ==
  /\ versionsMade \in 0..MaxRuleVersions
  /\ ruleRows = [id \in DOMAIN ruleRows |-> ruleRows[id]]
  /\ \A id \in DOMAIN ruleRows :
       /\ id \in 1..Len(RuleNames) + versionsMade /\ ruleRows[id].id = id
       /\ SoundRule(ruleRows[id]) /\ BaseFits(ruleRows[id])
       /\ ruleRows[id].version <= versionsMade + 1
       /\ id \in NameIds => SameRule(ruleRows[id], DefaultRule(id))

ProposalFits(p) ==
  LET x == proposals[p]
  IN  /\ x \in [status : {"proposed", "applied"}, source : RuleIds, applied : {NoRule} \cup RuleIds,
                threshold : Nat \ {0}, from : {x.from}, hits : {x.hits}, target : {x.target}]
      /\ x.source \in DOMAIN ruleRows
      /\ (x.status = "applied") = (x.applied # NoRule)
      /\ x.applied # NoRule =>
           /\ x.applied \in DOMAIN ruleRows
           /\ ruleRows[x.applied].base = x.source
           /\ ruleRows[x.applied].threshold = x.threshold

ProposalsFit ==
  /\ \E k \in Nat : DOMAIN proposals = 1..k
  /\ proposals = [p \in DOMAIN proposals |-> proposals[p]]
  /\ \A p \in DOMAIN proposals : ProposalFits(p)

CalibrationFits ==
  /\ activity \in Activities
  /\ calibration = <<>> \/ calibration = [n \in NameIds |-> Calibrated(activity[n])]

RuleSteps == {"idle", "load", "seed", "act", "save", "put", "activate", "retire", "propose", "apply"}

\* A version that has an id and is not stored yet.
NewRule(c) ==
  /\ SoundRule(c) /\ BaseFits(c)
  /\ c.id \in Len(RuleNames) + 1..Len(RuleNames) + versionsMade /\ c.id \notin DOMAIN ruleRows
  /\ c.version <= versionsMade + 1

EditorShape(x) ==
  x \in [pc : RuleSteps, op : {"none"} \cup RuleOps \cup StateChanges, loaded : {x.loaded},
         row : {x.row}, todo : {x.todo}, proposal : {x.proposal}, run : {x.run}]

\* What a request holds at each of its steps.
EditorFits(e) ==
  LET x == editor[e]
  IN  /\ EditorShape(x)
      /\ x.pc \in {"act", "propose"} /\ x.op \notin StateChanges => x.loaded # {}
      /\ x.pc \in {"act", "propose"} => \A c \in x.loaded : KnownRule(c)
      /\ x.pc = "propose" => x.op = "propose"
      /\ x.pc \in {"load", "seed"} => x.op \notin StateChanges
      /\ x.pc = "seed" => x.todo \subseteq NameIds /\ NameIds \ x.todo \subseteq DOMAIN ruleRows
      /\ x.pc = "retire" => \A c \in x.todo : KnownRule(c)
      /\ x.pc = "save" => \A c \in x.row : NewRule(c)
      /\ x.pc \in {"put", "activate", "retire", "apply"} => \A c \in x.row : KnownRule(c)
      /\ x.pc \in {"save", "put", "activate", "retire", "apply"} => \A c, d \in x.row : c = d
      /\ x.pc \in {"load", "seed", "act", "save", "activate", "retire", "apply"} /\ x.op = "apply" =>
           /\ x.proposal \in DOMAIN proposals
           /\ x.pc \in {"save", "activate", "retire", "apply"} => \A c \in x.row :
                /\ c.base = proposals[x.proposal].source
                /\ c.threshold = proposals[x.proposal].threshold
      /\ x.pc = "apply" => x.op = "apply"

EditorsFit ==
  /\ editor = [e \in Editors |-> editor[e]]
  /\ \A e \in Editors : EditorFits(e)
  /\ \A e, f \in Editors : editor[e].pc = "save" /\ editor[f].pc = "save" =>
       \A c \in editor[e].row, d \in editor[f].row : c.id = d.id => e = f

EditorBusy(e) == editor[e].pc # "idle"

\* What a request knows that nobody met.
AloneInOrder(e) ==
  LET x == editor[e]
  IN  /\ x.pc = "seed" => DOMAIN ruleRows \subseteq NameIds
      /\ x.pc = "act" /\ x.op \notin StateChanges =>
           \A a \in StoredRules : \E c \in x.loaded : SameRule(a, c)
      /\ x.pc = "save" => \A c \in x.row, a \in StoredRules : a.name = c.name => a.version < c.version
      /\ x.pc = "put" => \A c \in x.row : c.status = "active" => ruleRows[c.id].status = "active"
      /\ x.pc = "retire" => \A c \in x.row, a \in StoredRules :
           a.name = c.name /\ a.status = "active" => a.id = c.id \/ a \in x.todo

\* Two active versions, one of which a request is about to make the only one.
BeingActivated(a, b) ==
  \E e \in Editors : /\ editor[e].pc \in {"activate", "retire"}
                     /\ \E c \in editor[e].row : c.id = a.id \/ c.id = b.id

OneActiveRule ==
  \A a, b \in StoredRules :
    a.name = b.name /\ a.status = "active" /\ b.status = "active" => a = b \/ BeingActivated(a, b)

NumbersDiffer ==
  \A a, b \in StoredRules : a.name = b.name /\ a.version = b.version => a = b

OneAfterTheOther ==
  ~disturbed =>
    /\ \A e, f \in Editors : EditorBusy(e) /\ EditorBusy(f) => e = f
    /\ \A e \in Editors : AloneInOrder(e)
    /\ NumbersDiffer
    /\ OneActiveRule

RulesInv ==
  /\ RowsFit
  /\ ProposalsFit
  /\ CalibrationFits
  /\ EditorsFit
  /\ OneAfterTheOther

----
(* Rules: what their operators return. *)

LEMMA MaxOfTwo ==
  ASSUME NEW a \in Nat, NEW b \in Nat
  PROVE  Max({a, b}) \in Nat /\ Max({a, b}) >= a /\ Max({a, b}) >= b
<1>1. a + b \in Nat /\ {a, b} \subseteq 0..(a + b) /\ {a, b} # {} OBVIOUS
<1> QED BY <1>1, HighestNumber

LEMMA NextRuleVersionFound ==
  ASSUME NEW N \in Nat, NEW rows, NEW name,
         \A r \in rows : r.version \in 1..N
  PROVE  /\ NextRuleVersion(rows, name) \in 1..N+1
         /\ \A r \in rows : r.name = name => r.version < NextRuleVersion(rows, name)
<1> DEFINE taken == {r.version : r \in {q \in rows : q.name = name}} \cup {0}
<1>1. taken \subseteq 0..N /\ taken # {} OBVIOUS
<1>2. \A r \in rows : r.name = name => r.version \in taken OBVIOUS
<1>3. NextRuleVersion(rows, name) = Max(taken) + 1 BY DEF NextRuleVersion
<1> HIDE DEF taken
<1>4. Max(taken) \in 0..N /\ \A k \in taken : k <= Max(taken) BY <1>1, HighestNumber
<1>5. \A k \in taken : k \in Nat BY <1>1
<1> QED BY <1>2, <1>3, <1>4, <1>5

LEMMA FirstFound ==
  ASSUME NEW rows, rows # {}, \A r \in rows : r.name \in Nat /\ r.version \in Nat
  PROVE  First(rows) \in rows
<1> DEFINE named == {r.name : r \in rows}
<1>1. named \in SUBSET Nat /\ named # {} OBVIOUS
<1>2. \A r \in rows : r.name \in named OBVIOUS
<1>3. PICK q \in rows : q.name = Min(named) BY <1>1, LeastNumber
<1> HIDE DEF named
<1> DEFINE numbers == {r.version : r \in {p \in rows : p.name = Min(named)}}
<1>4. numbers \in SUBSET Nat /\ numbers # {} BY <1>3
<1>5. \A r \in rows : r.name = Min(named) => r.version \in numbers OBVIOUS
<1>6. PICK r \in rows : r.name = Min(named) /\ r.version = Min(numbers) BY <1>4, LeastNumber
<1> HIDE DEF numbers
<1>7. \A p \in rows : r.name <= p.name /\ (p.name = r.name => r.version <= p.version)
  BY <1>1, <1>2, <1>4, <1>5, <1>6, LeastNumber
<1>8. \A p \in rows : r.name < p.name \/ (r.name = p.name /\ r.version <= p.version) BY <1>7
<1> QED BY <1>8 DEF First

LEMMA SourceFound ==
  ASSUME NEW rows, rows # {}, \A r \in rows : r.name \in Nat /\ r.version \in Nat,
         NEW name, NEW run
  PROVE  TuningSource(rows, name, run) \subseteq rows
<1> DEFINE hit == {n \in NameIds : run[n] > 0}
           ofHits == {r \in rows : hit # {} /\ r.name = Min(hit)}
           working == {r \in rows : RuleActive(r)}
<1>1. /\ ofHits \subseteq rows /\ working \subseteq rows
      /\ TuningSource(rows, name, run)
           = CASE First(rows).name = name -> {First(rows)}
               [] First(rows).name # name /\ ofHits # {} -> {First(ofHits)}
               [] First(rows).name # name /\ ofHits = {} /\ working # {} -> {First(working)}
               [] OTHER -> {}
  BY DEF TuningSource
<1> HIDE DEF ofHits, working
<1>2. First(rows) \in rows BY FirstFound
<1>3. ofHits # {} => First(ofHits) \in rows BY <1>1, FirstFound
<1>4. working # {} => First(working) \in rows BY <1>1, FirstFound
<1>5. CASE First(rows).name = name BY <1>1, <1>2, <1>5
<1>6. CASE First(rows).name # name /\ ofHits # {} BY <1>1, <1>3, <1>6
<1>7. CASE First(rows).name # name /\ ofHits = {} /\ working # {} BY <1>1, <1>4, <1>7
<1>8. CASE First(rows).name # name /\ ofHits = {} /\ working = {} BY <1>1, <1>8
<1> QED BY <1>5, <1>6, <1>7, <1>8

LEMMA ProposedPositive ==
  ASSUME NEW source, source.threshold \in Nat \ {0}, NEW run, NEW target
  PROVE  ProposedThreshold(source, run, target) \in Nat \ {0}
<1> DEFINE looser == Max({source.threshold - 1, 1})
<1>1. looser \in Nat \ {0}
  <2>1. source.threshold - 1 \in Nat OBVIOUS
  <2> HIDE DEF looser
  <2>2. looser \in Nat /\ looser >= 1 BY <2>1, MaxOfTwo DEF looser
  <2> QED BY <2>2
<1> HIDE DEF looser
<1>2. CASE CoreProposal(source, target) # {}
  <2>1. CoreProposal(source, target) = {looser} BY <1>2 DEF CoreProposal, looser
  <2> QED BY <1>1, <2>1 DEF ProposedThreshold
<1>3. CASE CoreProposal(source, target) = {} BY <1>3 DEF ProposedThreshold
<1> QED BY <1>2, <1>3

\* What stands at an index has more than that many that are not above it.
LEMMA RankedFound ==
  ASSUME NEW counts \in Seq(Nat), NEW index \in Nat, index < Len(counts)
  PROVE  \E u \in DOMAIN counts :
           /\ Ranked(counts, index) = counts[u]
           /\ Cardinality({w \in DOMAIN counts : counts[w] <= counts[u]}) > index
<1> DEFINE AtMost(v) == {w \in DOMAIN counts : counts[w] <= v}
           high == {u \in DOMAIN counts : Cardinality(AtMost(counts[u])) > index}
           values == {counts[u] : u \in high}
<1>0. /\ Len(counts) \in Nat \ {0} /\ DOMAIN counts = 1..Len(counts)
      /\ \A w \in 1..Len(counts) : counts[w] \in Nat
  OBVIOUS
<1>1. \E u \in DOMAIN counts : \A w \in DOMAIN counts : counts[w] <= counts[u]
  <2> DEFINE L == Len(counts)
             Largest(n) == \E u \in 1..n : \A w \in 1..n : counts[w] <= counts[u]
             bad == {n \in 1..L : ~ Largest(n)}
  <2>1. L \in Nat \ {0} /\ \A w \in 1..L : counts[w] \in Nat BY <1>0
  <2> HIDE DEF L
  <2>2. ASSUME NEW n \in 1..L, \A y \in bad : n <= y
        PROVE  Largest(n)
    <3>1. CASE n = 1
      <4>1. 1 \in 1..n /\ \A w \in 1..n : w = 1 /\ counts[w] \in Nat BY <2>1, <3>1
      <4>2. \A w \in 1..n : counts[w] <= counts[1] BY <4>1
      <4> QED BY <4>1, <4>2
    <3>2. CASE n # 1
      <4>1. n - 1 \in 1..L /\ ~ (n <= n - 1) /\ n \in Nat BY <2>1, <3>2
      <4>2. Largest(n - 1) BY <2>2, <4>1
      <4>3. PICK u \in 1..(n - 1) : \A w \in 1..(n - 1) : counts[w] <= counts[u] BY <4>2
      <4>4. u \in 1..n /\ n \in 1..n /\ \A w \in 1..n : w \in 1..(n - 1) \/ w = n BY <4>1
      <4>5. \A w \in 1..n : counts[w] \in Nat BY <2>1
      <4>6. CASE counts[n] <= counts[u]
        <5>1. \A w \in 1..n : counts[w] <= counts[u] BY <4>3, <4>4, <4>6
        <5> QED BY <4>4, <5>1
      <4>7. CASE ~ (counts[n] <= counts[u])
        <5>1. counts[u] <= counts[n] /\ counts[n] <= counts[n] BY <4>4, <4>5, <4>7
        <5>2. ASSUME NEW w \in 1..n PROVE counts[w] <= counts[n]
          <6>1. w = n \/ counts[w] <= counts[u] BY <4>3, <4>4
          <6> QED BY <4>4, <4>5, <5>1, <6>1
        <5> QED BY <4>4, <5>2
      <4> QED BY <4>6, <4>7
    <3> QED BY <3>1, <3>2
  <2>3. bad = {}
    <3>1. SUFFICES ASSUME bad # {} PROVE FALSE OBVIOUS
    <3>2. bad \in SUBSET Nat BY <2>1
    <3>3. PICK n \in bad : \A y \in bad : n <= y BY <3>1, <3>2, LeastNumber
    <3> QED BY <2>2, <3>3
  <2> HIDE DEF Largest
  <2>4. Largest(L) BY <2>1, <2>3
  <2> QED BY <1>0, <2>4 DEF L, Largest
<1>2. PICK u \in DOMAIN counts : \A w \in DOMAIN counts : counts[w] <= counts[u] BY <1>1
<1>3. Cardinality(DOMAIN counts) = Len(counts)
  <2> DEFINE L == Len(counts)
  <2>1. L \in Nat \ {0} BY <1>0
  <2> HIDE DEF L
  <2>2. Cardinality(1..L) = L BY <2>1, FS_Interval
  <2> QED BY <1>0, <2>2 DEF L
<1>4. AtMost(counts[u]) = DOMAIN counts BY <1>2
<1>5. u \in high BY <1>3, <1>4
<1>6. values \in SUBSET Nat /\ values # {}
  <2>1. high \subseteq DOMAIN counts OBVIOUS
  <2> HIDE DEF high
  <2> QED BY <1>0, <1>5, <2>1
<1>7. Ranked(counts, index) = Min(values) BY DEF Ranked
<1>8. Min(values) \in values BY <1>6, LeastNumber
<1>9. PICK w \in high : Min(values) = counts[w] BY <1>8
<1> HIDE DEF values
<1> QED BY <1>7, <1>9

\* No more than half of the users are above the recommended threshold.
LEMMA CalibratedSelective ==
  ASSUME NEW counts \in Seq(Nat)
  PROVE  2 * Cardinality({u \in DOMAIN counts : counts[u] >= Calibrated(counts)}) <= Len(counts)
<1> DEFINE above == {u \in DOMAIN counts : counts[u] >= Calibrated(counts)}
<1>0. Len(counts) \in Nat /\ DOMAIN counts = 1..Len(counts) OBVIOUS
<1>1. CASE counts = <<>>
  <2>1. above = {} BY <1>1
  <2>2. Cardinality(above) = 0 BY <2>1, FS_EmptySet
  <2> QED BY <1>0, <2>2
<1>2. CASE counts # <<>>
  <2> DEFINE L == Len(counts)
             Index(percent) == ((L - 1) * percent + 50) \div 100
             median == PercentileNearest(counts, 50)
             most == PercentileNearest(counts, 95)
  <2>1. L \in Nat \ {0} BY <1>2
  <2>2. Index(50) \in Nat /\ Index(50) < L /\ 2 * Index(50) >= L - 1 BY <2>1
  <2>3. Index(95) \in Nat /\ Index(95) < L BY <2>1
  <2> HIDE DEF Index
  <2>4. median = Ranked(counts, Index(50)) /\ most = Ranked(counts, Index(95))
    BY <1>2 DEF PercentileNearest, Index
  <2>5. PICK u \in DOMAIN counts :
          /\ median = counts[u]
          /\ Cardinality({w \in DOMAIN counts : counts[w] <= counts[u]}) > Index(50)
    BY <2>2, <2>4, RankedFound
  <2>6. median \in Nat /\ most \in Nat
    <3>1. PICK w \in DOMAIN counts : most = counts[w] BY <2>3, <2>4, RankedFound
    <3> QED BY <2>5, <3>1
  <2> HIDE DEF median, most
  <2>7. Calibrated(counts) \in Nat /\ Calibrated(counts) > median
    <3> DEFINE three == {most, median + 1, 1}
    <3>1. three \subseteq 0..(most + median + 1) /\ three # {} /\ most + median + 1 \in Nat BY <2>6
    <3>2. Calibrated(counts) = Max(three) BY DEF Calibrated, median, most
    <3>3. median + 1 \in three OBVIOUS
    <3> HIDE DEF three
    <3>4. Max(three) \in three /\ \A r \in three : r <= Max(three) BY <3>1, HighestNumber
    <3>5. Max(three) \in 0..(most + median + 1) BY <3>1, <3>4
    <3> QED BY <2>6, <3>2, <3>3, <3>4, <3>5
  <2> DEFINE below == {w \in DOMAIN counts : counts[w] <= counts[u]}
  <2>8. above \subseteq DOMAIN counts /\ below \subseteq DOMAIN counts OBVIOUS
  <2>9. above \cap below = {} BY <2>5, <2>6, <2>7
  <2> HIDE DEF above, below
  <2>10. IsFiniteSet(DOMAIN counts) /\ Cardinality(DOMAIN counts) = L
    <3>1. IsFiniteSet(1..L) /\ Cardinality(1..L) = L BY <2>1, FS_Interval
    <3> QED BY <1>0, <3>1
  <2>11. IsFiniteSet(above) /\ IsFiniteSet(below) /\ IsFiniteSet(above \cup below)
    BY <2>8, <2>10, FS_Subset, FS_Union
  <2>12. Cardinality(above \cup below) = Cardinality(above) + Cardinality(below)
    <3>1. Cardinality(above \cap below) = 0 BY <2>9, FS_EmptySet
    <3>2. Cardinality(above) \in Nat /\ Cardinality(below) \in Nat BY <2>11, FS_CardinalityType
    <3>3. Cardinality(above \cup below)
            = Cardinality(above) + Cardinality(below) - Cardinality(above \cap below)
      BY <2>11, FS_Union
    <3> QED BY <3>1, <3>2, <3>3
  <2>13. Cardinality(above \cup below) <= L
    <3>1. above \cup below \subseteq DOMAIN counts BY <2>8
    <3> QED BY <2>10, <3>1, FS_Subset
  <2>14. Cardinality(above) \in Nat /\ Cardinality(below) \in Nat /\ Cardinality(below) > Index(50)
    BY <2>5, <2>11, FS_CardinalityType DEF below
  <2>15. 2 * Cardinality(above) <= L BY <2>1, <2>2, <2>12, <2>13, <2>14
  <2> QED BY <2>15 DEF above
<1> QED BY <1>1, <1>2

----
(* Rules: what a step leaves as it was. *)

RulesGrow ==
  /\ DOMAIN ruleRows \subseteq DOMAIN ruleRows'
  /\ \A id \in DOMAIN ruleRows : SameRule(ruleRows'[id], ruleRows[id])

ProposalsGrow ==
  /\ DOMAIN proposals \subseteq DOMAIN proposals'
  /\ \A p \in DOMAIN proposals :
       proposals'[p].source = proposals[p].source /\ proposals'[p].threshold = proposals[p].threshold

\* Nobody but e has a request in progress.
Alone(e) == \A f \in Editors \ {e} : ~EditorBusy(f)

LEMMA KnownRuleKept ==
  ASSUME RulesGrow, NEW c, KnownRule(c)
  PROVE  KnownRule(c)'
BY DEF RulesGrow, KnownRule, SameRule, SoundRule

LEMMA BaseKept ==
  ASSUME RulesGrow, NEW c, BaseFits(c)
  PROVE  c.base # NoRule => /\ c.base \in DOMAIN ruleRows'
                            /\ ruleRows'[c.base].name = c.name
                            /\ ruleRows'[c.base].version < c.version
BY DEF RulesGrow, BaseFits, SameRule

LEMMA EditorKept ==
  ASSUME RulesInv, RulesGrow, ProposalsGrow, versionsMade' \in Nat, versionsMade <= versionsMade',
         NEW f \in Editors, editor'[f] = editor[f],
         editor[f].pc = "save" => \A c \in editor[f].row : c.id \notin DOMAIN ruleRows'
  PROVE  EditorFits(f)'
<1> DEFINE x == editor[f]
<1>1. EditorFits(f) BY DEF RulesInv, EditorsFit
<1>2. \A c : KnownRule(c) => KnownRule(c)' BY KnownRuleKept
<1>3. x.pc = "save" => \A c \in x.row : NewRule(c)'
  <2>1. SUFFICES ASSUME x.pc = "save", NEW c \in x.row PROVE NewRule(c)' OBVIOUS
  <2>2. NewRule(c) /\ c.id \notin DOMAIN ruleRows' BY <1>1, <2>1 DEF EditorFits
  <2>3. BaseFits(c)' BY <2>2, BaseKept DEF NewRule, BaseFits
  <2>4. c.version <= versionsMade' + 1 /\ c.id <= Len(RuleNames) + versionsMade'
    <3>1. versionsMade \in Nat /\ Len(RuleNames) \in Nat BY UebaRulesAssumption DEF RulesInv, RowsFit
    <3>2. c.version \in Nat /\ c.id \in Nat
      BY <2>2, <3>1, UebaRulesAssumption DEF NewRule, SoundRule, UebaRecord
    <3>3. c.version <= versionsMade + 1 /\ c.id <= Len(RuleNames) + versionsMade BY <2>2, <3>1 DEF NewRule
    <3> QED BY <3>1, <3>2, <3>3
  <2>5. c.id \in Len(RuleNames) + 1..Len(RuleNames) + versionsMade'
    <3>1. Len(RuleNames) \in Nat BY UebaRulesAssumption
    <3> QED BY <2>2, <2>4, <3>1 DEF NewRule
  <2> QED BY <2>2, <2>3, <2>4, <2>5 DEF NewRule, SoundRule
<1>4. x.pc = "seed" => NameIds \ x.todo \subseteq DOMAIN ruleRows' BY <1>1 DEF EditorFits, RulesGrow
<1>5. \A p \in DOMAIN proposals :
        /\ p \in DOMAIN proposals'
        /\ proposals'[p].source = proposals[p].source
        /\ proposals'[p].threshold = proposals[p].threshold
  BY DEF ProposalsGrow
<1> QED BY <1>1, <1>2, <1>3, <1>4, <1>5 DEF EditorFits, EditorShape

\* Stored proposals stay in order when the rules grow.
LEMMA ProposalsKept ==
  ASSUME RulesInv, RulesGrow, UNCHANGED proposals
  PROVE  ProposalsFit' /\ ProposalsGrow
BY DEF RulesInv, ProposalsFit, ProposalFits, ProposalsGrow, RulesGrow, SameRule

LEMMA EditorMoves ==
  ASSUME RulesInv, NEW e \in Editors, NEW new, editor' = [editor EXCEPT ![e] = new],
         RulesGrow, RowsFit', ProposalsGrow, ProposalsFit', CalibrationFits',
         versionsMade <= versionsMade', EditorFits(e)',
         \A f \in Editors \ {e} : editor[f].pc = "save" => \A c \in editor[f].row :
           /\ c.id \notin DOMAIN ruleRows'
           /\ new.pc = "save" => \A d \in new.row : c.id # d.id,
         ~disturbed' => Alone(e) /\ AloneInOrder(e)' /\ NumbersDiffer' /\ OneActiveRule'
  PROVE  RulesInv'
<1>1. /\ editor = [f \in Editors |-> editor[f]] /\ editor'[e] = new
      /\ \A f \in Editors \ {e} : editor'[f] = editor[f]
      /\ editor' = [f \in Editors |-> editor'[f]]
  BY DEF RulesInv, EditorsFit
<1>2. versionsMade' \in Nat BY DEF RowsFit
<1>3. ASSUME NEW f \in Editors PROVE EditorFits(f)'
  <2>1. CASE f # e BY <1>1, <1>2, <2>1, EditorKept
  <2> QED BY <2>1
<1>4. ASSUME NEW f \in Editors, NEW g \in Editors,
             editor'[f].pc = "save", editor'[g].pc = "save",
             NEW c \in editor'[f].row, NEW d \in editor'[g].row, c.id = d.id
      PROVE  f = g
  BY <1>1, <1>4 DEF RulesInv, EditorsFit
<1>5. EditorsFit' BY <1>1, <1>3, <1>4 DEF EditorsFit
<1>6. OneAfterTheOther'
  <2>1. SUFFICES ASSUME ~disturbed' PROVE OneAfterTheOther' BY DEF OneAfterTheOther
  <2>2. \A f \in Editors \ {e} : editor'[f].pc = "idle" BY <1>1, <2>1 DEF Alone, EditorBusy
  <2>3. \A f, g \in Editors : EditorBusy(f)' /\ EditorBusy(g)' => f = g BY <2>2 DEF EditorBusy
  <2>4. \A f \in Editors : AloneInOrder(f)' BY <2>1, <2>2 DEF AloneInOrder
  <2> QED BY <2>1, <2>3, <2>4 DEF OneAfterTheOther
<1> QED BY <1>5, <1>6 DEF RulesInv

\* A step that stores nothing.
LEMMA QuietMoves ==
  ASSUME RulesInv, NEW e \in Editors, NEW new, editor' = [editor EXCEPT ![e] = new],
         UNCHANGED <<ruleRows, proposals, versionsMade>>, CalibrationFits',
         EditorFits(e)', new.pc # "save",
         ~disturbed' =>
           /\ ~disturbed /\ Alone(e) /\ AloneInOrder(e)'
           /\ editor[e].pc \in {"activate", "retire"} =>
                /\ new.pc \in {"activate", "retire"}
                /\ \A c \in editor[e].row : \E d \in new.row : d.id = c.id
  PROVE  RulesInv'
<1>1. RulesGrow /\ RowsFit' BY DEF RulesGrow, SameRule, RulesInv, RowsFit, BaseFits, SoundRule
<1>2. ProposalsFit' /\ ProposalsGrow BY <1>1, ProposalsKept
<1>3. editor'[e] = new /\ \A f \in Editors \ {e} : editor'[f] = editor[f] BY DEF RulesInv, EditorsFit
<1>4. versionsMade <= versionsMade' BY DEF RulesInv, RowsFit
<1>5. ASSUME NEW f \in Editors \ {e}, editor[f].pc = "save", NEW c \in editor[f].row
      PROVE  c.id \notin DOMAIN ruleRows'
  BY <1>5 DEF RulesInv, EditorsFit, EditorFits, NewRule
<1>6. ASSUME ~disturbed' PROVE NumbersDiffer' /\ OneActiveRule'
  <2>1. NumbersDiffer /\ OneActiveRule BY <1>6 DEF RulesInv, OneAfterTheOther
  <2>2. StoredRules' = StoredRules BY DEF StoredRules
  <2>3. ASSUME NEW a, NEW b, BeingActivated(a, b) PROVE BeingActivated(a, b)'
    <3>1. PICK f \in Editors : /\ editor[f].pc \in {"activate", "retire"}
                               /\ \E c \in editor[f].row : c.id = a.id \/ c.id = b.id
      BY <2>3 DEF BeingActivated
    <3>2. f = e BY <1>6, <3>1 DEF Alone, EditorBusy
    <3>3. PICK c \in editor[e].row : c.id = a.id \/ c.id = b.id BY <3>1, <3>2
    <3>4. PICK d \in new.row : d.id = c.id BY <1>6, <3>1, <3>2, <3>3
    <3>5. new.pc \in {"activate", "retire"} BY <1>6, <3>1, <3>2
    <3> QED BY <1>3, <3>3, <3>4, <3>5 DEF BeingActivated
  <2> QED BY <2>1, <2>2, <2>3 DEF NumbersDiffer, OneActiveRule
<1> QED BY <1>1, <1>2, <1>4, <1>5, <1>6, EditorMoves

LEMMA EditorKnown ==
  ASSUME RulesInv, NEW e \in Editors
  PROVE  /\ EditorShape(editor[e]) /\ EditorFits(e)
         /\ ~disturbed /\ EditorBusy(e) =>
              Alone(e) /\ AloneInOrder(e) /\ NumbersDiffer /\ OneActiveRule
BY DEF RulesInv, EditorsFit, EditorFits, OneAfterTheOther, Alone

LEMMA IdleFits ==
  ASSUME NEW e \in Editors, editor'[e] = IdleEditor
  PROVE  EditorFits(e)' /\ AloneInOrder(e)' /\ IdleEditor.pc = "idle"
BY DEF IdleEditor, EditorFits, AloneInOrder, EditorShape, RuleSteps

----
(* Rules: the start, and steps that store nothing. *)

LEMMA RulesInitInv == ASSUME RulesInit PROVE RulesInv
<1>1. MaxRuleVersions \in Nat BY UebaRulesAssumption
<1>2. RowsFit BY <1>1 DEF RulesInit, RowsFit
<1>3. ProposalsFit
  <2>1. 0 \in Nat /\ DOMAIN proposals = 1..0 BY DEF RulesInit
  <2> QED BY <2>1 DEF RulesInit, ProposalsFit
<1>4. CalibrationFits BY DEF RulesInit, CalibrationFits
<1>5. EditorsFit
  <2>1. ASSUME NEW e \in Editors PROVE EditorFits(e) /\ editor[e].pc = "idle"
    BY DEF RulesInit, IdleEditor, EditorFits, EditorShape, RuleSteps
  <2> QED BY <2>1 DEF RulesInit, EditorsFit
<1>6. OneAfterTheOther
  <2>1. \A e \in Editors : editor[e].pc = "idle" /\ ~EditorBusy(e)
    BY DEF RulesInit, IdleEditor, EditorBusy
  <2>2. StoredRules = {} BY DEF RulesInit, StoredRules
  <2> QED BY <2>1, <2>2 DEF OneAfterTheOther, AloneInOrder, NumbersDiffer, OneActiveRule
<1> QED BY <1>2, <1>3, <1>4, <1>5, <1>6 DEF RulesInv

LEMMA CalibrationKept ==
  ASSUME RulesInv, UNCHANGED <<activity, calibration>>
  PROVE  CalibrationFits'
BY DEF RulesInv, CalibrationFits

\* A request ends.
LEMMA RequestOver ==
  ASSUME RulesInv, NEW e \in Editors, editor' = [editor EXCEPT ![e] = IdleEditor],
         UNCHANGED <<ruleRows, proposals, versionsMade>>, CalibrationFits',
         disturbed' \/ (~disturbed /\ EditorBusy(e) /\ editor[e].pc \notin {"activate", "retire"})
                    \/ (disturbed' = disturbed /\ EditorBusy(e)
                          /\ editor[e].pc \notin {"activate", "retire"})
  PROVE  RulesInv'
<1>1. editor'[e] = IdleEditor BY DEF RulesInv, EditorsFit
<1>2. EditorFits(e)' /\ AloneInOrder(e)' /\ IdleEditor.pc = "idle" BY <1>1, IdleFits
<1>3. ~disturbed' => ~disturbed /\ Alone(e) /\ editor[e].pc \notin {"activate", "retire"} BY EditorKnown
<1> QED BY <1>2, <1>3, QuietMoves

LEMMA RequestFailsKeeps ==
  ASSUME RulesInv, NEW e \in Editors, RequestFails(e)
  PROVE  RulesInv'
BY CalibrationKept, RequestOver DEF RequestFails, Set

LEMMA StartRequestKeeps ==
  ASSUME RulesInv, NEW e \in Editors, NEW op \in RuleOps \cup StateChanges,
         NEW p \in {NoRule} \cup DOMAIN proposals, StartRequest(e, op, p)
  PROVE  RulesInv'
<1> DEFINE step == IF op \in StateChanges THEN "act" ELSE "load"
           x == [IdleEditor EXCEPT !.op = op, !.proposal = p, !.pc = step]
<1>1. /\ editor[e].pc = "idle" /\ editor' = [editor EXCEPT ![e] = x]
      /\ op = "apply" => p \in DOMAIN proposals
      /\ disturbed' = (disturbed \/ \E f \in Editors : editor[f].pc # "idle")
      /\ UNCHANGED <<ruleRows, proposals, versionsMade, activity, calibration>>
  BY DEF StartRequest, Set
<1>2. step \in {"act", "load"} /\ (step = "act" <=> op \in StateChanges) OBVIOUS
<1> HIDE DEF step
<1>3. /\ x.pc = step /\ x.op = op /\ x.proposal = p /\ x.loaded = {} /\ x.row = {} /\ EditorShape(x)
  BY <1>2 DEF IdleEditor, EditorShape, RuleSteps
<1> HIDE DEF x
<1>4. editor'[e] = x BY <1>1 DEF RulesInv, EditorsFit
<1>5. EditorFits(e)' BY <1>1, <1>2, <1>3, <1>4 DEF EditorFits
<1>6. AloneInOrder(e)' BY <1>2, <1>3, <1>4 DEF AloneInOrder
<1>7. ~disturbed' => ~disturbed /\ Alone(e) BY <1>1 DEF Alone, EditorBusy
<1> QED BY <1>1, <1>2, <1>3, <1>5, <1>6, <1>7, CalibrationKept, QuietMoves

LEMMA StoredKnown ==
  ASSUME RulesInv
  PROVE  \A a \in StoredRules : a.id \in DOMAIN ruleRows /\ ruleRows[a.id] = a /\ KnownRule(a)
BY DEF RulesInv, RowsFit, StoredRules, KnownRule, SameRule

LEMMA NamesKnown == NameIds = 1..Len(RuleNames) /\ Len(RuleNames) \in Nat \ {0}
BY UebaRulesAssumption DEF NameIds

\* A request goes on with the stored rules.
LEMMA RulesLoaded ==
  ASSUME RulesInv, NEW e \in Editors, editor[e].pc \in {"load", "seed"}, StoredRules # {},
         editor[e].op \notin StateChanges,
         editor' = [editor EXCEPT ![e] = [editor[e] EXCEPT !.pc = "act", !.loaded = StoredRules]],
         UNCHANGED <<ruleRows, proposals, versionsMade, activity, calibration, disturbed>>
  PROVE  RulesInv'
<1> DEFINE x == [editor[e] EXCEPT !.pc = "act", !.loaded = StoredRules]
<1>1. EditorShape(editor[e]) /\ EditorFits(e) /\ EditorBusy(e) BY EditorKnown DEF EditorBusy
<1>2. /\ x.pc = "act" /\ x.loaded = StoredRules /\ x.op = editor[e].op
      /\ x.proposal = editor[e].proposal /\ EditorShape(x)
  BY <1>1 DEF EditorShape, RuleSteps
<1> HIDE DEF x
<1>3. editor' = [editor EXCEPT ![e] = x] /\ editor'[e] = x BY DEF RulesInv, EditorsFit, x
<1>4. \A c \in StoredRules : KnownRule(c)'
  <2>1. \A c \in StoredRules : KnownRule(c) BY StoredKnown
  <2> QED BY <2>1 DEF KnownRule, SoundRule
<1>5. EditorFits(e)' BY <1>1, <1>2, <1>3, <1>4 DEF EditorFits
<1>6. AloneInOrder(e)' BY <1>2, <1>3 DEF AloneInOrder, StoredRules, SameRule
<1>7. ~disturbed' => ~disturbed /\ Alone(e) BY <1>1, EditorKnown
<1> QED BY <1>2, <1>3, <1>5, <1>6, <1>7, CalibrationKept, QuietMoves

LEMMA RulesSeededKeeps ==
  ASSUME RulesInv, NEW e \in Editors, RulesSeeded(e)
  PROVE  RulesInv'
<1>1. EditorFits(e) /\ editor[e].pc = "seed" /\ editor[e].todo = {} BY EditorKnown DEF RulesSeeded
<1>2. 1 \in DOMAIN ruleRows BY <1>1, NamesKnown DEF EditorFits
<1>3. StoredRules # {} BY <1>2 DEF StoredRules
<1>4. editor[e].op \notin StateChanges BY <1>1 DEF EditorFits
<1> QED BY <1>1, <1>3, <1>4, RulesLoaded DEF RulesSeeded, Quiet, Set

LEMMA LoadOrSeedKeeps ==
  ASSUME RulesInv, NEW e \in Editors, LoadOrSeedRules(e), UNCHANGED ruleRows
  PROVE  RulesInv'
<1>1. /\ editor[e].pc = "load" /\ EditorShape(editor[e]) /\ EditorFits(e) /\ EditorBusy(e)
      /\ UNCHANGED <<proposals, versionsMade, activity, calibration, disturbed>>
  BY EditorKnown DEF LoadOrSeedRules, Quiet, EditorBusy
<1>2. editor[e].op \notin StateChanges BY <1>1 DEF EditorFits
<1>3. CASE /\ StoredRules # {}
           /\ editor' = [editor EXCEPT ![e] = [editor[e] EXCEPT !.pc = "act", !.loaded = StoredRules]]
  BY <1>1, <1>2, <1>3, RulesLoaded
<1>4. CASE /\ StoredRules = {}
           /\ editor' = [editor EXCEPT ![e] = [editor[e] EXCEPT !.pc = "seed", !.todo = NameIds]]
  <2> DEFINE x == [editor[e] EXCEPT !.pc = "seed", !.todo = NameIds]
  <2>1. /\ x.pc = "seed" /\ x.todo = NameIds /\ x.op = editor[e].op
        /\ x.proposal = editor[e].proposal /\ EditorShape(x)
    BY <1>1 DEF EditorShape, RuleSteps
  <2> HIDE DEF x
  <2>2. editor' = [editor EXCEPT ![e] = x] /\ editor'[e] = x BY <1>4 DEF RulesInv, EditorsFit, x
  <2>3. EditorFits(e)' BY <1>1, <1>2, <2>1, <2>2 DEF EditorFits
  <2>4. DOMAIN ruleRows = {} BY <1>4 DEF StoredRules
  <2>5. AloneInOrder(e)' BY <2>1, <2>2, <2>4 DEF AloneInOrder
  <2>6. ~disturbed' => ~disturbed /\ Alone(e) BY <1>1, EditorKnown
  <2> QED BY <1>1, <2>1, <2>2, <2>3, <2>5, <2>6, CalibrationKept, QuietMoves
<1>5. ASSUME StoredRules = {}, rulesMode = "memory", ruleRows' = [n \in NameIds |-> DefaultRule(n)]
      PROVE  FALSE
  <2>1. DOMAIN ruleRows = {} /\ DOMAIN ruleRows' = NameIds BY <1>5 DEF StoredRules
  <2> QED BY <2>1, NamesKnown
<1> QED BY <1>3, <1>4, <1>5 DEF LoadOrSeedRules, Set

\* Requests that only look, or find nothing to do.
LEMMA LookingKeeps ==
  ASSUME RulesInv, NEW e \in Editors,
         \/ ListRules(e) \/ RuleNotFound(e)
         \/ /\ editor[e].op = "replay"
            /\ \E names \in {NameIds} \cup {{n} : n \in NameIds} : RunReplay(e, names)
  PROVE  RulesInv'
<1>1. /\ editor[e].pc = "act" /\ editor' = [editor EXCEPT ![e] = IdleEditor]
      /\ UNCHANGED <<ruleRows, proposals, versionsMade, activity, calibration, disturbed>>
  BY DEF ListRules, RuleNotFound, RunReplay, Quiet, Set
<1> QED BY <1>1, CalibrationKept, RequestOver DEF EditorBusy

LEMMA RunCalibrationKeeps ==
  ASSUME RulesInv, NEW e \in Editors, RunCalibration(e)
  PROVE  RulesInv'
<1>1. /\ editor[e].pc = "act" /\ editor' = [editor EXCEPT ![e] = IdleEditor]
      /\ calibration' = [n \in NameIds |-> Calibrated(activity[n])]
      /\ UNCHANGED <<ruleRows, proposals, versionsMade, activity, disturbed>>
  BY DEF RunCalibration, Quiet, Set
<1>2. CalibrationFits' BY <1>1 DEF RulesInv, CalibrationFits
<1> QED BY <1>1, <1>2, RequestOver DEF EditorBusy

\* A replay for a proposal, or an earlier one that it names.
LEMMA ReplayKeeps ==
  ASSUME RulesInv, NEW e \in Editors, editor[e].op = "propose",
         LoadReplay(e) \/ \E names \in {NameIds} \cup {{n} : n \in NameIds} : RunReplay(e, names)
  PROVE  RulesInv'
<1>1. \E run : /\ editor[e].pc = "act"
               /\ editor' = [editor EXCEPT ![e] = [editor[e] EXCEPT !.pc = "propose", !.run = run]]
  BY DEF LoadReplay, RunReplay, Set
<1>2. PICK run : /\ editor[e].pc = "act"
                 /\ editor' = [editor EXCEPT ![e] = [editor[e] EXCEPT !.pc = "propose", !.run = run]]
  BY <1>1
<1>3. UNCHANGED <<ruleRows, proposals, versionsMade, activity, calibration, disturbed>>
  BY DEF LoadReplay, RunReplay, Quiet
<1> DEFINE x == [editor[e] EXCEPT !.pc = "propose", !.run = run]
<1>4. EditorShape(editor[e]) /\ EditorFits(e) /\ EditorBusy(e) BY <1>2, EditorKnown DEF EditorBusy
<1>5. x.pc = "propose" /\ x.op = "propose" /\ x.loaded = editor[e].loaded /\ EditorShape(x)
  BY <1>4 DEF EditorShape, RuleSteps
<1> HIDE DEF x
<1>6. editor' = [editor EXCEPT ![e] = x] /\ editor'[e] = x BY <1>2 DEF RulesInv, EditorsFit, x
<1>7. "propose" \notin StateChanges BY DEF StateChanges
<1>8. x.loaded # {} /\ \A c \in x.loaded : KnownRule(c)'
  <2>1. editor[e].loaded # {} /\ \A c \in editor[e].loaded : KnownRule(c)
    BY <1>2, <1>4, <1>7 DEF EditorFits
  <2> QED BY <1>3, <1>5, <2>1 DEF KnownRule, SoundRule
<1>9. EditorFits(e)' BY <1>5, <1>6, <1>8 DEF EditorFits
<1>10. AloneInOrder(e)' BY <1>5, <1>6 DEF AloneInOrder
<1>11. ~disturbed' => ~disturbed /\ Alone(e) BY <1>3, <1>4, EditorKnown
<1> QED BY <1>2, <1>3, <1>5, <1>6, <1>9, <1>10, <1>11, CalibrationKept, QuietMoves

LEMMA ActivateRuleKeeps ==
  ASSUME RulesInv, NEW e \in Editors, ActivateRule(e)
  PROVE  RulesInv'
<1>1. PICK c \in editor[e].row :
        editor' = [editor EXCEPT ![e] =
          [editor[e] EXCEPT !.pc = "retire", !.row = {ruleRows[c.id]}, !.todo = Others(c)]]
  BY DEF ActivateRule, Set
<1>2. /\ editor[e].pc = "activate"
      /\ UNCHANGED <<ruleRows, proposals, versionsMade, activity, calibration, disturbed>>
  BY DEF ActivateRule, Quiet
<1>3. PICK d : d = ruleRows[c.id] OBVIOUS
<1>4. PICK others : others = Others(c) OBVIOUS
<1> DEFINE x == [editor[e] EXCEPT !.pc = "retire", !.row = {d}, !.todo = others]
<1>5. EditorShape(editor[e]) /\ EditorFits(e) /\ EditorBusy(e) BY <1>2, EditorKnown DEF EditorBusy
<1>6. /\ x.pc = "retire" /\ x.op = editor[e].op /\ x.row = {d} /\ x.todo = others
      /\ x.proposal = editor[e].proposal /\ EditorShape(x)
  BY <1>5 DEF EditorShape, RuleSteps
<1> HIDE DEF x
<1>7. editor' = [editor EXCEPT ![e] = x] /\ editor'[e] = x BY <1>1, <1>3, <1>4 DEF RulesInv, EditorsFit, x
<1>8. KnownRule(c) /\ SameRule(c, d) /\ d \in StoredRules /\ \A a \in editor[e].row : a = c
  BY <1>2, <1>5, <1>3 DEF EditorFits, KnownRule, StoredRules
<1>9. \A a \in StoredRules : KnownRule(a)'
  <2>1. \A a \in StoredRules : KnownRule(a) BY StoredKnown
  <2> QED BY <1>2, <2>1 DEF KnownRule, SoundRule
<1>10. EditorFits(e)'
  <2>1. \A a \in x.todo : KnownRule(a)' BY <1>6, <1>9, <1>4 DEF Others
  <2>2. KnownRule(d)' BY <1>8, <1>9
  <2>3. x.op = "apply" =>
          /\ x.proposal \in DOMAIN proposals'
          /\ d.base = proposals'[x.proposal].source
          /\ d.threshold = proposals'[x.proposal].threshold
    BY <1>2, <1>5, <1>6, <1>8 DEF EditorFits, SameRule
  <2> QED BY <1>6, <1>7, <2>1, <2>2, <2>3 DEF EditorFits
<1>11. AloneInOrder(e)'
  <2>1. StoredRules' = StoredRules BY <1>2 DEF StoredRules
  <2> QED BY <1>6, <1>7, <1>8, <1>4, <2>1 DEF AloneInOrder, Others, SameRule
<1>12. \A a \in editor[e].row : \E b \in x.row : b.id = a.id BY <1>6, <1>8 DEF SameRule
<1>13. ~disturbed' => ~disturbed /\ Alone(e) BY <1>2, <1>5, EditorKnown
<1> QED BY <1>2, <1>6, <1>7, <1>10, <1>11, <1>12, <1>13, CalibrationKept, QuietMoves

----
(* Rules: new versions. *)

\* Where nothing is being activated, a rule has one active version.
LEMMA OneActiveNow ==
  ASSUME RulesInv, NEW e \in Editors, ~disturbed, EditorBusy(e),
         editor[e].pc \notin {"activate", "retire"}
  PROVE  /\ NumbersDiffer
         /\ \A a, b \in StoredRules :
              a.name = b.name /\ a.status = "active" /\ b.status = "active" => a = b
<1>1. NumbersDiffer /\ OneActiveRule /\ Alone(e) BY EditorKnown
<1>2. \A a, b : ~BeingActivated(a, b) BY <1>1 DEF BeingActivated, Alone, EditorBusy
<1> QED BY <1>1, <1>2 DEF OneActiveRule

LEMMA BuildKeeps ==
  ASSUME RulesInv, NEW e \in Editors, NEW name \in NameIds, NEW active \in BOOLEAN,
         NEW threshold \in Nat \ {0}, NEW base, Build(e, name, active, threshold, base),
         editor[e].pc = "act", editor[e].op \notin StateChanges,
         base # NoRule => \E s \in editor[e].loaded : s.id = base /\ s.name = name,
         editor[e].op = "apply" => /\ base = proposals[editor[e].proposal].source
                                   /\ threshold = proposals[editor[e].proposal].threshold
  PROVE  RulesInv'
<1>1. PICK c : c = RuleRow(NewRuleId, name, NextRuleVersion(editor[e].loaded, name),
                           IF active THEN "active" ELSE "draft", TRUE, threshold, base)
  OBVIOUS
<1>2. /\ versionsMade < MaxRuleVersions /\ versionsMade' = versionsMade + 1
      /\ UNCHANGED <<ruleRows, proposals, activity, calibration, disturbed>>
  BY DEF Build, Quiet
<1> DEFINE x == [editor[e] EXCEPT !.pc = "save", !.row = {c}]
<1>3. EditorShape(editor[e]) /\ EditorFits(e) /\ EditorBusy(e) BY EditorKnown DEF EditorBusy
<1>4. /\ x.pc = "save" /\ x.op = editor[e].op /\ x.row = {c}
      /\ x.proposal = editor[e].proposal /\ EditorShape(x)
  BY <1>3 DEF EditorShape, RuleSteps
<1> HIDE DEF x
<1>5. editor' = [editor EXCEPT ![e] = x] /\ editor'[e] = x BY <1>1 DEF Build, RulesInv, EditorsFit, x, Set
<1>6. /\ Len(RuleNames) \in Nat \ {0} /\ NameIds = 1..Len(RuleNames) /\ MaxRuleVersions \in Nat
      /\ versionsMade \in Nat /\ versionsMade + 1 <= MaxRuleVersions
  BY <1>2, NamesKnown, UebaRulesAssumption DEF RulesInv, RowsFit
<1>7. /\ \A a \in editor[e].loaded : KnownRule(a)
      /\ \A a \in StoredRules : a.version \in 1..versionsMade + 1
  <2>1. \A a \in editor[e].loaded : KnownRule(a) BY <1>3 DEF EditorFits
  <2>2. ASSUME NEW id \in DOMAIN ruleRows PROVE ruleRows[id].version \in 1..versionsMade + 1
    <3>1. ruleRows[id].version \in 1..MaxRuleVersions + 1 /\ ruleRows[id].version <= versionsMade + 1
      BY DEF RulesInv, RowsFit, SoundRule, UebaRecord
    <3> QED BY <1>6, <3>1
  <2> QED BY <2>1, <2>2 DEF StoredRules
<1>8. \A a \in editor[e].loaded : a.version \in 1..versionsMade + 1
  BY <1>7 DEF KnownRule, SameRule, StoredRules
<1>9. /\ NextRuleVersion(editor[e].loaded, name) \in 1..versionsMade + 2
      /\ \A a \in editor[e].loaded : a.name = name => a.version < NextRuleVersion(editor[e].loaded, name)
  <2>1. versionsMade + 1 \in Nat /\ versionsMade + 1 + 1 = versionsMade + 2 BY <1>6
  <2> QED BY <1>8, <2>1, NextRuleVersionFound
<1>10. /\ c.id = Len(RuleNames) + versionsMade + 1 /\ c.name = name
       /\ c.version = NextRuleVersion(editor[e].loaded, name)
       /\ c.status \in {"active", "draft"} /\ c.enabled = TRUE
       /\ c.threshold = threshold /\ c.base = base
       /\ c = [id |-> c.id, name |-> c.name, version |-> c.version, status |-> c.status,
               enabled |-> c.enabled, threshold |-> c.threshold, base |-> c.base]
  BY <1>1 DEF RuleRow, NewRuleId
<1>11. BaseFits(c) /\ base \in {NoRule} \cup RuleIds
  <2>1. CASE base = NoRule BY <1>10, <2>1 DEF BaseFits
  <2>2. CASE base # NoRule
    <3>1. PICK s \in editor[e].loaded : s.id = base /\ s.name = name BY <2>2
    <3>2. KnownRule(s) /\ s.version < c.version BY <1>7, <1>9, <1>10, <3>1
    <3>3. base \in DOMAIN ruleRows /\ SameRule(s, ruleRows[base]) BY <3>1, <3>2 DEF KnownRule
    <3>4. base \in RuleIds BY <3>1, <3>2 DEF KnownRule, SoundRule, UebaRecord
    <3> QED BY <1>10, <3>1, <3>2, <3>3, <3>4 DEF BaseFits, SameRule
  <2> QED BY <2>1, <2>2
<1>12. SoundRule(c)
  <2>1. c.id \in RuleIds BY <1>6, <1>10 DEF RuleIds
  <2>2. c.version \in 1..MaxRuleVersions + 1 BY <1>6, <1>9, <1>10
  <2> QED BY <1>10, <1>11, <2>1, <2>2 DEF SoundRule, UebaRecord
<1>13. \A id \in DOMAIN ruleRows : id \in 1..Len(RuleNames) + versionsMade BY DEF RulesInv, RowsFit
<1>14. NewRule(c)'
  <2>1. c.id \in Len(RuleNames) + 1..Len(RuleNames) + versionsMade' BY <1>2, <1>6, <1>10
  <2>2. c.id \notin DOMAIN ruleRows' BY <1>2, <1>6, <1>10, <1>13
  <2>3. c.version <= versionsMade' + 1 BY <1>2, <1>6, <1>9, <1>10
  <2>4. SoundRule(c)' /\ BaseFits(c)' BY <1>2, <1>11, <1>12 DEF SoundRule, BaseFits
  <2> QED BY <2>1, <2>2, <2>3, <2>4 DEF NewRule
<1>15. RulesGrow BY <1>2 DEF RulesGrow, SameRule
<1>16. RowsFit'
  <2>1. versionsMade' \in 0..MaxRuleVersions /\ versionsMade \in Nat /\ versionsMade' = versionsMade + 1
    BY <1>2, <1>6
  <2>2. ASSUME NEW id \in DOMAIN ruleRows'
        PROVE  /\ id \in 1..Len(RuleNames) + versionsMade' /\ ruleRows'[id].id = id
               /\ SoundRule(ruleRows[id])' /\ BaseFits(ruleRows[id])'
               /\ ruleRows'[id].version <= versionsMade' + 1
               /\ id \in NameIds => SameRule(ruleRows[id], DefaultRule(id))'
    <3>1. /\ id \in 1..Len(RuleNames) + versionsMade /\ ruleRows[id].id = id
          /\ SoundRule(ruleRows[id]) /\ BaseFits(ruleRows[id])
          /\ ruleRows[id].version <= versionsMade + 1
          /\ id \in NameIds => SameRule(ruleRows[id], DefaultRule(id))
      BY <1>2 DEF RulesInv, RowsFit
    <3>2. ruleRows[id].version \in Nat BY <1>6, <3>1 DEF SoundRule, UebaRecord
    <3>3. id \in 1..Len(RuleNames) + versionsMade' /\ ruleRows'[id].version <= versionsMade' + 1
      BY <1>2, <1>6, <3>1, <3>2
    <3> QED BY <1>2, <3>1, <3>3 DEF SoundRule, BaseFits, SameRule
  <2>3. ruleRows' = [id \in DOMAIN ruleRows' |-> ruleRows'[id]] BY <1>2 DEF RulesInv, RowsFit
  <2> QED BY <2>1, <2>2, <2>3 DEF RowsFit
<1>17. ProposalsFit' /\ ProposalsGrow BY <1>2, <1>15, ProposalsKept
<1>18. EditorFits(e)'
  <2>1. x.op = "apply" =>
          /\ x.proposal \in DOMAIN proposals'
          /\ c.base = proposals'[x.proposal].source
          /\ c.threshold = proposals'[x.proposal].threshold
    BY <1>2, <1>3, <1>4, <1>10 DEF EditorFits
  <2> QED BY <1>4, <1>5, <1>14, <2>1 DEF EditorFits
<1>19. ASSUME NEW f \in Editors \ {e}, editor[f].pc = "save", NEW d \in editor[f].row
       PROVE  d.id \notin DOMAIN ruleRows' /\ d.id # c.id
  <2>1. NewRule(d) BY <1>19 DEF RulesInv, EditorsFit, EditorFits
  <2> QED BY <1>2, <1>6, <1>10, <2>1 DEF NewRule
<1>20. ASSUME ~disturbed' PROVE Alone(e) /\ AloneInOrder(e)' /\ NumbersDiffer' /\ OneActiveRule'
  <2>1. ~disturbed /\ Alone(e) /\ AloneInOrder(e) BY <1>2, <1>3, <1>20, EditorKnown
  <2>2. StoredRules' = StoredRules BY <1>2 DEF StoredRules
  <2>3. NumbersDiffer' /\ OneActiveRule'
    BY <1>3, <2>1, <2>2, OneActiveNow DEF NumbersDiffer, OneActiveRule
  <2>4. ASSUME NEW a \in StoredRules, a.name = c.name PROVE a.version < c.version
    <3>1. PICK d \in editor[e].loaded : SameRule(a, d) BY <2>1 DEF AloneInOrder
    <3> QED BY <1>9, <1>10, <2>4, <3>1 DEF SameRule
  <2>5. AloneInOrder(e)' BY <1>4, <1>5, <2>2, <2>4 DEF AloneInOrder
  <2> QED BY <2>1, <2>3, <2>5
<1>21. versionsMade <= versionsMade' BY <1>2, <1>6
<1>22. CalibrationFits' BY <1>2, CalibrationKept
<1>23. \A f \in Editors \ {e} : editor[f].pc = "save" => \A a \in editor[f].row :
         /\ a.id \notin DOMAIN ruleRows'
         /\ x.pc = "save" => \A d \in x.row : a.id # d.id
  BY <1>4, <1>19
<1> QED BY <1>5, <1>15, <1>16, <1>17, <1>18, <1>20, <1>21, <1>22, <1>23, EditorMoves

LEMMA BuildCreatedKeeps ==
  ASSUME RulesInv, NEW e \in Editors, NEW n \in NameIds, NEW active \in BOOLEAN,
         NEW t \in Thresholds, BuildCreatedRule(e, n, active, t)
  PROVE  RulesInv'
<1>1. t \in Nat \ {0} /\ "create" \notin StateChanges BY UebaRulesAssumption DEF StateChanges
<1> QED BY <1>1, BuildKeeps DEF BuildCreatedRule

LEMMA BuildTunedKeeps ==
  ASSUME RulesInv, NEW e \in Editors, NEW source \in editor[e].loaded, NEW active \in BOOLEAN,
         NEW t \in Thresholds, BuildTunedRule(e, source, active, t)
  PROVE  RulesInv'
<1>1. t \in Nat \ {0} /\ "tune" \notin StateChanges BY UebaRulesAssumption DEF StateChanges
<1>2. editor[e].pc = "act" /\ editor[e].op = "tune" BY DEF BuildTunedRule
<1>3. source.name \in NameIds BY <1>2, EditorKnown DEF EditorFits, KnownRule, SoundRule, UebaRecord
<1> QED BY <1>1, <1>2, <1>3, BuildKeeps DEF BuildTunedRule

LEMMA BuildProposedKeeps ==
  ASSUME RulesInv, NEW e \in Editors, NEW active \in BOOLEAN, BuildProposedRule(e, active)
  PROVE  RulesInv'
<1>1. editor[e].pc = "act" /\ editor[e].op = "apply" /\ "apply" \notin StateChanges
  BY DEF BuildProposedRule, StateChanges
<1>2. EditorFits(e) BY EditorKnown
<1>3. PICK p : p = proposals[editor[e].proposal] OBVIOUS
<1>4. PICK source \in editor[e].loaded :
        source.id = p.source /\ Build(e, source.name, active, p.threshold, source.id)
  BY <1>3 DEF BuildProposedRule
<1>5. source.name \in NameIds BY <1>1, <1>2 DEF EditorFits, KnownRule, SoundRule, UebaRecord
<1>6. p.threshold \in Nat \ {0} BY <1>1, <1>2, <1>3 DEF EditorFits, RulesInv, ProposalsFit, ProposalFits
<1> QED BY <1>1, <1>3, <1>4, <1>5, <1>6, BuildKeeps

----
(* Rules: changes of stored versions. *)

\* A request for a change of state takes a version to write back.
LEMMA VersionTaken ==
  ASSUME RulesInv, NEW e \in Editors, editor[e].pc = "act", editor[e].op \in StateChanges,
         NEW step \in {"put", "activate"}, NEW c, KnownRule(c),
         c.status = "active" => ruleRows[c.id].status = "active",
         editor' = [editor EXCEPT ![e] = [editor[e] EXCEPT !.pc = step, !.row = {c}]],
         UNCHANGED <<ruleRows, proposals, versionsMade, activity, calibration, disturbed>>
  PROVE  RulesInv'
<1> DEFINE x == [editor[e] EXCEPT !.pc = step, !.row = {c}]
<1>1. EditorShape(editor[e]) /\ EditorFits(e) /\ EditorBusy(e) BY EditorKnown DEF EditorBusy
<1>2. x.pc = step /\ x.op = editor[e].op /\ x.row = {c} /\ EditorShape(x)
  BY <1>1 DEF EditorShape, RuleSteps
<1> HIDE DEF x
<1>3. editor' = [editor EXCEPT ![e] = x] /\ editor'[e] = x BY DEF RulesInv, EditorsFit, x
<1>4. KnownRule(c)' /\ editor[e].op # "apply" BY DEF KnownRule, SoundRule, StateChanges
<1>5. EditorFits(e)' BY <1>2, <1>3, <1>4 DEF EditorFits
<1>6. AloneInOrder(e)' BY <1>2, <1>3 DEF AloneInOrder
<1>7. ~disturbed' => ~disturbed /\ Alone(e) BY <1>1, EditorKnown
<1>8. CalibrationFits' /\ x.pc # "save" BY <1>2, CalibrationKept
<1> QED BY <1>3, <1>5, <1>6, <1>7, <1>8, QuietMoves

LEMMA ChangeRuleStateKeeps ==
  ASSUME RulesInv, NEW e \in Editors, NEW id \in DOMAIN ruleRows, ChangeRuleState(e, id)
  PROVE  RulesInv'
<1>1. /\ editor[e].pc = "act" /\ editor[e].op \in StateChanges
      /\ UNCHANGED <<ruleRows, proposals, versionsMade, activity, calibration, disturbed>>
  BY DEF ChangeRuleState, Quiet
<1>2. PICK r : r = ruleRows[id] OBVIOUS
<1>3. PICK op : op = editor[e].op OBVIOUS
<1>4. r.id = id /\ SoundRule(r) /\ KnownRule(r) BY <1>2 DEF RulesInv, RowsFit, KnownRule, SameRule
<1>5. op \in {"activate", "enable", "disable", "retire"} BY <1>1, <1>3 DEF StateChanges
<1>6. CASE op = "activate"
  <2>1. editor' = [editor EXCEPT ![e] = [editor[e] EXCEPT !.pc = "activate", !.row = {r}]]
    BY <1>2, <1>3, <1>6 DEF ChangeRuleState, Set
  <2> QED BY <1>1, <1>2, <1>4, <2>1, VersionTaken
<1>7. CASE op = "retire"
  <2>1. PICK c : c = Retired(r) OBVIOUS
  <2>2. editor' = [editor EXCEPT ![e] = [editor[e] EXCEPT !.pc = "put", !.row = {c}]]
    BY <1>2, <1>3, <1>7, <2>1 DEF ChangeRuleState, Set
  <2>3. KnownRule(c) /\ c.status # "active"
    BY <1>4, <2>1 DEF Retired, KnownRule, SoundRule, UebaRecord, SameRule
  <2> QED BY <1>1, <2>2, <2>3, VersionTaken
<1>8. CASE op \in {"enable", "disable"} /\ r.status # "retired"
  <2>1. PICK c : c = [r EXCEPT !.enabled = (op = "enable")] OBVIOUS
  <2>2. editor' = [editor EXCEPT ![e] = [editor[e] EXCEPT !.pc = "put", !.row = {c}]]
    BY <1>2, <1>3, <1>8, <2>1 DEF ChangeRuleState, Set
  <2>3. KnownRule(c)
    <3>1. PICK on \in BOOLEAN : on = (op = "enable") OBVIOUS
    <3>2. c = [r EXCEPT !.enabled = on] BY <2>1, <3>1
    <3> QED BY <1>4, <1>8, <3>2 DEF KnownRule, SoundRule, UebaRecord, SameRule
  <2>4. c.status = r.status /\ c.id = id BY <1>4, <2>1 DEF SoundRule, UebaRecord
  <2> QED BY <1>1, <1>2, <2>2, <2>3, <2>4, VersionTaken
<1>9. CASE op \in {"enable", "disable"} /\ r.status = "retired"
  <2>1. editor' = [editor EXCEPT ![e] = IdleEditor] BY <1>2, <1>3, <1>9 DEF ChangeRuleState, Set
  <2>2. CalibrationFits' /\ EditorBusy(e) BY <1>1, CalibrationKept DEF EditorBusy
  <2> QED BY <1>1, <2>1, <2>2, RequestOver
<1> QED BY <1>5, <1>6, <1>7, <1>8, <1>9

\* Versions are added or written again; what identifies them stays.
LEMMA RowsStored ==
  ASSUME RulesInv, UNCHANGED versionsMade,
         ruleRows' = [id \in DOMAIN ruleRows' |-> ruleRows'[id]],
         DOMAIN ruleRows \subseteq DOMAIN ruleRows',
         \A id \in DOMAIN ruleRows : SoundRule(ruleRows'[id]) /\ SameRule(ruleRows'[id], ruleRows[id]),
         \A id \in DOMAIN ruleRows' \ DOMAIN ruleRows :
           /\ id \in 1..Len(RuleNames) + versionsMade /\ ruleRows'[id].id = id
           /\ SoundRule(ruleRows'[id]) /\ BaseFits(ruleRows'[id])
           /\ ruleRows'[id].version <= versionsMade + 1
           /\ id \in NameIds => SameRule(ruleRows'[id], DefaultRule(id))
  PROVE  RulesGrow /\ RowsFit'
<1>1. RulesGrow BY DEF RulesGrow
<1>2. ASSUME NEW c, BaseFits(c)
      PROVE  c.base # NoRule => /\ c.base \in DOMAIN ruleRows'
                                /\ ruleRows'[c.base].name = c.name
                                /\ ruleRows'[c.base].version < c.version
  BY <1>1, <1>2, BaseKept
<1>3. ASSUME NEW id \in DOMAIN ruleRows'
      PROVE  /\ id \in 1..Len(RuleNames) + versionsMade' /\ ruleRows'[id].id = id
             /\ SoundRule(ruleRows[id])' /\ BaseFits(ruleRows[id])'
             /\ ruleRows'[id].version <= versionsMade' + 1
             /\ id \in NameIds => SameRule(ruleRows[id], DefaultRule(id))'
  <2>1. CASE id \in DOMAIN ruleRows
    <3>1. /\ id \in 1..Len(RuleNames) + versionsMade /\ ruleRows[id].id = id
          /\ BaseFits(ruleRows[id]) /\ ruleRows[id].version <= versionsMade + 1
          /\ id \in NameIds => SameRule(ruleRows[id], DefaultRule(id))
      BY <2>1 DEF RulesInv, RowsFit
    <3>2. SoundRule(ruleRows'[id]) /\ SameRule(ruleRows'[id], ruleRows[id]) BY <2>1
    <3>3. BaseFits(ruleRows[id])' BY <1>2, <3>1, <3>2 DEF BaseFits, SameRule
    <3> QED BY <3>1, <3>2, <3>3 DEF SameRule, SoundRule
  <2>2. CASE id \notin DOMAIN ruleRows
    <3>1. /\ id \in 1..Len(RuleNames) + versionsMade /\ ruleRows'[id].id = id
          /\ SoundRule(ruleRows'[id]) /\ BaseFits(ruleRows'[id])
          /\ ruleRows'[id].version <= versionsMade + 1
          /\ id \in NameIds => SameRule(ruleRows'[id], DefaultRule(id))
      BY <2>2
    <3>2. BaseFits(ruleRows[id])' BY <1>2, <3>1 DEF BaseFits
    <3> QED BY <3>1, <3>2 DEF SoundRule, SameRule
  <2> QED BY <2>1, <2>2
<1>4. RowsFit' BY <1>3 DEF RulesInv, RowsFit
<1> QED BY <1>1, <1>4

LEMMA RewriteMoves ==
  ASSUME RulesInv, NEW e \in Editors, NEW new, editor' = [editor EXCEPT ![e] = new],
         EditorBusy(e), EditorFits(e)', new.pc # "save",
         UNCHANGED <<proposals, versionsMade, activity, calibration, disturbed>>,
         ruleRows' = [id \in DOMAIN ruleRows |-> ruleRows'[id]],
         \A id \in DOMAIN ruleRows : SoundRule(ruleRows'[id]) /\ SameRule(ruleRows'[id], ruleRows[id]),
         ~disturbed => AloneInOrder(e)' /\ OneActiveRule'
  PROVE  RulesInv'
<1>1. DOMAIN ruleRows' = DOMAIN ruleRows OBVIOUS
<1>2. RulesGrow /\ RowsFit' BY <1>1, RowsStored
<1>3. ProposalsFit' /\ ProposalsGrow BY <1>2, ProposalsKept
<1>4. CalibrationFits' /\ versionsMade <= versionsMade' BY CalibrationKept DEF RulesInv, RowsFit
<1>5. ASSUME NEW f \in Editors \ {e}, editor[f].pc = "save", NEW c \in editor[f].row
      PROVE  c.id \notin DOMAIN ruleRows'
  BY <1>1, <1>5 DEF RulesInv, EditorsFit, EditorFits, NewRule
<1>6. ASSUME ~disturbed' PROVE NumbersDiffer' /\ OneActiveRule' /\ Alone(e) /\ AloneInOrder(e)'
  <2>1. NumbersDiffer /\ Alone(e) BY <1>6, EditorKnown
  <2>2. ASSUME NEW i \in DOMAIN ruleRows, NEW j \in DOMAIN ruleRows,
               ruleRows'[i].name = ruleRows'[j].name, ruleRows'[i].version = ruleRows'[j].version
        PROVE  ruleRows'[i] = ruleRows'[j]
    <3>1. ruleRows[i].name = ruleRows[j].name /\ ruleRows[i].version = ruleRows[j].version
      BY <2>2 DEF SameRule
    <3>2. ruleRows[i] = ruleRows[j] BY <2>1, <3>1 DEF NumbersDiffer, StoredRules
    <3> QED BY <3>2 DEF RulesInv, RowsFit
  <2>3. NumbersDiffer' BY <1>1, <2>2 DEF NumbersDiffer, StoredRules
  <2> QED BY <1>6, <2>1, <2>3
<1> QED BY <1>2, <1>3, <1>4, <1>5, <1>6, EditorMoves

\* One version is written again.
LEMMA VersionRewritten ==
  ASSUME RulesInv, NEW c, SoundRule(c), c.id \in DOMAIN ruleRows, SameRule(c, ruleRows[c.id]),
         ruleRows' = Upsert(ruleRows, c.id, c)
  PROVE  /\ ruleRows' = [id \in DOMAIN ruleRows |-> ruleRows'[id]]
         /\ \A id \in DOMAIN ruleRows :
              /\ SoundRule(ruleRows'[id]) /\ SameRule(ruleRows'[id], ruleRows[id])
              /\ ruleRows'[id] = IF id = c.id THEN c ELSE ruleRows[id]
<1>1. DOMAIN ruleRows \cup {c.id} = DOMAIN ruleRows OBVIOUS
<1>2. ruleRows' = [id \in DOMAIN ruleRows |-> IF id = c.id THEN c ELSE ruleRows[id]] BY <1>1 DEF Upsert
<1>3. ruleRows' = [id \in DOMAIN ruleRows |-> ruleRows'[id]] BY <1>2
<1>4. ASSUME NEW id \in DOMAIN ruleRows
      PROVE  /\ SoundRule(ruleRows'[id]) /\ SameRule(ruleRows'[id], ruleRows[id])
             /\ ruleRows'[id] = IF id = c.id THEN c ELSE ruleRows[id]
  <2>1. SoundRule(ruleRows[id]) /\ SameRule(ruleRows[id], ruleRows[id]) BY DEF RulesInv, RowsFit, SameRule
  <2> QED BY <1>2, <2>1
<1> QED BY <1>3, <1>4

\* No version becomes active, so no rule has more active ones than before.
LEMMA ActiveKept ==
  ASSUME RulesInv, ruleRows' = [id \in DOMAIN ruleRows |-> ruleRows'[id]],
         \A id \in DOMAIN ruleRows :
           /\ SameRule(ruleRows'[id], ruleRows[id])
           /\ ruleRows'[id].status = "active" => ruleRows[id].status = "active",
         \A a, b \in StoredRules :
           a.name = b.name /\ a.status = "active" /\ b.status = "active" => a = b
  PROVE  OneActiveRule'
<1>1. ASSUME NEW i \in DOMAIN ruleRows, NEW j \in DOMAIN ruleRows,
             ruleRows'[i].name = ruleRows'[j].name,
             ruleRows'[i].status = "active", ruleRows'[j].status = "active"
      PROVE  ruleRows'[i] = ruleRows'[j]
  <2>1. ruleRows[i].name = ruleRows[j].name /\ ruleRows[i].status = "active" /\ ruleRows[j].status = "active"
    BY <1>1 DEF SameRule
  <2>2. ruleRows[i] = ruleRows[j] BY <2>1 DEF StoredRules
  <2> QED BY <2>2 DEF RulesInv, RowsFit
<1>2. DOMAIN ruleRows' = DOMAIN ruleRows OBVIOUS
<1> QED BY <1>1, <1>2 DEF OneActiveRule, StoredRules

LEMMA PutRuleKeeps ==
  ASSUME RulesInv, NEW e \in Editors, PutRule(e)
  PROVE  RulesInv'
<1>1. PICK c \in editor[e].row : ruleRows' = Upsert(ruleRows, c.id, c) BY DEF PutRule
<1>2. /\ editor[e].pc = "put" /\ editor' = [editor EXCEPT ![e] = IdleEditor]
      /\ UNCHANGED <<proposals, versionsMade, activity, calibration, disturbed>>
  BY DEF PutRule, Quiet, Set
<1>3. EditorFits(e) /\ EditorBusy(e) BY <1>2, EditorKnown DEF EditorBusy
<1>4. SoundRule(c) /\ c.id \in DOMAIN ruleRows /\ SameRule(c, ruleRows[c.id])
  BY <1>2, <1>3 DEF EditorFits, KnownRule
<1>5. /\ ruleRows' = [id \in DOMAIN ruleRows |-> ruleRows'[id]]
      /\ \A id \in DOMAIN ruleRows :
           /\ SoundRule(ruleRows'[id]) /\ SameRule(ruleRows'[id], ruleRows[id])
           /\ ruleRows'[id] = IF id = c.id THEN c ELSE ruleRows[id]
  BY <1>1, <1>4, VersionRewritten
<1>6. editor'[e] = IdleEditor BY <1>2 DEF RulesInv, EditorsFit
<1>7. EditorFits(e)' /\ AloneInOrder(e)' /\ IdleEditor.pc # "save" BY <1>6, IdleFits
<1>8. ASSUME ~disturbed PROVE OneActiveRule'
  <2>1. AloneInOrder(e) BY <1>3, <1>8, EditorKnown
  <2>2. c.status = "active" => ruleRows[c.id].status = "active" BY <1>2, <2>1 DEF AloneInOrder
  <2>3. \A id \in DOMAIN ruleRows :
          /\ SameRule(ruleRows'[id], ruleRows[id])
          /\ ruleRows'[id].status = "active" => ruleRows[id].status = "active"
    BY <1>5, <2>2
  <2>4. \A a, b \in StoredRules :
          a.name = b.name /\ a.status = "active" /\ b.status = "active" => a = b
    BY <1>2, <1>3, <1>8, OneActiveNow
  <2> QED BY <1>5, <2>3, <2>4, ActiveKept
<1> QED BY <1>2, <1>3, <1>5, <1>7, <1>8, RewriteMoves

\* A request goes on with the version that it saved or is activating.
LEMMA VersionHeld ==
  ASSUME RulesInv, NEW e \in Editors, editor[e].pc \in {"save", "activate", "retire"},
         NEW step \in {"activate", "apply"}, step = "apply" => editor[e].op = "apply",
         \A c \in editor[e].row : KnownRule(c)', UNCHANGED proposals,
         editor' = [editor EXCEPT ![e] = [editor[e] EXCEPT !.pc = step]]
  PROVE  /\ EditorFits(e)' /\ AloneInOrder(e)'
         /\ editor'[e] = [editor[e] EXCEPT !.pc = step]
         /\ editor'[e].pc = step /\ editor'[e].row = editor[e].row
<1> DEFINE x == [editor[e] EXCEPT !.pc = step]
<1>1. EditorShape(editor[e]) /\ EditorFits(e) BY EditorKnown
<1>2. /\ x.pc = step /\ x.op = editor[e].op /\ x.row = editor[e].row
      /\ x.proposal = editor[e].proposal /\ EditorShape(x)
  BY <1>1 DEF EditorShape, RuleSteps
<1>3. editor'[e] = x BY DEF RulesInv, EditorsFit
<1> HIDE DEF x
<1>4. EditorFits(e)' BY <1>1, <1>2, <1>3 DEF EditorFits
<1>5. AloneInOrder(e)' BY <1>2, <1>3 DEF AloneInOrder
<1> QED BY <1>2, <1>3, <1>4, <1>5 DEF x

\* An activation is over.
LEMMA ActivationOver ==
  ASSUME RulesInv, NEW e \in Editors, editor[e].pc \in {"activate", "retire"}, RulesGrow,
         editor' = [editor EXCEPT ![e] = AfterActivation(e)], UNCHANGED proposals
  PROVE  EditorFits(e)' /\ AloneInOrder(e)' /\ AfterActivation(e).pc # "save"
<1>1. CASE editor[e].op = "apply"
  <2>1. AfterActivation(e) = [editor[e] EXCEPT !.pc = "apply"] BY <1>1 DEF AfterActivation
  <2>2. \A c \in editor[e].row : KnownRule(c)'
    <3>1. \A c \in editor[e].row : KnownRule(c) BY EditorKnown DEF EditorFits
    <3> QED BY <3>1, KnownRuleKept
  <2> QED BY <1>1, <2>1, <2>2, VersionHeld
<1>2. CASE editor[e].op # "apply"
  <2>1. AfterActivation(e) = IdleEditor /\ editor'[e] = IdleEditor
    BY <1>2 DEF AfterActivation, RulesInv, EditorsFit
  <2> QED BY <2>1, IdleFits
<1> QED BY <1>1, <1>2

LEMMA RetireOtherKeeps ==
  ASSUME RulesInv, NEW e \in Editors, RetireOther(e)
  PROVE  RulesInv'
<1>1. PICK r \in editor[e].todo :
        /\ ruleRows' = Upsert(ruleRows, r.id, Retired(r))
        /\ editor' = [editor EXCEPT ![e] = [editor[e] EXCEPT !.todo = @ \ {r}]]
  BY DEF RetireOther, Set
<1>2. /\ editor[e].pc = "retire"
      /\ UNCHANGED <<proposals, versionsMade, activity, calibration, disturbed>>
  BY DEF RetireOther, Quiet
<1>3. EditorShape(editor[e]) /\ EditorFits(e) /\ EditorBusy(e) BY <1>2, EditorKnown DEF EditorBusy
<1>4. PICK c : c = Retired(r) OBVIOUS
<1>5. KnownRule(r) BY <1>2, <1>3 DEF EditorFits
<1>6. /\ SoundRule(c) /\ c.id = r.id /\ c.id \in DOMAIN ruleRows
      /\ SameRule(c, ruleRows[c.id]) /\ c.status = "retired"
  BY <1>4, <1>5 DEF KnownRule, SoundRule, UebaRecord, SameRule, Retired
<1>7. /\ ruleRows' = [id \in DOMAIN ruleRows |-> ruleRows'[id]]
      /\ \A id \in DOMAIN ruleRows :
           /\ SoundRule(ruleRows'[id]) /\ SameRule(ruleRows'[id], ruleRows[id])
           /\ ruleRows'[id] = IF id = c.id THEN c ELSE ruleRows[id]
  <2>1. ruleRows' = Upsert(ruleRows, c.id, c) BY <1>1, <1>4, <1>6
  <2> QED BY <1>6, <2>1, VersionRewritten
<1>8. RulesGrow BY <1>7 DEF RulesGrow
<1> DEFINE x == [editor[e] EXCEPT !.todo = @ \ {r}]
<1>9. /\ x.pc = "retire" /\ x.op = editor[e].op /\ x.row = editor[e].row
      /\ x.todo = editor[e].todo \ {r} /\ x.proposal = editor[e].proposal /\ EditorShape(x)
  BY <1>2, <1>3 DEF EditorShape, RuleSteps
<1> HIDE DEF x
<1>10. editor' = [editor EXCEPT ![e] = x] /\ editor'[e] = x BY <1>1 DEF RulesInv, EditorsFit, x
<1>11. EditorFits(e)'
  <2>1. \A a : KnownRule(a) => KnownRule(a)' BY <1>8, KnownRuleKept
  <2>2. \A a \in x.todo : KnownRule(a)' BY <1>2, <1>3, <1>9, <2>1 DEF EditorFits
  <2>3. \A a \in x.row : KnownRule(a)' BY <1>2, <1>3, <1>9, <2>1 DEF EditorFits
  <2> QED BY <1>2, <1>3, <1>9, <1>10, <2>2, <2>3 DEF EditorFits
<1>12. ASSUME ~disturbed PROVE AloneInOrder(e)' /\ OneActiveRule'
  <2>1. AloneInOrder(e) /\ OneActiveRule /\ Alone(e) BY <1>3, <1>12, EditorKnown
  <2>2. ASSUME NEW i \in DOMAIN ruleRows, ruleRows'[i].status = "active"
        PROVE  ruleRows'[i] = ruleRows[i] /\ i # r.id
    BY <1>6, <1>7, <2>2
  <2>3. ASSUME NEW d \in editor[e].row, NEW i \in DOMAIN ruleRows,
               ruleRows'[i].name = d.name, ruleRows'[i].status = "active"
        PROVE  ruleRows'[i].id = d.id \/ ruleRows'[i] \in x.todo
    <3>1. ruleRows'[i] = ruleRows[i] /\ i # r.id /\ ruleRows[i].id = i BY <2>2, <2>3 DEF RulesInv, RowsFit
    <3>2. ruleRows[i].id = d.id \/ ruleRows[i] \in editor[e].todo
      BY <1>2, <2>1, <2>3, <3>1 DEF AloneInOrder, StoredRules
    <3> QED BY <1>9, <3>1, <3>2
  <2>4. AloneInOrder(e)' BY <1>7, <1>9, <1>10, <2>3 DEF AloneInOrder, StoredRules
  <2>5. ASSUME NEW i \in DOMAIN ruleRows, NEW j \in DOMAIN ruleRows,
               ruleRows'[i].name = ruleRows'[j].name,
               ruleRows'[i].status = "active", ruleRows'[j].status = "active",
               ruleRows'[i] # ruleRows'[j]
        PROVE  BeingActivated(ruleRows[i], ruleRows[j])'
    <3>1. ruleRows'[i] = ruleRows[i] /\ ruleRows'[j] = ruleRows[j] BY <2>2, <2>5
    <3>2. BeingActivated(ruleRows[i], ruleRows[j]) BY <2>1, <2>5, <3>1 DEF OneActiveRule, StoredRules
    <3>3. \E d \in editor[e].row : d.id = ruleRows[i].id \/ d.id = ruleRows[j].id
      BY <2>1, <3>2 DEF BeingActivated, Alone, EditorBusy
    <3> QED BY <1>9, <1>10, <3>1, <3>3 DEF BeingActivated
  <2>6. OneActiveRule' BY <1>7, <2>5 DEF OneActiveRule, StoredRules
  <2> QED BY <2>4, <2>6
<1>13. x.pc # "save" BY <1>9
<1> QED BY <1>2, <1>3, <1>7, <1>10, <1>11, <1>12, <1>13, RewriteMoves

\* The version that is activated is the only active one of its rule.
LEMMA OnlyActive ==
  ASSUME RulesInv, NEW e \in Editors, editor[e].pc \in {"activate", "retire"}, ~disturbed,
         NEW c \in editor[e].row,
         ruleRows' = [id \in DOMAIN ruleRows |-> ruleRows'[id]],
         \A id \in DOMAIN ruleRows :
           /\ SameRule(ruleRows'[id], ruleRows[id])
           /\ id # c.id /\ ruleRows'[id].status = "active" =>
                ruleRows[id].status = "active" /\ ruleRows[id].name # c.name
  PROVE  OneActiveRule'
<1>1. EditorFits(e) /\ Alone(e) /\ OneActiveRule BY EditorKnown DEF EditorBusy
<1>2. KnownRule(c) /\ \A d \in editor[e].row : d = c BY <1>1 DEF EditorFits
<1>3. ASSUME NEW i \in DOMAIN ruleRows, NEW j \in DOMAIN ruleRows,
             ruleRows'[i].name = ruleRows'[j].name,
             ruleRows'[i].status = "active", ruleRows'[j].status = "active"
      PROVE  i = j
  <2>1. /\ ruleRows'[i].name = ruleRows[i].name /\ ruleRows'[j].name = ruleRows[j].name
        /\ ruleRows[i].id = i /\ ruleRows[j].id = j /\ ruleRows[i].name = ruleRows[j].name
    BY <1>3 DEF SameRule, RulesInv, RowsFit
  <2>2. c.id \in DOMAIN ruleRows /\ ruleRows[c.id].name = c.name BY <1>2 DEF KnownRule, SameRule
  <2>3. CASE i = c.id BY <1>3, <2>1, <2>2, <2>3
  <2>4. CASE j = c.id BY <1>3, <2>1, <2>2, <2>4
  <2>5. CASE i # c.id /\ j # c.id
    <3>1. ruleRows[i].status = "active" /\ ruleRows[j].status = "active" BY <1>3, <2>5
    <3>2. ruleRows[i] = ruleRows[j] \/ BeingActivated(ruleRows[i], ruleRows[j])
      BY <1>1, <2>1, <3>1 DEF OneActiveRule, StoredRules
    <3>3. ~BeingActivated(ruleRows[i], ruleRows[j])
      BY <1>1, <1>2, <2>1, <2>5 DEF BeingActivated, Alone, EditorBusy
    <3> QED BY <2>1, <3>2, <3>3
  <2> QED BY <2>3, <2>4, <2>5
<1>4. DOMAIN ruleRows' = DOMAIN ruleRows OBVIOUS
<1> QED BY <1>3, <1>4 DEF OneActiveRule, StoredRules

LEMMA SaveActivatedKeeps ==
  ASSUME RulesInv, NEW e \in Editors, SaveActivated(e)
  PROVE  RulesInv'
<1>1. PICK r \in editor[e].row : ruleRows' = Upsert(ruleRows, r.id, Activated(r)) BY DEF SaveActivated
<1>2. /\ editor[e].pc = "retire" /\ editor[e].todo = {}
      /\ editor' = [editor EXCEPT ![e] = AfterActivation(e)]
      /\ UNCHANGED <<proposals, versionsMade, activity, calibration, disturbed>>
  BY DEF SaveActivated, Quiet, Set
<1>3. EditorFits(e) /\ EditorBusy(e) BY <1>2, EditorKnown DEF EditorBusy
<1>4. PICK c : c = Activated(r) OBVIOUS
<1>5. KnownRule(r) BY <1>2, <1>3 DEF EditorFits
<1>6. /\ SoundRule(c) /\ c.id = r.id /\ c.id \in DOMAIN ruleRows
      /\ SameRule(c, ruleRows[c.id])
  BY <1>4, <1>5 DEF KnownRule, SoundRule, UebaRecord, SameRule, Activated
<1>7. /\ ruleRows' = [id \in DOMAIN ruleRows |-> ruleRows'[id]]
      /\ \A id \in DOMAIN ruleRows :
           /\ SoundRule(ruleRows'[id]) /\ SameRule(ruleRows'[id], ruleRows[id])
           /\ ruleRows'[id] = IF id = c.id THEN c ELSE ruleRows[id]
  <2>1. ruleRows' = Upsert(ruleRows, c.id, c) BY <1>1, <1>4, <1>6
  <2> QED BY <1>6, <2>1, VersionRewritten
<1>8. RulesGrow BY <1>7 DEF RulesGrow
<1>9. EditorFits(e)' /\ AloneInOrder(e)' /\ AfterActivation(e).pc # "save" BY <1>2, <1>8, ActivationOver
<1>10. ASSUME ~disturbed PROVE OneActiveRule'
  <2>1. AloneInOrder(e) BY <1>3, <1>10, EditorKnown
  <2>2. ASSUME NEW id \in DOMAIN ruleRows, id # r.id, ruleRows'[id].status = "active"
        PROVE  ruleRows[id].status = "active" /\ ruleRows[id].name # r.name
    <3>1. ruleRows'[id] = ruleRows[id] /\ ruleRows[id].id = id BY <1>6, <1>7, <2>2 DEF RulesInv, RowsFit
    <3> QED BY <1>2, <2>1, <2>2, <3>1 DEF AloneInOrder, StoredRules
  <2>3. \A id \in DOMAIN ruleRows : SameRule(ruleRows'[id], ruleRows[id]) BY <1>7
  <2> QED BY <1>2, <1>7, <1>10, <2>2, <2>3, OnlyActive
<1> QED BY <1>2, <1>3, <1>7, <1>9, <1>10, RewriteMoves

----
(* Rules: changes in memory, and versions that are stored first. *)

LEMMA ChangedVersions ==
  ASSUME RulesInv, NEW op \in StateChanges, NEW i \in DOMAIN ruleRows,
         ruleRows' = ChangedInMemory(op, i)
  PROVE  /\ ruleRows' = [id \in DOMAIN ruleRows |-> ruleRows'[id]]
         /\ \A id \in DOMAIN ruleRows :
              /\ SoundRule(ruleRows'[id]) /\ SameRule(ruleRows'[id], ruleRows[id])
              /\ ruleRows'[id].status = "active" /\ (id # i \/ op # "activate") =>
                   ruleRows[id].status = "active"
              /\ id # i /\ op = "activate" /\ ruleRows'[id].status = "active" =>
                   ruleRows[id].name # ruleRows[i].name
<1>1. ruleRows' = [id \in DOMAIN ruleRows |-> ruleRows'[id]] BY DEF ChangedInMemory
<1>2. ASSUME NEW id \in DOMAIN ruleRows
      PROVE  /\ SoundRule(ruleRows'[id]) /\ SameRule(ruleRows'[id], ruleRows[id])
             /\ ruleRows'[id].status = "active" /\ (id # i \/ op # "activate") =>
                  ruleRows[id].status = "active"
             /\ id # i /\ op = "activate" /\ ruleRows'[id].status = "active" =>
                  ruleRows[id].name # ruleRows[i].name
  <2>1. PICK a : a = ruleRows[id] OBVIOUS
  <2>2. a.id = id /\ SoundRule(a) /\ a \in StoredRules BY <2>1 DEF RulesInv, RowsFit, StoredRules
  <2>3. ruleRows[i].id = i BY DEF RulesInv, RowsFit
  <2>4. \A c \in {Activated(a), Retired(a), [a EXCEPT !.enabled = FALSE], a} :
          SoundRule(c) /\ SameRule(c, a)
    <3>1. SoundRule(Activated(a)) /\ SameRule(Activated(a), a)
      BY <2>2 DEF SoundRule, UebaRecord, SameRule, Activated
    <3>2. SoundRule(Retired(a)) /\ SameRule(Retired(a), a)
      BY <2>2 DEF SoundRule, UebaRecord, SameRule, Retired
    <3>3. SoundRule([a EXCEPT !.enabled = FALSE]) /\ SameRule([a EXCEPT !.enabled = FALSE], a)
      BY <2>2 DEF SoundRule, UebaRecord, SameRule
    <3>4. SameRule(a, a) BY DEF SameRule
    <3> QED BY <2>2, <3>1, <3>2, <3>3, <3>4
  <2>5. /\ Activated(a).status = "active" /\ Retired(a).status = "retired"
        /\ [a EXCEPT !.enabled = FALSE].status = a.status
        /\ [a EXCEPT !.enabled = TRUE].status = a.status
    BY <2>2 DEF SoundRule, UebaRecord, Activated, Retired
  <2>6. CASE id = i /\ op = "activate"
    <3>1. ruleRows'[id] = Activated(a) BY <2>1, <2>6 DEF ChangedInMemory
    <3> QED BY <2>1, <2>4, <2>6, <3>1
  <2>7. CASE id = i /\ op = "retire"
    <3>1. ruleRows'[id] = Retired(a) BY <2>1, <2>7 DEF ChangedInMemory
    <3> QED BY <2>1, <2>4, <2>5, <2>7, <3>1
  <2>8. CASE id = i /\ op = "disable"
    <3>1. ruleRows'[id] = [a EXCEPT !.enabled = FALSE] BY <2>1, <2>8 DEF ChangedInMemory
    <3> QED BY <2>1, <2>4, <2>5, <2>8, <3>1
  <2>9. CASE id = i /\ op = "enable" /\ a.status # "retired"
    <3>1. ruleRows'[id] = [a EXCEPT !.enabled = TRUE] BY <2>1, <2>9 DEF ChangedInMemory
    <3>2. SoundRule([a EXCEPT !.enabled = TRUE]) /\ SameRule([a EXCEPT !.enabled = TRUE], a)
      BY <2>2, <2>9 DEF SoundRule, UebaRecord, SameRule
    <3> QED BY <2>1, <2>5, <2>9, <3>1, <3>2
  <2>10. CASE id = i /\ op = "enable" /\ a.status = "retired"
    <3>1. ruleRows'[id] = a BY <2>1, <2>10 DEF ChangedInMemory
    <3> QED BY <2>1, <2>4, <2>10, <3>1
  <2>11. CASE id # i /\ op = "activate" /\ a \in Others(ruleRows[i])
    <3>1. ruleRows'[id] = Retired(a) BY <2>1, <2>11 DEF ChangedInMemory
    <3> QED BY <2>1, <2>4, <2>5, <2>11, <3>1
  <2>12. CASE id # i /\ op = "activate" /\ a \notin Others(ruleRows[i])
    <3>1. ruleRows'[id] = a BY <2>1, <2>12 DEF ChangedInMemory
    <3>2. a.status = "active" => a.name # ruleRows[i].name BY <2>2, <2>3, <2>12 DEF Others
    <3> QED BY <2>1, <2>4, <3>1, <3>2
  <2>13. CASE id # i /\ op # "activate"
    <3>1. ruleRows'[id] = a BY <2>1, <2>13 DEF ChangedInMemory
    <3> QED BY <2>1, <2>4, <2>13, <3>1
  <2> QED BY <2>6, <2>7, <2>8, <2>9, <2>10, <2>11, <2>12, <2>13 DEF StateChanges
<1> QED BY <1>1, <1>2

LEMMA ActivateInMemoryKeeps ==
  ASSUME RulesInv, NEW e \in Editors, ActivateInMemory(e)
  PROVE  RulesInv'
<1>1. PICK c \in editor[e].row : ruleRows' = ChangedInMemory("activate", c.id) BY DEF ActivateInMemory
<1>2. /\ editor[e].pc = "activate"
      /\ editor' = [editor EXCEPT ![e] = AfterActivation(e)]
      /\ UNCHANGED <<proposals, versionsMade, activity, calibration, disturbed>>
  BY DEF ActivateInMemory, Quiet, Set
<1>3. EditorFits(e) /\ EditorBusy(e) BY <1>2, EditorKnown DEF EditorBusy
<1>4. c.id \in DOMAIN ruleRows /\ ruleRows[c.id].name = c.name
  BY <1>2, <1>3 DEF EditorFits, KnownRule, SameRule
<1>5. "activate" \in StateChanges BY DEF StateChanges
<1>6. /\ ruleRows' = [id \in DOMAIN ruleRows |-> ruleRows'[id]]
      /\ \A id \in DOMAIN ruleRows :
           /\ SoundRule(ruleRows'[id]) /\ SameRule(ruleRows'[id], ruleRows[id])
           /\ ruleRows'[id].status = "active" /\ id # c.id =>
                ruleRows[id].status = "active" /\ ruleRows[id].name # ruleRows[c.id].name
  BY <1>1, <1>4, <1>5, ChangedVersions
<1>7. RulesGrow BY <1>6 DEF RulesGrow
<1>8. EditorFits(e)' /\ AloneInOrder(e)' /\ AfterActivation(e).pc # "save" BY <1>2, <1>7, ActivationOver
<1>9. ASSUME ~disturbed PROVE OneActiveRule'
  <2>1. \A id \in DOMAIN ruleRows :
          /\ SameRule(ruleRows'[id], ruleRows[id])
          /\ id # c.id /\ ruleRows'[id].status = "active" =>
               ruleRows[id].status = "active" /\ ruleRows[id].name # c.name
    BY <1>4, <1>6
  <2> QED BY <1>2, <1>6, <1>9, <2>1, OnlyActive
<1> QED BY <1>2, <1>3, <1>6, <1>8, <1>9, RewriteMoves

LEMMA ChangeInMemoryKeeps ==
  ASSUME RulesInv, NEW e \in Editors, NEW i \in DOMAIN ruleRows, ChangeRuleStateInMemory(e, i)
  PROVE  RulesInv'
<1>1. /\ editor[e].pc = "act" /\ editor[e].op \in StateChanges
      /\ ruleRows' = ChangedInMemory(editor[e].op, i)
      /\ editor' = [editor EXCEPT ![e] = IdleEditor]
      /\ UNCHANGED <<proposals, versionsMade, activity, calibration, disturbed>>
  BY DEF ChangeRuleStateInMemory, Quiet, Set
<1>2. PICK op \in StateChanges : op = editor[e].op BY <1>1
<1>3. /\ ruleRows' = [id \in DOMAIN ruleRows |-> ruleRows'[id]]
      /\ \A id \in DOMAIN ruleRows :
           /\ SoundRule(ruleRows'[id]) /\ SameRule(ruleRows'[id], ruleRows[id])
           /\ ruleRows'[id].status = "active" /\ (id # i \/ op # "activate") =>
                ruleRows[id].status = "active"
           /\ id # i /\ op = "activate" /\ ruleRows'[id].status = "active" =>
                ruleRows[id].name # ruleRows[i].name
  BY <1>1, <1>2, ChangedVersions
<1>4. EditorBusy(e) /\ editor'[e] = IdleEditor BY <1>1 DEF EditorBusy, RulesInv, EditorsFit
<1>5. EditorFits(e)' /\ AloneInOrder(e)' /\ IdleEditor.pc # "save" BY <1>4, IdleFits
<1>6. ASSUME ~disturbed PROVE OneActiveRule'
  <2>1. \A a, b \in StoredRules :
          a.name = b.name /\ a.status = "active" /\ b.status = "active" => a = b
    BY <1>1, <1>4, <1>6, OneActiveNow
  <2>2. CASE op # "activate"
    <3>1. \A id \in DOMAIN ruleRows :
            /\ SameRule(ruleRows'[id], ruleRows[id])
            /\ ruleRows'[id].status = "active" => ruleRows[id].status = "active"
      BY <1>3, <2>2
    <3> QED BY <1>3, <2>1, <3>1, ActiveKept
  <2>3. CASE op = "activate"
    <3>1. ASSUME NEW j \in DOMAIN ruleRows, NEW k \in DOMAIN ruleRows,
                 ruleRows'[j].name = ruleRows'[k].name,
                 ruleRows'[j].status = "active", ruleRows'[k].status = "active"
          PROVE  j = k
      <4>1. /\ ruleRows'[j].name = ruleRows[j].name /\ ruleRows'[k].name = ruleRows[k].name
            /\ ruleRows[j].id = j /\ ruleRows[k].id = k
        BY <1>3 DEF SameRule, RulesInv, RowsFit
      <4>2. CASE j = i \/ k = i BY <1>3, <2>3, <3>1, <4>1, <4>2
      <4>3. CASE j # i /\ k # i
        <5>1. ruleRows[j].status = "active" /\ ruleRows[k].status = "active" BY <1>3, <3>1, <4>3
        <5>2. ruleRows[j].name = ruleRows[k].name BY <3>1, <4>1
        <5>3. ruleRows[j] = ruleRows[k] BY <2>1, <5>1, <5>2 DEF StoredRules
        <5> QED BY <4>1, <5>3
      <4> QED BY <4>2, <4>3
    <3>2. DOMAIN ruleRows' = DOMAIN ruleRows BY <1>3
    <3> QED BY <3>1, <3>2 DEF OneActiveRule, StoredRules
  <2> QED BY <2>2, <2>3
<1> QED BY <1>1, <1>3, <1>4, <1>5, <1>6, RewriteMoves

LEMMA SaveRuleVersionKeeps ==
  ASSUME RulesInv, NEW e \in Editors, SaveRuleVersion(e)
  PROVE  RulesInv'
<1>1. PICK c \in editor[e].row :
        /\ ruleRows' = Upsert(ruleRows, c.id, c)
        /\ editor' = [editor EXCEPT ![e] =
             CASE c.status = "active" -> [editor[e] EXCEPT !.pc = "activate"]
               [] c.status # "active" /\ editor[e].op = "apply" -> [editor[e] EXCEPT !.pc = "apply"]
               [] OTHER -> IdleEditor]
  BY DEF SaveRuleVersion, Set
<1>2. /\ editor[e].pc = "save"
      /\ UNCHANGED <<proposals, versionsMade, activity, calibration, disturbed>>
  BY DEF SaveRuleVersion, Quiet
<1>3. EditorFits(e) /\ EditorBusy(e) BY <1>2, EditorKnown DEF EditorBusy
<1>4. NewRule(c) /\ \A d \in editor[e].row : d = c BY <1>2, <1>3 DEF EditorFits
<1>5. ruleRows' = [id \in DOMAIN ruleRows \cup {c.id} |-> IF id = c.id THEN c ELSE ruleRows[id]]
  BY <1>1 DEF Upsert
<1>6. c.id \notin DOMAIN ruleRows BY <1>4 DEF NewRule
<1>7. /\ ruleRows' = [id \in DOMAIN ruleRows' |-> ruleRows'[id]]
      /\ DOMAIN ruleRows' = DOMAIN ruleRows \cup {c.id} /\ ruleRows'[c.id] = c
      /\ \A id \in DOMAIN ruleRows : ruleRows'[id] = ruleRows[id]
  BY <1>5, <1>6
<1>8. /\ c.id \in 1..Len(RuleNames) + versionsMade /\ c.id \notin NameIds
      /\ SoundRule(c) /\ BaseFits(c) /\ c.version <= versionsMade + 1
  <2>1. Len(RuleNames) \in Nat \ {0} /\ NameIds = 1..Len(RuleNames) /\ versionsMade \in Nat
    BY NamesKnown DEF RulesInv, RowsFit
  <2> QED BY <1>4, <2>1 DEF NewRule
<1>9. \A id \in DOMAIN ruleRows : SoundRule(ruleRows'[id]) /\ SameRule(ruleRows'[id], ruleRows[id])
  BY <1>7 DEF RulesInv, RowsFit, SameRule
<1>10. RulesGrow /\ RowsFit' BY <1>2, <1>7, <1>8, <1>9, RowsStored
<1>11. ProposalsFit' /\ ProposalsGrow BY <1>2, <1>10, ProposalsKept
<1>12. CalibrationFits' /\ versionsMade <= versionsMade' BY <1>2, CalibrationKept DEF RulesInv, RowsFit
<1>13. KnownRule(c)' BY <1>7, <1>8 DEF KnownRule, SoundRule, SameRule
<1>14. \A d \in editor[e].row : KnownRule(d)' BY <1>4, <1>13
<1>15. PICK new : editor' = [editor EXCEPT ![e] = new] BY <1>1
<1>16. editor'[e] = new BY <1>15 DEF RulesInv, EditorsFit
<1>17. /\ EditorFits(e)' /\ AloneInOrder(e)' /\ new.pc # "save"
       /\ c.status = "active" => new.pc = "activate" /\ new.row = editor[e].row
  <2>1. CASE c.status = "active"
    <3>1. editor' = [editor EXCEPT ![e] = [editor[e] EXCEPT !.pc = "activate"]] BY <1>1, <2>1
    <3> QED BY <1>2, <1>14, <1>16, <3>1, VersionHeld
  <2>2. CASE c.status # "active" /\ editor[e].op = "apply"
    <3>1. editor' = [editor EXCEPT ![e] = [editor[e] EXCEPT !.pc = "apply"]] BY <1>1, <2>2
    <3> QED BY <1>2, <1>14, <1>16, <2>2, <3>1, VersionHeld
  <2>3. CASE c.status # "active" /\ editor[e].op # "apply"
    <3>1. editor' = [editor EXCEPT ![e] = IdleEditor] BY <1>1, <2>3
    <3>2. editor'[e] = IdleEditor BY <3>1 DEF RulesInv, EditorsFit
    <3> QED BY <1>16, <2>3, <3>2, IdleFits
  <2> QED BY <2>1, <2>2, <2>3
<1>18. ASSUME NEW f \in Editors \ {e}, editor[f].pc = "save", NEW d \in editor[f].row
       PROVE  d.id \notin DOMAIN ruleRows'
  <2>1. d.id \notin DOMAIN ruleRows BY <1>18 DEF RulesInv, EditorsFit, EditorFits, NewRule
  <2>2. d.id # c.id BY <1>2, <1>18 DEF RulesInv, EditorsFit
  <2> QED BY <1>7, <2>1, <2>2
<1>19. ASSUME ~disturbed' PROVE Alone(e) /\ NumbersDiffer' /\ OneActiveRule'
  <2>1. ~disturbed /\ Alone(e) /\ AloneInOrder(e) BY <1>2, <1>3, <1>19, EditorKnown
  <2>2. /\ NumbersDiffer
        /\ \A a, b \in StoredRules :
             a.name = b.name /\ a.status = "active" /\ b.status = "active" => a = b
    BY <1>2, <1>3, <2>1, OneActiveNow
  <2>3. StoredRules' = StoredRules \cup {c} BY <1>7 DEF StoredRules
  <2>4. \A a \in StoredRules : a.name = c.name => a.version # c.version
    <3>1. ASSUME NEW a \in StoredRules, a.name = c.name PROVE a.version # c.version
      <4>1. a.version < c.version BY <1>2, <2>1, <3>1 DEF AloneInOrder
      <4>2. KnownRule(a) BY StoredKnown
      <4>3. MaxRuleVersions \in Nat BY UebaRulesAssumption
      <4>4. a.version \in Nat /\ c.version \in Nat
        BY <1>8, <4>2, <4>3 DEF KnownRule, SoundRule, UebaRecord
      <4> QED BY <4>1, <4>4
    <3> QED BY <3>1
  <2>5. NumbersDiffer' BY <2>2, <2>3, <2>4 DEF NumbersDiffer
  <2>6. \A a, b : (a = c \/ b = c) /\ c.status = "active" => BeingActivated(a, b)'
    BY <1>16, <1>17 DEF BeingActivated
  <2>7. OneActiveRule' BY <2>2, <2>3, <2>6 DEF OneActiveRule
  <2> QED BY <2>1, <2>5, <2>7
<1>20. \A f \in Editors \ {e} : editor[f].pc = "save" => \A d \in editor[f].row :
         /\ d.id \notin DOMAIN ruleRows'
         /\ new.pc = "save" => \A b \in new.row : d.id # b.id
  BY <1>17, <1>18
<1> QED BY <1>10, <1>11, <1>12, <1>15, <1>17, <1>19, <1>20, EditorMoves

\* As long as there are only first versions, there is one of each name.
LEMMA FirstVersionsDiffer ==
  ASSUME RowsFit', DOMAIN ruleRows' \subseteq NameIds
  PROVE  NumbersDiffer' /\ OneActiveRule'
<1>1. \A id \in DOMAIN ruleRows' : ruleRows'[id].name = id BY DEF RowsFit, SameRule, DefaultRule, RuleRow
<1> QED BY <1>1 DEF NumbersDiffer, OneActiveRule, StoredRules

LEMMA DefaultSound ==
  ASSUME NEW n \in NameIds
  PROVE  /\ SoundRule(DefaultRule(n)) /\ BaseFits(DefaultRule(n))
         /\ DefaultRule(n).id = n /\ DefaultRule(n).version = 1
<1>1. /\ MaxRuleVersions \in Nat /\ Len(RuleNames) \in Nat \ {0} /\ NameIds = 1..Len(RuleNames)
      /\ DefaultThreshold[n] \in Nat \ {0}
  BY UebaRulesAssumption DEF NameIds
<1>2. n \in RuleIds /\ 1 \in 1..MaxRuleVersions + 1 BY <1>1 DEF RuleIds
<1> QED BY <1>1, <1>2 DEF DefaultRule, RuleRow, SoundRule, UebaRecord, BaseFits, NoRule

LEMMA SeedRuleKeeps ==
  ASSUME RulesInv, NEW e \in Editors, SeedRule(e)
  PROVE  RulesInv'
<1>1. PICK n : n = Min(editor[e].todo) OBVIOUS
<1>2. /\ editor[e].pc = "seed" /\ editor[e].todo # {}
      /\ ruleRows' = Upsert(ruleRows, n, DefaultRule(n))
      /\ editor' = [editor EXCEPT ![e] = [editor[e] EXCEPT !.todo = @ \ {n}]]
      /\ UNCHANGED <<proposals, versionsMade, activity, calibration, disturbed>>
  BY <1>1 DEF SeedRule, Quiet, Set
<1>3. EditorShape(editor[e]) /\ EditorFits(e) /\ EditorBusy(e) BY <1>2, EditorKnown DEF EditorBusy
<1>4. n \in editor[e].todo /\ n \in NameIds
  <2>1. editor[e].todo \subseteq NameIds BY <1>2, <1>3 DEF EditorFits
  <2>2. NameIds \subseteq Nat BY NamesKnown
  <2>3. editor[e].todo \in SUBSET Nat BY <2>1, <2>2
  <2>4. Min(editor[e].todo) \in editor[e].todo BY <1>2, <2>3, LeastNumber
  <2> QED BY <1>1, <2>1, <2>4
<1>5. PICK d : d = DefaultRule(n) OBVIOUS
<1>6. SoundRule(d) /\ BaseFits(d) /\ d.id = n /\ d.version = 1 BY <1>4, <1>5, DefaultSound
<1>7. ruleRows' = [id \in DOMAIN ruleRows \cup {n} |-> IF id = n THEN d ELSE ruleRows[id]]
  BY <1>2, <1>5 DEF Upsert
<1>8. /\ ruleRows' = [id \in DOMAIN ruleRows' |-> ruleRows'[id]]
      /\ DOMAIN ruleRows' = DOMAIN ruleRows \cup {n} /\ ruleRows'[n] = d
      /\ \A id \in DOMAIN ruleRows \ {n} : ruleRows'[id] = ruleRows[id]
  BY <1>7
<1>9. ASSUME NEW id \in DOMAIN ruleRows
      PROVE  SoundRule(ruleRows'[id]) /\ SameRule(ruleRows'[id], ruleRows[id])
  <2>1. CASE id = n
    <3>1. SameRule(ruleRows[n], DefaultRule(n)) BY <1>4, <1>9, <2>1 DEF RulesInv, RowsFit
    <3> QED BY <1>5, <1>6, <1>8, <2>1, <3>1 DEF SameRule
  <2>2. CASE id # n BY <1>8, <1>9, <2>2 DEF RulesInv, RowsFit, SameRule
  <2> QED BY <2>1, <2>2
<1>10. RulesGrow /\ RowsFit'
  <2>1. n \in 1..Len(RuleNames) + versionsMade /\ 1 <= versionsMade + 1
    <3>1. versionsMade \in Nat BY DEF RulesInv, RowsFit
    <3> QED BY <1>4, <3>1, NamesKnown
  <2>2. SameRule(d, DefaultRule(n)) BY <1>5 DEF SameRule
  <2>3. \A id \in DOMAIN ruleRows' \ DOMAIN ruleRows :
          /\ id \in 1..Len(RuleNames) + versionsMade /\ ruleRows'[id].id = id
          /\ SoundRule(ruleRows'[id]) /\ BaseFits(ruleRows'[id])
          /\ ruleRows'[id].version <= versionsMade + 1
          /\ id \in NameIds => SameRule(ruleRows'[id], DefaultRule(id))
    BY <1>6, <1>8, <2>1, <2>2
  <2> QED BY <1>2, <1>8, <1>9, <2>3, RowsStored
<1>11. ProposalsFit' /\ ProposalsGrow BY <1>2, <1>10, ProposalsKept
<1>12. CalibrationFits' /\ versionsMade <= versionsMade' BY <1>2, CalibrationKept DEF RulesInv, RowsFit
<1> DEFINE x == [editor[e] EXCEPT !.todo = @ \ {n}]
<1>13. /\ x.pc = "seed" /\ x.op = editor[e].op /\ x.todo = editor[e].todo \ {n}
       /\ x.proposal = editor[e].proposal /\ EditorShape(x)
  BY <1>2, <1>3 DEF EditorShape, RuleSteps
<1> HIDE DEF x
<1>14. editor' = [editor EXCEPT ![e] = x] /\ editor'[e] = x BY <1>2 DEF RulesInv, EditorsFit, x
<1>15. EditorFits(e)'
  <2>1. x.todo \subseteq NameIds /\ NameIds \ x.todo \subseteq DOMAIN ruleRows'
    BY <1>2, <1>3, <1>8, <1>13 DEF EditorFits
  <2> QED BY <1>2, <1>3, <1>13, <1>14, <2>1 DEF EditorFits
<1>16. ASSUME NEW f \in Editors \ {e}, editor[f].pc = "save", NEW b \in editor[f].row
       PROVE  b.id \notin DOMAIN ruleRows'
  <2>1. NewRule(b) BY <1>16 DEF RulesInv, EditorsFit, EditorFits
  <2>2. b.id \notin NameIds
    <3>1. versionsMade \in Nat BY DEF RulesInv, RowsFit
    <3> QED BY <2>1, <3>1, NamesKnown DEF NewRule
  <2> QED BY <1>4, <1>8, <2>1, <2>2 DEF NewRule
<1>17. ASSUME ~disturbed' PROVE Alone(e) /\ AloneInOrder(e)' /\ NumbersDiffer' /\ OneActiveRule'
  <2>1. ~disturbed /\ Alone(e) /\ AloneInOrder(e) BY <1>2, <1>3, <1>17, EditorKnown
  <2>2. DOMAIN ruleRows' \subseteq NameIds BY <1>2, <1>4, <1>8, <2>1 DEF AloneInOrder
  <2>3. AloneInOrder(e)' BY <1>13, <1>14, <2>2 DEF AloneInOrder
  <2> QED BY <1>10, <2>1, <2>2, <2>3, FirstVersionsDiffer
<1>18. x.pc # "save" BY <1>13
<1> QED BY <1>10, <1>11, <1>12, <1>14, <1>15, <1>16, <1>17, <1>18, EditorMoves

LEMMA SeedInMemoryKeeps ==
  ASSUME RulesInv, NEW e \in Editors, LoadOrSeedRules(e), StoredRules = {},
         ruleRows' = [n \in NameIds |-> DefaultRule(n)],
         editor' = [editor EXCEPT ![e] = [editor[e] EXCEPT !.pc = "act",
                                            !.loaded = {DefaultRule(n) : n \in NameIds}]]
  PROVE  RulesInv'
<1>1. PICK defaults : defaults = {DefaultRule(n) : n \in NameIds} OBVIOUS
<1>2. /\ editor[e].pc = "load" /\ DOMAIN ruleRows = {}
      /\ UNCHANGED <<proposals, versionsMade, activity, calibration, disturbed>>
  BY DEF LoadOrSeedRules, Quiet, StoredRules
<1>3. EditorShape(editor[e]) /\ EditorFits(e) /\ EditorBusy(e) BY <1>2, EditorKnown DEF EditorBusy
<1>4. /\ ruleRows' = [id \in DOMAIN ruleRows' |-> ruleRows'[id]]
      /\ DOMAIN ruleRows' = NameIds /\ \A n \in NameIds : ruleRows'[n] = DefaultRule(n)
  OBVIOUS
<1>5. RulesGrow /\ RowsFit'
  <2>1. ASSUME NEW n \in NameIds
        PROVE  n \in 1..Len(RuleNames) + versionsMade /\ 1 <= versionsMade + 1
    <3>1. versionsMade \in Nat BY DEF RulesInv, RowsFit
    <3> QED BY <3>1, NamesKnown
  <2>2. \A id \in DOMAIN ruleRows' \ DOMAIN ruleRows :
          /\ id \in 1..Len(RuleNames) + versionsMade /\ ruleRows'[id].id = id
          /\ SoundRule(ruleRows'[id]) /\ BaseFits(ruleRows'[id])
          /\ ruleRows'[id].version <= versionsMade + 1
          /\ id \in NameIds => SameRule(ruleRows'[id], DefaultRule(id))
    BY <1>4, <2>1, DefaultSound DEF SameRule
  <2> QED BY <1>2, <1>4, <2>2, RowsStored
<1>6. ProposalsFit' /\ ProposalsGrow BY <1>2, <1>5, ProposalsKept
<1>7. CalibrationFits' /\ versionsMade <= versionsMade' BY <1>2, CalibrationKept DEF RulesInv, RowsFit
<1> DEFINE x == [editor[e] EXCEPT !.pc = "act", !.loaded = defaults]
<1>8. /\ x.pc = "act" /\ x.op = editor[e].op /\ x.loaded = defaults
      /\ x.proposal = editor[e].proposal /\ EditorShape(x)
  BY <1>3 DEF EditorShape, RuleSteps
<1> HIDE DEF x
<1>9. editor' = [editor EXCEPT ![e] = x] /\ editor'[e] = x BY <1>1 DEF RulesInv, EditorsFit, x
<1>10. EditorFits(e)'
  <2>1. defaults # {}
    <3>1. 1 \in NameIds BY NamesKnown
    <3> QED BY <1>1, <3>1
  <2>2. \A c \in defaults : KnownRule(c)'
    <3>1. ASSUME NEW n \in NameIds PROVE KnownRule(DefaultRule(n))'
      BY <1>4, DefaultSound DEF KnownRule, SoundRule, SameRule
    <3> QED BY <1>1, <3>1
  <2> QED BY <1>2, <1>3, <1>8, <1>9, <2>1, <2>2 DEF EditorFits
<1>11. ASSUME NEW f \in Editors \ {e}, editor[f].pc = "save", NEW b \in editor[f].row
       PROVE  b.id \notin DOMAIN ruleRows'
  <2>1. NewRule(b) BY <1>11 DEF RulesInv, EditorsFit, EditorFits
  <2>2. versionsMade \in Nat BY DEF RulesInv, RowsFit
  <2> QED BY <1>4, <2>1, <2>2, NamesKnown DEF NewRule
<1>12. ASSUME ~disturbed' PROVE Alone(e) /\ AloneInOrder(e)' /\ NumbersDiffer' /\ OneActiveRule'
  <2>1. Alone(e) BY <1>2, <1>3, <1>12, EditorKnown
  <2>2. StoredRules' = defaults BY <1>1, <1>4 DEF StoredRules
  <2>3. AloneInOrder(e)' BY <1>8, <1>9, <2>2 DEF AloneInOrder, SameRule
  <2> QED BY <1>4, <1>5, <2>1, <2>3, FirstVersionsDiffer
<1>13. x.pc # "save" BY <1>8
<1> QED BY <1>5, <1>6, <1>7, <1>9, <1>10, <1>11, <1>12, <1>13, EditorMoves

----
(* Rules: proposals. *)

LEMMA ProposalStored ==
  ASSUME RulesInv, NEW e \in Editors, editor' = [editor EXCEPT ![e] = IdleEditor],
         EditorBusy(e), editor[e].pc \notin {"activate", "retire"},
         UNCHANGED <<ruleRows, versionsMade, activity, calibration, disturbed>>,
         ProposalsFit', ProposalsGrow
  PROVE  RulesInv'
<1>1. RulesGrow /\ RowsFit' BY DEF RulesGrow, SameRule, RulesInv, RowsFit, BaseFits, SoundRule
<1>2. CalibrationFits' /\ versionsMade <= versionsMade' BY CalibrationKept DEF RulesInv, RowsFit
<1>3. editor'[e] = IdleEditor BY DEF RulesInv, EditorsFit
<1>4. EditorFits(e)' /\ AloneInOrder(e)' /\ IdleEditor.pc # "save" BY <1>3, IdleFits
<1>5. ASSUME NEW f \in Editors \ {e}, editor[f].pc = "save", NEW c \in editor[f].row
      PROVE  c.id \notin DOMAIN ruleRows'
  BY <1>5 DEF RulesInv, EditorsFit, EditorFits, NewRule
<1>6. ASSUME ~disturbed' PROVE Alone(e) /\ NumbersDiffer' /\ OneActiveRule'
  <2>1. StoredRules' = StoredRules BY DEF StoredRules
  <2>2. ~disturbed /\ Alone(e) BY <1>6, EditorKnown
  <2>3. /\ NumbersDiffer
        /\ \A a, b \in StoredRules :
             a.name = b.name /\ a.status = "active" /\ b.status = "active" => a = b
    BY <2>2, OneActiveNow
  <2> QED BY <2>1, <2>2, <2>3 DEF NumbersDiffer, OneActiveRule
<1> QED BY <1>1, <1>2, <1>4, <1>5, <1>6, EditorMoves

LEMMA SaveTuningProposalKeeps ==
  ASSUME RulesInv, NEW e \in Editors, NEW name, NEW target, SaveTuningProposal(e, name, target)
  PROVE  RulesInv'
<1>1. /\ editor[e].pc = "propose" /\ editor' = [editor EXCEPT ![e] = IdleEditor]
      /\ UNCHANGED <<ruleRows, versionsMade, activity, calibration, disturbed>>
  BY DEF SaveTuningProposal, Quiet, Set
<1>2. EditorFits(e) /\ EditorBusy(e) BY <1>1, EditorKnown DEF EditorBusy
<1>3. PICK run : run = editor[e].run OBVIOUS
<1>4. PICK loaded : loaded = editor[e].loaded OBVIOUS
<1>5. loaded # {} /\ \A c \in loaded : KnownRule(c) BY <1>1, <1>2, <1>4 DEF EditorFits, StateChanges
<1>6. TuningSource(loaded, name, run) \subseteq loaded
  <2>1. MaxRuleVersions \in Nat BY UebaRulesAssumption
  <2>2. \A c \in loaded : c.name \in Nat /\ c.version \in Nat
    BY <1>5, <2>1, NamesKnown DEF KnownRule, SoundRule, UebaRecord
  <2> QED BY <1>5, <2>2, SourceFound
<1>7. CASE UNCHANGED proposals
  <2>1. ProposalsFit' /\ ProposalsGrow
    BY <1>1, <1>7 DEF RulesInv, ProposalsFit, ProposalFits, ProposalsGrow
  <2> QED BY <1>1, <1>2, <2>1, ProposalStored
<1>8. CASE \E source \in TuningSource(loaded, name, run) :
             proposals' = Upsert(proposals, Cardinality(DOMAIN proposals) + 1,
               [status |-> "proposed", source |-> source.id, applied |-> NoRule,
                threshold |-> ProposedThreshold(source, run, target),
                from |-> source.threshold, hits |-> run[source.name], target |-> target])
  <2>1. PICK source \in loaded :
          proposals' = Upsert(proposals, Cardinality(DOMAIN proposals) + 1,
            [status |-> "proposed", source |-> source.id, applied |-> NoRule,
             threshold |-> ProposedThreshold(source, run, target),
             from |-> source.threshold, hits |-> run[source.name], target |-> target])
    BY <1>6, <1>8
  <2>2. PICK x : x = [status |-> "proposed", source |-> source.id, applied |-> NoRule,
                      threshold |-> ProposedThreshold(source, run, target),
                      from |-> source.threshold, hits |-> run[source.name], target |-> target]
    OBVIOUS
  <2>3. PICK k \in Nat : DOMAIN proposals = 1..k BY DEF RulesInv, ProposalsFit
  <2>4. Cardinality(DOMAIN proposals) = k
    <3>1. Cardinality(1..k) = k BY <2>3, FS_Interval
    <3> QED BY <2>3, <3>1
  <2>5. k + 1 \notin DOMAIN proposals /\ DOMAIN proposals \cup {k + 1} = 1..(k + 1) BY <2>3
  <2>6. proposals' = [p \in 1..(k + 1) |-> IF p = k + 1 THEN x ELSE proposals[p]]
    BY <2>1, <2>2, <2>4, <2>5 DEF Upsert
  <2>7. /\ proposals' = [p \in DOMAIN proposals' |-> proposals'[p]]
        /\ DOMAIN proposals' = 1..(k + 1) /\ proposals'[k + 1] = x
        /\ \A p \in DOMAIN proposals : proposals'[p] = proposals[p]
    BY <2>3, <2>5, <2>6
  <2>8. KnownRule(source) /\ source.threshold \in Nat \ {0} BY <1>5 DEF KnownRule, SoundRule, UebaRecord
  <2>9. ProposalFits(k + 1)'
    <3>1. x.threshold \in Nat \ {0} BY <2>2, <2>8, ProposedPositive
    <3>2. source.id \in RuleIds /\ source.id \in DOMAIN ruleRows'
      BY <1>1, <2>8 DEF KnownRule, SoundRule, UebaRecord
    <3>3. /\ x \in [status : {"proposed", "applied"}, source : RuleIds, applied : {NoRule} \cup RuleIds,
                    threshold : Nat \ {0}, from : {x.from}, hits : {x.hits}, target : {x.target}]
          /\ x.source = source.id /\ x.status = "proposed" /\ x.applied = NoRule
      BY <2>2, <3>1, <3>2
    <3> QED BY <2>7, <3>2, <3>3 DEF ProposalFits
  <2>10. ASSUME NEW p \in DOMAIN proposals PROVE ProposalFits(p)'
    <3>1. ProposalFits(p) BY DEF RulesInv, ProposalsFit
    <3> QED BY <1>1, <2>7, <3>1 DEF ProposalFits
  <2>11. ProposalsFit'
    <3>1. \A p \in DOMAIN proposals' : p \in DOMAIN proposals \/ p = k + 1 BY <2>5, <2>7
    <3>2. k + 1 \in Nat BY <2>3
    <3> QED BY <2>7, <2>9, <2>10, <3>1, <3>2 DEF ProposalsFit
  <2>12. ProposalsGrow BY <2>5, <2>7 DEF ProposalsGrow
  <2> QED BY <1>1, <1>2, <2>11, <2>12, ProposalStored
<1> QED BY <1>3, <1>4, <1>7, <1>8 DEF SaveTuningProposal

LEMMA SaveAppliedProposalKeeps ==
  ASSUME RulesInv, NEW e \in Editors, SaveAppliedProposal(e)
  PROVE  RulesInv'
<1>1. PICK q : q = editor[e].proposal OBVIOUS
<1>2. PICK c \in editor[e].row :
        proposals' = [proposals EXCEPT ![q].status = "applied", ![q].applied = c.id]
  BY <1>1 DEF SaveAppliedProposal
<1>3. /\ editor[e].pc = "apply" /\ editor' = [editor EXCEPT ![e] = IdleEditor]
      /\ UNCHANGED <<ruleRows, versionsMade, activity, calibration, disturbed>>
  BY DEF SaveAppliedProposal, Quiet, Set
<1>4. EditorFits(e) /\ EditorBusy(e) BY <1>3, EditorKnown DEF EditorBusy
<1>5. /\ q \in DOMAIN proposals /\ KnownRule(c)
      /\ c.base = proposals[q].source /\ c.threshold = proposals[q].threshold
  BY <1>1, <1>3, <1>4 DEF EditorFits
<1>6. /\ c.id \in RuleIds /\ c.id # NoRule /\ c.id \in DOMAIN ruleRows
      /\ ruleRows[c.id].base = c.base /\ ruleRows[c.id].threshold = c.threshold
  <2>1. 0 \notin RuleIds BY DEF RuleIds
  <2> QED BY <1>5, <2>1 DEF KnownRule, SoundRule, UebaRecord, SameRule, NoRule
<1>7. PICK x : x = proposals[q] OBVIOUS
<1>8. ProposalFits(q) /\ proposals = [p \in DOMAIN proposals |-> proposals[p]]
  BY <1>5 DEF RulesInv, ProposalsFit
<1>9. PICK y : y = [x EXCEPT !.status = "applied", !.applied = c.id] OBVIOUS
<1>10. /\ y \in [status : {"proposed", "applied"}, source : RuleIds, applied : {NoRule} \cup RuleIds,
                 threshold : Nat \ {0}, from : {y.from}, hits : {y.hits}, target : {y.target}]
       /\ y.status = "applied" /\ y.applied = c.id /\ y.source = x.source /\ y.threshold = x.threshold
       /\ x.source \in DOMAIN ruleRows
  BY <1>6, <1>7, <1>8, <1>9 DEF ProposalFits
<1>11. /\ DOMAIN proposals' = DOMAIN proposals /\ proposals'[q] = y
       /\ proposals' = [p \in DOMAIN proposals |-> proposals'[p]]
       /\ \A p \in DOMAIN proposals \ {q} : proposals'[p] = proposals[p]
  BY <1>2, <1>5, <1>7, <1>8, <1>9
<1>12. ProposalFits(q)' BY <1>3, <1>5, <1>6, <1>7, <1>10, <1>11 DEF ProposalFits
<1>13. ASSUME NEW p \in DOMAIN proposals, p # q PROVE ProposalFits(p)'
  <2>1. ProposalFits(p) BY DEF RulesInv, ProposalsFit
  <2> QED BY <1>3, <1>11, <1>13, <2>1 DEF ProposalFits
<1>14. ProposalsFit' BY <1>11, <1>12, <1>13 DEF RulesInv, ProposalsFit
<1>15. ProposalsGrow BY <1>7, <1>10, <1>11 DEF ProposalsGrow
<1> QED BY <1>3, <1>4, <1>14, <1>15, ProposalStored

----
(* Rules: the theorems. *)

LEMMA RulesStutterInv ==
  ASSUME RulesInv, UNCHANGED rulesVars
  PROVE  RulesInv'
<1>1. /\ ruleRows' = ruleRows /\ proposals' = proposals /\ calibration' = calibration
      /\ activity' = activity /\ editor' = editor /\ versionsMade' = versionsMade
      /\ disturbed' = disturbed
  BY DEF rulesVars
<1>2. RowsFit' BY <1>1 DEF RulesInv, RowsFit, SoundRule, BaseFits, SameRule
<1>3. ProposalsFit' BY <1>1 DEF RulesInv, ProposalsFit, ProposalFits
<1>4. CalibrationFits' BY <1>1, CalibrationKept
<1>5. EditorsFit'
  BY <1>1 DEF RulesInv, EditorsFit, EditorFits, EditorShape, KnownRule, NewRule, SoundRule,
              BaseFits, SameRule
<1>6. StoredRules' = StoredRules /\ \A a, b : BeingActivated(a, b)' = BeingActivated(a, b)
  BY <1>1 DEF StoredRules, BeingActivated
<1>7. OneAfterTheOther'
  <2>1. SUFFICES ASSUME ~disturbed' PROVE OneAfterTheOther' BY DEF OneAfterTheOther
  <2>2. OneAfterTheOther /\ ~disturbed BY <1>1, <2>1 DEF RulesInv
  <2>3. \A e \in Editors : AloneInOrder(e)'
    BY <1>1, <1>6, <2>2 DEF OneAfterTheOther, AloneInOrder, SameRule
  <2>4. NumbersDiffer' /\ OneActiveRule' BY <1>6, <2>2 DEF OneAfterTheOther, NumbersDiffer, OneActiveRule
  <2>5. \A e, f \in Editors : EditorBusy(e)' /\ EditorBusy(f)' => e = f
    BY <1>1, <2>2 DEF OneAfterTheOther, EditorBusy
  <2> QED BY <2>1, <2>3, <2>4, <2>5 DEF OneAfterTheOther
<1> QED BY <1>2, <1>3, <1>4, <1>5, <1>7 DEF RulesInv

LEMMA RulesNextInv ==
  ASSUME RulesInv, [RulesNext]_rulesVars
  PROVE  RulesInv'
<1>1. CASE UNCHANGED rulesVars BY <1>1, RulesStutterInv
<1>2. CASE RulesNext
  <2>1. PICK e \in Editors : RuleStep(e) BY <1>2 DEF RulesNext
  <2>2. ASSUME NEW op \in RuleOps \cup StateChanges, NEW p \in {NoRule} \cup DOMAIN proposals,
               StartRequest(e, op, p)
        PROVE  RulesInv'
    BY <2>2, StartRequestKeeps
  <2>3. CASE LoadOrSeedRules(e)
    <3>1. CASE UNCHANGED ruleRows BY <2>3, <3>1, LoadOrSeedKeeps
    <3>2. CASE /\ StoredRules = {} /\ rulesMode = "memory"
               /\ ruleRows' = [n \in NameIds |-> DefaultRule(n)]
               /\ Set(e, [editor[e] EXCEPT !.pc = "act",
                            !.loaded = {DefaultRule(n) : n \in NameIds}])
      BY <2>3, <3>2, SeedInMemoryKeeps DEF Set
    <3> QED BY <2>3, <3>1, <3>2 DEF LoadOrSeedRules
  <2>4. CASE SeedRule(e) BY <2>4, SeedRuleKeeps
  <2>5. CASE RulesSeeded(e) BY <2>5, RulesSeededKeeps
  <2>6. CASE ListRules(e) \/ RuleNotFound(e) BY <2>6, LookingKeeps
  <2>7. ASSUME NEW n \in NameIds, NEW active \in BOOLEAN, NEW t \in Thresholds,
               BuildCreatedRule(e, n, active, t)
        PROVE  RulesInv'
    BY <2>7, BuildCreatedKeeps
  <2>8. ASSUME NEW r \in editor[e].loaded, NEW active \in BOOLEAN, NEW t \in Thresholds,
               BuildTunedRule(e, r, active, t)
        PROVE  RulesInv'
    BY <2>8, BuildTunedKeeps
  <2>9. ASSUME NEW active \in BOOLEAN, BuildProposedRule(e, active) PROVE RulesInv'
    BY <2>9, BuildProposedKeeps
  <2>10. CASE SaveRuleVersion(e) BY <2>10, SaveRuleVersionKeeps
  <2>11. CASE ActivateRule(e) BY <2>11, ActivateRuleKeeps
  <2>12. CASE RetireOther(e) BY <2>12, RetireOtherKeeps
  <2>13. CASE SaveActivated(e) BY <2>13, SaveActivatedKeeps
  <2>14. CASE ActivateInMemory(e) BY <2>14, ActivateInMemoryKeeps
  <2>15. ASSUME NEW id \in DOMAIN ruleRows, ChangeRuleState(e, id) PROVE RulesInv'
    BY <2>15, ChangeRuleStateKeeps
  <2>16. ASSUME NEW id \in DOMAIN ruleRows, ChangeRuleStateInMemory(e, id) PROVE RulesInv'
    BY <2>16, ChangeInMemoryKeeps
  <2>17. CASE PutRule(e) BY <2>17, PutRuleKeeps
  <2>18. CASE \E names \in {NameIds} \cup {{n} : n \in NameIds} : RunReplay(e, names)
    <3>1. editor[e].op \in {"replay", "propose"} BY <2>18 DEF RunReplay
    <3> QED BY <2>18, <3>1, LookingKeeps, ReplayKeeps
  <2>19. CASE LoadReplay(e)
    <3>1. editor[e].op = "propose" BY <2>19 DEF LoadReplay
    <3> QED BY <2>19, <3>1, ReplayKeeps
  <2>20. ASSUME NEW n \in NameIds, NEW target \in Targets, SaveTuningProposal(e, n, target)
         PROVE  RulesInv'
    BY <2>20, SaveTuningProposalKeeps
  <2>21. CASE SaveAppliedProposal(e) BY <2>21, SaveAppliedProposalKeeps
  <2>22. CASE RunCalibration(e) BY <2>22, RunCalibrationKeeps
  <2>23. CASE RequestFails(e) BY <2>23, RequestFailsKeeps
  <2> QED BY <2>1, <2>2, <2>3, <2>4, <2>5, <2>6, <2>7, <2>8, <2>9, <2>10, <2>11, <2>12, <2>13,
             <2>14, <2>15, <2>16, <2>17, <2>18, <2>19, <2>20, <2>21, <2>22, <2>23 DEF RuleStep
<1> QED BY <1>1, <1>2

\* The invariant of the rules holds always.
THEOREM RulesInvHolds == RulesSpec => []RulesInv
<1>1. RulesInit => RulesInv BY RulesInitInv
<1>2. RulesInv /\ [RulesNext]_rulesVars => RulesInv' BY RulesNextInv
<1> QED BY <1>1, <1>2, PTL DEF RulesSpec

LEMMA RulesSoundFollows == ASSUME RulesInv PROVE RulesSound
<1>1. RulesTypeOK
  <2>1. /\ Len(RuleNames) \in Nat /\ MaxRuleVersions \in Nat /\ versionsMade \in 0..MaxRuleVersions
    BY UebaRulesAssumption DEF RulesInv, RowsFit
  <2>2. DOMAIN ruleRows \subseteq RuleIds BY <2>1 DEF RulesInv, RowsFit, RuleIds
  <2>3. ASSUME NEW id \in DOMAIN ruleRows
        PROVE  LET stored == ruleRows[id]
               IN  /\ stored.id = id /\ stored.name \in NameIds /\ stored.version \in 1..MaxRuleVersions + 1
                   /\ stored.status \in {"draft", "active", "retired"}
                   /\ stored.status = "retired" => ~stored.enabled
                   /\ stored.threshold > 0
                   /\ stored.base # NoRule => /\ stored.base \in DOMAIN ruleRows
                                           /\ ruleRows[stored.base].name = stored.name
                                           /\ ruleRows[stored.base].version < stored.version
    <3>1. ruleRows[id].id = id /\ SoundRule(ruleRows[id]) /\ BaseFits(ruleRows[id])
      BY DEF RulesInv, RowsFit
    <3>2. ruleRows[id].threshold > 0 BY <3>1 DEF SoundRule, UebaRecord
    <3> QED BY <3>1, <3>2 DEF SoundRule, UebaRecord, BaseFits
  <2>4. \A p \in DOMAIN proposals :
          /\ proposals[p].source \in DOMAIN ruleRows
          /\ (proposals[p].status = "applied") = (proposals[p].applied # NoRule)
    BY DEF RulesInv, ProposalsFit, ProposalFits
  <2>5. \A e \in Editors : editor[e].pc \in RuleSteps BY EditorKnown DEF EditorShape
  <2> QED BY <2>2, <2>3, <2>4, <2>5 DEF RulesTypeOK, RuleSteps
<1>2. RulesOrderly
  <2>1. SUFFICES ASSUME ~disturbed, \A e \in Editors : editor[e].pc = "idle"
                 PROVE  \A a, b \in StoredRules :
                          a # b /\ a.name = b.name =>
                            /\ a.version # b.version
                            /\ ~(a.status = "active" /\ b.status = "active")
    BY DEF RulesOrderly
  <2>2. \A a, b : ~BeingActivated(a, b) BY <2>1 DEF BeingActivated
  <2>3. NumbersDiffer /\ OneActiveRule BY <2>1 DEF RulesInv, OneAfterTheOther
  <2> QED BY <2>2, <2>3 DEF NumbersDiffer, OneActiveRule
<1>3. AppliedProposals
  <2>1. ASSUME NEW p \in DOMAIN proposals, proposals[p].status = "applied"
        PROVE  /\ proposals[p].applied \in DOMAIN ruleRows
               /\ ruleRows[proposals[p].applied].base = proposals[p].source
               /\ ruleRows[proposals[p].applied].threshold = proposals[p].threshold
    <3>1. ProposalFits(p) BY DEF RulesInv, ProposalsFit
    <3> QED BY <2>1, <3>1 DEF ProposalFits
  <2> QED BY <2>1 DEF AppliedProposals
<1>4. CalibrationSelective
  <2>1. SUFFICES ASSUME calibration # <<>>, NEW n \in NameIds
                 PROVE  2 * Cardinality({u \in DOMAIN activity[n] : activity[n][u] >= calibration[n]})
                          <= Len(activity[n])
    BY DEF CalibrationSelective
  <2>2. activity[n] \in Seq(Nat) /\ calibration[n] = Calibrated(activity[n])
    BY <2>1, UebaRulesAssumption DEF RulesInv, CalibrationFits, NameIds
  <2> QED BY <2>2, CalibratedSelective
<1> QED BY <1>1, <1>2, <1>3, <1>4 DEF RulesSound

\* One active version of a rule where requests do not overlap, applied
\* proposals that name what was made of them, and selective calibrations.
THEOREM RulesSoundHolds == RulesSpec => []RulesSound
BY RulesInvHolds, RulesSoundFollows, PTL
=============================================================================
