----------------------- MODULE AdapterSchedulerProofs -----------------------
(* Theorems about the adapter scheduler, for any tasks, sources and bounds. *)
EXTENDS AdapterScheduler, FiniteSetTheorems, TLAPS

USE DEF At, Goto, FreshSelect

LEMMA SaturatingPredType ==
  ASSUME NEW n \in Nat PROVE SaturatingPred(n) \in Nat
BY DEF SaturatingPred

LEMMA BreakerTypes ==
  ASSUME NEW b \in Breaker
  PROVE  /\ RecordFailure(b) \in Breaker
         /\ SourceSnapshot(b) \in Snapshot
         /\ BackoffElapsed(b) \in Breaker
         /\ NoFailures \in Breaker
BY ThresholdAssumption
   DEF Breaker, Snapshot, RecordFailure, SourceSnapshot, BackoffElapsed,
       NoFailures, Allow

LEMMA RecordTypes ==
  /\ \A n \in 0..MaxRegistrations : RegisteredRecord(n) \in Runtime
  /\ AbsentRecord \in Runtime
  /\ StartedRecord \in Runtime
  /\ IdleAdmin \in AdminCall
BY SchedulerAssumption
   DEF RegisteredRecord, AbsentRecord, StartedRecord, IdleAdmin, Runtime,
       RuntimeState, AdminCall

\* Every update of a runtime record yields a runtime record.
LEMMA UpdateTypes ==
  ASSUME NEW r \in Runtime, NEW c \in Snapshot, NEW st
  PROVE  /\ st \in RuntimeState => WithState(r, st) \in Runtime
         /\ CountSubmission(r, c) \in Runtime
         /\ CountRejected(r, c) \in Runtime
         /\ CountRunning(r) \in Runtime
         /\ CountCompleted(r, c) \in Runtime
         /\ CountFailed(r, c) \in Runtime
         /\ CountCancelled(r, st) \in Runtime
<1>1. \A n \in Nat : SaturatingPred(n) \in Nat /\ n + 1 \in Nat BY SaturatingPredType
<1>2. /\ r.queued + 1 \in Nat /\ SaturatingPred(r.queued) \in Nat
      /\ r.running + 1 \in Nat /\ SaturatingPred(r.running) \in Nat
      /\ r.completed + 1 \in Nat /\ r.failed + 1 \in Nat
      /\ r.cancelled + 1 \in Nat /\ r.submitted + 1 \in Nat
  BY <1>1 DEF Runtime
<1>3. st \in RuntimeState => WithState(r, st) \in Runtime BY DEF WithState, Runtime
<1>4. CountSubmission(r, c) \in Runtime BY <1>2 DEF CountSubmission, Runtime, RuntimeState
<1>5. CountRejected(r, c) \in Runtime BY <1>2 DEF CountRejected, Runtime, RuntimeState
<1>6. CountRunning(r) \in Runtime BY <1>2 DEF CountRunning, Runtime
<1>7. CountCompleted(r, c) \in Runtime BY <1>2 DEF CountCompleted, Runtime, RuntimeState
<1>8. CountFailed(r, c) \in Runtime BY <1>2 DEF CountFailed, FailureState, Runtime, RuntimeState
<1>9. CountCancelled(r, st) \in Runtime BY <1>2 DEF CountCancelled, Runtime
<1> QED BY <1>3, <1>4, <1>5, <1>6, <1>7, <1>8, <1>9

\* Taking or giving back a permit of a semaphore keeps the counts natural.
LEMMA PermitTypes ==
  ASSUME NEW p \in [1..MaxRegistrations -> Nat], NEW n
  PROVE  /\ p[n] > 0 => [p EXCEPT ![n] = p[n] - 1] \in [1..MaxRegistrations -> Nat]
         /\ [p EXCEPT ![n] = p[n] + 1] \in [1..MaxRegistrations -> Nat]
<1>1. CASE n \in 1..MaxRegistrations
  <2>1. p[n] + 1 \in Nat /\ (p[n] > 0 => p[n] - 1 \in Nat) BY <1>1
  <2> QED BY <1>1, <2>1
<1>2. CASE n \notin 1..MaxRegistrations BY <1>2
<1> QED BY <1>1, <1>2

LEMMA InitTypeOK == Init => TypeOK
<1> SUFFICES ASSUME Init PROVE TypeOK OBVIOUS
<1> USE RecordTypes, BreakerTypes, SchedulerAssumption DEF Init
<1>1. NoFailures \in Breaker /\ SourceSnapshot(NoFailures) \in Snapshot BY ThresholdAssumption
     DEF NoFailures, Breaker, SourceSnapshot, Snapshot, Allow
<1>2. runtime \in [Sources -> Runtime] OBVIOUS
<1>3. permits \in [Sources -> [1..MaxRegistrations -> Nat]] OBVIOUS
<1> QED BY <1>1, <1>2, <1>3 DEF TypeOK, QueryState, Location

\* One step of execute_query keeps the types.
LEMMA QueryTypeOK ==
  ASSUME TypeOK, NEW t \in Tasks,
         CreateTaskRecord(t) \/ AcquirePermit(t) \/ TaskStep(t)
  PROVE  TypeOK'
<1> USE BreakerTypes, SchedulerAssumption
<1> USE DEF TypeOK, QueryState, Location, schedVars, UpdateRuntime
<1>0. /\ target[t] \in Sources /\ runtime[target[t]] \in Runtime
      /\ snap[t] \in Snapshot /\ breaker[target[t]] \in Breaker
  OBVIOUS
<1>1. CASE CreateTaskRecord(t) BY <1>1 DEF CreateTaskRecord
<1>2. CASE AcquirePermit(t)
  <2>1. permits' \in [Sources -> [1..MaxRegistrations -> Nat]]
    <3>1. [permits[target[t]] EXCEPT ![sem[t]] = permits[target[t]][sem[t]] - 1]
            \in [1..MaxRegistrations -> Nat]
      BY <1>2, <1>0, PermitTypes DEF AcquirePermit
    <3> QED BY <1>2, <3>1, <1>0 DEF AcquirePermit
  <2> QED BY <1>2, <2>1 DEF AcquirePermit
<1>3. CASE ReadCircuit(t) BY <1>3 DEF ReadCircuit, TakeSnapshot
<1>4. CASE ReserveRuntimeSlot(t)
  <2>1. /\ WithState(runtime[target[t]], "Unavailable") \in Runtime
        /\ CountSubmission(runtime[target[t]], snap[t]) \in Runtime
    BY <1>0, UpdateTypes DEF RuntimeState
  <2>2. runtime' \in [Sources -> Runtime] BY <1>4, <1>0, <2>1 DEF ReserveRuntimeSlot
  <2> QED BY <1>4, <2>2, <1>0 DEF ReserveRuntimeSlot, Runtime
<1>5. CASE MarkTaskFailedWithoutRuntime(t) BY <1>5 DEF MarkTaskFailedWithoutRuntime
<1>6. CASE MarkTaskRejected(t) BY <1>6 DEF MarkTaskRejected, TakeSnapshot
<1>7. CASE CountRejection(t)
  <2>1. runtime' \in [Sources -> Runtime] BY <1>7, <1>0, UpdateTypes DEF CountRejection
  <2> QED BY <1>7, <2>1, <1>0 DEF CountRejection
<1>8. CASE CheckCancelled(t) BY <1>8 DEF CheckCancelled
<1>9. CASE RegisterWaiter(t) BY <1>9 DEF RegisterWaiter
<1>10. CASE CancelBranch(t) BY <1>10 DEF CancelBranch
<1>11. CASE MarkTaskRunning(t)
  <2>1. runtime' \in [Sources -> Runtime] BY <1>11, <1>0, UpdateTypes DEF MarkTaskRunning
  <2> QED BY <1>11, <2>1, <1>0 DEF MarkTaskRunning
<1>12. CASE BeginAttempt(t)
  <2>1. attempts[t] + 1 \in Nat /\ late[t] + 1 \in Nat OBVIOUS
  <2>2. (IF cancelled[t] THEN late[t] + 1 ELSE late[t]) \in Nat BY <2>1
  <2>3. late' \in [Tasks -> Nat] BY <1>12, <2>2 DEF BeginAttempt
  <2> QED BY <1>12, <2>1, <2>3 DEF BeginAttempt
<1>13. CASE AttemptSucceeds(t) BY <1>13 DEF AttemptSucceeds
<1>14. CASE AttemptFails(t)
  <2>1. breaker' \in [Sources -> Breaker] BY <1>14, <1>0 DEF AttemptFails
  <2>2. breaker'[target[t]] \in Breaker BY <1>0, <2>1
  <2>3. SourceSnapshot(breaker'[target[t]]) \in Snapshot BY <2>2
  <2>4. snap' \in [Tasks -> Snapshot] BY <1>14, <2>3 DEF AttemptFails
  <2>5. pc' \in [Tasks -> Location] BY <1>14 DEF AttemptFails
  <2> QED BY <1>14, <2>1, <2>4, <2>5 DEF AttemptFails
<1>15. CASE AfterFailure(t)
  <2>1. runtime' \in [Sources -> Runtime]
    BY <1>15, <1>0, UpdateTypes DEF AfterFailure, FailureState, RuntimeState
  <2> QED BY <1>15, <2>1, <1>0 DEF AfterFailure
<1>16. CASE BackoffOver(t) BY <1>16 DEF BackoffOver
<1>17. CASE MarkTaskCompleted(t) BY <1>17 DEF MarkTaskCompleted, TakeSnapshot
<1>18. CASE CountCompletion(t)
  <2>1. runtime' \in [Sources -> Runtime] BY <1>18, <1>0, UpdateTypes DEF CountCompletion
  <2> QED BY <1>18, <2>1, <1>0 DEF CountCompletion
<1>19. CASE MarkTaskFailed(t) BY <1>19 DEF MarkTaskFailed, TakeSnapshot
<1>20. CASE CountFailure(t)
  <2>1. runtime' \in [Sources -> Runtime] BY <1>20, <1>0, UpdateTypes DEF CountFailure
  <2> QED BY <1>20, <2>1, <1>0 DEF CountFailure
<1>21. CASE MarkTaskCancelled(t)
  <2>1. runtime' \in [Sources -> Runtime] BY <1>21, <1>0, UpdateTypes DEF MarkTaskCancelled
  <2> QED BY <1>21, <2>1, <1>0 DEF MarkTaskCancelled
<1>22. CASE ReleasePermit(t)
  <2>1. permits' \in [Sources -> [1..MaxRegistrations -> Nat]]
    <3>1. [permits[target[t]] EXCEPT ![sem[t]] = permits[target[t]][sem[t]] + 1]
            \in [1..MaxRegistrations -> Nat]
      BY <1>22, <1>0, PermitTypes DEF ReleasePermit
    <3> QED BY <1>22, <3>1, <1>0 DEF ReleasePermit
  <2> QED BY <1>22, <2>1 DEF ReleasePermit
<1> QED BY <1>1, <1>2, <1>3, <1>4, <1>5, <1>6, <1>7, <1>8, <1>9, <1>10, <1>11,
     <1>12, <1>13, <1>14, <1>15, <1>16, <1>17, <1>18, <1>19, <1>20, <1>21,
     <1>22
  DEF TaskStep

\* One step of a user, an administrator or the clock keeps the types.
LEMMA EnvironmentTypeOK ==
  ASSUME TypeOK,
         \/ \E t \in Tasks : CancelTask(t)
         \/ \E a \in Admins : AdminStep(a)
         \/ \E s \in Sources : RegisterAdapter(s) \/ BackoffElapses(s)
  PROVE  TypeOK'
<1> USE BreakerTypes, SchedulerAssumption
<1> USE DEF TypeOK, schedVars
<1>1. ASSUME NEW t \in Tasks, CancelTask(t) PROVE TypeOK' BY <1>1 DEF CancelTask, Cancel
<1>2. ASSUME NEW s \in Sources, RegisterAdapter(s) PROVE TypeOK'
  <2>1. runtime[s].epoch + 1 \in 0..MaxRegistrations
    <3>1. runtime[s].epoch \in 0..MaxRegistrations BY DEF Runtime
    <3> QED BY <1>2, <3>1 DEF RegisterAdapter
  <2>2. runtime' \in [Sources -> Runtime]
    <3>1. RegisteredRecord(runtime[s].epoch + 1) \in Runtime BY <2>1, RecordTypes
    <3> QED BY <1>2, <3>1 DEF RegisterAdapter
  <2> QED BY <1>2, <2>2 DEF RegisterAdapter
<1>3. ASSUME NEW s \in Sources, BackoffElapses(s) PROVE TypeOK' BY <1>3 DEF BackoffElapses
<1>4. ASSUME NEW a \in Admins, AdminStep(a) PROVE TypeOK'
  <2>1. /\ \A s \in Sources, S \in SUBSET RuntimeState :
              SetState(s, S) => runtime' \in [Sources -> Runtime]
    <3>1. ASSUME NEW r \in Runtime, NEW st \in RuntimeState
          PROVE  WithState(r, st) \in Runtime
      BY DEF WithState, Runtime
    <3>2. ASSUME NEW s \in Sources, NEW st \in RuntimeState,
                 runtime' = [runtime EXCEPT ![s] = WithState(runtime[s], st)]
          PROVE  runtime' \in [Sources -> Runtime]
      BY <3>1, <3>2
    <3> QED BY <3>2 DEF SetState
  <2>2. \A op, s, f : [op |-> op, source |-> s, found |-> f] \in AdminCall
                        /\ Calls(a, op, s, f) => admin' \in [Admins -> AdminCall]
    BY DEF Calls
  <2>3. Returns(a) => admin' \in [Admins -> AdminCall] BY RecordTypes DEF Returns
  <2>4. admin[a].source \in Sources /\ admin[a].found \in RuntimeState BY DEF AdminCall
  <2>5. ASSUME NEW s \in Sources, StartAdapter(a, s) PROVE TypeOK'
    BY <2>5, <2>1, <2>2 DEF StartAdapter, AdminCall, RuntimeState
  <2>6. ASSUME NEW s \in Sources, StopAdapter(a, s) PROVE TypeOK'
    BY <2>6, <2>1, <2>2 DEF StopAdapter, AdminCall, RuntimeState
  <2>7. ASSUME NEW s \in Sources, RefreshHealth(a, s) PROVE TypeOK'
    BY <2>7, <2>2 DEF RefreshHealth, AdminCall, Runtime, RuntimeState
  <2>8. CASE StartDone(a) BY <2>8, <2>1, <2>3, <2>4 DEF StartDone, RuntimeState
  <2>9. CASE StopCancelTasks(a) BY <2>9, <2>2, <2>4 DEF StopCancelTasks, Cancel, AdminCall, RuntimeState
  <2>10. CASE StopDone(a) BY <2>10, <2>1, <2>3, <2>4 DEF StopDone, RuntimeState
  <2>11. CASE RefreshProbe(a) BY <2>11, <2>2, <2>4 DEF RefreshProbe, ProbedState, AdminCall, RuntimeState
  <2>12. CASE RefreshDone(a) BY <2>12, <2>1, <2>3, <2>4 DEF RefreshDone
  <2> QED BY <1>4, <2>5, <2>6, <2>7, <2>8, <2>9, <2>10, <2>11, <2>12 DEF AdminStep
<1> QED BY <1>1, <1>2, <1>3, <1>4

LEMMA NextTypeOK == TypeOK /\ [Next]_vars => TypeOK'
<1> SUFFICES ASSUME TypeOK, [Next]_vars PROVE TypeOK' OBVIOUS
<1>1. CASE UNCHANGED vars BY <1>1 DEF vars, TypeOK
<1>2. CASE Next BY <1>2, QueryTypeOK, EnvironmentTypeOK DEF Next
<1> QED BY <1>1, <1>2

\* The state of the scheduler keeps its types: no counter, gauge or permit
\* count ever underflows.
THEOREM TypeCorrect == Spec => []TypeOK
<1>1. Init => TypeOK BY InitTypeOK
<1>2. TypeOK /\ [Next]_vars => TypeOK' BY NextTypeOK
<1> QED BY <1>1, <1>2, PTL DEF Spec

----
(* The steps of users, administrators and the clock leave alone the state  *)
(* these invariants speak of, except for the flag and the waiters that     *)
(* Cancel sets.                                                            *)

LEMMA EnvironmentFrame ==
  ASSUME TypeOK,
         \/ \E t \in Tasks : CancelTask(t)
         \/ \E a \in Admins : AdminStep(a)
         \/ \E s \in Sources : RegisterAdapter(s) \/ BackoffElapses(s)
  PROVE  /\ UNCHANGED <<permits, tstate, attempts, pc, target, sem, late>>
         /\ \A t \in Tasks : /\ cancelled[t] => cancelled'[t]
                             /\ wait[t] = "unchecked" => wait'[t] = "unchecked"
<1>1. ASSUME NEW t \in Tasks, CancelTask(t)
      PROVE  /\ UNCHANGED <<permits, tstate, attempts, pc, target, sem, late>>
             /\ \E C : Cancel(C)
  BY <1>1 DEF CancelTask
<1>2. ASSUME NEW a \in Admins, AdminStep(a)
      PROVE  /\ UNCHANGED <<permits, tstate, attempts, pc, target, sem, late>>
             /\ UNCHANGED <<cancelled, wait>> \/ \E C : Cancel(C)
  BY <1>2 DEF AdminStep, StartAdapter, StopAdapter, RefreshHealth, StartDone,
              StopCancelTasks, StopDone, RefreshProbe, RefreshDone, schedVars
<1>3. ASSUME NEW s \in Sources, RegisterAdapter(s) \/ BackoffElapses(s)
      PROVE  /\ UNCHANGED <<permits, tstate, attempts, pc, target, sem, late>>
             /\ UNCHANGED <<cancelled, wait>>
  BY <1>3 DEF RegisterAdapter, BackoffElapses
<1>4. ASSUME NEW C, Cancel(C)
      PROVE  \A t \in Tasks : /\ cancelled[t] => cancelled'[t]
                              /\ wait[t] = "unchecked" => wait'[t] = "unchecked"
  BY <1>4 DEF Cancel, TypeOK
<1> QED BY <1>1, <1>2, <1>3, <1>4

----
LEMMA QueryLocation ==
  ASSUME TypeOK, LocationMatchesState, NEW t \in Tasks,
         CreateTaskRecord(t) \/ AcquirePermit(t) \/ TaskStep(t)
  PROVE  LocationMatchesState'
<1> USE DEF LocationMatchesState, TypeOK, schedVars, Selecting
<1>1. CASE CreateTaskRecord(t) BY <1>1 DEF CreateTaskRecord
<1>2. CASE AcquirePermit(t) BY <1>2 DEF AcquirePermit
<1>3. CASE ReadCircuit(t) BY <1>3 DEF ReadCircuit
<1>4. CASE ReserveRuntimeSlot(t) BY <1>4 DEF ReserveRuntimeSlot
<1>5. CASE MarkTaskFailedWithoutRuntime(t) BY <1>5 DEF MarkTaskFailedWithoutRuntime
<1>6. CASE MarkTaskRejected(t) BY <1>6 DEF MarkTaskRejected
<1>7. CASE CountRejection(t) BY <1>7 DEF CountRejection
<1>8. CASE CheckCancelled(t) BY <1>8 DEF CheckCancelled
<1>9. CASE RegisterWaiter(t) BY <1>9 DEF RegisterWaiter
<1>10. CASE CancelBranch(t) BY <1>10 DEF CancelBranch
<1>11. CASE MarkTaskRunning(t) BY <1>11 DEF MarkTaskRunning
<1>12. CASE BeginAttempt(t) BY <1>12 DEF BeginAttempt
<1>13. CASE AttemptSucceeds(t) BY <1>13 DEF AttemptSucceeds
<1>14. CASE AttemptFails(t) BY <1>14 DEF AttemptFails
<1>15. CASE AfterFailure(t) BY <1>15 DEF AfterFailure
<1>16. CASE BackoffOver(t) BY <1>16 DEF BackoffOver
<1>17. CASE MarkTaskCompleted(t) BY <1>17 DEF MarkTaskCompleted
<1>18. CASE CountCompletion(t) BY <1>18 DEF CountCompletion
<1>19. CASE MarkTaskFailed(t) BY <1>19 DEF MarkTaskFailed
<1>20. CASE CountFailure(t) BY <1>20 DEF CountFailure
<1>21. CASE MarkTaskCancelled(t) BY <1>21 DEF MarkTaskCancelled
<1>22. CASE ReleasePermit(t) BY <1>22 DEF ReleasePermit
<1> QED BY <1>1, <1>2, <1>3, <1>4, <1>5, <1>6, <1>7, <1>8, <1>9, <1>10, <1>11,
     <1>12, <1>13, <1>14, <1>15, <1>16, <1>17, <1>18, <1>19, <1>20, <1>21,
     <1>22
  DEF TaskStep

LEMMA NextLocation ==
  TypeOK /\ LocationMatchesState /\ [Next]_vars => LocationMatchesState'
<1> SUFFICES ASSUME TypeOK, LocationMatchesState, [Next]_vars
             PROVE  LocationMatchesState'
  OBVIOUS
<1>1. CASE UNCHANGED vars BY <1>1 DEF vars, LocationMatchesState
<1>2. CASE Next
  <2>1. ASSUME NEW t \in Tasks,
               CreateTaskRecord(t) \/ AcquirePermit(t) \/ TaskStep(t)
        PROVE  LocationMatchesState'
    BY <2>1, QueryLocation
  <2>2. ASSUME \/ \E t \in Tasks : CancelTask(t)
               \/ \E a \in Admins : AdminStep(a)
               \/ \E s \in Sources : RegisterAdapter(s) \/ BackoffElapses(s)
        PROVE  LocationMatchesState'
    BY <2>2, EnvironmentFrame DEF LocationMatchesState
  <2> QED BY <1>2, <2>1, <2>2 DEF Next
<1> QED BY <1>1, <1>2

----
(* Permits. *)

\* A step that moves no task into or out of the part of execute_query that
\* owns a permit, and touches no semaphore.
KeepsPermits ==
  /\ UNCHANGED permits
  /\ \A u \in Tasks :
       /\ HoldsPermit(u)' <=> HoldsPermit(u)
       /\ HoldsPermit(u) => target'[u] = target[u] /\ sem'[u] = sem[u]

LEMMA KeepsPermitsConserves ==
  PermitConservation /\ KeepsPermits => PermitConservation'
<1> SUFFICES ASSUME PermitConservation, KeepsPermits PROVE PermitConservation' OBVIOUS
<1>1. \A s, n : Holders(s, n)' = Holders(s, n) BY DEF Holders, KeepsPermits
<1> QED BY <1>1 DEF PermitConservation, KeepsPermits

LEMMA HoldersFinite ==
  \A s, n : IsFiniteSet(Holders(s, n)) /\ Cardinality(Holders(s, n)) \in Nat
<1> SUFFICES ASSUME NEW s, NEW n
             PROVE  /\ IsFiniteSet(Holders(s, n))
                    /\ Cardinality(Holders(s, n)) \in Nat
  OBVIOUS
<1>1. Holders(s, n) \in SUBSET Tasks BY DEF Holders
<1>2. IsFiniteSet(Holders(s, n)) BY <1>1, FS_Subset, SchedulerAssumption
<1> QED BY <1>2, FS_CardinalityType

LEMMA AcquireConserves ==
  ASSUME TypeOK, PermitConservation, LocationMatchesState, NEW t \in Tasks,
         AcquirePermit(t)
  PROVE  PermitConservation'
<1> SUFFICES ASSUME NEW s \in Sources, NEW n \in 1..MaxRegistrations
             PROVE  (permits[s][n] + Cardinality(Holders(s, n)) = Concurrency)'
  BY DEF PermitConservation
<1>1. permits[s][n] + Cardinality(Holders(s, n)) = Concurrency BY DEF PermitConservation
<1>2. permits[s][n] \in Nat BY DEF TypeOK
<1>3. \A u \in Tasks : HoldsPermit(u)' <=> HoldsPermit(u) \/ u = t
  BY DEF AcquirePermit, HoldsPermit, Executing, TypeOK
<1>4. ~HoldsPermit(t) BY DEF AcquirePermit, HoldsPermit, Executing
<1>5. target' = target /\ sem' = sem BY DEF AcquirePermit
<1>6. CASE target[t] = s /\ sem[t] = n
  <2>1. Holders(s, n)' = Holders(s, n) \cup {t} BY <1>3, <1>5, <1>6 DEF Holders
  <2>2. t \notin Holders(s, n) BY <1>4 DEF Holders
  <2>3. Cardinality(Holders(s, n)') = Cardinality(Holders(s, n)) + 1
    BY <2>1, <2>2, HoldersFinite, FS_AddElement
  <2>4. permits'[s][n] = permits[s][n] - 1 BY <1>6 DEF AcquirePermit, TypeOK
  <2> QED BY <1>1, <1>2, <2>3, <2>4, HoldersFinite
<1>7. CASE ~(target[t] = s /\ sem[t] = n)
  <2>1. Holders(s, n)' = Holders(s, n) BY <1>3, <1>5, <1>7 DEF Holders
  <2>2. permits'[s][n] = permits[s][n] BY <1>7 DEF AcquirePermit, TypeOK
  <2> QED BY <1>1, <2>1, <2>2
<1> QED BY <1>6, <1>7

LEMMA ReleaseConserves ==
  ASSUME TypeOK, PermitConservation, LocationMatchesState, NEW t \in Tasks,
         ReleasePermit(t)
  PROVE  PermitConservation'
<1> SUFFICES ASSUME NEW s \in Sources, NEW n \in 1..MaxRegistrations
             PROVE  (permits[s][n] + Cardinality(Holders(s, n)) = Concurrency)'
  BY DEF PermitConservation
<1>1. permits[s][n] + Cardinality(Holders(s, n)) = Concurrency BY DEF PermitConservation
<1>2. permits[s][n] \in Nat BY DEF TypeOK
<1>3. \A u \in Tasks : HoldsPermit(u)' <=> HoldsPermit(u) /\ u # t
  BY DEF ReleasePermit, HoldsPermit, Executing, TypeOK
<1>4. HoldsPermit(t) BY DEF ReleasePermit, HoldsPermit
<1>5. target' = target /\ sem' = sem BY DEF ReleasePermit
<1>6. CASE target[t] = s /\ sem[t] = n
  <2>1. Holders(s, n)' = Holders(s, n) \ {t} BY <1>3, <1>5, <1>6 DEF Holders
  <2>2. t \in Holders(s, n) BY <1>4, <1>6 DEF Holders
  <2>3. Cardinality(Holders(s, n)') = Cardinality(Holders(s, n)) - 1
    BY <2>1, <2>2, HoldersFinite, FS_RemoveElement
  <2>4. permits'[s][n] = permits[s][n] + 1 BY <1>6 DEF ReleasePermit, TypeOK
  <2> QED BY <1>1, <1>2, <2>3, <2>4, HoldersFinite
<1>7. CASE ~(target[t] = s /\ sem[t] = n)
  <2>1. Holders(s, n)' = Holders(s, n) BY <1>3, <1>5, <1>7 DEF Holders
  <2>2. permits'[s][n] = permits[s][n] BY <1>7 DEF ReleasePermit, TypeOK
  <2> QED BY <1>1, <2>1, <2>2
<1> QED BY <1>6, <1>7

LEMMA QueryKeepsPermits ==
  ASSUME TypeOK, LocationMatchesState, NEW t \in Tasks,
         CreateTaskRecord(t) \/ TaskStep(t), ~ReleasePermit(t)
  PROVE  KeepsPermits
<1> USE DEF LocationMatchesState, TypeOK, KeepsPermits, HoldsPermit, Executing,
            schedVars, Selecting
<1>1. CASE CreateTaskRecord(t) BY <1>1 DEF CreateTaskRecord
<1>2. CASE ReadCircuit(t) BY <1>2 DEF ReadCircuit
<1>3. CASE ReserveRuntimeSlot(t) BY <1>3 DEF ReserveRuntimeSlot
<1>4. CASE MarkTaskFailedWithoutRuntime(t) BY <1>4 DEF MarkTaskFailedWithoutRuntime
<1>5. CASE MarkTaskRejected(t) BY <1>5 DEF MarkTaskRejected
<1>6. CASE CountRejection(t) BY <1>6 DEF CountRejection
<1>7. CASE CheckCancelled(t) BY <1>7 DEF CheckCancelled
<1>8. CASE RegisterWaiter(t) BY <1>8 DEF RegisterWaiter
<1>9. CASE CancelBranch(t) BY <1>9 DEF CancelBranch
<1>10. CASE MarkTaskRunning(t) BY <1>10 DEF MarkTaskRunning
<1>11. CASE BeginAttempt(t) BY <1>11 DEF BeginAttempt
<1>12. CASE AttemptSucceeds(t) BY <1>12 DEF AttemptSucceeds
<1>13. CASE AttemptFails(t) BY <1>13 DEF AttemptFails
<1>14. CASE AfterFailure(t) BY <1>14 DEF AfterFailure
<1>15. CASE BackoffOver(t) BY <1>15 DEF BackoffOver
<1>16. CASE MarkTaskCompleted(t) BY <1>16 DEF MarkTaskCompleted
<1>17. CASE CountCompletion(t) BY <1>17 DEF CountCompletion
<1>18. CASE MarkTaskFailed(t) BY <1>18 DEF MarkTaskFailed
<1>19. CASE CountFailure(t) BY <1>19 DEF CountFailure
<1>20. CASE MarkTaskCancelled(t) BY <1>20 DEF MarkTaskCancelled
<1> QED BY <1>1, <1>2, <1>3, <1>4, <1>5, <1>6, <1>7, <1>8, <1>9, <1>10, <1>11,
     <1>12, <1>13, <1>14, <1>15, <1>16, <1>17, <1>18, <1>19, <1>20
  DEF TaskStep

LEMMA NextConserves ==
  TypeOK /\ LocationMatchesState /\ PermitConservation /\ [Next]_vars
    => PermitConservation'
<1> SUFFICES ASSUME TypeOK, LocationMatchesState, PermitConservation, [Next]_vars
             PROVE  PermitConservation'
  OBVIOUS
<1>1. CASE UNCHANGED vars
  <2>1. KeepsPermits BY <1>1 DEF vars, KeepsPermits, HoldsPermit, Executing
  <2> QED BY <2>1, KeepsPermitsConserves
<1>2. CASE Next
  <2>1. ASSUME NEW t \in Tasks,
               CreateTaskRecord(t) \/ AcquirePermit(t) \/ TaskStep(t)
        PROVE  PermitConservation'
    BY <2>1, AcquireConserves, ReleaseConserves, QueryKeepsPermits,
       KeepsPermitsConserves
  <2>2. ASSUME \/ \E t \in Tasks : CancelTask(t)
               \/ \E a \in Admins : AdminStep(a)
               \/ \E s \in Sources : RegisterAdapter(s) \/ BackoffElapses(s)
        PROVE  PermitConservation'
    <3>1. KeepsPermits BY <2>2, EnvironmentFrame DEF KeepsPermits, HoldsPermit, Executing
    <3> QED BY <3>1, KeepsPermitsConserves
  <2> QED BY <1>2, <2>1, <2>2 DEF Next
<1> QED BY <1>1, <1>2

LEMMA InitConserves == Init => LocationMatchesState /\ PermitConservation
<1> SUFFICES ASSUME Init PROVE LocationMatchesState /\ PermitConservation OBVIOUS
<1>1. LocationMatchesState BY DEF Init, LocationMatchesState
<1>2. \A s, n : Holders(s, n) = {} BY DEF Init, Holders, HoldsPermit, Executing
<1>3. Cardinality({}) = 0 BY FS_EmptySet
<1>4. \A s \in Sources : \A n \in 1..MaxRegistrations :
        permits[s][n] = Concurrency
  BY DEF Init
<1>5. PermitConservation
  <2> SUFFICES ASSUME NEW s \in Sources, NEW n \in 1..MaxRegistrations
               PROVE  permits[s][n] + Cardinality(Holders(s, n)) = Concurrency
    BY DEF PermitConservation
  <2>1. permits[s][n] = Concurrency /\ Holders(s, n) = {} BY <1>2, <1>4
  <2>2. Cardinality(Holders(s, n)) = 0 BY <1>3, <2>1
  <2> QED BY <2>1, <2>2, SchedulerAssumption
<1> QED BY <1>1, <1>5

\* The place of a task in execute_query agrees with the tasks map.
THEOREM LocationCorrect == Spec => []LocationMatchesState
<1>1. Init => LocationMatchesState BY InitConserves
<1>2. TypeOK /\ LocationMatchesState /\ [Next]_vars => LocationMatchesState' BY NextLocation
<1> QED BY <1>1, <1>2, TypeCorrect, PTL DEF Spec

\* Permits are neither leaked nor given back twice, for any number of tasks,
\* adapters, re-registrations and any concurrency.
THEOREM PermitsConserved == Spec => []PermitConservation
<1>1. Init => PermitConservation BY InitConserves
<1>2. TypeOK /\ LocationMatchesState /\ PermitConservation /\ [Next]_vars
        => PermitConservation'
  BY NextConserves
<1> QED BY <1>1, <1>2, TypeCorrect, LocationCorrect, PTL DEF Spec

----
(* Retries and cancellation. *)

LEMMA QueryRetry ==
  ASSUME TypeOK, RetryInv, NEW t \in Tasks,
         CreateTaskRecord(t) \/ AcquirePermit(t) \/ TaskStep(t)
  PROVE  RetryInv'
<1> USE SchedulerAssumption DEF RetryInv, TypeOK, schedVars, Selecting
<1>1. CASE CreateTaskRecord(t) BY <1>1 DEF CreateTaskRecord
<1>2. CASE AcquirePermit(t) BY <1>2 DEF AcquirePermit
<1>3. CASE ReadCircuit(t) BY <1>3 DEF ReadCircuit
<1>4. CASE ReserveRuntimeSlot(t) BY <1>4 DEF ReserveRuntimeSlot
<1>5. CASE MarkTaskFailedWithoutRuntime(t) BY <1>5 DEF MarkTaskFailedWithoutRuntime
<1>6. CASE MarkTaskRejected(t) BY <1>6 DEF MarkTaskRejected
<1>7. CASE CountRejection(t) BY <1>7 DEF CountRejection
<1>8. CASE CheckCancelled(t) BY <1>8 DEF CheckCancelled
<1>9. CASE RegisterWaiter(t) BY <1>9 DEF RegisterWaiter
<1>10. CASE CancelBranch(t) BY <1>10 DEF CancelBranch
<1>11. CASE MarkTaskRunning(t) BY <1>11 DEF MarkTaskRunning
<1>12. CASE BeginAttempt(t)
  <2>1. late[t] = 0 BY <1>12 DEF BeginAttempt
  <2>2. attempts'[t] <= 1 \/ attempts'[t] <= MaxAttempts
    <3>1. attempts'[t] = attempts[t] + 1 BY <1>12 DEF BeginAttempt
    <3>2. attempts[t] \in Nat /\ (attempts[t] = 0 \/ attempts[t] < MaxAttempts) BY <1>12 DEF BeginAttempt
    <3> HIDE DEF RetryInv, TypeOK
    <3> QED BY <3>1, <3>2, SchedulerAssumption
  <2>3. late'[t] <= 1 /\ (late'[t] = 1 => cancelled[t])
    <3>1. CASE cancelled[t]
      <4>1. late'[t] = late[t] + 1 BY <1>12, <3>1 DEF BeginAttempt
      <4> QED BY <2>1, <3>1, <4>1
    <3>2. CASE ~cancelled[t]
      <4>1. late'[t] = late[t] BY <1>12, <3>2 DEF BeginAttempt
      <4> QED BY <2>1, <4>1
    <3> QED BY <3>1, <3>2
  <2>4. pc'[t] = "attempt" /\ cancelled' = cancelled BY <1>12 DEF BeginAttempt
  <2>5. \A u \in Tasks \ {t} :
          /\ attempts'[u] = attempts[u] /\ late'[u] = late[u]
          /\ pc'[u] = pc[u] /\ wait'[u] = wait[u]
    BY <1>12 DEF BeginAttempt
  <2> QED BY <2>2, <2>3, <2>4, <2>5
<1>13. CASE AttemptSucceeds(t) BY <1>13 DEF AttemptSucceeds
<1>14. CASE AttemptFails(t) BY <1>14 DEF AttemptFails
<1>15. CASE AfterFailure(t) BY <1>15 DEF AfterFailure, GivesUp
<1>16. CASE BackoffOver(t) BY <1>16 DEF BackoffOver
<1>17. CASE MarkTaskCompleted(t) BY <1>17 DEF MarkTaskCompleted
<1>18. CASE CountCompletion(t) BY <1>18 DEF CountCompletion
<1>19. CASE MarkTaskFailed(t) BY <1>19 DEF MarkTaskFailed
<1>20. CASE CountFailure(t) BY <1>20 DEF CountFailure
<1>21. CASE MarkTaskCancelled(t) BY <1>21 DEF MarkTaskCancelled
<1>22. CASE ReleasePermit(t) BY <1>22 DEF ReleasePermit
<1> QED BY <1>1, <1>2, <1>3, <1>4, <1>5, <1>6, <1>7, <1>8, <1>9, <1>10, <1>11,
     <1>12, <1>13, <1>14, <1>15, <1>16, <1>17, <1>18, <1>19, <1>20, <1>21,
     <1>22
  DEF TaskStep

LEMMA NextRetry == TypeOK /\ RetryInv /\ [Next]_vars => RetryInv'
<1> SUFFICES ASSUME TypeOK, RetryInv, [Next]_vars PROVE RetryInv' OBVIOUS
<1>1. CASE UNCHANGED vars BY <1>1 DEF vars, RetryInv
<1>2. CASE Next
  <2>1. ASSUME NEW t \in Tasks,
               CreateTaskRecord(t) \/ AcquirePermit(t) \/ TaskStep(t)
        PROVE  RetryInv'
    BY <2>1, QueryRetry
  <2>2. ASSUME \/ \E t \in Tasks : CancelTask(t)
               \/ \E a \in Admins : AdminStep(a)
               \/ \E s \in Sources : RegisterAdapter(s) \/ BackoffElapses(s)
        PROVE  RetryInv'
    BY <2>2, EnvironmentFrame DEF RetryInv
  <2> QED BY <1>2, <2>1, <2>2 DEF Next
<1> QED BY <1>1, <1>2

LEMMA InitRetry == Init => RetryInv
BY SchedulerAssumption DEF Init, RetryInv

\* No query tries its adapter more often than max_attempts allows.
THEOREM AttemptsAreBounded == Spec => []AttemptsBounded
<1>1. RetryInv => AttemptsBounded BY DEF RetryInv, AttemptsBounded
<1> QED BY <1>1, InitRetry, NextRetry, TypeCorrect, PTL DEF Spec

\* At most one attempt begins after a cancellation, lost wakeups included.
THEOREM CancellationStopsRetries == Spec => []CancelStopsRetries
<1>1. RetryInv => CancelStopsRetries BY DEF RetryInv, CancelStopsRetries
<1> QED BY <1>1, InitRetry, NextRetry, TypeCorrect, PTL DEF Spec
----
(* The gauges of a source against the tasks they count. *)

QueueingAt(s)  == {t \in Tasks : Queueing(t) /\ target[t] = s}
ExecutingAt(s) == {t \in Tasks : Executing(t) /\ target[t] = s}
EndedAt(s)     == {t \in Tasks : pc[t] \in {"release", "done"} /\ target[t] = s}
FailedAt(s)    == {t \in Tasks : FailedAfterRunning(t) /\ target[t] = s}

Outcomes(r) == r.completed + r.failed + r.cancelled

\* What GaugesFaithful says of one source.
GaugesOf(s) ==
  /\ runtime[s].queued <= Cardinality(QueueingAt(s))
  /\ runtime[s].running <= Cardinality(ExecutingAt(s))
  /\ runtime[s].epoch <= 1 =>
       /\ runtime[s].running = Cardinality(ExecutingAt(s))
       /\ Cardinality(QueueingAt(s)) <= runtime[s].queued + Cardinality(FailedAt(s))
  /\ s \in Started /\ runtime[s].epoch = 1 =>
       Outcomes(runtime[s]) = Cardinality(EndedAt(s))

LEMMA GaugesBySource ==
  (\A s \in Sources : GaugesOf(s)) <=>
    /\ RunningGaugeExact
    /\ GaugesNeverOverReport
    /\ QueueGaugeShortByFailures
    /\ OutcomesCountedOnce
BY SchedulerAssumption
   DEF GaugesOf, QueueingAt, ExecutingAt, EndedAt, FailedAt, Outcomes, RunningGaugeExact,
       GaugesNeverOverReport, QueueGaugeShortByFailures, OutcomesCountedOnce

\* The sets a task may enter or leave change by that task alone.
LEMMA CountMoves ==
  ASSUME NEW A, NEW B, IsFiniteSet(A), NEW t,
         \A u : u # t => (u \in A <=> u \in B)
  PROVE  /\ Cardinality(A) \in Nat /\ Cardinality(B) \in Nat
         /\ (t \in A <=> t \in B) => Cardinality(B) = Cardinality(A)
         /\ t \notin A /\ t \in B => Cardinality(B) = Cardinality(A) + 1
         /\ t \in A /\ t \notin B => Cardinality(A) = Cardinality(B) + 1
<1>1. CASE t \in A <=> t \in B
  <2>1. A = B BY <1>1
  <2> QED BY <1>1, <2>1, FS_CardinalityType
<1>2. CASE t \notin A /\ t \in B
  <2>1. B = A \cup {t} BY <1>2
  <2> QED BY <1>2, <2>1, FS_AddElement, FS_CardinalityType
<1>3. CASE t \in A /\ t \notin B
  <2>1. B = A \ {t} BY <1>3
  <2>2. IsFiniteSet(B) BY <2>1, FS_Subset
  <2>3. A = B \cup {t} BY <1>3, <2>1
  <2> QED BY <1>3, <2>2, <2>3, FS_AddElement, FS_CardinalityType
<1> QED BY <1>1, <1>2, <1>3

\* How a record may follow another: new gauges, and outcomes that grew by n.
Follows(r, q, queued, running, n) ==
  /\ q.epoch = r.epoch
  /\ q.queued = queued
  /\ q.running = running
  /\ Outcomes(q) = Outcomes(r) + n
  /\ r.state # "Absent" => q.state # "Absent"

LEMMA UpdateFields ==
  ASSUME NEW r \in Runtime, NEW c \in Snapshot, NEW st
  PROVE  /\ Outcomes(r) \in Nat
         /\ st # "Absent" =>
              Follows(r, WithState(r, st), r.queued, r.running, 0)
         /\ Follows(r, CountSubmission(r, c), r.queued + 1, r.running, 0)
         /\ Follows(r, CountRejected(r, c), r.queued, r.running, 1)
         /\ Follows(r, CountRunning(r), SaturatingPred(r.queued), r.running + 1, 0)
         /\ Follows(r, CountCompleted(r, c),
                    r.queued, SaturatingPred(r.running), 1)
         /\ Follows(r, CountFailed(r, c),
                    SaturatingPred(r.queued), SaturatingPred(r.running), 1)
         /\ Follows(r, CountCancelled(r, st),
                    IF st = "Pending" THEN SaturatingPred(r.queued) ELSE r.queued,
                    IF st = "Running" THEN SaturatingPred(r.running) ELSE r.running,
                    1)
<1> USE DEF Runtime, Follows, Outcomes
<1>1. st # "Absent" => Follows(r, WithState(r, st), r.queued, r.running, 0) BY DEF WithState
<1>2. Follows(r, CountSubmission(r, c), r.queued + 1, r.running, 0) BY DEF CountSubmission
<1>3. Follows(r, CountRejected(r, c), r.queued, r.running, 1) BY DEF CountRejected
<1>4. Follows(r, CountRunning(r), SaturatingPred(r.queued), r.running + 1, 0) BY DEF CountRunning
<1>5. Follows(r, CountCompleted(r, c), r.queued, SaturatingPred(r.running), 1) BY DEF CountCompleted
<1>6. Follows(r, CountFailed(r, c), SaturatingPred(r.queued),
              SaturatingPred(r.running), 1)
  BY DEF CountFailed, FailureState
<1>7. Follows(r, CountCancelled(r, st),
              IF st = "Pending" THEN SaturatingPred(r.queued) ELSE r.queued,
              IF st = "Running" THEN SaturatingPred(r.running) ELSE r.running, 1)
  BY DEF CountCancelled
<1>8. Outcomes(r) \in Nat OBVIOUS
<1> QED BY <1>1, <1>2, <1>3, <1>4, <1>5, <1>6, <1>7, <1>8

\* A gauge that moves with its count, and never above it, stays below it.
LEMMA GaugeBelow ==
  ASSUME NEW old \in Nat, NEW c \in Nat, NEW d \in Nat, NEW new, old <= c,
         \/ d = c /\ new = old
         \/ d = c + 1 /\ new = old + 1
         \/ c = d + 1 /\ new = SaturatingPred(old)
         \/ d = c /\ new = SaturatingPred(old)
  PROVE  new <= d
BY DEF SaturatingPred

LEMMA GaugeExact ==
  ASSUME NEW c \in Nat, NEW d \in Nat, NEW new,
         \/ d = c /\ new = c
         \/ d = c + 1 /\ new = c + 1
         \/ c = d + 1 /\ new = SaturatingPred(c)
  PROVE  new = d
BY DEF SaturatingPred

----
(* A step of a task changes the gauges of its own source by what the task  *)
(* itself does: gauge moves with the task, except that the gauge of queued *)
(* tasks also falls when a task that ran is counted as failed.             *)

Gauge(was, is, old, new) ==
  \/ (was <=> is) /\ new = old
  \/ ~was /\ is /\ new = old + 1
  \/ was /\ ~is /\ new = SaturatingPred(old)

Ended(t) == pc[t] \in {"release", "done"}

OnlyTask(t) ==
  /\ target' = target
  /\ \A u \in Tasks \ {t} : pc'[u] = pc[u] /\ tstate'[u] = tstate[u]
  /\ \A u \in Tasks \ {t} : attempts'[u] = attempts[u]
  /\ \A s \in Sources \ {target[t]} : runtime'[s] = runtime[s]

GaugeStep(t) ==
  LET r == runtime[target[t]]
      q == runtime'[target[t]]
  IN /\ q.epoch = r.epoch
     /\ \/ Gauge(Queueing(t), Queueing(t)', r.queued, q.queued)
        \/ /\ ~Queueing(t) /\ ~Queueing(t)' /\ q.queued = SaturatingPred(r.queued)
           /\ ~FailedAfterRunning(t) /\ FailedAfterRunning(t)'
     /\ FailedAfterRunning(t) => FailedAfterRunning(t)'
     /\ Gauge(Executing(t), Executing(t)', r.running, q.running)
     /\ \/ (Ended(t) <=> Ended(t)') /\ Outcomes(q) = Outcomes(r)
        \/ ~Ended(t) /\ Ended(t)' /\ Outcomes(q) = Outcomes(r) + 1
        \/ target[t] \notin Started

LEMMA OthersKeepGauges ==
  ASSUME TypeOK, NEW t \in Tasks, OnlyTask(t),
         NEW s \in Sources \ {target[t]}, GaugesOf(s)
  PROVE  GaugesOf(s)'
<1>1. /\ QueueingAt(s)' = QueueingAt(s)
      /\ ExecutingAt(s)' = ExecutingAt(s)
      /\ EndedAt(s)' = EndedAt(s)
      /\ FailedAt(s)' = FailedAt(s)
  BY DEF OnlyTask, QueueingAt, ExecutingAt, EndedAt, FailedAt, FailedAfterRunning, Queueing,
         Executing
<1>2. runtime'[s] = runtime[s] BY DEF OnlyTask
<1> QED BY <1>1, <1>2 DEF GaugesOf

LEMMA StepKeepsGauges ==
  ASSUME TypeOK, TypeOK', NEW t \in Tasks, OnlyTask(t), GaugeStep(t),
         GaugesOf(target[t])
  PROVE  GaugesOf(target[t])'
<1> DEFINE s == target[t]
           r == runtime[s]
           q == runtime'[s]
<1>0. /\ s \in Sources /\ s' = s
      /\ r.queued \in Nat /\ r.running \in Nat /\ Outcomes(r) \in Nat
      /\ r.epoch \in Nat
      /\ q.queued \in Nat /\ q.running \in Nat /\ Outcomes(q) \in Nat
  <2>1. s \in Sources /\ s' = s BY DEF TypeOK, OnlyTask
  <2>2. r \in Runtime /\ q \in Runtime BY <2>1 DEF TypeOK
  <2> HIDE DEF s, r, q
  <2>3. \A z \in Runtime : Outcomes(z) \in Nat BY DEF Outcomes, Runtime
  <2>4. r.epoch \in Nat BY <2>2, SchedulerAssumption DEF Runtime
  <2> QED BY <2>1, <2>2, <2>3, <2>4 DEF Runtime
<1>1. \A u \in Tasks : u # t =>
        /\ (Queueing(u)' <=> Queueing(u))
        /\ (Executing(u)' <=> Executing(u))
        /\ (Ended(u)' <=> Ended(u))
        /\ target'[u] = target[u]
  BY DEF OnlyTask, Queueing, Executing, Ended
<1>2. /\ IsFiniteSet(QueueingAt(s)) /\ IsFiniteSet(ExecutingAt(s))
      /\ IsFiniteSet(EndedAt(s)) /\ IsFiniteSet(FailedAt(s)) /\ IsFiniteSet(FailedAt(s)')
  BY FS_Subset, SchedulerAssumption DEF QueueingAt, ExecutingAt, EndedAt, FailedAt
<1>3. /\ t \in QueueingAt(s) <=> Queueing(t)
      /\ t \in ExecutingAt(s) <=> Executing(t)
      /\ t \in EndedAt(s) <=> Ended(t)
  BY DEF QueueingAt, ExecutingAt, EndedAt, Ended
<1>4. /\ t \in QueueingAt(s)' <=> Queueing(t)'
      /\ t \in ExecutingAt(s)' <=> Executing(t)'
      /\ t \in EndedAt(s)' <=> Ended(t)'
  BY <1>0 DEF QueueingAt, ExecutingAt, EndedAt, Ended
<1>5. \A u : u # t => /\ u \in QueueingAt(s) <=> u \in QueueingAt(s)'
                      /\ u \in ExecutingAt(s) <=> u \in ExecutingAt(s)'
                      /\ u \in EndedAt(s) <=> u \in EndedAt(s)'
  BY <1>0, <1>1 DEF QueueingAt, ExecutingAt, EndedAt, Ended
<1> DEFINE cq == Cardinality(QueueingAt(s))
           cr == Cardinality(ExecutingAt(s))
           ce == Cardinality(EndedAt(s))
<1> DEFINE cf == Cardinality(FailedAt(s))
<1>14. /\ cf \in Nat /\ cf' \in Nat /\ cf <= cf'
       /\ ~FailedAfterRunning(t) /\ FailedAfterRunning(t)' => cf' = cf + 1
  <2>1. \A u : u # t => (u \in FailedAt(s) <=> u \in FailedAt(s)')
    BY <1>0 DEF OnlyTask, FailedAt, FailedAfterRunning
  <2>2. /\ t \in FailedAt(s) <=> FailedAfterRunning(t)
        /\ t \in FailedAt(s)' <=> FailedAfterRunning(t)'
    BY <1>0 DEF FailedAt
  <2>3. FailedAfterRunning(t) => FailedAfterRunning(t)' BY DEF GaugeStep
  <2>4. /\ cf \in Nat /\ cf' \in Nat
        /\ (FailedAfterRunning(t) <=> FailedAfterRunning(t)') => cf' = cf
        /\ ~FailedAfterRunning(t) /\ FailedAfterRunning(t)' => cf' = cf + 1
    BY <1>2, <2>1, <2>2, CountMoves
  <2> HIDE DEF cf
  <2> QED BY <2>3, <2>4
<1>6. /\ cq \in Nat /\ cq' \in Nat
      /\ (Queueing(t) <=> Queueing(t)') => cq' = cq
      /\ ~Queueing(t) /\ Queueing(t)' => cq' = cq + 1
      /\ Queueing(t) /\ ~Queueing(t)' => cq = cq' + 1
  <2>1. \A u : u # t => (u \in QueueingAt(s) <=> u \in QueueingAt(s)') BY <1>5
  <2> QED BY <1>2, <1>3, <1>4, <2>1, CountMoves
<1>7. /\ cr \in Nat /\ cr' \in Nat
      /\ (Executing(t) <=> Executing(t)') => cr' = cr
      /\ ~Executing(t) /\ Executing(t)' => cr' = cr + 1
      /\ Executing(t) /\ ~Executing(t)' => cr = cr' + 1
  <2>1. \A u : u # t => (u \in ExecutingAt(s) <=> u \in ExecutingAt(s)') BY <1>5
  <2> QED BY <1>2, <1>3, <1>4, <2>1, CountMoves
<1>8. /\ ce \in Nat /\ ce' \in Nat
      /\ (Ended(t) <=> Ended(t)') => ce' = ce
      /\ ~Ended(t) /\ Ended(t)' => ce' = ce + 1
  <2>1. \A u : u # t => (u \in EndedAt(s) <=> u \in EndedAt(s)') BY <1>5
  <2> QED BY <1>2, <1>3, <1>4, <2>1, CountMoves
<1>9. /\ r.queued <= cq /\ r.running <= cr
      /\ r.epoch <= 1 => r.running = cr /\ cq <= r.queued + cf
      /\ s \in Started /\ r.epoch = 1 => Outcomes(r) = ce
  BY DEF GaugesOf
<1>10. q.epoch = r.epoch BY DEF GaugeStep
<1>11. q.queued <= cq' /\ (q.epoch <= 1 => cq' <= q.queued + cf')
  <2>1. \/ (Queueing(t) <=> Queueing(t)') /\ q.queued = r.queued
        \/ ~Queueing(t) /\ Queueing(t)' /\ q.queued = r.queued + 1
        \/ Queueing(t) /\ ~Queueing(t)' /\ q.queued = SaturatingPred(r.queued)
        \/ /\ ~Queueing(t) /\ ~Queueing(t)' /\ q.queued = SaturatingPred(r.queued)
           /\ ~FailedAfterRunning(t) /\ FailedAfterRunning(t)'
    BY DEF GaugeStep, Gauge
  <2> HIDE DEF r, q, cq, s, cf
  <2>2. \/ cq' = cq /\ q.queued = r.queued
        \/ cq' = cq /\ q.queued = SaturatingPred(r.queued) /\ cf' = cf + 1
        \/ cq' = cq + 1 /\ q.queued = r.queued + 1
        \/ cq = cq' + 1 /\ q.queued = SaturatingPred(r.queued)
    BY <1>6, <1>14, <2>1
  <2>3. cq \in Nat /\ cq' \in Nat /\ r.queued <= cq BY <1>6, <1>9
  <2>4. r.queued \in Nat BY <1>0
  <2>5. q.queued <= cq' BY <2>2, <2>3, <2>4, GaugeBelow
  <2>6. ASSUME q.epoch <= 1 PROVE cq' <= q.queued + cf'
    <3>1. cq <= r.queued + cf BY <1>9, <1>10, <2>6
    <3>2. cf \in Nat /\ cf' \in Nat /\ cf <= cf' BY <1>14
    <3> DEFINE old == r.queued
               new == q.queued
    <3>3. old \in Nat /\ cq <= old + cf BY <2>4, <3>1
    <3>4. \/ cq' = cq /\ new = old
          \/ cq' = cq /\ new = SaturatingPred(old) /\ cf' = cf + 1
          \/ cq' = cq + 1 /\ new = old + 1
          \/ cq = cq' + 1 /\ new = SaturatingPred(old)
      BY <2>2
    <3> HIDE DEF old, new
    <3> DEFINE c == cq
               d == cq'
               m == cf
               n == cf'
    <3>5. /\ c \in Nat /\ d \in Nat /\ m \in Nat /\ n \in Nat /\ c <= old + m /\ m <= n
          /\ \/ d = c /\ new = old
             \/ d = c /\ new = SaturatingPred(old) /\ n = m + 1
             \/ d = c + 1 /\ new = old + 1
             \/ c = d + 1 /\ new = SaturatingPred(old)
      BY <2>3, <3>2, <3>3, <3>4
    <3> HIDE DEF c, d, m, n
    <3>6. d <= new + n
      <4>1. CASE d = c /\ new = old BY <3>3, <3>5, <4>1
      <4>2. CASE d = c /\ new = SaturatingPred(old) /\ n = m + 1 BY <3>3, <3>5, <4>2 DEF SaturatingPred
      <4>3. CASE d = c + 1 /\ new = old + 1 BY <3>3, <3>5, <4>3
      <4>4. CASE c = d + 1 /\ new = SaturatingPred(old) BY <3>3, <3>5, <4>4 DEF SaturatingPred
      <4> QED BY <3>5, <4>1, <4>2, <4>3, <4>4
    <3> QED BY <3>6 DEF new, d, n
  <2> QED BY <2>5, <2>6
<1>12. q.running <= cr' /\ (q.epoch <= 1 => q.running = cr')
  <2>1. \/ (Executing(t) <=> Executing(t)') /\ q.running = r.running
        \/ ~Executing(t) /\ Executing(t)' /\ q.running = r.running + 1
        \/ /\ Executing(t) /\ ~Executing(t)'
           /\ q.running = SaturatingPred(r.running)
    BY DEF GaugeStep, Gauge
  <2> HIDE DEF r, q, cr, s
  <2>2. \/ cr' = cr /\ q.running = r.running
        \/ cr' = cr + 1 /\ q.running = r.running + 1
        \/ cr = cr' + 1 /\ q.running = SaturatingPred(r.running)
    BY <1>7, <2>1
  <2>3. /\ cr \in Nat /\ cr' \in Nat /\ r.running <= cr
        /\ q.epoch <= 1 => r.running = cr
    BY <1>7, <1>9, <1>10
  <2>4. r.running \in Nat BY <1>0
  <2>5. q.running <= cr' BY <2>2, <2>3, <2>4, GaugeBelow
  <2>6. ASSUME q.epoch <= 1 PROVE q.running = cr'
    <3>1. r.running = cr BY <2>3, <2>6
    <3> QED BY <2>2, <2>3, <3>1, GaugeExact
  <2> QED BY <2>5, <2>6
<1>13. s \in Started /\ q.epoch = 1 => Outcomes(q) = ce'
  <2>1. \/ (Ended(t) <=> Ended(t)') /\ Outcomes(q) = Outcomes(r)
        \/ ~Ended(t) /\ Ended(t)' /\ Outcomes(q) = Outcomes(r) + 1
        \/ s \notin Started
    BY DEF GaugeStep
  <2> HIDE DEF r, q, ce, s
  <2> QED BY <1>0, <1>8, <1>9, <1>10, <2>1
<1> QED BY <1>0, <1>11, <1>12, <1>13 DEF GaugesOf

----
(* What a task step does to what SourcesKnown says. *)

Past == {"idle", "circuit", "reserve", "absent", "done"}

KnownStep(t) ==
  /\ admin' = admin
  /\ runtime'[target[t]].state = "Absent" <=> runtime[target[t]].state = "Absent"
  /\ pc'[t] = "absent" => runtime[target[t]].state = "Absent"
  /\ \/ pc'[t] \in Past
     \/ pc[t] \notin Past
     \/ runtime[target[t]].state # "Absent"

LEMMA StepKeepsKnown ==
  ASSUME TypeOK, SourcesKnown, NEW t \in Tasks, OnlyTask(t), GaugeStep(t),
         KnownStep(t)
  PROVE  SourcesKnown'
<1>0. target[t] \in Sources /\ Started \subseteq Sources BY SchedulerAssumption DEF TypeOK
<1>1. \A s \in Sources :
        /\ runtime'[s].epoch = runtime[s].epoch
        /\ runtime'[s].state = "Absent" <=> runtime[s].state = "Absent"
  BY <1>0 DEF OnlyTask, GaugeStep, KnownStep
<1>2. /\ \A s \in Sources : runtime'[s].state = "Absent" <=> runtime'[s].epoch = 0
      /\ \A s \in Started : runtime'[s].epoch # 0
  BY <1>0, <1>1 DEF SourcesKnown
<1>3. ASSUME NEW u \in Tasks
      PROVE  /\ pc'[u] = "absent" => target'[u] \notin Started
             /\ pc'[u] \notin Past => runtime'[target'[u]].epoch # 0
  <2>0. target'[u] = target[u] /\ target[u] \in Sources BY DEF OnlyTask, TypeOK
  <2>1. CASE u # t
    <3>1. pc'[u] = pc[u] BY <2>1 DEF OnlyTask
    <3> QED BY <1>1, <2>0, <3>1 DEF SourcesKnown, Past
  <2>2. CASE u = t BY <1>0, <1>1, <2>0, <2>2 DEF SourcesKnown, Past, KnownStep
  <2> QED BY <2>1, <2>2
<1>4. \A a \in Admins :
        admin'[a].op # "idle" => /\ runtime'[admin'[a].source].epoch # 0
                                 /\ admin'[a].found # "Absent"
  BY <1>1 DEF SourcesKnown, KnownStep, TypeOK, AdminCall
<1> QED BY <1>2, <1>3, <1>4 DEF SourcesKnown, Past

\* The steps of a task that do not write the runtimes map.
LEMMA QuietSteps ==
  ASSUME TypeOK, LocationMatchesState, SourcesKnown, NEW t \in Tasks,
         \/ CreateTaskRecord(t) \/ AcquirePermit(t) \/ ReadCircuit(t)
         \/ MarkTaskFailedWithoutRuntime(t) \/ MarkTaskRejected(t)
         \/ CheckCancelled(t) \/ RegisterWaiter(t) \/ CancelBranch(t)
         \/ BeginAttempt(t) \/ AttemptSucceeds(t) \/ AttemptFails(t)
         \/ BackoffOver(t) \/ MarkTaskCompleted(t) \/ MarkTaskFailed(t)
         \/ ReleasePermit(t)
  PROVE  OnlyTask(t) /\ GaugeStep(t) /\ KnownStep(t)
<1>1. /\ target' = target /\ runtime' = runtime /\ admin' = admin
      /\ \A u \in Tasks \ {t} : pc'[u] = pc[u] /\ tstate'[u] = tstate[u]
      /\ \A u \in Tasks \ {t} : attempts'[u] = attempts[u]
  BY DEF TypeOK, schedVars, CreateTaskRecord, AcquirePermit, ReadCircuit,
         MarkTaskFailedWithoutRuntime, MarkTaskRejected, CheckCancelled,
         RegisterWaiter, CancelBranch, BeginAttempt, AttemptSucceeds,
         AttemptFails, BackoffOver, MarkTaskCompleted, MarkTaskFailed,
         ReleasePermit
<1>2. OnlyTask(t) BY <1>1 DEF OnlyTask
<1> DEFINE Waits == {"acquire", "granted"}
           Runs  == {"running", "attempt", "transient", "fatal", "backoff",
                     "succeeded", "completing", "exhausted", "failing"}
           Ends  == {"release", "done"}
           Other == {"idle", "circuit", "reserve", "absent", "reject",
                     "rejected"}
<1>3. \/ pc[t] \in Waits /\ tstate[t] = "Pending"
      \/ pc[t] \in {"running", "attempt", "transient", "fatal", "backoff",
                    "succeeded", "exhausted"} /\ tstate[t] = "Running"
      \/ pc[t] \in {"completing", "failing", "cancelling"}
      \/ pc[t] \in Ends
      \/ pc[t] \in Other
  BY DEF LocationMatchesState, TypeOK, Location
<1>4. \/ pc[t] \in Waits /\ pc'[t] \in Waits
      \/ /\ pc[t] \in Waits /\ tstate[t] = "Pending"
         /\ pc'[t] = "cancelling" /\ tstate'[t] = tstate[t]
      \/ pc[t] \in Runs /\ pc'[t] \in Runs
      \/ /\ pc[t] \in Runs /\ tstate[t] = "Running"
         /\ pc'[t] = "cancelling" /\ tstate'[t] = tstate[t]
      \/ /\ pc[t] = "release" /\ pc'[t] = "done"
         /\ tstate' = tstate /\ attempts' = attempts
      \/ pc[t] = "absent" /\ pc'[t] = "done"
      \/ pc[t] \in {"idle", "circuit"} /\ pc'[t] \in {"circuit", "reserve"}
      \/ pc[t] = "reject" /\ pc'[t] = "rejected"
  <2> USE <1>3 DEF TypeOK, schedVars
  <2>1. CASE CreateTaskRecord(t) BY <2>1 DEF CreateTaskRecord
  <2>2. CASE AcquirePermit(t) BY <2>2 DEF AcquirePermit
  <2>3. CASE ReadCircuit(t) BY <2>3 DEF ReadCircuit
  <2>4. CASE MarkTaskFailedWithoutRuntime(t) BY <2>4 DEF MarkTaskFailedWithoutRuntime
  <2>5. CASE MarkTaskRejected(t) BY <2>5 DEF MarkTaskRejected
  <2>6. CASE CheckCancelled(t) BY <2>6 DEF CheckCancelled, Selecting
  <2>7. CASE RegisterWaiter(t) BY <2>7 DEF RegisterWaiter, Selecting
  <2>8. CASE CancelBranch(t) BY <2>8 DEF CancelBranch, Selecting
  <2>9. CASE BeginAttempt(t) BY <2>9 DEF BeginAttempt
  <2>10. CASE AttemptSucceeds(t) BY <2>10 DEF AttemptSucceeds
  <2>11. CASE AttemptFails(t) BY <2>11 DEF AttemptFails
  <2>12. CASE BackoffOver(t) BY <2>12 DEF BackoffOver
  <2>13. CASE MarkTaskCompleted(t) BY <2>13 DEF MarkTaskCompleted
  <2>14. CASE MarkTaskFailed(t) BY <2>14 DEF MarkTaskFailed
  <2>15. CASE ReleasePermit(t) BY <2>15 DEF ReleasePermit
  <2> QED BY <2>1, <2>2, <2>3, <2>4, <2>5, <2>6, <2>7, <2>8, <2>9, <2>10,
             <2>11, <2>12, <2>13, <2>14, <2>15
<1>5. /\ Queueing(t) <=> Queueing(t)'
      /\ Executing(t) <=> Executing(t)'
  BY <1>4 DEF Queueing, Executing
<1>6. (Ended(t) <=> Ended(t)') \/ target[t] \notin Started BY <1>4 DEF Ended, SourcesKnown
<1>9. FailedAfterRunning(t) => FailedAfterRunning(t)' BY <1>4 DEF FailedAfterRunning
<1>7. GaugeStep(t) BY <1>1, <1>5, <1>6, <1>9 DEF GaugeStep, Gauge
<1>8. KnownStep(t) BY <1>1, <1>4 DEF KnownStep, Past
<1> QED BY <1>2, <1>7, <1>8

----
(* The critical sections on runtimes. *)

LEMMA ReserveStep ==
  ASSUME TypeOK, SourcesKnown, NEW t \in Tasks, ReserveRuntimeSlot(t)
  PROVE  OnlyTask(t) /\ GaugeStep(t) /\ KnownStep(t)
<1> DEFINE s == target[t]
           r == runtime[s]
<1>0. s \in Sources /\ r \in Runtime /\ snap[t] \in Snapshot BY DEF TypeOK
<1>1. /\ target' = target /\ admin' = admin /\ tstate' = tstate /\ attempts' = attempts
      /\ pc[t] = "reserve"
      /\ \A u \in Tasks \ {t} : pc'[u] = pc[u]
      /\ \A z \in Sources \ {s} : runtime'[z] = runtime[z]
  BY DEF ReserveRuntimeSlot, UpdateRuntime, TypeOK
<1>2. OnlyTask(t) BY <1>1 DEF OnlyTask
<1>3. \/ r.state = "Absent" /\ pc'[t] = "absent" /\ runtime'[s] = r
      \/ r.state # "Absent" /\ pc'[t] = "reject" /\ runtime'[s] = r
      \/ /\ r.state # "Absent" /\ pc'[t] = "reject"
         /\ runtime'[s] = WithState(r, "Unavailable")
      \/ /\ r.state # "Absent" /\ pc'[t] = "acquire"
         /\ runtime'[s] = CountSubmission(r, snap[t])
  BY <1>0 DEF ReserveRuntimeSlot, UpdateRuntime, TypeOK
<1> DEFINE q == runtime'[s]
<1> HIDE DEF s, r, q
<1>4. /\ q.epoch = r.epoch /\ q.running = r.running
      /\ Outcomes(q) = Outcomes(r)
      /\ pc'[t] # "acquire" => q.queued = r.queued
      /\ pc'[t] = "acquire" => q.queued = r.queued + 1
      /\ q.state = "Absent" <=> r.state = "Absent"
  <2>0. Outcomes(r) \in Nat BY <1>0, UpdateFields
  <2>1. CASE pc'[t] \in {"absent", "reject"} /\ q = r BY <2>1
  <2>2. CASE /\ r.state # "Absent" /\ pc'[t] = "reject"
             /\ q = WithState(r, "Unavailable")
    <3>1. Follows(r, q, r.queued, r.running, 0) BY <1>0, <2>2, UpdateFields
    <3> QED BY <2>0, <2>2, <3>1 DEF Follows
  <2>3. CASE /\ r.state # "Absent" /\ pc'[t] = "acquire"
             /\ q = CountSubmission(r, snap[t])
    <3>1. Follows(r, q, r.queued + 1, r.running, 0) BY <1>0, <2>3, UpdateFields
    <3> QED BY <2>0, <2>3, <3>1 DEF Follows
  <2> QED BY <1>3, <2>1, <2>2, <2>3 DEF q
<1>5. /\ ~Queueing(t) /\ ~Executing(t) /\ ~Ended(t)
      /\ ~Executing(t)' /\ ~Ended(t)'
      /\ Queueing(t)' <=> pc'[t] = "acquire"
      /\ ~FailedAfterRunning(t)
  BY <1>1, <1>3 DEF Queueing, Executing, Ended, FailedAfterRunning
<1>6. GaugeStep(t) BY <1>4, <1>5 DEF GaugeStep, Gauge, s, r, q
<1>7. KnownStep(t) BY <1>1, <1>3, <1>4 DEF KnownStep, Past, s, r, q
<1> QED BY <1>2, <1>6, <1>7

LEMMA CountingStep ==
  ASSUME TypeOK, LocationMatchesState, SourcesKnown, NEW t \in Tasks,
         \/ CountRejection(t) \/ MarkTaskRunning(t) \/ AfterFailure(t)
         \/ CountCompletion(t) \/ CountFailure(t) \/ MarkTaskCancelled(t)
  PROVE  OnlyTask(t) /\ GaugeStep(t) /\ KnownStep(t)
<1> DEFINE s == target[t]
           r == runtime[s]
           q == runtime'[s]
<1>0. /\ s \in Sources /\ r \in Runtime /\ snap[t] \in Snapshot
      /\ r.state # "Absent"
  <2>1. s \in Sources /\ r \in Runtime /\ snap[t] \in Snapshot BY DEF TypeOK
  <2>2. pc[t] \notin Past BY DEF CountRejection, MarkTaskRunning, AfterFailure, CountCompletion,
           CountFailure, MarkTaskCancelled, Past
  <2> QED BY <2>1, <2>2 DEF SourcesKnown, Past
<1>1. /\ target' = target /\ admin' = admin /\ attempts' = attempts
      /\ \A u \in Tasks \ {t} : pc'[u] = pc[u] /\ tstate'[u] = tstate[u]
      /\ \A z \in Sources \ {s} : runtime'[z] = runtime[z]
  BY DEF TypeOK, UpdateRuntime, CountRejection, MarkTaskRunning, AfterFailure,
         CountCompletion, CountFailure, MarkTaskCancelled
<1>2. OnlyTask(t) BY <1>1 DEF OnlyTask
<1>9. ~FailedAfterRunning(t)
  BY DEF CountRejection, MarkTaskRunning, AfterFailure, CountCompletion, CountFailure,
         MarkTaskCancelled, FailedAfterRunning
<1>3. ASSUME CountRejection(t) PROVE GaugeStep(t) /\ KnownStep(t)
  <2>1. /\ pc[t] = "rejected" /\ pc'[t] = "done"
        /\ q = CountRejected(r, snap[t])
    BY <1>0, <1>3 DEF CountRejection, UpdateRuntime, TypeOK
  <2>2. /\ ~Queueing(t) /\ ~Executing(t) /\ ~Ended(t)
        /\ ~Queueing(t)' /\ ~Executing(t)' /\ Ended(t)'
    BY <2>1 DEF Queueing, Executing, Ended
  <2> HIDE DEF s, r, q
  <2>3. /\ q.epoch = r.epoch /\ q.running = r.running /\ q.queued = r.queued
        /\ Outcomes(q) = Outcomes(r) + 1 /\ q.state # "Absent"
    BY <1>0, <2>1, UpdateFields DEF Follows
  <2>4. GaugeStep(t) BY <1>9, <2>2, <2>3 DEF GaugeStep, Gauge, s, r, q
  <2>5. KnownStep(t) BY <1>0, <1>1, <2>1, <2>3 DEF KnownStep, Past, s, r, q
  <2> QED BY <2>4, <2>5
<1>4. ASSUME MarkTaskRunning(t) PROVE GaugeStep(t) /\ KnownStep(t)
  <2>1. pc[t] = "granted" /\ pc'[t] = "running" /\ q = CountRunning(r)
    BY <1>0, <1>4 DEF MarkTaskRunning, UpdateRuntime, TypeOK
  <2>2. /\ Queueing(t) /\ ~Executing(t) /\ ~Ended(t)
        /\ ~Queueing(t)' /\ Executing(t)' /\ ~Ended(t)'
    BY <2>1 DEF Queueing, Executing, Ended
  <2> HIDE DEF s, r, q
  <2>3. /\ q.epoch = r.epoch /\ q.running = r.running + 1
        /\ q.queued = SaturatingPred(r.queued)
        /\ Outcomes(q) = Outcomes(r) /\ q.state # "Absent"
    <3>1. Follows(r, q, SaturatingPred(r.queued), r.running + 1, 0) BY <1>0, <2>1, UpdateFields
    <3>2. Outcomes(r) \in Nat BY <1>0, UpdateFields
    <3> QED BY <1>0, <3>1, <3>2 DEF Follows
  <2>4. GaugeStep(t) BY <1>9, <2>2, <2>3 DEF GaugeStep, Gauge, s, r, q
  <2>5. KnownStep(t) BY <1>0, <1>1, <2>1, <2>3 DEF KnownStep, Past, s, r, q
  <2> QED BY <2>4, <2>5
<1>5. ASSUME AfterFailure(t) PROVE GaugeStep(t) /\ KnownStep(t)
  <2>1. /\ pc[t] \in {"transient", "fatal"}
        /\ pc'[t] \in {"exhausted", "backoff"}
        /\ q = WithState(r, FailureState(snap[t]))
    BY <1>0, <1>5 DEF AfterFailure, UpdateRuntime, TypeOK
  <2>2. /\ ~Queueing(t) /\ Executing(t) /\ ~Ended(t)
        /\ ~Queueing(t)' /\ Executing(t)' /\ ~Ended(t)'
    BY <2>1 DEF Queueing, Executing, Ended
  <2> HIDE DEF s, r, q
  <2>3. /\ q.epoch = r.epoch /\ q.running = r.running /\ q.queued = r.queued
        /\ Outcomes(q) = Outcomes(r) /\ q.state # "Absent"
    <3>1. Follows(r, q, r.queued, r.running, 0) BY <1>0, <2>1, UpdateFields DEF FailureState
    <3>2. Outcomes(r) \in Nat BY <1>0, UpdateFields
    <3> QED BY <1>0, <3>1, <3>2 DEF Follows
  <2>4. GaugeStep(t) BY <1>9, <2>2, <2>3 DEF GaugeStep, Gauge, s, r, q
  <2>5. KnownStep(t) BY <1>0, <1>1, <2>1, <2>3 DEF KnownStep, Past, s, r, q
  <2> QED BY <2>4, <2>5
<1>6. ASSUME CountCompletion(t) PROVE GaugeStep(t) /\ KnownStep(t)
  <2>1. /\ pc[t] = "completing" /\ pc'[t] = "release"
        /\ q = CountCompleted(r, snap[t])
    BY <1>0, <1>6 DEF CountCompletion, UpdateRuntime, TypeOK
  <2>2. /\ ~Queueing(t) /\ Executing(t) /\ ~Ended(t)
        /\ ~Queueing(t)' /\ ~Executing(t)' /\ Ended(t)'
    BY <2>1 DEF Queueing, Executing, Ended
  <2> HIDE DEF s, r, q
  <2>3. /\ q.epoch = r.epoch /\ q.running = SaturatingPred(r.running)
        /\ q.queued = r.queued
        /\ Outcomes(q) = Outcomes(r) + 1 /\ q.state # "Absent"
    BY <1>0, <2>1, UpdateFields DEF Follows
  <2>4. GaugeStep(t) BY <1>9, <2>2, <2>3 DEF GaugeStep, Gauge, s, r, q
  <2>5. KnownStep(t) BY <1>0, <1>1, <2>1, <2>3 DEF KnownStep, Past, s, r, q
  <2> QED BY <2>4, <2>5
<1>7. ASSUME CountFailure(t) PROVE GaugeStep(t) /\ KnownStep(t)
  <2>1. /\ pc[t] = "failing" /\ pc'[t] = "release"
        /\ q = CountFailed(r, snap[t])
    BY <1>0, <1>7 DEF CountFailure, UpdateRuntime, TypeOK
  <2>2. /\ ~Queueing(t) /\ Executing(t) /\ ~Ended(t)
        /\ ~Queueing(t)' /\ ~Executing(t)' /\ Ended(t)'
    BY <2>1 DEF Queueing, Executing, Ended
  <2> HIDE DEF s, r, q
  <2>3. /\ q.epoch = r.epoch /\ q.running = SaturatingPred(r.running)
        /\ q.queued = SaturatingPred(r.queued)
        /\ Outcomes(q) = Outcomes(r) + 1 /\ q.state # "Absent"
    BY <1>0, <2>1, UpdateFields DEF Follows
  <2>6. FailedAfterRunning(t)'
    BY <1>1, <1>7 DEF CountFailure, LocationMatchesState, FailedAfterRunning, TypeOK
  <2>4. GaugeStep(t) BY <1>9, <2>2, <2>3, <2>6 DEF GaugeStep, Gauge, s, r, q
  <2>5. KnownStep(t) BY <1>0, <1>1, <2>1, <2>3 DEF KnownStep, Past, s, r, q
  <2> QED BY <2>4, <2>5
<1>8. ASSUME MarkTaskCancelled(t) PROVE GaugeStep(t) /\ KnownStep(t)
  <2>1. /\ pc[t] = "cancelling" /\ pc'[t] \in {"release", "done"}
        /\ tstate[t] \in {"Pending", "Running"}
        /\ q = CountCancelled(r, tstate[t])
    BY <1>0, <1>8
    DEF MarkTaskCancelled, UpdateRuntime, TypeOK, LocationMatchesState
  <2>2. /\ Queueing(t) <=> tstate[t] = "Pending"
        /\ Executing(t) <=> tstate[t] = "Running"
        /\ ~Ended(t) /\ ~Queueing(t)' /\ ~Executing(t)' /\ Ended(t)'
    BY <2>1 DEF Queueing, Executing, Ended
  <2> HIDE DEF s, r, q
  <2>3. /\ q.epoch = r.epoch
        /\ q.running = IF tstate[t] = "Running" THEN SaturatingPred(r.running)
                       ELSE r.running
        /\ q.queued = IF tstate[t] = "Pending" THEN SaturatingPred(r.queued)
                      ELSE r.queued
        /\ Outcomes(q) = Outcomes(r) + 1 /\ q.state # "Absent"
    BY <1>0, <2>1, UpdateFields DEF Follows
  <2>4. /\ Gauge(Queueing(t), Queueing(t)', r.queued, q.queued)
        /\ Gauge(Executing(t), Executing(t)', r.running, q.running)
    BY <2>1, <2>2, <2>3 DEF Gauge
  <2>5. GaugeStep(t) BY <1>9, <2>2, <2>3, <2>4 DEF GaugeStep, s, r, q
  <2>6. KnownStep(t) BY <1>0, <1>1, <2>1, <2>3 DEF KnownStep, Past, s, r, q
  <2> QED BY <2>5, <2>6
<1> QED BY <1>2, <1>3, <1>4, <1>5, <1>6, <1>7, <1>8

\* Users, administrators and the clock move no gauge; a registration starts
\* the gauges of a source again, at a time when a source registered for the
\* first time has no task.
LEMMA EnvironmentGauges ==
  ASSUME TypeOK, SourcesKnown, \A s \in Sources : GaugesOf(s),
         \/ \E t \in Tasks : CancelTask(t)
         \/ \E a \in Admins : AdminStep(a)
         \/ \E s \in Sources : RegisterAdapter(s) \/ BackoffElapses(s)
  PROVE  SourcesKnown' /\ \A s \in Sources : GaugesOf(s)'
<1> DEFINE Same(s) ==
      /\ runtime'[s].epoch = runtime[s].epoch
      /\ runtime'[s].queued = runtime[s].queued
      /\ runtime'[s].running = runtime[s].running
      /\ Outcomes(runtime'[s]) = Outcomes(runtime[s])
<1>0. UNCHANGED <<pc, tstate, attempts, target>> BY EnvironmentFrame
<1>1. \A s : /\ QueueingAt(s)' = QueueingAt(s)
             /\ ExecutingAt(s)' = ExecutingAt(s)
             /\ EndedAt(s)' = EndedAt(s)
             /\ FailedAt(s)' = FailedAt(s)
  BY <1>0 DEF QueueingAt, ExecutingAt, EndedAt, FailedAt, FailedAfterRunning, Queueing, Executing
<1>2. ASSUME NEW s \in Sources, Same(s) PROVE GaugesOf(s)' BY <1>1, <1>2 DEF GaugesOf
<1>3. ASSUME \A s \in Sources :
               /\ Same(s)
               /\ runtime'[s].state = "Absent" <=> runtime[s].state = "Absent",
             \A a \in Admins :
               \/ admin'[a].op = "idle"
               \/ /\ runtime[admin'[a].source].epoch # 0
                  /\ admin'[a].source \in Sources
                  /\ admin'[a].found # "Absent"
      PROVE  SourcesKnown' /\ \A s \in Sources : GaugesOf(s)'
  <2>1. \A s \in Sources : runtime'[s].epoch = runtime[s].epoch BY <1>3
  <2>2. \A t \in Tasks : target[t] \in Sources BY DEF TypeOK
  <2>3. SourcesKnown' BY <1>0, <1>3, <2>1, <2>2, SchedulerAssumption DEF SourcesKnown
  <2> QED BY <1>2, <1>3, <2>3
<1>4. ASSUME runtime' = runtime,
             \A a \in Admins :
               \/ admin'[a].op = "idle"
               \/ /\ runtime[admin'[a].source].epoch # 0
                  /\ admin'[a].source \in Sources
                  /\ admin'[a].found # "Absent"
      PROVE  SourcesKnown' /\ \A s \in Sources : GaugesOf(s)'
  BY <1>3, <1>4
<1>5. \A a \in Admins :
        \/ admin[a].op = "idle"
        \/ /\ runtime[admin[a].source].epoch # 0
           /\ admin[a].source \in Sources
           /\ admin[a].found # "Absent"
  BY DEF SourcesKnown, TypeOK, AdminCall
<1>6. ASSUME NEW z \in Sources, NEW st, st # "Absent",
             runtime[z].state # "Absent",
             runtime' = [runtime EXCEPT ![z] = WithState(@, st)]
      PROVE  \A s \in Sources :
               /\ Same(s)
               /\ runtime'[s].state = "Absent" <=> runtime[s].state = "Absent"
  <2> TAKE s \in Sources
  <2>1. CASE s # z BY <1>6, <2>1 DEF TypeOK
  <2>2. CASE s = z
    <3>1. runtime[s] \in Runtime /\ runtime'[s] = WithState(runtime[s], st) BY <1>6, <2>2 DEF TypeOK
    <3> HIDE DEF Same
    <3>2. \A r \in Runtime : WithState(r, st) =
             [state |-> st, epoch |-> r.epoch,
              queued |-> r.queued, running |-> r.running,
              completed |-> r.completed, failed |-> r.failed,
              cancelled |-> r.cancelled, submitted |-> r.submitted]
      BY DEF WithState, Runtime
    <3>3. Same(s) BY <3>1, <3>2 DEF Same, Outcomes
    <3>4. runtime'[s].state = st BY <3>1, <3>2
    <3> QED BY <1>6, <2>2, <3>3, <3>4
  <2> QED BY <2>1, <2>2
<1>7. ASSUME NEW t \in Tasks, CancelTask(t)
      PROVE  SourcesKnown' /\ \A s \in Sources : GaugesOf(s)'
  <2>1. runtime' = runtime /\ admin' = admin BY <1>7 DEF CancelTask
  <2> QED BY <1>4, <1>5, <2>1
<1>8. ASSUME NEW z \in Sources, BackoffElapses(z)
      PROVE  SourcesKnown' /\ \A s \in Sources : GaugesOf(s)'
  <2>1. runtime' = runtime /\ admin' = admin BY <1>8 DEF BackoffElapses
  <2> QED BY <1>4, <1>5, <2>1
<1>9. ASSUME NEW z \in Sources, RegisterAdapter(z)
      PROVE  SourcesKnown' /\ \A s \in Sources : GaugesOf(s)'
  <2>0. /\ runtime[z].epoch \in Nat
        /\ runtime' = [runtime EXCEPT
                         ![z] = RegisteredRecord(runtime[z].epoch + 1)]
        /\ admin' = admin
    BY <1>9, SchedulerAssumption DEF RegisterAdapter, TypeOK, Runtime
  <2>1. /\ runtime'[z] = RegisteredRecord(runtime[z].epoch + 1)
        /\ \A s \in Sources \ {z} : runtime'[s] = runtime[s]
    BY <2>0 DEF TypeOK
  <2>2. /\ runtime'[z].epoch = runtime[z].epoch + 1
        /\ runtime'[z].queued = 0 /\ runtime'[z].running = 0
        /\ runtime'[z].state = "Registered"
    BY <2>1 DEF RegisteredRecord
  <2>3. /\ \A s \in Sources :
             runtime[s].epoch # 0 => runtime'[s].epoch # 0
        /\ \A s \in Sources :
             runtime'[s].state = "Absent" <=> runtime'[s].epoch = 0
    BY <2>0, <2>1, <2>2 DEF SourcesKnown
  <2>4. SourcesKnown' BY <1>0, <2>0, <2>3, SchedulerAssumption
    DEF SourcesKnown, TypeOK, AdminCall
  <2>5. GaugesOf(z)'
    <3>1. /\ Cardinality(QueueingAt(z)) \in Nat
          /\ Cardinality(ExecutingAt(z)) \in Nat /\ Cardinality(FailedAt(z)) \in Nat
      BY FS_Subset, FS_CardinalityType, SchedulerAssumption
      DEF QueueingAt, ExecutingAt, FailedAt
    <3>2. runtime'[z].epoch <= 1 =>
            Cardinality(ExecutingAt(z)) = 0 /\ Cardinality(QueueingAt(z)) = 0
      <4> SUFFICES ASSUME runtime'[z].epoch <= 1
                   PROVE  Cardinality(ExecutingAt(z)) = 0 /\ Cardinality(QueueingAt(z)) = 0
        OBVIOUS
      <4>1. runtime[z].epoch = 0 BY <2>0, <2>2
      <4>2. ExecutingAt(z) = {} /\ QueueingAt(z) = {}
        BY <4>1 DEF SourcesKnown, ExecutingAt, Executing, QueueingAt, Queueing
      <4> QED BY <4>2, FS_EmptySet
    <3>3. runtime'[z].epoch = 1 => z \notin Started BY <2>0, <2>2 DEF SourcesKnown
    <3> QED BY <1>1, <2>2, <3>1, <3>2, <3>3 DEF GaugesOf
  <2>6. ASSUME NEW s \in Sources \ {z} PROVE GaugesOf(s)' BY <1>2, <2>1
  <2> QED BY <2>4, <2>5, <2>6
<1>10. ASSUME NEW a \in Admins, AdminStep(a)
       PROVE  SourcesKnown' /\ \A s \in Sources : GaugesOf(s)'
  <2>0. /\ IdleAdmin.op = "idle"
        /\ \A b \in Admins : admin[b] \in AdminCall
        /\ \A s \in Sources :
             runtime[s].state = "Absent" <=> runtime[s].epoch = 0
    BY DEF IdleAdmin, TypeOK, SourcesKnown
  <2>1. ASSUME NEW s \in Sources, StartAdapter(a, s) \/ StopAdapter(a, s)
        PROVE  SourcesKnown' /\ \A z \in Sources : GaugesOf(z)'
    <3>1. /\ runtime[s].state # "Absent"
          /\ \E st \in {"Starting", "Stopping"} :
               /\ runtime' = [runtime EXCEPT ![s] = WithState(@, st)]
               /\ \E op : Calls(a, op, s, st)
      BY <2>1 DEF StartAdapter, StopAdapter, SetState
    <3>2. \A z \in Sources :
            /\ Same(z)
            /\ runtime'[z].state = "Absent" <=> runtime[z].state = "Absent"
      BY <1>6, <3>1
    <3>3. \A b \in Admins :
            \/ admin'[b].op = "idle"
            \/ /\ runtime[admin'[b].source].epoch # 0
               /\ admin'[b].source \in Sources
               /\ admin'[b].found # "Absent"
      BY <1>5, <2>0, <3>1 DEF Calls, TypeOK
    <3> QED BY <1>3, <3>2, <3>3
  <2>2. ASSUME StartDone(a) \/ StopDone(a) \/ RefreshDone(a)
        PROVE  SourcesKnown' /\ \A z \in Sources : GaugesOf(z)'
    <3>1. /\ admin[a].op # "idle"
          /\ admin' = [admin EXCEPT ![a] = IdleAdmin]
      BY <2>2 DEF StartDone, StopDone, RefreshDone, Returns
    <3>2. /\ admin[a].source \in Sources /\ admin[a].found # "Absent"
          /\ runtime[admin[a].source].state # "Absent"
      BY <1>5, <2>0, <3>1
    <3>3. \E st : /\ st # "Absent"
                  /\ runtime' = [runtime EXCEPT
                                   ![admin[a].source] = WithState(@, st)]
      BY <2>2, <3>2 DEF StartDone, StopDone, RefreshDone, SetState
    <3>4. \A z \in Sources :
            /\ Same(z)
            /\ runtime'[z].state = "Absent" <=> runtime[z].state = "Absent"
      BY <1>6, <3>2, <3>3
    <3>5. \A b \in Admins :
            \/ admin'[b].op = "idle"
            \/ /\ runtime[admin'[b].source].epoch # 0
               /\ admin'[b].source \in Sources
               /\ admin'[b].found # "Absent"
      BY <1>5, <2>0, <3>1 DEF TypeOK
    <3> QED BY <1>3, <3>4, <3>5
  <2>3. ASSUME \/ \E s \in Sources : RefreshHealth(a, s)
               \/ StopCancelTasks(a) \/ RefreshProbe(a)
        PROVE  SourcesKnown' /\ \A z \in Sources : GaugesOf(z)'
    <3>1. runtime' = runtime BY <2>3 DEF RefreshHealth, StopCancelTasks, RefreshProbe, schedVars
    <3>2. \E op, s, f : /\ Calls(a, op, s, f)
                        /\ s \in Sources /\ runtime[s].epoch # 0
                        /\ f # "Absent"
      <4>1. ASSUME NEW s \in Sources, RefreshHealth(a, s)
            PROVE  /\ Calls(a, "checking", s, runtime[s].state)
                   /\ runtime[s].epoch # 0 /\ runtime[s].state # "Absent"
        BY <2>0, <4>1 DEF RefreshHealth
      <4>2. CASE StopCancelTasks(a) BY <1>5, <4>2 DEF StopCancelTasks
      <4>3. CASE RefreshProbe(a) BY <1>5, <4>3 DEF RefreshProbe, ProbedState
      <4> QED BY <2>3, <4>1, <4>2, <4>3
    <3>3. \A b \in Admins :
            \/ admin'[b].op = "idle"
            \/ /\ runtime[admin'[b].source].epoch # 0
               /\ admin'[b].source \in Sources
               /\ admin'[b].found # "Absent"
      BY <1>5, <3>2 DEF Calls, TypeOK
    <3> QED BY <1>4, <3>1, <3>3
  <2> QED BY <1>10, <2>1, <2>2, <2>3 DEF AdminStep
<1> QED BY <1>7, <1>8, <1>9, <1>10

LEMMA InitGauges ==
  Init => SourcesKnown /\ \A s \in Sources : GaugesOf(s)
<1> SUFFICES ASSUME Init PROVE SourcesKnown /\ \A s \in Sources : GaugesOf(s) OBVIOUS
<1>1. /\ \A t \in Tasks : pc[t] = "idle"
      /\ \A a \in Admins : admin[a] = IdleAdmin
      /\ \A s \in Sources : IF s \in Started THEN runtime[s] = StartedRecord
                             ELSE runtime[s] = AbsentRecord
  BY DEF Init
<1>2. /\ StartedRecord.epoch = 1 /\ StartedRecord.state = "Healthy"
      /\ StartedRecord.queued = 0 /\ StartedRecord.running = 0
      /\ Outcomes(StartedRecord) = 0
      /\ AbsentRecord.epoch = 0 /\ AbsentRecord.state = "Absent"
      /\ AbsentRecord.queued = 0 /\ AbsentRecord.running = 0
  BY DEF StartedRecord, AbsentRecord, RegisteredRecord, Outcomes
<1>3. SourcesKnown
  <2>1. IdleAdmin.op = "idle" BY DEF IdleAdmin
  <2>2. /\ \A s \in Sources : runtime[s].state = "Absent" <=> runtime[s].epoch = 0
        /\ \A s \in Started : runtime[s].epoch # 0
    BY <1>1, <1>2, SchedulerAssumption
  <2>3. \A t \in Tasks : /\ pc[t] # "absent"
                         /\ pc[t] \in Past
    BY <1>1 DEF Past
  <2>4. \A a \in Admins : admin[a].op = "idle" BY <1>1, <2>1
  <2> QED BY <2>2, <2>3, <2>4 DEF SourcesKnown, Past
<1>4. \A s : QueueingAt(s) = {} /\ ExecutingAt(s) = {} /\ EndedAt(s) = {} /\ FailedAt(s) = {}
  BY <1>1 DEF QueueingAt, ExecutingAt, EndedAt, FailedAt, FailedAfterRunning, Queueing, Executing
<1>5. \A s \in Sources : GaugesOf(s) BY <1>1, <1>2, <1>4, FS_EmptySet DEF GaugesOf
<1> QED BY <1>3, <1>5

LEMMA NextGauges ==
  ASSUME TypeOK, TypeOK', LocationMatchesState, SourcesKnown,
         \A s \in Sources : GaugesOf(s), [Next]_vars
  PROVE  SourcesKnown' /\ \A s \in Sources : GaugesOf(s)'
<1>1. CASE UNCHANGED vars
  <2> USE <1>1 DEF vars
  <2>1. \A s : /\ QueueingAt(s)' = QueueingAt(s) /\ ExecutingAt(s)' = ExecutingAt(s)
               /\ EndedAt(s)' = EndedAt(s) /\ FailedAt(s)' = FailedAt(s)
    BY DEF QueueingAt, ExecutingAt, EndedAt, FailedAt, FailedAfterRunning, Queueing, Executing
  <2>2. \A s \in Sources : GaugesOf(s)' BY <2>1 DEF GaugesOf
  <2> QED BY <2>2 DEF SourcesKnown
<1>2. ASSUME NEW t \in Tasks,
             CreateTaskRecord(t) \/ AcquirePermit(t) \/ TaskStep(t)
      PROVE  SourcesKnown' /\ \A s \in Sources : GaugesOf(s)'
  <2>1. OnlyTask(t) /\ GaugeStep(t) /\ KnownStep(t)
    BY <1>2, QuietSteps, ReserveStep, CountingStep DEF TaskStep
  <2>2. target[t] \in Sources BY DEF TypeOK
  <2>3. GaugesOf(target[t])' BY <2>1, <2>2, StepKeepsGauges
  <2>4. target' = target BY <2>1 DEF OnlyTask
  <2>5. ASSUME NEW s \in Sources PROVE GaugesOf(s)'
    <3>1. CASE s # target[t] BY <2>1, <3>1, OthersKeepGauges
    <3>2. CASE s = target[t]
      <4>1. GaugesOf(target[t])' <=> GaugesOf(s)'
        BY <2>4, <3>2 DEF GaugesOf, QueueingAt, ExecutingAt, EndedAt, FailedAt
      <4> QED BY <2>3, <4>1
    <3> QED BY <3>1, <3>2
  <2> QED BY <2>1, <2>5, StepKeepsKnown
<1> QED BY <1>1, <1>2, EnvironmentGauges DEF Next

\* Every task stands where the tasks map says; the gauges of a health snapshot
\* never show more than the tasks of the source, and unless the source was
\* registered anew running_tasks is exact, queued_tasks is short by at most
\* the queries that ran and failed, and every ended query is counted once,
\* for any number of tasks, adapters and stops.
THEOREM GaugesAreFaithful == Spec => []GaugesFaithful
<1> DEFINE Inv == SourcesKnown /\ \A s \in Sources : GaugesOf(s)
<1>1. Init => Inv BY InitGauges
<1>2. TypeOK /\ TypeOK' /\ LocationMatchesState /\ Inv /\ [Next]_vars => Inv' BY NextGauges
<1>3. LocationMatchesState /\ Inv => GaugesFaithful BY GaugesBySource DEF GaugesFaithful
<1> HIDE DEF Inv
<1> QED BY <1>1, <1>2, <1>3, TypeCorrect, LocationCorrect, PTL DEF Spec
=============================================================================
