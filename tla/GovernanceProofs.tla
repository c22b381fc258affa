-------------------------- MODULE GovernanceProofs --------------------------
(***************************************************************************)
(* Grants under projects, and under HR synchronisation.  Proved:           *)
(* RegistryMatchesTable and EndedStaysEnded of ProjectLifecycle, and       *)
(* EventsAppliedOnce, DeparturesFound and GrantsFollowHr of HrSync, the    *)
(* last where the eligibility rule requires an active HR record.           *)
(*                                                                         *)
(* RegistryMatchesTable speaks of the moment when all is done, and says    *)
(* nothing of the jobs and requests before it.  GovernanceInv says for     *)
(* each of them which grants and projects it has changed in memory and     *)
(* not yet in the tables (InStep): everything that differs is on the list  *)
(* of somebody under way.  That holds while no two writers have met and    *)
(* no statement has failed (Calm); the types and the fact that a job takes *)
(* grants out of Active and Suspended only hold always, and make up        *)
(* GrantsInv.                                                              *)
(*                                                                         *)
(* HrInv says of the cursor of HR what it says of every call that may save *)
(* it later: everything up to the cursor a call has read is recorded, and  *)
(* what it is about to write is recorded or among the items it still has   *)
(* to take (Covered).  HrSearchInv says of the watermark of LDAP, wherever *)
(* a copy of it is, that no unread change is before it (InReach), and that *)
(* whoever left is stored or among the items of a call (LeaversFound).     *)
(* HrFollowInv adds who sees to a grant that contradicts the row an event  *)
(* wrote: the job behind the event (HandledBy), and that no callback has   *)
(* checked an older row (CallbacksFresh).                                  *)
(***************************************************************************)
EXTENDS ProjectLifecycle, HrSync, TLAPS, WellFoundedInduction

----
(* Records. *)

People == [Employees -> OrgUser \cup {Missing}]

JobRecord ==
  [pc : {"idle", "load", "apply", "row", "event"}, org : People,
   trigger : Triggers \cup {"SchedulerTick", "HrSync"}, whose : SUBSET Employees,
   todo : SUBSET Transition, now : SUBSET Transition]

\* A job takes grants out of Active and Suspended only.
JobOK(r) ==
  /\ IF r.pc \in {"row", "event"} THEN \E t \in Transition : r.now = {t}
     ELSE r.now = {}
  /\ r.pc \in {"idle", "load"} => r.todo = {}
  /\ \A t \in r.todo \cup r.now : t.from \in {"Active", "Suspended"}

JobsOK ==
  /\ lifecycleJob \in [LifecycleJobs -> JobRecord]
  /\ \A j \in LifecycleJobs : JobOK(lifecycleJob[j])

ActivationRecord ==
  [pc : {"none", "checked", "saved", "over"}, org : OrgUser \cup {Missing}]

\* A grant is nowhere before its activation, and not in memory before its row.
ActivationOK ==
  /\ activation \in [Grants -> ActivationRecord]
  /\ \A g \in Grants :
       /\ activation[g].pc \in {"none", "checked"} => grantRow[g] = "none"
       /\ activation[g].pc \in {"none", "checked", "saved"} => grantMem[g] = "none"

StatusOK ==
  /\ grantMem \in [Grants -> Status] /\ grantRow \in [Grants -> Status]
  /\ binding \in [Grants -> Binding \cup {NoOne}]
  /\ \A g \in Grants : grantRow[g] # "none" => binding[g] \in Binding

WorldOK ==
  /\ directory \in People
  /\ roleHolders \subseteq Employees
  /\ lapsed \subseteq Grants
  /\ lifecycleFaults \in Nat

GrantsInv ==
  JobsOK /\ ActivationOK /\ StatusOK /\ WorldOK

AdminRecord ==
  [pc : {"idle", "create", "grants", "purge", "project", "rows",
         "suspendedRows", "snapshots"},
   project : Projects, from : ProjectStates \cup {"none"},
   to : ProjectStates \cup {"none"}, purged : BOOLEAN]

AdminOK(r) ==
  /\ r.pc # "idle" => r.to \in ProjectStates
  /\ r.pc \in {"purge", "snapshots", "suspendedRows"} => r.to \in {"Archived", "Deleted"}
  /\ r.purged => r.to \in {"Archived", "Deleted"}

AdminsOK ==
  /\ admin \in [Admins -> AdminRecord]
  /\ \A a \in Admins : AdminOK(admin[a])

\* The projects and their snapshots.
ProjectTables ==
  /\ projectMem \in [Projects -> ProjectStates \cup {"none"}]
  /\ projectRow \in [Projects -> ProjectStates \cup {"none"}]
  /\ stored \subseteq Projects /\ storedRow \subseteq Projects
  /\ governanceRestarts \in Nat

ProjectsInv == ProjectTables /\ AdminsOK

\* Together they are the types that RegistryMatchesTable states.
LEMMA TypesFollow == GrantsInv /\ ProjectsInv => GrantsTypeOK /\ ProjectsTypeOK
<1> SUFFICES ASSUME GrantsInv, ProjectsInv PROVE GrantsTypeOK /\ ProjectsTypeOK OBVIOUS
<1>1. \A j \in LifecycleJobs :
        /\ lifecycleJob[j].pc \in {"idle", "load", "apply", "row", "event"}
        /\ lifecycleJob[j].todo \subseteq Transition
        /\ IF lifecycleJob[j].pc \in {"row", "event"}
           THEN \E t \in Transition : lifecycleJob[j].now = {t}
           ELSE lifecycleJob[j].now = {}
  BY DEF GrantsInv, JobsOK, JobOK, JobRecord
<1>2. \A g \in Grants : activation[g].pc \in {"none", "checked", "saved", "over"}
  BY DEF GrantsInv, ActivationOK, ActivationRecord
<1>3. GrantsTypeOK
  BY <1>1, <1>2 DEF GrantsInv, StatusOK, WorldOK, ProjectsInv, ProjectTables, People, GrantsTypeOK
<1>4. ProjectsTypeOK BY DEF ProjectsInv, ProjectTables, AdminsOK, AdminOK, AdminRecord, ProjectsTypeOK
<1> QED BY <1>3, <1>4

----
(* Operators. *)

LEMMA MissingTyped == [u \in Employees |-> Missing] \in People
  BY DEF People

LEMMA IdleJobTyped ==
  /\ IdleLifecycleJob \in JobRecord /\ JobOK(IdleLifecycleJob)
  /\ IdleLifecycleJob.pc = "idle"
  BY MissingTyped DEF IdleLifecycleJob, JobRecord, JobOK

LEMMA IdleAdminTyped ==
  /\ IdleAdmin \in AdminRecord /\ AdminOK(IdleAdmin)
  /\ IdleAdmin.pc = "idle" /\ IdleAdmin.purged = FALSE
<1>1. (CHOOSE p \in Projects : TRUE) \in Projects BY ProjectAssumption
<1> QED BY <1>1 DEF IdleAdmin, AdminRecord, AdminOK

LEMMA EvaluateTyped ==
  ASSUME grantRow \in [Grants -> Status], NEW g \in Grants, NEW p, NEW trigger
  PROVE  EvaluateGrant(g, p, trigger) \in Status
  BY DEF EvaluateGrant, AfterHrSync, Status

LEMMA RegrantedTyped ==
  ASSUME NEW statuses \in [Grants -> Status], NEW p,
         NEW from \in {"Active", "Suspended"},
         NEW to \in {"Active", "Suspended", "Revoked"}
  PROVE  /\ Regranted(statuses, p, from, to) \in [Grants -> Status]
         /\ \A g \in Grants : statuses[g] \notin {"Active", "Suspended"}
              => Regranted(statuses, p, from, to)[g] = statuses[g]
         /\ \A g \in Grants : Regranted(statuses, p, from, to)[g] = "none"
              => statuses[g] = "none"
  BY DEF Regranted, Status

LEMMA ChangedTyped ==
  ASSUME NEW statuses \in [Grants -> Status], NEW request
  PROVE  /\ ChangedGrants(request, statuses) \in [Grants -> Status]
         /\ \A g \in Grants : statuses[g] \notin {"Active", "Suspended"}
              => ChangedGrants(request, statuses)[g] = statuses[g]
<1> DEFINE p == request.project
           r == Regranted(statuses, p, "Active", "Revoked")
<1>1. r \in [Grants -> Status]
      /\ \A g \in Grants : statuses[g] \notin {"Active", "Suspended"} => r[g] = statuses[g]
  BY RegrantedTyped
<1>2. /\ Regranted(r, p, "Suspended", "Revoked") \in [Grants -> Status]
      /\ \A g \in Grants : r[g] \notin {"Active", "Suspended"}
              => Regranted(r, p, "Suspended", "Revoked")[g] = r[g]
  BY <1>1, RegrantedTyped
<1>3. /\ Regranted(statuses, p, "Active", "Suspended") \in [Grants -> Status]
      /\ \A g \in Grants : statuses[g] \notin {"Active", "Suspended"}
           => Regranted(statuses, p, "Active", "Suspended")[g] = statuses[g]
  BY RegrantedTyped
<1>4. /\ Regranted(statuses, p, "Suspended", "Active") \in [Grants -> Status]
      /\ \A g \in Grants : statuses[g] \notin {"Active", "Suspended"}
           => Regranted(statuses, p, "Suspended", "Active")[g] = statuses[g]
  BY RegrantedTyped
<1> QED BY <1>1, <1>2, <1>3, <1>4 DEF ChangedGrants

----
(* Jobs keep to their records. *)

LEMMA JobsKept ==
  ASSUME JobsOK, NEW j \in LifecycleJobs, NEW r \in JobRecord, JobOK(r),
         lifecycleJob' = [lifecycleJob EXCEPT ![j] = r]
  PROVE  /\ JobsOK'
         /\ lifecycleJob'[j] = r
         /\ \A k \in LifecycleJobs \ {j} : lifecycleJob'[k] = lifecycleJob[k]
<1>1. lifecycleJob' \in [LifecycleJobs -> JobRecord] BY DEF JobsOK
<1>2. /\ lifecycleJob'[j] = r
      /\ \A k \in LifecycleJobs \ {j} : lifecycleJob'[k] = lifecycleJob[k]
  BY DEF JobsOK
<1>3. \A k \in LifecycleJobs : JobOK(lifecycleJob'[k]) BY <1>2 DEF JobsOK
<1> QED BY <1>1, <1>2, <1>3 DEF JobsOK

LEMMA StartJobKeeps ==
  ASSUME JobsOK, NEW j \in LifecycleJobs, NEW trigger \in Triggers \cup {"SchedulerTick", "HrSync"},
         NEW whose \in SUBSET Employees, NEW org \in People, StartJob(j, trigger, whose, org)
  PROVE  /\ JobsOK'
         /\ lifecycleJob'[j].pc = "load" /\ lifecycleJob'[j].todo = {} /\ lifecycleJob'[j].now = {}
         /\ \A k \in LifecycleJobs \ {j} : lifecycleJob'[k] = lifecycleJob[k]
<1> DEFINE r == [IdleLifecycleJob EXCEPT !.pc = "load", !.org = org,
                                         !.trigger = trigger, !.whose = whose]
<1>0. IdleLifecycleJob \in JobRecord /\ IdleLifecycleJob.todo = {} /\ IdleLifecycleJob.now = {}
  BY IdleJobTyped DEF IdleLifecycleJob
<1>1. r \in JobRecord BY <1>0 DEF JobRecord
<1>a. r.pc = "load" /\ r.todo = {} /\ r.now = {} BY <1>0 DEF JobRecord
<1>2. JobOK(r) BY <1>a DEF JobOK
<1>3. lifecycleJob' = [lifecycleJob EXCEPT ![j] = r] BY DEF StartJob
<1> HIDE DEF r
<1> QED BY <1>1, <1>a, <1>2, <1>3, JobsKept

LEMMA LoadKeeps ==
  ASSUME GrantsInv, NEW j \in LifecycleJobs, LoadLifecycleGrants(j)
  PROVE  /\ JobsOK'
         /\ lifecycleJob'[j].pc = "apply"
         /\ \A t \in lifecycleJob'[j].todo : t.grant \in Grants /\ t.from = grantRow[t.grant]
         /\ \A t, u \in lifecycleJob'[j].todo : t.grant = u.grant => t = u
         /\ \A k \in LifecycleJobs \ {j} : lifecycleJob'[k] = lifecycleJob[k]
<1> DEFINE job == lifecycleJob[j]
           trigger(g) == IF j = GovernanceJob THEN ProjectLifecycleTrigger(g)
                         ELSE job.trigger
           next(g) == EvaluateGrant(g, job.org[Applicant[g]], trigger(g))
           found == {g \in Grants : /\ grantRow[g] \in {"Active", "Suspended"}
                                    /\ Applicant[g] \in job.whose}
           open == {h \in found : next(h) # grantRow[h]}
           todo == {[grant |-> g, from |-> grantRow[g], to |-> next(g)] : g \in open}
           r == [job EXCEPT !.pc = "apply", !.org = IdleLifecycleJob.org, !.whose = {},
                            !.trigger = IdleLifecycleJob.trigger, !.todo = todo]
<1>1. \A g \in Grants : next(g) \in Status
  <2> SUFFICES ASSUME NEW g \in Grants PROVE next(g) \in Status OBVIOUS
  <2> QED BY EvaluateTyped DEF GrantsInv, StatusOK
<1>2. \A g \in open : g \in Grants /\ grantRow[g] \in {"Active", "Suspended"} OBVIOUS
<1>a. lifecycleJob' = [lifecycleJob EXCEPT ![j] = r] /\ job.pc = "load" BY DEF LoadLifecycleGrants
<1> HIDE DEF next, open
<1>3. /\ todo \subseteq Transition
      /\ \A t \in todo : t.from \in {"Active", "Suspended"}
      /\ \A t \in todo : t.grant \in Grants /\ t.from = grantRow[t.grant]
      /\ \A t, u \in todo : t.grant = u.grant => t = u
  BY <1>1, <1>2 DEF Transition, Status
<1> HIDE DEF todo
<1>4. job \in JobRecord /\ JobOK(job) BY DEF GrantsInv, JobsOK
<1>5. IdleLifecycleJob.org \in People /\ IdleLifecycleJob.trigger = "SchedulerTick"
  BY MissingTyped DEF IdleLifecycleJob
<1>6. job.now = {} BY <1>a, <1>4 DEF JobOK
<1>7. r.pc = "apply" /\ r.todo = todo /\ r.now = {} BY <1>4, <1>6 DEF JobRecord
<1>b. r \in JobRecord BY <1>3, <1>4, <1>5 DEF JobRecord
<1> HIDE DEF r
<1>8. JobOK(r) BY <1>3, <1>7 DEF JobOK
<1>9. JobsOK BY DEF GrantsInv
<1> QED BY <1>a, <1>b, <1>3, <1>7, <1>8, <1>9, JobsKept

LEMMA ApplyKeeps ==
  ASSUME GrantsInv, NEW j \in LifecycleJobs, NEW t, ApplyLifecycleTransition(j, t)
  PROVE  /\ JobsOK'
         /\ t \in Transition /\ t.from \in {"Active", "Suspended"}
         /\ lifecycleJob'[j].pc = "row" /\ lifecycleJob'[j].now = {t}
         /\ lifecycleJob'[j].todo = lifecycleJob[j].todo \ {t}
         /\ \A k \in LifecycleJobs \ {j} : lifecycleJob'[k] = lifecycleJob[k]
<1> DEFINE job == lifecycleJob[j]
           r == [job EXCEPT !.pc = "row", !.todo = job.todo \ {t}, !.now = {t}]
<1>1. job \in JobRecord /\ JobOK(job) /\ JobsOK BY DEF GrantsInv, JobsOK
<1>2. lifecycleJob' = [lifecycleJob EXCEPT ![j] = r] /\ t \in job.todo BY DEF ApplyLifecycleTransition
<1>3. t \in Transition /\ t.from \in {"Active", "Suspended"} BY <1>1, <1>2 DEF JobOK, JobRecord
<1>4. r.pc = "row" /\ r.now = {t} /\ r.todo = job.todo \ {t} BY <1>1 DEF JobRecord
<1>5. r \in JobRecord BY <1>1, <1>3 DEF JobRecord
<1> HIDE DEF r
<1>6. JobOK(r) BY <1>1, <1>3, <1>4 DEF JobOK
<1> QED BY <1>1, <1>2, <1>3, <1>4, <1>5, <1>6, JobsKept

LEMMA RowKeeps ==
  ASSUME GrantsInv, NEW j \in LifecycleJobs, UpdateGrantRow(j)
  PROVE  /\ JobsOK'
         /\ \A k \in LifecycleJobs \ {j} : lifecycleJob'[k] = lifecycleJob[k]
         /\ \E t \in Transition :
              /\ lifecycleJob[j].now = {t} /\ t.from \in {"Active", "Suspended"}
              /\ \/ /\ grantRow' = [grantRow EXCEPT ![t.grant] = IF @ = t.from THEN t.to ELSE @]
                    /\ lifecycleJob'[j].pc = "event" /\ lifecycleJob'[j].now = {t}
                    /\ lifecycleJob'[j].todo = lifecycleJob[j].todo
                    /\ lifecycleFaults' = lifecycleFaults
                 \/ /\ grantRow' = grantRow
                    /\ lifecycleFaults' = lifecycleFaults + 1
<1> DEFINE job == lifecycleJob[j]
           r == [job EXCEPT !.pc = "event"]
<1>1. job \in JobRecord /\ JobOK(job) /\ JobsOK /\ job.pc = "row" BY DEF GrantsInv, JobsOK, UpdateGrantRow
<1>2. PICK t \in Transition : job.now = {t} BY <1>1 DEF JobOK
<1>3. t.from \in {"Active", "Suspended"} BY <1>1, <1>2 DEF JobOK
<1>4. CASE /\ \A u \in job.now :
                grantRow' = [grantRow EXCEPT ![u.grant] = IF @ = u.from THEN u.to ELSE @]
           /\ lifecycleJob' = [lifecycleJob EXCEPT ![j].pc = "event"]
           /\ UNCHANGED lifecycleFaults
  <2>1. r = [pc |-> "event", org |-> job.org, trigger |-> job.trigger,
             whose |-> job.whose, todo |-> job.todo, now |-> job.now]
    BY <1>1 DEF JobRecord
  <2>2. lifecycleJob' = [lifecycleJob EXCEPT ![j] = r] BY <1>4
  <2> HIDE DEF r
  <2>3. r \in JobRecord BY <1>1, <2>1 DEF JobRecord
  <2>4. JobOK(r) /\ r.pc = "event" /\ r.now = {t} /\ r.todo = job.todo BY <1>1, <1>2, <2>1 DEF JobOK
  <2>5. grantRow' = [grantRow EXCEPT ![t.grant] = IF @ = t.from THEN t.to ELSE @] BY <1>2, <1>4
  <2> QED BY <1>1, <1>2, <1>3, <1>4, <2>2, <2>3, <2>4, <2>5, JobsKept
<1>5. CASE /\ LifecycleFault
           /\ lifecycleJob' = [lifecycleJob EXCEPT ![j] = IdleLifecycleJob]
           /\ UNCHANGED grantRow
  BY <1>1, <1>2, <1>3, <1>5, IdleJobTyped, JobsKept DEF LifecycleFault
<1> QED BY <1>4, <1>5 DEF UpdateGrantRow

LEMMA EventKeeps ==
  ASSUME GrantsInv, NEW j \in LifecycleJobs, SaveLifecycleEvent(j)
  PROVE  /\ JobsOK'
         /\ \A k \in LifecycleJobs \ {j} : lifecycleJob'[k] = lifecycleJob[k]
         /\ \/ /\ lifecycleJob'[j].pc = "apply" /\ lifecycleJob'[j].now = {}
               /\ lifecycleJob'[j].todo = lifecycleJob[j].todo
               /\ lifecycleFaults' = lifecycleFaults
            \/ lifecycleFaults' = lifecycleFaults + 1
<1> DEFINE job == lifecycleJob[j]
           r == [job EXCEPT !.pc = "apply", !.now = {}]
<1>1. job \in JobRecord /\ JobOK(job) /\ JobsOK BY DEF GrantsInv, JobsOK
<1>2. CASE /\ lifecycleJob' = [lifecycleJob EXCEPT ![j] = [@ EXCEPT !.pc = "apply", !.now = {}]]
           /\ UNCHANGED lifecycleFaults
  <2>1. r.pc = "apply" /\ r.now = {} /\ r.todo = job.todo BY <1>1 DEF JobRecord
  <2>2. lifecycleJob' = [lifecycleJob EXCEPT ![j] = r] BY <1>2
  <2>3. r \in JobRecord BY <1>1 DEF JobRecord
  <2> HIDE DEF r
  <2>4. JobOK(r) BY <1>1, <2>1 DEF JobOK
  <2> QED BY <1>1, <1>2, <2>1, <2>2, <2>3, <2>4, JobsKept
<1>3. CASE /\ LifecycleFault
           /\ lifecycleJob' = [lifecycleJob EXCEPT ![j] = IdleLifecycleJob]
  BY <1>1, <1>3, IdleJobTyped, JobsKept DEF LifecycleFault
<1> QED BY <1>2, <1>3 DEF SaveLifecycleEvent

LEMMA EndKeeps ==
  ASSUME GrantsInv, NEW j \in LifecycleJobs, EndJob(j)
  PROVE  /\ JobsOK'
         /\ lifecycleJob'[j].pc = "idle"
         /\ \A k \in LifecycleJobs \ {j} : lifecycleJob'[k] = lifecycleJob[k]
  BY IdleJobTyped, JobsKept DEF GrantsInv, EndJob
----
(* Grants keep to theirs, in every step that does something to them. *)

\* Why an ended grant stays ended, in a step without a restart.
EndedKept ==
  \A g \in Grants :
    /\ grantRow[g] \in {"Revoked", "Expired"} => grantRow'[g] = grantRow[g]
    /\ grantMem[g] \in {"Revoked", "Expired"} => grantMem'[g] = grantMem[g]

LEMMA MovedGrant ==
  ASSUME NEW f \in [Grants -> Status], NEW t \in Transition,
         t.from \in {"Active", "Suspended"},
         NEW h, h = [f EXCEPT ![t.grant] = IF @ = t.from THEN t.to ELSE @]
  PROVE  /\ h \in [Grants -> Status]
         /\ \A g \in Grants : f[g] \notin {"Active", "Suspended"} => h[g] = f[g]
         /\ f[t.grant] = t.from => h[t.grant] = t.to
         /\ \A g \in Grants \ {t.grant} : h[g] = f[g]
<1>1. t.grant \in Grants /\ t.to \in Status BY DEF Transition
<1> QED BY <1>1

LEMMA JobStepKeeps ==
  ASSUME GrantsInv, NEW j \in LifecycleJobs, JobStep(j)
  PROVE  /\ JobsOK' /\ ActivationOK' /\ StatusOK' /\ WorldOK' /\ EndedKept
<1>1. CASE LoadLifecycleGrants(j) \/ EndJob(j)
  <2>1. UNCHANGED <<directory, roleHolders, binding, grantMem, grantRow, lapsed,
                    activation, lifecycleFaults>>
    BY <1>1 DEF LoadLifecycleGrants, EndJob
  <2>2. JobsOK' BY <1>1, LoadKeeps, EndKeeps
  <2> QED BY <2>1, <2>2 DEF GrantsInv, ActivationOK, StatusOK, WorldOK, EndedKept
<1>2. ASSUME NEW t \in lifecycleJob[j].todo, ApplyLifecycleTransition(j, t)
      PROVE  /\ JobsOK' /\ ActivationOK' /\ StatusOK' /\ WorldOK' /\ EndedKept
  <2>1. UNCHANGED <<directory, roleHolders, binding, grantRow, lapsed, activation,
                    lifecycleFaults>>
    BY <1>2 DEF ApplyLifecycleTransition
  <2>2. JobsOK' /\ t \in Transition /\ t.from \in {"Active", "Suspended"} BY <1>2, ApplyKeeps
  <2>3. grantMem' = [grantMem EXCEPT ![t.grant] = IF @ = t.from THEN t.to ELSE @]
    BY <1>2 DEF ApplyLifecycleTransition
  <2>4. grantMem \in [Grants -> Status] BY DEF GrantsInv, StatusOK
  <2>5. /\ grantMem' \in [Grants -> Status]
        /\ \A g \in Grants : grantMem[g] \notin {"Active", "Suspended"} => grantMem'[g] = grantMem[g]
    BY <2>2, <2>3, <2>4, MovedGrant
  <2> QED BY <2>1, <2>2, <2>5 DEF GrantsInv, ActivationOK, StatusOK, WorldOK, EndedKept
<1>3. CASE UpdateGrantRow(j)
  <2>1. UNCHANGED <<directory, roleHolders, binding, grantMem, lapsed, activation>>
    BY <1>3 DEF UpdateGrantRow
  <2>2. JobsOK' BY <1>3, RowKeeps
  <2>3. PICK t \in Transition :
          /\ t.from \in {"Active", "Suspended"}
          /\ \/ /\ grantRow' = [grantRow EXCEPT ![t.grant] = IF @ = t.from THEN t.to ELSE @]
                /\ lifecycleFaults' = lifecycleFaults
             \/ /\ grantRow' = grantRow
                /\ lifecycleFaults' = lifecycleFaults + 1
    BY <1>3, RowKeeps
  <2>4. grantRow \in [Grants -> Status] /\ lifecycleFaults \in Nat BY DEF GrantsInv, StatusOK, WorldOK
  <2>5. /\ grantRow' \in [Grants -> Status]
        /\ \A g \in Grants : grantRow[g] \notin {"Active", "Suspended"} => grantRow'[g] = grantRow[g]
    BY <2>3, <2>4, MovedGrant
  <2>6. lifecycleFaults' \in Nat BY <2>3, <2>4
  <2> QED BY <2>1, <2>2, <2>5, <2>6 DEF GrantsInv, ActivationOK, StatusOK, WorldOK, EndedKept
<1>4. CASE SaveLifecycleEvent(j)
  <2>1. UNCHANGED <<directory, roleHolders, binding, grantMem, grantRow, lapsed, activation>>
    BY <1>4 DEF SaveLifecycleEvent
  <2>2. JobsOK' /\ (lifecycleFaults' = lifecycleFaults \/ lifecycleFaults' = lifecycleFaults + 1)
    BY <1>4, EventKeeps
  <2> QED BY <2>1, <2>2 DEF GrantsInv, ActivationOK, StatusOK, WorldOK, EndedKept
<1> QED BY <1>1, <1>2, <1>3, <1>4 DEF JobStep

LEMMA ActivationKeeps ==
  ASSUME GrantsInv, NEW g \in Grants,
         CheckActivation(g) \/ SaveGrant(g) \/ RegisterGrant(g)
  PROVE  JobsOK' /\ ActivationOK' /\ StatusOK' /\ WorldOK' /\ EndedKept
<1>1. /\ activation \in [Grants -> ActivationRecord]
      /\ grantRow \in [Grants -> Status] /\ grantMem \in [Grants -> Status]
      /\ binding \in [Grants -> Binding \cup {NoOne}]
      /\ directory \in People /\ lifecycleFaults \in Nat
      /\ Applicant[g] \in Employees
  BY GrantAssumption DEF GrantsInv, ActivationOK, StatusOK, WorldOK
<1>2. UNCHANGED <<lifecycleJob, directory, roleHolders, lapsed>>
  BY DEF CheckActivation, SaveGrant, RegisterGrant
<1>3. JobsOK' BY <1>2 DEF GrantsInv, JobsOK
<1>4. CASE CheckActivation(g)
  <2>1. [pc |-> "checked", org |-> directory[Applicant[g]]] \in ActivationRecord
    BY <1>1 DEF ActivationRecord, People
  <2>2. /\ activation' \in [Grants -> ActivationRecord]
        /\ activation[g].pc = "none" /\ activation'[g].pc = "checked"
        /\ \A h \in Grants \ {g} : activation'[h] = activation[h]
    BY <1>1, <1>4, <2>1 DEF CheckActivation
  <2>3. UNCHANGED <<grantMem, grantRow, binding, lifecycleFaults>> BY <1>4 DEF CheckActivation
  <2> QED BY <1>2, <1>3, <2>2, <2>3 DEF GrantsInv, ActivationOK, StatusOK, WorldOK, EndedKept
<1>5. CASE SaveGrant(g)
  <2> DEFINE p == activation[g].org
             b == [department |-> IF p = Missing THEN DefaultDepartment ELSE p.department,
                   manager |-> p.manager]
  <2>1. p \in OrgUser \cup {Missing} BY <1>1 DEF ActivationRecord
  <2>2. b \in Binding BY <2>1, GrantAssumption DEF Binding, OrgUser, Missing
  <2>3. /\ [pc |-> "saved", org |-> Missing] \in ActivationRecord
        /\ [pc |-> "over", org |-> Missing] \in ActivationRecord
    BY DEF ActivationRecord
  <2>4. activation[g].pc = "checked" /\ grantMem' = grantMem BY <1>5 DEF SaveGrant
  <2>5. CASE /\ grantRow' = [grantRow EXCEPT ![g] = "Active"]
             /\ binding' = [binding EXCEPT ![g] = b]
             /\ activation' = [activation EXCEPT ![g] = [pc |-> "saved", org |-> Missing]]
             /\ UNCHANGED lifecycleFaults
    <3>1. /\ activation' \in [Grants -> ActivationRecord]
          /\ activation'[g].pc = "saved"
          /\ \A h \in Grants \ {g} : activation'[h] = activation[h]
      BY <1>1, <2>3, <2>5
    <3>2. /\ grantRow' \in [Grants -> Status] /\ grantRow'[g] = "Active"
          /\ \A h \in Grants \ {g} : grantRow'[h] = grantRow[h]
      BY <1>1, <2>5 DEF Status
    <3>3. /\ binding' \in [Grants -> Binding \cup {NoOne}] /\ binding'[g] = b
          /\ \A h \in Grants \ {g} : binding'[h] = binding[h]
      BY <1>1, <2>2, <2>5
    <3>4. ActivationOK' BY <2>4, <3>1, <3>2 DEF GrantsInv, ActivationOK
    <3>5. StatusOK' BY <2>2, <2>4, <3>2, <3>3 DEF GrantsInv, StatusOK
    <3>6. EndedKept BY <2>4, <3>2 DEF GrantsInv, ActivationOK, EndedKept
    <3> QED BY <1>2, <1>3, <2>5, <3>4, <3>5, <3>6 DEF GrantsInv, WorldOK
  <2>6. CASE /\ lifecycleFaults' = lifecycleFaults \/ LifecycleFault
             /\ activation' = [activation EXCEPT ![g] = [pc |-> "over", org |-> Missing]]
             /\ UNCHANGED <<grantRow, binding>>
    <3>1. /\ activation' \in [Grants -> ActivationRecord]
          /\ activation'[g].pc = "over"
          /\ \A h \in Grants \ {g} : activation'[h] = activation[h]
      BY <1>1, <2>3, <2>6
    <3>2. lifecycleFaults' \in Nat BY <1>1, <2>6 DEF LifecycleFault
    <3> QED BY <1>2, <1>3, <2>4, <2>6, <3>1, <3>2
            DEF GrantsInv, ActivationOK, StatusOK, WorldOK, EndedKept
  <2> QED BY <1>5, <2>5, <2>6 DEF SaveGrant
<1>6. CASE RegisterGrant(g)
  <2>1. [activation[g] EXCEPT !.pc = "over"] \in ActivationRecord BY <1>1 DEF ActivationRecord
  <2>2. /\ activation' \in [Grants -> ActivationRecord]
        /\ activation[g].pc = "saved" /\ activation'[g].pc = "over"
        /\ \A h \in Grants \ {g} : activation'[h] = activation[h]
    BY <1>1, <1>6, <2>1 DEF RegisterGrant, ActivationRecord
  <2>3. /\ grantMem' \in [Grants -> Status]
        /\ \A h \in Grants \ {g} : grantMem'[h] = grantMem[h]
    BY <1>1, <1>6 DEF RegisterGrant, Status
  <2>4. UNCHANGED <<grantRow, binding, lifecycleFaults>> BY <1>6 DEF RegisterGrant
  <2> QED BY <1>2, <1>3, <2>2, <2>3, <2>4 DEF GrantsInv, ActivationOK, StatusOK, WorldOK, EndedKept
<1> QED BY <1>4, <1>5, <1>6

LEMMA WorldKeeps ==
  ASSUME GrantsInv,
         \/ \E g \in Grants : Lapse(g)
         \/ \E u \in Employees : LoseRole(u) \/ \E p \in OrgUser : DirectoryChanges(u, p)
  PROVE  GrantsInv' /\ EndedKept
<1>1. UNCHANGED <<binding, grantMem, grantRow, activation, lifecycleJob, lifecycleFaults>>
  BY DEF Lapse, LoseRole, DirectoryChanges, WorldChange
<1>2. directory' \in People /\ roleHolders' \subseteq Employees /\ lapsed' \subseteq Grants
  BY DEF Lapse, LoseRole, DirectoryChanges, GrantsInv, WorldOK, People
<1> QED BY <1>1, <1>2 DEF GrantsInv, JobsOK, ActivationOK, StatusOK, WorldOK, EndedKept

LEMMA NewJobKeeps ==
  ASSUME GrantsInv, NEW j \in LifecycleJobs,
         \/ j = GovernanceJob /\ GovernanceTick
         \/ \E u \in Employees, t \in Triggers : AuditSignal(j, u, t)
  PROVE  /\ GrantsInv' /\ EndedKept
         /\ lifecycleJob[j].pc = "idle"
         /\ lifecycleJob'[j].pc = "load" /\ lifecycleJob'[j].todo = {} /\ lifecycleJob'[j].now = {}
         /\ \A k \in LifecycleJobs \ {j} : lifecycleJob'[k] = lifecycleJob[k]
<1>1. PICK trigger \in Triggers \cup {"SchedulerTick", "HrSync"}, whose \in SUBSET Employees :
        StartJob(j, trigger, whose, directory)
  <2>1. CASE j = GovernanceJob /\ GovernanceTick BY <2>1 DEF GovernanceTick
  <2>2. CASE \E u \in Employees, t \in Triggers : AuditSignal(j, u, t)
    <3>1. PICK u \in Employees, t \in Triggers : AuditSignal(j, u, t) BY <2>2
    <3>2. {u} \in SUBSET Employees OBVIOUS
    <3> QED BY <3>1, <3>2 DEF AuditSignal
  <2> QED BY <2>1, <2>2
<1>2. directory \in People /\ JobsOK BY DEF GrantsInv, WorldOK
<1>3. UNCHANGED <<directory, roleHolders, binding, grantMem, grantRow, lapsed,
                  activation, lifecycleFaults>>
  BY DEF GovernanceTick, AuditSignal
<1>4. /\ JobsOK'
      /\ lifecycleJob'[j].pc = "load" /\ lifecycleJob'[j].todo = {} /\ lifecycleJob'[j].now = {}
      /\ \A k \in LifecycleJobs \ {j} : lifecycleJob'[k] = lifecycleJob[k]
  BY <1>1, <1>2, StartJobKeeps
<1>5. lifecycleJob[j].pc = "idle" BY <1>1 DEF StartJob
<1> QED BY <1>3, <1>4, <1>5 DEF GrantsInv, ActivationOK, StatusOK, WorldOK, EndedKept

LEMMA LifecycleKeeps == GrantsInv /\ LifecycleNext => GrantsInv' /\ EndedKept
<1> SUFFICES ASSUME GrantsInv, LifecycleNext PROVE GrantsInv' /\ EndedKept OBVIOUS
<1>1. CASE GovernanceTick BY <1>1, NewJobKeeps, GrantAssumption
<1>2. CASE \E j \in LifecycleJobs, u \in Employees, t \in Triggers : AuditSignal(j, u, t)
  BY <1>2, NewJobKeeps
<1>3. CASE \E j \in LifecycleJobs : JobStep(j) BY <1>3, JobStepKeeps DEF GrantsInv
<1>4. CASE \E g \in Grants : CheckActivation(g) \/ SaveGrant(g) \/ RegisterGrant(g)
  BY <1>4, ActivationKeeps DEF GrantsInv
<1>5. CASE \/ \E g \in Grants : Lapse(g)
           \/ \E u \in Employees : LoseRole(u) \/ \E p \in OrgUser : DirectoryChanges(u, p)
  BY <1>5, WorldKeeps
<1> QED BY <1>1, <1>2, <1>3, <1>4, <1>5 DEF LifecycleNext
----
(* Requests and projects keep to their records. *)

LEMMA AdminsKept ==
  ASSUME AdminsOK, NEW a \in Admins, NEW r \in AdminRecord, AdminOK(r),
         admin' = [admin EXCEPT ![a] = r]
  PROVE  /\ AdminsOK'
         /\ admin'[a] = r
         /\ \A b \in Admins \ {a} : admin'[b] = admin[b]
<1>1. admin' \in [Admins -> AdminRecord] BY DEF AdminsOK
<1>2. /\ admin'[a] = r
      /\ \A b \in Admins \ {a} : admin'[b] = admin[b]
  BY DEF AdminsOK
<1>3. \A b \in Admins : AdminOK(admin'[b]) BY <1>2 DEF AdminsOK
<1> QED BY <1>1, <1>2, <1>3 DEF AdminsOK

LEMMA AdminDone ==
  ASSUME AdminsOK, NEW a \in Admins, admin' = [admin EXCEPT ![a] = IdleAdmin]
  PROVE  /\ AdminsOK' /\ admin'[a].pc = "idle" /\ admin'[a].purged = FALSE
         /\ \A b \in Admins \ {a} : admin'[b] = admin[b]
  BY AdminsKept, IdleAdminTyped

\* The next step of a request changes its pc alone.
LEMMA AdminMoves ==
  ASSUME AdminsOK, NEW a \in Admins,
         NEW pc \in {"purge", "project", "rows", "suspendedRows", "snapshots"},
         admin[a].to \in ProjectStates,
         pc \in {"purge", "snapshots", "suspendedRows"} => admin[a].to \in {"Archived", "Deleted"},
         admin' = [admin EXCEPT ![a] = [admin[a] EXCEPT !.pc = pc]]
  PROVE  /\ AdminsOK' /\ admin'[a].pc = pc
         /\ admin'[a].project = admin[a].project /\ admin'[a].from = admin[a].from
         /\ admin'[a].to = admin[a].to /\ admin'[a].purged = admin[a].purged
         /\ \A b \in Admins \ {a} : admin'[b] = admin[b]
<1> DEFINE r == [admin[a] EXCEPT !.pc = pc]
<1>1. admin[a] \in AdminRecord /\ AdminOK(admin[a]) BY DEF AdminsOK
<1>2. r \in AdminRecord BY <1>1 DEF AdminRecord
<1>3. /\ r.pc = pc /\ r.project = admin[a].project /\ r.from = admin[a].from
      /\ r.to = admin[a].to /\ r.purged = admin[a].purged
  BY <1>1 DEF AdminRecord
<1>4. admin' = [admin EXCEPT ![a] = r] OBVIOUS
<1> HIDE DEF r
<1>5. AdminOK(r) BY <1>1, <1>3 DEF AdminOK
<1> QED BY <1>2, <1>3, <1>4, <1>5, AdminsKept

\* A request begins.
LEMMA AdminBegins ==
  ASSUME AdminsOK, NEW a \in Admins, NEW r \in AdminRecord, r.to \in ProjectStates,
         r.pc \in {"create", "grants"}, ~r.purged, BeginRequest(a, r)
  PROVE  /\ AdminsOK' /\ admin[a].pc = "idle" /\ admin'[a] = r
         /\ \A b \in Admins \ {a} : admin'[b] = admin[b]
  BY AdminsKept DEF BeginRequest, AdminOK

----
(* Nobody meets anybody, and nothing fails. *)

Calm == ~crossed /\ lifecycleFaults = 0

Alone == \A x, y \in Writers : x = y

JobsIdle == \A j \in LifecycleJobs : lifecycleJob[j].pc = "idle"

AdminsIdle == \A a \in Admins : admin[a].pc = "idle"

GrantsIdle == \A g \in Grants : activation[g].pc \notin {"checked", "saved"}

JobAlone(j) ==
  AdminsIdle /\ GrantsIdle /\ \A k \in LifecycleJobs \ {j} : lifecycleJob[k].pc = "idle"

AdminAlone(a) ==
  JobsIdle /\ GrantsIdle /\ \A b \in Admins \ {a} : admin[b].pc = "idle"

GrantAlone(g) ==
  JobsIdle /\ AdminsIdle
    /\ \A h \in Grants \ {g} : activation[h].pc \notin {"checked", "saved"}

\* What the open transitions of the one job say of the table, and of memory.
JobInStep(j) ==
  LET job == lifecycleJob[j]
  IN  /\ \A t \in job.todo : grantRow[t.grant] = t.from
      /\ \A t \in job.todo, u \in job.todo \cup job.now : t.grant = u.grant => t = u
      /\ job.now \cap job.todo = {}
      /\ job.pc = "row" =>
           \A t \in job.now :
             /\ grantRow[t.grant] = t.from /\ grantMem[t.grant] = t.to
             /\ \A g \in Grants \ {t.grant} : grantMem[g] = grantRow[g]

\* What the one request has changed already, and has still to store.
RequestInStep(a) ==
  LET p == admin[a].project
  IN  /\ admin[a].pc \in {"purge", "project", "rows"}
           => grantMem = ChangedGrants(admin[a], grantRow)
      /\ admin[a].pc = "suspendedRows"
           => grantMem = Regranted(grantRow, p, "Suspended", "Revoked")
      /\ (admin[a].pc \in {"grants", "project", "rows"} /\ admin[a].to = "Active"
          /\ admin[a].from # "Frozen")
           => \A g \in Grants : ProjectOf[g] = p => grantRow[g] # "Suspended"
      /\ admin[a].pc # "idle"
           => /\ projectMem[p] = admin[a].to
              /\ \A q \in Projects \ {p} : projectMem[q] = projectRow[q]

ActivationInStep(g) ==
  activation[g].pc = "saved" =>
    /\ grantRow[g] = "Active"
    /\ \A h \in Grants \ {g} : grantMem[h] = grantRow[h]

\* A grant in memory differs from its row only in the hands of its writer.
GrantsApart ==
  (\E g \in Grants : grantMem[g] # grantRow[g])
    => \/ \E g \in Grants : activation[g].pc = "saved"
       \/ \E j \in LifecycleJobs : lifecycleJob[j].pc = "row"
       \/ \E a \in Admins : admin[a].pc \in {"purge", "project", "rows", "suspendedRows"}

ProjectsApart ==
  (\E p \in Projects : projectMem[p] # projectRow[p])
    => \E a \in Admins : admin[a].pc \in {"create", "grants", "purge", "project"}

\* Where the snapshots of a project are while a request closes it.
SnapshotsInStep ==
  \A p \in Projects :
    /\ ~(p \in stored <=> p \in storedRow)
         => \E a \in Admins :
              /\ admin[a].project = p /\ admin[a].purged /\ p \notin stored
              /\ admin[a].pc \in {"project", "rows", "suspendedRows", "snapshots"}
    /\ (projectMem[p] \in {"Archived", "Deleted"} /\ p \in stored)
         => \E a \in Admins : admin[a].project = p /\ admin[a].pc \in {"grants", "purge"}

InStep ==
  /\ Alone /\ ~ResumesUnasked
  /\ \A j \in LifecycleJobs : JobInStep(j)
  /\ \A a \in Admins : RequestInStep(a)
  /\ \A g \in Grants : ActivationInStep(g)
  /\ GrantsApart /\ ProjectsApart
  /\ governanceRestarts = 0 => SnapshotsInStep

GovernanceInv == GrantsInv /\ ProjectsInv /\ (Calm => InStep)

LEMMA OneJob ==
  ASSUME NEW j \in LifecycleJobs, Alone, lifecycleJob[j].pc # "idle"
  PROVE  JobAlone(j)
  BY ProjectAssumption DEF Alone, Writers, JobAlone, AdminsIdle, GrantsIdle

LEMMA OneAdmin ==
  ASSUME NEW a \in Admins, Alone, admin[a].pc # "idle"
  PROVE  AdminAlone(a)
  BY ProjectAssumption DEF Alone, Writers, AdminAlone, JobsIdle, GrantsIdle

LEMMA OneGrant ==
  ASSUME NEW g \in Grants, Alone, activation[g].pc \in {"checked", "saved"}
  PROVE  GrantAlone(g)
  BY ProjectAssumption DEF Alone, Writers, GrantAlone, JobsIdle, AdminsIdle

\* The same of the state after a step.
LEMMA OneJobNext ==
  ASSUME NEW j \in LifecycleJobs, Alone', lifecycleJob'[j].pc # "idle"
  PROVE  JobAlone(j)'
  BY ProjectAssumption DEF Alone, Writers, JobAlone, AdminsIdle, GrantsIdle

LEMMA OneAdminNext ==
  ASSUME NEW a \in Admins, Alone', admin'[a].pc # "idle"
  PROVE  AdminAlone(a)'
  BY ProjectAssumption DEF Alone, Writers, AdminAlone, JobsIdle, GrantsIdle

LEMMA OneGrantNext ==
  ASSUME NEW g \in Grants, Alone', activation'[g].pc \in {"checked", "saved"}
  PROVE  GrantAlone(g)'
  BY ProjectAssumption DEF Alone, Writers, GrantAlone, JobsIdle, AdminsIdle

\* Nobody is in between: memory and tables agree.
LEMMA AtRest ==
  ASSUME InStep, JobsIdle, AdminsIdle, GrantsIdle
  PROVE  /\ \A g \in Grants : grantMem[g] = grantRow[g]
         /\ \A p \in Projects : projectMem[p] = projectRow[p]
         /\ governanceRestarts = 0 =>
              \A p \in Projects : /\ p \in stored <=> p \in storedRow
                                  /\ projectMem[p] \in {"Archived", "Deleted"} => p \notin stored
<1>1. \A g \in Grants : grantMem[g] = grantRow[g]
  BY DEF InStep, GrantsApart, JobsIdle, AdminsIdle, GrantsIdle
<1>2. \A p \in Projects : projectMem[p] = projectRow[p] BY DEF InStep, ProjectsApart, AdminsIdle
<1>3. ASSUME governanceRestarts = 0
      PROVE  \A p \in Projects : /\ p \in stored <=> p \in storedRow
                                 /\ projectMem[p] \in {"Archived", "Deleted"} => p \notin stored
  BY <1>3 DEF InStep, SnapshotsInStep, AdminsIdle
<1> QED BY <1>1, <1>2, <1>3

----
(* Frames: what remains to be shown of a step, by who takes it. *)

Met == Alone /\ ~ResumesUnasked

LEMMA IdleJobInStep ==
  ASSUME JobsOK', NEW j \in LifecycleJobs, lifecycleJob'[j].pc = "idle"
  PROVE  JobInStep(j)'
<1>1. JobOK(lifecycleJob'[j]) BY DEF JobsOK
<1>2. lifecycleJob'[j].todo = {} /\ lifecycleJob'[j].now = {} BY <1>1 DEF JobOK
<1> QED BY <1>2 DEF JobInStep

LEMMA JobFrame ==
  ASSUME InStep, JobsOK', Met', NEW j \in LifecycleJobs, JobAlone(j)', AdminsIdle,
         UNCHANGED <<projectMem, projectRow, stored, storedRow, governanceRestarts>>,
         JobInStep(j)',
         (\E g \in Grants : grantMem'[g] # grantRow'[g]) => lifecycleJob'[j].pc = "row"
  PROVE  InStep'
<1>1. \A k \in LifecycleJobs : JobInStep(k)' BY IdleJobInStep DEF JobAlone
<1>2. \A a \in Admins : RequestInStep(a)' BY DEF JobAlone, AdminsIdle, RequestInStep
<1>3. \A g \in Grants : ActivationInStep(g)' BY DEF JobAlone, GrantsIdle, ActivationInStep
<1>4. GrantsApart' BY DEF GrantsApart
<1>5. ProjectsApart' /\ (governanceRestarts' = 0 => SnapshotsInStep')
  BY DEF InStep, ProjectsApart, SnapshotsInStep, AdminsIdle
<1> QED BY <1>1, <1>2, <1>3, <1>4, <1>5 DEF InStep, Met

LEMMA GrantFrame ==
  ASSUME InStep, JobsOK', Met', NEW g \in Grants, GrantAlone(g)', AdminsIdle,
         UNCHANGED <<projectMem, projectRow, stored, storedRow, governanceRestarts>>,
         ActivationInStep(g)',
         (\E h \in Grants : grantMem'[h] # grantRow'[h]) => activation'[g].pc = "saved"
  PROVE  InStep'
<1>1. \A k \in LifecycleJobs : JobInStep(k)' BY IdleJobInStep DEF GrantAlone, JobsIdle
<1>2. \A a \in Admins : RequestInStep(a)' BY DEF GrantAlone, AdminsIdle, RequestInStep
<1>3. \A h \in Grants : ActivationInStep(h)' BY DEF GrantAlone, ActivationInStep
<1>4. GrantsApart' BY DEF GrantsApart
<1>5. ProjectsApart' /\ (governanceRestarts' = 0 => SnapshotsInStep')
  BY DEF InStep, ProjectsApart, SnapshotsInStep, AdminsIdle
<1> QED BY <1>1, <1>2, <1>3, <1>4, <1>5 DEF InStep, Met

LEMMA AdminFrame ==
  ASSUME JobsOK', Met', NEW a \in Admins, AdminAlone(a)', RequestInStep(a)',
         (\E g \in Grants : grantMem'[g] # grantRow'[g])
           => admin'[a].pc \in {"purge", "project", "rows", "suspendedRows"},
         (\E p \in Projects : projectMem'[p] # projectRow'[p])
           => admin'[a].pc \in {"create", "grants", "purge", "project"},
         governanceRestarts' = 0 => SnapshotsInStep'
  PROVE  InStep'
<1>1. \A k \in LifecycleJobs : JobInStep(k)' BY IdleJobInStep DEF AdminAlone, JobsIdle
<1>2. \A b \in Admins : RequestInStep(b)' BY DEF AdminAlone, RequestInStep
<1>3. \A g \in Grants : ActivationInStep(g)' BY DEF AdminAlone, GrantsIdle, ActivationInStep
<1>4. GrantsApart' /\ ProjectsApart' BY DEF GrantsApart, ProjectsApart
<1> QED BY <1>1, <1>2, <1>3, <1>4 DEF InStep, Met
----
(* Jobs and activations, met by nobody. *)

projectFrame == <<projectRow, stored, storedRow, admin, governanceRestarts>>

LEMMA NewJobInStep ==
  ASSUME GrantsInv, InStep, Met', UNCHANGED projectFrame, NEW j \in LifecycleJobs,
         \/ j = GovernanceJob /\ GovernanceTick
         \/ \E u \in Employees, t \in Triggers : AuditSignal(j, u, t)
  PROVE  InStep'
<1>1. /\ GrantsInv' /\ lifecycleJob[j].pc = "idle"
      /\ lifecycleJob'[j].pc = "load" /\ lifecycleJob'[j].todo = {} /\ lifecycleJob'[j].now = {}
      /\ \A k \in LifecycleJobs \ {j} : lifecycleJob'[k] = lifecycleJob[k]
  BY NewJobKeeps
<1>2. UNCHANGED <<grantMem, grantRow, activation, projectMem>> BY DEF GovernanceTick, AuditSignal
<1>3. JobAlone(j)' BY <1>1, OneJobNext DEF Met
<1>4. JobsIdle /\ AdminsIdle /\ GrantsIdle
  BY <1>1, <1>2, <1>3 DEF JobAlone, JobsIdle, AdminsIdle, GrantsIdle, projectFrame
<1>5. \A g \in Grants : grantMem[g] = grantRow[g] BY <1>4, AtRest
<1>6. JobInStep(j)' BY <1>1 DEF JobInStep
<1> QED BY <1>1, <1>2, <1>3, <1>4, <1>5, <1>6, JobFrame DEF GrantsInv, projectFrame

LEMMA JobStepInStep ==
  ASSUME GrantsInv, InStep, Met', UNCHANGED projectFrame, NEW j \in LifecycleJobs,
         JobStep(j), lifecycleFaults = 0, lifecycleFaults' = 0
  PROVE  InStep'
<1> DEFINE job == lifecycleJob[j]
<1>1. job.pc # "idle" BY DEF JobStep, LoadLifecycleGrants, ApplyLifecycleTransition, UpdateGrantRow,
         SaveLifecycleEvent, EndJob
<1>2. JobAlone(j) BY <1>1, OneJob DEF InStep
<1>3. JobsOK' /\ UNCHANGED <<activation, projectMem>>
  BY JobStepKeeps DEF JobStep, LoadLifecycleGrants, ApplyLifecycleTransition, UpdateGrantRow,
         SaveLifecycleEvent, EndJob
<1>4. \A k \in LifecycleJobs \ {j} : lifecycleJob'[k] = lifecycleJob[k]
  BY LoadKeeps, ApplyKeeps, RowKeeps, EventKeeps, EndKeeps DEF JobStep
<1>5. JobAlone(j)' BY <1>2, <1>3, <1>4 DEF JobAlone, AdminsIdle, GrantsIdle, projectFrame
<1>6. /\ JobOK(job) /\ job \in JobRecord /\ JobInStep(j)
      /\ JobOK(lifecycleJob'[j])
      /\ grantMem \in [Grants -> Status] /\ grantRow \in [Grants -> Status]
  BY <1>3 DEF GrantsInv, JobsOK, InStep, StatusOK
<1>7. job.pc # "row" => \A g \in Grants : grantMem[g] = grantRow[g]
  BY <1>2 DEF InStep, GrantsApart, JobAlone, AdminsIdle, GrantsIdle
<1> SUFFICES
      /\ JobInStep(j)'
      /\ (\E g \in Grants : grantMem'[g] # grantRow'[g]) => lifecycleJob'[j].pc = "row"
  BY <1>2, <1>3, <1>5, JobFrame DEF projectFrame, JobAlone
<1>8. CASE LoadLifecycleGrants(j)
  <2>1. UNCHANGED <<grantMem, grantRow>> /\ job.pc = "load" BY <1>8 DEF LoadLifecycleGrants
  <2>2. /\ lifecycleJob'[j].pc = "apply"
        /\ \A t \in lifecycleJob'[j].todo : t.grant \in Grants /\ t.from = grantRow[t.grant]
        /\ \A t, u \in lifecycleJob'[j].todo : t.grant = u.grant => t = u
    BY <1>8, LoadKeeps
  <2>3. lifecycleJob'[j].now = {} BY <1>6, <2>2 DEF JobOK
  <2>4. JobInStep(j)' BY <2>1, <2>2, <2>3 DEF JobInStep
  <2> QED BY <1>7, <2>1, <2>4
<1>9. ASSUME NEW t \in job.todo, ApplyLifecycleTransition(j, t)
      PROVE  JobInStep(j)' /\ lifecycleJob'[j].pc = "row"
  <2>1. /\ t \in Transition /\ lifecycleJob'[j].pc = "row" /\ lifecycleJob'[j].now = {t}
        /\ lifecycleJob'[j].todo = job.todo \ {t} /\ t.from \in {"Active", "Suspended"}
    BY <1>9, ApplyKeeps
  <2>2. /\ grantMem' = [grantMem EXCEPT ![t.grant] = IF @ = t.from THEN t.to ELSE @]
        /\ grantRow' = grantRow /\ job.pc = "apply"
    BY <1>9 DEF ApplyLifecycleTransition
  <2>3. t.grant \in Grants /\ grantRow[t.grant] = t.from /\ grantMem[t.grant] = t.from
    BY <1>6, <1>7, <2>1, <2>2 DEF Transition, JobInStep
  <2>4. grantMem'[t.grant] = t.to /\ \A g \in Grants \ {t.grant} : grantMem'[g] = grantMem[g]
    BY <1>6, <2>1, <2>2, <2>3, MovedGrant
  <2>5. \A g \in Grants \ {t.grant} : grantMem'[g] = grantRow'[g] BY <1>7, <2>2, <2>4
  <2>6. \A u \in lifecycleJob'[j].todo : grantRow'[u.grant] = u.from BY <1>6, <2>1, <2>2 DEF JobInStep
  <2>7. \A u \in lifecycleJob'[j].todo, w \in lifecycleJob'[j].todo \cup lifecycleJob'[j].now :
          u.grant = w.grant => u = w
    BY <1>6, <2>1 DEF JobInStep
  <2>8. lifecycleJob'[j].now \cap lifecycleJob'[j].todo = {} BY <2>1
  <2>9. \A u \in lifecycleJob'[j].now :
          /\ grantRow'[u.grant] = u.from /\ grantMem'[u.grant] = u.to
          /\ \A g \in Grants \ {u.grant} : grantMem'[g] = grantRow'[g]
    BY <2>1, <2>2, <2>3, <2>4, <2>5
  <2> QED BY <2>1, <2>6, <2>7, <2>8, <2>9 DEF JobInStep
<1>10. CASE UpdateGrantRow(j)
  <2>1. grantMem' = grantMem /\ job.pc = "row" BY <1>10 DEF UpdateGrantRow
  <2>2. PICK t \in Transition :
          /\ job.now = {t} /\ t.from \in {"Active", "Suspended"}
          /\ grantRow' = [grantRow EXCEPT ![t.grant] = IF @ = t.from THEN t.to ELSE @]
          /\ lifecycleJob'[j].pc = "event" /\ lifecycleJob'[j].now = {t}
          /\ lifecycleJob'[j].todo = job.todo
    BY <1>10, RowKeeps
  <2>3. /\ grantRow[t.grant] = t.from /\ grantMem[t.grant] = t.to
        /\ \A g \in Grants \ {t.grant} : grantMem[g] = grantRow[g]
        /\ \A u \in job.todo : u.grant # t.grant /\ u \in Transition
    BY <1>6, <2>1, <2>2 DEF JobInStep, JobRecord
  <2>4. grantRow'[t.grant] = t.to /\ \A g \in Grants \ {t.grant} : grantRow'[g] = grantRow[g]
    BY <1>6, <2>2, <2>3, MovedGrant
  <2>5. \A g \in Grants : grantMem'[g] = grantRow'[g] BY <2>1, <2>3, <2>4
  <2>6. \A u \in lifecycleJob'[j].todo : grantRow'[u.grant] = u.from
    BY <1>6, <2>2, <2>3, <2>4 DEF JobInStep, Transition
  <2>7. JobInStep(j)' BY <1>6, <2>2, <2>6 DEF JobInStep
  <2> QED BY <2>5, <2>7
<1>11. CASE SaveLifecycleEvent(j)
  <2>1. UNCHANGED <<grantMem, grantRow>> /\ job.pc = "event" BY <1>11 DEF SaveLifecycleEvent
  <2>2. /\ lifecycleJob'[j].pc = "apply" /\ lifecycleJob'[j].now = {}
        /\ lifecycleJob'[j].todo = job.todo
    BY <1>11, EventKeeps
  <2>3. JobInStep(j)' BY <1>6, <2>1, <2>2 DEF JobInStep
  <2> QED BY <1>7, <2>1, <2>3
<1>12. CASE EndJob(j)
  <2>1. UNCHANGED <<grantMem, grantRow>> /\ job.pc = "apply" BY <1>12 DEF EndJob
  <2>2. lifecycleJob'[j].pc = "idle" BY <1>12, EndKeeps
  <2> QED BY <1>3, <1>7, <2>1, <2>2, IdleJobInStep
<1> QED BY <1>8, <1>9, <1>10, <1>11, <1>12 DEF JobStep

LEMMA ActivationStepInStep ==
  ASSUME GrantsInv, InStep, Met', UNCHANGED projectFrame, NEW g \in Grants,
         CheckActivation(g) \/ SaveGrant(g) \/ RegisterGrant(g),
         lifecycleFaults = 0, lifecycleFaults' = 0
  PROVE  InStep'
<1>1. /\ activation \in [Grants -> ActivationRecord]
      /\ grantMem \in [Grants -> Status] /\ grantRow \in [Grants -> Status]
      /\ JobsOK' /\ ActivationOK' /\ UNCHANGED <<lifecycleJob, projectMem>>
  BY ActivationKeeps DEF GrantsInv, ActivationOK, StatusOK, CheckActivation, SaveGrant, RegisterGrant
<1>2. \A h \in Grants \ {g} : activation'[h] = activation[h]
  BY <1>1 DEF CheckActivation, SaveGrant, RegisterGrant
<1>3. CASE CheckActivation(g)
  <2>1. UNCHANGED <<grantMem, grantRow>> /\ activation[g].pc = "none" /\ activation'[g].pc = "checked"
    BY <1>1, <1>3 DEF CheckActivation
  <2>2. GrantAlone(g)' BY <2>1, OneGrantNext DEF Met
  <2>3. JobsIdle /\ AdminsIdle /\ GrantsIdle
    BY <1>1, <1>2, <2>1, <2>2 DEF GrantAlone, JobsIdle, AdminsIdle, GrantsIdle, projectFrame
  <2>4. \A h \in Grants : grantMem'[h] = grantRow'[h] BY <2>1, <2>3, AtRest
  <2>5. ActivationInStep(g)' BY <2>1 DEF ActivationInStep
  <2> QED BY <1>1, <2>2, <2>3, <2>4, <2>5, GrantFrame DEF projectFrame
<1>4. CASE SaveGrant(g) \/ RegisterGrant(g)
  <2>1. activation[g].pc \in {"checked", "saved"} BY <1>4 DEF SaveGrant, RegisterGrant
  <2>2. GrantAlone(g) BY <2>1, OneGrant DEF InStep
  <2>3. GrantAlone(g)' BY <1>1, <1>2, <2>2 DEF GrantAlone, JobsIdle, AdminsIdle, projectFrame
  <2>4. activation[g].pc = "checked" => \A h \in Grants : grantMem[h] = grantRow[h]
    BY <2>2 DEF InStep, GrantsApart, GrantAlone, JobsIdle, AdminsIdle
  <2> SUFFICES
        /\ ActivationInStep(g)'
        /\ (\E h \in Grants : grantMem'[h] # grantRow'[h]) => activation'[g].pc = "saved"
    BY <1>1, <2>2, <2>3, GrantFrame DEF projectFrame, GrantAlone
  <2>5. CASE SaveGrant(g)
    <3>1. activation[g].pc = "checked" /\ grantMem' = grantMem BY <2>5 DEF SaveGrant
    <3>2. CASE /\ grantRow' = [grantRow EXCEPT ![g] = "Active"]
               /\ activation' = [activation EXCEPT ![g] = [pc |-> "saved", org |-> Missing]]
      <4>1. activation'[g].pc = "saved" /\ grantRow'[g] = "Active"
            /\ \A h \in Grants \ {g} : grantRow'[h] = grantRow[h]
        BY <1>1, <3>2
      <4> QED BY <2>4, <3>1, <4>1 DEF ActivationInStep
    <3>3. CASE /\ activation' = [activation EXCEPT ![g] = [pc |-> "over", org |-> Missing]]
               /\ grantRow' = grantRow
      <4>1. activation'[g].pc = "over" BY <1>1, <3>3
      <4> QED BY <2>4, <3>1, <3>3, <4>1 DEF ActivationInStep
    <3> QED BY <2>5, <3>2, <3>3 DEF SaveGrant
  <2>6. CASE RegisterGrant(g)
    <3>1. /\ activation[g].pc = "saved" /\ grantRow' = grantRow
          /\ grantMem' = [grantMem EXCEPT ![g] = "Active"]
          /\ activation' = [activation EXCEPT ![g].pc = "over"]
      BY <2>6 DEF RegisterGrant
    <3>2. activation'[g].pc = "over" BY <1>1, <3>1 DEF ActivationRecord
    <3>3. grantRow[g] = "Active" /\ \A h \in Grants \ {g} : grantMem[h] = grantRow[h]
      BY <3>1 DEF InStep, ActivationInStep
    <3>4. \A h \in Grants : grantMem'[h] = grantRow'[h] BY <1>1, <3>1, <3>3
    <3> QED BY <3>2, <3>4 DEF ActivationInStep
  <2> QED BY <1>4, <2>5, <2>6
<1> QED BY <1>3, <1>4

LEMMA WorldInStep ==
  ASSUME InStep, Met', UNCHANGED projectFrame,
         \/ \E g \in Grants : Lapse(g)
         \/ \E u \in Employees : LoseRole(u) \/ \E p \in OrgUser : DirectoryChanges(u, p)
  PROVE  InStep'
<1>1. UNCHANGED <<grantMem, grantRow, activation, lifecycleJob, projectMem>>
  BY DEF Lapse, LoseRole, DirectoryChanges, WorldChange
<1>2. UNCHANGED <<projectRow, stored, storedRow, admin, governanceRestarts>> BY DEF projectFrame
<1>3. (\A j \in LifecycleJobs : JobInStep(j))' /\ (\A g \in Grants : ActivationInStep(g))'
  BY <1>1, <1>2 DEF InStep, JobInStep, ActivationInStep
<1>4. (\A a \in Admins : RequestInStep(a))' BY <1>1, <1>2 DEF InStep, RequestInStep
<1>5. GrantsApart' /\ ProjectsApart' /\ (governanceRestarts' = 0 => SnapshotsInStep')
  BY <1>1, <1>2 DEF InStep, GrantsApart, ProjectsApart, SnapshotsInStep
<1> QED BY <1>3, <1>4, <1>5 DEF InStep, Met

LEMMA LifecycleInStep ==
  ASSUME GrantsInv, InStep, Met', UNCHANGED projectFrame, LifecycleNext,
         lifecycleFaults = 0, lifecycleFaults' = 0
  PROVE  InStep'
<1>1. CASE GovernanceTick BY <1>1, NewJobInStep, GrantAssumption
<1>2. CASE \E j \in LifecycleJobs, u \in Employees, t \in Triggers : AuditSignal(j, u, t)
  BY <1>2, NewJobInStep
<1>3. CASE \E j \in LifecycleJobs : JobStep(j) BY <1>3, JobStepInStep
<1>4. CASE \E g \in Grants : CheckActivation(g) \/ SaveGrant(g) \/ RegisterGrant(g)
  BY <1>4, ActivationStepInStep
<1>5. CASE \/ \E g \in Grants : Lapse(g)
           \/ \E u \in Employees : LoseRole(u) \/ \E p \in OrgUser : DirectoryChanges(u, p)
  BY <1>5, WorldInStep
<1> QED BY <1>1, <1>2, <1>3, <1>4, <1>5 DEF LifecycleNext
----
(* Requests, which may meet anybody, and may meet nobody. *)

\* What is to be shown of a step that is not a restart.
Kept == GrantsInv' /\ ProjectTables' /\ AdminsOK' /\ EndedKept

\* Nobody met anybody, and nothing failed, up to the state after the step.
StillCalm == InStep /\ Met' /\ lifecycleFaults' = lifecycleFaults

lifecycleFrame == <<directory, roleHolders, binding, lapsed, activation, lifecycleJob>>

\* A request leaves the lifecycle alone but for the two statuses.
LEMMA StatusesKept ==
  ASSUME GrantsInv, UNCHANGED lifecycleFrame, lifecycleFaults' \in Nat,
         grantMem' \in [Grants -> Status], grantRow' \in [Grants -> Status],
         \A g \in Grants : grantMem[g] \notin {"Active", "Suspended"} => grantMem'[g] = grantMem[g],
         \A g \in Grants : grantRow[g] \notin {"Active", "Suspended"} => grantRow'[g] = grantRow[g]
  PROVE  GrantsInv' /\ EndedKept
<1>1. JobsOK' /\ WorldOK' BY DEF GrantsInv, JobsOK, WorldOK, lifecycleFrame
<1>2. ActivationOK' BY DEF GrantsInv, ActivationOK, lifecycleFrame
<1>3. StatusOK' BY DEF GrantsInv, StatusOK, lifecycleFrame
<1>4. EndedKept BY DEF EndedKept
<1> QED BY <1>1, <1>2, <1>3, <1>4 DEF GrantsInv

LEMMA FaultTyped ==
  ASSUME GrantsInv, LifecycleFault
  PROVE  lifecycleFaults' \in Nat /\ lifecycleFaults' # lifecycleFaults
  BY DEF GrantsInv, WorldOK, LifecycleFault

\* A request goes on: the others stay idle.
LEMMA StaysAlone ==
  ASSUME InStep, NEW a \in Admins, admin[a].pc # "idle", UNCHANGED <<lifecycleJob, activation>>,
         \A b \in Admins \ {a} : admin'[b] = admin[b]
  PROVE  AdminAlone(a) /\ AdminAlone(a)'
<1>1. AdminAlone(a) BY OneAdmin DEF InStep
<1>2. AdminAlone(a)' BY <1>1 DEF AdminAlone, JobsIdle, GrantsIdle
<1> QED BY <1>1, <1>2

\* What a request that nobody met knows before its step.
LEMMA AloneKnows ==
  ASSUME GrantsInv, InStep, NEW a \in Admins, AdminAlone(a), admin[a].pc # "idle"
  PROVE  /\ RequestInStep(a)
         /\ admin[a].pc \notin {"purge", "project", "rows", "suspendedRows"}
              => grantMem = grantRow
         /\ admin[a].pc \notin {"create", "grants", "purge", "project"}
              => \A p \in Projects : projectMem[p] = projectRow[p]
         /\ (governanceRestarts = 0 /\ admin[a].pc \in {"create", "grants", "purge"})
              => \A p \in Projects : p \in stored <=> p \in storedRow
         /\ (governanceRestarts = 0 /\ admin[a].pc \notin {"grants", "purge"})
              => \A p \in Projects : projectMem[p] \in {"Archived", "Deleted"} => p \notin stored
         /\ governanceRestarts = 0
              => \A p \in Projects : p # admin[a].project => (p \in stored <=> p \in storedRow)
         /\ governanceRestarts = 0
              => \A p \in Projects : (p # admin[a].project /\ p \in stored)
                                       => projectMem[p] \notin {"Archived", "Deleted"}
         /\ (governanceRestarts = 0 /\ ~admin[a].purged)
              => \A p \in Projects : p \in stored <=> p \in storedRow
<1>1. RequestInStep(a) BY DEF InStep
<1>2. ASSUME admin[a].pc \notin {"purge", "project", "rows", "suspendedRows"}
      PROVE  grantMem = grantRow
  <2>1. \A g \in Grants : grantMem[g] = grantRow[g]
    BY <1>2 DEF InStep, GrantsApart, AdminAlone, JobsIdle, GrantsIdle
  <2> QED BY <2>1 DEF GrantsInv, StatusOK
<1>3. ASSUME admin[a].pc \notin {"create", "grants", "purge", "project"}
      PROVE  \A p \in Projects : projectMem[p] = projectRow[p]
  BY <1>3 DEF InStep, ProjectsApart, AdminAlone
<1>4. ASSUME governanceRestarts = 0, NEW p \in Projects, ~(p \in stored <=> p \in storedRow)
      PROVE  /\ admin[a].project = p /\ admin[a].purged
             /\ admin[a].pc \in {"project", "rows", "suspendedRows", "snapshots"}
  BY <1>4 DEF InStep, SnapshotsInStep, AdminAlone
<1>5. ASSUME governanceRestarts = 0, NEW p \in Projects, p \in stored,
             projectMem[p] \in {"Archived", "Deleted"}
      PROVE  admin[a].project = p /\ admin[a].pc \in {"grants", "purge"}
  BY <1>5 DEF InStep, SnapshotsInStep, AdminAlone
<1> QED BY <1>1, <1>2, <1>3, <1>4, <1>5

LEMMA ProjectCreateKeeps ==
  ASSUME GrantsInv, ProjectsInv, NEW a \in Admins, NEW p \in Projects,
         NEW state \in ProjectStates, ProjectCreate(a, p, state)
  PROVE  Kept /\ (StillCalm => InStep')
<1> DEFINE r == [IdleAdmin EXCEPT !.pc = "create", !.project = p, !.to = state]
<1>1. IdleAdmin \in AdminRecord /\ ~IdleAdmin.purged BY IdleAdminTyped
<1>2. r \in AdminRecord BY <1>1 DEF AdminRecord
<1>3. r.pc = "create" /\ r.project = p /\ r.to = state /\ ~r.purged BY <1>1 DEF AdminRecord
<1>4. /\ BeginRequest(a, r) /\ projectMem' = [projectMem EXCEPT ![p] = state]
      /\ state \in {"Created", "Active"}
      /\ UNCHANGED <<grantMem, grantRow, lifecycleFaults, projectRow, stored, storedRow,
                     governanceRestarts>>
      /\ UNCHANGED lifecycleFrame
  BY DEF ProjectCreate, lifecycleFrame
<1> HIDE DEF r
<1>5. /\ AdminsOK' /\ admin[a].pc = "idle" /\ admin'[a] = r
      /\ \A b \in Admins \ {a} : admin'[b] = admin[b]
  BY <1>2, <1>3, <1>4, AdminBegins DEF ProjectsInv
<1>6. /\ projectMem' \in [Projects -> ProjectStates \cup {"none"}]
      /\ projectMem'[p] = state /\ \A q \in Projects \ {p} : projectMem'[q] = projectMem[q]
  BY <1>4 DEF ProjectsInv, ProjectTables
<1>7. Kept
  <2>1. ProjectTables' BY <1>4, <1>6 DEF ProjectsInv, ProjectTables
  <2>2. GrantsInv' /\ EndedKept BY <1>4, StatusesKept DEF GrantsInv, StatusOK, WorldOK
  <2> QED BY <1>5, <2>1, <2>2 DEF Kept
<1>8. ASSUME StillCalm PROVE InStep'
  <2>1. AdminAlone(a)' BY <1>3, <1>5, <1>8, OneAdminNext DEF StillCalm, Met
  <2>2. JobsIdle /\ AdminsIdle /\ GrantsIdle
    BY <1>4, <1>5, <2>1 DEF AdminAlone, JobsIdle, AdminsIdle, GrantsIdle, lifecycleFrame
  <2>3. /\ \A g \in Grants : grantMem[g] = grantRow[g]
        /\ \A q \in Projects : projectMem[q] = projectRow[q]
        /\ governanceRestarts = 0 =>
              \A q \in Projects : /\ q \in stored <=> q \in storedRow
                                  /\ projectMem[q] \in {"Archived", "Deleted"} => q \notin stored
    BY <1>8, <2>2, AtRest DEF StillCalm
  <2>4. RequestInStep(a)' BY <1>3, <1>4, <1>5, <1>6, <2>3 DEF RequestInStep
  <2>5. governanceRestarts' = 0 => SnapshotsInStep' BY <1>4, <1>6, <2>3 DEF SnapshotsInStep
  <2> QED BY <1>3, <1>4, <1>5, <1>7, <1>8, <2>1, <2>3, <2>4, <2>5, AdminFrame DEF Kept, GrantsInv, StillCalm
<1> QED BY <1>7, <1>8

LEMMA ChangeProjectStateKeeps ==
  ASSUME GrantsInv, ProjectsInv, NEW a \in Admins, NEW p \in Projects,
         NEW to \in ProjectStates, ChangeProjectState(a, p, to)
  PROVE  Kept /\ (StillCalm => InStep')
<1> DEFINE r == [IdleAdmin EXCEPT !.pc = "grants", !.project = p, !.from = projectMem[p], !.to = to]
<1>1. IdleAdmin \in AdminRecord /\ ~IdleAdmin.purged /\ projectMem[p] \in ProjectStates \cup {"none"}
  BY IdleAdminTyped DEF ProjectsInv, ProjectTables
<1>2. r \in AdminRecord BY <1>1 DEF AdminRecord
<1>3. r.pc = "grants" /\ r.project = p /\ r.from = projectMem[p] /\ r.to = to /\ ~r.purged
  BY <1>1 DEF AdminRecord
<1>4. /\ BeginRequest(a, r) /\ projectMem' = [projectMem EXCEPT ![p] = to]
      /\ UNCHANGED <<grantMem, grantRow, lifecycleFaults, projectRow, stored, storedRow,
                     governanceRestarts>>
      /\ UNCHANGED lifecycleFrame
  BY DEF ChangeProjectState, lifecycleFrame
<1> HIDE DEF r
<1>5. /\ AdminsOK' /\ admin[a].pc = "idle" /\ admin'[a] = r
      /\ \A b \in Admins \ {a} : admin'[b] = admin[b]
  BY <1>2, <1>3, <1>4, AdminBegins DEF ProjectsInv
<1>6. /\ projectMem' \in [Projects -> ProjectStates \cup {"none"}]
      /\ projectMem'[p] = to /\ \A q \in Projects \ {p} : projectMem'[q] = projectMem[q]
  BY <1>4 DEF ProjectsInv, ProjectTables
<1>7. Kept
  <2>1. ProjectTables' BY <1>4, <1>6 DEF ProjectsInv, ProjectTables
  <2>2. GrantsInv' /\ EndedKept BY <1>4, StatusesKept DEF GrantsInv, StatusOK, WorldOK
  <2> QED BY <1>5, <2>1, <2>2 DEF Kept
<1>8. ASSUME StillCalm PROVE InStep'
  <2>1. AdminAlone(a)' BY <1>3, <1>5, <1>8, OneAdminNext DEF StillCalm, Met
  <2>2. JobsIdle /\ AdminsIdle /\ GrantsIdle
    BY <1>4, <1>5, <2>1 DEF AdminAlone, JobsIdle, AdminsIdle, GrantsIdle, lifecycleFrame
  <2>3. /\ \A g \in Grants : grantMem[g] = grantRow[g]
        /\ \A q \in Projects : projectMem[q] = projectRow[q]
        /\ governanceRestarts = 0 =>
              \A q \in Projects : /\ q \in stored <=> q \in storedRow
                                  /\ projectMem[q] \in {"Archived", "Deleted"} => q \notin stored
    BY <1>8, <2>2, AtRest DEF StillCalm
  <2>4. (to = "Active" /\ projectMem[p] # "Frozen")
          => \A g \in Grants : ProjectOf[g] = p => grantRow'[g] # "Suspended"
    BY <1>3, <1>5, <1>8 DEF StillCalm, Met, ResumesUnasked
  <2>5. RequestInStep(a)' BY <1>3, <1>5, <1>6, <1>4, <2>3, <2>4 DEF RequestInStep
  <2>6. governanceRestarts' = 0 => SnapshotsInStep' BY <1>3, <1>4, <1>5, <1>6, <2>3 DEF SnapshotsInStep
  <2> QED BY <1>3, <1>4, <1>5, <1>7, <1>8, <2>1, <2>3, <2>5, <2>6, AdminFrame DEF Kept, GrantsInv, StillCalm
<1> QED BY <1>7, <1>8

LEMMA SaveNewProjectKeeps ==
  ASSUME GrantsInv, ProjectsInv, NEW a \in Admins, SaveNewProject(a)
  PROVE  Kept /\ (StillCalm => InStep')
<1> DEFINE p == admin[a].project
<1>1. p \in Projects /\ admin[a].pc = "create" /\ admin[a].to \in ProjectStates
  BY DEF ProjectsInv, AdminsOK, AdminOK, AdminRecord, SaveNewProject
<1>2. /\ UNCHANGED <<grantMem, grantRow, stored, storedRow, governanceRestarts>>
      /\ UNCHANGED lifecycleFrame
      /\ admin' = [admin EXCEPT ![a] = IdleAdmin]
      /\ \/ /\ projectRow' = [projectRow EXCEPT ![p] = admin[a].to]
            /\ UNCHANGED <<projectMem, lifecycleFaults>>
         \/ /\ LifecycleFault
            /\ projectMem' = [projectMem EXCEPT ![p] = "none"]
            /\ UNCHANGED projectRow
  BY DEF SaveNewProject, lifecycleFrame
<1>3. /\ AdminsOK' /\ admin'[a].pc = "idle"
      /\ \A b \in Admins \ {a} : admin'[b] = admin[b]
  BY <1>2, AdminDone DEF ProjectsInv
<1>4. lifecycleFaults' \in Nat BY <1>2, FaultTyped DEF GrantsInv, WorldOK
<1>5. Kept
  <2>1. ProjectTables' BY <1>1, <1>2 DEF ProjectsInv, ProjectTables
  <2>2. GrantsInv' /\ EndedKept BY <1>2, <1>4, StatusesKept DEF GrantsInv, StatusOK
  <2> QED BY <1>3, <2>1, <2>2 DEF Kept
<1>6. ASSUME StillCalm PROVE InStep'
  <2>1. AdminAlone(a) /\ AdminAlone(a)'
    BY <1>1, <1>2, <1>3, <1>6, StaysAlone DEF StillCalm, lifecycleFrame
  <2>2. projectRow' = [projectRow EXCEPT ![p] = admin[a].to] /\ projectMem' = projectMem
    BY <1>2, <1>6, FaultTyped DEF StillCalm
  <2>3. InStep BY <1>6 DEF StillCalm
  <2>4. /\ RequestInStep(a) /\ grantMem = grantRow
        /\ governanceRestarts = 0 =>
              \A q \in Projects : /\ q \in stored <=> q \in storedRow
                                  /\ projectMem[q] \in {"Archived", "Deleted"} => q \notin stored
    BY <1>1, <2>1, <2>3, AloneKnows
  <2>5. \A q \in Projects : projectMem'[q] = projectRow'[q]
    BY <1>1, <2>2, <2>4 DEF RequestInStep, ProjectsInv, ProjectTables
  <2>6. governanceRestarts' = 0 => SnapshotsInStep' BY <1>2, <2>2, <2>4 DEF SnapshotsInStep
  <2>7. RequestInStep(a)' BY <1>3 DEF RequestInStep
  <2> QED BY <1>2, <1>3, <1>5, <1>6, <2>1, <2>4, <2>5, <2>6, <2>7, AdminFrame DEF Kept, GrantsInv, StillCalm
<1> QED BY <1>5, <1>6

LEMMA ChangeGrantsInMemoryKeeps ==
  ASSUME GrantsInv, ProjectsInv, NEW a \in Admins, ChangeGrantsInMemory(a)
  PROVE  Kept /\ (StillCalm => InStep')
<1> DEFINE p == admin[a].project
           pc == IF Closing(a) THEN "purge" ELSE "project"
<1>1. p \in Projects /\ admin[a].pc = "grants" /\ admin[a].to \in ProjectStates /\ AdminsOK
      /\ admin[a] \in AdminRecord
  BY DEF ProjectsInv, AdminsOK, AdminOK, AdminRecord, ChangeGrantsInMemory
<1>2. /\ UNCHANGED <<grantRow, stored, storedRow, governanceRestarts, projectMem, projectRow,
                     lifecycleFaults>>
      /\ UNCHANGED lifecycleFrame
      /\ admin' = [admin EXCEPT ![a] = [admin[a] EXCEPT !.pc = pc]]
      /\ grantMem' = ChangedGrants(admin[a], grantMem)
  BY DEF ChangeGrantsInMemory, lifecycleFrame
<1>3. /\ AdminsOK' /\ admin'[a].pc = pc
      /\ admin'[a].project = p /\ admin'[a].from = admin[a].from
      /\ admin'[a].to = admin[a].to /\ admin'[a].purged = admin[a].purged
      /\ \A b \in Admins \ {a} : admin'[b] = admin[b]
  BY <1>1, <1>2, AdminMoves DEF Closing
<1>4. Kept
  <2>1. ProjectTables' BY <1>2 DEF ProjectsInv, ProjectTables
  <2>2. grantMem \in [Grants -> Status] /\ grantRow \in [Grants -> Status] /\ lifecycleFaults \in Nat
    BY DEF GrantsInv, StatusOK, WorldOK
  <2>3. /\ grantMem' \in [Grants -> Status]
        /\ \A g \in Grants : grantMem[g] \notin {"Active", "Suspended"} => grantMem'[g] = grantMem[g]
    BY <1>2, <2>2, ChangedTyped
  <2>4. GrantsInv' /\ EndedKept BY <1>2, <2>2, <2>3, StatusesKept
  <2> QED BY <1>3, <2>1, <2>4 DEF Kept
<1>5. ASSUME StillCalm PROVE InStep'
  <2>1. AdminAlone(a) /\ AdminAlone(a)'
    BY <1>1, <1>2, <1>3, <1>5, StaysAlone DEF StillCalm, lifecycleFrame
  <2>3. InStep BY <1>5 DEF StillCalm
  <2>4. /\ RequestInStep(a) /\ grantMem = grantRow
        /\ governanceRestarts = 0 =>
              \A q \in Projects : /\ q \in stored <=> q \in storedRow
                                  /\ q # p /\ q \in stored
                                       => projectMem[q] \notin {"Archived", "Deleted"}
    BY <1>1, <2>1, <2>3, AloneKnows
  <2>5. grantMem' = ChangedGrants(admin'[a], grantRow') BY <1>2, <1>3, <2>4 DEF ChangedGrants
  <2>6. RequestInStep(a)' BY <1>1, <1>2, <1>3, <2>4, <2>5 DEF RequestInStep
  <2>7. projectMem[p] = admin[a].to BY <1>1, <2>4 DEF RequestInStep
  <2>8. governanceRestarts' = 0 => SnapshotsInStep' BY <1>2, <1>3, <2>4, <2>7 DEF SnapshotsInStep, Closing
  <2> QED BY <1>2, <1>3, <1>4, <1>5, <2>1, <2>6, <2>8, AdminFrame DEF Kept, GrantsInv, StillCalm
<1> QED BY <1>4, <1>5
LEMMA PurgeSnapshotsKeeps ==
  ASSUME GrantsInv, ProjectsInv, NEW a \in Admins, PurgeSnapshots(a)
  PROVE  Kept /\ (StillCalm => InStep')
<1> DEFINE p == admin[a].project
           r == [admin[a] EXCEPT !.pc = "project", !.purged = p \in stored]
<1>1. /\ p \in Projects /\ admin[a].pc = "purge" /\ admin[a].to \in {"Archived", "Deleted"}
      /\ AdminsOK /\ admin[a] \in AdminRecord
  BY DEF ProjectsInv, AdminsOK, AdminOK, AdminRecord, PurgeSnapshots
<1>2. /\ UNCHANGED <<grantMem, grantRow, storedRow, governanceRestarts, projectMem, projectRow>>
      /\ UNCHANGED lifecycleFrame
      /\ stored' = stored \ {p}
      /\ \/ admin' = [admin EXCEPT ![a] = r] /\ UNCHANGED lifecycleFaults
         \/ LifecycleFault /\ admin' = [admin EXCEPT ![a] = IdleAdmin]
  BY DEF PurgeSnapshots, lifecycleFrame
<1>3. (p \in stored) \in BOOLEAN OBVIOUS
<1>4. r \in AdminRecord BY <1>1, <1>3 DEF AdminRecord
<1>5. /\ r.pc = "project" /\ r.project = p /\ r.from = admin[a].from /\ r.to = admin[a].to
      /\ r.purged = (p \in stored)
  BY <1>1 DEF AdminRecord
<1> HIDE DEF r
<1>6. AdminOK(r) BY <1>1, <1>5 DEF AdminOK, ProjectStates
<1>7. CASE admin' = [admin EXCEPT ![a] = r] /\ UNCHANGED lifecycleFaults
  <2>1. AdminsOK' /\ admin'[a] = r /\ \A b \in Admins \ {a} : admin'[b] = admin[b]
    BY <1>1, <1>4, <1>6, <1>7, AdminsKept
  <2>2. Kept
    <3>1. ProjectTables' BY <1>2 DEF ProjectsInv, ProjectTables
    <3>2. GrantsInv' /\ EndedKept BY <1>2, <1>7, StatusesKept DEF GrantsInv, StatusOK, WorldOK
    <3> QED BY <2>1, <3>1, <3>2 DEF Kept
  <2>3. ASSUME StillCalm PROVE InStep'
    <3>1. AdminAlone(a) /\ AdminAlone(a)'
      BY <1>1, <1>2, <2>1, <2>3, StaysAlone DEF StillCalm, lifecycleFrame
    <3>2. InStep BY <2>3 DEF StillCalm
    <3>3. /\ RequestInStep(a)
          /\ governanceRestarts = 0 =>
                \A q \in Projects : /\ q \in stored <=> q \in storedRow
                                    /\ q # p /\ q \in stored
                                         => projectMem[q] \notin {"Archived", "Deleted"}
      BY <1>1, <3>1, <3>2, AloneKnows
    <3>4. ChangedGrants(admin'[a], grantRow') = ChangedGrants(admin[a], grantRow)
      BY <1>2, <1>5, <2>1 DEF ChangedGrants
    <3>5. RequestInStep(a)' BY <1>1, <1>2, <1>5, <2>1, <3>3, <3>4 DEF RequestInStep
    <3>6. governanceRestarts' = 0 => SnapshotsInStep' BY <1>2, <1>5, <2>1, <3>3 DEF SnapshotsInStep
    <3> QED BY <1>5, <2>1, <2>2, <2>3, <3>1, <3>5, <3>6, AdminFrame DEF Kept, GrantsInv, StillCalm
  <2> QED BY <2>2, <2>3
<1>8. CASE LifecycleFault /\ admin' = [admin EXCEPT ![a] = IdleAdmin]
  <2>1. AdminsOK' BY <1>1, <1>8, AdminDone
  <2>2. lifecycleFaults' \in Nat /\ lifecycleFaults' # lifecycleFaults BY <1>8, FaultTyped
  <2>3. ProjectTables' BY <1>2 DEF ProjectsInv, ProjectTables
  <2>4. GrantsInv' /\ EndedKept BY <1>2, <2>2, StatusesKept DEF GrantsInv, StatusOK
  <2> QED BY <2>1, <2>2, <2>3, <2>4 DEF Kept, StillCalm
<1> QED BY <1>2, <1>7, <1>8

LEMMA SaveProjectContextKeeps ==
  ASSUME GrantsInv, ProjectsInv, NEW a \in Admins, SaveProjectContext(a)
  PROVE  Kept /\ (StillCalm => InStep')
<1> DEFINE p == admin[a].project
<1>1. /\ p \in Projects /\ admin[a].pc = "project" /\ admin[a].to \in ProjectStates
      /\ AdminsOK /\ admin[a] \in AdminRecord
  BY DEF ProjectsInv, AdminsOK, AdminOK, AdminRecord, SaveProjectContext
<1>2. /\ UNCHANGED <<grantMem, grantRow, stored, storedRow, governanceRestarts, projectMem>>
      /\ UNCHANGED lifecycleFrame
      /\ \/ /\ projectRow' = [projectRow EXCEPT ![p] = admin[a].to]
            /\ admin' = [admin EXCEPT ![a] = [admin[a] EXCEPT !.pc = "rows"]]
            /\ UNCHANGED lifecycleFaults
         \/ /\ LifecycleFault
            /\ admin' = [admin EXCEPT ![a] = IdleAdmin]
            /\ UNCHANGED projectRow
  BY DEF SaveProjectContext, lifecycleFrame
<1>3. lifecycleFaults' \in Nat BY <1>2, FaultTyped DEF GrantsInv, WorldOK
<1>4. GrantsInv' /\ EndedKept BY <1>2, <1>3, StatusesKept DEF GrantsInv, StatusOK
<1>5. ProjectTables' BY <1>1, <1>2 DEF ProjectsInv, ProjectTables
<1>6. CASE /\ projectRow' = [projectRow EXCEPT ![p] = admin[a].to]
           /\ admin' = [admin EXCEPT ![a] = [admin[a] EXCEPT !.pc = "rows"]]
           /\ UNCHANGED lifecycleFaults
  <2>1. /\ AdminsOK' /\ admin'[a].pc = "rows"
        /\ admin'[a].project = p /\ admin'[a].from = admin[a].from
        /\ admin'[a].to = admin[a].to /\ admin'[a].purged = admin[a].purged
        /\ \A b \in Admins \ {a} : admin'[b] = admin[b]
    BY <1>1, <1>6, AdminMoves
  <2>2. ASSUME StillCalm PROVE InStep'
    <3>1. AdminAlone(a) /\ AdminAlone(a)'
      BY <1>1, <1>2, <2>1, <2>2, StaysAlone DEF StillCalm, lifecycleFrame
    <3>2. InStep BY <2>2 DEF StillCalm
    <3>3. /\ RequestInStep(a)
          /\ governanceRestarts = 0 =>
                \A q \in Projects : projectMem[q] \in {"Archived", "Deleted"} => q \notin stored
      BY <1>1, <3>1, <3>2, AloneKnows
    <3>4. ChangedGrants(admin'[a], grantRow') = ChangedGrants(admin[a], grantRow)
      BY <1>2, <2>1 DEF ChangedGrants
    <3>5. \A q \in Projects : projectMem'[q] = projectRow'[q]
      BY <1>1, <1>2, <1>6, <3>3 DEF RequestInStep, ProjectsInv, ProjectTables
    <3>6. RequestInStep(a)' BY <1>1, <1>2, <2>1, <3>3, <3>4, <3>5 DEF RequestInStep
    <3>7. governanceRestarts' = 0 => SnapshotsInStep'
      <4> SUFFICES ASSUME governanceRestarts = 0 PROVE SnapshotsInStep' BY <1>2
      <4>1. ASSUME NEW q \in Projects, ~(q \in stored' <=> q \in storedRow')
            PROVE  /\ admin'[a].project = q /\ admin'[a].purged /\ q \notin stored'
                   /\ admin'[a].pc \in {"project", "rows", "suspendedRows", "snapshots"}
        BY <1>2, <2>1, <3>1, <3>2, <4>1 DEF InStep, SnapshotsInStep, AdminAlone
      <4> QED BY <1>2, <3>3, <4>1 DEF SnapshotsInStep
    <3> QED BY <1>4, <2>1, <2>2, <3>1, <3>5, <3>6, <3>7, AdminFrame DEF GrantsInv, StillCalm
  <2> QED BY <1>4, <1>5, <2>1, <2>2 DEF Kept
<1>7. CASE LifecycleFault /\ admin' = [admin EXCEPT ![a] = IdleAdmin]
  <2>1. AdminsOK' BY <1>1, <1>7, AdminDone
  <2>2. lifecycleFaults' # lifecycleFaults BY <1>7, FaultTyped
  <2> QED BY <1>4, <1>5, <2>1, <2>2 DEF Kept, StillCalm
<1> QED BY <1>2, <1>6, <1>7

LEMMA PersistKeeps ==
  ASSUME GrantsInv, ProjectsInv, NEW a \in Admins, PersistProjectGrantState(a)
  PROVE  Kept /\ (StillCalm => InStep')
<1> DEFINE p == admin[a].project
           goesOn == Closing(a) /\ admin[a].pc = "rows"
           rows == CASE admin[a].pc = "suspendedRows" ->
                          Regranted(grantRow, p, "Suspended", "Revoked")
                     [] goesOn -> Regranted(grantRow, p, "Active", "Revoked")
                     [] admin[a].to = "Frozen" ->
                          Regranted(grantRow, p, "Active", "Suspended")
                     [] admin[a].to = "Active" ->
                          Regranted(grantRow, p, "Suspended", "Active")
                     [] OTHER -> grantRow
           Moves(pc) == admin' = [admin EXCEPT ![a] = [admin[a] EXCEPT !.pc = pc]]
           Ends == admin' = [admin EXCEPT ![a] = IdleAdmin]
<1>1. /\ p \in Projects /\ admin[a].pc \in {"rows", "suspendedRows"} /\ admin[a].to \in ProjectStates
      /\ AdminsOK /\ admin[a] \in AdminRecord
      /\ admin[a].pc = "suspendedRows" => Closing(a)
      /\ admin[a].purged => Closing(a)
  BY DEF ProjectsInv, AdminsOK, AdminOK, AdminRecord, PersistProjectGrantState, Closing
<1>2. /\ UNCHANGED <<grantMem, stored, storedRow, governanceRestarts, projectMem, projectRow>>
      /\ UNCHANGED lifecycleFrame
      /\ \/ /\ grantRow' = rows /\ UNCHANGED lifecycleFaults
            /\ \/ goesOn /\ Moves("suspendedRows")
               \/ ~goesOn /\ admin[a].purged /\ Moves("snapshots")
               \/ ~goesOn /\ ~admin[a].purged /\ Ends
         \/ LifecycleFault /\ Ends /\ UNCHANGED grantRow
  BY DEF PersistProjectGrantState, lifecycleFrame
<1>3. /\ rows \in [Grants -> Status]
      /\ \A g \in Grants : grantRow[g] \notin {"Active", "Suspended"} => rows[g] = grantRow[g]
  BY RegrantedTyped DEF GrantsInv, StatusOK
<1>a. lifecycleFaults' \in Nat BY <1>2, FaultTyped DEF GrantsInv, WorldOK
<1>4. GrantsInv' /\ EndedKept
  <2>1. /\ grantRow' \in [Grants -> Status]
        /\ \A g \in Grants : grantRow[g] \notin {"Active", "Suspended"} => grantRow'[g] = grantRow[g]
    BY <1>2, <1>3 DEF GrantsInv, StatusOK
  <2> QED BY <1>2, <1>a, <2>1, StatusesKept DEF GrantsInv, StatusOK
<1>5. ProjectTables' BY <1>2 DEF ProjectsInv, ProjectTables
<1>6. CASE LifecycleFault /\ Ends
  <2>1. AdminsOK' BY <1>1, <1>6, AdminDone
  <2>2. lifecycleFaults' # lifecycleFaults BY <1>6, FaultTyped
  <2> QED BY <1>4, <1>5, <2>1, <2>2 DEF Kept, StillCalm
<1>7. CASE grantRow' = rows /\ goesOn /\ Moves("suspendedRows")
  <2>1. /\ AdminsOK' /\ admin'[a].pc = "suspendedRows"
        /\ admin'[a].project = p /\ admin'[a].purged = admin[a].purged
        /\ admin'[a].to = admin[a].to
        /\ \A b \in Admins \ {a} : admin'[b] = admin[b]
    BY <1>1, <1>7, AdminMoves DEF Closing
  <2>2. ASSUME StillCalm PROVE InStep'
    <3>1. AdminAlone(a) /\ AdminAlone(a)'
      BY <1>1, <1>2, <2>1, <2>2, StaysAlone DEF StillCalm, lifecycleFrame
    <3>2. InStep BY <2>2 DEF StillCalm
    <3>3. /\ RequestInStep(a)
          /\ \A q \in Projects : projectMem[q] = projectRow[q]
          /\ governanceRestarts = 0 =>
                \A q \in Projects : projectMem[q] \in {"Archived", "Deleted"} => q \notin stored
      BY <1>1, <3>1, <3>2, AloneKnows
    <3>4. grantRow' = Regranted(grantRow, p, "Active", "Revoked") BY <1>7 DEF Closing
    <3>5. grantMem' = Regranted(grantRow', p, "Suspended", "Revoked")
      BY <1>2, <1>7, <3>3, <3>4 DEF RequestInStep, ChangedGrants, Closing
    <3>6. RequestInStep(a)' BY <1>1, <1>2, <2>1, <3>3, <3>5 DEF RequestInStep
    <3>7. governanceRestarts' = 0 => SnapshotsInStep'
      <4> SUFFICES ASSUME governanceRestarts = 0 PROVE SnapshotsInStep' BY <1>2
      <4>1. ASSUME NEW q \in Projects, ~(q \in stored' <=> q \in storedRow')
            PROVE  /\ admin'[a].project = q /\ admin'[a].purged /\ q \notin stored'
                   /\ admin'[a].pc \in {"project", "rows", "suspendedRows", "snapshots"}
        BY <1>2, <2>1, <3>1, <3>2, <4>1 DEF InStep, SnapshotsInStep, AdminAlone
      <4> QED BY <1>2, <3>3, <4>1 DEF SnapshotsInStep
    <3> QED BY <1>2, <1>4, <2>1, <2>2, <3>1, <3>3, <3>6, <3>7, AdminFrame DEF GrantsInv, StillCalm
  <2> QED BY <1>4, <1>5, <2>1, <2>2 DEF Kept
<1>8. CASE /\ grantRow' = rows /\ ~goesOn
           /\ \/ admin[a].purged /\ Moves("snapshots")
              \/ ~admin[a].purged /\ Ends
  <2>1. /\ AdminsOK' /\ admin'[a].pc \in {"snapshots", "idle"}
        /\ admin[a].purged => /\ admin'[a].pc = "snapshots" /\ admin'[a].project = p
                              /\ admin'[a].purged /\ admin'[a].to = admin[a].to
        /\ ~admin[a].purged => admin'[a].pc = "idle"
        /\ \A b \in Admins \ {a} : admin'[b] = admin[b]
    <3>1. CASE admin[a].purged /\ Moves("snapshots") BY <1>1, <3>1, AdminMoves DEF Closing
    <3>2. CASE ~admin[a].purged /\ Ends BY <1>1, <3>2, AdminDone
    <3> QED BY <1>8, <3>1, <3>2
  <2>2. ASSUME StillCalm PROVE InStep'
    <3>1. AdminAlone(a) /\ AdminAlone(a)'
      BY <1>1, <1>2, <2>1, <2>2, StaysAlone DEF StillCalm, lifecycleFrame
    <3>2. InStep BY <2>2 DEF StillCalm
    <3>3. /\ RequestInStep(a)
          /\ \A q \in Projects : projectMem[q] = projectRow[q]
          /\ governanceRestarts = 0 =>
                \A q \in Projects : projectMem[q] \in {"Archived", "Deleted"} => q \notin stored
          /\ (governanceRestarts = 0 /\ ~admin[a].purged)
                => \A q \in Projects : q \in stored <=> q \in storedRow
      BY <1>1, <3>1, <3>2, AloneKnows
    <3>4. \A g \in Grants : grantMem'[g] = grantRow'[g]
      <4>1. CASE admin[a].pc = "suspendedRows"
        <5>1. grantRow' = Regranted(grantRow, p, "Suspended", "Revoked") BY <1>1, <1>8, <4>1 DEF Closing
        <5> QED BY <1>2, <3>3, <4>1, <5>1 DEF RequestInStep
      <4>2. CASE admin[a].pc = "rows"
        <5>1. ~Closing(a) /\ grantMem = ChangedGrants(admin[a], grantRow)
          BY <1>8, <3>3, <4>2 DEF RequestInStep
        <5>2. CASE admin[a].to = "Frozen" BY <1>2, <1>8, <4>2, <5>1, <5>2 DEF ChangedGrants, Closing
        <5>3. CASE admin[a].to = "Active" /\ admin[a].from = "Frozen"
          BY <1>2, <1>8, <4>2, <5>1, <5>3 DEF ChangedGrants, Closing
        <5>4. CASE admin[a].to = "Active" /\ admin[a].from # "Frozen"
          <6>1. grantMem = grantRow BY <5>1, <5>4 DEF ChangedGrants, Closing
          <6>2. grantRow' = Regranted(grantRow, p, "Suspended", "Active") BY <1>8, <4>2, <5>1, <5>4
          <6>3. \A g \in Grants : ProjectOf[g] = p => grantRow[g] # "Suspended"
            BY <3>3, <4>2, <5>4 DEF RequestInStep
          <6> QED BY <1>2, <6>1, <6>2, <6>3 DEF Regranted
        <5>5. CASE admin[a].to \notin {"Frozen", "Active"}
          BY <1>2, <1>8, <4>2, <5>1, <5>5 DEF ChangedGrants, Closing
        <5> QED BY <5>2, <5>3, <5>4, <5>5
      <4> QED BY <1>1, <4>1, <4>2
    <3>5. RequestInStep(a)' BY <1>1, <1>2, <2>1, <3>3 DEF RequestInStep
    <3>6. governanceRestarts' = 0 => SnapshotsInStep'
      <4> SUFFICES ASSUME governanceRestarts = 0 PROVE SnapshotsInStep' BY <1>2
      <4>1. ASSUME NEW q \in Projects, ~(q \in stored' <=> q \in storedRow')
            PROVE  /\ admin'[a].project = q /\ admin'[a].purged /\ q \notin stored'
                   /\ admin'[a].pc \in {"project", "rows", "suspendedRows", "snapshots"}
        BY <1>2, <2>1, <3>1, <3>2, <4>1 DEF InStep, SnapshotsInStep, AdminAlone
      <4> QED BY <1>2, <3>3, <4>1 DEF SnapshotsInStep
    <3> QED BY <1>2, <1>4, <2>1, <2>2, <3>1, <3>3, <3>4, <3>5, <3>6, AdminFrame DEF GrantsInv, StillCalm
  <2> QED BY <1>4, <1>5, <2>1, <2>2 DEF Kept
<1> QED BY <1>2, <1>6, <1>7, <1>8

LEMMA DeleteSnapshotRowsKeeps ==
  ASSUME GrantsInv, ProjectsInv, NEW a \in Admins, DeleteSnapshotRows(a)
  PROVE  Kept /\ (StillCalm => InStep')
<1> DEFINE p == admin[a].project
<1>1. /\ p \in Projects /\ admin[a].pc = "snapshots" /\ admin[a].to \in {"Archived", "Deleted"}
      /\ AdminsOK
  BY DEF ProjectsInv, AdminsOK, AdminOK, AdminRecord, DeleteSnapshotRows
<1>2. /\ UNCHANGED <<grantMem, grantRow, stored, governanceRestarts, projectMem, projectRow>>
      /\ UNCHANGED lifecycleFrame
      /\ admin' = [admin EXCEPT ![a] = IdleAdmin]
      /\ \/ storedRow' = storedRow \ {p} /\ UNCHANGED lifecycleFaults
         \/ LifecycleFault /\ UNCHANGED storedRow
  BY DEF DeleteSnapshotRows, lifecycleFrame
<1>3. /\ AdminsOK' /\ admin'[a].pc = "idle"
      /\ \A b \in Admins \ {a} : admin'[b] = admin[b]
  BY <1>1, <1>2, AdminDone
<1>4. lifecycleFaults' \in Nat BY <1>2, FaultTyped DEF GrantsInv, WorldOK
<1>5. Kept
  <2>1. ProjectTables' BY <1>2 DEF ProjectsInv, ProjectTables
  <2>2. GrantsInv' /\ EndedKept BY <1>2, <1>4, StatusesKept DEF GrantsInv, StatusOK
  <2> QED BY <1>3, <2>1, <2>2 DEF Kept
<1>6. ASSUME StillCalm PROVE InStep'
  <2>1. AdminAlone(a) /\ AdminAlone(a)'
    BY <1>1, <1>2, <1>3, <1>6, StaysAlone DEF StillCalm, lifecycleFrame
  <2>2. storedRow' = storedRow \ {p} BY <1>2, <1>6, FaultTyped DEF StillCalm
  <2>3. InStep BY <1>6 DEF StillCalm
  <2>4. /\ RequestInStep(a) /\ grantMem = grantRow
        /\ \A q \in Projects : projectMem[q] = projectRow[q]
        /\ governanceRestarts = 0 =>
              \A q \in Projects : /\ q # p => (q \in stored <=> q \in storedRow)
                                  /\ projectMem[q] \in {"Archived", "Deleted"} => q \notin stored
    BY <1>1, <2>1, <2>3, AloneKnows
  <2>5. projectMem[p] = admin[a].to BY <1>1, <2>4 DEF RequestInStep
  <2>6. governanceRestarts' = 0 => SnapshotsInStep' BY <1>1, <1>2, <2>2, <2>4, <2>5 DEF SnapshotsInStep
  <2>7. RequestInStep(a)' BY <1>3 DEF RequestInStep
  <2> QED BY <1>2, <1>3, <1>5, <1>6, <2>1, <2>4, <2>6, <2>7, AdminFrame DEF Kept, GrantsInv, StillCalm
<1> QED BY <1>5, <1>6
----
(* Every step. *)

LEMMA RestartKeeps ==
  ASSUME GrantsInv, ProjectsInv, LoadGovernance
  PROVE  /\ GrantsInv' /\ ProjectTables' /\ AdminsOK'
         /\ \A g \in Grants : grantRow'[g] = grantRow[g]
         /\ lifecycleFaults' = lifecycleFaults
         /\ governanceRestarts' # governanceRestarts
         /\ InStep /\ Met' => InStep'
<1>1. /\ UNCHANGED <<directory, roleHolders, binding, grantRow, lapsed, lifecycleFaults,
                     projectRow, storedRow>>
      /\ governanceRestarts' = governanceRestarts + 1
      /\ projectMem' = projectRow /\ grantMem' = grantRow /\ stored' = storedRow
      /\ admin' = [a \in Admins |-> IdleAdmin]
      /\ lifecycleJob' = [j \in LifecycleJobs |-> IdleLifecycleJob]
      /\ activation' = [g \in Grants |-> IF activation[g].pc = "none" THEN activation[g]
                                        ELSE [activation[g] EXCEPT !.pc = "over"]]
  BY DEF LoadGovernance
<1>2. JobsOK' /\ \A j \in LifecycleJobs : lifecycleJob'[j].pc = "idle" BY <1>1, IdleJobTyped DEF JobsOK
<1>3. AdminsOK' /\ \A a \in Admins : admin'[a].pc = "idle" BY <1>1, IdleAdminTyped DEF AdminsOK
<1>4. /\ activation' \in [Grants -> ActivationRecord]
      /\ \A g \in Grants : /\ activation'[g].pc \in {"none", "over"}
                           /\ activation'[g].pc = "none" => activation[g].pc = "none"
  <2>1. activation \in [Grants -> ActivationRecord] BY DEF GrantsInv, ActivationOK
  <2>2. \A g \in Grants :
          /\ [activation[g] EXCEPT !.pc = "over"] \in ActivationRecord
          /\ [activation[g] EXCEPT !.pc = "over"].pc = "over"
    BY <2>1 DEF ActivationRecord
  <2>3. \A g \in Grants : activation'[g] = IF activation[g].pc = "none" THEN activation[g]
                                           ELSE [activation[g] EXCEPT !.pc = "over"]
    BY <1>1
  <2>4. \A g \in Grants : activation'[g] \in ActivationRecord BY <2>1, <2>2, <2>3
  <2>5. activation' \in [Grants -> ActivationRecord] BY <1>1, <2>4
  <2> QED BY <2>2, <2>3, <2>5
<1>5. ActivationOK' BY <1>1, <1>4 DEF GrantsInv, ActivationOK
<1>6. StatusOK' /\ WorldOK' BY <1>1 DEF GrantsInv, StatusOK, WorldOK
<1>7. ProjectTables' BY <1>1 DEF ProjectsInv, ProjectTables
<1>8. ASSUME Met' PROVE InStep'
  <2>1. (\A j \in LifecycleJobs : JobInStep(j))' BY <1>2, IdleJobInStep
  <2>2. (\A a \in Admins : RequestInStep(a))' BY <1>3 DEF RequestInStep
  <2>3. (\A g \in Grants : ActivationInStep(g))' BY <1>4 DEF ActivationInStep
  <2>4. GrantsApart' /\ ProjectsApart' BY <1>1 DEF GrantsApart, ProjectsApart
  <2>5. governanceRestarts' # 0 BY <1>1 DEF ProjectsInv, ProjectTables
  <2> QED BY <1>8, <2>1, <2>2, <2>3, <2>4, <2>5 DEF InStep, Met
<1>9. governanceRestarts' # governanceRestarts BY <1>1 DEF ProjectsInv, ProjectTables
<1> QED BY <1>1, <1>2, <1>3, <1>5, <1>6, <1>7, <1>8, <1>9 DEF GrantsInv

LEMMA GrantsBegin ==
  ASSUME NEW people \in People, NEW given \in SUBSET Grants,
         NEW projects \in [Projects -> {"none", "Created", "Active", "Frozen"}],
         GrantsInit(people, given, projects)
  PROVE  /\ GrantsInv /\ grantRow = grantMem /\ projectMem = projects
         /\ \A j \in LifecycleJobs : /\ lifecycleJob[j].pc = "idle"
                                     /\ lifecycleJob[j].todo = {} /\ lifecycleJob[j].now = {}
         /\ \A g \in Grants : activation[g].pc \in {"none", "over"}
<1>1. JobsOK /\ \A j \in LifecycleJobs : lifecycleJob[j].pc = "idle" /\ lifecycleJob[j].todo = {}
                                         /\ lifecycleJob[j].now = {}
  BY IdleJobTyped DEF GrantsInit, JobsOK, JobOK
<1>2. activation = [g \in Grants |-> [pc |-> IF g \in given THEN "over" ELSE "none",
                                      org |-> Missing]]
  BY DEF GrantsInit
<1>3. /\ activation \in [Grants -> ActivationRecord]
      /\ \A g \in Grants : /\ activation[g].pc \in {"none", "over"}
                           /\ activation[g].pc = "none" => g \notin given
  BY <1>2 DEF ActivationRecord
<1>4. /\ grantMem = [g \in Grants |-> IF g \in given THEN "Active" ELSE "none"]
      /\ grantRow = grantMem
  BY DEF GrantsInit
<1>5. ActivationOK BY <1>3, <1>4 DEF ActivationOK
<1>6. StatusOK
  <2>1. \A g \in Grants : people[Applicant[g]] \in OrgUser \cup {Missing} BY GrantAssumption DEF People
  <2>2. \A g \in Grants : [department |-> people[Applicant[g]].department,
                           manager |-> people[Applicant[g]].manager] \in Binding
    BY <2>1 DEF OrgUser, Missing, Binding
  <2>3. binding = [g \in Grants |->
                     IF g \in given THEN [department |-> people[Applicant[g]].department,
                                         manager |-> people[Applicant[g]].manager]
                     ELSE NoOne]
    BY DEF GrantsInit
  <2>4. /\ binding \in [Grants -> Binding \cup {NoOne}]
        /\ \A g \in Grants : g \in given => binding[g] \in Binding
    BY <2>2, <2>3
  <2>5. grantRow \in [Grants -> Status] /\ \A g \in Grants : grantRow[g] # "none" => g \in given
    BY <1>4 DEF Status
  <2> QED BY <1>4, <2>4, <2>5 DEF StatusOK
<1>7. WorldOK /\ projectMem = projects BY DEF GrantsInit, WorldOK
<1> QED BY <1>1, <1>3, <1>4, <1>5, <1>6, <1>7 DEF GrantsInv

LEMMA InvInit == GovernanceInit => GovernanceInv
<1> SUFFICES ASSUME GovernanceInit PROVE GovernanceInv OBVIOUS
<1>1. PICK people \in People, given \in SUBSET Grants,
           projects \in [Projects -> {"none", "Created", "Active", "Frozen"}] :
        GrantsInit(people, given, projects)
  BY DEF GovernanceInit, People
<1>2. ProjectsInit BY DEF GovernanceInit
<1>3. /\ GrantsInv /\ grantRow = grantMem /\ projectMem = projects
      /\ \A j \in LifecycleJobs : /\ lifecycleJob[j].pc = "idle"
                                  /\ lifecycleJob[j].todo = {} /\ lifecycleJob[j].now = {}
      /\ \A g \in Grants : activation[g].pc \in {"none", "over"}
  BY <1>1, GrantsBegin
<1>4. AdminsOK /\ \A a \in Admins : admin[a].pc = "idle"
  BY <1>2, IdleAdminTyped DEF ProjectsInit, AdminsOK
<1>5. /\ projectRow = projectMem /\ stored = {p \in Projects : projectMem[p] # "none"}
      /\ storedRow = stored /\ governanceRestarts = 0 /\ crossed = FALSE
  BY <1>2 DEF ProjectsInit
<1>6. ProjectTables BY <1>3, <1>5 DEF ProjectTables, ProjectStates
<1>7. InStep
  <2>1. Alone /\ ~ResumesUnasked BY <1>3, <1>4 DEF Alone, Writers, ResumesUnasked
  <2>2. \A j \in LifecycleJobs : JobInStep(j) BY <1>3 DEF JobInStep
  <2>3. \A a \in Admins : RequestInStep(a) BY <1>4 DEF RequestInStep
  <2>4. \A g \in Grants : ActivationInStep(g) BY <1>3 DEF ActivationInStep
  <2>5. GrantsApart /\ ProjectsApart BY <1>3, <1>5 DEF GrantsApart, ProjectsApart
  <2>6. SnapshotsInStep BY <1>3, <1>5 DEF SnapshotsInStep
  <2> QED BY <2>1, <2>2, <2>3, <2>4, <2>5, <2>6 DEF InStep
<1> QED BY <1>3, <1>4, <1>6, <1>7 DEF GovernanceInv, ProjectsInv

\* A step of one kind or another, and whether it leaves everybody in step.
LEMMA StepKeeps ==
  ASSUME GrantsInv, ProjectsInv, ProjectNext
  PROVE  /\ GrantsInv' /\ ProjectsInv'
         /\ EndedKept \/ /\ governanceRestarts' # governanceRestarts
                         /\ \A g \in Grants : grantRow'[g] = grantRow[g]
         /\ (lifecycleFaults = 0 /\ lifecycleFaults' = 0 /\ InStep /\ Met') => InStep'
<1>1. CASE LifecycleStep
  <2>1. LifecycleNext /\ UNCHANGED projectFrame BY <1>1 DEF LifecycleStep, projectFrame
  <2>2. GrantsInv' /\ EndedKept BY <2>1, LifecycleKeeps
  <2>3. projectMem' = projectMem
    BY <2>1 DEF LifecycleNext, GovernanceTick, AuditSignal, JobStep, LoadLifecycleGrants,
        ApplyLifecycleTransition, UpdateGrantRow, SaveLifecycleEvent, EndJob, CheckActivation,
        SaveGrant, RegisterGrant, Lapse, LoseRole, DirectoryChanges, WorldChange
  <2>4. ProjectsInv' BY <2>1, <2>3 DEF ProjectsInv, ProjectTables, AdminsOK, projectFrame
  <2> QED BY <2>1, <2>2, <2>4, LifecycleInStep
<1>2. ASSUME NEW a \in Admins,
             \/ \E p \in Projects, s \in ProjectStates :
                  ProjectCreate(a, p, s) \/ ChangeProjectState(a, p, s)
             \/ AdminStep(a)
      PROVE  Kept /\ (StillCalm => InStep')
  BY <1>2, ProjectCreateKeeps, ChangeProjectStateKeeps, SaveNewProjectKeeps,
     ChangeGrantsInMemoryKeeps, PurgeSnapshotsKeeps, SaveProjectContextKeeps,
     PersistKeeps, DeleteSnapshotRowsKeeps DEF AdminStep
<1>3. CASE \E a \in Admins :
             \/ \E p \in Projects, s \in ProjectStates :
                  ProjectCreate(a, p, s) \/ ChangeProjectState(a, p, s)
             \/ AdminStep(a)
  BY <1>2, <1>3 DEF Kept, StillCalm, ProjectsInv
<1>4. CASE LoadGovernance BY <1>4, RestartKeeps DEF ProjectsInv
<1> QED BY <1>1, <1>3, <1>4 DEF ProjectNext

\* Faults are counted and a meeting is not forgotten.
LEMMA CalmBefore ==
  ASSUME GrantsInv, ProjectNext, Calm'
  PROVE  Calm /\ Met'
<1>1. ~crossed /\ Met' BY DEF ProjectNext, Calm, Met, Alone
<1>2. lifecycleFaults' = lifecycleFaults \/ LifecycleFault
  BY DEF ProjectNext, LifecycleStep, LifecycleNext, GovernanceTick, AuditSignal, JobStep,
         LoadLifecycleGrants, ApplyLifecycleTransition, UpdateGrantRow, SaveLifecycleEvent, EndJob,
         CheckActivation, SaveGrant, RegisterGrant, Lapse, LoseRole, DirectoryChanges, WorldChange,
         ProjectCreate, ChangeProjectState, AdminStep, SaveNewProject, ChangeGrantsInMemory,
         PurgeSnapshots, SaveProjectContext, PersistProjectGrantState, DeleteSnapshotRows,
         LoadGovernance
<1>3. lifecycleFaults = 0 BY <1>2 DEF Calm, GrantsInv, WorldOK, LifecycleFault
<1> QED BY <1>1, <1>3 DEF Calm

LEMMA InvStep == GovernanceInv /\ [ProjectNext]_governanceVars => GovernanceInv'
<1> SUFFICES ASSUME GovernanceInv, [ProjectNext]_governanceVars PROVE GovernanceInv' OBVIOUS
<1>1. CASE ProjectNext
  <2>1. GrantsInv /\ ProjectsInv /\ (Calm => InStep) BY DEF GovernanceInv
  <2>2. /\ GrantsInv' /\ ProjectsInv'
        /\ (lifecycleFaults = 0 /\ lifecycleFaults' = 0 /\ InStep /\ Met') => InStep'
    BY <1>1, <2>1, StepKeeps
  <2>3. Calm' => InStep' BY <1>1, <2>1, <2>2, CalmBefore DEF Calm
  <2> QED BY <2>2, <2>3 DEF GovernanceInv
<1>2. CASE UNCHANGED governanceVars
  <2>1. GrantsInv'
    BY <1>2 DEF GovernanceInv, GrantsInv, JobsOK, ActivationOK, StatusOK, WorldOK, governanceVars, grantVars
  <2>2. ProjectsInv'
    BY <1>2 DEF GovernanceInv, ProjectsInv, ProjectTables, AdminsOK, governanceVars, grantVars, projectVars
  <2>3. Calm' => InStep'
    <3>1. /\ Calm' = Calm
          /\ Alone' = Alone /\ ResumesUnasked' = ResumesUnasked
          /\ GrantsApart' = GrantsApart /\ ProjectsApart' = ProjectsApart
          /\ SnapshotsInStep' = SnapshotsInStep /\ governanceRestarts' = governanceRestarts
      BY <1>2 DEF Calm, Alone, Writers, ResumesUnasked, GrantsApart, ProjectsApart, SnapshotsInStep,
                  governanceVars, grantVars, projectVars
    <3>2. /\ \A j \in LifecycleJobs : JobInStep(j)' = JobInStep(j)
          /\ \A a \in Admins : RequestInStep(a)' = RequestInStep(a)
          /\ \A g \in Grants : ActivationInStep(g)' = ActivationInStep(g)
      BY <1>2 DEF JobInStep, RequestInStep, ActivationInStep, governanceVars, grantVars, projectVars
    <3> QED BY <3>1, <3>2 DEF GovernanceInv, InStep
  <2> QED BY <2>1, <2>2, <2>3 DEF GovernanceInv
<1> QED BY <1>1, <1>2

\* At rest, memory agrees with the tables.
LEMMA InvAgrees == GovernanceInv => RegistryMatchesTable
<1> SUFFICES ASSUME GovernanceInv PROVE RegistryMatchesTable OBVIOUS
<1>1. GrantsTypeOK /\ ProjectsTypeOK BY TypesFollow DEF GovernanceInv
<1>2. ASSUME /\ ~crossed /\ lifecycleFaults = 0
             /\ \A j \in LifecycleJobs : lifecycleJob[j].pc = "idle"
             /\ \A a \in Admins : admin[a].pc = "idle"
             /\ \A g \in Grants : activation[g].pc \in {"none", "over"}
      PROVE  /\ \A g \in Grants : grantMem[g] = grantRow[g]
             /\ \A p \in Projects : /\ projectMem[p] = projectRow[p]
                                    /\ projectMem[p] \in {"Archived", "Deleted"}
                                         => \/ p \notin stored \cup storedRow
                                            \/ governanceRestarts > 0
  <2>1. InStep /\ JobsIdle /\ AdminsIdle /\ GrantsIdle
    BY <1>2 DEF GovernanceInv, Calm, JobsIdle, AdminsIdle, GrantsIdle
  <2>2. /\ \A g \in Grants : grantMem[g] = grantRow[g]
        /\ \A p \in Projects : projectMem[p] = projectRow[p]
        /\ governanceRestarts = 0 =>
              \A p \in Projects : /\ p \in stored <=> p \in storedRow
                                  /\ projectMem[p] \in {"Archived", "Deleted"} => p \notin stored
    BY <2>1, AtRest
  <2>3. governanceRestarts \in Nat BY DEF GovernanceInv, ProjectsInv, ProjectTables
  <2> QED BY <2>2, <2>3
<1>3. MemoryAgrees BY <1>2 DEF MemoryAgrees
<1> QED BY <1>1, <1>3 DEF RegistryMatchesTable

----
(* Synchronisation with HR: records. *)

HrRecord ==
  [pc : {"idle", "fetch", "load", "item", "upsert", "lifecycle"},
   op : {"none", "poll", "webhook", "direct", "snapshot", "delta"},
   before : [event : Nat, snapshot : Nat], copy : People,
   items : SUBSET HrEvent, now : SUBSET HrEvent, upto : Nat]

\* What a call works through: events of the feed, or entries of the directory.
HrOK(r, provider, known) ==
  /\ IF r.pc \in {"upsert", "lifecycle"} THEN \E e \in HrEvent : r.now = {e}
     ELSE r.now = {}
  /\ r.op = "none" => r.pc = "idle"
  /\ r.pc = "fetch" => r.op \in {"poll", "snapshot", "delta"}
  /\ r.op \in {"poll", "webhook"} => provider \in Feeds
  /\ r.op = "delta" => provider = "ldap"
  /\ r.op \in {"poll", "webhook", "direct"} => \A e \in r.items : e.id \in known
  /\ r.op \in {"snapshot", "delta"} => \A e \in r.items : ProfileOf(e) \in OrgUser

HrJobsOK ==
  /\ hrJob \in [HrJobs -> HrRecord]
  /\ \A h \in HrJobs : HrOK(hrJob[h], hrProvider, DOMAIN feed)

\* A grant job runs in a call exactly while the call waits for it.
JobsMeet ==
  \A h \in HrJobs : (lifecycleJob[h].pc # "idle") <=> (hrJob[h].pc = "lifecycle")

FeedOK ==
  /\ hrProvider \in Feeds \cup {"ldap"}
  /\ feed \in Seq(HrEvent) /\ Len(feed) <= MaxHrEvents
  /\ \A i \in DOMAIN feed : feed[i].id = i
  /\ entries \in [Employees -> [profile : OrgUser \cup {Missing}, stamp : 0..MaxHrEvents]]
  /\ hrCursor \in [event : Nat, snapshot : Nat]

RecordedOK ==
  /\ recorded \subseteq DOMAIN feed
  /\ applied \in [Ids -> {0, 1}]
  /\ \A i \in Ids : applied[i] = 1 => i \in recorded

\* Of a call that polls or a webhook, everything up to its new cursor is known
\* or among the items it still has to take.
Covered(r, known) ==
  /\ 1..r.before.event \subseteq known
  /\ (r.op \in {"poll", "webhook"} /\ r.pc \notin {"idle", "fetch"})
       => 1..r.upto \subseteq known \cup {e.id : e \in r.items}

CursorsCover ==
  hrProvider \in Feeds => /\ 1..hrCursor.event \subseteq Taken
                          /\ \A h \in HrJobs : Covered(hrJob[h], Taken)

HrInv == GrantsInv /\ HrJobsOK /\ JobsMeet /\ FeedOK /\ RecordedOK /\ CursorsCover

----
(* Synchronisation with HR: operators. *)

LEMMA NatMin ==
  ASSUME NEW S, S \subseteq Nat, S # {}
  PROVE  \E x \in S : \A y \in S : x <= y
<1>1. PICK x \in S : \A y \in S : ~ (<<y, x>> \in OpToRel(<, Nat)) BY NatLessThanWellFounded, WFMin
<1>2. \A y \in S : <<y, x>>[1] = y /\ <<y, x>>[2] = x /\ <<y, x>> \in Nat \X Nat OBVIOUS
<1>3. ASSUME NEW y \in S, y < x PROVE FALSE
  <2>1. <<y, x>> \in OpToRel(<, Nat) BY <1>2, <1>3 DEF OpToRel
  <2> QED BY <1>1, <2>1
<1> QED BY <1>3

LEMMA MaxOfBounded ==
  ASSUME NEW N \in Nat, NEW S, S \subseteq 0..N, S # {}
  PROVE  Max(S) \in S /\ \A r \in S : r <= Max(S)
<1> DEFINE T == {N - s : s \in S}
<1>1. T \subseteq Nat /\ T # {}
  <2>1. \A s \in S : N - s \in Nat OBVIOUS
  <2> QED BY <2>1
<1> HIDE DEF T
<1>2. PICK x \in T : \A y \in T : x <= y BY <1>1, NatMin
<1> USE DEF T
<1>3. \E s \in S : \A r \in S : s >= r
  <2>1. PICK s \in S : x = N - s BY <1>2
  <2>2. ASSUME NEW r \in S PROVE s >= r
    <3>1. N - r \in T OBVIOUS
    <3> HIDE DEF T
    <3>2. x <= N - r BY <3>1, <1>2
    <3> QED BY <3>2, <2>1
  <2> QED BY <2>2
<1> QED BY <1>3 DEF Max

LEMMA IdleHrTyped ==
  /\ IdleHr \in HrRecord /\ IdleHr.pc = "idle"
  /\ \A p, known : HrOK(IdleHr, p, known)
  /\ \A known : Covered(IdleHr, known)
<1>1. /\ IdleHr \in HrRecord /\ IdleHr.pc = "idle" /\ IdleHr.op = "none" /\ IdleHr.now = {}
      /\ IdleHr.items = {} /\ IdleHr.before.event = 0 /\ IdleHr.before.snapshot = 0
  BY MissingTyped DEF IdleHr, HrRecord
<1> QED BY <1>1 DEF HrOK, Covered

LEMMA ApplyEventTyped ==
  ASSUME NEW p \in OrgUser \cup {Missing}, NEW e \in HrEvent
  PROVE  ApplyEvent(p, e) \in OrgUser \cup {Missing}
<1>1. /\ e.department \in Departments \cup {NoOne} /\ e.manager \in Managers \cup {NoOne}
      /\ DefaultDepartment \in Departments
  BY GrantAssumption DEF HrEvent
<1>2. CASE e.kind = "Onboard" BY <1>1, <1>2 DEF ApplyEvent, OrgUser
<1>3. CASE e.kind # "Onboard" /\ p = Missing BY <1>3 DEF ApplyEvent
<1>4. CASE e.kind # "Onboard" /\ p # Missing
  <2>1. p \in OrgUser BY <1>4
  <2>2. /\ [p EXCEPT !.status = "Departed"] \in OrgUser
        /\ [p EXCEPT !.manager = e.manager] \in OrgUser
    BY <1>1, <2>1 DEF OrgUser
  <2>3. [p EXCEPT !.department = IF e.department = NoOne THEN @ ELSE e.department,
                  !.manager = IF e.manager = NoOne THEN @ ELSE e.manager] \in OrgUser
    BY <1>1, <2>1 DEF OrgUser
  <2> QED BY <1>4, <2>2, <2>3 DEF ApplyEvent
<1> QED BY <1>2, <1>3, <1>4

LEMMA HrJobsAreJobs == HrJobs \subseteq LifecycleJobs
  BY DEF HrJobs

----
(* Synchronisation with HR: calls keep to their records. *)

\* What a call has read of the feed and of the table is not taken back.
FeedGrows ==
  /\ hrProvider' = hrProvider /\ hooked \subseteq hooked'
  /\ DOMAIN feed \subseteq DOMAIN feed' /\ recorded \subseteq recorded'

LEMMA TakenGrows ==
  ASSUME hooked \subseteq hooked', recorded \subseteq recorded' PROVE Taken \subseteq Taken'
  BY DEF Taken

LEMMA CallsKept ==
  ASSUME HrInv, FeedGrows
  PROVE  /\ \A k \in HrJobs : HrOK(hrJob[k], hrProvider', DOMAIN feed')
         /\ hrProvider' \in Feeds => \A k \in HrJobs : Covered(hrJob[k], Taken')
<1>1. \A k \in HrJobs : HrOK(hrJob[k], hrProvider', DOMAIN feed') BY DEF HrInv, HrJobsOK, HrOK, FeedGrows
<1>2. ASSUME hrProvider' \in Feeds, NEW k \in HrJobs PROVE Covered(hrJob[k], Taken')
  <2>1. Covered(hrJob[k], Taken) BY <1>2 DEF HrInv, CursorsCover, FeedGrows
  <2>2. Taken \subseteq Taken' BY TakenGrows DEF FeedGrows
  <2> QED BY <2>1, <2>2 DEF Covered
<1> QED BY <1>1, <1>2

\* One call moves to the record r.
LEMMA CallKept ==
  ASSUME HrInv, FeedGrows, NEW h \in HrJobs, NEW r \in HrRecord,
         hrJob' = [hrJob EXCEPT ![h] = r],
         HrOK(r, hrProvider, DOMAIN feed'),
         hrProvider \in Feeds
           => Covered(r, Taken') /\ 1..hrCursor'.event \subseteq Taken'
  PROVE  /\ HrJobsOK' /\ CursorsCover' /\ hrJob'[h] = r
         /\ \A k \in HrJobs \ {h} : hrJob'[k] = hrJob[k]
<1>1. hrJob' \in [HrJobs -> HrRecord] BY DEF HrInv, HrJobsOK
<1>2. hrJob'[h] = r /\ \A k \in HrJobs \ {h} : hrJob'[k] = hrJob[k] BY DEF HrInv, HrJobsOK
<1>3. \A k \in HrJobs : HrOK(hrJob'[k], hrProvider', DOMAIN feed')
  <2>1. HrOK(r, hrProvider', DOMAIN feed') BY DEF FeedGrows
  <2> QED BY <1>2, <2>1, CallsKept
<1>4. CursorsCover'
  <2> SUFFICES ASSUME hrProvider' \in Feeds
               PROVE  /\ 1..hrCursor'.event \subseteq Taken'
                      /\ \A k \in HrJobs : Covered(hrJob'[k], Taken')
    BY DEF CursorsCover
  <2>1. /\ Covered(r, Taken') /\ 1..hrCursor'.event \subseteq Taken' BY DEF FeedGrows
  <2>2. \A k \in HrJobs : Covered(hrJob'[k], Taken') BY <1>2, <2>1, CallsKept
  <2> QED BY <2>1, <2>2
<1> QED BY <1>1, <1>2, <1>3, <1>4 DEF HrJobsOK

\* No call moves.
LEMMA CallsStill ==
  ASSUME HrInv, FeedGrows, hrJob' = hrJob, hrCursor' = hrCursor
  PROVE  HrJobsOK' /\ CursorsCover'
<1>1. HrJobsOK' BY CallsKept DEF HrInv, HrJobsOK
<1>2. CursorsCover' BY CallsKept, TakenGrows DEF HrInv, CursorsCover, FeedGrows
<1> QED BY <1>1, <1>2

HrKept == HrJobsOK' /\ JobsMeet' /\ FeedOK' /\ RecordedOK' /\ CursorsCover' /\ EndedKept

\* The grants, or what a step leaves of them alone.
LEMMA GrantsStill ==
  ASSUME GrantsInv, UNCHANGED <<roleHolders, binding, grantMem, grantRow, lapsed, activation>>,
         JobsOK', directory' \in People, lifecycleFaults' \in Nat
  PROVE  GrantsInv'
  BY DEF GrantsInv, ActivationOK, StatusOK, WorldOK

LEMMA RecordsOf ==
  ASSUME HrInv, NEW h \in HrJobs
  PROVE  /\ h \in LifecycleJobs
         /\ hrJob[h] \in HrRecord /\ HrOK(hrJob[h], hrProvider, DOMAIN feed)
         /\ hrJob[h].pc \in {"idle", "fetch", "load", "item", "upsert", "lifecycle"}
         /\ hrJob[h].op \in {"none", "poll", "webhook", "direct", "snapshot", "delta"}
         /\ hrJob[h].before \in [event : Nat, snapshot : Nat]
         /\ hrJob[h].copy \in People
         /\ hrJob[h].items \subseteq HrEvent /\ hrJob[h].now \subseteq HrEvent
         /\ hrJob[h].upto \in Nat
<1>1. hrJob[h] \in HrRecord /\ HrOK(hrJob[h], hrProvider, DOMAIN feed) BY DEF HrInv, HrJobsOK
<1>2. h \in LifecycleJobs BY HrJobsAreJobs
<1> QED BY <1>1, <1>2 DEF HrRecord

\* A step that moves one call and nothing of the grants, the feed or the table.
LEMMA QuietStep ==
  ASSUME HrInv, NEW h \in HrJobs, NEW r \in HrRecord,
         hrJob' = [hrJob EXCEPT ![h] = r],
         HrOK(r, hrProvider, DOMAIN feed),
         hrProvider \in Feeds => Covered(r, Taken'),
         r.pc # "lifecycle", hrJob[h].pc # "lifecycle",
         hooked \subseteq hooked',
         UNCHANGED <<grantVars, hrProvider, feed, entries, hrCursor, recorded, applied>>
  PROVE  GrantsInv' /\ HrKept
<1>1. UNCHANGED <<directory, roleHolders, binding, grantMem, grantRow, lapsed, activation,
                  lifecycleJob, lifecycleFaults>>
  BY DEF grantVars
<1>2. GrantsInv' BY <1>1 DEF HrInv, GrantsInv, JobsOK, ActivationOK, StatusOK, WorldOK
<1>3. FeedGrows BY DEF FeedGrows
<1>4. hrProvider \in Feeds
        => Covered(r, Taken') /\ 1..hrCursor'.event \subseteq Taken'
  BY TakenGrows DEF HrInv, CursorsCover
<1>5. /\ HrJobsOK' /\ CursorsCover' /\ hrJob'[h] = r
      /\ \A k \in HrJobs \ {h} : hrJob'[k] = hrJob[k]
  BY <1>3, <1>4, CallKept
<1>6. JobsMeet' BY <1>1, <1>5 DEF HrInv, JobsMeet
<1>7. FeedOK' /\ RecordedOK' BY DEF HrInv, FeedOK, RecordedOK
<1>8. EndedKept BY <1>1 DEF EndedKept
<1> QED BY <1>2, <1>5, <1>6, <1>7, <1>8 DEF HrKept

\* A call that ends because a request or a statement fails.
LEMMA FetchFailsKeeps ==
  ASSUME HrInv, NEW h \in HrJobs, FetchFails(h)
  PROVE  GrantsInv' /\ HrKept
<1>1. /\ hrJob' = [hrJob EXCEPT ![h] = IdleHr] /\ hooked' = hooked /\ hrJob[h].pc = "fetch"
      /\ UNCHANGED <<grantVars, hrProvider, feed, entries, hrCursor, recorded, applied>>
  BY DEF FetchFails
<1> QED BY <1>1, IdleHrTyped, QuietStep

LEMMA HrCallKeeps ==
  ASSUME HrInv, NEW h \in HrJobs, NEW op, NEW pc, NEW items, HrCall(h, op, pc, items),
         \/ /\ pc = "fetch" /\ items = {} /\ hooked' = hooked
            /\ \/ op = "poll" /\ hrProvider \in Feeds
               \/ op = "snapshot"
               \/ op = "delta" /\ hrProvider = "ldap"
         \/ \E i \in DOMAIN feed :
            /\ pc = "load" /\ items = {feed[i]}
            /\ \/ op = "webhook" /\ hrProvider \in Feeds /\ hooked' = hooked \cup {i}
               \/ op = "direct" /\ hooked' = hooked
  PROVE  GrantsInv' /\ HrKept
<1> DEFINE new == Max({0} \cup {e.id : e \in items})
           r == [IdleHr EXCEPT !.pc = pc, !.op = op, !.before = hrCursor, !.items = items,
                               !.upto = new]
<1>1. /\ hrJob' = [hrJob EXCEPT ![h] = r] /\ hrJob[h].pc = "idle"
      /\ UNCHANGED <<grantVars, hrProvider, feed, entries, hrCursor, recorded, applied>>
  BY DEF HrCall
<1>2. items \subseteq HrEvent /\ \A e \in items : e.id \in DOMAIN feed BY DEF HrInv, FeedOK
<1>3. new \in Nat
  <2>1. MaxHrEvents \in Nat BY HrAssumption
  <2>2. {0} \cup {e.id : e \in items} \subseteq 0..MaxHrEvents BY <1>2, <2>1 DEF HrInv, FeedOK
  <2>3. new \in {0} \cup {e.id : e \in items} BY <2>1, <2>2, MaxOfBounded
  <2> QED BY <2>1, <2>2, <2>3
<1>4. hrCursor \in [event : Nat, snapshot : Nat] /\ hooked \subseteq hooked' BY DEF HrInv, FeedOK
<1>9. Taken \subseteq Taken' BY <1>1, <1>4, TakenGrows
<1>10. op = "webhook" => 1..new \subseteq Taken' \cup {e.id : e \in items}
  <2> SUFFICES ASSUME op = "webhook", pc = "load" PROVE 1..new \subseteq Taken' \cup {e.id : e \in items}
    OBVIOUS
  <2>1. PICK i \in DOMAIN feed : items = {feed[i]} /\ hooked' = hooked \cup {i} OBVIOUS
  <2>2. /\ MaxHrEvents \in Nat /\ i \in 1..MaxHrEvents /\ feed[i].id = i BY HrAssumption DEF HrInv, FeedOK
  <2>3. {0} \cup {e.id : e \in items} = {0, i} BY <2>1, <2>2
  <2>4. new = i
    <3>1. {0, i} \subseteq 0..MaxHrEvents BY <2>2
    <3>2. Max({0, i}) \in {0, i} /\ \A x \in {0, i} : x <= Max({0, i}) BY <2>2, <3>1, MaxOfBounded
    <3> QED BY <2>2, <2>3, <3>2
  <2>5. \A n \in 1..i : n = i \/ (n \in Ids /\ n < i) BY <2>2 DEF Ids
  <2> HIDE DEF new
  <2> QED BY <2>1, <2>2, <2>4, <2>5 DEF Taken
<1> HIDE DEF new
<1>5. r \in HrRecord BY <1>2, <1>3, <1>4, IdleHrTyped DEF HrRecord
<1>6. /\ r.pc = pc /\ r.op = op /\ r.before = hrCursor /\ r.items = items /\ r.now = {}
      /\ r.upto = new
  BY DEF IdleHr
<1> HIDE DEF r
<1>7. HrOK(r, hrProvider, DOMAIN feed) BY <1>2, <1>6 DEF HrOK
<1>8. hrProvider \in Feeds => Covered(r, Taken')
  BY <1>4, <1>6, <1>9, <1>10 DEF HrInv, CursorsCover, Covered
<1> QED BY <1>1, <1>4, <1>5, <1>6, <1>7, <1>8, QuietStep

LEMMA HrCallStepKeeps ==
  ASSUME HrInv, NEW h \in HrJobs, HrCallStep(h)
  PROVE  GrantsInv' /\ HrKept
<1>1. \/ \E pc, op : /\ HrCall(h, op, pc, {}) /\ hooked' = hooked /\ pc = "fetch"
                     /\ \/ op = "poll" /\ hrProvider \in Feeds
                        \/ op = "snapshot"
                        \/ op = "delta" /\ hrProvider = "ldap"
      \/ \E i \in DOMAIN feed : \E pc, op :
           /\ HrCall(h, op, pc, {feed[i]}) /\ pc = "load"
           /\ \/ op = "webhook" /\ hrProvider \in Feeds /\ hooked' = hooked \cup {i}
              \/ op = "direct" /\ hooked' = hooked
  <2>1. CASE FeishuEventPoll(h) \/ WorkdayEventPoll(h) \/ SapEventPoll(h)
    BY <2>1 DEF FeishuEventPoll, WorkdayEventPoll, SapEventPoll, Feeds
  <2>2. CASE \/ FeishuSnapshotSync(h) \/ WorkdaySnapshotSync(h) \/ SapSnapshotSync(h)
             \/ LdapSnapshotSync(h) \/ LdapIncrementalPoll(h)
    BY <2>2 DEF FeishuSnapshotSync, WorkdaySnapshotSync, SapSnapshotSync,
                LdapSnapshotSync, LdapIncrementalPoll
  <2>3. ASSUME NEW i \in DOMAIN feed,
               FeishuWebhook(h, i) \/ WorkdayWebhook(h, i) \/ SapWebhook(h, i) \/ HrEventHandler(h, i)
        PROVE  \E pc, op :
           /\ HrCall(h, op, pc, {feed[i]}) /\ pc = "load"
           /\ \/ op = "webhook" /\ hrProvider \in Feeds /\ hooked' = hooked \cup {i}
              \/ op = "direct" /\ hooked' = hooked
    BY <2>3 DEF FeishuWebhook, WorkdayWebhook, SapWebhook, HrEventHandler, Feeds
  <2> QED BY <2>1, <2>2, <2>3 DEF HrCallStep
<1> QED BY <1>1, HrCallKeeps

\* What a fetch has found becomes the items of the call.
LEMMA FetchedKeeps ==
  ASSUME HrInv, NEW h \in HrJobs, NEW pc \in {"load", "item"}, NEW items \in SUBSET HrEvent,
         NEW upto \in Nat, HrFetched(h, pc, items, upto), hrJob[h].pc = "fetch",
         hrJob[h].op = "poll"
           => /\ \A e \in items : e.id \in DOMAIN feed
              /\ hrProvider \in Feeds
                   => 1..upto \subseteq Taken \cup {e.id : e \in items},
         hrJob[h].op \in {"snapshot", "delta"} => \A e \in items : ProfileOf(e) \in OrgUser
  PROVE  GrantsInv' /\ HrKept
<1> DEFINE r == [hrJob[h] EXCEPT !.pc = pc, !.items = items, !.upto = upto]
<1>1. /\ hrJob' = [hrJob EXCEPT ![h] = r] /\ hooked' = hooked
      /\ UNCHANGED <<grantVars, hrProvider, feed, entries, hrCursor, recorded, applied>>
  BY DEF HrFetched
<1>2. hrJob[h] \in HrRecord /\ HrOK(hrJob[h], hrProvider, DOMAIN feed) BY RecordsOf
<1>3. r \in HrRecord BY <1>2 DEF HrRecord
<1>4. /\ r.pc = pc /\ r.op = hrJob[h].op /\ r.before = hrJob[h].before /\ r.items = items
      /\ r.now = hrJob[h].now /\ r.upto = upto
  BY <1>2 DEF HrRecord
<1> HIDE DEF r
<1>5. hrJob[h].op \in {"poll", "snapshot", "delta"} /\ hrJob[h].now = {} BY <1>2 DEF HrOK
<1>6. HrOK(r, hrProvider, DOMAIN feed) BY <1>1, <1>2, <1>4, <1>5 DEF HrOK
<1>7. hrProvider \in Feeds => Covered(r, Taken')
  BY <1>1, <1>4, <1>5, TakenGrows DEF HrInv, CursorsCover, Covered
<1> QED BY <1>1, <1>3, <1>4, <1>6, <1>7, QuietStep

LEMMA FetchEventsKeeps ==
  ASSUME HrInv, NEW h \in HrJobs, FetchEvents(h)
  PROVE  GrantsInv' /\ HrKept
<1> DEFINE from == hrJob[h].before.event
<1>1. PICK last \in from..Len(feed) :
        HrFetched(h, "load", {feed[i] : i \in from+1..last}, last)
  BY DEF FetchEvents
<1>2. hrJob[h].pc = "fetch" /\ hrJob[h].op = "poll" BY DEF FetchEvents
<1>3. from \in Nat /\ feed \in Seq(HrEvent) /\ \A i \in DOMAIN feed : feed[i].id = i
  BY RecordsOf DEF HrInv, FeedOK
<1>4. last \in Nat /\ from+1..last \subseteq DOMAIN feed BY <1>1, <1>3
<1> DEFINE items == {feed[i] : i \in from+1..last}
<1>5. items \subseteq HrEvent /\ \A e \in items : e.id \in DOMAIN feed BY <1>3, <1>4
<1>6. ASSUME hrProvider \in Feeds, NEW n \in 1..last
      PROVE  n \in Taken \cup {e.id : e \in items}
  <2>1. CASE n \in 1..from BY <1>6, <2>1 DEF HrInv, CursorsCover, Covered
  <2>2. CASE n \in from+1..last
    <3>1. feed[n] \in items /\ feed[n].id = n BY <2>2, <1>3, <1>4
    <3> QED BY <3>1
  <2> QED BY <2>1, <2>2, <1>3, <1>4
<1> HIDE DEF items
<1> QED BY <1>1, <1>2, <1>4, <1>5, <1>6, FetchedKeeps DEF items

LEMMA EntryTyped ==
  ASSUME HrInv, NEW u \in Employees, entries[u].profile # Missing
  PROVE  EntryOf(u) \in HrEvent /\ ProfileOf(EntryOf(u)) \in OrgUser
<1>1. entries[u].profile \in OrgUser BY DEF HrInv, FeedOK
<1>2. MaxHrEvents \in Nat BY HrAssumption
<1> QED BY <1>1, <1>2 DEF OrgUser, EntryOf, ProfileOf, HrEvent

LEMMA FetchSnapshotKeeps ==
  ASSUME HrInv, NEW h \in HrJobs, FetchSnapshot(h)
  PROVE  GrantsInv' /\ HrKept
<1>1. PICK page \in SUBSET {u \in Employees : entries[u].profile # Missing} :
        HrFetched(h, "item", {EntryOf(u) : u \in page}, hrJob[h].before.snapshot)
  BY DEF FetchSnapshot
<1>2. hrJob[h].pc = "fetch" /\ hrJob[h].op = "snapshot" BY DEF FetchSnapshot
<1>3. \A u \in page : EntryOf(u) \in HrEvent /\ ProfileOf(EntryOf(u)) \in OrgUser BY EntryTyped
<1>4. hrJob[h].before.snapshot \in Nat BY RecordsOf
<1> QED BY <1>1, <1>2, <1>3, <1>4, FetchedKeeps

LEMMA LdapSearchKeeps ==
  ASSUME HrInv, NEW h \in HrJobs, LdapSearch(h)
  PROVE  GrantsInv' /\ HrKept
<1> DEFINE before == hrJob[h].before
           watermark == IF hrJob[h].op = "snapshot" THEN 0
                        ELSE IF before.event # 0 THEN before.event
                        ELSE before.snapshot
           found == {u \in Employees : /\ entries[u].profile # Missing
                                       /\ ChangedSince(u, watermark)}
           old == IF hrJob[h].op = "snapshot" THEN before.snapshot ELSE watermark
           stamps == {entries[u].stamp : u \in found} \ {0}
           upto == IF stamps = {} THEN old ELSE Max(stamps)
           pc == IF hrJob[h].op = "snapshot" THEN "item" ELSE "load"
           items == {EntryOf(u) : u \in found}
<1>1. /\ hrProvider = "ldap" /\ hrJob[h].pc = "fetch"
      /\ HrFetched(h, pc, items, upto)
  BY DEF LdapSearch
<1>2. old \in Nat BY RecordsOf
<1>3. MaxHrEvents \in Nat /\ stamps \subseteq 0..MaxHrEvents BY HrAssumption DEF HrInv, FeedOK
<1>4. upto \in Nat
  <2> HIDE DEF stamps, old
  <2>1. stamps # {} => Max(stamps) \in stamps BY <1>3, MaxOfBounded
  <2>2. CASE stamps = {} BY <1>2, <2>2
  <2>3. CASE stamps # {}
    <3>1. Max(stamps) \in 0..MaxHrEvents BY <1>3, <2>1, <2>3
    <3>2. \A m \in 0..MaxHrEvents : m \in Nat BY <1>3
    <3>3. upto = Max(stamps) BY <2>3
    <3> HIDE DEF upto
    <3> QED BY <3>1, <3>2, <3>3
  <2> QED BY <2>2, <2>3
<1>5. \A u \in found : EntryOf(u) \in HrEvent /\ ProfileOf(EntryOf(u)) \in OrgUser BY EntryTyped
<1>6. items \subseteq HrEvent /\ \A e \in items : ProfileOf(e) \in OrgUser BY <1>5
<1>7. hrJob[h].op # "poll" BY <1>1, RecordsOf DEF HrOK, Feeds
<1>8. pc \in {"load", "item"} OBVIOUS
<1> HIDE DEF pc, items, upto
<1> QED BY <1>1, <1>4, <1>6, <1>7, <1>8, FetchedKeeps

LEMMA LoadOrgDirectoryKeeps ==
  ASSUME HrInv, NEW h \in HrJobs, LoadOrgDirectory(h)
  PROVE  GrantsInv' /\ HrKept
<1> DEFINE r == [hrJob[h] EXCEPT !.pc = "item", !.copy = directory]
<1>1. /\ hrJob' = [hrJob EXCEPT ![h] = r] /\ hooked' = hooked /\ hrJob[h].pc = "load"
      /\ UNCHANGED <<grantVars, hrProvider, feed, entries, hrCursor, recorded, applied>>
  BY DEF LoadOrgDirectory
<1>2. hrJob[h] \in HrRecord /\ HrOK(hrJob[h], hrProvider, DOMAIN feed) BY RecordsOf
<1>3. r \in HrRecord
  <2>1. directory \in People BY DEF HrInv, GrantsInv, WorldOK
  <2> QED BY <1>2, <2>1 DEF HrRecord
<1>4. /\ r.pc = "item" /\ r.op = hrJob[h].op /\ r.before = hrJob[h].before
      /\ r.items = hrJob[h].items /\ r.now = hrJob[h].now /\ r.upto = hrJob[h].upto
  BY <1>2 DEF HrRecord
<1> HIDE DEF r
<1>5. HrOK(r, hrProvider, DOMAIN feed) BY <1>1, <1>2, <1>4 DEF HrOK
<1>6. hrProvider \in Feeds => Covered(r, Taken')
  BY <1>1, <1>4, TakenGrows DEF HrInv, CursorsCover, Covered
<1> QED BY <1>1, <1>3, <1>4, <1>5, <1>6, QuietStep

\* One call moves, the directory may change, and the grant jobs do not.
LEMMA ItemStep ==
  ASSUME HrInv, NEW h \in HrJobs, NEW r \in HrRecord,
         hrJob' = [hrJob EXCEPT ![h] = r],
         HrOK(r, hrProvider, DOMAIN feed),
         hrProvider \in Feeds
           => Covered(r, Taken') /\ 1..hrCursor'.event \subseteq Taken',
         r.pc # "lifecycle", hrJob[h].pc # "lifecycle",
         directory' \in People, lifecycleFaults' \in Nat, recorded \subseteq recorded',
         hrCursor' \in [event : Nat, snapshot : Nat], RecordedOK',
         UNCHANGED <<roleHolders, binding, grantMem, grantRow, lapsed, activation,
                     lifecycleJob, hrProvider, feed, entries, hooked>>
  PROVE  GrantsInv' /\ HrKept
<1>1. GrantsInv'
  <2>1. JobsOK' BY DEF HrInv, GrantsInv, JobsOK
  <2> QED BY <2>1, GrantsStill DEF HrInv
<1>2. FeedGrows BY DEF FeedGrows, HrInv, FeedOK
<1>3. HrOK(r, hrProvider, DOMAIN feed') OBVIOUS
<1>4. /\ HrJobsOK' /\ CursorsCover' /\ hrJob'[h] = r
      /\ \A k \in HrJobs \ {h} : hrJob'[k] = hrJob[k]
  BY <1>2, <1>3, CallKept
<1>5. JobsMeet' BY <1>4 DEF HrInv, JobsMeet
<1>6. FeedOK' BY DEF HrInv, FeedOK
<1>7. EndedKept BY DEF EndedKept
<1> QED BY <1>1, <1>4, <1>5, <1>6, <1>7 DEF HrKept

\* A statement of a call fails before anything was written.
LEMMA HrFailsKeeps ==
  ASSUME HrInv, NEW h \in HrJobs, HrFails(h), hrJob[h].pc # "lifecycle",
         UNCHANGED <<directory, roleHolders, binding, grantMem, grantRow, lapsed, activation,
                     lifecycleJob, hrProvider, feed, entries, hrCursor, recorded, applied, hooked>>
  PROVE  GrantsInv' /\ HrKept
<1>1. hrJob' = [hrJob EXCEPT ![h] = IdleHr] /\ lifecycleFaults' \in Nat BY FaultTyped DEF HrFails, HrInv
<1>2. directory' \in People BY DEF HrInv, GrantsInv, WorldOK
<1>3. RecordedOK' /\ hrCursor' \in [event : Nat, snapshot : Nat] BY DEF HrInv, RecordedOK, FeedOK
<1>4. hrProvider \in Feeds
        => Covered(IdleHr, Taken') /\ 1..hrCursor'.event \subseteq Taken'
  BY IdleHrTyped, TakenGrows DEF HrInv, CursorsCover
<1> QED BY <1>1, <1>2, <1>3, <1>4, IdleHrTyped, ItemStep

\* The event is taken for the first time, or was recorded before.
LEMMA RecordEventKeeps ==
  ASSUME HrInv, NEW h \in HrJobs, NEW e \in hrJob[h].items, RecordEvent(h, e),
         hrJob[h].op \in {"poll", "webhook", "direct"}
  PROVE  GrantsInv' /\ HrKept
<1> DEFINE job == hrJob[h]
           p == ApplyEvent(job.copy[e.user], e)
           skip == [job EXCEPT !.items = @ \ {e}]
           take == [job EXCEPT !.pc = "upsert", !.items = @ \ {e}, !.now = {e},
                               !.copy[e.user] = ApplyEvent(@, e)]
           r == IF ~InsertIfNew(e) THEN skip ELSE IF p = Missing THEN IdleHr ELSE take
<1>1. UNCHANGED <<directory, roleHolders, binding, grantMem, grantRow, lapsed, activation,
                  lifecycleJob, hrProvider, feed, entries, hrCursor, hooked>>
  BY DEF RecordEvent
<1>2. job.pc = "item" BY DEF RecordEvent, NextItem
<1>3. /\ job \in HrRecord /\ HrOK(job, hrProvider, DOMAIN feed) /\ e \in HrEvent
      /\ e.user \in Employees /\ job.copy \in People /\ e.id \in DOMAIN feed /\ job.now = {}
  BY <1>2, RecordsOf DEF HrOK, HrEvent
<1>4. CASE HrFails(h) /\ UNCHANGED <<recorded, applied>> BY <1>1, <1>2, <1>4, HrFailsKeeps
<1>5. CASE /\ recorded' = recorded \cup {e.id}
           /\ hrJob' = [hrJob EXCEPT ![h] = r]
           /\ applied' = IF InsertIfNew(e) /\ p # Missing
                         THEN [applied EXCEPT ![e.id] = @ + 1] ELSE applied
           /\ UNCHANGED lifecycleFaults
  <2>1. p \in OrgUser \cup {Missing} BY <1>3, ApplyEventTyped DEF People
  <2>2. /\ skip \in HrRecord /\ skip.pc = "item" /\ skip.op = job.op /\ skip.before = job.before
        /\ skip.items = job.items \ {e} /\ skip.now = {} /\ skip.upto = job.upto
    BY <1>2, <1>3 DEF HrRecord
  <2>3. [job.copy EXCEPT ![e.user] = ApplyEvent(@, e)] \in People BY <1>3, <2>1 DEF People
  <2>4. /\ take \in HrRecord /\ take.pc = "upsert" /\ take.op = job.op /\ take.before = job.before
        /\ take.items = job.items \ {e} /\ take.now = {e} /\ take.upto = job.upto
    BY <1>3, <2>3 DEF HrRecord
  <2> HIDE DEF skip, take, p
  <2>5. HrOK(skip, hrProvider, DOMAIN feed) /\ HrOK(take, hrProvider, DOMAIN feed)
    BY <1>3, <2>2, <2>4 DEF HrOK
  <2>6. r \in HrRecord /\ r.pc # "lifecycle" /\ HrOK(r, hrProvider, DOMAIN feed)
    BY <2>2, <2>4, <2>5, IdleHrTyped
  <2>7. hrProvider \in Feeds
          => Covered(r, Taken') /\ 1..hrCursor'.event \subseteq Taken'
    <3> SUFFICES ASSUME hrProvider \in Feeds
                 PROVE  Covered(r, Taken') /\ 1..hrCursor'.event \subseteq Taken'
      OBVIOUS
    <3>0. Taken' = Taken \cup {e.id} BY <1>1, <1>5 DEF Taken
    <3>1. 1..hrCursor'.event \subseteq Taken' BY <1>1, <3>0 DEF HrInv, CursorsCover
    <3>2. Covered(job, Taken) BY DEF HrInv, CursorsCover
    <3>3. Covered(skip, Taken') /\ Covered(take, Taken') BY <1>2, <2>2, <2>4, <3>0, <3>2 DEF Covered
    <3> QED BY <3>1, <3>3, IdleHrTyped
  <2>8. RecordedOK'
    <3>1. recorded' \subseteq DOMAIN feed' BY <1>1, <1>3, <1>5 DEF HrInv, RecordedOK
    <3>2. e.id \in Ids BY <1>3, HrAssumption DEF HrInv, FeedOK, Ids
    <3>3. InsertIfNew(e) => applied[e.id] = 0 BY <3>2 DEF InsertIfNew, HrInv, RecordedOK
    <3>4. /\ applied' \in [Ids -> {0, 1}]
          /\ \A i \in Ids : applied'[i] = 1 => i \in recorded'
      BY <1>5, <3>2, <3>3 DEF HrInv, RecordedOK
    <3> QED BY <3>1, <3>4 DEF RecordedOK
  <2>9. /\ directory' \in People /\ lifecycleFaults' \in Nat
        /\ hrCursor' \in [event : Nat, snapshot : Nat]
    BY <1>1, <1>5 DEF HrInv, GrantsInv, WorldOK, FeedOK
  <2> HIDE DEF r, job
  <2> QED BY <1>1, <1>2, <1>5, <2>6, <2>7, <2>8, <2>9, ItemStep DEF job
<1> QED BY <1>4, <1>5 DEF RecordEvent

LEMMA UpsertEntryKeeps ==
  ASSUME HrInv, NEW h \in HrJobs, NEW e \in hrJob[h].items, UpsertEntry(h, e)
  PROVE  GrantsInv' /\ HrKept
<1> DEFINE job == hrJob[h]
           kind == LdapDeltaEvent(job.copy[e.user], e)
           store == [job EXCEPT !.items = @ \ {e}, !.copy[e.user] = ProfileOf(e)]
           take == [job EXCEPT !.pc = "upsert", !.items = @ \ {e}, !.now = {e},
                               !.copy[e.user] = ApplyEvent(@, [e EXCEPT !.kind = kind])]
           r == IF kind = "none" THEN store ELSE take
<1>1. UNCHANGED <<roleHolders, binding, grantMem, grantRow, lapsed, activation,
                  lifecycleJob, hrProvider, feed, entries, hrCursor, recorded, applied, hooked>>
  BY DEF UpsertEntry
<1>2. job.pc = "item" /\ job.op = "delta" BY DEF UpsertEntry, NextItem
<1>3. /\ job \in HrRecord /\ HrOK(job, hrProvider, DOMAIN feed) /\ e \in HrEvent
      /\ e.user \in Employees /\ job.copy \in People /\ ProfileOf(e) \in OrgUser
      /\ hrProvider = "ldap" /\ job.now = {} /\ directory \in People
  BY <1>2, RecordsOf DEF HrOK, HrEvent, HrInv, GrantsInv, WorldOK
<1>4. CASE HrFails(h) /\ UNCHANGED <<directory, viaEvent, metGone>> BY <1>1, <1>2, <1>4, HrFailsKeeps
<1>5. CASE /\ directory' = [directory EXCEPT ![e.user] = ProfileOf(e)]
           /\ hrJob' = [hrJob EXCEPT ![h] = r]
           /\ UNCHANGED lifecycleFaults
  <2>1. /\ [job.copy EXCEPT ![e.user] = ProfileOf(e)] \in People /\ directory' \in People
    BY <1>3, <1>5 DEF People
  <2>2. /\ store \in HrRecord /\ store.pc = "item" /\ store.op = "delta"
        /\ store.items = job.items \ {e} /\ store.now = {}
    BY <1>2, <1>3, <2>1 DEF HrRecord
  <2>3. kind # "none" =>
          [job.copy EXCEPT ![e.user] = ApplyEvent(@, [e EXCEPT !.kind = kind])] \in People
    <3>1. kind # "none" => kind \in {"Onboard", "Transfer", "Departure", "ManagerChange"}
      BY DEF LdapDeltaEvent
    <3>2. kind # "none" => [e EXCEPT !.kind = kind] \in HrEvent BY <1>3, <3>1 DEF HrEvent
    <3>3. job.copy[e.user] \in OrgUser \cup {Missing} BY <1>3 DEF People
    <3>4. kind # "none" => ApplyEvent(job.copy[e.user], [e EXCEPT !.kind = kind])
                             \in OrgUser \cup {Missing}
      BY <3>2, <3>3, ApplyEventTyped
    <3> HIDE DEF kind
    <3> QED BY <1>3, <3>4 DEF People
  <2>4. kind # "none" =>
          /\ take \in HrRecord /\ take.pc = "upsert" /\ take.op = "delta"
          /\ take.items = job.items \ {e} /\ take.now = {e}
    <3> HIDE DEF kind
    <3> QED BY <1>2, <1>3, <2>3 DEF HrRecord
  <2> HIDE DEF store, take, kind
  <2>5. r \in HrRecord /\ r.pc # "lifecycle" /\ HrOK(r, hrProvider, DOMAIN feed)
    BY <1>2, <1>3, <2>2, <2>4 DEF HrOK
  <2>6. hrProvider \notin Feeds BY <1>3 DEF Feeds
  <2>7. RecordedOK' /\ hrCursor' \in [event : Nat, snapshot : Nat] /\ lifecycleFaults' \in Nat
    BY <1>1, <1>5 DEF HrInv, GrantsInv, WorldOK, FeedOK, RecordedOK
  <2> HIDE DEF r, job
  <2> QED BY <1>1, <1>2, <1>5, <2>1, <2>5, <2>6, <2>7, ItemStep DEF job
<1> QED BY <1>4, <1>5 DEF UpsertEntry

LEMMA UpsertSnapshotUserKeeps ==
  ASSUME HrInv, NEW h \in HrJobs, NEW e \in hrJob[h].items, UpsertSnapshotUser(h, e)
  PROVE  GrantsInv' /\ HrKept
<1> DEFINE job == hrJob[h]
           r == [job EXCEPT !.items = @ \ {e}]
<1>1. UNCHANGED <<roleHolders, binding, grantMem, grantRow, lapsed, activation,
                  lifecycleJob, hrProvider, feed, entries, hrCursor, recorded, applied, hooked>>
  BY DEF UpsertSnapshotUser
<1>2. job.pc = "item" /\ job.op = "snapshot" BY DEF UpsertSnapshotUser, NextItem
<1>3. /\ job \in HrRecord /\ HrOK(job, hrProvider, DOMAIN feed) /\ e \in HrEvent
      /\ e.user \in Employees /\ ProfileOf(e) \in OrgUser
      /\ job.now = {} /\ directory \in People
  BY <1>2, RecordsOf DEF HrOK, HrEvent, HrInv, GrantsInv, WorldOK
<1>4. CASE HrFails(h) /\ UNCHANGED <<directory, viaEvent>> BY <1>1, <1>2, <1>4, HrFailsKeeps
<1>5. CASE /\ directory' = [directory EXCEPT ![e.user] = ProfileOf(e)]
           /\ hrJob' = [hrJob EXCEPT ![h].items = @ \ {e}]
           /\ UNCHANGED lifecycleFaults
  <2>1. hrJob' = [hrJob EXCEPT ![h] = r] BY <1>5 DEF HrInv, HrJobsOK
  <2>2. directory' \in People BY <1>3, <1>5 DEF People
  <2>3. /\ r \in HrRecord /\ r.pc = "item" /\ r.op = "snapshot" /\ r.before = job.before
        /\ r.items = job.items \ {e} /\ r.now = {}
    BY <1>2, <1>3 DEF HrRecord
  <2> HIDE DEF r
  <2>4. HrOK(r, hrProvider, DOMAIN feed) BY <1>2, <1>3, <2>3 DEF HrOK
  <2>5. hrProvider \in Feeds
          => Covered(r, Taken') /\ 1..hrCursor'.event \subseteq Taken'
    BY <1>1, <1>2, <2>3, TakenGrows DEF HrInv, CursorsCover, Covered
  <2>6. RecordedOK' /\ hrCursor' \in [event : Nat, snapshot : Nat] /\ lifecycleFaults' \in Nat
    BY <1>1, <1>5 DEF HrInv, GrantsInv, WorldOK, FeedOK, RecordedOK
  <2> HIDE DEF job
  <2> QED BY <1>1, <1>2, <2>1, <2>2, <2>3, <2>4, <2>5, <2>6, ItemStep DEF job
<1> QED BY <1>4, <1>5 DEF UpsertSnapshotUser

\* The call has taken all items: everything up to the new cursor is recorded.
LEMMA SaveCheckpointKeeps ==
  ASSUME HrInv, NEW h \in HrJobs, SaveCheckpoint(h)
  PROVE  GrantsInv' /\ HrKept
<1>1. /\ UNCHANGED <<roleHolders, binding, grantMem, grantRow, lapsed, activation, directory,
                     lifecycleJob, hrProvider, feed, entries, recorded, applied, hooked>>
      /\ hrJob[h].pc = "item" /\ hrJob[h].items = {} /\ hrJob' = [hrJob EXCEPT ![h] = IdleHr]
  BY DEF SaveCheckpoint
<1>2. \/ hrCursor' = CheckpointAfter(h) /\ lifecycleFaults' = lifecycleFaults
      \/ hrCursor' = hrCursor /\ LifecycleFault
  BY DEF SaveCheckpoint
<1>3. /\ hrJob[h].before \in [event : Nat, snapshot : Nat] /\ hrJob[h].upto \in Nat
      /\ hrJob[h].op \in {"poll", "webhook", "direct", "snapshot", "delta"}
      /\ HrOK(hrJob[h], hrProvider, DOMAIN feed)
  BY <1>1, RecordsOf DEF HrOK
<1>4. hrCursor \in [event : Nat, snapshot : Nat] BY DEF HrInv, FeedOK
<1>5. CheckpointAfter(h) \in [event : Nat, snapshot : Nat] BY <1>3, <1>4 DEF CheckpointAfter
<1>6. ASSUME hrProvider \in Feeds PROVE 1..CheckpointAfter(h).event \subseteq Taken
  <2>1. /\ Covered(hrJob[h], Taken) /\ 1..hrCursor.event \subseteq Taken BY <1>6 DEF HrInv, CursorsCover
  <2>2. hrJob[h].op \in {"poll", "webhook", "direct", "snapshot"} BY <1>3, <1>6 DEF HrOK, Feeds
  <2>3. CASE hrJob[h].op \in {"poll", "webhook"}
    <3>1. CheckpointAfter(h).event = hrJob[h].upto BY <1>3, <2>3 DEF CheckpointAfter
    <3> QED BY <1>1, <2>1, <2>3, <3>1 DEF Covered
  <2>4. CASE hrJob[h].op = "snapshot"
    <3>1. CheckpointAfter(h).event = hrJob[h].before.event BY <1>3, <2>4 DEF CheckpointAfter
    <3> QED BY <2>1, <3>1 DEF Covered
  <2>5. CASE hrJob[h].op = "direct" BY <2>1, <2>5 DEF CheckpointAfter
  <2> QED BY <2>2, <2>3, <2>4, <2>5
<1>7. hrProvider \in Feeds
        => Covered(IdleHr, Taken') /\ 1..hrCursor'.event \subseteq Taken'
  BY <1>1, <1>2, <1>6, IdleHrTyped, TakenGrows DEF HrInv, CursorsCover
<1>8. /\ lifecycleFaults' \in Nat /\ directory' \in People
      /\ hrCursor' \in [event : Nat, snapshot : Nat] /\ RecordedOK'
  BY <1>1, <1>2, <1>4, <1>5, FaultTyped DEF HrInv, GrantsInv, WorldOK, RecordedOK
<1> QED BY <1>1, <1>7, <1>8, IdleHrTyped, ItemStep

LEMMA UpsertOrgUserKeeps ==
  ASSUME HrInv, NEW h \in HrJobs, NEW e \in hrJob[h].now, UpsertOrgUser(h, e)
  PROVE  GrantsInv' /\ HrKept
<1> DEFINE r == [hrJob[h] EXCEPT !.pc = "lifecycle"]
<1>1. UNCHANGED <<roleHolders, binding, grantMem, grantRow, lapsed, activation,
                  hrProvider, feed, entries, hrCursor, recorded, applied, hooked>>
  BY DEF UpsertOrgUser
<1>2. hrJob[h].pc = "upsert" BY DEF UpsertOrgUser
<1>3. /\ h \in LifecycleJobs /\ hrJob[h] \in HrRecord
      /\ HrOK(hrJob[h], hrProvider, DOMAIN feed)
      /\ e.user \in Employees /\ hrJob[h].copy \in People
  BY RecordsOf DEF HrEvent
<1>4. CASE HrFails(h) /\ UNCHANGED <<directory, lifecycleJob, viaEvent>> BY <1>1, <1>2, <1>4, HrFailsKeeps
<1>5. CASE /\ directory' = [directory EXCEPT ![e.user] = hrJob[h].copy[e.user]]
           /\ StartJob(h, "HrSync", {e.user}, hrJob[h].copy)
           /\ hrJob' = [hrJob EXCEPT ![h].pc = "lifecycle"]
           /\ UNCHANGED lifecycleFaults
  <2>1. hrJob' = [hrJob EXCEPT ![h] = r] BY <1>5 DEF HrInv, HrJobsOK
  <2>2. /\ JobsOK' /\ lifecycleJob'[h].pc = "load"
        /\ \A k \in LifecycleJobs \ {h} : lifecycleJob'[k] = lifecycleJob[k]
    BY <1>3, <1>5, StartJobKeeps DEF HrInv, GrantsInv
  <2>3. directory' \in People /\ lifecycleFaults' \in Nat
    BY <1>3, <1>5 DEF HrInv, GrantsInv, WorldOK, People
  <2>4. GrantsInv' BY <1>1, <2>2, <2>3, GrantsStill DEF HrInv
  <2>5. FeedGrows BY <1>1 DEF FeedGrows, HrInv, FeedOK
  <2>6. /\ r \in HrRecord /\ r.pc = "lifecycle" /\ r.op = hrJob[h].op /\ r.now = hrJob[h].now
        /\ r.before = hrJob[h].before /\ r.items = hrJob[h].items /\ r.upto = hrJob[h].upto
    BY <1>3 DEF HrRecord
  <2> HIDE DEF r
  <2>7. HrOK(r, hrProvider, DOMAIN feed') BY <1>1, <1>2, <1>3, <2>6 DEF HrOK
  <2>8. hrProvider \in Feeds
          => Covered(r, Taken') /\ 1..hrCursor'.event \subseteq Taken'
    BY <1>1, <1>2, <2>6, TakenGrows DEF HrInv, CursorsCover, Covered
  <2>9. /\ HrJobsOK' /\ CursorsCover' /\ hrJob'[h] = r
        /\ \A k \in HrJobs \ {h} : hrJob'[k] = hrJob[k]
    BY <2>1, <2>5, <2>6, <2>7, <2>8, CallKept
  <2>10. JobsMeet' BY <2>2, <2>6, <2>9, HrJobsAreJobs DEF HrInv, JobsMeet
  <2>11. FeedOK' /\ RecordedOK' /\ EndedKept BY <1>1 DEF HrInv, FeedOK, RecordedOK, EndedKept
  <2> QED BY <2>4, <2>9, <2>10, <2>11 DEF HrKept
<1> QED BY <1>4, <1>5 DEF UpsertOrgUser

\* What a step of a grant job leaves alone; a failure ends it.
LEMMA JobStepFrame ==
  ASSUME GrantsInv, NEW j \in LifecycleJobs, JobStep(j)
  PROVE  /\ \A k \in LifecycleJobs \ {j} : lifecycleJob'[k] = lifecycleJob[k]
         /\ lifecycleFaults' # lifecycleFaults => lifecycleJob'[j].pc = "idle"
<1>1. lifecycleJob \in [LifecycleJobs -> JobRecord] /\ lifecycleFaults \in Nat
  BY DEF GrantsInv, JobsOK, WorldOK
<1>2. CASE LoadLifecycleGrants(j) \/ EndJob(j) \/ \E t \in lifecycleJob[j].todo : ApplyLifecycleTransition(j, t)
  BY <1>1, <1>2 DEF LoadLifecycleGrants, EndJob, ApplyLifecycleTransition
<1>3. CASE UpdateGrantRow(j) \/ SaveLifecycleEvent(j)
  <2>1. \A k \in LifecycleJobs \ {j} : lifecycleJob'[k] = lifecycleJob[k] BY <1>3, RowKeeps, EventKeeps
  <2>2. lifecycleFaults' # lifecycleFaults
          => lifecycleJob' = [lifecycleJob EXCEPT ![j] = IdleLifecycleJob]
    BY <1>3 DEF UpdateGrantRow, SaveLifecycleEvent
  <2> QED BY <1>1, <2>1, <2>2, IdleJobTyped
<1> QED BY <1>2, <1>3 DEF JobStep

LEMMA ApplyHrLifecycleKeeps ==
  ASSUME HrInv, NEW h \in HrJobs, ApplyHrLifecycle(h)
  PROVE  GrantsInv' /\ HrKept
<1> DEFINE back == [hrJob[h] EXCEPT !.pc = "item", !.now = {}]
           r == IF lifecycleFaults' # lifecycleFaults THEN IdleHr
                ELSE IF lifecycleJob'[h].pc = "idle" THEN back ELSE hrJob[h]
<1>1. /\ UNCHANGED <<hrProvider, feed, entries, hrCursor, recorded, applied, hooked>>
      /\ hrJob[h].pc = "lifecycle" /\ JobStep(h) /\ hrJob' = [hrJob EXCEPT ![h] = r]
  BY DEF ApplyHrLifecycle, HrInv, HrJobsOK
<1>2. /\ h \in LifecycleJobs /\ hrJob[h] \in HrRecord
      /\ HrOK(hrJob[h], hrProvider, DOMAIN feed)
  BY RecordsOf
<1>3. GrantsInv' /\ EndedKept BY <1>1, <1>2, JobStepKeeps DEF HrInv, GrantsInv
<1>4. FeedGrows BY <1>1 DEF FeedGrows, HrInv, FeedOK
<1>5. /\ back \in HrRecord /\ back.pc = "item" /\ back.op = hrJob[h].op /\ back.now = {}
      /\ back.before = hrJob[h].before /\ back.items = hrJob[h].items
      /\ back.upto = hrJob[h].upto
  BY <1>2 DEF HrRecord
<1> HIDE DEF back
<1>6. HrOK(back, hrProvider, DOMAIN feed) BY <1>1, <1>2, <1>5 DEF HrOK
<1>7. r \in HrRecord /\ HrOK(r, hrProvider, DOMAIN feed') BY <1>1, <1>2, <1>5, <1>6, IdleHrTyped
<1>8. hrProvider \in Feeds
        => Covered(r, Taken') /\ 1..hrCursor'.event \subseteq Taken'
  <2> SUFFICES ASSUME hrProvider \in Feeds
               PROVE  Covered(r, Taken') /\ 1..hrCursor'.event \subseteq Taken'
    OBVIOUS
  <2>1. Covered(hrJob[h], Taken) /\ 1..hrCursor.event \subseteq Taken /\ Taken' = Taken
    BY <1>1 DEF HrInv, CursorsCover, Taken
  <2>2. Covered(back, Taken) BY <1>1, <1>5, <2>1 DEF Covered
  <2> QED BY <1>1, <2>1, <2>2, IdleHrTyped
<1>9. (lifecycleJob'[h].pc # "idle") <=> (r.pc = "lifecycle")
  BY <1>1, <1>2, <1>5, JobStepFrame, IdleHrTyped DEF HrInv
<1> HIDE DEF r
<1>10. /\ HrJobsOK' /\ CursorsCover' /\ hrJob'[h] = r
       /\ \A k \in HrJobs \ {h} : hrJob'[k] = hrJob[k]
  BY <1>1, <1>4, <1>7, <1>8, CallKept
<1>11. \A k \in LifecycleJobs \ {h} : lifecycleJob'[k] = lifecycleJob[k]
  BY <1>1, <1>2, JobStepFrame DEF HrInv
<1>12. JobsMeet' BY <1>9, <1>10, <1>11, HrJobsAreJobs DEF HrInv, JobsMeet
<1>13. FeedOK' /\ RecordedOK' BY <1>1 DEF HrInv, FeedOK, RecordedOK
<1> QED BY <1>3, <1>10, <1>12, <1>13 DEF HrKept

LEMMA HrStepKeeps ==
  ASSUME HrInv, NEW h \in HrJobs, HrStep(h)
  PROVE  GrantsInv' /\ HrKept
<1>1. CASE \/ FeishuFetchFails(h) \/ WorkdayFetchFails(h) \/ SapFetchFails(h)
           \/ LdapSearchFails(h)
  BY <1>1, FetchFailsKeeps DEF FeishuFetchFails, WorkdayFetchFails, SapFetchFails, LdapSearchFails
<1>2. CASE FetchFeishuEvents(h) \/ FetchWorkdayEvents(h) \/ FetchSapEvents(h)
  BY <1>2, FetchEventsKeeps DEF FetchFeishuEvents, FetchWorkdayEvents, FetchSapEvents
<1>3. CASE FetchFeishuSnapshot(h) \/ FetchWorkdaySnapshot(h) \/ FetchSapSnapshot(h)
  BY <1>3, FetchSnapshotKeeps DEF FetchFeishuSnapshot, FetchWorkdaySnapshot, FetchSapSnapshot
<1>4. CASE LdapSearch(h) BY <1>4, LdapSearchKeeps
<1>5. CASE LoadOrgDirectory(h) BY <1>5, LoadOrgDirectoryKeeps
<1>6. ASSUME NEW e \in hrJob[h].items,
             \/ RecordPostedEvent(h, e) \/ ProcessFeishuEvents(h, e)
             \/ ProcessWorkdayEvents(h, e) \/ ProcessSapEvents(h, e)
      PROVE  GrantsInv' /\ HrKept
  BY <1>6, RecordEventKeeps
     DEF RecordPostedEvent, ProcessFeishuEvents, ProcessWorkdayEvents, ProcessSapEvents, PageOf
<1>7. ASSUME NEW e \in hrJob[h].items, UpsertEntry(h, e) \/ UpsertSnapshotUser(h, e)
      PROVE  GrantsInv' /\ HrKept
  BY <1>7, UpsertEntryKeeps, UpsertSnapshotUserKeeps
<1>8. ASSUME NEW e \in hrJob[h].now, UpsertOrgUser(h, e)
      PROVE  GrantsInv' /\ HrKept
  BY <1>8, UpsertOrgUserKeeps
<1>9. CASE ApplyHrLifecycle(h) BY <1>9, ApplyHrLifecycleKeeps
<1>10. CASE \/ SaveFeishuCheckpoint(h) \/ SaveWorkdayCheckpoint(h)
            \/ SaveSapCheckpoint(h) \/ SaveLdapCheckpoint(h)
            \/ ApplyFeishuEventPage(h) \/ ApplyWorkdayEventPage(h)
            \/ ApplySapEventPage(h) \/ EndPostedEvent(h)
  BY <1>10, SaveCheckpointKeeps
     DEF SaveFeishuCheckpoint, SaveWorkdayCheckpoint, SaveSapCheckpoint, SaveLdapCheckpoint,
         SaveSnapshotCheckpoint, ApplyFeishuEventPage, ApplyWorkdayEventPage,
         ApplySapEventPage, EndPostedEvent
<1> QED BY <1>1, <1>2, <1>3, <1>4, <1>5, <1>6, <1>7, <1>8, <1>9, <1>10 DEF HrStep

\* The provider and the callbacks move no call.
LEMMA EventOccursKeeps ==
  ASSUME HrInv, NEW news \in HrNews, EventOccurs(news)
  PROVE  GrantsInv' /\ HrKept
<1> DEFINE e == [id |-> Len(feed) + 1, user |-> news.user, kind |-> news.kind,
                 department |-> news.department, manager |-> news.manager,
                 status |-> "Active"]
<1>1. /\ Len(feed) < MaxHrEvents /\ feed' = Append(feed, e)
      /\ entries' = [entries EXCEPT ![e.user].profile = ApplyEvent(@, e)]
      /\ UNCHANGED <<directory, roleHolders, binding, grantMem, grantRow, lapsed, activation,
                     lifecycleJob, lifecycleFaults, hrProvider, hrCursor, recorded, hrJob,
                     applied, hooked>>
  BY DEF EventOccurs, grantVars
<1>2. /\ feed \in Seq(HrEvent) /\ MaxHrEvents \in Nat /\ \A i \in DOMAIN feed : feed[i].id = i
      /\ entries \in [Employees -> [profile : OrgUser \cup {Missing}, stamp : 0..MaxHrEvents]]
  BY HrAssumption DEF HrInv, FeedOK
<1>3. e \in HrEvent /\ e.id = Len(feed) + 1
  <2>1. /\ news.user \in Employees /\ news.department \in Departments \cup {NoOne}
        /\ news.kind \in {"Onboard", "Transfer", "Departure", "ManagerChange"}
        /\ news.manager \in Managers \cup {NoOne}
    BY HrAssumption
  <2> QED BY <1>1, <1>2, <2>1 DEF HrEvent, Ids
<1> HIDE DEF e
<1>4. /\ feed' \in Seq(HrEvent) /\ Len(feed') <= MaxHrEvents /\ DOMAIN feed \subseteq DOMAIN feed'
      /\ \A i \in DOMAIN feed' : feed'[i].id = i
  BY <1>1, <1>2, <1>3
<1>5. entries' \in [Employees -> [profile : OrgUser \cup {Missing}, stamp : 0..MaxHrEvents]]
  <2>1. e.user \in Employees BY <1>3 DEF HrEvent
  <2>2. ApplyEvent(entries[e.user].profile, e) \in OrgUser \cup {Missing}
    BY <1>2, <1>3, <2>1, ApplyEventTyped
  <2> QED BY <1>1, <1>2, <2>1, <2>2
<1>6. FeedGrows BY <1>1, <1>4 DEF FeedGrows, HrInv, FeedOK
<1>7. HrJobsOK' /\ CursorsCover' BY <1>1, <1>6, CallsStill
<1>8. GrantsInv' BY <1>1 DEF HrInv, GrantsInv, JobsOK, ActivationOK, StatusOK, WorldOK
<1>9. FeedOK' BY <1>1, <1>4, <1>5 DEF HrInv, FeedOK
<1>10. RecordedOK' /\ JobsMeet' /\ EndedKept BY <1>1, <1>4 DEF HrInv, RecordedOK, JobsMeet, EndedKept
<1> QED BY <1>7, <1>8, <1>9, <1>10 DEF HrKept

LEMMA EntryChangesKeeps ==
  ASSUME HrInv, NEW u \in Employees, NEW p \in HrProfiles, EntryChanges(u, p)
  PROVE  GrantsInv' /\ HrKept
<1>1. UNCHANGED <<directory, roleHolders, binding, grantMem, grantRow, lapsed, activation,
                  lifecycleJob, lifecycleFaults, hrProvider, feed, hrCursor, recorded, hrJob,
                  applied, hooked>>
  BY DEF EntryChanges, grantVars
<1>2. PICK s \in {Stamp, Stamp + 1} :
        s <= MaxHrEvents /\ entries' = [entries EXCEPT ![u] = [profile |-> p, stamp |-> s]]
  BY DEF EntryChanges
<1>3. /\ entries \in [Employees -> [profile : OrgUser \cup {Missing}, stamp : 0..MaxHrEvents]]
      /\ MaxHrEvents \in Nat
  BY HrAssumption DEF HrInv, FeedOK
<1>4. Stamp \in Nat
  <2> DEFINE stamps == {1} \cup {entries[v].stamp : v \in Employees}
  <2>1. stamps \subseteq 0..MaxHrEvents + 1 /\ stamps # {} /\ MaxHrEvents + 1 \in Nat BY <1>3
  <2> HIDE DEF stamps
  <2>2. Max(stamps) \in stamps BY <2>1, MaxOfBounded
  <2>3. \A m \in stamps : m \in Nat BY <2>1
  <2> QED BY <2>2, <2>3 DEF stamps, Stamp
<1>5. s \in 0..MaxHrEvents BY <1>2, <1>3, <1>4
<1>6. p \in OrgUser BY HrAssumption DEF OrgUser
<1>7. entries' \in [Employees -> [profile : OrgUser \cup {Missing}, stamp : 0..MaxHrEvents]]
  BY <1>2, <1>3, <1>5, <1>6
<1>8. FeedGrows BY <1>1 DEF FeedGrows, HrInv, FeedOK
<1>9. HrJobsOK' /\ CursorsCover' BY <1>1, <1>8, CallsStill
<1>10. GrantsInv' BY <1>1 DEF HrInv, GrantsInv, JobsOK, ActivationOK, StatusOK, WorldOK
<1>11. FeedOK' BY <1>1, <1>7 DEF HrInv, FeedOK
<1>12. RecordedOK' /\ JobsMeet' /\ EndedKept BY <1>1 DEF HrInv, RecordedOK, JobsMeet, EndedKept
<1> QED BY <1>9, <1>10, <1>11, <1>12 DEF HrKept

LEMMA HrEnvironmentKeeps ==
  ASSUME HrInv, HrEnvironment
  PROVE  GrantsInv' /\ HrKept
<1>1. PICK g \in Grants : CheckActivation(g) \/ SaveGrant(g) \/ RegisterGrant(g) BY DEF HrEnvironment
<1>2. UNCHANGED <<hrProvider, feed, entries, hrCursor, recorded, hrJob, applied, hooked>>
  BY DEF HrEnvironment
<1>3. lifecycleJob' = lifecycleJob BY <1>1 DEF CheckActivation, SaveGrant, RegisterGrant
<1>4. GrantsInv' /\ EndedKept BY <1>1, ActivationKeeps DEF HrInv, GrantsInv
<1>5. FeedGrows BY <1>2 DEF FeedGrows, HrInv, FeedOK
<1>6. HrJobsOK' /\ CursorsCover' BY <1>2, <1>5, CallsStill
<1>7. FeedOK' /\ RecordedOK' /\ JobsMeet' BY <1>2, <1>3 DEF HrInv, FeedOK, RecordedOK, JobsMeet
<1> QED BY <1>4, <1>6, <1>7 DEF HrKept

LEMMA HrNextKeeps == HrInv /\ HrNext => HrInv' /\ EndedKept
<1> SUFFICES ASSUME HrInv, HrNext PROVE GrantsInv' /\ HrKept BY DEF HrInv, HrKept
<1>1. ASSUME NEW h \in HrJobs, HrCallStep(h) \/ HrStep(h) PROVE GrantsInv' /\ HrKept
  BY <1>1, HrCallStepKeeps, HrStepKeeps
<1>2. ASSUME NEW news \in HrNews, EventOccurs(news) PROVE GrantsInv' /\ HrKept BY <1>2, EventOccursKeeps
<1>3. ASSUME NEW u \in Employees, NEW p \in HrProfiles, EntryChanges(u, p)
      PROVE  GrantsInv' /\ HrKept
  BY <1>3, EntryChangesKeeps
<1>4. CASE HrEnvironment BY <1>4, HrEnvironmentKeeps
<1> QED BY <1>1, <1>2, <1>3, <1>4 DEF HrNext

LEMMA HrInvStep == HrInv /\ [HrNext]_<<grantVars, hrVars>> => HrInv' /\ EndedKept
<1> SUFFICES ASSUME HrInv, [HrNext]_<<grantVars, hrVars>> PROVE HrInv' /\ EndedKept OBVIOUS
<1>1. CASE HrNext BY <1>1, HrNextKeeps
<1>2. CASE UNCHANGED <<grantVars, hrVars>>
  <2>1. UNCHANGED <<directory, roleHolders, binding, grantMem, grantRow, lapsed, activation,
                    lifecycleJob, lifecycleFaults, hrProvider, feed, entries, hrCursor,
                    recorded, hrJob, applied, hooked>>
    BY <1>2 DEF grantVars, hrVars
  <2>2. FeedGrows BY <2>1 DEF FeedGrows, HrInv, FeedOK
  <2>3. HrJobsOK' /\ CursorsCover' BY <2>1, <2>2, CallsStill
  <2>4. GrantsInv' BY <2>1 DEF HrInv, GrantsInv, JobsOK, ActivationOK, StatusOK, WorldOK
  <2>5. FeedOK' /\ RecordedOK' /\ JobsMeet' /\ EndedKept
    BY <2>1 DEF HrInv, FeedOK, RecordedOK, JobsMeet, EndedKept
  <2> QED BY <2>3, <2>4, <2>5 DEF HrInv
<1> QED BY <1>1, <1>2

HrBegins ==
  /\ \E people \in [Employees -> OrgUser \cup {Missing}], given \in SUBSET Grants,
        projects \in [Projects -> {"none", "Created", "Active", "Frozen"}] :
       GrantsInit(people, given, projects)
  /\ \E provider \in Feeds \cup {"ldap"} : HrInit(provider)

LEMMA HrInvInit == HrBegins => HrInv
<1> SUFFICES ASSUME HrBegins PROVE HrInv OBVIOUS
<1>1. GrantsInv /\ \A j \in LifecycleJobs : lifecycleJob[j].pc = "idle"
  BY GrantsBegin DEF HrBegins, People
<1>2. PICK provider \in Feeds \cup {"ldap"} : HrInit(provider) BY DEF HrBegins
<1>3. hrJob = [h \in HrJobs |-> IdleHr] BY <1>2 DEF HrInit
<1>4. HrJobsOK /\ JobsMeet BY <1>1, <1>3, IdleHrTyped, HrJobsAreJobs DEF HrJobsOK, JobsMeet
<1>5. FeedOK
  <2>1. directory \in People /\ MaxHrEvents \in Nat BY <1>1, HrAssumption DEF GrantsInv, WorldOK
  <2>2. entries = [u \in Employees |-> [profile |-> directory[u], stamp |-> 0]] BY <1>2 DEF HrInit
  <2>3. entries \in [Employees -> [profile : OrgUser \cup {Missing}, stamp : 0..MaxHrEvents]]
    BY <2>1, <2>2 DEF People
  <2>4. feed = <<>> BY <1>2 DEF HrInit
  <2>5. /\ feed \in Seq(HrEvent) /\ Len(feed) <= MaxHrEvents
        /\ \A i \in DOMAIN feed : feed[i].id = i
    BY <2>1, <2>4
  <2>6. hrCursor \in [event : Nat, snapshot : Nat] /\ hrProvider \in Feeds \cup {"ldap"}
    BY <1>2 DEF HrInit
  <2> QED BY <2>3, <2>5, <2>6 DEF FeedOK
<1>6. RecordedOK BY <1>2 DEF HrInit, RecordedOK
<1>7. CursorsCover BY <1>2, <1>3, IdleHrTyped DEF HrInit, CursorsCover
<1> QED BY <1>1, <1>4, <1>5, <1>6, <1>7 DEF HrInv

LEMMA HrInvAgrees == HrInv => EventsAppliedOnce
<1> SUFFICES ASSUME HrInv PROVE EventsAppliedOnce OBVIOUS
<1>1. /\ \A i \in DOMAIN feed : feed[i] \in HrEvent /\ feed[i].id = i
      /\ \A u \in Employees : entries[u].profile \in OrgUser \cup {Missing}
      /\ hrProvider \in Feeds \cup {"ldap"} /\ recorded \subseteq DOMAIN feed
  BY DEF HrInv, FeedOK, RecordedOK
<1>2. ASSUME NEW h \in HrJobs
      PROVE  /\ hrJob[h].pc \in {"idle", "fetch", "load", "item", "upsert", "lifecycle"}
             /\ hrJob[h].op \in {"none", "poll", "webhook", "direct", "snapshot", "delta"}
             /\ hrJob[h].items \cup hrJob[h].now \subseteq HrEvent
             /\ IF hrJob[h].pc \in {"upsert", "lifecycle"}
                THEN \E e \in HrEvent : hrJob[h].now = {e}
                ELSE hrJob[h].now = {}
             /\ (lifecycleJob[h].pc # "idle") <=> (hrJob[h].pc = "lifecycle")
  BY RecordsOf DEF HrOK, HrInv, JobsMeet
<1>3. HrTypeOK BY <1>1, <1>2 DEF HrTypeOK
<1>4. AppliedOnce /\ CursorCovers BY DEF HrInv, RecordedOK, CursorsCover, AppliedOnce, CursorCovers
<1> QED BY <1>3, <1>4 DEF EventsAppliedOnce

----
(* Synchronisation with HR: what it says reaches the grants. *)

\* As long as no two writers met and no statement failed.
HrCalm == ~hrOverlap /\ lifecycleFaults = 0

HrAlone == ~hrOverlap => \A x, y \in HrWriters : x = y

\* A grant job will end an active grant: it is about to load it with the row
\* just written, or has it among its transitions.
HandledBy(h, g) ==
  \/ /\ lifecycleJob[h].pc = "load" /\ Applicant[g] \in lifecycleJob[h].whose
     /\ lifecycleJob[h].org[Applicant[g]] = directory[Applicant[g]]
  \/ \E t \in lifecycleJob[h].todo : t.grant = g /\ t.from = "Active"
  \/ /\ lifecycleJob[h].pc = "row"
     /\ \E t \in lifecycleJob[h].now : t.grant = g /\ t.from = "Active"

FitsRow(g) == /\ directory[Applicant[g]].status = "Active"
              /\ OrgBindingMatches(g, directory[Applicant[g]])

\* No job of HR makes a grant active.
JobsEnd ==
  \A h \in HrJobs :
    /\ lifecycleJob[h].pc = "load" => lifecycleJob[h].trigger = "HrSync"
    /\ \A t \in lifecycleJob[h].todo \cup lifecycleJob[h].now : t.to # "Active"

CallbacksFresh ==
  \A g \in Grants :
    activation[g].pc = "checked" => activation[g].org = directory[Applicant[g]]

\* A grant that contradicts the row an event wrote is on the list of a job.
GrantsHandled ==
  \A g \in Grants :
    (grantRow[g] = "Active" /\ Applicant[g] \in viaEvent)
      => FitsRow(g) \/ \E h \in HrJobs : HandledBy(h, g)

GrantsFollowed == HrCalm => CallbacksFresh /\ GrantsHandled

\* A call has items only after its fetch.
CallPlain(r) == r.pc \in {"idle", "fetch"} => r.items = {}

CallsPlain == \A h \in HrJobs : CallPlain(hrJob[h])

\* No stamp of an entry that was not read yet is before the watermark c.
InReach(c, table, fresh) ==
  /\ c = 0 \/ \E v \in Employees : c <= table[v].stamp
  /\ \A v \in fresh : c <= table[v].stamp

CallReaches(r, table, fresh) ==
  /\ InReach(r.before.event, table, fresh)
  /\ InReach(r.before.snapshot, table, fresh)
  /\ InReach(r.upto, table, fresh)

\* A departure that is about to be stored is one in the copy, too.
CallTells(r, met) ==
  r.pc = "upsert" => \A e \in r.now : (e.status = "Departed" /\ e.user \notin met)
                                        => r.copy[e.user].status = "Departed"

\* What a call has read of an entry is what the entry says, until it changes.
CallRead(r, table, fresh) ==
  \A e \in r.items \cup r.now :
    e.user \notin fresh => e.status = table[e.user].profile.status

Left(u) == entries[u].profile.status = "Departed" /\ u \notin unread \cup metGone

LeaversFound ==
  \A u \in Employees :
    Left(u) => \/ directory[u].status = "Departed"
               \/ \E h \in HrJobs : \E e \in hrJob[h].items : e.user = u

LdapFollowed ==
  hrProvider = "ldap" =>
    /\ feed = <<>> /\ unread \subseteq Employees
    /\ InReach(hrCursor.event, entries, unread)
    /\ InReach(hrCursor.snapshot, entries, unread)
    /\ \A h \in HrJobs : CallReaches(hrJob[h], entries, unread) /\ CallTells(hrJob[h], metGone)
    /\ HrCalm => /\ \A h \in HrJobs : CallRead(hrJob[h], entries, unread)
                 /\ LeaversFound

HrSearchInv == HrInv /\ HrAlone /\ CallsPlain /\ LdapFollowed

HrFollowInv == HrSearchInv /\ JobsEnd /\ GrantsFollowed

\* Where a step comes from: the calls that only read, and those that write.
ReadingCall(h) ==
  \/ \E op, pc, items : /\ HrCall(h, op, pc, items)
                        /\ \/ pc = "fetch" /\ items = {}
                           \/ pc = "load" /\ DOMAIN feed # {}
  \/ FetchFails(h)
  \/ hrProvider \in Feeds /\ (FetchEvents(h) \/ FetchSnapshot(h))
  \/ LdapSearch(h)
  \/ LoadOrgDirectory(h)
  \/ \E e \in hrJob[h].items : RecordEvent(h, e) /\ hrJob[h].op \in {"poll", "webhook", "direct"}
  \/ SaveCheckpoint(h)

WritingCall(h) ==
  \/ \E e \in hrJob[h].items : UpsertEntry(h, e) \/ UpsertSnapshotUser(h, e)
  \/ \E e \in hrJob[h].now : UpsertOrgUser(h, e)
  \/ ApplyHrLifecycle(h)

LEMMA StepsOfCalls ==
  ASSUME NEW h \in HrJobs, HrCallStep(h) \/ HrStep(h)
  PROVE  ReadingCall(h) \/ WritingCall(h)
<1>1. CASE \/ FeishuEventPoll(h) \/ WorkdayEventPoll(h) \/ SapEventPoll(h)
           \/ FeishuSnapshotSync(h) \/ WorkdaySnapshotSync(h) \/ SapSnapshotSync(h)
           \/ LdapSnapshotSync(h) \/ LdapIncrementalPoll(h)
  <2>1. \E op, pc : HrCall(h, op, pc, {}) /\ pc = "fetch"
    BY <1>1 DEF FeishuEventPoll, WorkdayEventPoll, SapEventPoll,
                FeishuSnapshotSync, WorkdaySnapshotSync, SapSnapshotSync,
                LdapSnapshotSync, LdapIncrementalPoll
  <2> QED BY <2>1 DEF ReadingCall
<1>2. ASSUME NEW i \in DOMAIN feed,
             FeishuWebhook(h, i) \/ WorkdayWebhook(h, i) \/ SapWebhook(h, i) \/ HrEventHandler(h, i)
      PROVE  ReadingCall(h)
  <2>1. \E op, pc, items : HrCall(h, op, pc, items) /\ pc = "load"
    BY <1>2 DEF FeishuWebhook, WorkdayWebhook, SapWebhook, HrEventHandler
  <2> QED BY <2>1 DEF ReadingCall
<1>3. CASE \/ FeishuFetchFails(h) \/ WorkdayFetchFails(h) \/ SapFetchFails(h)
           \/ LdapSearchFails(h)
  BY <1>3 DEF FeishuFetchFails, WorkdayFetchFails, SapFetchFails, LdapSearchFails, ReadingCall
<1>4. CASE \/ FetchFeishuEvents(h) \/ FetchWorkdayEvents(h) \/ FetchSapEvents(h)
           \/ FetchFeishuSnapshot(h) \/ FetchWorkdaySnapshot(h) \/ FetchSapSnapshot(h)
  BY <1>4 DEF FetchFeishuEvents, FetchWorkdayEvents, FetchSapEvents, FetchFeishuSnapshot,
              FetchWorkdaySnapshot, FetchSapSnapshot, Feeds, ReadingCall
<1>5. CASE LdapSearch(h) \/ LoadOrgDirectory(h) BY <1>5 DEF ReadingCall
<1>6. ASSUME NEW e \in hrJob[h].items,
             \/ RecordPostedEvent(h, e) \/ ProcessFeishuEvents(h, e)
             \/ ProcessWorkdayEvents(h, e) \/ ProcessSapEvents(h, e)
      PROVE  ReadingCall(h)
  BY <1>6 DEF RecordPostedEvent, ProcessFeishuEvents, ProcessWorkdayEvents, ProcessSapEvents,
              PageOf, ReadingCall
<1>7. ASSUME NEW e \in hrJob[h].items, UpsertEntry(h, e) \/ UpsertSnapshotUser(h, e)
      PROVE  WritingCall(h)
  BY <1>7 DEF WritingCall
<1>8. CASE ApplyHrLifecycle(h) \/ \E e \in hrJob[h].now : UpsertOrgUser(h, e) BY <1>8 DEF WritingCall
<1>9. CASE \/ SaveFeishuCheckpoint(h) \/ SaveWorkdayCheckpoint(h)
           \/ SaveSapCheckpoint(h) \/ SaveLdapCheckpoint(h)
           \/ ApplyFeishuEventPage(h) \/ ApplyWorkdayEventPage(h)
           \/ ApplySapEventPage(h) \/ EndPostedEvent(h)
  <2>1. SaveCheckpoint(h) BY <1>9 DEF SaveFeishuCheckpoint, SaveWorkdayCheckpoint, SaveSapCheckpoint,
                SaveLdapCheckpoint, SaveSnapshotCheckpoint, ApplyFeishuEventPage,
                ApplyWorkdayEventPage, ApplySapEventPage, EndPostedEvent
  <2> QED BY <2>1 DEF ReadingCall
<1>10. CASE HrCallStep(h) BY <1>1, <1>2, <1>10 DEF HrCallStep
<1>11. CASE HrStep(h) BY <1>3, <1>4, <1>5, <1>6, <1>7, <1>8, <1>9, <1>11 DEF HrStep
<1> QED BY <1>10, <1>11

LEMMA StepsOfHr ==
  ASSUME HrNext
  PROVE  \/ \E h \in HrJobs : ReadingCall(h) \/ WritingCall(h)
         \/ \E news \in HrNews : EventOccurs(news)
         \/ \E u \in Employees, p \in HrProfiles : EntryChanges(u, p)
         \/ HrEnvironment
  BY StepsOfCalls DEF HrNext

\* What a call that only reads leaves alone.
LEMMA ReadingFrame ==
  ASSUME NEW h \in HrJobs, ReadingCall(h)
  PROVE  /\ UNCHANGED <<directory, binding, grantRow, activation, lifecycleJob, hrProvider,
                        feed, entries, viaEvent, metGone>>
         /\ lifecycleFaults' = lifecycleFaults \/ LifecycleFault
<1>1. CASE \E op, pc, items : HrCall(h, op, pc, items) BY <1>1 DEF HrCall, grantVars
<1>2. CASE FetchFails(h) \/ LoadOrgDirectory(h) BY <1>2 DEF FetchFails, LoadOrgDirectory, grantVars
<1>3. CASE FetchEvents(h) \/ FetchSnapshot(h) \/ LdapSearch(h)
  <2>1. \E pc, items, upto : HrFetched(h, pc, items, upto)
    BY <1>3 DEF FetchEvents, FetchSnapshot, LdapSearch
  <2> QED BY <2>1 DEF HrFetched, grantVars
<1>4. CASE \E e \in hrJob[h].items : RecordEvent(h, e) BY <1>4 DEF RecordEvent, HrFails
<1>5. CASE SaveCheckpoint(h) BY <1>5 DEF SaveCheckpoint
<1> QED BY <1>1, <1>2, <1>3, <1>4, <1>5 DEF ReadingCall

\* Failures and meetings are not forgotten.
LEMMA CalmBackHr ==
  ASSUME HrInv, HrNext
  PROVE  /\ HrCalm' => HrCalm /\ lifecycleFaults' = lifecycleFaults
         /\ lifecycleFaults' = lifecycleFaults \/ LifecycleFault
<1>1. lifecycleFaults' = lifecycleFaults \/ LifecycleFault
  <2>1. ASSUME NEW h \in HrJobs, WritingCall(h)
        PROVE  lifecycleFaults' = lifecycleFaults \/ LifecycleFault
    <3>1. CASE \E e \in hrJob[h].items : UpsertEntry(h, e) \/ UpsertSnapshotUser(h, e)
      BY <3>1 DEF UpsertEntry, UpsertSnapshotUser, HrFails
    <3>2. CASE \E e \in hrJob[h].now : UpsertOrgUser(h, e) BY <3>2 DEF UpsertOrgUser, HrFails
    <3>3. CASE JobStep(h)
      BY <3>3 DEF JobStep, LoadLifecycleGrants, ApplyLifecycleTransition, UpdateGrantRow,
                  SaveLifecycleEvent, EndJob
    <3> QED BY <2>1, <3>1, <3>2, <3>3 DEF WritingCall, ApplyHrLifecycle
  <2>2. CASE HrEnvironment BY <2>2 DEF HrEnvironment, CheckActivation, SaveGrant, RegisterGrant
  <2>3. CASE \/ \E news \in HrNews : EventOccurs(news)
             \/ \E u \in Employees, p \in HrProfiles : EntryChanges(u, p)
    BY <2>3 DEF EventOccurs, EntryChanges, grantVars
  <2> QED BY <2>1, <2>2, <2>3, ReadingFrame, StepsOfHr
<1>2. lifecycleFaults \in Nat BY DEF HrInv, GrantsInv, WorldOK
<1>3. ~hrOverlap' => ~hrOverlap BY DEF HrNext
<1> QED BY <1>1, <1>2, <1>3 DEF HrCalm, LifecycleFault

\* While a call is under way nobody else is.
LEMMA LoneCall ==
  ASSUME HrAlone, ~hrOverlap, NEW h \in HrJobs, hrJob[h].pc # "idle"
  PROVE  /\ \A k \in HrJobs \ {h} : hrJob[k].pc = "idle"
         /\ \A g \in Grants : activation[g].pc \notin {"checked", "saved"}
<1>1. h \in HrWriters BY DEF HrWriters
<1>2. ASSUME NEW k \in HrJobs \ {h}, hrJob[k].pc # "idle" PROVE FALSE
  <2>1. k \in HrWriters BY <1>2 DEF HrWriters
  <2> QED BY <1>1, <2>1 DEF HrAlone
<1>3. ASSUME NEW g \in Grants, activation[g].pc \in {"checked", "saved"} PROVE FALSE
  <2>1. g \in HrWriters BY <1>3 DEF HrWriters
  <2>2. g # h BY HrJobsAreJobs, ProjectAssumption
  <2> QED BY <1>1, <2>1, <2>2 DEF HrAlone
<1> QED BY <1>2, <1>3

----
(* Synchronisation with HR: grants and their jobs. *)

GrantsOnward == JobsEnd' /\ GrantsFollowed'

\* A step that touches no grant, job, callback or row.
LEMMA OnwardStill ==
  ASSUME JobsEnd, GrantsFollowed, HrCalm' => HrCalm,
         UNCHANGED <<directory, binding, grantRow, activation, lifecycleJob, viaEvent>>
  PROVE  GrantsOnward
<1>1. JobsEnd' BY DEF JobsEnd
<1>2. ASSUME HrCalm' PROVE CallbacksFresh' /\ GrantsHandled'
  <2>1. CallbacksFresh /\ GrantsHandled BY <1>2 DEF GrantsFollowed
  <2>2. CallbacksFresh' BY <2>1 DEF CallbacksFresh
  <2>3. GrantsHandled' BY <2>1 DEF GrantsHandled, FitsRow, OrgBindingMatches, HandledBy
  <2> QED BY <2>2, <2>3
<1> QED BY <1>1, <1>2 DEF GrantsOnward, GrantsFollowed

\* A row is stored other than by an event: of its user nothing is said.
LEMMA OnwardStored ==
  ASSUME HrFollowInv, HrCalm' => HrCalm, NEW h \in HrJobs, hrJob[h].pc # "idle",
         NEW u \in Employees,
         \/ \E p : directory' = [directory EXCEPT ![u] = p] /\ viaEvent' = viaEvent \ {u}
         \/ ~HrCalm' /\ directory' = directory,
         UNCHANGED <<binding, grantRow, activation, lifecycleJob>>
  PROVE  GrantsOnward
<1>1. JobsEnd' BY DEF HrFollowInv, HrSearchInv, JobsEnd
<1>2. ASSUME HrCalm' PROVE CallbacksFresh' /\ GrantsHandled'
  <2>1. CallbacksFresh /\ GrantsHandled /\ ~hrOverlap
    BY <1>2 DEF HrFollowInv, HrSearchInv, GrantsFollowed, HrCalm
  <2>2. \A g \in Grants : activation[g].pc # "checked" BY <2>1, LoneCall DEF HrFollowInv, HrSearchInv
  <2>3. CallbacksFresh' BY <2>2 DEF CallbacksFresh
  <2>4. \A v \in Employees \ {u} : directory'[v] = directory[v]
    BY <1>2 DEF HrFollowInv, HrSearchInv, HrInv, GrantsInv, WorldOK, People
  <2>5. viaEvent' = viaEvent \ {u} BY <1>2
  <2>6. ASSUME NEW g \in Grants, grantRow'[g] = "Active", Applicant[g] \in viaEvent'
        PROVE  FitsRow(g)' \/ \E k \in HrJobs : HandledBy(k, g)'
    <3>1. directory'[Applicant[g]] = directory[Applicant[g]] BY <2>4, <2>5, <2>6, GrantAssumption
    <3>2. FitsRow(g) \/ \E k \in HrJobs : HandledBy(k, g) BY <2>1, <2>5, <2>6 DEF GrantsHandled
    <3>3. FitsRow(g) => FitsRow(g)' BY <3>1 DEF FitsRow, OrgBindingMatches
    <3>4. \A k \in HrJobs : HandledBy(k, g) => HandledBy(k, g)' BY <3>1 DEF HandledBy
    <3> QED BY <3>2, <3>3, <3>4
  <2> QED BY <2>3, <2>6 DEF GrantsHandled
<1> QED BY <1>1, <1>2 DEF GrantsOnward, GrantsFollowed

\* An event is stored, and the job that follows it has the row.
LEMMA OnwardUpserted ==
  ASSUME HrFollowInv, HrCalm' => HrCalm, NEW h \in HrJobs, NEW e \in hrJob[h].now,
         UpsertOrgUser(h, e)
  PROVE  GrantsOnward
<1>1. UNCHANGED <<binding, grantRow, activation>> BY DEF UpsertOrgUser
<1>2. hrJob[h].pc = "upsert" /\ e.user \in Employees /\ h \in LifecycleJobs
  BY RecordsOf DEF UpsertOrgUser, HrFollowInv, HrSearchInv, HrEvent
<1>3. CASE HrFails(h) /\ UNCHANGED <<directory, lifecycleJob, viaEvent>>
  <2>1. ~HrCalm'
    <3>1. lifecycleFaults' = lifecycleFaults + 1 /\ lifecycleFaults \in Nat
      BY <1>3 DEF HrFails, LifecycleFault, HrFollowInv, HrSearchInv, HrInv, GrantsInv, WorldOK
    <3> QED BY <3>1 DEF HrCalm
  <2> QED BY <1>1, <1>2, <1>3, <2>1, OnwardStored
<1>4. CASE /\ directory' = [directory EXCEPT ![e.user] = hrJob[h].copy[e.user]]
           /\ StartJob(h, "HrSync", {e.user}, hrJob[h].copy)
           /\ viaEvent' = viaEvent \cup {e.user}
  <2> DEFINE copy == hrJob[h].copy
  <2>1. lifecycleJob' = [lifecycleJob EXCEPT ![h] =
                           [IdleLifecycleJob EXCEPT !.pc = "load", !.org = copy,
                                        !.trigger = "HrSync", !.whose = {e.user}]]
    BY <1>4 DEF StartJob
  <2>2. lifecycleJob \in [LifecycleJobs -> JobRecord] /\ directory \in People
    BY DEF HrFollowInv, HrSearchInv, HrInv, GrantsInv, JobsOK, WorldOK
  <2>3. /\ lifecycleJob'[h].pc = "load" /\ lifecycleJob'[h].org = copy
        /\ lifecycleJob'[h].trigger = "HrSync" /\ lifecycleJob'[h].whose = {e.user}
        /\ lifecycleJob'[h].todo = {} /\ lifecycleJob'[h].now = {}
        /\ \A k \in HrJobs \ {h} : lifecycleJob'[k] = lifecycleJob[k]
    BY <1>2, <2>1, <2>2, HrJobsAreJobs DEF IdleLifecycleJob
  <2>4. directory'[e.user] = copy[e.user] /\ \A v \in Employees \ {e.user} : directory'[v] = directory[v]
    BY <1>2, <1>4, <2>2 DEF People
  <2>5. JobsEnd' BY <2>3 DEF HrFollowInv, HrSearchInv, JobsEnd
  <2>6. lifecycleJob[h].pc = "idle" /\ lifecycleJob[h].todo = {}
    BY <1>2, <1>4 DEF StartJob, HrFollowInv, HrSearchInv, HrInv, GrantsInv, JobsOK, JobOK
  <2>7. ASSUME HrCalm' PROVE CallbacksFresh' /\ GrantsHandled'
    <3>1. GrantsHandled /\ ~hrOverlap BY <2>7 DEF HrFollowInv, HrSearchInv, GrantsFollowed, HrCalm
    <3>2. \A g \in Grants : activation[g].pc # "checked"
      BY <1>2, <3>1, LoneCall DEF HrFollowInv, HrSearchInv
    <3>3. CallbacksFresh' BY <1>1, <3>2 DEF CallbacksFresh
    <3>4. ASSUME NEW g \in Grants, grantRow'[g] = "Active", Applicant[g] \in viaEvent'
          PROVE  FitsRow(g)' \/ \E k \in HrJobs : HandledBy(k, g)'
      <4>1. CASE Applicant[g] = e.user
        <5>1. HandledBy(h, g)' BY <2>3, <2>4, <4>1 DEF HandledBy
        <5> QED BY <5>1
      <4>2. CASE Applicant[g] # e.user
        <5>1. directory'[Applicant[g]] = directory[Applicant[g]] /\ Applicant[g] \in viaEvent
          BY <1>4, <2>4, <3>4, <4>2, GrantAssumption
        <5>2. FitsRow(g) \/ \E k \in HrJobs : HandledBy(k, g) BY <1>1, <3>1, <3>4, <5>1 DEF GrantsHandled
        <5>3. FitsRow(g) => FitsRow(g)' BY <1>1, <5>1 DEF FitsRow, OrgBindingMatches
        <5>4. ~HandledBy(h, g) BY <2>6 DEF HandledBy
        <5>5. \A k \in HrJobs \ {h} : HandledBy(k, g) => HandledBy(k, g)' BY <2>3, <5>1 DEF HandledBy
        <5> QED BY <5>2, <5>3, <5>4, <5>5
      <4> QED BY <4>1, <4>2
    <3> QED BY <3>3, <3>4 DEF GrantsHandled
  <2> QED BY <2>5, <2>7 DEF GrantsOnward, GrantsFollowed
<1> QED BY <1>3, <1>4 DEF UpsertOrgUser

\* The lists of the job that loads: an active grant that does not fit is on it.
LEMMA OnwardLoad ==
  ASSUME HrFollowInv, NEW h \in HrJobs, LoadLifecycleGrants(h)
  PROVE  /\ \A t \in lifecycleJob'[h].todo \cup lifecycleJob'[h].now : t.to # "Active"
         /\ lifecycleJob'[h].pc = "apply"
         /\ \A k \in HrJobs \ {h} : lifecycleJob'[k] = lifecycleJob[k]
         /\ \A g \in Grants :
              (grantRow[g] = "Active" /\ HandledBy(h, g))
                => \/ FitsRow(g)
                   \/ \E t \in lifecycleJob'[h].todo : t.grant = g /\ t.from = "Active"
<1> DEFINE job == lifecycleJob[h]
           trigger(g) == IF h = GovernanceJob THEN ProjectLifecycleTrigger(g)
                         ELSE job.trigger
           next(g) == EvaluateGrant(g, job.org[Applicant[g]], trigger(g))
           found == {g \in Grants : /\ grantRow[g] \in {"Active", "Suspended"}
                                    /\ Applicant[g] \in job.whose}
           open == {g \in found : next(g) # grantRow[g]}
           todo == {[grant |-> g, from |-> grantRow[g], to |-> next(g)] : g \in open}
           r == [job EXCEPT !.pc = "apply", !.org = IdleLifecycleJob.org, !.whose = {},
                            !.trigger = IdleLifecycleJob.trigger, !.todo = todo]
<1>1. lifecycleJob' = [lifecycleJob EXCEPT ![h] = r] /\ job.pc = "load" BY DEF LoadLifecycleGrants
<1>2. h \in LifecycleJobs /\ h # GovernanceJob BY DEF HrJobs
<1>3. job \in JobRecord /\ JobOK(job) /\ lifecycleJob \in [LifecycleJobs -> JobRecord]
  BY <1>2 DEF HrFollowInv, HrSearchInv, HrInv, GrantsInv, JobsOK
<1>4. job.now = {} /\ job.todo = {} /\ job.trigger = "HrSync"
  BY <1>1, <1>3 DEF JobOK, HrFollowInv, HrSearchInv, JobsEnd
<1>5. \A g \in Grants : next(g) = EvaluateGrant(g, job.org[Applicant[g]], "HrSync") BY <1>2, <1>4
<1> HIDE DEF next
<1>6. \A g \in open : next(g) # "Active"
  <2> SUFFICES ASSUME NEW g \in open PROVE next(g) # "Active" OBVIOUS
  <2>1. g \in Grants /\ next(g) # grantRow[g] OBVIOUS
  <2> QED BY <2>1, <1>5 DEF EvaluateGrant, AfterHrSync
<1>7. \A g \in Grants :
        (grantRow[g] = "Active" /\ next(g) = "Active")
          => /\ job.org[Applicant[g]].status = "Active"
             /\ OrgBindingMatches(g, job.org[Applicant[g]])
  BY <1>5 DEF EvaluateGrant, AfterHrSync
<1> HIDE DEF open
<1>8. \A t \in todo : t.to # "Active" BY <1>6
<1> USE DEF open
<1>9. \A g \in Grants :
        (grantRow[g] = "Active" /\ HandledBy(h, g))
          => FitsRow(g) \/ \E t \in todo : t.grant = g /\ t.from = "Active"
  <2> SUFFICES ASSUME NEW g \in Grants, grantRow[g] = "Active", HandledBy(h, g)
               PROVE  FitsRow(g) \/ \E t \in todo : t.grant = g /\ t.from = "Active"
    OBVIOUS
  <2>1. Applicant[g] \in job.whose /\ job.org[Applicant[g]] = directory[Applicant[g]]
    BY <1>1, <1>4 DEF HandledBy
  <2>2. CASE next(g) = "Active" BY <1>7, <2>1, <2>2 DEF FitsRow
  <2>3. CASE next(g) # "Active"
    <3>1. g \in open BY <2>1, <2>3
    <3> HIDE DEF open
    <3>2. [grant |-> g, from |-> grantRow[g], to |-> next(g)] \in todo BY <3>1
    <3> HIDE DEF todo
    <3> QED BY <3>2
  <2> QED BY <2>2, <2>3
<1> HIDE DEF todo
<1>10. r.pc = "apply" /\ r.todo = todo /\ r.now = {} BY <1>3, <1>4 DEF JobRecord
<1> HIDE DEF r, job
<1>11. /\ lifecycleJob'[h] = r
       /\ \A k \in HrJobs \ {h} : lifecycleJob'[k] = lifecycleJob[k]
  BY <1>1, <1>2, <1>3, HrJobsAreJobs
<1> QED BY <1>8, <1>9, <1>10, <1>11

\* A grant job works its list off.
LEMMA OnwardJob ==
  ASSUME HrFollowInv, HrCalm' => HrCalm /\ lifecycleFaults' = lifecycleFaults,
         NEW h \in HrJobs, JobStep(h), viaEvent' = viaEvent
  PROVE  GrantsOnward
<1>1. /\ h \in LifecycleJobs /\ GrantsInv /\ JobsOK /\ JobOK(lifecycleJob[h])
      /\ lifecycleJob \in [LifecycleJobs -> JobRecord] /\ grantRow \in [Grants -> Status]
  BY HrJobsAreJobs DEF HrFollowInv, HrSearchInv, HrInv, GrantsInv, JobsOK, StatusOK
<1>2. UNCHANGED <<directory, binding, activation>>
  BY DEF JobStep, LoadLifecycleGrants, ApplyLifecycleTransition, UpdateGrantRow,
         SaveLifecycleEvent, EndJob
<1>3. \A k \in HrJobs \ {h} : lifecycleJob'[k] = lifecycleJob[k] BY <1>1, JobStepFrame, HrJobsAreJobs
<1>4. \A t \in lifecycleJob[h].todo \cup lifecycleJob[h].now : t.to # "Active"
  BY DEF HrFollowInv, HrSearchInv, JobsEnd
\* It is enough to look at the job itself.
<1>5. ASSUME \A t \in lifecycleJob'[h].todo \cup lifecycleJob'[h].now : t.to # "Active",
             lifecycleJob'[h].pc # "load",
             lifecycleFaults' = lifecycleFaults =>
               \A g \in Grants :
                 grantRow'[g] = "Active"
                   => /\ grantRow[g] = "Active"
                      /\ HandledBy(h, g) => FitsRow(g) \/ HandledBy(h, g)'
      PROVE  GrantsOnward
  <2>1. JobsEnd' BY <1>3, <1>5 DEF HrFollowInv, HrSearchInv, JobsEnd
  <2>2. ASSUME HrCalm' PROVE CallbacksFresh' /\ GrantsHandled'
    <3>1. CallbacksFresh /\ GrantsHandled BY <2>2 DEF HrFollowInv, HrSearchInv, GrantsFollowed
    <3>2. CallbacksFresh' BY <1>2, <3>1 DEF CallbacksFresh
    <3>3. ASSUME NEW g \in Grants, grantRow'[g] = "Active", Applicant[g] \in viaEvent'
          PROVE  FitsRow(g)' \/ \E k \in HrJobs : HandledBy(k, g)'
      <4>1. /\ grantRow[g] = "Active"
            /\ HandledBy(h, g) => FitsRow(g) \/ HandledBy(h, g)'
        BY <1>5, <2>2, <3>3
      <4>2. FitsRow(g) \/ \E k \in HrJobs : HandledBy(k, g) BY <3>1, <3>3, <4>1 DEF GrantsHandled
      <4>3. FitsRow(g) => FitsRow(g)' BY <1>2 DEF FitsRow, OrgBindingMatches
      <4>4. \A k \in HrJobs \ {h} : HandledBy(k, g) => HandledBy(k, g)' BY <1>2, <1>3 DEF HandledBy
      <4> QED BY <4>1, <4>2, <4>3, <4>4
    <3> QED BY <3>2, <3>3 DEF GrantsHandled
  <2> QED BY <2>1, <2>2 DEF GrantsOnward, GrantsFollowed
<1>6. CASE LoadLifecycleGrants(h)
  <2>1. grantRow' = grantRow BY <1>6 DEF LoadLifecycleGrants
  <2>2. \A g \in Grants :
          (\E t \in lifecycleJob'[h].todo : t.grant = g /\ t.from = "Active") => HandledBy(h, g)'
    BY DEF HandledBy
  <2> QED BY <1>5, <1>6, <2>1, <2>2, OnwardLoad
<1>7. ASSUME NEW t \in lifecycleJob[h].todo, ApplyLifecycleTransition(h, t)
      PROVE  GrantsOnward
  <2>1. /\ lifecycleJob'[h].pc = "row" /\ lifecycleJob'[h].now = {t}
        /\ lifecycleJob'[h].todo = lifecycleJob[h].todo \ {t}
    BY <1>1, <1>7, ApplyKeeps
  <2>2. grantRow' = grantRow /\ lifecycleJob[h].pc = "apply" BY <1>7 DEF ApplyLifecycleTransition
  <2>3. \A g \in Grants : HandledBy(h, g) => HandledBy(h, g)'
    <3> SUFFICES ASSUME NEW g \in Grants, HandledBy(h, g) PROVE HandledBy(h, g)' OBVIOUS
    <3>1. PICK u \in lifecycleJob[h].todo : u.grant = g /\ u.from = "Active" BY <2>2 DEF HandledBy
    <3>2. CASE u = t BY <2>1, <3>1, <3>2 DEF HandledBy
    <3>3. CASE u # t BY <2>1, <3>1, <3>3 DEF HandledBy
    <3> QED BY <3>2, <3>3
  <2> QED BY <1>4, <1>5, <2>1, <2>2, <2>3
<1>8. CASE UpdateGrantRow(h)
  <2>1. PICK t \in Transition :
          /\ lifecycleJob[h].now = {t}
          /\ \/ /\ grantRow' = [grantRow EXCEPT ![t.grant] = IF @ = t.from THEN t.to ELSE @]
                /\ lifecycleJob'[h].pc = "event" /\ lifecycleJob'[h].now = {t}
                /\ lifecycleJob'[h].todo = lifecycleJob[h].todo
                /\ lifecycleFaults' = lifecycleFaults
             \/ /\ grantRow' = grantRow
                /\ lifecycleFaults' = lifecycleFaults + 1
    BY <1>1, <1>8, RowKeeps
  <2>2. t.grant \in Grants /\ t.to # "Active" BY <1>4, <2>1 DEF Transition
  <2>3. CASE /\ grantRow' = [grantRow EXCEPT ![t.grant] = IF @ = t.from THEN t.to ELSE @]
             /\ lifecycleJob'[h].pc = "event" /\ lifecycleJob'[h].now = {t}
             /\ lifecycleJob'[h].todo = lifecycleJob[h].todo
    <3>1. \A g \in Grants : grantRow'[g] = "Active" => grantRow[g] = "Active" BY <1>1, <2>2, <2>3
    <3>2. ASSUME NEW g \in Grants, grantRow'[g] = "Active", HandledBy(h, g)
          PROVE  HandledBy(h, g)'
      <4>1. ~(t.grant = g /\ t.from = "Active") BY <1>1, <2>2, <2>3, <3>1, <3>2
      <4>2. \E u \in lifecycleJob[h].todo : u.grant = g /\ u.from = "Active"
        BY <1>8, <2>1, <3>2, <4>1 DEF HandledBy, UpdateGrantRow
      <4> QED BY <2>3, <4>2 DEF HandledBy
    <3> QED BY <1>4, <1>5, <2>1, <2>3, <3>1, <3>2
  <2>4. CASE lifecycleFaults' = lifecycleFaults + 1
    <3>1. lifecycleFaults \in Nat BY DEF HrFollowInv, HrSearchInv, HrInv, GrantsInv, WorldOK
    <3>2. lifecycleJob' = [lifecycleJob EXCEPT ![h] = IdleLifecycleJob]
      BY <1>8, <2>4, <3>1 DEF UpdateGrantRow
    <3>3. /\ lifecycleJob'[h].todo = {} /\ lifecycleJob'[h].now = {}
          /\ lifecycleJob'[h].pc = "idle"
      BY <1>1, <3>2 DEF IdleLifecycleJob
    <3> QED BY <1>5, <2>4, <3>1, <3>3
  <2> QED BY <2>1, <2>3, <2>4
<1>9. CASE SaveLifecycleEvent(h)
  <2>1. grantRow' = grantRow /\ lifecycleJob[h].pc = "event" BY <1>9 DEF SaveLifecycleEvent
  <2>2. CASE lifecycleJob' = [lifecycleJob EXCEPT ![h] = [@ EXCEPT !.pc = "apply", !.now = {}]]
    <3>1. /\ lifecycleJob'[h].pc = "apply" /\ lifecycleJob'[h].now = {}
          /\ lifecycleJob'[h].todo = lifecycleJob[h].todo
      BY <1>1, <2>2 DEF JobRecord
    <3>2. \A g \in Grants : HandledBy(h, g) => HandledBy(h, g)' BY <2>1, <3>1 DEF HandledBy
    <3> QED BY <1>4, <1>5, <2>1, <3>1, <3>2
  <2>3. CASE lifecycleJob' = [lifecycleJob EXCEPT ![h] = IdleLifecycleJob] /\ LifecycleFault
    <3>1. lifecycleFaults' # lifecycleFaults BY <1>1, <2>3, FaultTyped
    <3>2. /\ lifecycleJob'[h].todo = {} /\ lifecycleJob'[h].now = {}
          /\ lifecycleJob'[h].pc = "idle"
      BY <1>1, <2>3 DEF IdleLifecycleJob
    <3> QED BY <1>5, <3>1, <3>2
  <2> QED BY <1>9, <2>2, <2>3 DEF SaveLifecycleEvent
<1>10. CASE EndJob(h)
  <2>1. /\ grantRow' = grantRow /\ lifecycleJob[h].pc = "apply" /\ lifecycleJob[h].todo = {}
        /\ lifecycleJob' = [lifecycleJob EXCEPT ![h] = IdleLifecycleJob]
    BY <1>10 DEF EndJob
  <2>2. /\ lifecycleJob'[h].todo = {} /\ lifecycleJob'[h].now = {}
        /\ lifecycleJob'[h].pc = "idle"
    BY <1>1, <2>1 DEF IdleLifecycleJob
  <2>3. \A g \in Grants : ~HandledBy(h, g) BY <2>1 DEF HandledBy
  <2> QED BY <1>5, <2>1, <2>2, <2>3
<1> QED BY <1>6, <1>7, <1>8, <1>9, <1>10 DEF JobStep

\* A callback that was not overtaken gives the grant in the organisation the
\* directory still has; the rule must ask for an active applicant.
LEMMA OnwardCallback ==
  ASSUME EligibilityRule.requireActive,
         HrFollowInv, HrCalm' => HrCalm /\ lifecycleFaults' = lifecycleFaults, HrEnvironment
  PROVE  GrantsOnward
<1>1. PICK g \in Grants : CheckActivation(g) \/ SaveGrant(g) \/ RegisterGrant(g) BY DEF HrEnvironment
<1>2. UNCHANGED <<directory, lifecycleJob, viaEvent>>
  BY <1>1 DEF HrEnvironment, CheckActivation, SaveGrant, RegisterGrant
<1>3. /\ activation \in [Grants -> ActivationRecord]
      /\ grantRow \in [Grants -> Status] /\ binding \in [Grants -> Binding \cup {NoOne}]
      /\ directory \in People /\ Applicant[g] \in Employees
  BY GrantAssumption DEF HrFollowInv, HrSearchInv, HrInv, GrantsInv, ActivationOK, StatusOK, WorldOK
<1>4. JobsEnd' BY <1>2 DEF HrFollowInv, HrSearchInv, JobsEnd
<1>5. ASSUME HrCalm' PROVE CallbacksFresh' /\ GrantsHandled'
  <2>1. CallbacksFresh /\ GrantsHandled BY <1>5 DEF HrFollowInv, HrSearchInv, GrantsFollowed
  <2>2. CASE CheckActivation(g)
    <3>1. /\ activation'[g].org = directory[Applicant[g]]
          /\ \A f \in Grants \ {g} : activation'[f] = activation[f]
      BY <1>3, <2>2 DEF CheckActivation
    <3>2. UNCHANGED <<grantRow, binding>> BY <2>2 DEF CheckActivation
    <3>3. CallbacksFresh' BY <1>2, <2>1, <3>1 DEF CallbacksFresh
    <3>4. GrantsHandled' BY <1>2, <2>1, <3>2 DEF GrantsHandled, FitsRow, OrgBindingMatches, HandledBy
    <3> QED BY <3>3, <3>4
  <2>3. CASE RegisterGrant(g)
    <3>1. /\ activation'[g].pc = "over"
          /\ \A f \in Grants \ {g} : activation'[f] = activation[f]
      BY <1>3, <2>3 DEF RegisterGrant, ActivationRecord
    <3>2. UNCHANGED <<grantRow, binding>> BY <2>3 DEF RegisterGrant
    <3>3. CallbacksFresh' BY <1>2, <2>1, <3>1 DEF CallbacksFresh
    <3>4. GrantsHandled' BY <1>2, <2>1, <3>2 DEF GrantsHandled, FitsRow, OrgBindingMatches, HandledBy
    <3> QED BY <3>3, <3>4
  <2>4. CASE SaveGrant(g)
    <3> DEFINE p == activation[g].org
               b == [department |-> IF p = Missing THEN DefaultDepartment ELSE p.department,
                     manager |-> p.manager]
    <3>1. p = directory[Applicant[g]] BY <2>1, <2>4 DEF SaveGrant, CallbacksFresh
    <3>2. /\ activation'[g].pc # "checked"
          /\ \A f \in Grants \ {g} : activation'[f] = activation[f]
      BY <1>3, <2>4 DEF SaveGrant
    <3>3. CallbacksFresh' BY <1>2, <2>1, <3>2 DEF CallbacksFresh
    <3>4. CASE /\ Eligible(Applicant[g], p)
               /\ grantRow' = [grantRow EXCEPT ![g] = "Active"]
               /\ binding' = [binding EXCEPT ![g] = b]
      <4>1. p.status = "Active" BY <3>4 DEF Eligible
      <4>2. p # Missing BY <4>1 DEF Missing
      <4>3. /\ binding'[g].department = p.department /\ binding'[g].manager = p.manager
        BY <1>3, <3>4, <4>2
      <4>4. FitsRow(g)' BY <1>2, <3>1, <4>1, <4>3 DEF FitsRow, OrgBindingMatches
      <4>5. \A f \in Grants \ {g} : grantRow'[f] = grantRow[f] /\ binding'[f] = binding[f] BY <1>3, <3>4
      <4>6. ASSUME NEW f \in Grants \ {g}, grantRow'[f] = "Active", Applicant[f] \in viaEvent'
            PROVE  FitsRow(f)' \/ \E k \in HrJobs : HandledBy(k, f)'
        <5>1. FitsRow(f) \/ \E k \in HrJobs : HandledBy(k, f) BY <1>2, <2>1, <4>5, <4>6 DEF GrantsHandled
        <5>2. FitsRow(f) => FitsRow(f)' BY <1>2, <4>5 DEF FitsRow, OrgBindingMatches
        <5>3. \A k \in HrJobs : HandledBy(k, f) => HandledBy(k, f)' BY <1>2 DEF HandledBy
        <5> QED BY <5>1, <5>2, <5>3
      <4>7. GrantsHandled' BY <4>4, <4>6 DEF GrantsHandled
      <4> QED BY <3>3, <4>7
    <3>5. CASE UNCHANGED <<grantRow, binding>>
      <4>1. GrantsHandled' BY <1>2, <2>1, <3>5 DEF GrantsHandled, FitsRow, OrgBindingMatches, HandledBy
      <4> QED BY <3>3, <4>1
    <3> QED BY <2>4, <3>4, <3>5 DEF SaveGrant
  <2> QED BY <1>1, <2>2, <2>3, <2>4
<1> QED BY <1>4, <1>5 DEF GrantsOnward, GrantsFollowed

LEMMA GrantsGoOn ==
  ASSUME EligibilityRule.requireActive, HrFollowInv, HrNext
  PROVE  GrantsOnward
<1>1. HrCalm' => HrCalm /\ lifecycleFaults' = lifecycleFaults BY CalmBackHr DEF HrFollowInv, HrSearchInv
<1>2. JobsEnd /\ GrantsFollowed BY DEF HrFollowInv, HrSearchInv
<1>3. ASSUME NEW h \in HrJobs, ReadingCall(h) PROVE GrantsOnward
  BY <1>1, <1>2, <1>3, ReadingFrame, OnwardStill
<1>4. ASSUME NEW h \in HrJobs, NEW e \in hrJob[h].items, UpsertEntry(h, e) \/ UpsertSnapshotUser(h, e)
      PROVE  GrantsOnward
  <2>1. hrJob[h].pc # "idle" /\ e.user \in Employees
    BY <1>4, RecordsOf DEF UpsertEntry, UpsertSnapshotUser, NextItem, HrFollowInv, HrSearchInv, HrEvent
  <2>2. UNCHANGED <<binding, grantRow, activation, lifecycleJob>>
    BY <1>4 DEF UpsertEntry, UpsertSnapshotUser
  <2>3. \/ \E p : directory' = [directory EXCEPT ![e.user] = p] /\ viaEvent' = viaEvent \ {e.user}
        \/ HrFails(h) /\ directory' = directory
    BY <1>4 DEF UpsertEntry, UpsertSnapshotUser
  <2>4. HrFails(h) => ~HrCalm'
    <3>1. lifecycleFaults \in Nat BY DEF HrFollowInv, HrSearchInv, HrInv, GrantsInv, WorldOK
    <3> QED BY <3>1 DEF HrFails, LifecycleFault, HrCalm
  <2> QED BY <1>1, <2>1, <2>2, <2>3, <2>4, OnwardStored
<1>5. ASSUME NEW h \in HrJobs, NEW e \in hrJob[h].now, UpsertOrgUser(h, e)
      PROVE  GrantsOnward
  BY <1>1, <1>5, OnwardUpserted
<1>6. ASSUME NEW h \in HrJobs, ApplyHrLifecycle(h) PROVE GrantsOnward
  <2>1. JobStep(h) /\ viaEvent' = viaEvent BY <1>6 DEF ApplyHrLifecycle
  <2> QED BY <1>1, <2>1, OnwardJob
<1>7. CASE HrEnvironment BY <1>1, <1>7, OnwardCallback
<1>8. CASE \/ \E news \in HrNews : EventOccurs(news)
           \/ \E u \in Employees, p \in HrProfiles : EntryChanges(u, p)
  <2>1. UNCHANGED <<directory, binding, grantRow, activation, lifecycleJob, viaEvent>>
    BY <1>8 DEF EventOccurs, EntryChanges, grantVars
  <2> QED BY <1>1, <1>2, <2>1, OnwardStill
<1>9. ASSUME NEW h \in HrJobs, WritingCall(h) PROVE GrantsOnward BY <1>4, <1>5, <1>6, <1>9 DEF WritingCall
<1> QED BY <1>3, <1>7, <1>8, <1>9, StepsOfHr

----
(* Synchronisation with HR: calls and the search of LDAP. *)

CallsOnward == CallsPlain' /\ LdapFollowed'

LEMMA CallMoved ==
  ASSUME HrInv, NEW h \in HrJobs, NEW r, hrJob' = [hrJob EXCEPT ![h] = r]
  PROVE  hrJob'[h] = r /\ \A k \in HrJobs \ {h} : hrJob'[k] = hrJob[k]
  BY DEF HrInv, HrJobsOK

LEMMA PlainKept ==
  ASSUME HrSearchInv, NEW h \in HrJobs, NEW r, hrJob' = [hrJob EXCEPT ![h] = r], CallPlain(r)
  PROVE  CallsPlain'
<1>1. hrJob'[h] = r /\ \A k \in HrJobs \ {h} : hrJob'[k] = hrJob[k] BY CallMoved DEF HrSearchInv
<1> QED BY <1>1 DEF HrSearchInv, CallsPlain

\* One call moves, no entry changes, and who is yet to be stored stays so.
LEMMA LdapKept ==
  ASSUME HrSearchInv, HrCalm' => HrCalm, hrProvider = "ldap", NEW h \in HrJobs, NEW r,
         hrJob' = [hrJob EXCEPT ![h] = r],
         UNCHANGED <<hrProvider, feed, entries, unread>>, metGone \subseteq metGone',
         InReach(hrCursor'.event, entries, unread),
         InReach(hrCursor'.snapshot, entries, unread),
         CallReaches(r, entries, unread), CallTells(r, metGone'),
         HrCalm' => CallRead(r, entries, unread),
         HrCalm' =>
           \A u \in Employees :
             /\ Left(u) /\ u \notin metGone'
             /\ directory[u].status = "Departed" \/ \E e \in hrJob[h].items : e.user = u
             => directory'[u].status = "Departed" \/ \E e \in r.items : e.user = u
  PROVE  LdapFollowed'
<1>1. hrJob'[h] = r /\ \A k \in HrJobs \ {h} : hrJob'[k] = hrJob[k] BY CallMoved DEF HrSearchInv
<1>2. /\ feed = <<>> /\ unread \subseteq Employees
      /\ \A k \in HrJobs : CallReaches(hrJob[k], entries, unread) /\ CallTells(hrJob[k], metGone)
  BY DEF HrSearchInv, LdapFollowed
<1>3. \A k \in HrJobs \ {h} : CallTells(hrJob[k], metGone') BY <1>2 DEF CallTells
<1>4. \A k \in HrJobs : CallReaches(hrJob'[k], entries, unread) BY <1>1, <1>2
<1>5. \A k \in HrJobs : CallTells(hrJob'[k], metGone') BY <1>1, <1>3
<1>6. ASSUME HrCalm'
      PROVE  (\A k \in HrJobs : CallRead(hrJob'[k], entries, unread)) /\ LeaversFound'
  <2>1. (\A k \in HrJobs : CallRead(hrJob[k], entries, unread)) /\ LeaversFound
    BY <1>6 DEF HrSearchInv, LdapFollowed
  <2>2. \A k \in HrJobs : CallRead(hrJob'[k], entries, unread) BY <1>1, <1>6, <2>1
  <2>3. ASSUME NEW u \in Employees, Left(u)'
        PROVE  \/ directory'[u].status = "Departed"
               \/ \E k \in HrJobs : \E e \in hrJob'[k].items : e.user = u
    <3>1. Left(u) /\ u \notin metGone' BY <2>3 DEF Left
    <3>2. CASE directory[u].status = "Departed" \/ \E e \in hrJob[h].items : e.user = u
      BY <1>1, <1>6, <3>1, <3>2
    <3>3. CASE \E k \in HrJobs \ {h} : \E e \in hrJob[k].items : e.user = u BY <1>1, <3>3
    <3> QED BY <2>1, <3>1, <3>2, <3>3 DEF LeaversFound
  <2> QED BY <2>2, <2>3 DEF LeaversFound
<1> QED BY <1>2, <1>4, <1>5, <1>6 DEF LdapFollowed

LEMMA ZeroInReach ==
  ASSUME HrSearchInv, hrProvider = "ldap"
  PROVE  InReach(0, entries, unread)
<1>1. /\ entries \in [Employees -> [profile : OrgUser \cup {Missing}, stamp : 0..MaxHrEvents]]
      /\ unread \subseteq Employees
  BY DEF HrSearchInv, HrInv, FeedOK, LdapFollowed
<1> QED BY <1>1 DEF InReach

\* A call that ends: it has nothing left to take.
LEMMA EndedCallOnward ==
  ASSUME HrSearchInv, HrCalm' => HrCalm, NEW h \in HrJobs, hrJob' = [hrJob EXCEPT ![h] = IdleHr],
         UNCHANGED <<hrProvider, feed, entries, unread>>,
         \/ ~HrCalm' /\ metGone \subseteq metGone'
         \/ hrJob[h].items = {} /\ directory' = directory /\ metGone' = metGone,
         hrProvider = "ldap" => /\ InReach(hrCursor'.event, entries, unread)
                                /\ InReach(hrCursor'.snapshot, entries, unread)
  PROVE  CallsOnward
<1>1. /\ IdleHr.pc = "idle" /\ IdleHr.items = {} /\ IdleHr.now = {} /\ IdleHr.upto = 0
      /\ IdleHr.before.event = 0 /\ IdleHr.before.snapshot = 0
  BY DEF IdleHr
<1>2. CallPlain(IdleHr) BY <1>1 DEF CallPlain
<1>3. CallsPlain' BY <1>2, PlainKept
<1>4. ASSUME hrProvider = "ldap" PROVE LdapFollowed'
  <2>1. CallReaches(IdleHr, entries, unread) BY <1>1, <1>4, ZeroInReach DEF CallReaches
  <2>2. CallTells(IdleHr, metGone') BY <1>1 DEF CallTells
  <2>3. CallRead(IdleHr, entries, unread) BY <1>1 DEF CallRead
  <2> QED BY <1>4, <2>1, <2>2, <2>3, LdapKept
<1>5. hrProvider # "ldap" => LdapFollowed' BY DEF LdapFollowed
<1> QED BY <1>3, <1>4, <1>5 DEF CallsOnward

\* A statement fails, whatever the call has done before.
LEMMA FailedCallOnward ==
  ASSUME HrSearchInv, HrCalm' => HrCalm, NEW h \in HrJobs, HrFails(h),
         UNCHANGED <<hrProvider, feed, entries, unread, hrCursor, metGone>>
  PROVE  CallsOnward
<1>1. ~HrCalm'
  <2>1. lifecycleFaults \in Nat BY DEF HrSearchInv, HrInv, GrantsInv, WorldOK
  <2> QED BY <2>1 DEF HrFails, LifecycleFault, HrCalm
<1>2. hrProvider = "ldap" => /\ InReach(hrCursor'.event, entries, unread)
                             /\ InReach(hrCursor'.snapshot, entries, unread)
  BY DEF HrSearchInv, LdapFollowed
<1> QED BY <1>1, <1>2, EndedCallOnward DEF HrFails

LEMMA FetchFailsOnward ==
  ASSUME HrSearchInv, HrCalm' => HrCalm, NEW h \in HrJobs, FetchFails(h)
  PROVE  CallsOnward
<1>1. /\ hrJob[h].pc = "fetch" /\ hrJob' = [hrJob EXCEPT ![h] = IdleHr]
      /\ UNCHANGED <<directory, hrProvider, feed, entries, unread, hrCursor, metGone>>
  BY DEF FetchFails, grantVars
<1>2. hrJob[h].items = {} BY <1>1 DEF HrSearchInv, CallsPlain, CallPlain
<1>3. hrProvider = "ldap" => /\ InReach(hrCursor'.event, entries, unread)
                             /\ InReach(hrCursor'.snapshot, entries, unread)
  BY <1>1 DEF HrSearchInv, LdapFollowed
<1> QED BY <1>1, <1>2, <1>3, EndedCallOnward

LEMMA SavedCallOnward ==
  ASSUME HrSearchInv, HrCalm' => HrCalm, NEW h \in HrJobs, SaveCheckpoint(h)
  PROVE  CallsOnward
<1>1. /\ hrJob[h].items = {} /\ hrJob' = [hrJob EXCEPT ![h] = IdleHr]
      /\ UNCHANGED <<directory, hrProvider, feed, entries, unread, metGone>>
      /\ hrCursor' = hrCursor \/ hrCursor' = CheckpointAfter(h)
  BY DEF SaveCheckpoint
<1>2. ASSUME hrProvider = "ldap"
      PROVE  /\ InReach(hrCursor'.event, entries, unread)
             /\ InReach(hrCursor'.snapshot, entries, unread)
  <2>1. /\ InReach(hrCursor.event, entries, unread) /\ InReach(hrCursor.snapshot, entries, unread)
        /\ CallReaches(hrJob[h], entries, unread)
    BY <1>2 DEF HrSearchInv, LdapFollowed
  <2> DEFINE b == hrJob[h].before
             upto == hrJob[h].upto
  <2>2. /\ b \in [event : Nat, snapshot : Nat] /\ InReach(b.event, entries, unread)
        /\ InReach(b.snapshot, entries, unread) /\ InReach(upto, entries, unread)
    BY <2>1, RecordsOf DEF HrSearchInv, CallReaches
  <2>3. \/ CheckpointAfter(h) = [b EXCEPT !.snapshot = upto]
        \/ CheckpointAfter(h) = hrCursor
        \/ CheckpointAfter(h) = [b EXCEPT !.event = upto]
    BY DEF CheckpointAfter
  <2> HIDE DEF b, upto
  <2>4. /\ [b EXCEPT !.snapshot = upto].event = b.event
        /\ [b EXCEPT !.snapshot = upto].snapshot = upto
        /\ [b EXCEPT !.event = upto].event = upto
        /\ [b EXCEPT !.event = upto].snapshot = b.snapshot
    BY <2>2
  <2>5. /\ InReach(CheckpointAfter(h).event, entries, unread)
        /\ InReach(CheckpointAfter(h).snapshot, entries, unread)
    BY <2>1, <2>2, <2>3, <2>4
  <2> QED BY <1>1, <2>1, <2>5
<1> QED BY <1>1, <1>2, EndedCallOnward

LEMMA BegunCallOnward ==
  ASSUME HrSearchInv, HrCalm' => HrCalm, NEW h \in HrJobs,
         NEW op, NEW pc, NEW items, HrCall(h, op, pc, items),
         \/ pc = "fetch" /\ items = {}
         \/ pc = "load" /\ DOMAIN feed # {}
  PROVE  CallsOnward
<1> DEFINE new == Max({0} \cup {e.id : e \in items})
           r == [IdleHr EXCEPT !.pc = pc, !.op = op, !.before = hrCursor, !.items = items,
                               !.upto = new]
<1>1. /\ hrJob' = [hrJob EXCEPT ![h] = r] /\ hrJob[h].pc = "idle"
      /\ UNCHANGED <<directory, hrProvider, feed, entries, hrCursor, unread, metGone>>
  BY DEF HrCall, grantVars
<1>2. items = {} => new = 0
  <2>1. ASSUME items = {} PROVE {0} \cup {e.id : e \in items} = {0} BY <2>1
  <2>2. Max({0}) \in {0} BY MaxOfBounded
  <2> QED BY <2>1, <2>2
<1> HIDE DEF new
<1>3. r.pc = pc /\ r.before = hrCursor /\ r.items = items /\ r.now = {} /\ r.upto = new BY DEF IdleHr
<1> HIDE DEF r
<1>4. CallPlain(r) BY <1>3 DEF CallPlain
<1>5. CallsPlain' BY <1>1, <1>4, PlainKept
<1>6. ASSUME hrProvider = "ldap" PROVE LdapFollowed'
  <2>1. feed = <<>> /\ InReach(hrCursor.event, entries, unread)
        /\ InReach(hrCursor.snapshot, entries, unread)
    BY <1>6 DEF HrSearchInv, LdapFollowed
  <2>2. pc = "fetch" /\ items = {} /\ hrJob[h].items = {}
    BY <1>1, <2>1 DEF HrSearchInv, CallsPlain, CallPlain
  <2>3. CallReaches(r, entries, unread) BY <1>2, <1>3, <1>6, <2>1, <2>2, ZeroInReach DEF CallReaches
  <2>4. CallTells(r, metGone') /\ CallRead(r, entries, unread) BY <1>3, <2>2 DEF CallTells, CallRead
  <2> QED BY <1>1, <1>6, <2>1, <2>2, <2>3, <2>4, LdapKept
<1>7. hrProvider # "ldap" => LdapFollowed' BY <1>1 DEF LdapFollowed
<1> QED BY <1>5, <1>6, <1>7 DEF CallsOnward

LEMMA LoadedCallOnward ==
  ASSUME HrSearchInv, HrCalm' => HrCalm, NEW h \in HrJobs, LoadOrgDirectory(h)
  PROVE  CallsOnward
<1> DEFINE r == [hrJob[h] EXCEPT !.pc = "item", !.copy = directory]
<1>1. /\ hrJob' = [hrJob EXCEPT ![h] = r]
      /\ UNCHANGED <<directory, hrProvider, feed, entries, hrCursor, unread, metGone>>
  BY DEF LoadOrgDirectory, grantVars
<1>2. hrJob[h] \in HrRecord BY RecordsOf DEF HrSearchInv
<1>3. /\ r.pc = "item" /\ r.before = hrJob[h].before /\ r.items = hrJob[h].items
      /\ r.now = hrJob[h].now /\ r.upto = hrJob[h].upto
  BY <1>2 DEF HrRecord
<1> HIDE DEF r
<1>4. CallPlain(r) BY <1>3 DEF CallPlain
<1>5. CallsPlain' BY <1>1, <1>4, PlainKept
<1>6. ASSUME hrProvider = "ldap" PROVE LdapFollowed'
  <2>1. /\ InReach(hrCursor.event, entries, unread) /\ InReach(hrCursor.snapshot, entries, unread)
        /\ CallReaches(hrJob[h], entries, unread)
        /\ HrCalm => CallRead(hrJob[h], entries, unread)
    BY <1>6 DEF HrSearchInv, LdapFollowed
  <2>2. CallReaches(r, entries, unread) /\ CallTells(r, metGone') BY <1>3, <2>1 DEF CallReaches, CallTells
  <2>3. HrCalm' => CallRead(r, entries, unread) BY <1>3, <2>1 DEF CallRead
  <2> QED BY <1>1, <1>3, <1>6, <2>1, <2>2, <2>3, LdapKept
<1>7. hrProvider # "ldap" => LdapFollowed' BY <1>1 DEF LdapFollowed
<1> QED BY <1>5, <1>6, <1>7 DEF CallsOnward

\* A page of a feed.
LEMMA FetchedCallOnward ==
  ASSUME HrSearchInv, NEW h \in HrJobs, NEW pc \in {"load", "item"}, NEW items, NEW upto,
         HrFetched(h, pc, items, upto), hrProvider \in Feeds
  PROVE  CallsOnward
<1> DEFINE r == [hrJob[h] EXCEPT !.pc = pc, !.items = items, !.upto = upto]
<1>1. hrJob' = [hrJob EXCEPT ![h] = r] /\ hrProvider' = hrProvider BY DEF HrFetched
<1>2. r.pc = pc BY RecordsOf DEF HrSearchInv, HrRecord
<1> HIDE DEF r
<1>3. CallsPlain' BY <1>1, <1>2, PlainKept DEF CallPlain
<1>4. LdapFollowed' BY <1>1 DEF LdapFollowed, Feeds
<1> QED BY <1>3, <1>4 DEF CallsOnward

\* A search finds every entry that changed after the last one.
LEMMA SearchOnward ==
  ASSUME HrSearchInv, HrCalm' => HrCalm, NEW h \in HrJobs, LdapSearch(h)
  PROVE  CallsOnward
<1> DEFINE before == hrJob[h].before
           watermark == IF hrJob[h].op = "snapshot" THEN 0
                        ELSE IF before.event # 0 THEN before.event
                        ELSE before.snapshot
           found == {u \in Employees : /\ entries[u].profile # Missing
                                       /\ ChangedSince(u, watermark)}
           old == IF hrJob[h].op = "snapshot" THEN before.snapshot ELSE watermark
           stamps == {entries[u].stamp : u \in found} \ {0}
           upto == IF stamps = {} THEN old ELSE Max(stamps)
           pc == IF hrJob[h].op = "snapshot" THEN "item" ELSE "load"
           items == {EntryOf(u) : u \in found}
           r == [hrJob[h] EXCEPT !.pc = pc, !.items = items, !.upto = upto]
<1>1. /\ hrProvider = "ldap" /\ hrJob[h].pc = "fetch" /\ hrJob' = [hrJob EXCEPT ![h] = r]
      /\ UNCHANGED <<directory, hrProvider, feed, entries, hrCursor, metGone>>
      /\ unread' = {}
  BY DEF LdapSearch, HrFetched, grantVars
<1>2. /\ entries \in [Employees -> [profile : OrgUser \cup {Missing}, stamp : 0..MaxHrEvents]]
      /\ feed = <<>> /\ unread \subseteq Employees /\ MaxHrEvents \in Nat
      /\ InReach(hrCursor.event, entries, unread) /\ InReach(hrCursor.snapshot, entries, unread)
      /\ \A k \in HrJobs : CallReaches(hrJob[k], entries, unread) /\ CallTells(hrJob[k], metGone)
  BY <1>1, HrAssumption DEF HrSearchInv, HrInv, FeedOK, LdapFollowed
<1>3. InReach(before.event, entries, unread) /\ InReach(before.snapshot, entries, unread)
  BY <1>2 DEF CallReaches
<1>4. /\ InReach(watermark, entries, unread) /\ InReach(old, entries, unread)
      /\ watermark \in Nat
  <2>1. InReach(0, entries, unread) BY <1>1, ZeroInReach
  <2>2. before.event \in Nat /\ before.snapshot \in Nat BY RecordsOf DEF HrSearchInv
  <2> HIDE DEF before
  <2> QED BY <1>3, <2>1, <2>2
<1>5. hrJob[h].now = {} /\ hrJob[h].items = {} /\ hrJob[h] \in HrRecord
  BY <1>1, RecordsOf DEF HrSearchInv, HrOK, CallsPlain, CallPlain
<1>6. /\ r.pc = pc /\ r.before = before /\ r.items = items /\ r.now = {} /\ r.upto = upto
  BY <1>5 DEF HrRecord
<1>7. r.pc \in {"load", "item"} BY <1>6
<1>8. stamps # {} => \E v \in Employees : upto <= entries[v].stamp
  <2> SUFFICES ASSUME stamps # {} PROVE \E v \in Employees : upto <= entries[v].stamp OBVIOUS
  <2>1. upto = Max(stamps) OBVIOUS
  <2>2. stamps \subseteq 0..MaxHrEvents BY <1>2
  <2> HIDE DEF stamps
  <2>3. upto \in stamps BY <1>2, <2>1, <2>2, MaxOfBounded
  <2> HIDE DEF upto
  <2> USE DEF stamps
  <2>4. PICK v \in found : upto = entries[v].stamp BY <2>3
  <2>5. v \in Employees /\ entries[v].stamp \in Nat BY <1>2
  <2> QED BY <2>4, <2>5
<1> DEFINE reaches == \A c : InReach(c, entries, unread) => InReach(c, entries, {})
<1>9. reaches BY DEF InReach
<1>10. InReach(upto, entries, {})
  <2>1. CASE stamps = {} BY <1>4, <1>9, <2>1
  <2>2. CASE stamps # {} BY <1>8, <2>2 DEF InReach
  <2> QED BY <2>1, <2>2
<1>11. CallReaches(r, entries, {})
  <2> HIDE DEF r, upto, before, stamps
  <2> QED BY <1>3, <1>6, <1>9, <1>10 DEF CallReaches
<1>12. \A k \in HrJobs : CallReaches(hrJob[k], entries, {}) BY <1>2, <1>9 DEF CallReaches
<1>13. \A e \in items : e.status = entries[e.user].profile.status
  <2> SUFFICES ASSUME NEW e \in items PROVE e.status = entries[e.user].profile.status OBVIOUS
  <2>1. PICK u \in found : e = EntryOf(u) OBVIOUS
  <2> HIDE DEF items, found
  <2> QED BY <2>1 DEF EntryOf
<1>14. ASSUME NEW u \in Employees, entries[u].profile.status = "Departed", u \in unread
       PROVE  u \in found
  <2>1. entries[u].profile # Missing BY <1>14 DEF Missing
  <2>2. watermark <= entries[u].stamp BY <1>4, <1>14 DEF InReach
  <2>3. ChangedSince(u, watermark) BY <1>2, <1>4, <2>2 DEF ChangedSince
  <2> QED BY <2>1, <2>3
<1>15. \A u \in found : \E e \in items : e.user = u
  <2> SUFFICES ASSUME NEW u \in found PROVE \E e \in items : e.user = u OBVIOUS
  <2>1. EntryOf(u) \in items OBVIOUS
  <2>2. EntryOf(u).user = u BY DEF EntryOf
  <2> HIDE DEF items, found
  <2> QED BY <2>1, <2>2
<1> HIDE DEF r, items, found, upto, stamps, old, watermark, before, pc
<1>16. CallPlain(r) /\ CallTells(r, metGone) /\ CallRead(r, entries, {})
  BY <1>6, <1>7, <1>13 DEF CallPlain, CallTells, CallRead
<1>17. CallsPlain' BY <1>1, <1>16, PlainKept
<1>18. hrJob'[h] = r /\ \A k \in HrJobs \ {h} : hrJob'[k] = hrJob[k] BY <1>1, CallMoved DEF HrSearchInv
<1>19. ASSUME HrCalm'
       PROVE  (\A k \in HrJobs : CallRead(hrJob'[k], entries, {})) /\ LeaversFound'
  <2>1. LeaversFound /\ ~hrOverlap BY <1>1, <1>19 DEF HrSearchInv, LdapFollowed, HrCalm
  <2>2. \A k \in HrJobs \ {h} : hrJob[k].pc = "idle" BY <1>1, <2>1, LoneCall DEF HrSearchInv
  <2>3. \A k \in HrJobs \ {h} : hrJob[k].items = {} /\ hrJob[k].now = {}
    BY <2>2, RecordsOf DEF HrSearchInv, CallsPlain, CallPlain, HrOK
  <2>4. \A k \in HrJobs : CallRead(hrJob'[k], entries, {}) BY <1>16, <1>18, <2>3 DEF CallRead
  <2>5. ASSUME NEW u \in Employees, Left(u)'
        PROVE  \/ directory'[u].status = "Departed"
               \/ \E k \in HrJobs : \E e \in hrJob'[k].items : e.user = u
    <3>1. entries[u].profile.status = "Departed" /\ u \notin metGone BY <1>1, <2>5 DEF Left
    <3>2. CASE u \in unread BY <1>6, <1>14, <1>15, <1>18, <3>1, <3>2
    <3>3. CASE u \notin unread
      <4>1. Left(u) BY <3>1, <3>3 DEF Left
      <4>2. directory[u].status = "Departed" BY <1>5, <2>1, <2>3, <4>1 DEF LeaversFound
      <4> QED BY <1>1, <4>2
    <3> QED BY <3>2, <3>3
  <2> QED BY <2>4, <2>5 DEF LeaversFound
<1>20. \A k \in HrJobs : CallReaches(hrJob'[k], entries, {}) /\ CallTells(hrJob'[k], metGone)
  BY <1>2, <1>11, <1>12, <1>16, <1>18
<1>21. InReach(hrCursor.event, entries, {}) /\ InReach(hrCursor.snapshot, entries, {}) BY <1>2, <1>9
<1>22. LdapFollowed' BY <1>1, <1>2, <1>19, <1>20, <1>21 DEF LdapFollowed
<1> QED BY <1>17, <1>22 DEF CallsOnward

\* An event of the feed is taken; LDAP has no feed.
LEMMA RecordedCallOnward ==
  ASSUME HrSearchInv, HrCalm' => HrCalm, NEW h \in HrJobs, NEW e \in hrJob[h].items,
         RecordEvent(h, e), hrJob[h].op \in {"poll", "webhook", "direct"}
  PROVE  CallsOnward
<1> DEFINE job == hrJob[h]
           p == ApplyEvent(job.copy[e.user], e)
           skip == [job EXCEPT !.items = @ \ {e}]
           take == [job EXCEPT !.pc = "upsert", !.items = @ \ {e}, !.now = {e},
                               !.copy[e.user] = ApplyEvent(@, e)]
           r == IF ~InsertIfNew(e) THEN skip ELSE IF p = Missing THEN IdleHr ELSE take
<1>1. /\ UNCHANGED <<hrProvider, feed, entries, unread, hrCursor, metGone>>
      /\ job.pc = "item"
  BY DEF RecordEvent, NextItem
<1>2. job \in HrRecord /\ e.user \in Employees /\ job.copy \in People /\ e.id \in DOMAIN feed
  BY RecordsOf DEF HrSearchInv, HrOK, HrEvent
<1>3. hrProvider # "ldap" BY <1>2 DEF HrSearchInv, LdapFollowed
<1>4. CASE HrFails(h) BY <1>1, <1>4, FailedCallOnward
<1>5. CASE hrJob' = [hrJob EXCEPT ![h] = r]
  <2>1. CallPlain(skip)
    <3>1. skip.pc = "item" BY <1>1, <1>2 DEF HrRecord
    <3> QED BY <3>1 DEF CallPlain
  <2>2. CallPlain(IdleHr) BY DEF IdleHr, CallPlain
  <2>3. CallPlain(take)
    <3>1. take.pc = "upsert" BY <1>2 DEF HrRecord
    <3> HIDE DEF take
    <3> QED BY <3>1 DEF CallPlain
  <2> HIDE DEF skip, take, p
  <2>4. CallPlain(r) BY <2>1, <2>2, <2>3
  <2> HIDE DEF r
  <2>5. CallsPlain' BY <1>5, <2>4, PlainKept
  <2> QED BY <1>1, <1>3, <2>5 DEF CallsOnward, LdapFollowed
<1> QED BY <1>4, <1>5 DEF RecordEvent

LEMMA ReadingOnward ==
  ASSUME HrSearchInv, HrCalm' => HrCalm, NEW h \in HrJobs, ReadingCall(h)
  PROVE  CallsOnward
<1>1. ASSUME NEW op, NEW pc, NEW items, HrCall(h, op, pc, items),
             \/ pc = "fetch" /\ items = {}
             \/ pc = "load" /\ DOMAIN feed # {}
      PROVE  CallsOnward
  BY <1>1, BegunCallOnward
<1>2. CASE FetchFails(h) BY <1>2, FetchFailsOnward
<1>3. CASE hrProvider \in Feeds /\ (FetchEvents(h) \/ FetchSnapshot(h))
  <2>1. \E pc \in {"load", "item"} : \E items, upto : HrFetched(h, pc, items, upto)
    BY <1>3 DEF FetchEvents, FetchSnapshot
  <2> QED BY <1>3, <2>1, FetchedCallOnward
<1>4. CASE LdapSearch(h) BY <1>4, SearchOnward
<1>5. CASE LoadOrgDirectory(h) BY <1>5, LoadedCallOnward
<1>6. ASSUME NEW e \in hrJob[h].items, RecordEvent(h, e), hrJob[h].op \in {"poll", "webhook", "direct"}
      PROVE  CallsOnward
  BY <1>6, RecordedCallOnward
<1>7. CASE SaveCheckpoint(h) BY <1>7, SavedCallOnward
<1> QED BY <1>1, <1>2, <1>3, <1>4, <1>5, <1>6, <1>7 DEF ReadingCall

\* The event of a difference tells a departure.
LEMMA DeltaTells ==
  ASSUME NEW old \in OrgUser \cup {Missing}, NEW e \in HrEvent,
         LdapDeltaEvent(old, e) # "none", old # Missing, e.status = "Departed"
  PROVE  ApplyEvent(old, [e EXCEPT !.kind = LdapDeltaEvent(old, e)]).status = "Departed"
<1> DEFINE kind == LdapDeltaEvent(old, e)
           f == [e EXCEPT !.kind = kind]
<1>1. f.kind = kind BY DEF HrEvent
<1>2. old \in OrgUser OBVIOUS
<1>3. /\ kind \in {"Departure", "Transfer", "ManagerChange"}
      /\ old.status # "Departed" => kind = "Departure"
  BY DEF LdapDeltaEvent
<1> HIDE DEF f, kind
<1>4. ApplyEvent(old, f).status = IF kind = "Departure" THEN "Departed" ELSE old.status
  BY <1>1, <1>2, <1>3 DEF ApplyEvent, OrgUser
<1> QED BY <1>3, <1>4 DEF f, kind

\* An item is stored as the entry has it, and the call has the others left.
LEMMA StoredCallOnward ==
  ASSUME HrSearchInv, HrCalm' => HrCalm, NEW h \in HrJobs, NEW e \in hrJob[h].items, NEW r,
         hrJob[h].pc = "item",
         hrJob' = [hrJob EXCEPT ![h] = r], directory' = [directory EXCEPT ![e.user] = ProfileOf(e)],
         UNCHANGED <<hrProvider, feed, entries, unread, hrCursor>>, metGone \subseteq metGone',
         r.items = hrJob[h].items \ {e}, r.now = {} \/ r.now = {e},
         r.before = hrJob[h].before, r.upto = hrJob[h].upto,
         r.pc \notin {"idle", "fetch"}, CallPlain(r), CallTells(r, metGone')
  PROVE  CallsOnward
<1>1. CallsPlain' BY PlainKept
<1>2. ASSUME hrProvider = "ldap" PROVE LdapFollowed'
  <2>1. /\ InReach(hrCursor.event, entries, unread) /\ InReach(hrCursor.snapshot, entries, unread)
        /\ CallReaches(hrJob[h], entries, unread)
        /\ HrCalm => CallRead(hrJob[h], entries, unread)
    BY <1>2 DEF HrSearchInv, LdapFollowed
  <2>2. CallReaches(r, entries, unread) BY <2>1 DEF CallReaches
  <2>3. HrCalm' => CallRead(r, entries, unread) BY <2>1 DEF CallRead
  <2>4. e.user \in Employees /\ directory \in People
    BY RecordsOf DEF HrSearchInv, HrInv, GrantsInv, WorldOK, HrEvent
  <2>5. ASSUME HrCalm', NEW u \in Employees, Left(u),
               directory[u].status = "Departed" \/ \E f \in hrJob[h].items : f.user = u
        PROVE  directory'[u].status = "Departed" \/ \E f \in r.items : f.user = u
    <3>1. CASE u = e.user
      <4>1. e.status = "Departed" BY <2>1, <2>5, <3>1 DEF CallRead, Left
      <4>2. directory'[u] = ProfileOf(e) BY <2>4, <3>1 DEF People
      <4> QED BY <4>1, <4>2 DEF ProfileOf
    <3>2. CASE u # e.user
      <4>1. directory'[u] = directory[u] BY <2>4, <3>2 DEF People
      <4> QED BY <2>5, <3>2, <4>1
    <3> QED BY <3>1, <3>2
  <2> QED BY <1>2, <2>1, <2>2, <2>3, <2>5, LdapKept
<1>3. hrProvider # "ldap" => LdapFollowed' BY DEF LdapFollowed
<1> QED BY <1>1, <1>2, <1>3 DEF CallsOnward

LEMMA UpsertEntryOnward ==
  ASSUME HrSearchInv, HrCalm' => HrCalm, NEW h \in HrJobs, NEW e \in hrJob[h].items,
         UpsertEntry(h, e)
  PROVE  CallsOnward
<1> DEFINE job == hrJob[h]
           kind == LdapDeltaEvent(job.copy[e.user], e)
           store == [job EXCEPT !.items = @ \ {e}, !.copy[e.user] = ProfileOf(e)]
           take == [job EXCEPT !.pc = "upsert", !.items = @ \ {e}, !.now = {e},
                               !.copy[e.user] = ApplyEvent(@, [e EXCEPT !.kind = kind])]
           r == IF kind = "none" THEN store ELSE take
<1>1. /\ UNCHANGED <<hrProvider, feed, entries, unread, hrCursor>>
      /\ job.pc = "item"
  BY DEF UpsertEntry, NextItem
<1>2. /\ job \in HrRecord /\ e \in HrEvent /\ e.user \in Employees /\ job.copy \in People
      /\ job.now = {}
  BY <1>1, RecordsOf DEF HrSearchInv, HrOK, HrEvent
<1>3. CASE HrFails(h) /\ UNCHANGED <<directory, viaEvent, metGone>> BY <1>1, <1>3, FailedCallOnward
<1>4. CASE /\ directory' = [directory EXCEPT ![e.user] = ProfileOf(e)]
           /\ hrJob' = [hrJob EXCEPT ![h] = r]
           /\ metGone' = IF job.copy[e.user] = Missing /\ e.status = "Departed"
                         THEN metGone \cup {e.user} ELSE metGone
  <2> DEFINE old == job.copy[e.user]
             p == ApplyEvent(old, [e EXCEPT !.kind = kind])
  <2>1. old \in OrgUser \cup {Missing} BY <1>2 DEF People
  <2>2. kind # "none"
          => ((old # Missing /\ e.status = "Departed") => p.status = "Departed")
    BY <1>2, <2>1, DeltaTells
  <2>3. /\ store.pc = "item" /\ store.items = job.items \ {e} /\ store.now = {}
        /\ store.before = job.before /\ store.upto = job.upto
    BY <1>1, <1>2 DEF HrRecord
  <2>4. /\ take.pc = "upsert" /\ take.items = job.items \ {e} /\ take.now = {e}
        /\ take.before = job.before /\ take.upto = job.upto /\ take.copy[e.user] = p
    BY <1>2 DEF HrRecord, People
  <2> HIDE DEF store, take, p, kind
  <2>5. CallPlain(store) /\ CallTells(store, metGone') BY <2>3 DEF CallPlain, CallTells
  <2>6. CallPlain(take) BY <2>4 DEF CallPlain
  <2>7. kind # "none" => CallTells(take, metGone')
    <3>1. (e.status = "Departed" /\ e.user \notin metGone') => old # Missing BY <1>4
    <3> QED BY <2>2, <2>4, <3>1 DEF CallTells
  <2>8. /\ r.items = job.items \ {e} /\ (r.now = {} \/ r.now = {e})
        /\ r.before = job.before /\ r.upto = job.upto /\ r.pc \notin {"idle", "fetch"}
        /\ CallPlain(r) /\ CallTells(r, metGone')
    BY <2>3, <2>4, <2>5, <2>6, <2>7
  <2>9. metGone \subseteq metGone' BY <1>4
  <2> HIDE DEF r
  <2> QED BY <1>1, <1>4, <2>8, <2>9, StoredCallOnward
<1> QED BY <1>3, <1>4 DEF UpsertEntry

LEMMA UpsertSnapshotOnward ==
  ASSUME HrSearchInv, HrCalm' => HrCalm, NEW h \in HrJobs, NEW e \in hrJob[h].items,
         UpsertSnapshotUser(h, e)
  PROVE  CallsOnward
<1> DEFINE r == [hrJob[h] EXCEPT !.items = @ \ {e}]
<1>1. /\ UNCHANGED <<hrProvider, feed, entries, unread, hrCursor, metGone>>
      /\ hrJob[h].pc = "item"
  BY DEF UpsertSnapshotUser, NextItem
<1>2. hrJob[h] \in HrRecord /\ hrJob[h].now = {} BY <1>1, RecordsOf DEF HrSearchInv, HrOK
<1>3. CASE HrFails(h) /\ UNCHANGED <<directory, viaEvent>> BY <1>1, <1>3, FailedCallOnward
<1>4. CASE /\ directory' = [directory EXCEPT ![e.user] = ProfileOf(e)]
           /\ hrJob' = [hrJob EXCEPT ![h].items = @ \ {e}]
  <2>1. hrJob' = [hrJob EXCEPT ![h] = r] BY <1>4 DEF HrSearchInv, HrInv, HrJobsOK
  <2>2. /\ r.items = hrJob[h].items \ {e} /\ r.now = {} /\ r.before = hrJob[h].before
        /\ r.upto = hrJob[h].upto /\ r.pc = "item"
    BY <1>1, <1>2 DEF HrRecord
  <2> HIDE DEF r
  <2>3. CallPlain(r) /\ CallTells(r, metGone') BY <2>2 DEF CallPlain, CallTells
  <2> QED BY <1>1, <1>4, <2>1, <2>2, <2>3, StoredCallOnward
<1> QED BY <1>3, <1>4 DEF UpsertSnapshotUser

LEMMA UpsertUserOnward ==
  ASSUME HrSearchInv, HrCalm' => HrCalm, NEW h \in HrJobs, NEW e \in hrJob[h].now,
         UpsertOrgUser(h, e)
  PROVE  CallsOnward
<1> DEFINE r == [hrJob[h] EXCEPT !.pc = "lifecycle"]
<1>1. /\ UNCHANGED <<hrProvider, feed, entries, unread, hrCursor, metGone>>
      /\ hrJob[h].pc = "upsert"
  BY DEF UpsertOrgUser
<1>2. /\ hrJob[h] \in HrRecord /\ e.user \in Employees /\ directory \in People
      /\ hrJob[h].copy \in People
  BY RecordsOf DEF HrSearchInv, HrInv, GrantsInv, WorldOK, HrEvent
<1>3. CASE HrFails(h) /\ UNCHANGED <<directory, lifecycleJob, viaEvent>> BY <1>1, <1>3, FailedCallOnward
<1>4. CASE /\ directory' = [directory EXCEPT ![e.user] = hrJob[h].copy[e.user]]
           /\ hrJob' = [hrJob EXCEPT ![h].pc = "lifecycle"]
  <2>1. hrJob' = [hrJob EXCEPT ![h] = r] BY <1>4 DEF HrSearchInv, HrInv, HrJobsOK
  <2>2. /\ r.items = hrJob[h].items /\ r.now = hrJob[h].now /\ r.before = hrJob[h].before
        /\ r.upto = hrJob[h].upto /\ r.pc = "lifecycle"
    BY <1>2 DEF HrRecord
  <2> HIDE DEF r
  <2>3. CallPlain(r) /\ CallTells(r, metGone') BY <2>2 DEF CallPlain, CallTells
  <2>4. CallsPlain' BY <2>1, <2>3, PlainKept
  <2>5. ASSUME hrProvider = "ldap" PROVE LdapFollowed'
    <3>1. /\ InReach(hrCursor.event, entries, unread) /\ InReach(hrCursor.snapshot, entries, unread)
          /\ CallReaches(hrJob[h], entries, unread) /\ CallTells(hrJob[h], metGone)
          /\ HrCalm => CallRead(hrJob[h], entries, unread)
      BY <2>5 DEF HrSearchInv, LdapFollowed
    <3>2. CallReaches(r, entries, unread) BY <2>2, <3>1 DEF CallReaches
    <3>3. HrCalm' => CallRead(r, entries, unread) BY <2>2, <3>1 DEF CallRead
    <3>4. ASSUME HrCalm', NEW u \in Employees, Left(u),
                 directory[u].status = "Departed" \/ \E f \in hrJob[h].items : f.user = u
          PROVE  directory'[u].status = "Departed" \/ \E f \in r.items : f.user = u
      <4>1. CASE u = e.user
        <5>1. e.status = "Departed" /\ e.user \notin metGone BY <3>1, <3>4, <4>1 DEF CallRead, Left
        <5>2. hrJob[h].copy[e.user].status = "Departed" BY <1>1, <3>1, <5>1 DEF CallTells
        <5>3. directory'[u] = hrJob[h].copy[e.user] BY <1>2, <1>4, <4>1 DEF People
        <5> QED BY <5>2, <5>3
      <4>2. CASE u # e.user
        <5>1. directory'[u] = directory[u] BY <1>2, <1>4, <4>2 DEF People
        <5> QED BY <2>2, <3>4, <5>1
      <4> QED BY <4>1, <4>2
    <3> QED BY <1>1, <2>1, <2>3, <2>5, <3>1, <3>2, <3>3, <3>4, LdapKept
  <2>6. hrProvider # "ldap" => LdapFollowed' BY <1>1 DEF LdapFollowed
  <2> QED BY <2>4, <2>5, <2>6 DEF CallsOnward
<1> QED BY <1>3, <1>4 DEF UpsertOrgUser

\* The job behind an event touches no row of the directory.
LEMMA LifecycleOnward ==
  ASSUME HrSearchInv, HrCalm' => HrCalm /\ lifecycleFaults' = lifecycleFaults,
         NEW h \in HrJobs, ApplyHrLifecycle(h)
  PROVE  CallsOnward
<1> DEFINE back == [hrJob[h] EXCEPT !.pc = "item", !.now = {}]
<1>1. /\ UNCHANGED <<hrProvider, feed, entries, unread, hrCursor, metGone>>
      /\ hrJob[h].pc = "lifecycle" /\ JobStep(h)
  BY DEF ApplyHrLifecycle
<1>2. directory' = directory
  BY <1>1 DEF JobStep, LoadLifecycleGrants, ApplyLifecycleTransition, UpdateGrantRow,
              SaveLifecycleEvent, EndJob
<1>3. hrJob[h] \in HrRecord BY RecordsOf DEF HrSearchInv
<1>4. CASE lifecycleFaults' # lifecycleFaults
  <2>1. hrJob' = [hrJob EXCEPT ![h] = IdleHr] /\ ~HrCalm' BY <1>4 DEF ApplyHrLifecycle
  <2>2. hrProvider = "ldap" => /\ InReach(hrCursor'.event, entries, unread)
                               /\ InReach(hrCursor'.snapshot, entries, unread)
    BY <1>1 DEF HrSearchInv, LdapFollowed
  <2> QED BY <1>1, <2>1, <2>2, EndedCallOnward
<1>5. ASSUME NEW r, hrJob' = [hrJob EXCEPT ![h] = r], r = back \/ r = hrJob[h]
      PROVE  CallsOnward
  <2>1. /\ back.items = hrJob[h].items /\ back.now = {} /\ back.before = hrJob[h].before
        /\ back.upto = hrJob[h].upto /\ back.pc = "item"
    BY <1>3 DEF HrRecord
  <2> HIDE DEF back
  <2>2. /\ r.items = hrJob[h].items /\ r.now \subseteq hrJob[h].now /\ r.before = hrJob[h].before
        /\ r.upto = hrJob[h].upto /\ r.pc \in {"item", "lifecycle"}
    BY <1>1, <1>5, <2>1
  <2>3. CallPlain(r) /\ CallTells(r, metGone') BY <2>2 DEF CallPlain, CallTells
  <2>4. CallsPlain' BY <1>5, <2>3, PlainKept
  <2>5. ASSUME hrProvider = "ldap" PROVE LdapFollowed'
    <3>1. /\ InReach(hrCursor.event, entries, unread) /\ InReach(hrCursor.snapshot, entries, unread)
          /\ CallReaches(hrJob[h], entries, unread)
          /\ HrCalm => CallRead(hrJob[h], entries, unread)
      BY <2>5 DEF HrSearchInv, LdapFollowed
    <3>2. CallReaches(r, entries, unread) BY <2>2, <3>1 DEF CallReaches
    <3>3. HrCalm' => CallRead(r, entries, unread) BY <2>2, <3>1 DEF CallRead
    <3> QED BY <1>1, <1>2, <1>5, <2>2, <2>3, <2>5, <3>1, <3>2, <3>3, LdapKept
  <2>6. hrProvider # "ldap" => LdapFollowed' BY <1>1 DEF LdapFollowed
  <2> QED BY <2>4, <2>5, <2>6 DEF CallsOnward
<1>6. CASE lifecycleFaults' = lifecycleFaults
  <2>1. \/ hrJob' = [hrJob EXCEPT ![h] = back]
        \/ hrJob' = [hrJob EXCEPT ![h] = hrJob[h]]
    BY <1>6 DEF ApplyHrLifecycle, HrSearchInv, HrInv, HrJobsOK
  <2> HIDE DEF back
  <2> QED BY <1>5, <2>1
<1> QED BY <1>4, <1>6

\* A change of an entry: its stamp is behind no other, and it is yet to be read.
LEMMA StampGrows ==
  ASSUME HrInv, NEW u \in Employees, NEW p \in HrProfiles, EntryChanges(u, p)
  PROVE  \E s \in 0..MaxHrEvents :
           /\ entries' = [entries EXCEPT ![u] = [profile |-> p, stamp |-> s]]
           /\ \A v \in Employees : entries[v].stamp <= s
<1>1. PICK s \in {Stamp, Stamp + 1} :
        s <= MaxHrEvents /\ entries' = [entries EXCEPT ![u] = [profile |-> p, stamp |-> s]]
  BY DEF EntryChanges
<1>2. /\ entries \in [Employees -> [profile : OrgUser \cup {Missing}, stamp : 0..MaxHrEvents]]
      /\ MaxHrEvents \in Nat
  BY HrAssumption DEF HrInv, FeedOK
<1> DEFINE stamps == {1} \cup {entries[v].stamp : v \in Employees}
<1>3. stamps \subseteq 0..MaxHrEvents + 1 /\ stamps # {} /\ MaxHrEvents + 1 \in Nat BY <1>2
<1>4. \A v \in Employees : entries[v].stamp \in stamps /\ entries[v].stamp \in Nat BY <1>2
<1> HIDE DEF stamps
<1>5. Max(stamps) \in stamps /\ \A m \in stamps : m <= Max(stamps) BY <1>3, MaxOfBounded
<1>6. Max(stamps) \in Nat
  <2>1. \A m \in stamps : m \in Nat BY <1>3
  <2> QED BY <1>5, <2>1
<1>7. Stamp = Max(stamps) BY DEF Stamp, stamps
<1>8. s \in 0..MaxHrEvents BY <1>1, <1>2, <1>6, <1>7
<1>9. \A v \in Employees : entries[v].stamp <= s BY <1>1, <1>4, <1>5, <1>6, <1>7
<1> QED BY <1>1, <1>8, <1>9

LEMMA ReachGrows ==
  ASSUME NEW table, NEW u \in Employees, NEW s \in Nat, NEW c \in Nat, NEW new, NEW fresh,
         \A v \in Employees : table[v].stamp \in Nat /\ table[v].stamp <= s,
         fresh \subseteq Employees,
         new[u].stamp = s, \A v \in Employees \ {u} : new[v] = table[v],
         InReach(c, table, fresh)
  PROVE  InReach(c, new, fresh \cup {u})
<1>1. c = 0 \/ \E v \in Employees : c <= table[v].stamp BY DEF InReach
<1>2. c <= s BY <1>1
<1>3. c = 0 \/ \E v \in Employees : c <= new[v].stamp BY <1>2
<1>4. \A v \in fresh \cup {u} : c <= new[v].stamp BY <1>2 DEF InReach
<1> QED BY <1>3, <1>4 DEF InReach

LEMMA EntryChangesOnward ==
  ASSUME HrSearchInv, HrCalm' => HrCalm, NEW u \in Employees, NEW p \in HrProfiles,
         EntryChanges(u, p)
  PROVE  CallsOnward
<1>1. /\ UNCHANGED <<directory, hrProvider, feed, hrJob, hrCursor, metGone>>
      /\ hrProvider = "ldap" /\ unread' = unread \cup {u}
  BY DEF EntryChanges, grantVars
<1>2. PICK s \in 0..MaxHrEvents :
        /\ entries' = [entries EXCEPT ![u] = [profile |-> p, stamp |-> s]]
        /\ \A v \in Employees : entries[v].stamp <= s
  BY StampGrows DEF HrSearchInv
<1>3. /\ entries \in [Employees -> [profile : OrgUser \cup {Missing}, stamp : 0..MaxHrEvents]]
      /\ MaxHrEvents \in Nat
  BY HrAssumption DEF HrSearchInv, HrInv, FeedOK
<1>4. /\ entries'[u].stamp = s /\ \A v \in Employees \ {u} : entries'[v] = entries[v]
      /\ s \in Nat /\ \A v \in Employees : entries[v].stamp \in Nat
  BY <1>2, <1>3
<1>5. /\ feed = <<>> /\ unread \subseteq Employees
      /\ InReach(hrCursor.event, entries, unread) /\ InReach(hrCursor.snapshot, entries, unread)
      /\ \A h \in HrJobs : CallReaches(hrJob[h], entries, unread) /\ CallTells(hrJob[h], metGone)
  BY <1>1 DEF HrSearchInv, LdapFollowed
<1>6. ASSUME NEW c \in Nat, InReach(c, entries, unread) PROVE InReach(c, entries', unread')
  BY <1>1, <1>2, <1>4, <1>5, <1>6, ReachGrows
<1>7. hrCursor.event \in Nat /\ hrCursor.snapshot \in Nat BY DEF HrSearchInv, HrInv, FeedOK
<1>8. InReach(hrCursor.event, entries', unread') /\ InReach(hrCursor.snapshot, entries', unread')
  BY <1>5, <1>6, <1>7
<1>9. ASSUME NEW h \in HrJobs PROVE CallReaches(hrJob[h], entries', unread')
  <2> DEFINE b == hrJob[h].before
             upto == hrJob[h].upto
  <2>1. b.event \in Nat /\ b.snapshot \in Nat /\ upto \in Nat BY RecordsOf DEF HrSearchInv, HrRecord
  <2>2. /\ InReach(b.event, entries, unread) /\ InReach(b.snapshot, entries, unread)
        /\ InReach(upto, entries, unread)
    BY <1>5 DEF CallReaches
  <2> HIDE DEF b, upto
  <2>3. /\ InReach(b.event, entries', unread') /\ InReach(b.snapshot, entries', unread')
        /\ InReach(upto, entries', unread')
    BY <1>6, <2>1, <2>2
  <2> QED BY <2>3 DEF CallReaches, b, upto
<1>10. CallsPlain' BY <1>1 DEF HrSearchInv, CallsPlain
<1>11. ASSUME HrCalm'
       PROVE  (\A h \in HrJobs : CallRead(hrJob[h], entries', unread')) /\ LeaversFound'
  <2>1. (\A h \in HrJobs : CallRead(hrJob[h], entries, unread)) /\ LeaversFound
    BY <1>1, <1>11 DEF HrSearchInv, LdapFollowed
  <2>2. ASSUME NEW h \in HrJobs PROVE CallRead(hrJob[h], entries', unread')
    <3>1. \A e \in hrJob[h].items \cup hrJob[h].now : e.user \in Employees
      BY RecordsOf DEF HrSearchInv, HrRecord, HrEvent
    <3> QED BY <1>1, <1>4, <2>1, <3>1 DEF CallRead
  <2>3. ASSUME NEW v \in Employees, Left(v)' PROVE v # u /\ Left(v)
    <3>1. v # u BY <1>1, <2>3 DEF Left
    <3> QED BY <1>1, <1>4, <2>3, <3>1 DEF Left
  <2> QED BY <1>1, <2>1, <2>2, <2>3 DEF LeaversFound
<1>12. unread' \subseteq Employees BY <1>1, <1>5
<1>13. LdapFollowed' BY <1>1, <1>5, <1>8, <1>9, <1>11, <1>12 DEF LdapFollowed
<1> QED BY <1>10, <1>13 DEF CallsOnward

\* Nothing of the calls or of the search moves.
LEMMA CallsStayed ==
  ASSUME HrSearchInv, HrCalm' => HrCalm,
         UNCHANGED <<directory, hrProvider, feed, entries, unread, hrCursor, hrJob, metGone>>
  PROVE  CallsOnward
<1>1. CallsPlain' BY DEF HrSearchInv, CallsPlain
<1>2. LeaversFound => LeaversFound' BY DEF LeaversFound, Left
<1>3. LdapFollowed' BY <1>2 DEF HrSearchInv, LdapFollowed
<1> QED BY <1>1, <1>3 DEF CallsOnward

LEMMA CallsGoOn ==
  ASSUME HrSearchInv, HrNext
  PROVE  CallsOnward
<1>1. HrCalm' => HrCalm /\ lifecycleFaults' = lifecycleFaults BY CalmBackHr DEF HrSearchInv
<1>2. ASSUME NEW h \in HrJobs, ReadingCall(h) PROVE CallsOnward BY <1>1, <1>2, ReadingOnward
<1>3. ASSUME NEW h \in HrJobs, WritingCall(h) PROVE CallsOnward
  BY <1>1, <1>3, UpsertEntryOnward, UpsertSnapshotOnward, UpsertUserOnward, LifecycleOnward
     DEF WritingCall
<1>4. ASSUME NEW news \in HrNews, EventOccurs(news) PROVE CallsOnward
  <2>1. hrProvider' # "ldap" /\ hrJob' = hrJob BY <1>4 DEF EventOccurs, Feeds
  <2> QED BY <2>1 DEF HrSearchInv, CallsOnward, CallsPlain, LdapFollowed
<1>5. ASSUME NEW u \in Employees, NEW p \in HrProfiles, EntryChanges(u, p) PROVE CallsOnward
  BY <1>1, <1>5, EntryChangesOnward
<1>6. CASE HrEnvironment
  <2>1. UNCHANGED <<hrProvider, feed, entries, unread, hrCursor, hrJob, metGone>>
    BY <1>6 DEF HrEnvironment
  <2>2. directory' = directory BY <1>6 DEF HrEnvironment, CheckActivation, SaveGrant, RegisterGrant
  <2> QED BY <1>1, <2>1, <2>2, CallsStayed
<1> QED BY <1>2, <1>3, <1>4, <1>5, <1>6, StepsOfHr

LEMMA HrSearchStep == HrSearchInv /\ [HrNext]_<<grantVars, hrVars>> => HrSearchInv'
<1> SUFFICES ASSUME HrSearchInv, [HrNext]_<<grantVars, hrVars>> PROVE HrSearchInv' OBVIOUS
<1>1. HrInv' BY HrInvStep DEF HrSearchInv
<1>2. CASE HrNext
  <2>1. CallsPlain' /\ LdapFollowed' BY <1>2, CallsGoOn DEF CallsOnward
  <2>2. HrAlone' BY <1>2 DEF HrNext, HrAlone
  <2> QED BY <1>1, <2>1, <2>2 DEF HrSearchInv
<1>3. CASE UNCHANGED <<grantVars, hrVars>>
  <2>1. UNCHANGED <<directory, activation, lifecycleFaults, hrProvider, feed, entries, unread,
                    hrCursor, hrJob, metGone, hrOverlap>>
    BY <1>3 DEF grantVars, hrVars
  <2>2. HrCalm' => HrCalm BY <2>1 DEF HrCalm
  <2>3. CallsPlain' /\ LdapFollowed' BY <2>1, <2>2, CallsStayed DEF CallsOnward
  <2>4. HrAlone' BY <2>1 DEF HrSearchInv, HrAlone, HrWriters
  <2> QED BY <1>1, <2>3, <2>4 DEF HrSearchInv
<1> QED BY <1>2, <1>3

LEMMA HrFollowStep ==
  ASSUME EligibilityRule.requireActive, HrFollowInv, [HrNext]_<<grantVars, hrVars>>
  PROVE  HrFollowInv'
<1>1. HrSearchInv' BY HrSearchStep DEF HrFollowInv
<1>2. CASE HrNext BY <1>1, <1>2, GrantsGoOn DEF HrFollowInv, GrantsOnward
<1>3. CASE UNCHANGED <<grantVars, hrVars>>
  <2>1. UNCHANGED <<directory, binding, grantRow, activation, lifecycleJob, lifecycleFaults,
                    viaEvent, hrOverlap>>
    BY <1>3 DEF grantVars, hrVars
  <2>2. JobsEnd' BY <2>1 DEF HrFollowInv, JobsEnd
  <2>3. CallbacksFresh' <=> CallbacksFresh BY <2>1 DEF CallbacksFresh
  <2>4. \A g \in Grants : /\ FitsRow(g)' <=> FitsRow(g)
                          /\ \A h \in HrJobs : HandledBy(h, g)' <=> HandledBy(h, g)
    BY <2>1 DEF FitsRow, HandledBy, OrgBindingMatches
  <2>5. GrantsHandled' <=> GrantsHandled BY <2>1, <2>4 DEF GrantsHandled
  <2>6. GrantsFollowed' BY <2>1, <2>3, <2>5 DEF HrFollowInv, GrantsFollowed, HrCalm
  <2> QED BY <1>1, <2>2, <2>6 DEF HrFollowInv
<1> QED BY <1>2, <1>3

\* At the start HR has told nothing and nobody is under way.
LEMMA HrQuietInit ==
  ASSUME HrBegins
  PROVE  /\ HrWriters = {} /\ viaEvent = {} /\ unread = {}
         /\ \A h \in HrJobs : /\ hrJob[h] = IdleHr
                              /\ lifecycleJob[h].pc = "idle"
                              /\ lifecycleJob[h].todo \cup lifecycleJob[h].now = {}
         /\ \A g \in Grants : activation[g].pc \notin {"checked", "saved"}
<1>1. PICK people \in People, given \in SUBSET Grants,
           projects \in [Projects -> {"none", "Created", "Active", "Frozen"}] :
        GrantsInit(people, given, projects)
  BY DEF HrBegins, People
<1>2. PICK provider \in Feeds \cup {"ldap"} : HrInit(provider) BY DEF HrBegins
<1>3. /\ \A j \in LifecycleJobs : /\ lifecycleJob[j].pc = "idle"
                                   /\ lifecycleJob[j].todo = {} /\ lifecycleJob[j].now = {}
      /\ \A g \in Grants : activation[g].pc \in {"none", "over"}
  BY <1>1, GrantsBegin
<1>4. /\ viaEvent = {} /\ unread = {}
      /\ \A h \in HrJobs : hrJob[h] = IdleHr
  BY <1>2 DEF HrInit
<1>5. IdleHr.pc = "idle" BY DEF IdleHr
<1>6. \A h \in HrJobs : /\ lifecycleJob[h].pc = "idle"
                        /\ lifecycleJob[h].todo \cup lifecycleJob[h].now = {}
  BY <1>3, HrJobsAreJobs
<1>7. HrWriters = {} BY <1>3, <1>4, <1>5 DEF HrWriters
<1> QED BY <1>3, <1>4, <1>6, <1>7

LEMMA HrSearchInit == HrBegins => HrSearchInv
<1> SUFFICES ASSUME HrBegins PROVE HrSearchInv OBVIOUS
<1>1. HrInv BY HrInvInit
<1>2. HrWriters = {} /\ unread = {} /\ \A h \in HrJobs : hrJob[h] = IdleHr BY HrQuietInit
<1>3. PICK provider \in Feeds \cup {"ldap"} : HrInit(provider) BY DEF HrBegins
<1>4. /\ feed = <<>> /\ hrCursor.event = 0 /\ hrCursor.snapshot = 0
      /\ \A u \in Employees : entries[u].profile = directory[u]
  BY <1>3 DEF HrInit
<1>5. /\ IdleHr.pc = "idle" /\ IdleHr.items = {} /\ IdleHr.now = {} /\ IdleHr.upto = 0
      /\ IdleHr.before.event = 0 /\ IdleHr.before.snapshot = 0
  BY DEF IdleHr
<1>6. HrAlone BY <1>2 DEF HrAlone
<1>7. CallsPlain BY <1>2, <1>5 DEF CallsPlain, CallPlain
<1>8. InReach(0, entries, unread)
  <2>1. entries \in [Employees -> [profile : OrgUser \cup {Missing}, stamp : 0..MaxHrEvents]]
    BY <1>1 DEF HrInv, FeedOK
  <2> QED BY <1>2, <2>1 DEF InReach
<1>9. \A h \in HrJobs : CallReaches(hrJob[h], entries, unread) /\ CallTells(hrJob[h], metGone)
                        /\ CallRead(hrJob[h], entries, unread)
  BY <1>2, <1>5, <1>8 DEF CallReaches, CallTells, CallRead
<1>10. LeaversFound BY <1>4 DEF LeaversFound, Left
<1>11. LdapFollowed BY <1>2, <1>4, <1>8, <1>9, <1>10 DEF LdapFollowed
<1> QED BY <1>1, <1>6, <1>7, <1>11 DEF HrSearchInv

LEMMA HrFollowInit == HrBegins => HrFollowInv
<1> SUFFICES ASSUME HrBegins PROVE HrFollowInv OBVIOUS
<1>1. HrSearchInv BY HrSearchInit
<1>2. /\ viaEvent = {}
      /\ \A h \in HrJobs : /\ lifecycleJob[h].pc = "idle"
                           /\ lifecycleJob[h].todo \cup lifecycleJob[h].now = {}
      /\ \A g \in Grants : activation[g].pc \notin {"checked", "saved"}
  BY HrQuietInit
<1>3. JobsEnd BY <1>2 DEF JobsEnd
<1>4. GrantsFollowed BY <1>2 DEF GrantsFollowed, CallbacksFresh, GrantsHandled
<1> QED BY <1>1, <1>3, <1>4 DEF HrFollowInv

\* At rest no call has an item, and no job a transition.
LEMMA SearchAgrees == HrSearchInv => DeparturesFound
<1> SUFFICES ASSUME HrSearchInv, hrProvider = "ldap", HrCalm, HrWriters = {},
                    NEW u \in Employees, entries[u].profile.status = "Departed",
                    u \notin unread \cup metGone
             PROVE  directory[u].status = "Departed"
  BY DEF DeparturesFound, HrCalm
<1>1. \A h \in HrJobs : hrJob[h].pc = "idle" BY DEF HrWriters
<1>2. \A h \in HrJobs : hrJob[h].items = {} BY <1>1 DEF HrSearchInv, CallsPlain, CallPlain
<1>3. LeaversFound BY DEF HrSearchInv, LdapFollowed
<1> QED BY <1>2, <1>3 DEF LeaversFound, Left

LEMMA FollowAgrees == HrFollowInv => GrantsFollowHr
<1> SUFFICES ASSUME HrFollowInv PROVE GrantsFollowHr OBVIOUS
<1>1. DeparturesFound BY SearchAgrees DEF HrFollowInv
<1>2. ASSUME HrCalm, HrWriters = {}, NEW g \in Grants, grantRow[g] = "Active",
             Applicant[g] \in viaEvent
      PROVE  FitsRow(g)
  <2>1. \A h \in HrJobs : hrJob[h].pc = "idle" BY <1>2 DEF HrWriters
  <2>2. \A h \in HrJobs : lifecycleJob[h].pc = "idle"
    BY <2>1 DEF HrFollowInv, HrSearchInv, HrInv, JobsMeet
  <2>3. \A h \in HrJobs : lifecycleJob[h].todo = {}
    BY <2>2, HrJobsAreJobs DEF HrFollowInv, HrSearchInv, HrInv, GrantsInv, JobsOK, JobOK
  <2>4. \A h \in HrJobs : ~HandledBy(h, g) BY <2>2, <2>3 DEF HandledBy
  <2> QED BY <1>2, <2>4 DEF HrFollowInv, GrantsFollowed, GrantsHandled
<1>3. GrantsFollowEvents BY <1>2 DEF GrantsFollowEvents, HrCalm, FitsRow
<1> QED BY <1>1, <1>3 DEF GrantsFollowHr

----
(* The theorems. *)

\* In every reachable state each table and each job is what GovernanceInv says;
\* the two theorems after it are read off it.
THEOREM InvHolds == GovernanceSpec => []GovernanceInv
<1>1. GovernanceInit => GovernanceInv BY InvInit
<1>2. GovernanceInv /\ [ProjectNext]_governanceVars => GovernanceInv' BY InvStep
<1> QED BY <1>1, <1>2, PTL DEF GovernanceSpec

\* What authorises queries is what is stored: in every reachable state, once
\* the handlers and jobs are done, memory and tables agree on every grant and
\* project (apply_lifecycle_transitions and the project handlers).
THEOREM RegistryMatchesTableHolds == GovernanceSpec => []RegistryMatchesTable
<1>1. GovernanceInv => RegistryMatchesTable BY InvAgrees
<1> QED BY <1>1, InvHolds, PTL

\* No step of a job, a request or an activation brings back a grant that was
\* revoked or has expired; only a restart reads memory's copy anew.
THEOREM EndedStaysEndedHolds == GovernanceSpec => EndedStaysEnded
<1> DEFINE Ended ==
      \A g \in Grants :
        /\ grantRow[g] \in {"Revoked", "Expired"} => grantRow'[g] = grantRow[g]
        /\ grantMem[g] \in {"Revoked", "Expired"}
             => \/ grantMem'[g] = grantMem[g]
                \/ governanceRestarts' # governanceRestarts
<1>1. GovernanceInv /\ [ProjectNext]_governanceVars => [Ended]_governanceVars
  <2> SUFFICES ASSUME GovernanceInv, ProjectNext PROVE Ended OBVIOUS
  <2> QED BY StepKeeps DEF GovernanceInv, EndedKept
<1>2. GovernanceSpec => [][Ended]_governanceVars BY <1>1, InvHolds, PTL DEF GovernanceSpec
<1> QED BY <1>2 DEF EndedStaysEnded

\* In every reachable state no cursor, saved or about to be saved, passes an
\* event that nobody took (hr_sync_checkpoints, hr_sync_events).
THEOREM HrInvHolds == HrSpec => []HrInv
<1>1. HrBegins => HrInv BY HrInvInit
<1>2. HrInv /\ [HrNext]_<<grantVars, hrVars>> => HrInv' BY HrInvStep
<1>3. HrSpec => HrBegins /\ [][HrNext]_<<grantVars, hrVars>> BY DEF HrSpec, HrBegins
<1> QED BY <1>1, <1>2, <1>3, PTL

\* Whatever calls fail, overlap and deliver again, every event is applied to
\* the directory at most once, and polling passes none over that is not
\* recorded (insert_hr_event_if_new, save_hr_provider_checkpoint).
THEOREM EventsAppliedOnceHolds == HrSpec => []EventsAppliedOnce
<1>1. HrInv => EventsAppliedOnce BY HrInvAgrees
<1> QED BY <1>1, HrInvHolds, PTL

\* Nor do the jobs behind HR events, or the callbacks beside them, bring back a
\* grant that was revoked or has expired.
THEOREM HrKeepsEnded == HrSpec => EndedStaysEnded
<1> DEFINE Ended ==
      \A g \in Grants :
        /\ grantRow[g] \in {"Revoked", "Expired"} => grantRow'[g] = grantRow[g]
        /\ grantMem[g] \in {"Revoked", "Expired"}
             => \/ grantMem'[g] = grantMem[g]
                \/ governanceRestarts' # governanceRestarts
<1>1. HrInv /\ [HrNext]_<<grantVars, hrVars>> => [Ended]_governanceVars BY HrInvStep DEF EndedKept
<1>2. HrSpec => [][HrNext]_<<grantVars, hrVars>> BY DEF HrSpec
<1>3. HrSpec => [][Ended]_governanceVars BY <1>1, <1>2, HrInvHolds, PTL
<1> QED BY <1>3 DEF EndedStaysEnded

\* While the calls of LDAP search, store and save side by side, or fail at any
\* statement: no watermark, whether saved, held by a call or about to be saved,
\* is later than the stamp of an entry that was not read since it changed, and
\* as long as no two writers met and nothing failed, whoever left is stored as
\* departed or still among the items of the one call under way
\* (run_ldap_directory_search, process_ldap_directory_delta).
THEOREM HrSearchInvHolds == HrSpec => []HrSearchInv
<1>1. HrSpec => HrBegins /\ [][HrNext]_<<grantVars, hrVars>> BY DEF HrSpec, HrBegins
<1>2. HrBegins => HrSearchInv BY HrSearchInit
<1>3. HrSearchInv /\ [HrNext]_<<grantVars, hrVars>> => HrSearchInv' BY HrSearchStep
<1> QED BY <1>1, <1>2, <1>3, PTL

\* DeparturesFound for every directory and every number of calls and changes:
\* at rest, when nothing overlapped or failed, the search by watermark has
\* stored the departure of everyone who left before it, unless the directory
\* met them first when they had gone (incremental_search_filter's >=).
THEOREM DeparturesFoundHolds == HrSpec => []DeparturesFound
<1>1. HrSearchInv => DeparturesFound BY SearchAgrees
<1> QED BY <1>1, HrSearchInvHolds, PTL

\* Where the rule requires an active HR record, which is its default
\* (require_active_hr_record), a grant that contradicts the row an event wrote
\* is always on the list of the grant job behind that event, and an approval
\* callback that is under way has checked the row that is stored.
THEOREM HrFollowInvHolds ==
  ASSUME EligibilityRule.requireActive
  PROVE  HrSpec => []HrFollowInv
<1>1. HrSpec => HrBegins /\ [][HrNext]_<<grantVars, hrVars>> BY DEF HrSpec, HrBegins
<1>2. HrBegins => HrFollowInv BY HrFollowInit
<1>3. HrFollowInv /\ [HrNext]_<<grantVars, hrVars>> => HrFollowInv' BY HrFollowStep
<1> QED BY <1>1, <1>2, <1>3, PTL

\* GrantsFollowHr for every directory, grant and event: what HR says reaches the
\* grants (apply_hr_lifecycle_for_user behind upsert_org_user, in each handler).
THEOREM GrantsFollowHrHolds ==
  ASSUME EligibilityRule.requireActive
  PROVE  HrSpec => []GrantsFollowHr
<1>1. HrFollowInv => GrantsFollowHr BY FollowAgrees
<1> QED BY <1>1, HrFollowInvHolds, PTL
=============================================================================
