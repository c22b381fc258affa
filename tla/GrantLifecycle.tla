--------------------------- MODULE GrantLifecycle ---------------------------
(***************************************************************************)
(* What happens to a permission grant after its approval: the rules of     *)
(* GrantLifecycleScheduler (crates/sdqp-permission-engine/src/lifecycle.rs)*)
(* and their runtime in apps/sdqp-api/src/stage7_governance.rs.            *)
(*                                                                         *)
(* A grant lives twice, in the registry in memory, which authorises        *)
(* queries, and in the table permission_grants, which the lifecycle jobs   *)
(* read.  A job loads the directory, then the grants, decides on all of    *)
(* them, and then applies the transitions one by one: memory, row, event.  *)
(***************************************************************************)
EXTENDS Integers, FiniteSets

CONSTANTS
  Grants,            \* grants that may ever exist
  Employees,         \* applicants
  Projects,
  Applicant,         \* Grants -> Employees
  ProjectOf,         \* Grants -> Projects
  Departments,
  DefaultDepartment,
  Managers,
  NoOne,             \* no manager, no department
  EligibilityRule,   \* the eligibility rule of the projects
  LifecycleJobs,     \* jobs that may be under way
  GovernanceJob,     \* the one of the governance loop
  Triggers,          \* audit signals that arrive
  MaxSignals,        \* bound: audit signals
  MaxWorldChanges,   \* bound: changes of directory, roles and time
  MaxLifecycleFaults \* bound: failed statements

ASSUME GrantAssumption ==
  /\ Applicant \in [Grants -> Employees]
  /\ ProjectOf \in [Grants -> Projects]
  /\ GovernanceJob \in LifecycleJobs
  /\ Triggers \subseteq {"AuditAnomaly", "AuditCleared",
                         "AuditConfirmedCompromise"}
  /\ DefaultDepartment \in Departments
  /\ NoOne \notin Departments \cup Managers
  /\ MaxSignals \in Nat /\ MaxWorldChanges \in Nat /\ MaxLifecycleFaults \in Nat

VARIABLES
  directory,     \* the table hr_directory_users
  roleHolders,   \* users whose account has a role the rule names
  binding,       \* the organisation a grant was given in
  grantMem,      \* status of a grant in the registry; "none" if not there
  grantRow,      \* status in permission_grants
  lapsed,        \* grants whose valid_until has passed
  activation,    \* approval callbacks that turn an approval into a grant
  lifecycleJob,
  projectMem,    \* state of a project in memory; "none" if not there
  signals,
  worldChanges,
  lifecycleFaults

grantVars == <<directory, roleHolders, binding, grantMem, grantRow, lapsed,
               activation, lifecycleJob, projectMem, signals,
               worldChanges, lifecycleFaults>>

Status == {"none", "Active", "Suspended", "Expired", "Revoked"}

ProjectStates == {"Created", "Active", "Frozen", "Archived", "Deleted"}

OrgUser == [status : {"Active", "Departed"}, department : Departments,
            manager : Managers \cup {NoOne}]

\* ApplicantRuntimeProfile::missing.
Missing == [status |-> "Missing", department |-> NoOne, manager |-> NoOne]

\* The organisation a grant is bound to.
Binding == [department : Departments \cup {NoOne}, manager : Managers \cup {NoOne}]

Transition == [grant : Grants, from : Status, to : Status]

IdleLifecycleJob == [pc |-> "idle", org |-> [u \in Employees |-> Missing],
            trigger |-> "SchedulerTick", whose |-> {}, todo |-> {}, now |-> {}]

GrantsTypeOK ==
  /\ directory \in [Employees -> OrgUser \cup {Missing}]
  /\ roleHolders \subseteq Employees
  /\ grantMem \in [Grants -> Status] /\ grantRow \in [Grants -> Status]
  /\ lapsed \subseteq Grants
  /\ \A g \in Grants : grantRow[g] # "none" => binding[g] \in Binding
  /\ \A g \in Grants : activation[g].pc \in {"none", "checked", "saved", "over"}
  /\ \A j \in LifecycleJobs :
       /\ lifecycleJob[j].pc \in {"idle", "load", "apply", "row", "event"}
       /\ lifecycleJob[j].todo \subseteq Transition
       /\ IF lifecycleJob[j].pc \in {"row", "event"}
          THEN \E t \in Transition : lifecycleJob[j].now = {t}
          ELSE lifecycleJob[j].now = {}
  /\ projectMem \in [Projects -> ProjectStates \cup {"none"}]

GrantsInit(people, given, projects) ==
  /\ directory = people
  /\ roleHolders = Employees
  /\ binding = [g \in Grants |->
                  IF g \in given THEN [department |-> people[Applicant[g]].department,
                                       manager |-> people[Applicant[g]].manager]
                  ELSE NoOne]
  /\ grantMem = [g \in Grants |-> IF g \in given THEN "Active" ELSE "none"]
  /\ grantRow = grantMem
  /\ lapsed = {}
  /\ activation = [g \in Grants |-> [pc |-> IF g \in given THEN "over" ELSE "none",
                                     org |-> Missing]]
  /\ lifecycleJob = [j \in LifecycleJobs |-> IdleLifecycleJob]
  /\ projectMem = projects
  /\ signals = 0
  /\ worldChanges = 0
  /\ lifecycleFaults = 0

LifecycleFault ==
  /\ lifecycleFaults < MaxLifecycleFaults
  /\ lifecycleFaults' = lifecycleFaults + 1

----
(* GrantLifecycleScheduler: decisions. *)

\* ApplicantEligibilityRule::evaluate.
Eligible(u, p) ==
  /\ EligibilityRule.requireActive => p.status = "Active"
  /\ \/ EligibilityRule.users = {} /\ EligibilityRule.departments = {} /\ ~EligibilityRule.roles
     \/ u \in EligibilityRule.users
     \/ p.department \in EligibilityRule.departments
     \/ EligibilityRule.roles /\ u \in roleHolders

OrgBindingMatches(g, p) ==
  p.department = binding[g].department /\ p.manager = binding[g].manager

Resumes(g, p) == OrgBindingMatches(g, p) /\ Eligible(Applicant[g], p)

\* HrSync and SchedulerTick.
AfterHrSync(g, p) ==
  IF p.status # "Active" \/ ~OrgBindingMatches(g, p) THEN "Revoked"
  ELSE IF ~Eligible(Applicant[g], p) /\ grantRow[g] = "Active" THEN "Suspended"
  ELSE grantRow[g]

\* evaluate_grant: the status a row of the table is to get.
EvaluateGrant(g, p, trigger) ==
  IF g \in lapsed THEN "Expired"
  ELSE CASE trigger \in {"AuditAnomaly", "ProjectFrozen"} -> "Suspended"
         [] trigger \in {"AuditConfirmedCompromise", "ProjectClosed"} -> "Revoked"
         [] trigger = "AuditCleared" /\ grantRow[g] = "Suspended"
              /\ ~OrgBindingMatches(g, p) -> "Revoked"
         [] trigger \in {"AuditCleared", "ProjectResumed"}
              /\ grantRow[g] = "Suspended" /\ Resumes(g, p) -> "Active"
         [] trigger \in {"HrSync", "SchedulerTick"} -> AfterHrSync(g, p)
         [] OTHER -> grantRow[g]

\* Mutant: a closed project is not looked at.
ProjectLifecycleTrigger_FrozenOnly(g) ==
  IF projectMem[ProjectOf[g]] = "Frozen" THEN "ProjectFrozen"
  ELSE "SchedulerTick"

\* project_lifecycle_trigger: the state of the project comes first.
ProjectLifecycleTrigger(g) ==
  CASE projectMem[ProjectOf[g]] = "Frozen" -> "ProjectFrozen"
    [] projectMem[ProjectOf[g]] \in {"Archived", "Deleted"} -> "ProjectClosed"
    [] OTHER -> "SchedulerTick"

----
(* Jobs. *)

StartJob(j, trigger, whose, org) ==
  /\ lifecycleJob[j].pc = "idle"
  /\ lifecycleJob' = [lifecycleJob EXCEPT ![j] =
                        [IdleLifecycleJob EXCEPT !.pc = "load", !.org = org,
                                        !.trigger = trigger, !.whose = whose]]

\* run_permission_lifecycle_scheduler, in the loop of run_governance_tick.
GovernanceTick ==
  /\ StartJob(GovernanceJob, "SchedulerTick", Employees, directory)
  /\ UNCHANGED <<directory, roleHolders, binding, grantMem, grantRow, lapsed,
                 activation, projectMem, signals,
                 worldChanges, lifecycleFaults>>

\* apply_audit_permission_signal_for_user, for the audit module or UEBA.
AuditSignal(j, u, trigger) ==
  /\ j # GovernanceJob
  /\ signals < MaxSignals
  /\ signals' = signals + 1
  /\ StartJob(j, trigger, {u}, directory)
  /\ UNCHANGED <<directory, roleHolders, binding, grantMem, grantRow, lapsed,
                 activation, projectMem, worldChanges, lifecycleFaults>>

\* load_lifecycle_grants, and the decision on each of them.
LoadLifecycleGrants(j) ==
  /\ lifecycleJob[j].pc = "load"
  /\ LET job == lifecycleJob[j]
         trigger(g) == IF j = GovernanceJob THEN ProjectLifecycleTrigger(g)
                       ELSE job.trigger
         next(g) == EvaluateGrant(g, job.org[Applicant[g]], trigger(g))
         found == {g \in Grants : /\ grantRow[g] \in {"Active", "Suspended"}
                                  /\ Applicant[g] \in job.whose}
     IN  lifecycleJob' = [lifecycleJob EXCEPT ![j] = [job EXCEPT
           !.pc = "apply", !.org = IdleLifecycleJob.org, !.whose = {},
           !.trigger = IdleLifecycleJob.trigger,
           !.todo = {[grant |-> g, from |-> grantRow[g], to |-> next(g)] :
                       g \in {h \in found : next(h) # grantRow[h]}}]]
  /\ UNCHANGED <<directory, roleHolders, binding, grantMem, grantRow, lapsed,
                 activation, projectMem, signals,
                 worldChanges, lifecycleFaults>>

\* PermissionRegistry::apply_lifecycle_transition.
ApplyLifecycleTransition(j, t) ==
  /\ lifecycleJob[j].pc = "apply" /\ t \in lifecycleJob[j].todo
  /\ grantMem' = [grantMem EXCEPT ![t.grant] = IF @ = t.from THEN t.to ELSE @]
  /\ lifecycleJob' = [lifecycleJob EXCEPT ![j] =
         [lifecycleJob[j] EXCEPT !.pc = "row", !.todo = @ \ {t}, !.now = {t}]]
  /\ UNCHANGED <<directory, roleHolders, binding, grantRow, lapsed, activation,
                 projectMem, signals, worldChanges, lifecycleFaults>>

\* Mutant: the row is updated whatever status it has meanwhile.
UpdateGrantRow_Unguarded(j) ==
  /\ lifecycleJob[j].pc = "row"
  /\ \A t \in lifecycleJob[j].now : grantRow' = [grantRow EXCEPT ![t.grant] = t.to]
  /\ lifecycleJob' = [lifecycleJob EXCEPT ![j].pc = "event"]
  /\ UNCHANGED <<directory, roleHolders, binding, grantMem, lapsed, activation,
                 projectMem, signals, worldChanges, lifecycleFaults>>

\* update_permission_grant_lifecycle_status; a failure ends the whole job.
UpdateGrantRow(j) ==
  /\ lifecycleJob[j].pc = "row"
  /\ \/ /\ \A t \in lifecycleJob[j].now :
             grantRow' = [grantRow EXCEPT ![t.grant] = IF @ = t.from THEN t.to
                                                       ELSE @]
        /\ lifecycleJob' = [lifecycleJob EXCEPT ![j].pc = "event"]
        /\ UNCHANGED lifecycleFaults
     \/ /\ LifecycleFault
        /\ lifecycleJob' = [lifecycleJob EXCEPT ![j] = IdleLifecycleJob]
        /\ UNCHANGED grantRow
  /\ UNCHANGED <<directory, roleHolders, binding, grantMem, lapsed, activation,
                 projectMem, signals, worldChanges>>

\* append_transition_audit and save_permission_lifecycle_event.  The events are
\* only written; one is stored whether or not the update found the row.
SaveLifecycleEvent(j) ==
  /\ lifecycleJob[j].pc = "event"
  /\ \/ /\ lifecycleJob' = [lifecycleJob EXCEPT ![j] =
                              [@ EXCEPT !.pc = "apply", !.now = {}]]
        /\ UNCHANGED lifecycleFaults
     \/ /\ LifecycleFault
        /\ lifecycleJob' = [lifecycleJob EXCEPT ![j] = IdleLifecycleJob]
  /\ UNCHANGED <<directory, roleHolders, binding, grantMem, grantRow, lapsed,
                 activation, projectMem, signals, worldChanges>>

EndJob(j) ==
  /\ lifecycleJob[j].pc = "apply" /\ lifecycleJob[j].todo = {}
  /\ lifecycleJob' = [lifecycleJob EXCEPT ![j] = IdleLifecycleJob]
  /\ UNCHANGED <<directory, roleHolders, binding, grantMem, grantRow, lapsed,
                 activation, projectMem, signals,
                 worldChanges, lifecycleFaults>>

JobStep(j) ==
  \/ LoadLifecycleGrants(j)
  \/ \E t \in lifecycleJob[j].todo : ApplyLifecycleTransition(j, t)
  \/ UpdateGrantRow(j)
  \/ SaveLifecycleEvent(j)
  \/ EndJob(j)

----
(* Activation: the end of an approval callback. *)

\* The project is there when the callback arrives, the directory is loaded and
\* the last step approved.
CheckActivation(g) ==
  /\ activation[g].pc = "none"
  /\ projectMem[ProjectOf[g]] \in {"Created", "Active", "Frozen"}
  /\ activation' = [activation EXCEPT ![g] =
                      [pc |-> "checked", org |-> directory[Applicant[g]]]]
  /\ UNCHANGED <<directory, roleHolders, binding, grantMem, grantRow, lapsed,
                 lifecycleJob, projectMem, signals,
                 worldChanges, lifecycleFaults>>

\* evaluate_activation, then the row.  An applicant the directory does not
\* know is bound to the default department.
SaveGrant(g) ==
  /\ activation[g].pc = "checked"
  /\ LET p == activation[g].org
     IN  \/ /\ Eligible(Applicant[g], p)
            /\ grantRow' = [grantRow EXCEPT ![g] = "Active"]
            /\ binding' = [binding EXCEPT ![g] =
                             [department |-> IF p = Missing THEN DefaultDepartment
                                             ELSE p.department,
                              manager |-> p.manager]]
            /\ activation' = [activation EXCEPT ![g] = [pc |-> "saved", org |-> Missing]]
            /\ UNCHANGED lifecycleFaults
         \/ /\ \/ ~Eligible(Applicant[g], p) /\ UNCHANGED lifecycleFaults
               \/ LifecycleFault
            /\ activation' = [activation EXCEPT ![g] = [pc |-> "over", org |-> Missing]]
            /\ UNCHANGED <<grantRow, binding>>
  /\ UNCHANGED <<directory, roleHolders, grantMem, lapsed, lifecycleJob,
                 projectMem, signals, worldChanges>>

\* activate_application_with_grant.
RegisterGrant(g) ==
  /\ activation[g].pc = "saved"
  /\ grantMem' = [grantMem EXCEPT ![g] = "Active"]
  /\ activation' = [activation EXCEPT ![g].pc = "over"]
  /\ UNCHANGED <<directory, roleHolders, binding, grantRow, lapsed,
                 lifecycleJob, projectMem, signals,
                 worldChanges, lifecycleFaults>>

\* The world: time passes, an account loses a role, the directory changes.
WorldChange ==
  /\ worldChanges < MaxWorldChanges
  /\ worldChanges' = worldChanges + 1
  /\ UNCHANGED <<binding, grantMem, grantRow, activation, lifecycleJob,
                 projectMem, signals, lifecycleFaults>>

Lapse(g) ==
  /\ g \notin lapsed /\ grantRow[g] \in {"Active", "Suspended"}
  /\ lapsed' = lapsed \cup {g}
  /\ WorldChange
  /\ UNCHANGED <<directory, roleHolders>>

LoseRole(u) ==
  /\ u \in roleHolders
  /\ roleHolders' = roleHolders \ {u}
  /\ WorldChange
  /\ UNCHANGED <<directory, lapsed>>

DirectoryChanges(u, p) ==
  /\ directory[u] # p
  /\ directory' = [directory EXCEPT ![u] = p]
  /\ WorldChange
  /\ UNCHANGED <<roleHolders, lapsed>>

LifecycleNext ==
  \/ GovernanceTick
  \/ \E j \in LifecycleJobs : \/ \E u \in Employees, t \in Triggers : AuditSignal(j, u, t)
                              \/ JobStep(j)
  \/ \E g \in Grants : \/ CheckActivation(g)
                       \/ SaveGrant(g)
                       \/ RegisterGrant(g)
                       \/ Lapse(g)
  \/ \E u \in Employees : \/ LoseRole(u)
                          \/ \E p \in OrgUser : DirectoryChanges(u, p)

\* The governance loop runs for ever, and a job that runs goes on.
LifecycleFairness ==
  /\ WF_grantVars(GovernanceTick)
  /\ \A j \in LifecycleJobs : WF_grantVars(JobStep(j))
  /\ \A g \in Grants : WF_grantVars(SaveGrant(g) \/ RegisterGrant(g))
=============================================================================
