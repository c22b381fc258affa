-------------------------- MODULE ProjectLifecycle --------------------------
(***************************************************************************)
(* Projects and what their state does to the grants in them: creation,     *)
(* change of state and deletion (apps/sdqp-api/src/lib.rs) over the        *)
(* lifecycle of crates/sdqp-tenant-isolation.  A handler changes memory    *)
(* first, purges the snapshots of a closed project, and then stores the    *)
(* project, the grants and the purge; each of these may fail and end it.   *)
(***************************************************************************)
EXTENDS GrantLifecycle

CONSTANTS
  Admins,              \* requests to change a project
  MaxProjectChanges,   \* bound: requests
  MaxGovernanceRestarts \* bound: restarts

ASSUME ProjectAssumption ==
  /\ Projects # {}
  /\ LifecycleJobs \cap Admins = {} /\ (LifecycleJobs \cup Admins) \cap Grants = {}
  /\ MaxProjectChanges \in Nat /\ MaxGovernanceRestarts \in Nat

VARIABLES
  projectRow,      \* the table projects
  stored,          \* projects with snapshots in memory
  storedRow,       \* projects with snapshots in the tables
  admin,           \* requests under way
  projectChanges,
  governanceRestarts,
  crossed          \* history: two writers of a grant's status were under way
                   \* together, or a project was activated over a suspension

projectVars == <<projectRow, stored, storedRow, admin, projectChanges,
                 governanceRestarts, crossed>>

governanceVars == <<grantVars, projectVars>>

IdleAdmin == [pc |-> "idle", project |-> CHOOSE p \in Projects : TRUE,
              from |-> "none", to |-> "none", purged |-> FALSE]

ProjectsTypeOK ==
  /\ projectRow \in [Projects -> ProjectStates \cup {"none"}]
  /\ stored \subseteq Projects /\ storedRow \subseteq Projects
  /\ \A a \in Admins :
       /\ admin[a].pc \in {"idle", "create", "grants", "purge", "project",
                           "rows", "suspendedRows", "snapshots"}
       /\ admin[a].project \in Projects
       /\ admin[a].pc # "idle" => admin[a].to \in ProjectStates
       /\ admin[a].pc \in {"purge", "snapshots"}
            => admin[a].to \in {"Archived", "Deleted"}

ProjectsInit ==
  /\ projectRow = projectMem
  /\ stored = {p \in Projects : projectMem[p] # "none"}
  /\ storedRow = stored
  /\ admin = [a \in Admins |-> IdleAdmin]
  /\ projectChanges = 0
  /\ governanceRestarts = 0
  /\ crossed = FALSE

\* Whoever is between reading a grant and storing its status.
Writers == {j \in LifecycleJobs : lifecycleJob[j].pc # "idle"}
             \cup {a \in Admins : admin[a].pc # "idle"}
             \cup {g \in Grants : activation[g].pc \in {"checked", "saved"}}

\* A request activates a project that was not frozen, over a suspended grant.
ResumesUnasked ==
  \E a \in Admins, g \in Grants :
    /\ admin[a].pc = "grants" /\ admin[a].to = "Active"
    /\ admin[a].from # "Frozen" /\ admin[a].project = ProjectOf[g]
    /\ grantRow[g] = "Suspended"

----

\* ProjectLifecycle::transition_to.
MayBecome(from, to) ==
  \/ from = to
  \/ <<from, to>> \in {<<"Created", "Active">>, <<"Active", "Frozen">>,
                       <<"Active", "Archived">>, <<"Frozen", "Active">>,
                       <<"Frozen", "Archived">>}
  \/ to = "Deleted"

BeginRequest(a, record) ==
  /\ admin[a].pc = "idle"
  /\ projectChanges < MaxProjectChanges
  /\ projectChanges' = projectChanges + 1
  /\ admin' = [admin EXCEPT ![a] = record]

\* project_create_handler: in memory at once, and taken back if not stored.
ProjectCreate(a, p, state) ==
  /\ projectMem[p] = "none" /\ state \in {"Created", "Active"}
  /\ BeginRequest(a, [IdleAdmin EXCEPT !.pc = "create", !.project = p, !.to = state])
  /\ projectMem' = [projectMem EXCEPT ![p] = state]
  /\ UNCHANGED <<directory, roleHolders, binding, grantMem, grantRow, lapsed,
                 activation, lifecycleJob, signals, worldChanges,
                 lifecycleFaults, projectRow, stored, storedRow,
                 governanceRestarts>>

SaveNewProject(a) ==
  /\ admin[a].pc = "create"
  /\ \/ /\ projectRow' = [projectRow EXCEPT ![admin[a].project] = admin[a].to]
        /\ UNCHANGED <<projectMem, lifecycleFaults>>
     \/ /\ LifecycleFault
        /\ projectMem' = [projectMem EXCEPT ![admin[a].project] = "none"]
        /\ UNCHANGED projectRow
  /\ admin' = [admin EXCEPT ![a] = IdleAdmin]
  /\ UNCHANGED <<directory, roleHolders, binding, grantMem, grantRow, lapsed,
                 activation, lifecycleJob, signals, worldChanges, stored,
                 storedRow, projectChanges, governanceRestarts>>

\* project_state_change_handler and project_delete_handler; a deleted project
\* is not found.
ChangeProjectState(a, p, to) ==
  /\ projectMem[p] \notin {"none", "Deleted"}
  /\ MayBecome(projectMem[p], to)
  /\ BeginRequest(a, [IdleAdmin EXCEPT !.pc = "grants", !.project = p,
                                !.from = projectMem[p], !.to = to])
  /\ projectMem' = [projectMem EXCEPT ![p] = to]
  /\ UNCHANGED <<directory, roleHolders, binding, grantMem, grantRow, lapsed,
                 activation, lifecycleJob, signals, worldChanges,
                 lifecycleFaults, projectRow, stored, storedRow,
                 governanceRestarts>>

\* One UPDATE of the grants of a project, in memory or in the table.
Regranted(statuses, p, from, to) ==
  [g \in Grants |->
     IF ProjectOf[g] = p /\ statuses[g] = from THEN to ELSE statuses[g]]

\* The states that revoke grants and purge snapshots.
Closing(a) == admin[a].to \in {"Archived", "Deleted"}

\* Mutant: the grants of a project that is active again stay suspended.
ChangedGrants_NoResume(request, statuses) ==
  LET p == request.project
  IN  CASE request.to \in {"Archived", "Deleted"} ->
             Regranted(Regranted(statuses, p, "Active", "Revoked"), p, "Suspended", "Revoked")
        [] request.to = "Frozen" -> Regranted(statuses, p, "Active", "Suspended")
        [] OTHER -> statuses

\* revoke, suspend and resume_grants_for_project.
ChangedGrants(request, statuses) ==
  LET p == request.project
  IN  CASE request.to \in {"Archived", "Deleted"} ->
             Regranted(Regranted(statuses, p, "Active", "Revoked"), p, "Suspended", "Revoked")
        [] request.to = "Frozen" -> Regranted(statuses, p, "Active", "Suspended")
        [] request.to = "Active" /\ request.from = "Frozen" ->
             Regranted(statuses, p, "Suspended", "Active")
        [] OTHER -> statuses

ChangeGrantsInMemory(a) ==
  /\ admin[a].pc = "grants"
  /\ grantMem' = ChangedGrants(admin[a], grantMem)
  /\ admin' = [admin EXCEPT ![a].pc = IF Closing(a) THEN "purge" ELSE "project"]
  /\ UNCHANGED <<directory, roleHolders, binding, grantRow, lapsed, activation,
                 lifecycleJob, projectMem, signals, worldChanges,
                 lifecycleFaults, projectRow, stored, storedRow,
                 projectChanges, governanceRestarts>>

\* purge_project_snapshots_and_cache: out of memory first; then the objects,
\* where a failure ends the request before anything is stored.
PurgeSnapshots(a) ==
  /\ admin[a].pc = "purge"
  /\ LET p == admin[a].project
     IN  /\ stored' = stored \ {p}
         /\ \/ /\ admin' = [admin EXCEPT ![a] =
                              [@ EXCEPT !.pc = "project", !.purged = p \in stored]]
               /\ UNCHANGED lifecycleFaults
            \/ /\ p \in stored
               /\ LifecycleFault
               /\ admin' = [admin EXCEPT ![a] = IdleAdmin]
  /\ UNCHANGED <<directory, roleHolders, binding, grantMem, grantRow, lapsed,
                 activation, lifecycleJob, projectMem, signals, worldChanges,
                 projectRow, storedRow, projectChanges, governanceRestarts>>

SaveProjectContext(a) ==
  /\ admin[a].pc = "project"
  /\ \/ /\ projectRow' = [projectRow EXCEPT ![admin[a].project] = admin[a].to]
        /\ admin' = [admin EXCEPT ![a].pc = "rows"]
        /\ UNCHANGED lifecycleFaults
     \/ /\ LifecycleFault
        /\ admin' = [admin EXCEPT ![a] = IdleAdmin]
        /\ UNCHANGED projectRow
  /\ UNCHANGED <<directory, roleHolders, binding, grantMem, grantRow, lapsed,
                 activation, lifecycleJob, projectMem, signals, worldChanges,
                 stored, storedRow, projectChanges, governanceRestarts>>

\* persist_project_grant_state: one update, two for a project that closes.
\* Active resumes what is suspended, whatever state the project came from.
PersistProjectGrantState(a) ==
  /\ admin[a].pc \in {"rows", "suspendedRows"}
  /\ LET p == admin[a].project
         after == IF admin[a].purged THEN [admin[a] EXCEPT !.pc = "snapshots"]
                  ELSE IdleAdmin
     IN  \/ /\ grantRow' =
                 CASE admin[a].pc = "suspendedRows" ->
                        Regranted(grantRow, p, "Suspended", "Revoked")
                   [] Closing(a) /\ admin[a].pc = "rows" ->
                        Regranted(grantRow, p, "Active", "Revoked")
                   [] admin[a].to = "Frozen" ->
                        Regranted(grantRow, p, "Active", "Suspended")
                   [] admin[a].to = "Active" ->
                        Regranted(grantRow, p, "Suspended", "Active")
                   [] OTHER -> grantRow
            /\ admin' = [admin EXCEPT ![a] =
                           IF Closing(a) /\ @.pc = "rows"
                           THEN [@ EXCEPT !.pc = "suspendedRows"] ELSE after]
            /\ UNCHANGED lifecycleFaults
         \/ /\ LifecycleFault
            /\ admin' = [admin EXCEPT ![a] = IdleAdmin]
            /\ UNCHANGED grantRow
  /\ UNCHANGED <<directory, roleHolders, binding, grantMem, lapsed, activation,
                 lifecycleJob, projectMem, signals, worldChanges, projectRow,
                 stored, storedRow, projectChanges, governanceRestarts>>

\* delete_snapshots_for_project.
DeleteSnapshotRows(a) ==
  /\ admin[a].pc = "snapshots"
  /\ \/ /\ storedRow' = storedRow \ {admin[a].project}
        /\ UNCHANGED lifecycleFaults
     \/ LifecycleFault /\ UNCHANGED storedRow
  /\ admin' = [admin EXCEPT ![a] = IdleAdmin]
  /\ UNCHANGED <<directory, roleHolders, binding, grantMem, grantRow, lapsed,
                 activation, lifecycleJob, projectMem, signals, worldChanges,
                 projectRow, stored, projectChanges, governanceRestarts>>

AdminStep(a) ==
  \/ SaveNewProject(a)
  \/ ChangeGrantsInMemory(a)
  \/ PurgeSnapshots(a)
  \/ SaveProjectContext(a)
  \/ PersistProjectGrantState(a)
  \/ DeleteSnapshotRows(a)

\* load_projects and load_permission_registry.
LoadGovernance ==
  /\ governanceRestarts < MaxGovernanceRestarts
  /\ governanceRestarts' = governanceRestarts + 1
  /\ projectMem' = projectRow
  /\ grantMem' = grantRow
  /\ stored' = storedRow
  /\ admin' = [a \in Admins |-> IdleAdmin]
  /\ lifecycleJob' = [j \in LifecycleJobs |-> IdleLifecycleJob]
  /\ activation' = [g \in Grants |-> IF activation[g].pc = "none" THEN activation[g]
                                     ELSE [activation[g] EXCEPT !.pc = "over"]]
  /\ UNCHANGED <<directory, roleHolders, binding, grantRow, lapsed,
                 signals, worldChanges, lifecycleFaults, projectRow, storedRow,
                 projectChanges>>

\* A lifecycle step in the presence of projects.
LifecycleStep ==
  /\ LifecycleNext
  /\ UNCHANGED <<projectRow, stored, storedRow, admin, projectChanges,
                 governanceRestarts>>

ProjectNext ==
  /\ \/ LifecycleStep
     \/ \E a \in Admins :
          \/ \E p \in Projects, s \in ProjectStates :
               ProjectCreate(a, p, s) \/ ChangeProjectState(a, p, s)
          \/ AdminStep(a)
     \/ LoadGovernance
  /\ crossed' = (crossed \/ (\E x, y \in Writers' : x # y) \/ ResumesUnasked')

GovernanceInit ==
  /\ \E people \in [Employees -> OrgUser \cup {Missing}], given \in SUBSET Grants,
        projects \in [Projects -> {"none", "Created", "Active", "Frozen"}] :
       GrantsInit(people, given, projects)
  /\ ProjectsInit

GovernanceSpec == GovernanceInit /\ [][ProjectNext]_governanceVars

ProjectFairness ==
  /\ LifecycleFairness
  /\ \A a \in Admins : WF_governanceVars(AdminStep(a) /\ ProjectNext)

----

\* A grant that was revoked or has expired does not come back: not in the
\* table, and not in memory before a restart, however jobs, requests and
\* activations that decided on an older status interleave.
EndedStaysEnded ==
  [][\A g \in Grants :
       /\ grantRow[g] \in {"Revoked", "Expired"} => grantRow'[g] = grantRow[g]
       /\ grantMem[g] \in {"Revoked", "Expired"}
            => \/ grantMem'[g] = grantMem[g]
               \/ governanceRestarts' # governanceRestarts]_governanceVars

\* What authorises queries is what is stored: at rest, memory and table agree
\* on every grant, as long as nobody decided on a grant while somebody else
\* was storing it, no statement failed, and no project with a suspended grant
\* was activated other than from Frozen.  A closed project has then no
\* snapshots either, unless a restart cut the request that closed it short.
MemoryAgrees ==
  (/\ ~crossed /\ lifecycleFaults = 0
   /\ \A j \in LifecycleJobs : lifecycleJob[j].pc = "idle"
   /\ \A a \in Admins : admin[a].pc = "idle"
   /\ \A g \in Grants : activation[g].pc \in {"none", "over"})
    => /\ \A g \in Grants : grantMem[g] = grantRow[g]
       /\ \A p \in Projects : /\ projectMem[p] = projectRow[p]
                              /\ projectMem[p] \in {"Archived", "Deleted"}
                                   => \/ p \notin stored \cup storedRow
                                      \/ governanceRestarts > 0

\* The governance loop repairs what a request left undone: in the table, the
\* grants of a closed project end, and an applicant who has left does not keep
\* an active one.
ClosedProjectHasNoGrants ==
  \A g \in Grants :
    LET closed == projectMem[ProjectOf[g]] \in {"Archived", "Deleted"}
        left == directory[Applicant[g]].status = "Departed"
    IN  /\ (closed /\ grantRow[g] # "none")
             ~> (~closed \/ grantRow[g] \in {"Revoked", "Expired"})
        /\ (left /\ grantRow[g] = "Active") ~> (~left \/ grantRow[g] # "Active")

\* The registry that authorises queries and the tables say the same of grants
\* and projects whenever nobody is in between (apply_lifecycle_transitions and
\* the project handlers).
RegistryMatchesTable == GrantsTypeOK /\ ProjectsTypeOK /\ MemoryAgrees
=============================================================================
