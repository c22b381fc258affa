-------------------------- MODULE ScimProvisioning --------------------------
(***************************************************************************)
(* SCIM provisioning of the user directory and of groups: the patch        *)
(* endpoints and the synchronisation with a provider                       *)
(* (apps/sdqp-api/src/lib.rs, crates/sdqp-system-security/src/auth/scim.rs *)
(* and apps/sdqp-api/src/persistence.rs).                                  *)
(*                                                                         *)
(* A request is a job: patches that are applied one after the other, each  *)
(* first in memory and then in the table.  A patch endpoint has a single   *)
(* one; a synchronisation reads the provider's users, then its groups,     *)
(* compares them with the memory of the API, and applies the difference,   *)
(* groups first.  The names and addresses of a user, the display name of a *)
(* group and the roles derived from groups are left out.                   *)
(***************************************************************************)
EXTENDS Sessions

CONSTANTS
  Groups,
  Jobs,              \* concurrent SCIM requests
  Policies,          \* lifecycle policies a synchronisation may ask for
  MaxJobs,           \* bound: requests
  MaxProviderSteps   \* bound: changes at the provider

Policy == [deleteUsers : BOOLEAN, disableUsers : BOOLEAN,
           deleteGroups : BOOLEAN, disableGroups : BOOLEAN]

ASSUME ScimAssumption ==
  /\ Policies \subseteq Policy
  /\ MaxJobs \in Nat /\ MaxProviderSteps \in Nat

VARIABLES
  groups,      \* scim_groups in memory
  groupRow,    \* identity_groups
  provider,    \* the provider's directory
  job,
  served,      \* requests so far
  late,        \* history: logins under way when their user was disabled
  cursors,     \* synchronisations whose cursor was set
  providerSteps

scimVars == <<groups, groupRow, provider, job, served, late, cursors,
             providerSteps>>

NoGroup == [active |-> FALSE, members |-> {"none"}]
Group == [active : BOOLEAN, members : SUBSET Users]
Gone == "gone"

\* What a provider, or a snapshot of it, holds.
Directory == [users : [Users -> {"active", "inactive", Gone}],
              groups : [Groups -> Group \cup {NoGroup}]]

GroupPatch ==
  [kind : {"group"}, op : {"Upsert"}, id : Groups, group : Group]
    \cup [kind : {"group"}, op : {"Patch"}, id : Groups, active : BOOLEAN]
    \cup [kind : {"group"}, op : {"PatchMembers"}, id : Groups,
          add : SUBSET Users, remove : SUBSET Users]
    \cup [kind : {"group"}, op : {"Disable", "Delete"}, id : Groups]

UserPatch ==
  [kind : {"user"}, op : {"Upsert", "Patch"}, id : Users, active : BOOLEAN]
    \cup [kind : {"user"}, op : {"Disable", "Delete"}, id : Users]

IdleJob == [pc |-> "idle", sync |-> FALSE, todo |-> {}, clean |-> TRUE,
            policy |-> [deleteUsers |-> FALSE, disableUsers |-> FALSE,
                        deleteGroups |-> FALSE, disableGroups |-> FALSE],
            users |-> [u \in Users |-> Gone],
            groups |-> [g \in Groups |-> NoGroup], write |-> <<>>]

ScimTypeOK ==
  /\ groups \in [Groups -> Group \cup {NoGroup}]
  /\ groupRow \in [Groups -> Group \cup {NoGroup}]
  /\ provider \in Directory
  /\ \A j \in Jobs : job[j].pc # "idle" =>
       /\ job[j].pc \in {"groups", "apply", "save"}
       /\ job[j].sync \in BOOLEAN
       /\ job[j].todo \subseteq GroupPatch \cup UserPatch
  /\ served \in 0..MaxJobs
  /\ providerSteps \in 0..MaxProviderSteps

ScimInit ==
  /\ groups = [g \in Groups |-> NoGroup]
  /\ groupRow = groups
  /\ provider = [users |-> [u \in Users |-> "active"],
                 groups |-> [g \in Groups |-> [active |-> TRUE,
                                               members |-> Users]]]
  /\ job = [j \in Jobs |-> IdleJob]
  /\ served = 0
  /\ late = {}
  /\ cursors = {}
  /\ providerSteps = 0

----
(* The plan of a synchronisation. *)

\* with_group_memberships: inactive groups count.
MembershipsOf(gs, u) == {g \in Groups : gs[g] # NoGroup /\ u \in gs[g].members}

\* scim_users_from_state: only accounts that SCIM manages are current users.
Managed(u) == Known(u) /\ users[u].source = "Scim"

SameUser(u, snapshot) ==
  /\ Managed(u)
  /\ users[u].active = (snapshot.users[u] = "active")
  /\ MembershipsOf(groups, u) = MembershipsOf(snapshot.groups, u)

GroupPatches(snapshot, policy) ==
  {[kind |-> "group", op |-> "Upsert", id |-> g, group |-> snapshot.groups[g]] :
     g \in {g \in Groups : /\ snapshot.groups[g] # NoGroup
                           /\ groups[g] # snapshot.groups[g]}}
  \cup
  {[kind |-> "group", id |-> g,
    op |-> IF policy.deleteGroups THEN "Delete" ELSE "Disable"] :
     g \in {g \in Groups :
              /\ groups[g] # NoGroup /\ snapshot.groups[g] = NoGroup
              /\ \/ policy.deleteGroups
                 \/ policy.disableGroups /\ groups[g].active}}

UserPatches(snapshot, policy) ==
  {[kind |-> "user", op |-> "Upsert", id |-> u,
    active |-> snapshot.users[u] = "active"] :
     u \in {u \in Users : snapshot.users[u] # Gone /\ ~SameUser(u, snapshot)}}
  \cup
  {[kind |-> "user", id |-> u,
    op |-> IF policy.deleteUsers THEN "Delete" ELSE "Disable"] :
     u \in {u \in Users :
              /\ Managed(u) /\ snapshot.users[u] = Gone
              /\ \/ policy.deleteUsers
                 \/ policy.disableUsers /\ users[u].active}}

BuildScimSyncPlan(snapshot, policy) ==
  GroupPatches(snapshot, policy) \cup UserPatches(snapshot, policy)

----
(* Requests. *)

Begin(j, record) ==
  /\ job[j].pc = "idle"
  /\ served < MaxJobs
  /\ served' = served + 1
  /\ job' = [job EXCEPT ![j] = record]

ScimPatch(j, patch) ==
  /\ Begin(j, [IdleJob EXCEPT !.pc = "apply", !.todo = {patch}])
  /\ UNCHANGED <<groups, groupRow, provider, late, cursors, providerSteps,
                 sessionVars, userVars, boundVars>>

\* pull_snapshot reads the pages of the users, then those of the groups.
PullUsers(j, policy) ==
  /\ Begin(j, [IdleJob EXCEPT !.pc = "groups", !.sync = TRUE,
                            !.policy = policy, !.users = provider.users])
  /\ UNCHANGED <<groups, groupRow, provider, late, cursors, providerSteps,
                 sessionVars, userVars, boundVars>>

PullGroups(j) ==
  LET snapshot == [users |-> job[j].users, groups |-> provider.groups]
  IN  /\ job[j].pc = "groups"
      /\ job' = [job EXCEPT ![j] =
                   [@ EXCEPT !.pc = "apply", !.clean = TRUE,
                      !.groups = provider.groups,
                      !.todo = BuildScimSyncPlan(snapshot, job[j].policy)]]
      /\ UNCHANGED <<groups, groupRow, provider, served, late, cursors,
                     providerSteps, sessionVars, userVars, boundVars>>

PullFails(j) ==
  /\ job[j].pc = "groups"
  /\ job' = [job EXCEPT ![j] = IdleJob]
  /\ UNCHANGED <<groups, groupRow, provider, served, late, cursors, providerSteps,
                 sessionVars, userVars, boundVars>>

\* The job of j goes on with `record`; a job under way sees its changes.
Continue(j, record) ==
  job' = [k \in Jobs |->
            IF k = j THEN record
            ELSE [job[k] EXCEPT !.clean = job[k].pc = "idle"]]

Saving(j, patch, copy) ==
  [job[j] EXCEPT !.pc = "save", !.todo = @ \ {patch},
                 !.write = <<patch, copy>>]

\* The group an operation leaves, or NoGroup.
PatchedGroup(p) ==
  CASE p.op = "Upsert"       -> p.group
    [] p.op = "Patch"        -> [groups[p.id] EXCEPT !.active = p.active]
    [] p.op = "PatchMembers" -> [groups[p.id] EXCEPT
                                   !.members = (@ \cup p.add) \ p.remove]
    [] p.op = "Disable"      -> [groups[p.id] EXCEPT !.active = FALSE]
    [] p.op = "Delete"       -> NoGroup

ApplyGroupPatch(j, p) ==
  /\ job[j].pc = "apply" /\ p \in job[j].todo /\ p.kind = "group"
  /\ IF groups[p.id] = NoGroup /\ p.op # "Upsert"
     THEN job' = [job EXCEPT ![j] = IdleJob] /\ UNCHANGED groups
     ELSE /\ groups' = [groups EXCEPT ![p.id] = PatchedGroup(p)]
          /\ Continue(j, Saving(j, p, groups'[p.id]))
  /\ UNCHANGED <<groupRow, provider, served, late, cursors, providerSteps,
                 sessionVars, userVars, boundVars>>

\* The account an operation leaves: an upsert makes it a SCIM account.
PatchedUser(p) ==
  CASE p.op = "Upsert"  -> [active |-> p.active, source |-> "Scim"]
    [] p.op = "Patch"   -> [users[p.id] EXCEPT !.active = p.active]
    [] p.op = "Disable" -> [users[p.id] EXCEPT !.active = FALSE]
    [] p.op = "Delete"  -> Absent

Enabled(u) == Known(u) /\ users[u].active

\* Logins of u that are under way, when the account of u ends.
LateLogins(u) ==
  IF Enabled(u)' THEN late
  ELSE late \cup {l \in Logins :
                    /\ Owner[l] = u
                    /\ \/ login[l] = "saving" \/ l \in pending
                       \/ \E v \in Verifies : verify[v].login = l
                                             /\ verify[v].pc = "removed"}

\* Mutant: a disabled account keeps its sessions.
ApplyUserPatch_KeepSessions(j, p) ==
  /\ job[j].pc = "apply" /\ p \in job[j].todo /\ p.kind = "user"
  /\ ~\E q \in job[j].todo : q.kind = "group"
  /\ IF ~Known(p.id) /\ p.op # "Upsert"
     THEN job' = [job EXCEPT ![j] = IdleJob] /\ UNCHANGED <<users, active, late>>
     ELSE /\ users' = [users EXCEPT ![p.id] = PatchedUser(p)]
          /\ late' = LateLogins(p.id)
          /\ UNCHANGED active
          /\ Continue(j, Saving(j, p, users'[p.id]))
  /\ UNCHANGED <<groups, groupRow, provider, served, cursors, providerSteps,
                 userRow, boundVars, login, pending, pendingRow, verify, row,
                 refresh, saves, tokens, exchanged>>

\* An account that is not active any more loses its sessions, in memory.
ApplyUserPatch(j, p) ==
  /\ job[j].pc = "apply" /\ p \in job[j].todo /\ p.kind = "user"
  /\ ~\E q \in job[j].todo : q.kind = "group"
  /\ IF ~Known(p.id) /\ p.op # "Upsert"
     THEN job' = [job EXCEPT ![j] = IdleJob] /\ UNCHANGED <<users, active, late>>
     ELSE /\ users' = [users EXCEPT ![p.id] = PatchedUser(p)]
          /\ active' = IF users'[p.id] = Absent \/ ~users'[p.id].active
                       THEN Revoked(p.id) ELSE active
          /\ late' = LateLogins(p.id)
          /\ Continue(j, Saving(j, p, users'[p.id]))
  /\ UNCHANGED <<groups, groupRow, provider, served, cursors, providerSteps,
                 userRow, boundVars, login, pending, pendingRow, verify, row,
                 refresh, saves, tokens, exchanged>>

\* save_user_account, delete_user_account, save_scim_group and
\* delete_scim_group; a failure ends the request where it is.
SavePatch(j) ==
  /\ job[j].pc = "save"
  /\ LET p == job[j].write[1]
         copy == job[j].write[2]
     IN  \/ /\ IF p.kind = "user"
               THEN userRow' = [userRow EXCEPT ![p.id] = copy]
                    /\ UNCHANGED groupRow
               ELSE groupRow' = [groupRow EXCEPT ![p.id] = copy]
                    /\ UNCHANGED userRow
            /\ job' = [job EXCEPT ![j] = [@ EXCEPT !.pc = "apply",
                                                  !.write = <<>>]]
            /\ UNCHANGED saveFaults
         \/ /\ SaveFails
            /\ job' = [job EXCEPT ![j] = IdleJob]
            /\ UNCHANGED <<userRow, groupRow>>
  /\ UNCHANGED <<groups, provider, served, late, cursors, providerSteps, users,
                 restarts, sessionVars>>

\* The group is as the provider had it, or as the policy treats one that is gone.
GroupMatches(g, group, policy) ==
  IF group # NoGroup THEN groups[g] = group
  ELSE /\ policy.deleteGroups => groups[g] = NoGroup
       /\ policy.disableGroups => ~groups[g].active

UserMatches(u, state, policy) ==
  IF state # Gone THEN users[u] = [active |-> state = "active", source |-> "Scim"]
  ELSE /\ policy.deleteUsers => ~Managed(u)
       /\ policy.disableUsers => (Managed(u) => ~users[u].active)

Matches(snapshot, policy) ==
  /\ \A g \in Groups : GroupMatches(g, snapshot.groups[g], policy)
  /\ \A u \in Users : UserMatches(u, snapshot.users[u], policy)

\* The cursor marks a synchronisation whose patches were all applied.
SetCursor(j) ==
  /\ job[j].pc = "apply" /\ job[j].todo = {}
  /\ job' = [job EXCEPT ![j] = IdleJob]
  /\ cursors' = IF job[j].sync
                THEN cursors \cup {[clean |-> job[j].clean,
                       matches |-> Matches(job[j], job[j].policy)]}
                ELSE cursors
  /\ UNCHANGED <<groups, groupRow, provider, served, late, providerSteps,
                 sessionVars, userVars, boundVars>>

\* External: people come, go and change groups at the provider.
ProviderChanges(d) ==
  /\ providerSteps < MaxProviderSteps
  /\ providerSteps' = providerSteps + 1
  /\ provider' = d
  /\ UNCHANGED <<groups, groupRow, job, served, late, cursors, sessionVars,
                 userVars, boundVars>>

\* A new process: jobs are gone, the tables are what it knows.
LoadDirectory ==
  /\ LoadSessions
  /\ groups' = groupRow
  /\ job' = [j \in Jobs |-> IdleJob]
  /\ UNCHANGED <<groupRow, provider, served, late, cursors, providerSteps>>

Patches ==
  [kind : {"group"}, op : {"Patch"}, id : Groups, active : {TRUE}]
    \cup [kind : {"group"}, op : {"PatchMembers"}, id : Groups,
          add : {Users}, remove : {{}}]
    \cup [kind : {"group"}, op : {"Disable", "Delete"}, id : Groups]
    \cup UserPatch

ProviderStates ==
  {d \in [users : {provider.users} \cup
                  {[provider.users EXCEPT ![u] = b] :
                     u \in Users, b \in {"inactive", Gone}},
          groups : {provider.groups} \cup
                   {[provider.groups EXCEPT ![g] = x] : g \in Groups,
                      x \in {NoGroup, [active |-> TRUE, members |-> {}]}}] :
     d # provider}

\* Every step but the restart.
ScimNext ==
  \/ \E j \in Jobs : \/ \E p \in Patches : ScimPatch(j, p)
                     \/ \E policy \in Policies : PullUsers(j, policy)
                     \/ PullGroups(j)
                     \/ PullFails(j)
                     \/ \E p \in job[j].todo : \/ ApplyGroupPatch(j, p)
                                             \/ ApplyUserPatch(j, p)
                     \/ SavePatch(j)
                     \/ SetCursor(j)
  \/ \E d \in ProviderStates : ProviderChanges(d)

\* The two together, on one user directory, and the restart of the process.
IdentityNext ==
  \/ SessionsNext /\ UNCHANGED scimVars
  \/ ScimNext
  \/ LoadDirectory

identityVars == <<sessionVars, userVars, boundVars, scimVars>>

\* The directory a process starts with is the one in the table.
IdentityInit ==
  /\ SessionsInit /\ ScimInit
  /\ users \in [Users -> Account \cup {Absent}] /\ userRow = users
  /\ restarts = 0 /\ saveFaults = 0

IdentitySpec == IdentityInit /\ [][IdentityNext]_identityVars

----

\* A synchronisation that reached its cursor, and that no other request
\* interfered with since it made its plan, left the users and the groups as
\* the provider had them, its policy applied to those the provider no longer
\* has; earlier synchronisations that broke off half-way included.
SyncConverges ==
  \A c \in cursors : c.clean => c.matches

\* An account that is disabled or gone has no live session but those whose
\* login was under way when it was disabled: mfa/verify goes by the account
\* that the pending session holds.  A restart ends this: it reads back rows
\* the revocation was never written to.
DisabledHasNoSession ==
  \A v \in Verifies :
    (active[v] # NoSession /\ ~active[v].revoked /\ restarts = 0)
      => \/ Enabled(Owner[active[v].login])
         \/ active[v].login \in late

\* The directory follows the provider: an undisturbed synchronisation ends with
\* the provider's users and groups, and an account that was disabled has no
\* live session (apply_scim_patches, revoke_sessions_for_user).
DirectoryFollowed == ScimTypeOK /\ SyncConverges /\ DisabledHasNoSession
=============================================================================
