------------------------------- MODULE HrSync -------------------------------
(***************************************************************************)
(* Synchronisation with an HR provider: apps/sdqp-api/src/                 *)
(* stage7_governance.rs over crates/sdqp-hr-integration.  Feishu, Workday  *)
(* and SAP feed events, by poll and by webhook, and snapshots of users;    *)
(* LDAP is searched for entries changed since a watermark, and the         *)
(* difference to the directory becomes an event.                           *)
(*                                                                         *)
(* A call loads the checkpoint, fetches, works item by item on a copy of   *)
(* the directory taken before the first, and saves the checkpoint last.    *)
(* Behind each applied event runs the grant lifecycle of its user, as the  *)
(* job of the same name in GrantLifecycle.                                 *)
(***************************************************************************)
EXTENDS GrantLifecycle, Sequences, FiniteSetsExt

CONSTANTS
  HrNews,       \* events that may occur, without id
  HrProfiles,   \* what an LDAP entry may say
  MaxHrEvents,  \* bound: events, changes of entries
  MaxHrCalls    \* bound: calls of the handlers

HrJobs == LifecycleJobs \ {GovernanceJob}

Feeds == {"feishu", "workday", "sap"}

ASSUME HrAssumption ==
  /\ HrNews \subseteq [user : Employees,
                       kind : {"Onboard", "Transfer", "Departure", "ManagerChange"},
                       department : Departments \cup {NoOne},
                       manager : Managers \cup {NoOne}]
  /\ HrProfiles \subseteq [status : {"Active", "Departed"}, department : Departments,
                           manager : Managers \cup {NoOne}]
  /\ MaxHrEvents \in Nat /\ MaxHrCalls \in Nat

VARIABLES
  hrProvider,  \* the provider
  feed,        \* its events, in the order they occurred
  entries,     \* its users, and the stamp of the last change (LDAP)
  hrCursor,    \* the row of hr_sync_checkpoints; 0 for NULL
  recorded,    \* event ids in hr_sync_events
  hrJob,       \* calls under way
  hrCalls,
  applied,     \* history: how often an event changed a copy
  viaEvent,    \* history: users whose row an event wrote last
  unread,      \* history: users whose LDAP entry changed after the last search
  metGone,     \* history: users the directory met first when they had left
  hooked,      \* history: ids of the events a webhook brought
  hrOverlap    \* history: two writers were under way together

hrVars == <<hrProvider, feed, entries, hrCursor, recorded, hrJob, hrCalls,
            applied, viaEvent, unread, metGone, hooked, hrOverlap>>

Ids == 1..MaxHrEvents

HrEvent == [id : Ids \cup {0}, user : Employees,
            kind : {"Onboard", "Transfer", "Departure", "ManagerChange", "Entry"},
            department : Departments \cup {NoOne},
            manager : Managers \cup {NoOne}, status : {"Active", "Departed"}]

IdleHr == [pc |-> "idle", op |-> "none", before |-> [event |-> 0, snapshot |-> 0],
           copy |-> [u \in Employees |-> Missing], items |-> {}, now |-> {},
           upto |-> 0]

HrTypeOK ==
  /\ hrProvider \in Feeds \cup {"ldap"}
  /\ \A i \in DOMAIN feed : feed[i] \in HrEvent /\ feed[i].id = i
  /\ \A u \in Employees : entries[u].profile \in OrgUser \cup {Missing}
  /\ recorded \subseteq DOMAIN feed
  /\ \A h \in HrJobs :
       /\ hrJob[h].pc \in {"idle", "fetch", "load", "item", "upsert", "lifecycle"}
       /\ hrJob[h].op \in {"none", "poll", "webhook", "direct", "snapshot", "delta"}
       /\ hrJob[h].items \cup hrJob[h].now \subseteq HrEvent
       /\ IF hrJob[h].pc \in {"upsert", "lifecycle"}
          THEN \E e \in HrEvent : hrJob[h].now = {e}
          ELSE hrJob[h].now = {}
       /\ hrJob[h].pc # "idle"
            => ((lifecycleJob[h].pc # "idle") <=> (hrJob[h].pc = "lifecycle"))

HrInit(provider) ==
  /\ hrProvider = provider
  /\ feed = <<>>
  /\ entries = [u \in Employees |-> [profile |-> directory[u], stamp |-> 0]]
  /\ hrCursor = [event |-> 0, snapshot |-> 0]
  /\ recorded = {}
  /\ hrJob = [h \in HrJobs |-> IdleHr]
  /\ hrCalls = 0
  /\ applied = [i \in Ids |-> 0]
  /\ viaEvent = {}
  /\ unread = {}
  /\ metGone = {}
  /\ hooked = {}
  /\ hrOverlap = FALSE

\* Everyone between reading the directory or a grant and writing one.
HrWriters == {h \in HrJobs : hrJob[h].pc # "idle"}
               \cup {g \in Grants : activation[g].pc \in {"checked", "saved"}}

----
(* The provider. *)

\* OrgDirectory::apply_event on one user; Missing is UserNotFound.  Only an
\* Onboard can give an employee who left the status Active again.
ApplyEvent(p, e) ==
  IF e.kind = "Onboard"
  THEN [status |-> "Active", manager |-> e.manager,
        department |-> IF e.department = NoOne THEN DefaultDepartment
                       ELSE e.department]
  ELSE IF p = Missing THEN Missing
  ELSE CASE e.kind = "Transfer" ->
              [p EXCEPT !.department = IF e.department = NoOne THEN @ ELSE e.department,
                        !.manager = IF e.manager = NoOne THEN @ ELSE e.manager]
         [] e.kind = "Departure" -> [p EXCEPT !.status = "Departed"]
         [] OTHER -> [p EXCEPT !.manager = e.manager]

\* An event occurs at a provider that has a feed.
EventOccurs(news) ==
  LET e == [id |-> Len(feed) + 1, user |-> news.user, kind |-> news.kind,
            department |-> news.department, manager |-> news.manager,
            status |-> "Active"]
  IN
  /\ hrProvider \in Feeds
  /\ Len(feed) < MaxHrEvents
  /\ ApplyEvent(entries[e.user].profile, e) \notin {Missing, entries[e.user].profile}
  /\ feed' = Append(feed, e)
  /\ entries' = [entries EXCEPT ![e.user].profile = ApplyEvent(@, e)]
  /\ UNCHANGED <<grantVars, hrProvider, hrCursor, recorded, hrJob, hrCalls,
                 applied, viaEvent, unread, metGone, hooked>>

\* An entry of the LDAP directory changes.  Stamps have a granularity: the
\* next change may get the same one.
Stamp == Max({1} \cup {entries[u].stamp : u \in Employees})

EntryChanges(u, p) ==
  /\ hrProvider = "ldap"
  /\ entries[u].profile # p
  /\ \E s \in {Stamp, Stamp + 1} :
       /\ s <= MaxHrEvents
       /\ entries' = [entries EXCEPT ![u] = [profile |-> p, stamp |-> s]]
  /\ unread' = unread \cup {u}
  /\ UNCHANGED <<grantVars, hrProvider, feed, hrCursor, recorded, hrJob,
                 hrCalls, applied, viaEvent, metGone, hooked>>

----
(* The handlers: load the checkpoint, then fetch. *)

HrCall(h, op, pc, items) ==
  /\ hrJob[h].pc = "idle" /\ lifecycleJob[h].pc = "idle"
  /\ hrCalls < MaxHrCalls
  /\ hrCalls' = hrCalls + 1
  /\ hrJob' = [hrJob EXCEPT ![h] = [IdleHr EXCEPT !.pc = pc, !.op = op,
                                      !.before = hrCursor, !.items = items,
                                      !.upto = Max({0} \cup {e.id : e \in items})]]
  /\ UNCHANGED <<grantVars, hrProvider, feed, entries, hrCursor, recorded,
                 applied, viaEvent, unread, metGone>>

FeishuEventPoll(h) == /\ hrProvider = "feishu"
                      /\ HrCall(h, "poll", "fetch", {}) /\ UNCHANGED hooked

WorkdayEventPoll(h) == /\ hrProvider = "workday"
                       /\ HrCall(h, "poll", "fetch", {}) /\ UNCHANGED hooked

SapEventPoll(h) == /\ hrProvider = "sap"
                   /\ HrCall(h, "poll", "fetch", {}) /\ UNCHANGED hooked

FeishuSnapshotSync(h) == /\ hrProvider = "feishu"
                         /\ HrCall(h, "snapshot", "fetch", {}) /\ UNCHANGED hooked

WorkdaySnapshotSync(h) == /\ hrProvider = "workday"
                          /\ HrCall(h, "snapshot", "fetch", {}) /\ UNCHANGED hooked

SapSnapshotSync(h) == /\ hrProvider = "sap"
                      /\ HrCall(h, "snapshot", "fetch", {}) /\ UNCHANGED hooked

LdapSnapshotSync(h) == /\ hrProvider = "ldap"
                       /\ HrCall(h, "snapshot", "fetch", {}) /\ UNCHANGED hooked

LdapIncrementalPoll(h) == /\ hrProvider = "ldap"
                          /\ HrCall(h, "delta", "fetch", {}) /\ UNCHANGED hooked

\* A webhook that shows the secret brings an event of the feed, again perhaps.
FeishuWebhook(h, i) == /\ hrProvider = "feishu"
                       /\ HrCall(h, "webhook", "load", {feed[i]}) /\ hooked' = hooked \cup {i}

WorkdayWebhook(h, i) == /\ hrProvider = "workday"
                        /\ HrCall(h, "webhook", "load", {feed[i]}) /\ hooked' = hooked \cup {i}

SapWebhook(h, i) == /\ hrProvider = "sap"
                    /\ HrCall(h, "webhook", "load", {feed[i]}) /\ hooked' = hooked \cup {i}

\* hr_event_handler: one event, posted with the token; no checkpoint.
HrEventHandler(h, i) == HrCall(h, "direct", "load", {feed[i]}) /\ UNCHANGED hooked

HrFetched(h, pc, items, upto) ==
  /\ hrJob' = [hrJob EXCEPT ![h] =
                  [hrJob[h] EXCEPT !.pc = pc, !.items = items, !.upto = upto]]
  /\ unread' = {}
  /\ UNCHANGED <<grantVars, hrProvider, feed, entries, hrCursor, recorded,
                 hrCalls, applied, viaEvent, metGone, hooked>>

\* The request to the provider, or for its access token, fails and is audited.
FetchFails(h) ==
  /\ hrJob[h].pc = "fetch"
  /\ hrJob' = [hrJob EXCEPT ![h] = IdleHr]
  /\ UNCHANGED <<grantVars, hrProvider, feed, entries, hrCursor, recorded,
                 hrCalls, applied, viaEvent, unread, metGone, hooked>>

FeishuFetchFails(h) == hrProvider = "feishu" /\ FetchFails(h)

WorkdayFetchFails(h) == hrProvider = "workday" /\ FetchFails(h)

SapFetchFails(h) == hrProvider = "sap" /\ FetchFails(h)

LdapSearchFails(h) == hrProvider = "ldap" /\ FetchFails(h)

\* A page of the events after the cursor.  Without a next_cursor the last id
\* of the page is the cursor, without either the old one.
FetchEvents(h) ==
  /\ hrJob[h].pc = "fetch" /\ hrJob[h].op = "poll"
  /\ \E last \in hrJob[h].before.event..Len(feed) :
       HrFetched(h, "load", {feed[i] : i \in hrJob[h].before.event+1..last}, last)

FetchFeishuEvents(h) == hrProvider = "feishu" /\ FetchEvents(h)

FetchWorkdayEvents(h) == hrProvider = "workday" /\ FetchEvents(h)

FetchSapEvents(h) == hrProvider = "sap" /\ FetchEvents(h)

\* What LdapDirectoryEntry::to_org_user and its kin make of an entry.
EntryOf(u) == [id |-> 0, user |-> u, kind |-> "Entry",
               department |-> entries[u].profile.department,
               manager |-> entries[u].profile.manager,
               status |-> entries[u].profile.status]

\* A page of the users.
FetchSnapshot(h) ==
  /\ hrJob[h].pc = "fetch" /\ hrJob[h].op = "snapshot"
  /\ \E page \in SUBSET {u \in Employees : entries[u].profile # Missing} :
       HrFetched(h, "item", {EntryOf(u) : u \in page}, hrJob[h].before.snapshot)

FetchFeishuSnapshot(h) == hrProvider = "feishu" /\ FetchSnapshot(h)

FetchWorkdaySnapshot(h) == hrProvider = "workday" /\ FetchSnapshot(h)

FetchSapSnapshot(h) == hrProvider = "sap" /\ FetchSnapshot(h)

\* Mutant: changed_since > watermark.
ChangedSince_Strict(u, watermark) == entries[u].stamp > watermark \/ watermark = 0

\* incremental_search_filter: changed_since >= watermark.
ChangedSince(u, watermark) == entries[u].stamp >= watermark

\* run_ldap_directory_search; the watermark is the latest stamp found.
LdapSearch(h) ==
  /\ hrProvider = "ldap" /\ hrJob[h].pc = "fetch"
  /\ LET before == hrJob[h].before
         watermark == IF hrJob[h].op = "snapshot" THEN 0
                      ELSE IF before.event # 0 THEN before.event
                      ELSE before.snapshot
         found == {u \in Employees : /\ entries[u].profile # Missing
                                     /\ ChangedSince(u, watermark)}
         old == IF hrJob[h].op = "snapshot" THEN before.snapshot ELSE watermark
         stamps == {entries[u].stamp : u \in found} \ {0}
     IN  HrFetched(h, IF hrJob[h].op = "snapshot" THEN "item" ELSE "load",
                   {EntryOf(u) : u \in found},
                   IF stamps = {} THEN old ELSE Max(stamps))

----
(* Working through the items. *)

HrFails(h) ==
  /\ LifecycleFault
  /\ hrJob' = [hrJob EXCEPT ![h] = IdleHr]

\* load_org_directory.
LoadOrgDirectory(h) ==
  /\ hrJob[h].pc = "load"
  /\ hrJob' = [hrJob EXCEPT ![h] = [@ EXCEPT !.pc = "item", !.copy = directory]]
  /\ UNCHANGED <<grantVars, hrProvider, feed, entries, hrCursor, recorded,
                 hrCalls, applied, viaEvent, unread, metGone, hooked>>

\* The items of a page are sorted by time of occurrence.
NextItem(h, e) ==
  /\ hrJob[h].pc = "item" /\ e \in hrJob[h].items
  /\ \A f \in hrJob[h].items : e.id <= f.id

\* insert_hr_event_if_new.
InsertIfNew(e) == e.id \notin recorded

\* An event that is recorded already is skipped, one of an unknown user ends
\* the call.
RecordEvent(h, e) ==
  /\ NextItem(h, e)
  /\ \/ /\ recorded' = recorded \cup {e.id}
        /\ hrJob' = [hrJob EXCEPT ![h] =
             IF ~InsertIfNew(e) THEN [hrJob[h] EXCEPT !.items = @ \ {e}]
             ELSE IF ApplyEvent(hrJob[h].copy[e.user], e) = Missing THEN IdleHr
             ELSE [hrJob[h] EXCEPT !.pc = "upsert", !.items = @ \ {e}, !.now = {e},
                                   !.copy[e.user] = ApplyEvent(@, e)]]
        /\ applied' = IF InsertIfNew(e)
                           /\ ApplyEvent(hrJob[h].copy[e.user], e) # Missing
                      THEN [applied EXCEPT ![e.id] = @ + 1] ELSE applied
        /\ UNCHANGED lifecycleFaults
     \/ HrFails(h) /\ UNCHANGED <<recorded, applied>>
  /\ UNCHANGED <<directory, roleHolders, binding, grantMem, grantRow, lapsed,
                 activation, lifecycleJob, projectMem, signals, worldChanges,
                 hrProvider, feed, entries, hrCursor, hrCalls, viaEvent, unread, metGone, hooked>>

\* The event of hr_event_handler, or one of a page of events.
RecordPostedEvent(h, e) == hrJob[h].op = "direct" /\ RecordEvent(h, e)

PageOf(h, provider) == hrJob[h].op \in {"poll", "webhook"} /\ hrProvider = provider

ProcessFeishuEvents(h, e) == PageOf(h, "feishu") /\ RecordEvent(h, e)

ProcessWorkdayEvents(h, e) == PageOf(h, "workday") /\ RecordEvent(h, e)

ProcessSapEvents(h, e) == PageOf(h, "sap") /\ RecordEvent(h, e)

\* ldap_delta_event: the difference of an entry to the directory.
LdapDeltaEvent(old, e) ==
  IF old = Missing THEN "Onboard"
  ELSE IF old.status # e.status /\ e.status = "Departed" THEN "Departure"
  ELSE IF old.department # e.department THEN "Transfer"
  ELSE IF old.manager # e.manager THEN "ManagerChange"
  ELSE IF old.status # e.status THEN "Transfer"
  ELSE "none"

ProfileOf(e) == [status |-> e.status, department |-> e.department,
                 manager |-> e.manager]

\* process_ldap_directory_delta: the entry is stored, its event recorded under
\* a fresh id and applied to the copy, which is then stored over the entry.
UpsertEntry(h, e) ==
  /\ hrJob[h].op = "delta" /\ NextItem(h, e)
  /\ \/ /\ directory' = [directory EXCEPT ![e.user] = ProfileOf(e)]
        /\ LET kind == LdapDeltaEvent(hrJob[h].copy[e.user], e)
           IN  hrJob' = [hrJob EXCEPT ![h] =
                 IF kind = "none"
                 THEN [hrJob[h] EXCEPT !.items = @ \ {e}, !.copy[e.user] = ProfileOf(e)]
                 ELSE [hrJob[h] EXCEPT !.pc = "upsert", !.items = @ \ {e}, !.now = {e},
                         !.copy[e.user] = ApplyEvent(@, [e EXCEPT !.kind = kind])]]
        /\ viaEvent' = viaEvent \ {e.user}
        /\ metGone' = IF hrJob[h].copy[e.user] = Missing /\ e.status = "Departed"
                      THEN metGone \cup {e.user} ELSE metGone
        /\ UNCHANGED lifecycleFaults
     \/ HrFails(h) /\ UNCHANGED <<directory, viaEvent, metGone>>
  /\ UNCHANGED <<roleHolders, binding, grantMem, grantRow, lapsed, activation,
                 lifecycleJob, projectMem, signals, worldChanges, hrProvider,
                 feed, entries, hrCursor, recorded, hrCalls, applied,
                 unread, hooked>>

\* upsert_org_user, and apply_hr_lifecycle_for_user begins.
UpsertOrgUser(h, e) ==
  /\ hrJob[h].pc = "upsert" /\ e \in hrJob[h].now
  /\ \/ /\ directory' = [directory EXCEPT ![e.user] = hrJob[h].copy[e.user]]
        /\ StartJob(h, "HrSync", {e.user}, hrJob[h].copy)
        /\ hrJob' = [hrJob EXCEPT ![h].pc = "lifecycle"]
        /\ viaEvent' = viaEvent \cup {e.user}
        /\ UNCHANGED lifecycleFaults
     \/ HrFails(h) /\ UNCHANGED <<directory, lifecycleJob, viaEvent>>
  /\ UNCHANGED <<roleHolders, binding, grantMem, grantRow, lapsed, activation,
                 projectMem, signals, worldChanges, hrProvider, feed, entries,
                 hrCursor, recorded, hrCalls, applied, unread, metGone, hooked>>

\* apply_hr_lifecycle_for_user; when it fails, so does the call.  The commands
\* of an event name its own user, whom the loop after it leaves out.
ApplyHrLifecycle(h) ==
  /\ hrJob[h].pc = "lifecycle"
  /\ JobStep(h)
  /\ hrJob' = [hrJob EXCEPT ![h] =
                 IF lifecycleFaults' # lifecycleFaults THEN IdleHr
                 ELSE IF lifecycleJob'[h].pc = "idle"
                      THEN [@ EXCEPT !.pc = "item", !.now = {}] ELSE @]
  /\ UNCHANGED <<hrProvider, feed, entries, hrCursor, recorded, hrCalls,
                 applied, viaEvent, unread, metGone, hooked>>

\* A user of a snapshot is stored; the grants wait for the governance loop.
UpsertSnapshotUser(h, e) ==
  /\ hrJob[h].op = "snapshot" /\ NextItem(h, e)
  /\ \/ /\ directory' = [directory EXCEPT ![e.user] = ProfileOf(e)]
        /\ hrJob' = [hrJob EXCEPT ![h].items = @ \ {e}]
        /\ viaEvent' = viaEvent \ {e.user}
        /\ UNCHANGED lifecycleFaults
     \/ HrFails(h) /\ UNCHANGED <<directory, viaEvent>>
  /\ UNCHANGED <<roleHolders, binding, grantMem, grantRow, lapsed, activation,
                 lifecycleJob, projectMem, signals, worldChanges, hrProvider,
                 feed, entries, hrCursor, recorded, hrCalls, applied, unread, metGone, hooked>>

\* Mutant: the newest event, not the last of the page.
CheckpointAfter_Newest(h) ==
  IF hrJob[h].op = "poll" THEN [hrJob[h].before EXCEPT !.event = Len(feed)]
  ELSE [hrJob[h].before EXCEPT !.event = hrJob[h].upto]

\* The checkpoint after a call that went through.  A webhook moves the event
\* cursor to the event it brought; a snapshot writes the one it has read.
CheckpointAfter(h) ==
  LET b == hrJob[h].before
  IN  CASE hrJob[h].op = "snapshot" -> [b EXCEPT !.snapshot = hrJob[h].upto]
        [] hrJob[h].op = "direct" -> hrCursor
        [] OTHER -> [b EXCEPT !.event = hrJob[h].upto]

SaveCheckpoint(h) ==
  /\ hrJob[h].pc = "item" /\ hrJob[h].items = {}
  /\ hrJob' = [hrJob EXCEPT ![h] = IdleHr]
  /\ \/ hrCursor' = CheckpointAfter(h) /\ UNCHANGED lifecycleFaults
     \/ hrJob[h].op # "direct" /\ LifecycleFault /\ UNCHANGED hrCursor
  /\ UNCHANGED <<directory, roleHolders, binding, grantMem, grantRow, lapsed,
                 activation, lifecycleJob, projectMem, signals, worldChanges,
                 hrProvider, feed, entries, recorded, hrCalls, applied,
                 viaEvent, unread, metGone, hooked>>

\* The end of a snapshot, of a page of events, and of a posted event.
SaveSnapshotCheckpoint(h, provider) ==
  hrJob[h].op = "snapshot" /\ hrProvider = provider /\ SaveCheckpoint(h)

SaveFeishuCheckpoint(h) == SaveSnapshotCheckpoint(h, "feishu")

SaveWorkdayCheckpoint(h) == SaveSnapshotCheckpoint(h, "workday")

SaveSapCheckpoint(h) == SaveSnapshotCheckpoint(h, "sap")

SaveLdapCheckpoint(h) == hrProvider = "ldap" /\ SaveCheckpoint(h)

ApplyFeishuEventPage(h) == PageOf(h, "feishu") /\ SaveCheckpoint(h)

ApplyWorkdayEventPage(h) == PageOf(h, "workday") /\ SaveCheckpoint(h)

ApplySapEventPage(h) == PageOf(h, "sap") /\ SaveCheckpoint(h)

EndPostedEvent(h) == hrJob[h].op = "direct" /\ SaveCheckpoint(h)

HrCallStep(h) ==
  \/ FeishuEventPoll(h) \/ WorkdayEventPoll(h) \/ SapEventPoll(h)
  \/ FeishuSnapshotSync(h) \/ WorkdaySnapshotSync(h) \/ SapSnapshotSync(h)
  \/ LdapSnapshotSync(h) \/ LdapIncrementalPoll(h)
  \/ \E i \in DOMAIN feed : \/ FeishuWebhook(h, i) \/ WorkdayWebhook(h, i)
                             \/ SapWebhook(h, i) \/ HrEventHandler(h, i)

HrStep(h) ==
  \/ FeishuFetchFails(h) \/ WorkdayFetchFails(h) \/ SapFetchFails(h)
  \/ LdapSearchFails(h)
  \/ FetchFeishuEvents(h) \/ FetchWorkdayEvents(h) \/ FetchSapEvents(h)
  \/ FetchFeishuSnapshot(h) \/ FetchWorkdaySnapshot(h) \/ FetchSapSnapshot(h)
  \/ LdapSearch(h)
  \/ LoadOrgDirectory(h)
  \/ \E e \in hrJob[h].items : \/ RecordPostedEvent(h, e) \/ UpsertEntry(h, e)
                               \/ ProcessFeishuEvents(h, e)
                               \/ ProcessWorkdayEvents(h, e)
                               \/ ProcessSapEvents(h, e)
                               \/ UpsertSnapshotUser(h, e)
  \/ \E e \in hrJob[h].now : UpsertOrgUser(h, e)
  \/ ApplyHrLifecycle(h)
  \/ SaveFeishuCheckpoint(h) \/ SaveWorkdayCheckpoint(h)
  \/ SaveSapCheckpoint(h) \/ SaveLdapCheckpoint(h)
  \/ ApplyFeishuEventPage(h) \/ ApplyWorkdayEventPage(h)
  \/ ApplySapEventPage(h) \/ EndPostedEvent(h)

\* Approval callbacks run beside the calls.
HrEnvironment ==
  /\ \E g \in Grants : CheckActivation(g) \/ SaveGrant(g) \/ RegisterGrant(g)
  /\ UNCHANGED <<hrProvider, feed, entries, hrCursor, recorded, hrJob, hrCalls,
                 applied, viaEvent, unread, metGone, hooked>>

HrNext ==
  /\ \/ \E h \in HrJobs : HrCallStep(h) \/ HrStep(h)
     \/ \E e \in HrNews : EventOccurs(e)
     \/ \E u \in Employees, p \in HrProfiles : EntryChanges(u, p)
     \/ HrEnvironment
  /\ hrOverlap' = (hrOverlap \/ (\E x, y \in HrWriters' : x # y))

HrSpec ==
  /\ \E people \in [Employees -> OrgUser \cup {Missing}], given \in SUBSET Grants,
        projects \in [Projects -> {"none", "Created", "Active", "Frozen"}] :
       GrantsInit(people, given, projects)
  /\ \E provider \in Feeds \cup {"ldap"} : HrInit(provider)
  /\ [][HrNext]_<<grantVars, hrVars>>

----

\* An event changes a call's copy of the directory at most once, though poll,
\* webhook and a post may deliver it together and again.
AppliedOnce == \A i \in Ids : applied[i] <= 1

\* The events recorded, and those before one that a webhook brought: it moves
\* the cursor to its own event, past what was not polled yet.
Taken == recorded \cup {i \in Ids : \E w \in hooked : i < w}

\* Polling misses nothing but that: every other event up to the cursor is
\* recorded, whatever calls failed or overlapped and whichever of them saved
\* its checkpoint last.
CursorCovers == hrProvider \in Feeds => 1..hrCursor.event \subseteq Taken

\* Grants follow the directory: at rest, when no two writers met and nothing
\* failed, no grant is left that contradicts the row an event wrote for its
\* applicant.
GrantsFollowEvents ==
  (~hrOverlap /\ lifecycleFaults = 0 /\ HrWriters = {})
    => \A g \in Grants :
         (grantRow[g] = "Active" /\ Applicant[g] \in viaEvent)
           => /\ directory[Applicant[g]].status = "Active"
              /\ OrgBindingMatches(g, directory[Applicant[g]])

\* The watermark of LDAP loses no departure: at rest, when no two writers met
\* and nothing failed, a user who left before the last search is stored as
\* departed, unless the directory did not know the user before.
DeparturesFound ==
  (/\ hrProvider = "ldap" /\ ~hrOverlap /\ lifecycleFaults = 0 /\ HrWriters = {})
    => \A u \in Employees :
         (entries[u].profile.status = "Departed" /\ u \notin unread \cup metGone)
           => directory[u].status = "Departed"

\* No event of the provider is applied twice, and the cursor passes none that
\* is not recorded but those a webhook overtook (hr_sync_events,
\* hr_sync_checkpoints).  A recorded event need not be applied: when its user is
\* unknown or a later statement fails, the call ends, and a redelivery is skipped.
EventsAppliedOnce == HrTypeOK /\ AppliedOnce /\ CursorCovers

\* What HR says reaches the grants: at rest no grant contradicts its
\* applicant's row, and the search by watermark finds who left.
GrantsFollowHr == GrantsFollowEvents /\ DeparturesFound
=============================================================================
