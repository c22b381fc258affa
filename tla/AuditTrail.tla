----------------------------- MODULE AuditTrail -----------------------------
(***************************************************************************)
(* The audit chain: appends, the hot store, the replica file, forwarding,  *)
(* and the retention run that moves old events into archive bundles        *)
(* (apps/sdqp-api/src/lib.rs, persistence.rs, crates/sdqp-audit).          *)
(*                                                                         *)
(* An append links its event to the chain in memory and signs a checkpoint *)
(* under one lock.  Everything after the lock is a separate step of the    *)
(* request: two inserts, and the replica file, written from the copy of    *)
(* the trail taken under the lock.  The request then starts a forwarding   *)
(* task and a retention task.  Archiving is a sequence of statements in no *)
(* transaction, and the boundary reaches memory last.                      *)
(*                                                                         *)
(* The deletion or purge of a snapshot is a request that appends one event *)
(* and seals its record with the state of the chain before and after.      *)
(*                                                                         *)
(* The hash of an event stands for the event: it is the number the event   *)
(* was given.  slot is its millisecond: the store sorts by it.             *)
(***************************************************************************)
EXTENDS Integers, FiniteSets, FiniteSetsExt, Sequences, SequencesExt

CONSTANTS
  Writers,          \* requests that may be appending
  AuditKinds,       \* kinds of events that occur
  RetentionDays,    \* days each retention category is kept
  ArchiveAfter,     \* archive_after, in days
  Forwarders,       \* providers the active forwarder is chosen from
  MaxEvents,        \* bound: events
  MaxAuditDays,     \* bound: days
  MaxAuditFaults,   \* bound: failed statements
  MaxAuditRestarts  \* bound: restarts

Categories == {"AccessLog", "PermissionLifecycle", "Evidence", "SystemManagement"}

ASSUME AuditAssumption ==
  /\ AuditKinds \subseteq {"query", "export", "permission", "config", "deletion"}
  /\ RetentionDays \in [Categories -> Nat]
  /\ ArchiveAfter \in Nat \ {0}
  /\ Forwarders \subseteq {"disabled", "webhook", "kafka", "syslog"}
  /\ MaxEvents \in Nat /\ MaxAuditDays \in Nat
  /\ MaxAuditFaults \in Nat /\ MaxAuditRestarts \in Nat

VARIABLES
  trail,          \* the chain in memory
  hotEvents,      \* rows of sdqp.audit_events
  hotChecks,      \* rows of sdqp.audit_checkpoints
  boundaries,     \* rows of audit_chain_boundaries
  bundles,        \* archive files and their rows
  replica,        \* the replica file
  appends,        \* requests under way
  retentionTasks, \* retention tasks that have not begun
  retention,      \* the retention run under way
  forwarder,      \* the active forwarder
  forwards,       \* events whose forwarding task runs
  deliveries,     \* rows of audit_forward_deliveries
  received,       \* events the external system has
  deletionRecords,  \* sealed controlled_deletion_records
  auditDay, auditSlot, auditCount,
  auditFaults, auditRestarts,
  inserted,       \* history: events whose insert succeeded
  auditClean      \* history: no statement the chain needs failed or was cut off

auditVars == <<trail, hotEvents, hotChecks, boundaries, bundles, replica, appends,
               retentionTasks, retention, forwarder, forwards, deliveries, received,
               deletionRecords, auditDay, auditSlot, auditCount, auditFaults,
               auditRestarts, inserted, auditClean>>

storeVars   == <<hotEvents, hotChecks, boundaries, bundles>>
forwardVars == <<forwarder, forwards, deliveries, received, deletionRecords>>
clockVars   == <<auditDay, auditSlot, auditCount>>

Genesis == 0

Event == [id : 1..MaxEvents, prev : 0..MaxEvents, kind : AuditKinds,
          day : 0..MaxAuditDays, slot : 0..(MaxEvents + MaxAuditDays)]

Checkpoint == [count : Nat \ {0}, last : 1..MaxEvents, day : 0..MaxAuditDays,
               slot : 0..(MaxEvents + MaxAuditDays)]

EmptyTrail == [anchor |-> {}, events |-> <<>>, checkpoints |-> <<>>]

NoAppend == [pc |-> "idle", op |-> "request", before |-> Genesis, event |-> {}, checkpoint |-> {}, copy |-> EmptyTrail]

NoRun == [pc |-> "idle", day |-> 0, bundle |-> {}]

AuditInit ==
  /\ trail = EmptyTrail /\ replica = EmptyTrail
  /\ hotEvents = {} /\ hotChecks = {} /\ boundaries = {} /\ bundles = {}
  /\ appends = [w \in Writers |-> NoAppend]
  /\ retentionTasks = 0 /\ retention = NoRun
  /\ forwarder \in Forwarders
  /\ forwards = {} /\ deliveries = {} /\ received = {} /\ deletionRecords = {}
  /\ auditDay = 0 /\ auditSlot = 0 /\ auditCount = 0
  /\ auditFaults = 0 /\ auditRestarts = 0
  /\ inserted = {} /\ auditClean = TRUE

AuditFault ==
  /\ auditFaults < MaxAuditFaults
  /\ auditFaults' = auditFaults + 1

----
(* The chain. *)

\* The number of events before the first one of the trail.
Offset(t) == IF t.anchor = {} THEN 0 ELSE (CHOOSE c \in t.anchor : TRUE).count

AnchorHash(t) == IF t.anchor = {} THEN Genesis ELSE (CHOOSE c \in t.anchor : TRUE).last

\* AuditTrail::latest_event_hash.
LatestEventHash(t) == IF t.events = <<>> THEN AnchorHash(t) ELSE Last(t.events).id

\* verify_chain_with_anchor.
VerifyChain(events, anchorHash) ==
  \A i \in DOMAIN events :
    events[i].prev = IF i = 1 THEN anchorHash ELSE events[i - 1].id

\* verify_replica.
VerifyReplica(t) ==
  /\ VerifyChain(t.events, AnchorHash(t))
  /\ t.checkpoints # <<>> =>
       /\ Last(t.checkpoints).count = Offset(t) + Len(t.events)
       /\ t.events # <<>> /\ Last(t.checkpoints).last = Last(t.events).id

\* Mutant: the count starts again after an archive.
AppendWithSigner_NoOffset(t, e) ==
  LET events == Append(t.events, e) IN
  [t EXCEPT !.events = events,
            !.checkpoints = Append(@, [count |-> Len(events), last |-> e.id,
                                       day |-> e.day, slot |-> e.slot])]

\* AuditTrail::append_with_signer.
AppendWithSigner(t, e) ==
  LET events == Append(t.events, e) IN
  [t EXCEPT !.events = events,
            !.checkpoints = Append(@, [count |-> Offset(t) + Len(events), last |-> e.id,
                                       day |-> e.day, slot |-> e.slot])]

\* The checkpoints that an archive up to boundary b takes along.
ArchivedChecks(t, b) ==
  LET n == Len(t.checkpoints)
      later == {i \in 1..n : t.checkpoints[i].count > b.count}
  IN  IF later = {} THEN n ELSE Min(later) - 1

ArchivedEvents(t, b) == Max({0, b.count - Offset(t)})

\* AuditTrail::apply_archive_boundary.
ApplyArchiveBoundary(t, b) ==
  LET n == Min({ArchivedEvents(t, b), Len(t.events)}) IN
  [anchor |-> {b},
   events |-> SubSeq(t.events, n + 1, Len(t.events)),
   checkpoints |-> SubSeq(t.checkpoints, ArchivedChecks(t, b) + 1, Len(t.checkpoints))]

----
(* An append. *)

\* AuditEvent::new_with_fields: two events may fall into one millisecond.
NewEvent(kind, slot) ==
  [id |-> auditCount + 1, prev |-> LatestEventHash(trail), kind |-> kind,
   day |-> auditDay, slot |-> slot]

\* A deletion's event comes from its handler, every other kind from any request.
RecordAuditEvent(w, kind) ==
  /\ appends[w].pc = IF kind = "deletion" THEN "deleting" ELSE "idle"
  /\ auditCount < MaxEvents
  /\ auditCount' = auditCount + 1
  /\ auditSlot' \in {auditSlot, auditSlot + 1}
  /\ LET e == NewEvent(kind, auditSlot') IN
     /\ trail' = AppendWithSigner(trail, e)
     /\ appends' = [appends EXCEPT ![w] =
                      [@ EXCEPT !.pc = "event", !.event = {e},
                                !.checkpoint = {Last(trail'.checkpoints)},
                                !.copy = trail']]
  /\ UNCHANGED <<storeVars, replica, retentionTasks, retention, forwardVars, auditDay,
                 auditFaults, auditRestarts, inserted, auditClean>>

InsertAuditEvent(w) ==
  /\ hotEvents' = hotEvents \cup appends[w].event
  /\ inserted' = inserted \cup appends[w].event
  /\ appends' = [appends EXCEPT ![w].pc = "checkpoint"]
  /\ UNCHANGED <<hotChecks, replica>>

InsertAuditCheckpoint(w) ==
  /\ hotChecks' = hotChecks \cup appends[w].checkpoint
  /\ appends' = [appends EXCEPT ![w].pc = "replica"]
  /\ UNCHANGED <<hotEvents, replica, inserted>>

WriteReplicaFile(w) ==
  /\ replica' = appends[w].copy
  /\ appends' = [appends EXCEPT ![w].pc = "spawn"]
  /\ UNCHANGED <<hotEvents, hotChecks, inserted>>

\* persist_audit_append: one step of three.  A step that fails ends it, and is
\* only logged.
PersistAuditAppend(w) ==
  /\ appends[w].pc \in {"event", "checkpoint", "replica"}
  /\ \/ /\ \/ appends[w].pc = "event" /\ InsertAuditEvent(w)
           \/ appends[w].pc = "checkpoint" /\ InsertAuditCheckpoint(w)
           \/ appends[w].pc = "replica" /\ WriteReplicaFile(w)
        /\ UNCHANGED <<auditFaults, auditClean>>
     \/ /\ AuditFault
        /\ auditClean' = FALSE
        /\ appends' = [appends EXCEPT ![w].pc = "spawn"]
        /\ UNCHANGED <<hotEvents, hotChecks, replica, inserted>>
  /\ UNCHANGED <<trail, boundaries, bundles, retentionTasks, retention, forwardVars,
                 clockVars, auditRestarts>>

\* The end of finalize_audit_event: the tasks are started; the forwarding one
\* has nothing to do when forwarding is disabled.
FinalizeAuditEvent(w) ==
  /\ appends[w].pc = "spawn"
  /\ appends' = [appends EXCEPT ![w] =
                   IF @.op = "request" THEN NoAppend
                   ELSE [@ EXCEPT !.pc = "seal", !.checkpoint = {}, !.copy = EmptyTrail]]
  /\ forwards' = IF forwarder = "disabled" THEN {} ELSE forwards \cup appends[w].event
  /\ retentionTasks' = retentionTasks + 1
  /\ UNCHANGED <<trail, storeVars, replica, retention, forwarder, deliveries, received,
                 deletionRecords, clockVars, auditFaults, auditRestarts, inserted, auditClean>>

----
(* Controlled deletion. *)

\* ControlledDeletionState::can_transition_to.
CanTransitionTo(from, to) ==
  <<from, to>> \in {<<"Requested", "Authorized">>, <<"Requested", "Rejected">>,
                    <<"Authorized", "LogicalDeleted">>, <<"Authorized", "ContentPurged">>,
                    <<"Authorized", "Rejected">>, <<"LogicalDeleted", "TombstoneWritten">>,
                    <<"ContentPurged", "TombstoneWritten">>,
                    <<"TombstoneWritten", "AuditRecorded">>,
                    <<"AuditRecorded", "Completed">>}

\* ControlledDeletionFlow::transition_to: a transition that is not allowed is
\* dropped, and no caller looks.
TransitionTo(flow, next) ==
  IF CanTransitionTo(Last(flow), next) THEN Append(flow, next) ELSE flow

\* verify_controlled_deletion_record.
VerifyDeletionRecord(d) ==
  \A i \in 1..(Len(d.flow) - 1) : CanTransitionTo(d.flow[i], d.flow[i + 1])

\* The handlers of soft delete and purge up to their audit event: the state of
\* the chain before is taken when the request begins.
StartDeletion(w, op) ==
  /\ "deletion" \in AuditKinds
  /\ appends[w].pc = "idle"
  /\ auditCount < MaxEvents
  /\ appends' = [appends EXCEPT ![w] = [NoAppend EXCEPT !.pc = "deleting", !.op = op,
                                                       !.before = LatestEventHash(trail)]]
  /\ UNCHANGED <<trail, storeVars, replica, retentionTasks, retention, forwardVars,
                 clockVars, auditFaults, auditRestarts, inserted, auditClean>>

\* The transitions a handler makes before its audit event.
FlowOf(op) ==
  LET flow == TransitionTo(<<"Requested">>, "Authorized")
      done == TransitionTo(flow, IF op = "purge" THEN "ContentPurged" ELSE "LogicalDeleted")
  IN  TransitionTo(done, "TombstoneWritten")

\* seal_controlled_deletion_flow with latest_audit_checkpoint: the newest
\* checkpoint there is, whoever appended it.
SealDeletion(w) ==
  /\ appends[w].pc = "seal"
  /\ deletionRecords' = deletionRecords \cup
       (IF trail.checkpoints = <<>> THEN {}
        ELSE {[before |-> appends[w].before, event |-> e.id,
               after |-> Last(trail.checkpoints).last,
               flow |-> TransitionTo(TransitionTo(FlowOf(appends[w].op), "AuditRecorded"),
                                     "Completed")] : e \in appends[w].event})
  /\ appends' = [appends EXCEPT ![w] = NoAppend]
  /\ UNCHANGED <<trail, storeVars, replica, retentionTasks, retention, forwarder, forwards,
                 deliveries, received, clockVars, auditFaults, auditRestarts, inserted,
                 auditClean>>

----
(* Forwarding. *)

Delivery(e, status) == [event |-> e.id, status |-> status]

\* A status in the 200s means the event arrived; a timeout leaves it open.
ForwardWebhook(e) ==
  \/ received' = received \cup {e.id} /\ deliveries' = deliveries \cup {Delivery(e, "success")}
  \/ received' = received \cup {e.id} /\ deliveries' = deliveries \cup {Delivery(e, "failed")}
  \/ received' = received /\ deliveries' = deliveries \cup {Delivery(e, "failed")}

\* produce returns once the broker has the record.
ForwardKafka(e) ==
  \/ received' = received \cup {e.id} /\ deliveries' = deliveries \cup {Delivery(e, "success")}
  \/ received' = received /\ deliveries' = deliveries \cup {Delivery(e, "failed")}

\* A datagram that was sent may be lost.
ForwardSyslog(e) ==
  \/ received' \in {received, received \cup {e.id}}
     /\ deliveries' = deliveries \cup {Delivery(e, "success")}
  \/ received' = received /\ deliveries' = deliveries \cup {Delivery(e, "failed")}

\* publish_external_audit_forward.  The row may fail to be saved.
PublishExternalAuditForward(e) ==
  /\ e \in forwards
  /\ forwards' = forwards \ {e}
  /\ \/ forwarder = "webhook" /\ ForwardWebhook(e)
     \/ forwarder = "kafka" /\ ForwardKafka(e)
     \/ forwarder = "syslog" /\ ForwardSyslog(e)
     \/ received' \in {received, received \cup {e.id}} /\ UNCHANGED deliveries
  /\ UNCHANGED <<trail, storeVars, replica, appends, retentionTasks, retention, forwarder,
                 deletionRecords, clockVars, auditFaults, auditRestarts, inserted, auditClean>>

----
(* Retention. *)

\* retention_category_for_event.
RetentionCategory(kind) ==
  CASE kind \in {"export", "deletion"} -> "Evidence"
    [] kind = "permission" -> "PermissionLifecycle"
    [] kind = "config" -> "SystemManagement"
    [] OTHER -> "AccessLog"

RetentionDeadline(e) == e.day + RetentionDays[RetentionCategory(e.kind)]

\* The checkpoints old enough to be the boundary, by their index.
BoundaryCandidates(t, day) ==
  {i \in DOMAIN t.checkpoints :
     t.checkpoints[i].day <= day - ArchiveAfter /\ t.checkpoints[i].count > Offset(t)}

\* Mutant: a bundle expires with its first event.
RetainUntil_First(events) == Min({RetentionDeadline(e) : e \in events})

RetainUntil(events) == Max({RetentionDeadline(e) : e \in events})

\* build_archive_plan; the empty set when there is nothing to archive.
BuildArchivePlan(t, day) ==
  LET candidates == BoundaryCandidates(t, day)
      boundary == t.checkpoints[Max(candidates)]
      n == ArchivedEvents(t, boundary)
      events == SubSeq(t.events, 1, n)
  IN  IF candidates = {} \/ t.events = <<>> THEN {}
      ELSE IF n > Len(t.events) THEN {}
      ELSE {[id |-> Cardinality(bundles) + 1, anchor |-> AnchorHash(t), boundary |-> boundary,
             events |-> events, until |-> RetainUntil(Range(events)),
             checkpoints |-> SubSeq(t.checkpoints, 1, ArchivedChecks(t, boundary))]}

\* verify_archive_bundle.
VerifyArchiveBundle(b) ==
  /\ VerifyChain(b.events, b.anchor)
  /\ b.checkpoints # <<>> /\ Last(b.checkpoints) = b.boundary

\* The swap of audit_retention_running, and the plan built under the lock.
StartRetention ==
  /\ retentionTasks > 0
  /\ retentionTasks' = retentionTasks - 1
  /\ IF retention.pc # "idle" THEN UNCHANGED retention
     ELSE LET plan == BuildArchivePlan(trail, auditDay) IN
          retention' = [day |-> auditDay, bundle |-> plan,
                        pc |-> IF plan = {} THEN "cleanup"
                               ELSE IF \A b \in plan : VerifyArchiveBundle(b) THEN "file"
                               ELSE "release"]
  /\ UNCHANGED <<trail, storeVars, replica, appends, forwardVars, clockVars, auditFaults,
                 auditRestarts, inserted, auditClean>>

Planned == CHOOSE b \in retention.bundle : TRUE

Stored(b, row) == [id |-> b.id, events |-> Range(b.events), until |-> b.until,
                   file |-> TRUE, row |-> row]

\* The name of the next step; a step that fails ends the run.
GoesTo(pc) == retention' = [retention EXCEPT !.pc = pc]

WriteArchiveBundleFile ==
  /\ retention.pc = "file"
  /\ bundles' = bundles \cup {Stored(Planned, FALSE)}
  /\ GoesTo("bundle")
  /\ UNCHANGED <<hotEvents, hotChecks, boundaries, trail, replica, auditClean>>

InsertArchiveBundle ==
  /\ retention.pc = "bundle"
  /\ bundles' = (bundles \ {Stored(Planned, FALSE)}) \cup {Stored(Planned, TRUE)}
  /\ GoesTo("deactivate")
  /\ UNCHANGED <<hotEvents, hotChecks, boundaries, trail, replica, auditClean>>

DeactivateBoundaries ==
  /\ retention.pc = "deactivate"
  /\ boundaries' = {[b EXCEPT !.active = FALSE] : b \in boundaries}
  /\ GoesTo("boundary")
  /\ UNCHANGED <<hotEvents, hotChecks, bundles, trail, replica, auditClean>>

\* boundary_id is made of the checkpoint: a second archive up to the same
\* checkpoint cannot insert its boundary.
InsertBoundary ==
  /\ retention.pc = "boundary"
  /\ IF \E b \in boundaries : b.checkpoint = Planned.boundary
     THEN GoesTo("release") /\ UNCHANGED boundaries
     ELSE /\ boundaries' = boundaries \cup {[checkpoint |-> Planned.boundary, active |-> TRUE]}
          /\ GoesTo("events")
  /\ UNCHANGED <<hotEvents, hotChecks, bundles, trail, replica, auditClean>>

DeleteAuditEvents ==
  /\ retention.pc = "events"
  /\ hotEvents' = hotEvents \ Range(Planned.events)
  /\ GoesTo("checkpoints")
  /\ UNCHANGED <<hotChecks, boundaries, bundles, trail, replica, auditClean>>

DeleteAuditCheckpoints ==
  /\ retention.pc = "checkpoints"
  /\ hotChecks' = hotChecks \ Range(Planned.checkpoints)
  /\ GoesTo("memory")
  /\ UNCHANGED <<hotEvents, boundaries, bundles, trail, replica, auditClean>>

ApplyBoundaryInMemory ==
  /\ retention.pc = "memory"
  /\ trail' = ApplyArchiveBoundary(trail, Planned.boundary)
  /\ retention' = [retention EXCEPT !.pc = "replica", !.bundle = {trail'}]
  /\ UNCHANGED <<storeVars, replica, auditClean>>

PersistAuditReplica ==
  /\ retention.pc = "replica"
  /\ replica' = Planned
  /\ retention' = [retention EXCEPT !.pc = "cleanup", !.bundle = {}]
  /\ UNCHANGED <<storeVars, trail, auditClean>>

\* cleanup_expired_audit_archives: the file goes first, then the row is marked.
CleanupExpiredAuditArchives ==
  /\ retention.pc = "cleanup"
  /\ \E expired \in {{b \in bundles : b.row /\ b.until <= retention.day}} :
       bundles' = (bundles \ expired)
                    \cup {[b EXCEPT !.file = FALSE, !.row = FALSE] : b \in expired}
  /\ GoesTo("release")
  /\ UNCHANGED <<hotEvents, hotChecks, boundaries, trail, replica, auditClean>>

\* The steps of an archive that leave the store between two states.
Critical == {"boundary", "events", "checkpoints", "memory"}

\* apply_audit_archive or the clean-up fails: the run ends.
RetentionFails ==
  /\ AuditFault
  /\ retention.pc \in {"file", "bundle", "deactivate", "cleanup"} \cup (Critical \ {"memory"})
  /\ GoesTo("release")
  /\ auditClean' = (auditClean /\ retention.pc \notin Critical)
  /\ UNCHANGED <<storeVars, trail, replica>>

\* save_audit_retention_run, and audit_retention_running is released.
EndRetention ==
  /\ retention.pc = "release"
  /\ retention' = NoRun
  /\ UNCHANGED <<storeVars, trail, replica, auditClean>>

RunAuditRetention ==
  /\ \/ RetentionFails
     \/ /\ UNCHANGED auditFaults
        /\ \/ WriteArchiveBundleFile \/ InsertArchiveBundle
           \/ DeactivateBoundaries \/ InsertBoundary
           \/ DeleteAuditEvents \/ DeleteAuditCheckpoints
           \/ ApplyBoundaryInMemory \/ PersistAuditReplica
           \/ CleanupExpiredAuditArchives \/ EndRetention
  /\ UNCHANGED <<appends, retentionTasks, forwardVars, clockVars, auditRestarts, inserted>>

----
(* Time and restarts. *)

\* A request ends on the day it began.
AuditTick ==
  /\ auditDay < MaxAuditDays
  /\ \A w \in Writers : appends[w].pc = "idle"
  /\ auditDay' = auditDay + 1
  /\ auditSlot' = auditSlot + 1
  /\ UNCHANGED <<trail, storeVars, replica, appends, retentionTasks, retention, forwardVars,
                 auditCount, auditFaults, auditRestarts, inserted, auditClean>>

\* ORDER BY event_time, event_hash: rows of one millisecond come in any order.
LoadOrders(rows) ==
  {s \in [1..Cardinality(rows) -> rows] :
     \A i, j \in DOMAIN s : i < j => s[i] # s[j] /\ s[i].slot <= s[j].slot}

\* load_active_audit_boundary.
ActiveBoundary == {b.checkpoint : b \in {x \in boundaries : x.active}}

\* The process ends and load_audit_trail builds the chain from the store.
AuditRestart ==
  /\ auditRestarts < MaxAuditRestarts
  /\ auditRestarts' = auditRestarts + 1
  /\ \E events \in LoadOrders(hotEvents), checks \in LoadOrders(hotChecks) :
       trail' = [anchor |-> ActiveBoundary, events |-> events, checkpoints |-> checks]
  /\ auditClean' = (/\ auditClean
                    /\ \A w \in Writers : appends[w].pc \in {"idle", "deleting", "spawn", "seal"}
                    /\ retention.pc \notin Critical
                    /\ \A e, f \in hotEvents : e.slot = f.slot => e = f)
  /\ appends' = [w \in Writers |-> NoAppend]
  /\ retentionTasks' = 0 /\ retention' = NoRun
  /\ forwards' = {}
  /\ UNCHANGED <<storeVars, replica, forwarder, deliveries, received, deletionRecords,
                 clockVars, auditFaults, inserted>>

AuditNext ==
  \/ \E w \in Writers : \/ \E kind \in AuditKinds : RecordAuditEvent(w, kind)
                        \/ \E op \in {"delete", "purge"} : StartDeletion(w, op)
                        \/ SealDeletion(w)
                        \/ PersistAuditAppend(w)
                        \/ FinalizeAuditEvent(w)
  \/ \E e \in forwards : PublishExternalAuditForward(e)
  \/ StartRetention
  \/ RunAuditRetention
  \/ AuditTick
  \/ AuditRestart

AuditSpec == AuditInit /\ [][AuditNext]_auditVars

----
(* Properties. *)

\* The audit state keeps its shape: checkpoints count without gaps while nothing
\* failed, there is at most one active boundary (the unique index), a run holds a
\* plan exactly while it archives, and rows only name events that were made
\* (append_with_signer, run_audit_retention).
AuditTypeOK ==
  /\ Range(trail.events) \subseteq Event
  /\ Range(trail.checkpoints) \cup hotChecks \subseteq Checkpoint
  /\ hotEvents \subseteq inserted
  /\ Cardinality(ActiveBoundary) <= 1
  /\ retention.pc \in {"file", "bundle", "deactivate", "boundary", "events",
                       "checkpoints", "memory", "replica"} => retention.bundle # {}
  /\ retentionTasks \in 0..MaxEvents
  /\ \A d \in deliveries : d.event \in 1..auditCount
  /\ auditClean => \A i, j \in DOMAIN trail.checkpoints :
                     j = i + 1 => trail.checkpoints[j].count = trail.checkpoints[i].count + 1

\* However appends and archiving interleave, the chain in memory and the replica
\* file verify: links, counts, and the last checkpoint against the last event,
\* across archive boundaries and restarts (verify_replica; sdqp-audit-verify).  A
\* statement that failed or a process that ended in the middle of one is excepted.
TrailVerifies == auditClean => VerifyReplica(trail) /\ VerifyReplica(replica)

\* An event that reached the store is in the store or in an archive file until
\* its own retention deadline, whatever fails or restarts in between
\* (apply_audit_archive writes the bundle before it deletes a row).
KeptUntilDeadline ==
  \A e \in inserted : auditDay < RetentionDeadline(e) =>
    e \in hotEvents \cup UNION {b.events : b \in {x \in bundles : x.file}}

\* With nothing under way, the store holds what memory holds, so a restart
\* brings the same chain back (persist_audit_append, apply_audit_archive,
\* load_audit_trail).
StoreAgrees ==
  (/\ auditClean
   /\ \A w \in Writers : appends[w].pc \in {"idle", "deleting", "seal"}
   /\ retention.pc = "idle")
    => /\ hotEvents = Range(trail.events)
       /\ hotChecks = Range(trail.checkpoints)
       /\ ActiveBoundary = trail.anchor

\* The record of a deletion went through all its states, and its evidence
\* encloses its event: the chain before it ends earlier, the chain after it does
\* not (snapshot_controlled_deletion_flow, seal_controlled_deletion_flow).
EvidenceEncloses ==
  \A d \in deletionRecords :
    /\ VerifyDeletionRecord(d)
    /\ Last(d.flow) = "Completed" /\ "AuditRecorded" \in Range(d.flow)
    /\ d.before < d.event /\ d.event <= d.after

\* The record of a deletion is sealed with the checkpoint of its own event
\* (audit_event_hash, audit_checkpoint_id).
SealedByOwnEvent == \A d \in deletionRecords : d.after = d.event

\* The chain in memory verifies from the start, as seal_controlled_deletion_flow
\* asserts with verify_chain.
VerifiesFromGenesis == auditClean => VerifyChain(trail.events, Genesis)

\* A delivery recorded as a success arrived, unless it went by datagram
\* (publish_external_audit_forward).
SuccessArrived ==
  forwarder \in {"webhook", "kafka"} =>
    \A d \in deliveries : d.status = "success" => d.event \in received

\* The audit trail can be believed: chain, replica file and store verify and
\* agree, the evidence of a deletion encloses it, and a delivery on record as a
\* success arrived, in whatever order appends, archiving and forwarding end.
ChainIntact ==
  /\ AuditTypeOK
  /\ TrailVerifies
  /\ StoreAgrees
  /\ EvidenceEncloses
  /\ SuccessArrived
=============================================================================
