----------------------------- MODULE UebaStream -----------------------------
(***************************************************************************)
(* User behaviour analytics: apps/sdqp-api/src/stage11_ueba.rs, the        *)
(* detection half of phase6.rs and crates/sdqp-ueba.  Every audit event is *)
(* kept and published to a topic; one loop reads the topic from a saved    *)
(* offset, evaluates the rules over everything kept for the tenants it     *)
(* read about, acts on the sessions and the grants of the users concerned, *)
(* stores the alerts, and only then moves the offset.  Without a database  *)
(* the rules run when somebody asks for the alerts.                        *)
(***************************************************************************)
EXTENDS Integers, Sequences, FiniteSets, FiniteSetsExt

CONSTANTS
  UebaUsers, UebaProjects,
  TenantOf,         \* the tenant of a user's events
  SignalKinds,      \* the kinds of event that occur
  EarlierSignals,   \* sequences of events the system may start with
  MaxUebaEvents,    \* bound: events, those of the start included
  MaxUebaFaults,    \* bound: failed statements and lost publications
  MaxUebaRestarts   \* bound: restarts

\* The loop is through with the events of the start, which are no bursts.
ASSUME UebaAssumption ==
  /\ SignalKinds \subseteq {"query", "denied", "export", "late", "dns", "http", "control"}
  /\ \A s \in EarlierSignals :
       /\ s \in Seq([user : UebaUsers, kind : SignalKinds \cup {"control"}, project : UebaProjects])
       /\ \A u \in UebaUsers :
            /\ Cardinality({i \in DOMAIN s : s[i].user = u /\ s[i].kind = "denied"}) < 2
            /\ Cardinality({i \in DOMAIN s : s[i].user = u /\ s[i].kind = "export"}) < 3
  /\ MaxUebaEvents \in Nat /\ MaxUebaFaults \in Nat /\ MaxUebaRestarts \in Nat

VARIABLES
  uebaEvents,   \* every audit event so far, in order
  kept,         \* the events ClickHouse has
  publishing,   \* the events a task is about to publish
  topic,        \* the audit topic
  offset,       \* the saved stream offset: records before it are done
  detector,     \* the loop of spawn_ueba_runtime
  sess, sessRow,   \* each user's session in memory and in the database
  access,       \* status of the user's grant in each project
  alertRows, hitRows, socRows,   \* alerts, rule hits, notifications stored
  uebaMode,     \* "stream" with a database, "legacy" without
  uebaFaults, uebaRestarts

uebaVars == <<uebaEvents, kept, publishing, topic, offset, detector, sess, sessRow,
              access, alertRows, hitRows, socRows, uebaMode, uebaFaults, uebaRestarts>>

\* The rules, in the order evaluate_alerts tries them, with their scores.
UebaRuleNames ==
  <<"HighFrequencyQuery", "ExportSpike", "UnauthorizedQueryBurst",
    "AfterHoursAccess", "HiddenChannelDns", "HiddenChannelHttp">>

RiskScore == <<58, 92, 78, 44, 90, 88>>

\* MitigationAction::from_score; a higher number is the severer action.
Observe == 1
StepUpAuth == 2
SuspendPermissions == 3
TerminateSession == 4

FromScore(score) ==
  CASE score < 30 -> Observe
    [] score < 70 -> StepUpAuth
    [] score < 85 -> SuspendPermissions
    [] OTHER -> TerminateSession

Alert == [user : UebaUsers, rule : DOMAIN UebaRuleNames, count : Nat, action : 1..4,
          project : UebaProjects]

\* alert_signature: the evidence of the first three rules is a count, that
\* of the others never changes.
Signature(a) == <<a.user, a.rule, a.count>>

IdleDetector == [pc |-> "idle", upTo |-> 0, tenants |-> {}, alerts |-> {},
                 todo |-> {}, saving |-> {}, current |-> {}]

OpenSession == [revoked |-> FALSE, stepUp |-> FALSE]

UebaTypeOK ==
  /\ kept \subseteq DOMAIN uebaEvents /\ publishing \subseteq DOMAIN uebaEvents
  /\ \A i \in DOMAIN topic : topic[i] \in DOMAIN uebaEvents
  /\ offset \in 0..Len(topic)
  /\ detector.pc \in {"idle", "tenants", "evaluate", "mitigate", "sessions", "grants",
                      "alert", "hit", "notify"}
  /\ detector.pc # "idle" => offset < detector.upTo /\ detector.upTo <= Len(topic)
  /\ detector.todo \cup detector.current \subseteq detector.alerts
  /\ detector.pc \in {"hit", "notify"} <=> Cardinality(detector.current) = 1
  /\ detector.saving \subseteq {u \in UebaUsers : sess[u] # sessRow[u]}
  /\ \A u \in UebaUsers : {sess[u], sessRow[u]} \subseteq
                             [revoked : BOOLEAN, stepUp : BOOLEAN]
  /\ \A u \in UebaUsers, p \in UebaProjects :
       access[u, p] \in {"active", "suspended", "revoked"}
  /\ alertRows \subseteq Alert /\ hitRows \subseteq alertRows /\ socRows \subseteq hitRows

UebaInit ==
  /\ uebaEvents \in EarlierSignals
  /\ kept = DOMAIN uebaEvents
  /\ publishing = {}
  /\ topic = [i \in DOMAIN uebaEvents |-> i]
  /\ offset = Len(topic)
  /\ detector = IdleDetector
  /\ sess = [u \in UebaUsers |-> OpenSession]
  /\ sessRow = sess
  /\ access = [g \in UebaUsers \X UebaProjects |-> "active"]
  /\ alertRows = {} /\ hitRows = {} /\ socRows = {}
  /\ uebaMode \in {"stream", "legacy"}
  /\ uebaFaults = 0 /\ uebaRestarts = 0

UebaFault ==
  /\ uebaFaults < MaxUebaFaults
  /\ uebaFaults' = uebaFaults + 1

----
(* The rules.  ids are the events that are looked at. *)

\* filter_ueba_signal_events.
SignalEvents(ids) == {i \in ids : uebaEvents[i].kind # "control"}

Of(ids, u, kind) == {i \in ids : uebaEvents[i].user = u /\ uebaEvents[i].kind = kind}

\* build_user_baselines: half of all the queries the user ever made.
QueryBaseline(ids, u) == Max({Cardinality(Of(ids, u, "query")) \div 2, 1})

ExportBaseline(ids, u) == Cardinality(Of(ids, u, "export")) \div 2

\* The conditions of evaluate_alerts, one for each rule.
Fires(ids, u, r) ==
  LET n(kind) == Cardinality(Of(ids, u, kind))
  IN  CASE r = 1 -> n("query") >= 5 /\ n("query") > 2 * QueryBaseline(ids, u)
        [] r = 2 -> n("export") >= 3 /\ n("export") > ExportBaseline(ids, u) + 1
        [] r = 3 -> n("denied") >= 2
        [] r = 4 -> n("late") > 0
        [] r = 5 -> n("dns") > 0
        [] r = 6 -> n("http") > 0

Evidence(ids, u, r) ==
  CASE r = 1 -> Cardinality(Of(ids, u, "query"))
    [] r = 2 -> Cardinality(Of(ids, u, "export"))
    [] r = 3 -> Cardinality(Of(ids, u, "denied"))
    [] OTHER -> 0

\* The project of an alert is that of the user's last event: events that were
\* only staged come after those that are kept.
LastProject(ids, u) ==
  LET mine(S) == {i \in S : uebaEvents[i].user = u}
      late == mine(ids \ kept)
  IN  uebaEvents[IF late = {} THEN Max(mine(ids)) ELSE Max(late)].project

AlertOf(ids, u, r) ==
  [user |-> u, rule |-> r, count |-> Evidence(ids, u, r),
   action |-> FromScore(RiskScore[r]), project |-> LastProject(ids, u)]

EvaluateAlerts(ids, users) ==
  {AlertOf(ids, x[1], x[2]) : x \in {y \in users \X (1..6) : Fires(ids, y[1], y[2])}}

\* highest_action_by_user.
HighestAction(alerts, u) == Max({a.action : a \in {b \in alerts : b.user = u}} \cup {0})

----
(* Audit events *)

\* append_audit and the first half of finalize_audit_event: an event that
\* cannot be kept is published all the same.
RecordSignal(u, kind, p) ==
  /\ Len(uebaEvents) < MaxUebaEvents
  /\ uebaEvents' = Append(uebaEvents, [user |-> u, kind |-> kind, project |-> p])
  /\ \/ kept' = kept \cup {Len(uebaEvents) + 1} /\ UNCHANGED uebaFaults
     \/ uebaMode = "stream" /\ UebaFault /\ UNCHANGED kept
  /\ publishing' = publishing \cup
       (IF uebaMode = "stream" THEN {Len(uebaEvents) + 1} ELSE {})
  /\ UNCHANGED <<topic, offset, detector, sess, sessRow, access, alertRows, hitRows,
                 socRows, uebaMode, uebaRestarts>>

\* publish_audit_event: a publication that fails or takes three seconds is
\* only logged.
PublishAuditEvent(i) ==
  /\ i \in publishing
  /\ publishing' = publishing \ {i}
  /\ \/ topic' = Append(topic, i) /\ UNCHANGED uebaFaults
     \/ UebaFault /\ UNCHANGED topic
  /\ UNCHANGED <<uebaEvents, kept, offset, detector, sess, sessRow, access, alertRows,
                 hitRows, socRows, uebaMode, uebaRestarts>>

----
(* A tick of the loop *)

Staged == {topic[i] : i \in offset + 1..detector.upTo}

\* An error ends the tick: the offset stays, and the loop starts over.
AbortTick ==
  /\ UebaFault
  /\ detector' = IdleDetector
  /\ UNCHANGED <<uebaEvents, kept, publishing, topic, offset, sess, sessRow, access,
                 alertRows, hitRows, socRows, uebaMode, uebaRestarts>>

\* Mutant: the loop waits for a second record.
FetchRecords_FullBatch ==
  /\ uebaMode = "stream" /\ detector.pc = "idle"
  /\ \E upTo \in offset + 2..Len(topic) :
       detector' = [IdleDetector EXCEPT
         !.pc = "tenants", !.upTo = upTo,
         !.tenants = {TenantOf[uebaEvents[topic[i]].user] : i \in offset + 1..upTo}]
  /\ UNCHANGED <<uebaEvents, kept, publishing, topic, offset, sess, sessRow, access,
                 alertRows, hitRows, socRows, uebaMode, uebaFaults, uebaRestarts>>

\* run_ueba_stream_tick reads some of the records from the offset on.
FetchRecords ==
  /\ uebaMode = "stream" /\ detector.pc = "idle"
  /\ \E upTo \in offset + 1..Len(topic) :
       detector' = [IdleDetector EXCEPT
         !.pc = "tenants", !.upTo = upTo,
         !.tenants = {TenantOf[uebaEvents[topic[i]].user] : i \in offset + 1..upTo}]
  /\ UNCHANGED <<uebaEvents, kept, publishing, topic, offset, sess, sessRow, access,
                 alertRows, hitRows, socRows, uebaMode, uebaFaults, uebaRestarts>>

\* process_persistent_ueba_tenant up to the new alerts: what is kept and
\* what is staged are evaluated, the baselines are saved, and the alerts whose
\* signature is known are left out.
EvaluateTenant(t) ==
  /\ detector.pc = "tenants" /\ t \in detector.tenants
  /\ LET users == {u \in UebaUsers : TenantOf[u] = t}
         new == {a \in EvaluateAlerts(SignalEvents(kept \cup Staged), users) :
                   Signature(a) \notin {Signature(b) : b \in alertRows}}
     IN  detector' = [detector EXCEPT !.pc = "mitigate", !.tenants = @ \ {t},
                        !.alerts = new, !.todo = new]
  /\ UNCHANGED <<uebaEvents, kept, publishing, topic, offset, sess, sessRow, access,
                 alertRows, hitRows, socRows, uebaMode, uebaFaults, uebaRestarts>>

\* Mutant: records that cannot be processed are skipped.
EvaluationFails_Skips ==
  /\ detector.pc = "tenants" /\ detector.tenants # {}
  /\ UebaFault
  /\ detector' = IdleDetector /\ offset' = detector.upTo
  /\ UNCHANGED <<uebaEvents, kept, publishing, topic, sess, sessRow, access,
                 alertRows, hitRows, socRows, uebaMode, uebaRestarts>>

EvaluationFails == detector.pc = "tenants" /\ detector.tenants # {} /\ AbortTick

Mitigated(s, action) ==
  CASE action = TerminateSession /\ ~s.revoked -> [revoked |-> TRUE, stepUp |-> FALSE]
    [] action = StepUpAuth /\ ~s.revoked -> [s EXCEPT !.stepUp = TRUE]
    [] OTHER -> s

\* apply_persistent_mitigations, the sessions in memory: those that change
\* are to be saved.
MitigateSessions ==
  /\ detector.pc = "mitigate"
  /\ sess' = [u \in UebaUsers |-> Mitigated(sess[u], HighestAction(detector.alerts, u))]
  /\ detector' = [detector EXCEPT !.pc = "sessions",
                    !.saving = {u \in UebaUsers : sess'[u] # sess[u]}]
  /\ UNCHANGED <<uebaEvents, kept, publishing, topic, offset, sessRow, access, alertRows,
                 hitRows, socRows, uebaMode, uebaFaults, uebaRestarts>>

SaveActiveSession(u) ==
  /\ detector.pc = "sessions" /\ u \in detector.saving
  /\ sessRow' = [sessRow EXCEPT ![u] = sess[u]]
  /\ detector' = [detector EXCEPT !.saving = @ \ {u}]
  /\ UNCHANGED <<uebaEvents, kept, publishing, topic, offset, sess, access, alertRows,
                 hitRows, socRows, uebaMode, uebaFaults, uebaRestarts>>

SessionSaveFails == detector.pc = "sessions" /\ detector.saving # {} /\ AbortTick

SessionsSaved ==
  /\ detector.pc = "sessions" /\ detector.saving = {}
  /\ detector' = [detector EXCEPT !.pc = "grants"]
  /\ UNCHANGED <<uebaEvents, kept, publishing, topic, offset, sess, sessRow, access,
                 alertRows, hitRows, socRows, uebaMode, uebaFaults, uebaRestarts>>

\* The alerts in their order: users in any order, the rules of one in theirs.
NextAlerts(alerts) ==
  {a \in alerts : \A b \in alerts : b.user = a.user => a.rule <= b.rule}

Signalled(status, action) ==
  CASE action = SuspendPermissions /\ status = "active" -> "suspended"
    [] action = TerminateSession -> "revoked"
    [] OTHER -> status

\* apply_audit_permission_signal_for_user on the grants of the alert's project.
SignalGrants(a) ==
  /\ detector.pc = "grants" /\ a \in NextAlerts(detector.todo)
  /\ access' = [access EXCEPT ![<<a.user, a.project>>] = Signalled(@, a.action)]
  /\ detector' = [detector EXCEPT !.todo = @ \ {a}]
  /\ UNCHANGED <<uebaEvents, kept, publishing, topic, offset, sess, sessRow, alertRows,
                 hitRows, socRows, uebaMode, uebaFaults, uebaRestarts>>

GrantSignalFails ==
  /\ detector.pc = "grants"
  /\ \E a \in detector.todo : a.action >= SuspendPermissions
  /\ AbortTick

GrantsSignalled ==
  /\ detector.pc = "grants" /\ detector.todo = {}
  /\ detector' = [detector EXCEPT !.pc = "alert", !.todo = detector.alerts]
  /\ UNCHANGED <<uebaEvents, kept, publishing, topic, offset, sess, sessRow, access,
                 alertRows, hitRows, socRows, uebaMode, uebaFaults, uebaRestarts>>

\* For each alert its row, its rule hit and a notification of security
\* operations, each a statement of its own; rows are only ever inserted.
SaveUebaAlert(a) ==
  /\ detector.pc = "alert" /\ a \in NextAlerts(detector.todo)
  /\ alertRows' = alertRows \cup {a}
  /\ detector' = [detector EXCEPT !.pc = "hit", !.todo = @ \ {a}, !.current = {a}]
  /\ UNCHANGED <<uebaEvents, kept, publishing, topic, offset, sess, sessRow, access,
                 hitRows, socRows, uebaMode, uebaFaults, uebaRestarts>>

SaveUebaRuleHit ==
  /\ detector.pc = "hit"
  /\ hitRows' = hitRows \cup detector.current
  /\ detector' = [detector EXCEPT !.pc = "notify"]
  /\ UNCHANGED <<uebaEvents, kept, publishing, topic, offset, sess, sessRow, access,
                 alertRows, socRows, uebaMode, uebaFaults, uebaRestarts>>

QueueSocNotification ==
  /\ detector.pc = "notify"
  /\ socRows' = socRows \cup detector.current
  /\ detector' = [detector EXCEPT !.pc = "alert", !.current = {}]
  /\ UNCHANGED <<uebaEvents, kept, publishing, topic, offset, sess, sessRow, access,
                 alertRows, hitRows, uebaMode, uebaFaults, uebaRestarts>>

AlertSaveFails ==
  /\ detector.pc \in {"alert", "hit", "notify"}
  /\ detector.todo \cup detector.current # {}
  /\ AbortTick

TenantDone ==
  /\ detector.pc = "alert" /\ detector.todo = {}
  /\ detector' = [detector EXCEPT !.pc = "tenants", !.alerts = {}]
  /\ UNCHANGED <<uebaEvents, kept, publishing, topic, offset, sess, sessRow, access,
                 alertRows, hitRows, socRows, uebaMode, uebaFaults, uebaRestarts>>

SaveStreamOffset ==
  /\ detector.pc = "tenants" /\ detector.tenants = {}
  /\ \/ offset' = detector.upTo /\ UNCHANGED uebaFaults
     \/ UebaFault /\ UNCHANGED offset
  /\ detector' = IdleDetector
  /\ UNCHANGED <<uebaEvents, kept, publishing, topic, sess, sessRow, access, alertRows,
                 hitRows, socRows, uebaMode, uebaRestarts>>

----

\* legacy_ueba_alerts_handler: without a database the alerts of a tenant are
\* evaluated again for every request, and acted upon in memory.  Only the
\* severest action of a user counts, and no grant is revoked.
LegacyAlerts(t) ==
  /\ uebaMode = "legacy"
  /\ LET alerts == EvaluateAlerts(SignalEvents(kept),
                                  {u \in UebaUsers : TenantOf[u] = t})
         action(u) == HighestAction(alerts, u)
     IN  /\ sess' = [u \in UebaUsers |-> Mitigated(sess[u], action(u))]
         /\ access' = [g \in DOMAIN access |->
              IF action(g[1]) = SuspendPermissions
              THEN Signalled(access[g], SuspendPermissions) ELSE access[g]]
         /\ alertRows' = alertRows \cup alerts
  /\ UNCHANGED <<uebaEvents, kept, publishing, topic, offset, detector, sessRow, hitRows,
                 socRows, uebaMode, uebaFaults, uebaRestarts>>

\* A restart loses what was to be published; sessions are read back.
UebaRestart ==
  /\ uebaMode = "stream"
  /\ uebaRestarts < MaxUebaRestarts
  /\ uebaRestarts' = uebaRestarts + 1
  /\ publishing' = {} /\ detector' = IdleDetector /\ sess' = sessRow
  /\ UNCHANGED <<uebaEvents, kept, topic, offset, sessRow, access, alertRows, hitRows,
                 socRows, uebaMode, uebaFaults>>

Detect ==
  \/ FetchRecords \/ MitigateSessions \/ SessionsSaved \/ GrantsSignalled
  \/ SaveUebaRuleHit \/ QueueSocNotification \/ TenantDone \/ SaveStreamOffset
  \/ \E t \in {TenantOf[u] : u \in UebaUsers} : EvaluateTenant(t)
  \/ \E u \in UebaUsers : SaveActiveSession(u)
  \/ \E a \in detector.todo : SignalGrants(a) \/ SaveUebaAlert(a)

UebaNext ==
  \/ \E u \in UebaUsers, kind \in SignalKinds, p \in UebaProjects : RecordSignal(u, kind, p)
  \/ \E i \in publishing : PublishAuditEvent(i)
  \/ Detect
  \/ EvaluationFails \/ SessionSaveFails \/ GrantSignalFails \/ AlertSaveFails
  \/ \E t \in {TenantOf[u] : u \in UebaUsers} : LegacyAlerts(t)
  \/ UebaRestart

\* The loop runs for as long as the process does, and an error only makes it
\* start over.
UebaFairness == WF_uebaVars(Detect)

UebaSpec == UebaInit /\ [][UebaNext]_uebaVars /\ UebaFairness

----
(* Properties *)

\* The events the loop is done with, as far as they can still be read.
ReadEvents == {topic[i] : i \in 1..offset} \cap kept

\* Whatever failed in between, an alert that is on record was acted upon: the
\* grants of its user in its project are suspended, or revoked, and as long
\* as the process runs a session that had to end has ended.
AlertsEnforced ==
  uebaMode = "stream" => \A a \in alertRows :
    /\ a.action = SuspendPermissions => access[a.user, a.project] # "active"
    /\ a.action = TerminateSession => access[a.user, a.project] = "revoked"
    /\ a.action = TerminateSession /\ uebaRestarts = 0 => sess[a.user].revoked

\* Moving the offset never skips a detection: when a user's kept events
\* before it include a burst of denied queries or of exports, an alert about
\* at least as many is on record.
OffsetCovers ==
  uebaMode = "stream" => \A u \in UebaUsers, r \in {2, 3} :
    LET mine == Of(ReadEvents, u, IF r = 2 THEN "export" ELSE "denied")
    IN  Cardinality(mine) >= (IF r = 2 THEN 3 ELSE 2) =>
          \E a \in alertRows : /\ a.user = u /\ a.rule = r
                               /\ a.count >= Cardinality(mine)

\* Denied queries that were kept and published cost their user the grants
\* of a project in the end, whichever statements of the loop failed.
BurstsMitigated ==
  \A u \in UebaUsers :
    (uebaMode = "stream" /\ Cardinality(Of({topic[i] : i \in DOMAIN topic} \cap kept,
                                           u, "denied")) >= 2)
      ~> (\E p \in UebaProjects : access[u, p] # "active")

\* Detections hold through failures and restarts of the loop: none is skipped
\* by the offset, and none is on record that was not acted upon.
DetectionsHold == UebaTypeOK /\ OffsetCovers /\ AlertsEnforced
=============================================================================
