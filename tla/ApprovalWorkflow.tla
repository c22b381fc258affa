-------------------------- MODULE ApprovalWorkflow --------------------------
(***************************************************************************)
(* Permission applications and their approval: the approval engine         *)
(* (crates/sdqp-approval-engine/src/lib.rs) and the handlers and the loop  *)
(* that run it on the tables permission_applications, approval_instances,  *)
(* approval_actions and permission_grants                                  *)
(* (apps/sdqp-api/src/stage7_governance.rs).                               *)
(*                                                                         *)
(* A handler loads an instance, lets the engine change its copy, and saves *)
(* the whole row, in several statements and without a version check; an    *)
(* action is one statement, with the local computation that precedes it.   *)
(* Notifications are left out: the statement that queues them is the last  *)
(* of each handler.  A handler's reads happen together, at the moment it   *)
(* loads the instance.                                                     *)
(***************************************************************************)
EXTENDS ApproverRouting, FiniteSets

CONSTANTS
  Requests,           \* application ids
  MergeKey,           \* what an application asks for, and for whom
  Applicant,          \* the applicant of all of them
  Callers,            \* users with the role of an approver
  Deputies,           \* users an approver may delegate to
  Calls,              \* concurrent approval callbacks
  Flow,               \* the steps of the approval flow
  Absentees,          \* users who come and go
  MaxCallbacks,       \* bound: callbacks in all
  MaxFaults           \* bound: failed statements and crashes

Selector == [kind : {"User"}, user : Users] \cup [kind : {"Manager"}]
Mode     == {"Serial", "ParallelAll", "AnyOne"}

ASSUME WorkflowAssumption ==
  /\ Requests # {}
  /\ Applicant \in Users
  /\ DOMAIN MergeKey = Requests
  /\ Callers \subseteq Users /\ Deputies \subseteq Users
  /\ Flow \in Seq([mode : Mode, approvers : Seq(Selector),
                   escalation : Selector \cup [kind : {"None"}]])
  /\ Flow # <<>>
  /\ Absentees \subseteq Known
  /\ MaxCallbacks \in Nat
  /\ MaxFaults \in Nat

VARIABLES
  available,  \* the users of the directory that are available
  app,        \* permission_applications.status
  inst,       \* approval_instances
  grants,     \* how many permission_grants an application has
  actions,    \* approval_actions, without the approver
  registry,   \* the API's PermissionRegistry
  submit,     \* submit_persistent_permission_application of a request
  call,       \* approval_callback_handler of a call
  tick,       \* run_governance_tick
  said,       \* history: approvals the engine accepted, with their step
  calls,      \* callbacks so far
  faults      \* faults so far

tables == <<app, inst, grants, actions>>
vars == <<available, app, inst, grants, actions, registry, submit, call, tick,
          said, calls, faults>>

Action == {"approve", "reject", "delegate"}
Status == {"Absent", "Pending", "Active", "Denied"}

Step == [status   : {"Pending", "Escalated", "Approved", "Rejected"},
         pending  : Seq(Users),      \* pending_approvers
         approved : SUBSET Users,    \* approved_by
         assigned : Seq(Users),      \* the routes the step began with
         rerouted : BOOLEAN,         \* routing has grown since
         due      : {"later", "past"}]

Instance == [status : {"Pending", "Approved", "Rejected"},
             current : DOMAIN Flow, steps : Seq(Step)]

NoInstance == [status |-> "None"]

\* current_step_index points at the last step state.
WellFormed(x) ==
  x = NoInstance \/ (x \in Instance /\ x.current = Len(x.steps))

Copy == Instance \cup {NoInstance}

Submission ==
  [pc : {"idle", "restore", "instance", "application", "queue", "refused", "done"},
   found : Requests, copy : Copy]

CallState ==
  [pc : {"idle", "grant", "application", "registry", "action", "instance"},
   request : Requests, action : Action, verdict : {"Pending", "Active", "Denied"},
   copy : Copy]

TypeOK ==
  /\ available \subseteq Known
  /\ app \in [Requests -> Status]
  /\ inst \in [Requests -> Copy] /\ \A r \in Requests : WellFormed(inst[r])
  /\ grants \in [Requests -> Nat]
  /\ actions \subseteq Requests \X Action
  /\ registry \in [Requests -> [status : Status, grants : Nat]]
  /\ submit \in [Requests -> Submission]
  /\ \A r \in Requests : WellFormed(submit[r].copy)
  /\ call \in [Calls -> CallState]
  /\ \A c \in Calls : WellFormed(call[c].copy)
  /\ DOMAIN tick \subseteq Requests
  /\ \A r \in DOMAIN tick : tick[r] \in Copy /\ WellFormed(tick[r])
  /\ said \subseteq Requests \X Users \X DOMAIN Flow
  /\ calls \in 0..MaxCallbacks
  /\ faults \in 0..MaxFaults

IdleCall == [pc |-> "idle", request |-> CHOOSE r \in Requests : TRUE,
             action |-> "approve", verdict |-> "Pending", copy |-> NoInstance]

Init ==
  /\ available = Known
  /\ app = [r \in Requests |-> "Absent"]
  /\ inst = [r \in Requests |-> NoInstance]
  /\ grants = [r \in Requests |-> 0]
  /\ actions = {}
  /\ registry = [r \in Requests |-> [status |-> "Absent", grants |-> 0]]
  /\ submit = [r \in Requests |->
                 [pc |-> "idle", found |-> r, copy |-> NoInstance]]
  /\ call = [c \in Calls |-> IdleCall]
  /\ tick = <<>>
  /\ said = {}
  /\ calls = 0
  /\ faults = 0

Fault ==
  /\ faults < MaxFaults
  /\ faults' = faults + 1

----
(* The engine.  An operation on a copy x of an instance returns the        *)
(* changed copy, or NoInstance for an error.                               *)

\* resolve_selector_candidate
Candidate(sel) ==
  CASE sel.kind = "User"    -> sel.user
    [] sel.kind = "Manager" -> IF Applicant \in Known THEN Manager[Applicant]
                               ELSE Nobody

Resolve(sel) ==
  IF Candidate(sel) = Nobody THEN Nobody
  ELSE Route(Candidate(sel), TRUE, available)

RoutesOf(i) ==
  [k \in DOMAIN Flow[i].approvers |-> Resolve(Flow[i].approvers[k])]

CanBuild(i) == \A k \in DOMAIN RoutesOf(i) : RoutesOf(i)[k] # Nobody

BuildStepState(i) ==
  [status |-> "Pending", pending |-> RoutesOf(i), approved |-> {},
   assigned |-> RoutesOf(i), rerouted |-> FALSE, due |-> "later"]

StartInstance ==
  IF CanBuild(1)
  THEN [status |-> "Pending", current |-> 1, steps |-> <<BuildStepState(1)>>]
  ELSE NoInstance

Current(x) == x.steps[x.current]
WithCurrent(x, s) == [x EXCEPT !.steps[x.current] = s]
Assigned(x, u) == \E k \in DOMAIN Current(x).pending : Current(x).pending[k] = u

\* Mutant: the last step is skipped.
AdvanceTooFar(x) ==
  IF x.current + 1 >= Len(Flow) THEN [x EXCEPT !.status = "Approved"]
  ELSE [x EXCEPT !.current = @ + 1,
                 !.steps = Append(@, BuildStepState(x.current + 1))]

AdvanceInstance(x) ==
  IF x.current = Len(Flow) THEN [x EXCEPT !.status = "Approved"]
  ELSE IF CanBuild(x.current + 1)
  THEN [x EXCEPT !.current = @ + 1,
                 !.steps = Append(@, BuildStepState(x.current + 1))]
  ELSE NoInstance

\* pending_approvers.retain(|approver| approver != actor): the places that
\* are kept, in their order.
Rank(kept, k) == Cardinality({j \in kept : j <= k})

Without(s, u) ==
  LET kept == {k \in DOMAIN s : s[k] # u}
  IN  [i \in 1..Cardinality(kept) |-> s[CHOOSE k \in kept : Rank(kept, k) = i]]

\* Who is still to approve after u did.
StillPending(x, u) ==
  CASE Flow[x.current].mode = "Serial"      -> Tail(Current(x).pending)
    [] Flow[x.current].mode = "ParallelAll" -> Without(Current(x).pending, u)
    [] Flow[x.current].mode = "AnyOne"      -> <<>>

MayApprove(x, u) ==
  /\ x.status = "Pending"
  /\ Assigned(x, u)
  /\ Flow[x.current].mode = "Serial" => Head(Current(x).pending) = u

Approve(x, u) ==
  LET rest == StillPending(x, u)
      s == [Current(x) EXCEPT !.pending = rest, !.approved = @ \cup {u}]
  IN IF ~MayApprove(x, u) THEN NoInstance
     ELSE IF rest # <<>> THEN WithCurrent(x, s)
     ELSE AdvanceInstance(WithCurrent(x, [s EXCEPT !.status = "Approved"]))

\* Nobody asks whether the caller is assigned to the step.
Reject(x) ==
  IF x.status # "Pending" THEN NoInstance
  ELSE [WithCurrent(x, [Current(x) EXCEPT !.status = "Rejected"])
          EXCEPT !.status = "Rejected"]

\* The first place of u among the pending approvers goes to v, or to whom
\* the directory routes v.
DelegateTo(x, u, v) ==
  LET s == Current(x)
      place == CHOOSE k \in DOMAIN s.pending :
                 s.pending[k] = u /\ \A j \in 1..(k - 1) : s.pending[j] # u
      to == Route(v, TRUE, available)
  IN IF x.status # "Pending" THEN NoInstance
     ELSE IF ~Assigned(x, u) \/ to = Nobody THEN NoInstance
     ELSE WithCurrent(x, [s EXCEPT !.pending[place] = to,
                                   !.rerouted = TRUE])

\* Whom an overdue step goes to: the step's escalation, or whoever the
\* directory names in the place of the first pending approver.
EscalationOf(x) ==
  IF Flow[x.current].escalation.kind # "None"
  THEN Resolve(Flow[x.current].escalation)
  ELSE IF Current(x).pending = <<>> THEN Nobody
  ELSE Route(Head(Current(x).pending), FALSE, available)

\* tick_timeouts_with_policy on an overdue step; route.resolved_user_id is
\* never empty, so no step is rejected for its timeout.
TickTimeouts(x) ==
  LET to == EscalationOf(x) IN
  IF to = Nobody THEN NoInstance
  ELSE WithCurrent(x, [Current(x) EXCEPT !.status = "Escalated",
                                         !.pending = <<to>>,
                                         !.rerouted = TRUE,
                                         !.due = "later"])

----
(* submit_persistent_permission_application. *)

SameKey(r) == {p \in Requests : MergeKey[p] = MergeKey[r]}

Submitting(r, pc, copy) ==
  submit' = [submit EXCEPT ![r].pc = pc, ![r].copy = copy]

\* A pending application with the same key is found, to be restored in the
\* registry and returned; otherwise an instance is started.
Submit(r) ==
  /\ submit[r].pc = "idle"
  /\ \/ \E p \in SameKey(r) :
          /\ app[p] = "Pending"
          /\ submit' = [submit EXCEPT ![r].pc = "restore", ![r].found = p]
     \/ /\ \A p \in SameKey(r) : app[p] # "Pending"
        /\ Submitting(r, IF StartInstance = NoInstance THEN "refused"
                         ELSE "instance", StartInstance)
  /\ UNCHANGED <<available, tables, registry, call, tick, said, calls, faults>>

\* What was found pending may have been decided since.
RestoreExisting(r) ==
  /\ submit[r].pc = "restore"
  /\ registry' = [registry EXCEPT ![submit[r].found].status = "Pending"]
  /\ Submitting(r, "done", NoInstance)
  /\ UNCHANGED <<available, tables, call, tick, said, calls, faults>>

\* Mutant: the index is not unique.
AnyKey(r, x) == TRUE

\* idx_approval_instances_active_key: one pending instance per merge key.
KeyFree(r, x) ==
  x.status = "Pending" =>
    \A p \in SameKey(r) \ {r} : inst[p].status # "Pending"

\* The insert is refused when another instance with the key is pending.
SubmitInstance(r) ==
  /\ submit[r].pc = "instance"
  /\ \/ /\ KeyFree(r, submit[r].copy)
        /\ inst' = [inst EXCEPT ![r] = submit[r].copy]
        /\ Submitting(r, "application", NoInstance)
     \/ /\ ~KeyFree(r, submit[r].copy)
        /\ Submitting(r, "refused", NoInstance)
        /\ UNCHANGED inst
  /\ UNCHANGED <<available, app, grants, actions, registry, call, tick, said,
                 calls, faults>>

SubmitApplication(r) ==
  /\ submit[r].pc = "application"
  /\ app' = [app EXCEPT ![r] = "Pending"]
  /\ Submitting(r, "queue", NoInstance)
  /\ UNCHANGED <<available, inst, grants, actions, registry, call, tick, said,
                 calls, faults>>

\* queue_notifications, then restore_application.
SubmitQueue(r) ==
  /\ submit[r].pc = "queue"
  /\ registry' = [registry EXCEPT ![r].status = "Pending"]
  /\ Submitting(r, "done", NoInstance)
  /\ UNCHANGED <<available, tables, call, tick, said, calls, faults>>

\* A statement fails and the handler answers 500; what it has saved stays.
SubmitFails(r) ==
  /\ submit[r].pc \in {"instance", "application", "queue"}
  /\ Fault
  /\ Submitting(r, "refused", NoInstance)
  /\ UNCHANGED <<available, tables, registry, call, tick, said, calls>>

----
(* approval_callback_handler. *)

\* What the engine makes of the instance in the table.
Outcomes(r, u, action) ==
  CASE action = "approve"  -> {Approve(inst[r], u)}
    [] action = "reject"   -> {Reject(inst[r])}
    [] action = "delegate" -> {DelegateTo(inst[r], u, v) : v \in Deputies}

\* What becomes of the application: an approved one is denied when the
\* applicant is not eligible any more.
Verdicts(x) == CASE x.status = "Approved" -> {"Active", "Denied"}
                 [] x.status = "Rejected" -> {"Denied"}
                 [] x.status = "Pending"  -> {"Pending"}

\* Mutant: a denial is not saved with the application.
FirstStatementSkips(verdict) == IF verdict = "Active" THEN "grant" ELSE "action"

FirstStatement(verdict) == CASE verdict = "Active"  -> "grant"
                             [] verdict = "Denied"  -> "application"
                             [] verdict = "Pending" -> "action"

\* load_approval_bundle finds instances that have an application; an error of
\* the engine is answered with 400 and has no effect.
Callback(c, r, u, action) ==
  /\ call[c].pc = "idle"
  /\ calls < MaxCallbacks
  /\ inst[r] # NoInstance /\ app[r] # "Absent"
  /\ \E x \in Outcomes(r, u, action) \ {NoInstance} : \E v \in Verdicts(x) :
       call' = [call EXCEPT ![c] =
         [pc |-> FirstStatement(v), request |-> r, action |-> action,
          verdict |-> v, copy |-> x]]
  /\ said' = IF action = "approve" THEN said \cup {<<r, u, inst[r].current>>}
             ELSE said
  /\ calls' = calls + 1
  /\ UNCHANGED <<available, tables, registry, submit, tick, faults>>

Req(c) == call[c].request
Goto(c, pc) == call' = [call EXCEPT ![c].pc = pc]

SaveGrant(c) ==
  /\ call[c].pc = "grant"
  /\ grants' = [grants EXCEPT ![Req(c)] = @ + 1]
  /\ Goto(c, "application")
  /\ UNCHANGED <<available, app, inst, actions, registry, submit, tick, said,
                 calls, faults>>

SaveApplication(c) ==
  /\ call[c].pc = "application"
  /\ app' = [app EXCEPT ![Req(c)] = call[c].verdict]
  /\ Goto(c, "registry")
  /\ UNCHANGED <<available, inst, grants, actions, registry, submit, tick,
                 said, calls, faults>>

\* restore_application, or activate_application_with_grant, which does
\* nothing for an application that the registry does not know.
UpdateRegistry(c) ==
  LET held == registry[Req(c)] IN
  /\ call[c].pc = "registry"
  /\ registry' = [registry EXCEPT ![Req(c)] =
       CASE call[c].verdict = "Denied" -> [held EXCEPT !.status = "Denied"]
         [] held.status = "Absent"     -> held
         [] OTHER -> [status |-> "Active", grants |-> held.grants + 1]]
  /\ Goto(c, "action")
  /\ UNCHANGED <<available, tables, submit, tick, said, calls, faults>>

SaveAction(c) ==
  /\ call[c].pc = "action"
  /\ actions' = actions \cup {<<Req(c), call[c].action>>}
  /\ Goto(c, "instance")
  /\ UNCHANGED <<available, app, inst, grants, registry, submit, tick, said,
                 calls, faults>>

\* save_approval_instance, an update whatever has become of the row.
SaveInstance(c) ==
  /\ call[c].pc = "instance"
  /\ inst' = IF KeyFree(Req(c), call[c].copy)
             THEN [inst EXCEPT ![Req(c)] = call[c].copy] ELSE inst
  /\ call' = [call EXCEPT ![c] = IdleCall]
  /\ UNCHANGED <<available, app, grants, actions, registry, submit, tick,
                 said, calls, faults>>

CallFails(c) ==
  /\ call[c].pc \in {"grant", "application", "action", "instance"}
  /\ Fault
  /\ call' = [call EXCEPT ![c] = IdleCall]
  /\ UNCHANGED <<available, tables, registry, submit, tick, said, calls>>

----
(* run_governance_tick: escalate the overdue instances, one by one, from   *)
(* the copies loaded at its start.  tick holds the copies still to do.     *)

\* Mutant: a step that has been escalated is not due again.
LoadDueOnce ==
  LET due == {r \in Requests : /\ inst[r].status = "Pending"
                               /\ app[r] # "Absent"
                               /\ Current(inst[r]).status = "Pending"
                               /\ Current(inst[r]).due = "past"} IN
  /\ DOMAIN tick = {}
  /\ due # {}
  /\ tick' = [r \in due |-> inst[r]]
  /\ UNCHANGED <<available, tables, registry, submit, call, said, calls,
                 faults>>

LoadDueApprovalInstances ==
  LET due == {r \in Requests : /\ inst[r].status = "Pending"
                               /\ app[r] # "Absent"
                               /\ Current(inst[r]).due = "past"} IN
  /\ DOMAIN tick = {}
  /\ due # {}
  /\ tick' = [r \in due |-> inst[r]]
  /\ UNCHANGED <<available, tables, registry, submit, call, said, calls,
                 faults>>

\* An instance that cannot be routed, or cannot be saved, ends the tick.
TickInstance(r) ==
  /\ r \in DOMAIN tick
  /\ \E x \in {TickTimeouts(tick[r])} :
       \/ /\ x # NoInstance /\ KeyFree(r, x)
          /\ inst' = [inst EXCEPT ![r] = x]
          /\ tick' = [p \in DOMAIN tick \ {r} |-> tick[p]]
       \/ /\ x = NoInstance \/ ~KeyFree(r, x)
          /\ tick' = <<>>
          /\ UNCHANGED inst
  /\ UNCHANGED <<available, app, grants, actions, registry, submit, call,
                 said, calls, faults>>

TickFails ==
  /\ DOMAIN tick # {}
  /\ Fault
  /\ tick' = <<>>
  /\ UNCHANGED <<available, tables, registry, submit, call, said, calls>>

----
(* The API process dies and comes back, the directory changes, and time    *)
(* passes.                                                                 *)

ApiCrash ==
  /\ Fault
  /\ registry' = [r \in Requests |->
                    [status |-> app[r], grants |-> grants[r]]]
  /\ submit' = [r \in Requests |->
       IF submit[r].pc \in {"restore", "instance", "application", "queue"}
       THEN [pc |-> "refused", found |-> r, copy |-> NoInstance]
       ELSE submit[r]]
  /\ call' = [c \in Calls |-> IdleCall]
  /\ tick' = <<>>
  /\ UNCHANGED <<available, tables, said, calls>>

HrSync(u) ==
  /\ u \in Absentees
  /\ available' = IF u \in available THEN available \ {u}
                  ELSE available \cup {u}
  /\ UNCHANGED <<tables, registry, submit, call, tick, said, calls, faults>>

Overdue(x) == WithCurrent(x, [Current(x) EXCEPT !.due = "past"])

\* due_at of the current step passes, in the table and in the copies of it
\* that callbacks are about to save.
DeadlinePasses(r) ==
  LET Shares(c) == /\ call[c].pc # "idle" /\ Req(c) = r
                   /\ call[c].copy.status = "Pending"
                   /\ call[c].copy.current = inst[r].current IN
  /\ inst[r].status = "Pending"
  /\ Current(inst[r]).due = "later"
  /\ inst' = [inst EXCEPT ![r] = Overdue(@)]
  /\ call' = [c \in Calls |->
       IF Shares(c) THEN [call[c] EXCEPT !.copy = Overdue(@)] ELSE call[c]]
  /\ UNCHANGED <<available, app, grants, actions, registry, submit, tick,
                 said, calls, faults>>

----
SubmitStep(r) ==
  \/ Submit(r) \/ RestoreExisting(r) \/ SubmitInstance(r)
  \/ SubmitApplication(r) \/ SubmitQueue(r)

CallStep(c) ==
  \/ SaveGrant(c) \/ SaveApplication(c) \/ UpdateRegistry(c)
  \/ SaveAction(c) \/ SaveInstance(c)

TickStep == LoadDueApprovalInstances \/ \E r \in Requests : TickInstance(r)

Next ==
  \/ \E r \in Requests : SubmitStep(r) \/ SubmitFails(r) \/ DeadlinePasses(r)
  \/ \E c \in Calls, r \in Requests, u \in Callers :
       \E action \in Action : Callback(c, r, u, action)
  \/ \E c \in Calls : CallStep(c) \/ CallFails(c)
  \/ TickStep \/ TickFails \/ ApiCrash
  \/ \E u \in Absentees : HrSync(u)

Spec == Init /\ [][Next]_vars

\* The governance loop runs for ever.
Fairness == WF_vars(TickStep)

FairSpec == Spec /\ Fairness

----
(* Properties. *)

\* Whoever overwrites whose save, a grant exists only after some assigned
\* approver of every step of the flow has approved that step.
GrantNeedsEveryStep ==
  \A r \in Requests : grants[r] + registry[r].grants > 0 =>
    \A i \in DOMAIN Flow : \E u \in Users : <<r, u, i>> \in said

\* The table never shows an approval nobody gave, and a serial or parallel
\* step that was neither delegated nor escalated is approved only when
\* everyone it was routed to has approved it: a lost save loses approvals,
\* it never forges one.
ApprovalsAreGenuine ==
  \A r \in Requests : inst[r] # NoInstance =>
    \A i \in DOMAIN inst[r].steps :
      LET s == inst[r].steps[i] IN
      /\ \A u \in s.approved : <<r, u, i>> \in said
      /\ /\ s.status = "Approved"
         /\ Flow[i].mode # "AnyOne"
         /\ ~s.rerouted
         => \A k \in DOMAIN s.assigned : s.assigned[k] \in s.approved

\* An instance is closed only after its application has been decided and
\* the action that decided it is on record, whatever fails or crashes
\* in between.
ClosedMeansDecided ==
  \A r \in Requests : inst[r].status \in {"Approved", "Rejected"} =>
    /\ app[r] \in {"Active", "Denied"}
    /\ \E action \in {"approve", "reject"} : <<r, action>> \in actions

\* Concurrent submissions with one merge key never leave two applications
\* pending, although each looks for a pending one before it saves its own.
OnePendingApplication ==
  \A r \in Requests : \A p \in SameKey(r) :
    app[r] = "Pending" /\ app[p] = "Pending" => r = p

\* An overdue step of a submitted application is escalated, or the instance
\* closed, time and again.
OverdueIsEscalated ==
  \A r \in Requests :
    /\ inst[r].status = "Pending"
    /\ Current(inst[r]).due = "past"
    /\ app[r] # "Absent"
    ~> (inst[r].status = "Pending" => Current(inst[r]).due = "later")

\* Why the table tells the truth, in parts, when the approvals given are those
\* in given.  A step holds only approvals that were given, and whoever it was
\* routed to has approved it or is pending.
Genuine(given, r, i, s) ==
  /\ \A u \in s.approved : <<r, u, i>> \in given
  /\ s.status = "Approved" => s.pending = <<>>
  /\ Flow[i].mode # "AnyOne" /\ ~s.rerouted =>
       \A k \in DOMAIN s.assigned :
         \/ s.assigned[k] \in s.approved
         \/ \E j \in DOMAIN s.pending : s.pending[j] = s.assigned[k]

Earned(given, r, i) == \E u \in Users : <<r, u, i>> \in given

\* An instance of r, in the table or a copy of it, has the approvals of the
\* steps it has left behind.
Sound(given, r, x) ==
  x # NoInstance =>
    /\ \A i \in DOMAIN x.steps : Genuine(given, r, i, x.steps[i])
    /\ \A i \in 1..(x.current - 1) : Earned(given, r, i)
    /\ x.status = "Approved" =>
         x.current = Len(Flow) /\ Earned(given, r, x.current)

\* All copies of instances are sound.
CopiesSound ==
  /\ \A r \in Requests : Sound(said, r, inst[r]) /\ Sound(said, r, submit[r].copy)
  /\ \A r \in DOMAIN tick : Sound(said, r, tick[r])
  /\ \A c \in Calls : Sound(said, call[c].request, call[c].copy)

\* Grants of r, given or about to be given, have the approvals of all steps.
GrantsSound ==
  /\ \A r \in Requests : grants[r] + registry[r].grants > 0 =>
       \A i \in DOMAIN Flow : Earned(said, r, i)
  /\ \A c \in Calls :
       /\ call[c].pc = "grant" => call[c].verdict = "Active"
       /\ call[c].pc # "idle" /\ call[c].verdict = "Active" =>
            call[c].copy.status = "Approved"

\* How far a submission has come is what the table has of it.
Submitted(r) ==
  /\ submit[r].pc \in {"idle", "restore", "instance"} =>
       app[r] = "Absent" /\ inst[r] = NoInstance
  /\ submit[r].pc = "instance" => submit[r].copy.status = "Pending"
  /\ submit[r].pc = "application" => app[r] = "Absent" /\ inst[r].status = "Pending"
  /\ app[r] = "Absent" => inst[r].status \in {"None", "Pending"}
  /\ app[r] = "Pending" => inst[r].status = "Pending"
  /\ inst[r].status \in {"Approved", "Rejected"} =>
       /\ app[r] \in {"Active", "Denied"}
       /\ <<r, "approve">> \in actions \/ <<r, "reject">> \in actions

\* How far a callback has come is what the table has of its decision.
Decided(c) ==
  call[c].pc # "idle" =>
    /\ app[Req(c)] # "Absent"
    /\ call[c].copy # NoInstance
    /\ call[c].pc \in {"grant", "application", "registry"} => call[c].verdict # "Pending"
    /\ call[c].copy.status # "Pending" =>
         /\ call[c].action # "delegate"
         /\ call[c].verdict # "Pending"
         /\ call[c].pc \in {"registry", "action", "instance"} =>
              app[Req(c)] \in {"Active", "Denied"}
         /\ call[c].pc = "instance" => <<Req(c), call[c].action>> \in actions

\* idx_approval_instances_active_key.
KeysUnique ==
  \A r, p \in Requests :
    /\ MergeKey[r] = MergeKey[p]
    /\ inst[r].status = "Pending" /\ inst[p].status = "Pending"
    => r = p

\* The tick holds copies of pending instances of applications.
TickPending ==
  \A r \in DOMAIN tick : app[r] # "Absent" /\ tick[r].status = "Pending"

\* The inductive invariant.
WorkflowInv ==
  /\ TypeOK
  /\ CopiesSound
  /\ GrantsSound
  /\ \A r \in Requests : Submitted(r)
  /\ \A c \in Calls : Decided(c)
  /\ TickPending
  /\ KeysUnique

\* Grants are earned: however callbacks and ticks overwrite each other's saves,
\* the table shows no approval that was not given, and no grant exists before
\* every step was approved by somebody assigned to it
\* (approval_callback_handler, run_governance_tick).
GrantsEarned == TypeOK /\ GrantNeedsEveryStep /\ ApprovalsAreGenuine
=============================================================================
