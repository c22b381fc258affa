------------------------ MODULE NotificationDelivery ------------------------
(***************************************************************************)
(* Delivery of approval notifications: the last part of                    *)
(* run_governance_tick in apps/sdqp-api/src/stage7_governance.rs over the  *)
(* table notification_deliveries.  Every notification gets a row for each  *)
(* channel; the governance loop posts the rows that are due, one after the *)
(* other, and marks each as sent, to be retried, or failed.                *)
(***************************************************************************)
EXTENDS Integers, Sequences, SequencesExt, FiniteSets

CONSTANTS
  Notices,             \* notifications that are raised
  NoticeChannels,      \* the channels, in the order rows are written
  ConfiguredChannels,  \* channels with an endpoint
  NoticeAttempts,      \* NOTIFICATION_MAX_ATTEMPTS
  MaxNoticeFaults,     \* bound: failed statements
  MaxNoticeRestarts    \* bound: restarts

ASSUME NoticeAssumption ==
  /\ NoticeAttempts \in Nat \ {0}
  /\ ConfiguredChannels \subseteq Range(NoticeChannels)
  /\ MaxNoticeFaults \in Nat /\ MaxNoticeRestarts \in Nat

VARIABLES
  raising,     \* channels a notification is still to be queued for
  delivery,    \* the table
  noticeLoop,  \* the governance loop in this part of a tick
  posted,      \* history: how often a delivery reached its recipient
  tried,       \* history: how often the endpoint was called
  noticeFaults,
  noticeRestarts

noticeVars == <<raising, delivery, noticeLoop, posted, tried, noticeFaults,
                noticeRestarts>>

Deliveries == Notices \X Range(NoticeChannels)

NoRow == [status |-> "none", attempts |-> 0, due |-> FALSE]

Sleeping == [pc |-> "sleep", loaded |-> <<>>, ok |-> FALSE]

NoticesTypeOK ==
  /\ \A d \in Deliveries :
       /\ delivery[d].status \in {"none", "pending", "retryable", "sent", "failed"}
       /\ delivery[d].attempts \in 0..NoticeAttempts
       /\ delivery[d].status = "failed" => delivery[d].attempts = NoticeAttempts
  /\ \A n \in Notices : raising[n] \in {<<"none">>} \cup
                          {SubSeq(NoticeChannels, i, Len(NoticeChannels)) :
                             i \in 1..Len(NoticeChannels) + 1}
  /\ noticeLoop.pc \in {"sleep", "post", "mark"}
  /\ \A i \in DOMAIN noticeLoop.loaded : noticeLoop.loaded[i].id \in Deliveries
  /\ noticeLoop.pc = "mark" => noticeLoop.loaded # <<>>

NoticesInit ==
  /\ raising = [n \in Notices |-> <<"none">>]
  /\ delivery = [d \in Deliveries |-> NoRow]
  /\ noticeLoop = Sleeping
  /\ posted = [d \in Deliveries |-> 0]
  /\ tried = [d \in Deliveries |-> 0]
  /\ noticeFaults = 0
  /\ noticeRestarts = 0

NoticeFault ==
  /\ noticeFaults < MaxNoticeFaults
  /\ noticeFaults' = noticeFaults + 1

----

\* A step of an approval raises a notification, after the instance was saved.
RaiseNotice(n) ==
  /\ raising[n] = <<"none">>
  /\ raising' = [raising EXCEPT ![n] = NoticeChannels]
  /\ UNCHANGED <<delivery, noticeLoop, posted, tried, noticeFaults, noticeRestarts>>

\* queue_notification_delivery: a row for each channel in turn.  When one
\* cannot be written the rest is lost: the instance has moved on.
QueueNotice(n) ==
  /\ raising[n] \notin {<<"none">>, <<>>}
  /\ \/ /\ delivery' = [delivery EXCEPT ![n, Head(raising[n])] =
                          [status |-> "pending", attempts |-> 0, due |-> TRUE]]
        /\ raising' = [raising EXCEPT ![n] = Tail(@)]
        /\ UNCHANGED noticeFaults
     \/ /\ NoticeFault
        /\ raising' = [raising EXCEPT ![n] = <<>>]
        /\ UNCHANGED delivery
  /\ UNCHANGED <<noticeLoop, posted, tried, noticeRestarts>>

\* now passes next_attempt_at.
BackoffPasses(d) ==
  /\ delivery[d].status = "retryable" /\ ~delivery[d].due
  /\ delivery' = [delivery EXCEPT ![d].due = TRUE]
  /\ UNCHANGED <<raising, noticeLoop, posted, tried, noticeFaults, noticeRestarts>>

\* Mutant: what is to be retried is not looked for.
DueNotices_PendingOnly ==
  {[id |-> d, attempts |-> delivery[d].attempts] :
     d \in {e \in Deliveries : delivery[e].status = "pending" /\ delivery[e].due}}

\* load_due_notifications, with the attempts made so far.
DueNotices ==
  {[id |-> d, attempts |-> delivery[d].attempts] :
     d \in {e \in Deliveries : /\ delivery[e].status \in {"pending", "retryable"}
                               /\ delivery[e].due}}

\* A tick comes to its last part; an earlier part that failed ended it.
LoadDueNotices ==
  /\ noticeLoop.pc = "sleep"
  /\ DueNotices # {}
  /\ \/ /\ noticeLoop' = [pc |-> "post", loaded |-> SetToSeq(DueNotices), ok |-> FALSE]
        /\ UNCHANGED noticeFaults
     \/ NoticeFault /\ UNCHANGED noticeLoop
  /\ UNCHANGED <<raising, delivery, posted, tried, noticeRestarts>>

\* send_notification: an endpoint that is not configured is an error at once;
\* an answer other than success is one even if the message was taken.
SendNotice ==
  /\ noticeLoop.pc = "post" /\ noticeLoop.loaded # <<>>
  /\ LET d == Head(noticeLoop.loaded).id
     IN  \E taken, ok \in BOOLEAN :
           /\ ok => taken
           /\ taken => d[2] \in ConfiguredChannels
           /\ posted' = [posted EXCEPT ![d] = IF taken THEN @ + 1 ELSE @]
           /\ tried' = [tried EXCEPT ![d] = @ + 1]
           /\ noticeLoop' = [noticeLoop EXCEPT !.pc = "mark", !.ok = ok]
  /\ UNCHANGED <<raising, delivery, noticeFaults, noticeRestarts>>

\* mark_notification_sent.
Sent(row) == [row EXCEPT !.status = "sent", !.attempts = @ + 1]

\* mark_notification_retry: the count of when the row was loaded, plus one.
Retried(before) ==
  [status |-> IF before + 1 >= NoticeAttempts THEN "failed" ELSE "retryable",
   attempts |-> before + 1, due |-> FALSE]

\* A failure to mark ends the tick; the rest is loaded again by the next.
MarkNotice ==
  /\ noticeLoop.pc = "mark"
  /\ LET next == Head(noticeLoop.loaded)
     IN  \/ /\ delivery' = [delivery EXCEPT ![next.id] =
                              IF noticeLoop.ok THEN Sent(@) ELSE Retried(next.attempts)]
            /\ noticeLoop' = [pc |-> "post", ok |-> FALSE,
                              loaded |-> Tail(noticeLoop.loaded)]
            /\ UNCHANGED noticeFaults
         \/ NoticeFault /\ noticeLoop' = Sleeping /\ UNCHANGED delivery
  /\ UNCHANGED <<raising, posted, tried, noticeRestarts>>

EndTick ==
  /\ noticeLoop.pc = "post" /\ noticeLoop.loaded = <<>>
  /\ noticeLoop' = Sleeping
  /\ UNCHANGED <<raising, delivery, posted, tried, noticeFaults, noticeRestarts>>

NoticeRestart ==
  /\ noticeRestarts < MaxNoticeRestarts
  /\ noticeRestarts' = noticeRestarts + 1
  /\ noticeLoop' = Sleeping
  /\ raising' = [n \in Notices |-> IF raising[n] = <<"none">> THEN <<"none">> ELSE <<>>]
  /\ UNCHANGED <<delivery, posted, tried, noticeFaults>>

NoticeLoopStep == LoadDueNotices \/ SendNotice \/ MarkNotice \/ EndTick

NoticesNext ==
  \/ \E n \in Notices : RaiseNotice(n) \/ QueueNotice(n)
  \/ \E d \in Deliveries : BackoffPasses(d)
  \/ NoticeLoopStep
  \/ NoticeRestart

\* The loop runs for ever and time passes; every endpoint answers.
NoticeFairness ==
  /\ WF_noticeVars(NoticeLoopStep)
  /\ \A d \in Deliveries : WF_noticeVars(BackoffPasses(d))

----

\* What is marked as sent has reached its recipient.
SentWasPosted == \A d \in Deliveries : delivery[d].status = "sent" => posted[d] > 0

\* An endpoint is called NOTIFICATION_MAX_ATTEMPTS times for a delivery and no
\* more, but for once again whenever the result could not be stored.
TriesBounded ==
  \A d \in Deliveries :
    tried[d] <= NoticeAttempts + noticeFaults + noticeRestarts

\* Every row is settled in the end: sent, or failed when its attempts are used
\* up.  One channel that is down does not hold up the others, an endpoint is
\* not called too often, and what is marked as sent was delivered.
DeliveriesSettle ==
  /\ [](NoticesTypeOK /\ SentWasPosted /\ TriesBounded)
  /\ \A d \in Deliveries :
       (delivery[d].status = "pending") ~> (delivery[d].status \in {"sent", "failed"})
=============================================================================
