-------------------------- MODULE QueryTaskPromise --------------------------
(***************************************************************************)
(* What the query API promises of a task when the queries run in its own   *)
(* process, without saying how: what crates/sdqp-datasource-adapter/src/   *)
(* task.rs names the states of a task, and nothing of requests, snapshots, *)
(* rows and caches.  InProcessQuery implements it.                         *)
(***************************************************************************)
CONSTANT Tasks

VARIABLES
  status,   \* the state the registry reports
  outcomes  \* the final states each task has had so far

Final == {"completed", "failed", "cancelled"}

Init ==
  /\ status = [t \in Tasks |-> "none"]
  /\ outcomes = [t \in Tasks |-> {}]

Becomes(t, s) ==
  /\ status' = [status EXCEPT ![t] = s]
  /\ outcomes' = [outcomes EXCEPT ![t] = IF s \in Final THEN @ \union {s} ELSE @]

Submit(t) == status[t] = "none" /\ Becomes(t, "pending")

\* A cancellation is a wish: the request that started the task may overtake it.
Start(t) == status[t] \in {"pending", "cancelled"} /\ Becomes(t, "running")

Cancel(t) == status[t] \in {"pending", "running"} /\ Becomes(t, "cancelled")

\* Completed and failed are final; cancelled may still be replaced by them.
Finish(t) ==
  \E s \in {"completed", "failed"} :
    status[t] \in {"pending", "running", "cancelled"} /\ Becomes(t, s)

\* A restart leaves nothing in flight and invents no success: a task is
\* forgotten, failed, or in a final state it has had.
Restart ==
  /\ \E after \in [Tasks -> Final \union {"none"}] :
       /\ \A t \in Tasks : after[t] \in {"none", "failed"} \union outcomes[t]
       /\ status' = after
       /\ outcomes' = [t \in Tasks |-> outcomes[t] \union ({after[t]} \ {"none"})]

Next == (\E t \in Tasks : Submit(t) \/ Start(t) \/ Cancel(t) \/ Finish(t)) \/ Restart

\* What runs comes to an end.
Settles == \A t \in Tasks : status[t] = "running" ~> status[t] # "running"

Safety == Init /\ [][Next]_<<status, outcomes>>

Spec == Safety /\ Settles
=============================================================================
