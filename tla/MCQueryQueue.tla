---------------------------- MODULE MCQueryQueue ----------------------------
(* Small instances of the durable query queue: two tasks that nobody       *)
(* cancels, and one that is cancelled at any time, twice; part says which. *)
EXTENDS QueryQueue, TLC

CONSTANTS t1, t2

VARIABLE part

\* QueryPriorityLevel::Low for all of them.
Equal == [t \in Tasks |-> 25]

\* All tasks ask the same query.
OneKey == [t \in Tasks |-> "query"]

\* Every request is to cancel the same task.
AsksT1 == [c \in Cancels |-> t1]

MCInit == Init /\ part \in {"outcomes", "cancels", "again"}

\* Nobody cancels; the API and a worker may fail once each.
OutcomesPart ==
  /\ part = "outcomes"
  /\ Next
  /\ cancel' = cancel /\ faults'.audit = 0

\* One task, cancelled once; its audit event may be lost too.
CancelsPart ==
  /\ part = "cancels"
  /\ Next
  /\ submit'[t2] = "idle"
  /\ \E c \in Cancels : cancel'[c].pc = "idle"

\* One task, cancelled twice, without faults.
AgainPart ==
  /\ part = "again"
  /\ Next
  /\ submit'[t2] = "idle" /\ faults' = faults

\* The requests are alike, and so are the workers.
Alike == Permutations(Cancels) \cup Permutations(Workers)

MCNext == (OutcomesPart \/ CancelsPart \/ AgainPart) /\ part' = part

MCSpec == MCInit /\ [][MCNext]_<<vars, part>>
=============================================================================
