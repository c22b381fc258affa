------------------------ MODULE MCAdapterScheduler ------------------------
(* Small instances of the adapter scheduler: queries among themselves, and *)
(* queries beside an administrator; part says which.                       *)
EXTENDS AdapterScheduler, TLC

VARIABLE part

MCInit == Init /\ part \in {"queries", "admin"}

\* Every task may be submitted and retried, and two of them cancelled; nobody
\* administers.
QueriesPart ==
  /\ part = "queries"
  /\ Next
  /\ Cardinality({t \in Tasks : cancelled'[t]}) <= 2
  /\ admin' = admin /\ \A s \in Sources : runtime'[s].epoch = runtime[s].epoch

\* Two tasks with one attempt each, one of which may fail, while an
\* administrator registers the adapter again and starts, stops and probes
\* it; a user cancels only before anything else was cancelled, and a probe
\* runs beside one task.
AdminPart ==
  /\ part = "admin"
  /\ Next
  /\ Cardinality({t \in Tasks : tstate'[t] # "Absent"}) <= 2
  /\ (\E a \in Admins : admin'[a].op \in {"checking", "reporting"})
       => Cardinality({t \in Tasks : tstate'[t] # "Absent"}) <= 1
  /\ \A t \in Tasks : attempts'[t] <= 1
  /\ \A s \in Sources : breaker'[s].failures <= 1
  /\ cancelled' # cancelled /\ admin' = admin => \A t \in Tasks : ~cancelled[t]

MCNext == (QueriesPart \/ AdminPart) /\ part' = part

MCSpec == MCInit /\ [][MCNext]_<<vars, part>>

TaskSymmetry == Permutations(Tasks)
=============================================================================
