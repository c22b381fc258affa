-------------------------- MODULE MCInProcessQuery --------------------------
(* A small instance of the API that runs queries itself. *)
EXTENDS InProcessQuery

\* Two grants that allow different fields of different rows.
MCGranted ==
  <<[allowed |-> {"name", "mail"}, denied |-> {}, select |-> {1}, from |-> 1, until |-> 3],
    [allowed |-> {"name"}, denied |-> {"mail"}, select |-> {2}, from |-> 2, until |-> 4]>>

MCRequests == {{"name"}, {"name", "mail"}}

Watched == Cardinality({s \in Sockets : socket[s].task # NoSnapshot})

\* Task 1 runs as it is; when it is over task 2, which may find its result in
\* the cache, is cancelled, or watched, or meets faults.  Grants change
\* between the two.
InProcStep ==
  /\ InProcNext
  /\ queryFaults' + queryRestarts' + 2 * Watched' <= 2
  /\ canceller'[1].pc = "idle"
  /\ \A s \in Sockets : socket'[s].task # 1
  /\ job[1].pc # "over" => canceller'[2].pc = "idle" /\ Watched' = 0
  /\ grantChanges' # grantChanges => \A t \in Tasks : job[t].pc \in {"idle", "over"}

InProcInstance == InProcInit /\ [][InProcStep]_queryVars /\ InProcFairness
=============================================================================
