--------------------------- MODULE CircuitBreaker ---------------------------
(***************************************************************************)
(* The circuit breaker of the data source adapters                         *)
(* (crates/sdqp-datasource-adapter/src/circuit.rs).  The code keeps one    *)
(* CircuitFailureRecord per source; no record is the same as NoFailures.   *)
(*                                                                         *)
(* Time is abstracted to what the code asks of it.  opened_at is           *)
(*   "none"     None,                                                      *)
(*   "recent"   Some(t) with t.elapsed() <  retry_backoff,                 *)
(*   "elapsed"  Some(t) with t.elapsed() >= retry_backoff.                 *)
(***************************************************************************)
EXTENDS Naturals

CONSTANT Threshold      \* circuit_failure_threshold; 0 turns the breaker off

ASSUME ThresholdAssumption == Threshold \in Nat

Breaker  == [failures : Nat, opened_at : {"none", "recent", "elapsed"}]
Snapshot == [failure_count : Nat, open : BOOLEAN]

\* A source without a record, which is also what record_success leaves.
NoFailures == [failures |-> 0, opened_at |-> "none"]

Allow(b) ==
  \/ Threshold = 0
  \/ b.failures < Threshold
  \/ b.opened_at = "elapsed"

\* Only the failure that reaches the threshold stamps opened_at: the stamp is
\* never renewed, not even by a failure after the backoff has elapsed.
RecordFailure(b) ==
  [failures  |-> b.failures + 1,
   opened_at |-> IF /\ Threshold > 0
                    /\ b.failures + 1 >= Threshold
                    /\ b.opened_at = "none"
                 THEN "recent"
                 ELSE b.opened_at]

SourceSnapshot(b) == [failure_count |-> b.failures, open |-> ~Allow(b)]

\* The clock: retry_backoff has passed since opened_at.
BackoffElapsed(b) == [b EXCEPT !.opened_at = "elapsed"]
=============================================================================
