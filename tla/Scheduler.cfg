\* Three queries on one adapter with one permit; two of them while an
\* administrator registers the adapter again and starts, stops and probes it.
CONSTANTS
  Sources = {s1}
  Started = {s1}
  Tasks = {t1, t2, t3}
  Admins = {a1}
  Concurrency = 1
  MaxAttempts = 2
  MaxRegistrations = 2
  Threshold = 2
SPECIFICATION MCSpec
INVARIANTS
  TypeOK
  PermitConservation
  GaugesFaithful
  AttemptsBounded
  CancelStopsRetries
SYMMETRY TaskSymmetry
CHECK_DEADLOCK FALSE
