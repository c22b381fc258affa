\* Two tasks nobody cancels, and one that is cancelled twice; faults of the API,
\* its audit log and a worker.
CONSTANTS
  t1 = t1
  t2 = t2
  Tasks = {t1, t2}
  Workers = {w1, w2}
  Priority <- Equal
  CacheKey <- OneKey
  Cancels = {c1, c2}
  Asks <- AsksT1
  MaxAttempts = 2
  MaxApiFaults = 1
  MaxAuditFaults = 1
  MaxWorkerFaults = 1
  Threshold = 2
SYMMETRY Alike
SPECIFICATION MCSpec
INVARIANTS
  ClaimsExclusive
  OutcomesReported
PROPERTY
  OutcomeIsFinal
CHECK_DEADLOCK FALSE
