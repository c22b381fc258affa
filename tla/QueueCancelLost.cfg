\* A cancellation answered OK, against the sync loop.
CONSTANTS
  t1 = t1
  t2 = t2
  Tasks = {t1, t2}
  Workers = {w1, w2}
  Priority <- Equal
  CacheKey <- OneKey
  Cancels = {c1, c2}
  Asks <- AsksT1
  MaxAttempts = 2
  MaxApiFaults = 0
  MaxAuditFaults = 0
  MaxWorkerFaults = 0
  Threshold = 2
SPECIFICATION MCSpec
INVARIANTS
  AcceptedCancelHolds
