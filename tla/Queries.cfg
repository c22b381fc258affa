\* What must eventually happen to a query, in scheduler, queue and API.
CONSTANTS
  Tasks = {1, 2}
  Granted <- MCGranted
  Requests <- MCRequests
  Sockets = {s1}
  MaxGrantChanges = 1
  MaxQueryFaults = 1
  MaxQueryRestarts = 1
SPECIFICATION MCSpec
PROPERTIES
  QueriesTerminate
  EveryTaskSettles
  KeepsPromise
  StreamsTold
CHECK_DEADLOCK FALSE
