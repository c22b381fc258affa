\* The same fields are asked for before and after one of two grants ends.
CONSTANTS
  Tasks = {1, 2}
  Granted <- MCGranted
  Requests <- MCRequests
  Sockets = {s1}
  MaxGrantChanges = 1
  MaxQueryFaults = 0
  MaxQueryRestarts = 0
SPECIFICATION InProcInstance
INVARIANT CacheRespectsGrants
CHECK_DEADLOCK FALSE
