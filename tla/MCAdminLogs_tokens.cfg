CONSTANTS
  Clients = {c1}
  Observed = c1
  Tokens = {t1}
  Unset = Unset
  Bad = Bad
  Junk = Junk
  Requests <- MCTokenRequests
  Environments <- MCEnvironment
  Tables <- MCTables
  Elsewhere = {"WARN"}
  pageSize = 2
  IntLimit = 8
  IntervalLength <- MCIntervals
  MaxRecords = 5
  MaxTime = 1
  MaxAbandoned = 1
SPECIFICATION Spec
INVARIANTS
  TokensStayOutOfLogs
