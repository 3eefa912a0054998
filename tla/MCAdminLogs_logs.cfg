CONSTANTS
  Clients = {c1, c2}
  Observed = c1
  Tokens = {t1}
  Unset = Unset
  Bad = Bad
  Junk = Junk
  Requests <- MCRequests
  Environments <- MCEnvironments
  Tables <- MCTables
  Elsewhere = {"WARN"}
  pageSize = 2
  IntLimit = 8
  IntervalLength <- MCIntervals
  MaxRecords = 4
  MaxTime = 1
  MaxAbandoned = 1
SPECIFICATION Spec
INVARIANTS
  NothingOverlooked
  ClearedIsAsTold
  ClearLeavesTrace
  AdminIsClosed
  TokensLeakOnlyThere
  Inductive
