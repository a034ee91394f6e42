CONSTANTS
  a1 = a1
  a2 = a2
  ag1 = ag1
  ag2 = ag2
  Absent = Absent
  Junk = Junk
  Accounts = {a1, a2}
  Blocks <- MCBlocks
  MaxHeight = 3
  Depths = {1, 3}
  Waiters = {w1}
  Targets = {2}
  FailureBudget = 1
  RestartBudget = 1
  MaxLimit = 2
  DefaultLimit = 1
  Requests <- MCRequests
  Sockets = {w1, w2}
  NoSocket = NoSocket
  MaxHead = 1
  SlowEvery = 2
  Kinds = {All, slash}
  All = All
  Nil = Nil
SPECIFICATION BothSpec
CHECK_DEADLOCK FALSE
INVARIANTS WindowHasNoHole SeenRangeIsExact PagingMissesNothing
PROPERTIES  PollingGoesOn
