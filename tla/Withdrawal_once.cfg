SPECIFICATION MCSpec
CONSTANTS
  Withdrawals = {w1, w2}
  Requests = {q1}
  Funds = 1
  MaxStalledCount = 1
  MaxRuns = 2
  MaxCalls = 1
INVARIANTS CoveredOnceADay  
PROPERTY TransferResolved
CHECK_DEADLOCK FALSE
