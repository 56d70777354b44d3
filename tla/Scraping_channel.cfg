SPECIFICATION MCSpec
CONSTANTS
  Versions = {1, 2}
  Right = {1}
  Requests = {q1}
  MaxRequests = 1
  Jobs = {j1, j2}
  Threshold = 2
  MaxFaults = 1
INVARIANTS BreakerHolds 
PROPERTY ActiveIsScraped
CHECK_DEADLOCK FALSE
