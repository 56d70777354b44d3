SPECIFICATION MCSpec
CONSTANTS
  NumInvoices = 2
  SubInvoices = {2}
  Mutations = {m1, m2}
  Channels = {c1}
  Charges = {x1}
  None = None
  MaxAttempts = 2
  JobAttempts = 2
  MaxStalledCount = 0
  Concurrency = 2
  MaxCalls = 1
  EnqueueFaults = FALSE
  QueryFaults = FALSE
  PublishFaults = FALSE
  Stalls = FALSE
  AdminMatches = FALSE
INVARIANTS EachMutationPaysOnce NoMutationStranded
PROPERTY JobsComplete
CHECK_DEADLOCK FALSE
