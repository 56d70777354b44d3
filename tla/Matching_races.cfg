SPECIFICATION MCSpec
CONSTANTS
  NumInvoices = 2
  SubInvoices = {2}
  Mutations = {m1}
  Channels = {c1}
  Charges = {x1, x2}
  None = None
  MaxAttempts = 2
  JobAttempts = 2
  MaxStalledCount = 1
  Concurrency = 2
  MaxCalls = 2
  EnqueueFaults = TRUE
  QueryFaults = TRUE
  PublishFaults = TRUE
  Stalls = TRUE
  AdminMatches = TRUE
  High = 1
  Medium = 2
  Low = 3
  HighTimeout = 2
  BackOffs = {4}
  MaxJobs = 2
  Pages = {"invoices", "overview", "balance"}
  Changes = {p1, p2}
  Views = {v1, v2}
  FirstView = v1
  MaxLoads = 2
INVARIANTS EffectsFollowPayment  PromptIsKept 
SYMMETRY Symmetry
CHECK_DEADLOCK FALSE
