SPECIFICATION MCSpec
CONSTANTS
  Tabs = {t1, t2}
  Reviews = {a1, a2}
  MaxSubmissions = 2
  Requests = {q1, q2}
  MaxRows = 2
  MaxIntents = 2
  MaxWrong = 2
  Handlers = {h1, h2}
  Links = {l1}
  MaxPasswords = 2
  MaxAttempts = 3
  FlipAccounts = {a, b}
  FlipWorker = flip
  StatusWorker = statuses
  Calls = {c1}
  Activation = activation
  Grants = 3
  NoProvider = NoProvider
  NoOne = NoOne
  Invoices = {i1, i2}
  Platform = {i1}
  Executes = {e1, e2}
  Keys = {k}
  MaxFixes = 2
SYMMETRY AccountSymmetry
CONSTRAINT Followed
INVARIANTS ApprovalStands OpenedOnce SecretsHold SessionUsable CreditedOnceByFix
CHECK_DEADLOCK FALSE
