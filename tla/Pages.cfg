SPECIFICATION MCSpec
CONSTANTS
  Invoices = {i1, i2}
  Amount <- EqualAmounts
  Codes <- MCCodes
  MaxCode = 2
  Channels = {k1}
  Requests = {r1, r2}
  MaxRetries = 2
  None = None
  Link = 2
  Window = 2
  MaxTime = 4
  Tabs = {t1, t2}
  People = {admin, b}
  Admin = admin
  Client = cl
  NoOne = NoOne
  MaxSignIns = 2
  Clients = {m1, m2}
  MaxIds = 2
  Numbers = {n1, n2}
  MaxPlan = 1
INVARIANTS CodesStand PageTells ActsAsShown ChannelsHold
SYMMETRY Symmetry
CHECK_DEADLOCK FALSE
