SPECIFICATION MCSpec
CONSTANTS
  a = a
  b = b
  Clients = {a, b}
  Credits = {e1, e2}
  Owner <- MCOwner
  Workers = {w1, w2}
  Corrections = {r1}
  Invoices = {i1, i2, i3, i4}
  Requests = {q1, q2}
  MinAmount = 1
  MaxAmount = 2
  MonthLimit = 3
  MaxPending = 2
INVARIANTS BalancesExplained 
PROPERTIES DueIsSettled PromiseSpec
CHECK_DEADLOCK FALSE
