SPECIFICATION MCSpec
CONSTANTS
  Invoices = {i1, i2}
  Requests = {r1, r2}
  MaxTime = 2
  MaxRows = 4
  MaxFaults = 1
  Endpoints = {e1, e2}
  MaxAttempts = 2
  MaxStalls = 1
  MaxEdits = 1
  MaxMishaps = 1
INVARIANTS SubscriptionAgrees DeliveryIsLogged
PROPERTIES OverdueEnds ListenersAreServed
CHECK_DEADLOCK FALSE
