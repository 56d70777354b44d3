SPECIFICATION Spec
CONSTANTS
  Invoices = {1, 2}
  High = 1
  Medium = 2
  Low = 3
  HighTimeout = 2
  BackOffs = {4}
  MaxJobs = 2
INVARIANT ConfirmedIsPrompt
CHECK_DEADLOCK FALSE
