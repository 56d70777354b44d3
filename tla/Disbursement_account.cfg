SPECIFICATION MCSpec
CONSTANTS
  MaxDeposits = 2
  DepositAmount = 1
  Handlers = {h1, h2}
  Opening = 1
  WorkerSees = TRUE
  Disbursements = {b1}
  Payout = 1
  Fee = 1
  Requests = {q1}
  Available = 1
  MaxStalledCount = 1
  MaxRetries = 1
  MaxCalls = 1
  Dialogs = {"deposit", "topup"}
  NoDepositId = 0
  MaxAnswers = 1
  Forms = {"withdrawal", "transfer", "admin", "channel"}
  Targets = {a1, a2}
  Nobody = Nobody
  MaxTokens = 2
  Accounts = {f1, f2}
  NoAccount = NoAccount
  MaxRequests = 2
INVARIANTS AccountAdds BalanceCovered CreditedAsPaid TransfersExplained DialogsTell 
CHECK_DEADLOCK FALSE
