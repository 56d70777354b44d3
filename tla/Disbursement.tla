---------------------------- MODULE Disbursement ----------------------------
(***************************************************************************)
(* Disbursements of one client: transfers to third parties, paid from the  *)
(* disbursement account that Deposit fills.                                *)
(*                                                                         *)
(* The handler compares the balance, debits it and queues a job; the flip  *)
(* worker runs the transfer at Flip and, when a run fails, refunds at      *)
(* once; the status worker asks Flip how a transfer ended and refunds when *)
(* it failed; an admin retries a failed disbursement, which debits again,  *)
(* and verifies.  Transfer-in moves money from the available balance into  *)
(* the account.  Every disbursement is for the same amount and fee.        *)
(***************************************************************************)
EXTENDS Deposit, Sequences, FiniteSets

CONSTANTS
  Disbursements,   \* rows that may ever be created
  Payout,          \* amount of each
  Fee,             \* getDisbursementFee of that amount
  Requests,        \* handlers that debit and can be in progress at once
  Available,       \* balance_available of the client at the start
  MaxStalledCount, \* how often BullMQ restarts a stalled job
  MaxRetries,      \* bound: retries of each disbursement
  MaxCalls         \* bound: verifications between their read and their write

ASSUME DisbursementAssumption ==
  /\ Payout \in Nat \ {0} /\ Fee \in Nat /\ Available \in Nat
  /\ MaxStalledCount \in Nat /\ MaxRetries \in Nat /\ MaxCalls \in Nat

VARIABLES
  row,       \* row of each disbursement; trx is flipTrxId, 0 for null
  charged,   \* debits minus refunds of each disbursement (history)
  retried,   \* how often each was retried (history)
  available, \* balance_available
  request,   \* handlers that debit
  queue,     \* the BullMQ queue "flip"
  worker,    \* the flip worker and the job it runs
  transfers, \* transfers at Flip, per disbursement
  batch,     \* rows the status worker has selected and not yet checked
  calls,     \* verifications between their read and their write
  loose      \* disbursements whose money the code loses track of (history)

money == <<account, row, charged, available>>
ownVars == <<row, charged, retried, available, request, queue, worker, transfers, batch, calls, loose>>
restOfDeposit == <<deposit, topup, credited, handler, checking, contended>>
vars == <<depositVars, ownVars>>

Cost == Payout + Fee

RowStatuses == {"none", "pending", "processing", "success", "failed"}

\* "old": processed_at is more than a day ago.
Row == [status: RowStatuses, trx: Nat, old: BOOLEAN]

Request == [stage: {"idle"}] \cup [stage: {"transfer", "move"}]
             \cup [stage: {"retry", "debited"}, d: Disbursements]

Idle == [stage |-> "idle"]

Job == [d: Disbursements, stalled: 0..MaxStalledCount]

\* "ended": the handler has returned or thrown, BullMQ has not recorded it yet.
Worker == [phase: {"idle"}]
            \cup [phase: {"read", "processing", "ended"}, job: Job]
            \cup [phase: {"transferred"}, job: Job, trx: Nat]

Resting == [phase |-> "idle"]

Call == [d: Disbursements, trx: Nat, status: RowStatuses]

Init ==
  /\ DepositInit
  /\ row = [d \in Disbursements |-> [status |-> "none", trx |-> 0, old |-> FALSE]]
  /\ charged = [d \in Disbursements |-> 0]
  /\ retried = [d \in Disbursements |-> 0]
  /\ available = Available
  /\ request = [q \in Requests |-> Idle]
  /\ queue = <<>>
  /\ worker = Resting
  /\ transfers = [d \in Disbursements |-> <<>>]
  /\ batch = {}
  /\ calls = {}
  /\ loose = {}

-----------------------------------------------------------------------------
(* The two transactions.                                                   *)

Debit(d) ==
  /\ account' = [account EXCEPT !.balance = @ - Cost,
                                !.totalDisbursed = @ + Payout, !.totalFees = @ + Fee]
  /\ charged' = [charged EXCEPT ![d] = charged[d] + 1]
  /\ UNCHANGED available

\* Mutant: the fee stays in the total.
Refunded_KeepsFee ==
  [account EXCEPT !.balance = @ + Cost, !.totalDisbursed = @ - Payout]

\* The account with one disbursement given back.
Refunded ==
  [account EXCEPT !.balance = @ + Cost, !.totalDisbursed = @ - Payout, !.totalFees = @ - Fee]

\* A disbursement fails and is refunded.
Refund(d) ==
  /\ row' = [row EXCEPT ![d].status = "failed"]
  /\ account' = Refunded
  /\ charged' = [charged EXCEPT ![d] = charged[d] - 1]
  /\ UNCHANGED available

\* Readers that will write d whatever it is by then.
Held(d) ==
  \/ \E q \in Requests : request[q] = [stage |-> "retry", d |-> d]
  \/ \E x \in batch : x.d = d
  \/ \E call \in calls : call.d = d

LoosenIfHeld(d) == loose' = IF Held(d) THEN loose \cup {d} ELSE loose

-----------------------------------------------------------------------------
(* Handlers that debit.                                                    *)

\* Mutant: the fee is not counted.
Affords_AmountOnly == account.balance >= Payout

Affords == account.balance >= Cost

\* POST /disbursements/transfer.
TransferRead(q) ==
  /\ request[q] = Idle
  /\ Affords
  /\ request' = [request EXCEPT ![q] = [stage |-> "transfer"]]
  /\ UNCHANGED <<depositVars, row, charged, retried, available, queue, worker, transfers, batch, calls, loose>>

TransferDebit(q, d) ==
  /\ request[q].stage = "transfer"
  /\ row[d].status = "none"
  /\ row' = [row EXCEPT ![d].status = "pending"]
  /\ Debit(d)
  /\ request' = [request EXCEPT ![q] = [stage |-> "debited", d |-> d]]
  /\ UNCHANGED <<restOfDeposit, retried, queue, worker, transfers, batch, calls, loose>>

\* Mutant: the retry trusts the first debit.
Retried_NotCharged(d) == UNCHANGED <<account, charged, available>>

\* The debit of a retry: markDisbursementFailed has refunded the first.
Retried(d) == Debit(d)

\* POST /admin/disbursements/:id/retry.
RetryRead(q, d) ==
  /\ request[q] = Idle
  /\ row[d].status = "failed"
  /\ Affords
  /\ retried[d] < MaxRetries
  /\ request' = [request EXCEPT ![q] = [stage |-> "retry", d |-> d]]
  /\ LoosenIfHeld(d)
  /\ UNCHANGED <<depositVars, row, charged, retried, available, queue, worker, transfers, batch, calls>>

RetryDebit(q) ==
  /\ request[q].stage = "retry"
  /\ LET d == request[q].d
     IN  /\ row' = [row EXCEPT ![d].status = "pending", ![d].trx = 0]
         /\ Retried(d)
         /\ retried' = [retried EXCEPT ![d] = @ + 1]
         /\ request' = [request EXCEPT ![q] = [stage |-> "debited", d |-> d]]
  /\ UNCHANGED <<restOfDeposit, queue, worker, transfers, batch, calls, loose>>

\* The job is added, or the queue fails, or the handler dies first.
EndRequest(q) ==
  /\ request[q].stage = "debited"
  /\ \E added \in {<<>>, <<[d |-> request[q].d, stalled |-> 0]>>} : queue' = queue \o added
  /\ request' = [request EXCEPT ![q] = Idle]
  /\ UNCHANGED <<depositVars, row, charged, retried, available, worker, transfers, batch, calls, loose>>

\* POST /disbursements/transfer-in.
MoveRead(q) ==
  /\ request[q] = Idle
  /\ available >= DepositAmount
  /\ request' = [request EXCEPT ![q] = [stage |-> "move"]]
  /\ UNCHANGED <<depositVars, row, charged, retried, available, queue, worker, transfers, batch, calls, loose>>

MoveIn(q) ==
  /\ request[q].stage = "move"
  /\ available' = available - DepositAmount
  /\ account' = Deposited(DepositAmount)
  /\ request' = [request EXCEPT ![q] = Idle]
  /\ UNCHANGED <<restOfDeposit, row, charged, retried, queue, worker, transfers, batch, calls, loose>>

\* The transaction fails, or the process dies before it.
RequestFails(q) ==
  /\ request[q].stage \in {"transfer", "retry", "move"}
  /\ request' = [request EXCEPT ![q] = Idle]
  /\ UNCHANGED <<depositVars, row, charged, retried, available, queue, worker, transfers, batch, calls, loose>>

-----------------------------------------------------------------------------
(* Flip worker: one job at a time, no second attempt.                      *)

Runnable == {"pending", "failed"}

\* A disbursement that is "failed" has been refunded: the run is not charged.
TakeJob ==
  /\ worker = Resting
  /\ queue # <<>>
  /\ queue' = Tail(queue)
  /\ LET d == Head(queue).d
     IN  /\ worker' = IF row[d].status \in Runnable
                      THEN [phase |-> "read", job |-> Head(queue)]
                      ELSE Resting
         /\ loose' = IF row[d].status = "failed" THEN loose \cup {d} ELSE loose
  /\ UNCHANGED <<depositVars, row, charged, retried, available, request, transfers, batch, calls>>

MarkProcessing ==
  /\ worker.phase = "read"
  /\ row' = [row EXCEPT ![worker.job.d].status = "processing"]
  /\ worker' = [worker EXCEPT !.phase = "processing"]
  /\ UNCHANGED <<depositVars, charged, retried, available, request, queue, transfers, batch, calls, loose>>

\* Flip accepts the transfer, or answers with an earlier one of the same idempotency key.
Transfer ==
  /\ worker.phase = "processing"
  /\ LET d == worker.job.d
         k == Len(transfers[d]) + 1
     IN  \E trx \in 1..k :
           /\ transfers' = IF trx = k THEN [transfers EXCEPT ![d] = Append(@, "PENDING")]
                                      ELSE transfers
           /\ worker' = [phase |-> "transferred", job |-> worker.job, trx |-> trx]
  /\ UNCHANGED <<depositVars, row, charged, retried, available, request, queue, batch, calls, loose>>

SaveTrx ==
  /\ worker.phase = "transferred"
  /\ row' = [row EXCEPT ![worker.job.d] =
               [status |-> "processing", trx |-> worker.trx, old |-> FALSE]]
  /\ worker' = [phase |-> "ended", job |-> worker.job]
  /\ UNCHANGED <<depositVars, charged, retried, available, request, queue, transfers, batch, calls, loose>>

\* markDisbursementFailed, whose own error is swallowed.  After the transfer (the
\* answer is lost or has no id) the refund is for money that may have left.
RunFails ==
  /\ worker.phase \in {"processing", "transferred"}
  /\ Refund(worker.job.d) \/ UNCHANGED money
  /\ loose' = IF worker.phase = "transferred" THEN loose \cup {worker.job.d} ELSE loose
  /\ worker' = [phase |-> "ended", job |-> worker.job]
  /\ UNCHANGED <<restOfDeposit, retried, request, queue, transfers, batch, calls>>

\* At "read" when the first write fails: nothing catches that.
JobEnds ==
  /\ worker.phase \in {"read", "ended"}
  /\ worker' = Resting
  /\ UNCHANGED <<depositVars, row, charged, retried, available, request, queue, transfers, batch, calls, loose>>

\* The process dies; BullMQ puts the stalled job back at the head, or fails it.
Crash ==
  /\ worker # Resting
  /\ queue' = IF worker.job.stalled < MaxStalledCount
              THEN <<[worker.job EXCEPT !.stalled = @ + 1]>> \o queue
              ELSE queue
  /\ worker' = Resting
  /\ UNCHANGED <<depositVars, row, charged, retried, available, request, transfers, batch, calls, loose>>

-----------------------------------------------------------------------------
(* Flip, the status worker and the admin's verification.                   *)

FlipSettles(d, k) ==
  /\ k \in DOMAIN transfers[d]
  /\ transfers[d][k] = "PENDING"
  /\ \E s \in {"DONE", "FAILED"} : transfers' = [transfers EXCEPT ![d][k] = s]
  /\ UNCHANGED <<depositVars, row, charged, retried, available, request, queue, worker, batch, calls, loose>>

\* A day has passed since processed_at.
DayPasses(d) ==
  /\ row[d].trx # 0 /\ ~row[d].old
  /\ row' = [row EXCEPT ![d].old = TRUE]
  /\ UNCHANGED <<depositVars, charged, retried, available, request, queue, worker, transfers, batch, calls, loose>>

RecentDisbursements ==
  {d \in Disbursements : row[d].status = "processing" /\ row[d].trx # 0 /\ ~row[d].old}

StatusSelect ==
  /\ batch = {}
  /\ RecentDisbursements # {}
  /\ batch' = {[d |-> d, trx |-> row[d].trx] : d \in RecentDisbursements}
  /\ loose' = loose \cup {d \in RecentDisbursements : Held(d)}
  /\ UNCHANGED <<depositVars, row, charged, retried, available, request, queue, worker, transfers, calls>>

\* getTransferStatus.
OutcomeOf(d, trx) == transfers[d][trx]

Confirm(d) == row' = [row EXCEPT ![d].status = "success"] /\ UNCHANGED <<account, charged, available>>

CheckTransfer(x) ==
  /\ x \in batch
  /\ batch' = batch \ {x}
  /\ \/ OutcomeOf(x.d, x.trx) = "DONE" /\ Confirm(x.d)
     \/ OutcomeOf(x.d, x.trx) = "FAILED" /\ Refund(x.d)
     \/ OutcomeOf(x.d, x.trx) = "PENDING" /\ UNCHANGED money
  /\ UNCHANGED <<restOfDeposit, retried, request, queue, worker, transfers, calls, loose>>

CheckFails(x) ==
  /\ x \in batch
  /\ batch' = batch \ {x}
  /\ UNCHANGED <<depositVars, row, charged, retried, available, request, queue, worker, transfers, calls, loose>>

\* POST /admin/disbursements/:id/check-flip.
VerifyRead(d) ==
  /\ row[d].trx # 0
  /\ Cardinality(calls) < MaxCalls
  /\ calls' = calls \cup {[d |-> d, trx |-> row[d].trx, status |-> row[d].status]}
  /\ LoosenIfHeld(d)
  /\ UNCHANGED <<depositVars, row, charged, retried, available, request, queue, worker, transfers, batch>>

VerifyWrite(call) ==
  /\ call \in calls
  /\ calls' = calls \ {call}
  /\ LET outcome == OutcomeOf(call.d, call.trx)
         done == outcome = "DONE" /\ call.status # "success"
         failed == outcome = "FAILED" /\ call.status # "failed"
     IN  \/ done /\ Confirm(call.d)
         \/ failed /\ Refund(call.d)
         \/ ~done /\ ~failed /\ UNCHANGED money
  /\ UNCHANGED <<restOfDeposit, retried, request, queue, worker, transfers, batch, loose>>

-----------------------------------------------------------------------------
Handle ==
  \E q \in Requests :
    \/ TransferRead(q) \/ RetryDebit(q) \/ EndRequest(q) \/ MoveRead(q) \/ MoveIn(q)
    \/ RequestFails(q)
    \/ \E d \in Disbursements : TransferDebit(q, d) \/ RetryRead(q, d)

FlipWorker ==
  TakeJob \/ MarkProcessing \/ Transfer \/ SaveTrx \/ RunFails \/ JobEnds \/ Crash

Flip == \E d \in Disbursements : \E k \in DOMAIN transfers[d] : FlipSettles(d, k)

StatusWorker == StatusSelect \/ \E x \in batch : CheckTransfer(x) \/ CheckFails(x)

Verify ==
  (\E d \in Disbursements : VerifyRead(d)) \/ \E call \in calls : VerifyWrite(call)

Next ==
  \/ DepositNext /\ UNCHANGED ownVars
  \/ Handle \/ FlipWorker \/ Flip \/ StatusWorker \/ Verify
  \/ \E d \in Disbursements : DayPasses(d)

Spec == Init /\ [][Next]_vars

-----------------------------------------------------------------------------
(* Properties.                                                             *)

TypeOK ==
  /\ DepositTypeOK
  /\ row \in [Disbursements -> Row]
  /\ charged \in [Disbursements -> Int]
  /\ retried \in [Disbursements -> Nat]
  /\ available \in Int
  /\ request \in [Requests -> Request]
  /\ queue \in Seq(Job)
  /\ worker \in Worker
  /\ worker.phase = "transferred" => worker.trx \in 1..Len(transfers[worker.job.d])
  /\ transfers \in [Disbursements -> Seq({"PENDING", "DONE", "FAILED"})]
  /\ \A d \in Disbursements : row[d].trx \in 0..Len(transfers[d])
  /\ batch \subseteq [d : Disbursements, trx : Nat]
  /\ \A x \in batch : x.trx \in 1..Len(transfers[x.d])
  /\ calls \subseteq Call
  /\ \A call \in calls : call.trx \in 1..Len(transfers[call.d])
  /\ loose \subseteq Disbursements

\* The totals of the account explain its balance, through every deposit, debit and
\* refund, double ones included.
AccountAdds ==
  account.balance = account.totalDeposited - account.totalDisbursed - account.totalFees

\* Neither balance is overdrawn by handlers that do not overlap each other.
BalanceCovered == account.balance >= 0 /\ available >= 0

\* Transfers of d that have left or may.
Out(d) == {k \in DOMAIN transfers[d] : transfers[d][k] # "FAILED"}

\* A disbursement is charged once, and not at all when it has failed, and it is
\* charged if a transfer of it has left or may: through failed runs, retries,
\* restarted jobs and late answers.  Not for one that was in two hands at once, that
\* ran again although refunded, or whose run failed after Flip accepted it.
ChargedAsSent ==
  \A d \in Disbursements \ loose :
    /\ charged[d] = (IF row[d].status \in {"none", "failed"} THEN 0 ELSE 1)
    /\ \A k \in Out(d) : charged[d] = 1 /\ \A l \in Out(d) : k = l

\* Only a transfer that Flip completed makes a disbursement "success".
SuccessIsPaid ==
  \A d \in Disbursements :
    row[d].status = "success" => \E k \in DOMAIN transfers[d] : transfers[d][k] = "DONE"

\* The rows tell what was charged and what was paid.
TransfersExplained == ChargedAsSent /\ SuccessIsPaid

-----------------------------------------------------------------------------
(* What the sources say and the program does not do.                       *)

\* The outcome is Flip's to tell: what may still go through has not been refunded, and
\* what was refunded is charged again before it is sent.
SentIsCharged ==
  \A d \in Disbursements :
    Out(d) # {} => charged[d] > 0
=============================================================================
