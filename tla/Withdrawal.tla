----------------------------- MODULE Withdrawal -----------------------------
(***************************************************************************)
(* Withdrawals of one merchant, from the request to the bank.              *)
(*                                                                         *)
(* The merchant submits a withdrawal: the handler checks the day, the open *)
(* withdrawals and the balance, then debits the balance and queues a job.  *)
(* The flip worker (one job at a time) runs the transfer at the provider,  *)
(* Flip; the status worker asks Flip how it ended and, when it failed,     *)
(* refunds.  An admin creates, queues, rejects and verifies by hand.  No   *)
(* write depends on the values that were read before it.                   *)
(*                                                                         *)
(* A submission needs a one-time token and the password; they say who may  *)
(* submit, not what a submission does, and are always at hand here.        *)
(*                                                                         *)
(* Every withdrawal is for the same amount, the unit of "balance", and     *)
(* nothing else is credited to or taken from that balance.                 *)
(***************************************************************************)
EXTENDS Integers, Sequences, FiniteSets

CONSTANTS
  Withdrawals,     \* rows that may ever be created
  Requests,        \* creating handlers that can be in progress at once
  Funds,           \* balance_available at the start
  MaxStalledCount, \* how often BullMQ restarts a stalled job
  MaxRuns,         \* bound: runs of the flip worker an admin can cause
  MaxCalls         \* bound: admin handlers between their read and their write

ASSUME WithdrawalAssumption ==
  /\ Funds \in Nat /\ MaxStalledCount \in Nat
  /\ MaxRuns \in Nat /\ MaxCalls \in Nat

VARIABLES
  row,       \* row of each withdrawal; trx is flipTrxId, 0 for null
  balance,   \* balance_available
  today,     \* withdrawals requested since midnight
  refunds,   \* ledger rows that give each withdrawal back
  request,   \* creating handlers
  queue,     \* the BullMQ queue "flip"
  worker,    \* the flip worker and the job it runs
  transfers, \* transfers at Flip, per withdrawal
  batch,     \* rows the status worker has selected and not yet checked
  calls,     \* admin handlers between their read and their write
  touched    \* withdrawals an admin acted on, or run again when failed (history)

money == <<balance, refunds>>
vars == <<row, money, today, request, queue, worker, transfers, batch,
          calls, touched>>

Statuses == {"none", "pending", "processing", "processed", "failed", "rejected"}

Row == [status: Statuses, retryCount: Nat, trx: Nat]

Request == [stage: {"idle", "checked"}, by: {"client", "admin"}]
             \cup [stage: {"debited"}, w: Withdrawals]

Job == [w: Withdrawals, stalled: 0..MaxStalledCount]

\* "ended": the handler has returned or thrown, BullMQ has not recorded it yet.
Worker == [phase: {"idle"}]
            \cup [phase: {"read", "processing", "transferred", "ended"}, job: Job]

Idle == [stage |-> "idle", by |-> "client"]

Resting == [phase |-> "idle"]

Call == [op: {"reject"}, w: Withdrawals]
          \cup [op: {"verify"}, w: Withdrawals, trx: Nat, status: Statuses]

Init ==
  /\ row = [w \in Withdrawals |-> [status |-> "none", retryCount |-> 0, trx |-> 0]]
  /\ balance = Funds
  /\ refunds = [w \in Withdrawals |-> 0]
  /\ today = {}
  /\ request = [q \in Requests |-> Idle]
  /\ queue = <<>>
  /\ worker = Resting
  /\ transfers = [w \in Withdrawals |-> <<>>]
  /\ batch = {}
  /\ calls = {}
  /\ touched = {}

-----------------------------------------------------------------------------
(* Creating a withdrawal.                                                  *)

DayIsFree == \A w \in today : row[w].status = "rejected"

NothingOpen == \A w \in Withdrawals : row[w].status \notin {"pending", "processing"}

\* Mutant: the handler relies on the check the intent made.
MayCreate_NoDoubleCheck(by) == balance >= 1 /\ NothingOpen

\* The checks of a handler before it debits.
MayCreate(by) == balance >= 1 /\ NothingOpen /\ (by = "client" => DayIsFree)

\* POST /withdrawals, its token and password accepted.
SubmitRead(q) ==
  /\ request[q] = Idle
  /\ MayCreate("client")
  /\ request' = [request EXCEPT ![q] = [stage |-> "checked", by |-> "client"]]
  /\ UNCHANGED <<row, money, today, queue, worker, transfers, batch, calls, touched>>

\* POST /admin/withdrawals.
AdminCreateRead(q) ==
  /\ request[q] = Idle
  /\ MayCreate("admin")
  /\ request' = [request EXCEPT ![q] = [stage |-> "checked", by |-> "admin"]]
  /\ UNCHANGED <<row, money, today, queue, worker, transfers, batch, calls,
                 touched>>

\* The transaction: the row is inserted, the balance decremented.
Debit(q, w) ==
  /\ request[q].stage = "checked"
  /\ row[w].status = "none"
  /\ row' = [row EXCEPT ![w].status = "pending"]
  /\ balance' = balance - 1
  /\ today' = today \cup {w}
  /\ touched' = IF request[q].by = "admin" THEN touched \cup {w} ELSE touched
  /\ request' = [request EXCEPT ![q] = [stage |-> "debited", w |-> w]]
  /\ UNCHANGED <<refunds, queue, worker, transfers, batch, calls>>

\* No job is added when autoProcess is off, or when the handler dies first.
EndCreate(q) ==
  /\ request[q].stage = "debited"
  /\ \E added \in {<<>>, <<[w |-> request[q].w, stalled |-> 0]>>} :
       queue' = queue \o added
  /\ request' = [request EXCEPT ![q] = Idle]
  /\ UNCHANGED <<row, money, today, worker, transfers, batch, calls, touched>>

NewDay ==
  /\ today # {}
  /\ today' = {}
  /\ UNCHANGED <<row, money, request, queue, worker, transfers, batch, calls,
                 touched>>

-----------------------------------------------------------------------------
(* Flip worker: one job at a time, no second attempt.                      *)

\* Mutant: a withdrawal in processing is taken up again.
Runnable_Processing == {"pending", "failed", "processing"}

\* The statuses the worker acts on.
Runnable == {"pending", "failed"}

TakeJob ==
  /\ worker = Resting
  /\ queue # <<>>
  /\ queue' = Tail(queue)
  /\ LET w == Head(queue).w
     IN  /\ worker' = IF row[w].status \in Runnable
                      THEN [phase |-> "read", job |-> Head(queue)]
                      ELSE Resting
         /\ touched' = IF row[w].status = "failed" THEN touched \cup {w} ELSE touched
  /\ UNCHANGED <<row, money, today, request, transfers, batch, calls>>

\* By id, whatever the status is by now.
MarkProcessing ==
  /\ worker.phase = "read"
  /\ LET w == worker.job.w
     IN  row' = [row EXCEPT ![w].status = "processing",
                            ![w].retryCount = row[w].retryCount + 1]
  /\ worker' = [worker EXCEPT !.phase = "processing"]
  /\ UNCHANGED <<money, today, request, queue, transfers, batch, calls, touched>>

\* Token, challenge and PIN were had: Flip accepts the transfer.
Transfer ==
  /\ worker.phase = "processing"
  /\ LET w == worker.job.w
     IN  transfers' = [transfers EXCEPT ![w] = Append(transfers[w], "PENDING")]
  /\ worker' = [worker EXCEPT !.phase = "transferred"]
  /\ UNCHANGED <<row, money, today, request, queue, batch, calls, touched>>

SaveTrx ==
  /\ worker.phase = "transferred"
  /\ LET w == worker.job.w
     IN  row' = [row EXCEPT ![w].status = "processing", ![w].trx = Len(transfers[w])]
  /\ worker' = [worker EXCEPT !.phase = "ended"]
  /\ UNCHANGED <<money, today, request, queue, transfers, batch, calls, touched>>

\* Mutant: a failed run gives the money back at once.
FailedRun_Refunds(w) ==
  /\ row' = [row EXCEPT ![w].status = "failed"]
  /\ balance' = balance + 1
  /\ refunds' = [refunds EXCEPT ![w] = refunds[w] + 1]

\* markFailed: the status only; an error of its own is swallowed.
FailedRun(w) ==
  /\ \E s \in {"failed", row[w].status} : row' = [row EXCEPT ![w].status = s]
  /\ UNCHANGED money

\* Before the transfer a step fails; after it, the answer is lost or has no id.
RunFails ==
  /\ worker.phase \in {"processing", "transferred"}
  /\ FailedRun(worker.job.w)
  /\ worker' = [worker EXCEPT !.phase = "ended"]
  /\ UNCHANGED <<today, request, queue, transfers, batch, calls, touched>>

\* At "read" when the first write fails: nothing catches that.
JobEnds ==
  /\ worker.phase \in {"read", "ended"}
  /\ worker' = Resting
  /\ UNCHANGED <<row, money, today, request, queue, transfers, batch, calls,
                 touched>>

\* The process dies; BullMQ puts the stalled job back at the head, or fails it.
Crash ==
  /\ worker # Resting
  /\ queue' = IF worker.job.stalled < MaxStalledCount
              THEN <<[worker.job EXCEPT !.stalled = worker.job.stalled + 1]>> \o queue
              ELSE queue
  /\ worker' = Resting
  /\ UNCHANGED <<row, money, today, request, transfers, batch, calls, touched>>

-----------------------------------------------------------------------------
(* Flip, and what is done about its answer.                                *)

\* A transfer Flip accepted ends one way or the other.
FlipSettles(w, k) ==
  /\ k \in DOMAIN transfers[w]
  /\ transfers[w][k] = "PENDING"
  /\ \E s \in {"DONE", "FAILED"} : transfers' = [transfers EXCEPT ![w][k] = s]
  /\ UNCHANGED <<row, money, today, request, queue, worker, batch, calls, touched>>

\* Refund: the row becomes failed, the balance and the ledger get the amount back.
Refund(w, status) ==
  /\ row' = [row EXCEPT ![w].status = status]
  /\ balance' = balance + 1
  /\ refunds' = [refunds EXCEPT ![w] = refunds[w] + 1]

Confirm(w) == row' = [row EXCEPT ![w].status = "processed"] /\ UNCHANGED money

\* Mutant: the status worker looks for processed rows, as its header says.
Unverified_Processed == {w \in Withdrawals : row[w].status = "processed" /\ row[w].trx # 0}

Unverified == {w \in Withdrawals : row[w].status = "processing" /\ row[w].trx # 0}

StatusSelect ==
  /\ batch = {}
  /\ Unverified # {}
  /\ batch' = {[w |-> w, trx |-> row[w].trx] : w \in Unverified}
  /\ UNCHANGED <<row, money, today, request, queue, worker, transfers, calls,
                 touched>>

\* getTransferStatus.
OutcomeOf(w, trx) == transfers[w][trx]

CheckTransfer(x) ==
  /\ x \in batch
  /\ batch' = batch \ {x}
  /\ \/ OutcomeOf(x.w, x.trx) = "DONE" /\ Confirm(x.w)
     \/ OutcomeOf(x.w, x.trx) = "FAILED" /\ Refund(x.w, "failed")
     \/ OutcomeOf(x.w, x.trx) = "PENDING" /\ UNCHANGED <<row, money>>
  /\ UNCHANGED <<today, request, queue, worker, transfers, calls, touched>>

\* An error of the request or of the write is logged: the next cycle tries again.
CheckFails(x) ==
  /\ x \in batch
  /\ batch' = batch \ {x}
  /\ UNCHANGED <<row, money, today, request, queue, worker, transfers, calls,
                 touched>>

-----------------------------------------------------------------------------
(* Admin.                                                                  *)

\* POST /admin/withdrawals/:id/process.
AdminProcess(w) ==
  /\ row[w].status \in {"pending", "failed"}
  /\ row[w].retryCount + Len(queue) + (IF worker = Resting THEN 0 ELSE 1) < MaxRuns
  /\ queue' = Append(queue, [w |-> w, stalled |-> 0])
  /\ touched' = touched \cup {w}
  /\ UNCHANGED <<row, money, today, request, worker, transfers, batch, calls>>

EnterCall(call) ==
  /\ Cardinality(calls) < MaxCalls
  /\ calls' = calls \cup {call}
  /\ touched' = touched \cup {call.w}
  /\ UNCHANGED <<row, money, today, request, queue, worker, transfers, batch>>

\* POST /admin/withdrawals/:id/reject.
RejectRead(w) ==
  /\ row[w].status \in {"pending", "failed"}
  /\ EnterCall([op |-> "reject", w |-> w])

RejectWrite(call) ==
  /\ call.op = "reject"
  /\ Refund(call.w, "rejected")
  /\ calls' = calls \ {call}
  /\ UNCHANGED <<today, request, queue, worker, transfers, batch, touched>>

\* POST /admin/withdrawals/:id/check-flip.
VerifyRead(w) ==
  /\ row[w].trx # 0
  /\ EnterCall([op |-> "verify", w |-> w, trx |-> row[w].trx, status |-> row[w].status])

VerifyWrite(call) ==
  /\ call.op = "verify"
  /\ LET outcome == OutcomeOf(call.w, call.trx)
         done == outcome = "DONE" /\ call.status # "processed"
         failed == outcome = "FAILED" /\ call.status \notin {"failed", "rejected"}
     IN  \/ done /\ Confirm(call.w)
         \/ failed /\ Refund(call.w, "failed")
         \/ ~done /\ ~failed /\ UNCHANGED <<row, money>>
  /\ calls' = calls \ {call}
  /\ UNCHANGED <<today, request, queue, worker, transfers, batch, touched>>

-----------------------------------------------------------------------------
Create ==
  \E q \in Requests :
    \/ SubmitRead(q) \/ AdminCreateRead(q) \/ EndCreate(q)
    \/ \E w \in Withdrawals : Debit(q, w)

FlipWorker ==
  TakeJob \/ MarkProcessing \/ Transfer \/ SaveTrx \/ RunFails \/ JobEnds \/ Crash

Flip == \E w \in Withdrawals : \E k \in DOMAIN transfers[w] : FlipSettles(w, k)

StatusWorker == StatusSelect \/ \E x \in batch : CheckTransfer(x) \/ CheckFails(x)

Admin ==
  \/ \E w \in Withdrawals : AdminProcess(w) \/ RejectRead(w) \/ VerifyRead(w)
  \/ \E call \in calls : RejectWrite(call) \/ VerifyWrite(call)

Next == NewDay \/ Create \/ FlipWorker \/ Flip \/ StatusWorker \/ Admin

Spec == Init /\ [][Next]_vars

\* Flip ends every transfer; the status worker reschedules itself after every cycle
\* and its requests do not fail for ever.
FairSpec ==
  /\ Spec
  /\ WF_vars(Flip)
  /\ WF_vars(StatusSelect)
  /\ WF_vars(\E x \in batch : CheckTransfer(x) \/ CheckFails(x))
  /\ \A w \in Withdrawals : SF_vars(\E x \in batch : x.w = w /\ CheckTransfer(x))

-----------------------------------------------------------------------------
(* Properties.                                                             *)

TypeOK ==
  /\ row \in [Withdrawals -> Row]
  /\ balance \in Int
  /\ refunds \in [Withdrawals -> Nat]
  /\ today \subseteq Withdrawals
  /\ request \in [Requests -> Request]
  /\ queue \in Seq(Job)
  /\ worker \in Worker
  /\ transfers \in [Withdrawals -> Seq({"PENDING", "DONE", "FAILED"})]
  /\ batch \subseteq [w : Withdrawals, trx : Nat]
  /\ \A x \in batch : x.trx \in 1..Len(transfers[x.w])
  /\ \A call \in calls :
       call \in Call /\ (call.op = "verify" => call.trx \in 1..Len(transfers[call.w]))
  /\ touched \subseteq Withdrawals

\* The balance covers every withdrawal, whatever is refunded or retried meanwhile.
\* The decrement is unconditional: this needs creations that do not overlap each
\* other (or another debit, which is not here).
BalanceCovered == balance >= 0

\* A merchant withdraws once a day (again, if creations do not overlap), whether
\* the first one was paid, failed or refunded, until an admin handles it.
OneADay == \A v, w \in today \ touched : v = w

\* What a request that passed its checks may do to the account.
CoveredOnceADay == BalanceCovered /\ OneADay

\* Without an admin the money leaves at most once, through crashes of the worker
\* and lost answers of Flip: a restarted job finds its row in processing.
TransferredOnce == \A w \in Withdrawals \ touched : Len(transfers[w]) <= 1

\* Without an admin a withdrawal is refunded exactly when the one transfer it made
\* has failed and the row says so: never twice, and never one that was paid.
RefundedWhenFailed ==
  \A w \in Withdrawals \ touched :
    LET known == row[w].status = "failed" /\ row[w].trx # 0
    IN  /\ refunds[w] = (IF known THEN 1 ELSE 0)
        /\ known => transfers[w][row[w].trx] = "FAILED"

\* Only a transfer that Flip completed makes a withdrawal "processed", even if an
\* admin verifies, rejects or queues it at the same time.
ProcessedIsPaid ==
  \A w \in Withdrawals :
    row[w].status = "processed" => \E k \in DOMAIN transfers[w] : transfers[w][k] = "DONE"

\* A row tells whether its money has left or was given back.
StatusTells == RefundedWhenFailed /\ ProcessedIsPaid

\* The status worker does not leave a transfer it knows of in processing.
TransferResolved ==
  \A w \in Withdrawals :
    (row[w].status = "processing" /\ row[w].trx # 0) ~> row[w].status # "processing"

-----------------------------------------------------------------------------
(* What the sources say and the program does not do.                       *)

\* "rejected" gives the balance back and "failed" does not, so that a withdrawal
\* is given back at most once.
NeverRefundedTwice == \A w \in Withdrawals : refunds[w] <= 1
=============================================================================
