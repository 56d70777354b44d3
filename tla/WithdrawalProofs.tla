-------------------------- MODULE WithdrawalProofs --------------------------
(***************************************************************************)
(* Proofs about Withdrawal, for any number of rows, handlers, restarts,    *)
(* runs and admin calls.                                                   *)
(*                                                                         *)
(* The rows no admin touched are the ones whose status still says where    *)
(* the money is: the inductive invariant ties it to the phase of the       *)
(* worker, to the transfers made and to what the status worker selected.   *)
(***************************************************************************)
EXTENDS Withdrawal, TLAPS

\* flipTrxId names a transfer of the withdrawal.
TrxKnown == \A w \in Withdrawals : row[w].trx \in 0..Len(transfers[w])

\* Before its first run a withdrawal has no transfer.
Unstarted ==
  \A w \in Withdrawals \ touched :
    row[w].status \in {"none", "pending"} => transfers[w] = <<>> /\ row[w].trx = 0

\* What the phase of the worker says about the row of its job.
AtWork ==
  \A w \in Withdrawals \ touched :
    (worker # Resting /\ worker.job.w = w) =>
      /\ worker.phase = "read" => row[w].status = "pending"
      /\ worker.phase = "processing" =>
           row[w].status = "processing" /\ transfers[w] = <<>> /\ row[w].trx = 0
      /\ worker.phase = "transferred" =>
           row[w].status = "processing" /\ Len(transfers[w]) = 1 /\ row[w].trx = 0

\* The status worker's view of an untouched row is not stale.
Selected ==
  \A x \in batch :
    x.w \notin touched => row[x.w].status = "processing" /\ row[x.w].trx = x.trx

\* Only an admin rejects, and what an admin handles is touched.
ByHand ==
  /\ \A call \in calls : call.w \in touched
  /\ \A w \in Withdrawals : row[w].status = "rejected" => w \in touched

TypeInv == TypeOK /\ TrxKnown

Untouched ==
  Unstarted /\ AtWork /\ Selected /\ ByHand /\ TransferredOnce /\ RefundedWhenFailed

IInv == TypeInv /\ Untouched /\ ProcessedIsPaid

-----------------------------------------------------------------------------
\* All the parts hold in the initial state.
LEMMA InitIInv == Init => IInv
BY WithdrawalAssumption
   DEF Init, IInv, TypeInv, TypeOK, TrxKnown, Untouched, Unstarted, AtWork, Selected, ByHand,
       TransferredOnce, RefundedWhenFailed, ProcessedIsPaid, Row, Statuses, Request, Worker,
       Idle, Resting

\* Setting the status of a row changes nothing else of the rows.
LEMMA SetStatus ==
  ASSUME NEW w \in Withdrawals, NEW s \in Statuses, row \in [Withdrawals -> Row],
         row' = [row EXCEPT ![w].status = s]
  PROVE  /\ row' \in [Withdrawals -> Row]
         /\ \A v \in Withdrawals : row'[v].trx = row[v].trx
         /\ \A v \in Withdrawals : row'[v].status = IF v = w THEN s ELSE row[v].status
<1>1. row[w] \in Row
  OBVIOUS
<1>2. [row[w] EXCEPT !.status = s] \in Row
  BY <1>1 DEF Row
<1>3. row' = [row EXCEPT ![w] = [row[w] EXCEPT !.status = s]]
  OBVIOUS
<1>4. QED
  BY <1>1, <1>2, <1>3 DEF Row

\* Every step keeps the types, and flipTrxId known.
LEMMA TypeStep == TypeInv /\ [Next]_vars => TypeInv'
<1> SUFFICES ASSUME TypeInv, [Next]_vars PROVE TypeInv'
  OBVIOUS
<1>0. /\ row \in [Withdrawals -> Row] /\ request \in [Requests -> Request]
      /\ balance \in Int /\ refunds \in [Withdrawals -> Nat]
      /\ worker \in Worker /\ queue \in Seq(Job)
  BY DEF TypeInv, TypeOK
<1> DEFINE Tr == [Withdrawals -> Seq({"PENDING", "DONE", "FAILED"})]
           RowsKept == row' \in [Withdrawals -> Row]
                         /\ \A v \in Withdrawals : row'[v].trx = row[v].trx
           MoneyKept == balance' \in Int /\ refunds' \in [Withdrawals -> Nat]
<1>1. CASE NewDay
  BY <1>1 DEF NewDay, TypeInv, TypeOK, TrxKnown, money
<1>2. CASE Create
  <2>1. ASSUME NEW q \in Requests, NEW by \in {"client", "admin"},
               request' = [request EXCEPT ![q] = [stage |-> "checked", by |-> by]]
        PROVE  request' \in [Requests -> Request]
    BY <1>0, <2>1 DEF Request
  <2>2. ASSUME NEW q \in Requests, SubmitRead(q) PROVE TypeInv'
    BY <2>1, <2>2 DEF SubmitRead, TypeInv, TypeOK, TrxKnown, money
  <2>3. ASSUME NEW q \in Requests, AdminCreateRead(q) PROVE TypeInv'
    BY <2>1, <2>3 DEF AdminCreateRead, TypeInv, TypeOK, TrxKnown, money
  <2>4. ASSUME NEW q \in Requests, EndCreate(q) PROVE TypeInv'
    <3>1. request[q].w \in Withdrawals
      BY <1>0, <2>4 DEF EndCreate, Request
    <3>2. [w |-> request[q].w, stalled |-> 0] \in Job
      BY <3>1, WithdrawalAssumption DEF Job
    <3>3. queue' \in Seq(Job)
      <4> DEFINE first == [w |-> request[q].w, stalled |-> 0]
      <4>1. queue' = queue \o <<>> \/ queue' = queue \o <<first>>
        BY <2>4 DEF EndCreate
      <4>2. first \in Job
        BY <3>2
      <4> HIDE DEF first
      <4>3. QED
        BY <1>0, <4>1, <4>2
    <3>4. request' \in [Requests -> Request]
      BY <1>0, <2>4 DEF EndCreate, Request, Idle
    <3>5. QED
      BY <2>4, <3>3, <3>4 DEF EndCreate, TypeInv, TypeOK, TrxKnown, money
  <2>5. ASSUME NEW q \in Requests, NEW w \in Withdrawals, Debit(q, w) PROVE TypeInv'
    <3>1. request' \in [Requests -> Request]
      BY <1>0, <2>5 DEF Debit, Request
    <3>2. RowsKept
      <4>1. row' = [row EXCEPT ![w].status = "pending"] /\ "pending" \in Statuses
        BY <2>5 DEF Debit, Statuses
      <4>2. QED
        BY <1>0, <4>1, SetStatus
    <3>3. balance' \in Int
      BY <1>0, <2>5 DEF Debit
    <3>4. QED
      BY <2>5, <3>1, <3>2, <3>3 DEF Debit, TypeInv, TypeOK, TrxKnown
  <2>6. QED
    BY <1>2, <2>2, <2>3, <2>4, <2>5 DEF Create
<1>3. CASE FlipWorker
  <2>1. CASE TakeJob
    <3>1. Head(queue) \in Job /\ queue' \in Seq(Job)
      BY <1>0, <2>1 DEF TakeJob
    <3>2. worker' \in Worker
      BY <2>1, <3>1 DEF TakeJob, Worker, Resting
    <3>3. touched' \subseteq Withdrawals
      BY <2>1, <3>1 DEF TakeJob, Job, TypeInv, TypeOK
    <3>4. QED
      BY <2>1, <3>1, <3>2, <3>3 DEF TakeJob, TypeInv, TypeOK, TrxKnown, money
  <2>2. ASSUME worker # Resting PROVE
          /\ worker.job \in Job /\ worker.job.w \in Withdrawals
          /\ \A p \in {"processing", "transferred", "ended"} :
               [worker EXCEPT !.phase = p] \in Worker
    BY <1>0, <2>2 DEF Worker, Resting, Job
  <2>3. CASE MarkProcessing
    <3>1. worker # Resting
      BY <2>3 DEF MarkProcessing, Resting
    <3>2. RowsKept
      <4> DEFINE w == worker.job.w
                 new == [row[w] EXCEPT !.status = "processing",
                                       !.retryCount = row[w].retryCount + 1]
      <4>1. row' = [row EXCEPT ![w] = new]
        BY <2>3 DEF MarkProcessing
      <4>2. w \in Withdrawals /\ row[w] \in Row
        BY <1>0, <2>2, <3>1
      <4>3. new \in Row /\ new.trx = row[w].trx
        <5> DEFINE mid == [row[w] EXCEPT !.status = "processing"]
        <5>1. mid \in Row /\ mid.trx = row[w].trx
          BY <4>2 DEF Row, Statuses
        <5>2. row[w].retryCount + 1 \in Nat
          BY <4>2 DEF Row
        <5>3. new = [mid EXCEPT !.retryCount = row[w].retryCount + 1]
          OBVIOUS
        <5> HIDE DEF mid, w
        <5>4. QED
          BY <5>1, <5>2, <5>3 DEF Row
      <4> HIDE DEF w, new
      <4>4. QED
        BY <1>0, <4>1, <4>2, <4>3
    <3>3. QED
      BY <2>2, <2>3, <3>1, <3>2 DEF MarkProcessing, TypeInv, TypeOK, TrxKnown, money
  <2>4. CASE Transfer
    <3>1. worker # Resting
      BY <2>4 DEF Transfer, Resting
    <3>2. /\ transfers' \in Tr
          /\ \A v \in Withdrawals : Len(transfers[v]) \in Nat
               /\ Len(transfers'[v]) \in Nat /\ Len(transfers'[v]) >= Len(transfers[v])
      BY <2>2, <2>4, <3>1 DEF Transfer, TypeInv, TypeOK
    <3>3. \A v \in Withdrawals, n \in Nat : n <= Len(transfers[v]) => n <= Len(transfers'[v])
      BY <3>2
    <3>4. TrxKnown'
      BY <1>0, <2>4, <3>2, <3>3 DEF Transfer, TypeInv, TrxKnown, Row
    <3>5. \A x \in batch' : x.trx \in 1..Len(transfers'[x.w])
      BY <2>4, <3>2, <3>3 DEF Transfer, TypeInv, TypeOK
    <3>6. \A call \in calls' :
            call \in Call /\ (call.op = "verify" => call.trx \in 1..Len(transfers'[call.w]))
      BY <2>4, <3>2, <3>3 DEF Transfer, TypeInv, TypeOK, Call
    <3>7. QED
      BY <2>2, <2>4, <3>1, <3>2, <3>4, <3>5, <3>6 DEF Transfer, TypeInv, TypeOK, money
  <2>5. CASE SaveTrx
    <3>1. worker # Resting
      BY <2>5 DEF SaveTrx, Resting
    <3>2. \A v \in Withdrawals : Len(transfers[v]) \in Nat
      BY DEF TypeInv, TypeOK
    <3>3. /\ row' \in [Withdrawals -> Row]
          /\ \A v \in Withdrawals : row'[v].trx = row[v].trx \/ row'[v].trx = Len(transfers[v])
      BY <1>0, <2>2, <2>5, <3>1, <3>2 DEF SaveTrx, Row, Statuses
    <3>4. TrxKnown'
      BY <2>5, <3>2, <3>3 DEF SaveTrx, TypeInv, TrxKnown
    <3>5. QED
      BY <2>2, <2>5, <3>1, <3>3, <3>4 DEF SaveTrx, TypeInv, TypeOK, money
  <2>6. CASE RunFails
    <3>1. worker # Resting
      BY <2>6 DEF RunFails, Resting
    <3>2. RowsKept
      <4>1. PICK s \in {"failed", row[worker.job.w].status} :
              row' = [row EXCEPT ![worker.job.w].status = s]
        BY <2>6 DEF RunFails, FailedRun
      <4>2. s \in Statuses
        BY <1>0, <2>2, <3>1 DEF Row, Statuses
      <4>3. QED
        BY <1>0, <2>2, <3>1, <4>1, <4>2, SetStatus
    <3>3. QED
      BY <2>2, <2>6, <3>1, <3>2 DEF RunFails, FailedRun, TypeInv, TypeOK, TrxKnown, money
  <2>7. CASE JobEnds
    BY <2>7 DEF JobEnds, Worker, Resting, TypeInv, TypeOK, TrxKnown, money
  <2>8. CASE Crash
    <3>1. queue' \in Seq(Job)
      <4>1. CASE worker.job.stalled < MaxStalledCount
        <5>1. [worker.job EXCEPT !.stalled = worker.job.stalled + 1] \in Job
          <6>1. worker.job \in Job
            BY <2>2, <2>8 DEF Crash
          <6>2. worker.job.stalled + 1 \in 0..MaxStalledCount
            BY <4>1, <6>1, WithdrawalAssumption DEF Job
          <6>3. QED
            BY <6>1, <6>2 DEF Job
        <5>2. QED
          BY <1>0, <2>8, <4>1, <5>1 DEF Crash
      <4>2. CASE ~(worker.job.stalled < MaxStalledCount)
        BY <1>0, <2>8, <4>2 DEF Crash
      <4>3. QED
        BY <4>1, <4>2
    <3>2. worker' \in Worker
      BY <2>8 DEF Crash, Worker, Resting
    <3>3. QED
      BY <2>8, <3>1, <3>2 DEF Crash, TypeInv, TypeOK, TrxKnown, money
  <2>9. QED
    BY <1>3, <2>1, <2>3, <2>4, <2>5, <2>6, <2>7, <2>8 DEF FlipWorker
<1>4. CASE Flip
  <2>1. PICK w \in Withdrawals : \E k \in DOMAIN transfers[w] : FlipSettles(w, k)
    BY <1>4 DEF Flip
  <2>2. PICK k \in DOMAIN transfers[w] : FlipSettles(w, k)
    BY <2>1
  <2>3. transfers' \in Tr /\ \A v \in Withdrawals : Len(transfers'[v]) = Len(transfers[v])
    BY <2>2 DEF FlipSettles, TypeInv, TypeOK
  <2>4. QED
    BY <2>2, <2>3 DEF FlipSettles, Call, TypeInv, TypeOK, TrxKnown, money
<1>5. CASE StatusWorker
  <2>1. CASE StatusSelect
    BY <1>0, <2>1 DEF StatusSelect, Unverified, TypeInv, TypeOK, TrxKnown, Row, money
  <2>2. ASSUME NEW x \in batch, CheckFails(x) PROVE TypeInv'
    BY <2>2 DEF CheckFails, TypeInv, TypeOK, TrxKnown, money
  <2>3. ASSUME NEW x \in batch, CheckTransfer(x) PROVE TypeInv'
    <3>1. x.w \in Withdrawals
      BY DEF TypeInv, TypeOK
    <3>2. RowsKept
      <4>1. CASE UNCHANGED row
        BY <1>0, <4>1
      <4>2. ASSUME NEW s \in Statuses, row' = [row EXCEPT ![x.w].status = s] PROVE RowsKept
        BY <1>0, <3>1, <4>2, SetStatus
      <4>3. \/ UNCHANGED row
            \/ \E s \in Statuses : row' = [row EXCEPT ![x.w].status = s]
        BY <2>3 DEF CheckTransfer, Confirm, Refund, Statuses
      <4>4. QED
        BY <4>1, <4>2, <4>3
    <3>3. MoneyKept
      BY <1>0, <2>3, <3>1 DEF CheckTransfer, Confirm, Refund, money
    <3>4. QED
      BY <2>3, <3>2, <3>3 DEF CheckTransfer, TypeInv, TypeOK, TrxKnown
  <2>4. QED
    BY <1>5, <2>1, <2>2, <2>3 DEF StatusWorker
<1>6. CASE Admin
  <2>1. ASSUME NEW w \in Withdrawals, AdminProcess(w) PROVE TypeInv'
    <3>1. [w |-> w, stalled |-> 0] \in Job
      BY WithdrawalAssumption DEF Job
    <3>2. QED
      BY <1>0, <2>1, <3>1 DEF AdminProcess, TypeInv, TypeOK, TrxKnown, money
  <2>2. ASSUME NEW w \in Withdrawals, RejectRead(w) PROVE TypeInv'
    BY <2>2 DEF RejectRead, EnterCall, Call, TypeInv, TypeOK, TrxKnown, money
  <2>3. ASSUME NEW w \in Withdrawals, VerifyRead(w) PROVE TypeInv'
    <3>1. row[w] \in Row /\ row[w].trx \in 1..Len(transfers[w])
      BY <1>0, <2>3 DEF VerifyRead, TypeInv, TypeOK, TrxKnown, Row
    <3>2. [op |-> "verify", w |-> w, trx |-> row[w].trx, status |-> row[w].status] \in Call
      BY <3>1 DEF Call, Row
    <3>3. QED
      BY <2>3, <3>1, <3>2 DEF VerifyRead, EnterCall, TypeInv, TypeOK, TrxKnown, money
  <2>4. ASSUME NEW call \in calls, RejectWrite(call) \/ VerifyWrite(call) PROVE TypeInv'
    <3>1. call.w \in Withdrawals
      BY DEF Call, TypeInv, TypeOK
    <3>2. RowsKept
      <4>1. CASE UNCHANGED row
        BY <1>0, <4>1
      <4>2. ASSUME NEW s \in Statuses, row' = [row EXCEPT ![call.w].status = s]
            PROVE  RowsKept
        BY <1>0, <3>1, <4>2, SetStatus
      <4>3. \/ UNCHANGED row
            \/ \E s \in Statuses : row' = [row EXCEPT ![call.w].status = s]
        BY <2>4 DEF RejectWrite, VerifyWrite, Confirm, Refund, Statuses
      <4>4. QED
        BY <4>1, <4>2, <4>3
    <3>3. MoneyKept
      <4>1. \/ UNCHANGED money
            \/ balance' = balance + 1 /\ refunds' = [refunds EXCEPT ![call.w] = refunds[call.w] + 1]
        BY <2>4 DEF RejectWrite, VerifyWrite, Confirm, Refund, money
      <4>2. QED
        BY <1>0, <3>1, <4>1 DEF money
    <3>4. QED
      BY <2>4, <3>2, <3>3 DEF RejectWrite, VerifyWrite, TypeInv, TypeOK, TrxKnown
  <2>5. QED
    BY <1>6, <2>1, <2>2, <2>3, <2>4 DEF Admin
<1>7. CASE UNCHANGED vars
  BY <1>7 DEF vars, TypeInv, TypeOK, TrxKnown, money
<1>8. QED
  BY <1>1, <1>2, <1>3, <1>4, <1>5, <1>6, <1>7 DEF Next

-----------------------------------------------------------------------------
\* The types say of the selected rows and of the job what the steps below need.
LEMMA Typed ==
  ASSUME TypeInv
  PROVE  /\ row \in [Withdrawals -> Row] /\ refunds \in [Withdrawals -> Nat]
         /\ \A w \in Withdrawals : Len(transfers[w]) \in Nat
         /\ worker # Resting =>
              /\ worker \in [phase : {"read", "processing", "transferred", "ended"}, job : Job]
              /\ worker.job.w \in Withdrawals
         /\ batch \subseteq [w : Withdrawals, trx : Nat]
         /\ \A x \in batch : x.trx >= 1
         /\ \A call \in calls : call.w \in Withdrawals
BY DEF TypeInv, TypeOK, Worker, Resting, Job, Call

\* A creating handler leaves the untouched rows in order.
LEMMA CreateUntouched == TypeInv /\ Untouched /\ Create => Untouched'
<1> SUFFICES ASSUME TypeInv, Untouched, Create PROVE Untouched'
  OBVIOUS
<1>1. PICK q \in Requests :
        \/ SubmitRead(q) \/ AdminCreateRead(q) \/ EndCreate(q)
        \/ \E w \in Withdrawals : Debit(q, w)
  BY DEF Create
<1>2. CASE SubmitRead(q) \/ AdminCreateRead(q) \/ EndCreate(q)
  BY <1>2 DEF SubmitRead, AdminCreateRead, EndCreate, money, Untouched, Unstarted, AtWork,
              Selected, ByHand, TransferredOnce, RefundedWhenFailed
<1>3. ASSUME NEW w \in Withdrawals, Debit(q, w) PROVE Untouched'
  <2>1. /\ row[w].status = "none" /\ touched \subseteq touched'
        /\ UNCHANGED <<refunds, worker, transfers, batch, calls>>
    BY <1>3 DEF Debit
  <2>2. /\ \A v \in Withdrawals : row'[v].trx = row[v].trx
        /\ \A v \in Withdrawals : row'[v].status = IF v = w THEN "pending" ELSE row[v].status
    BY <1>3, Typed, SetStatus DEF Debit, Statuses
  <2>3. QED
    BY <2>1, <2>2, Typed DEF Untouched, Unstarted, AtWork, Selected, ByHand,
                             TransferredOnce, RefundedWhenFailed
<1>4. QED
  BY <1>1, <1>2, <1>3

\* The flip worker starts an untouched row at most once.
LEMMA WorkerUntouched == TypeInv /\ Untouched /\ FlipWorker => Untouched'
<1> SUFFICES ASSUME TypeInv, Untouched, FlipWorker PROVE Untouched'
  OBVIOUS
<1> DEFINE w == worker.job.w
<1>1. CASE TakeJob
  <2>1. /\ UNCHANGED <<row, refunds, transfers, batch, calls>> /\ touched \subseteq touched'
        /\ \/ worker' = Resting
           \/ /\ worker' = [phase |-> "read", job |-> Head(queue)]
              /\ row[Head(queue).w].status \in Runnable
              /\ row[Head(queue).w].status = "failed" => Head(queue).w \in touched'
    BY <1>1 DEF TakeJob, money
  <2>2. QED
    BY <2>1 DEF Untouched, Unstarted, AtWork, Selected, ByHand, Runnable,
                TransferredOnce, RefundedWhenFailed
<1>2. CASE MarkProcessing
  <2>1. /\ worker # Resting /\ worker.phase = "read"
        /\ worker'.phase = "processing" /\ worker'.job = worker.job
        /\ UNCHANGED <<refunds, transfers, batch, calls, touched>>
    BY <1>2, Typed DEF MarkProcessing, Resting, money
  <2>2. /\ \A v \in Withdrawals : row'[v].trx = row[v].trx
        /\ \A v \in Withdrawals : row'[v].status = IF v = w THEN "processing" ELSE row[v].status
    BY <1>2, Typed DEF MarkProcessing, Row
  <2> HIDE DEF w
  <2>3. QED
    BY <2>1, <2>2, Typed DEF w, Untouched, Unstarted, AtWork, Selected, ByHand,
                             TransferredOnce, RefundedWhenFailed
<1>3. CASE Transfer
  <2>1. /\ worker # Resting /\ worker.phase = "processing"
        /\ worker'.phase = "transferred" /\ worker'.job = worker.job
        /\ UNCHANGED <<row, refunds, batch, calls, touched>>
    BY <1>3, Typed DEF Transfer, Resting, money
  <2>2. /\ \A v \in Withdrawals : v # w => transfers'[v] = transfers[v]
        /\ transfers[w] = <<>> => Len(transfers'[w]) = 1
    BY <1>3, <2>1, Typed DEF Transfer, TypeInv, TypeOK
  <2>3. w \in Withdrawals \ touched =>
          row[w].status = "processing" /\ row[w].trx = 0 /\ Len(transfers'[w]) = 1
    BY <2>1, <2>2, Typed DEF Untouched, AtWork
  <2> HIDE DEF w
  <2>4. Unstarted' /\ Selected' /\ ByHand'
    BY <2>1, <2>2, <2>3 DEF Untouched, Unstarted, Selected, ByHand
  <2>5. AtWork'
    BY <2>1, <2>2, <2>3 DEF w, Untouched, AtWork
  <2>6. TransferredOnce'
    <3>1. ASSUME NEW v \in Withdrawals \ touched PROVE Len(transfers'[v]) <= 1
      <4>1. CASE v = w
        <5>1. Len(transfers'[v]) = 1
          BY <2>3, <4>1
        <5>2. QED
          BY <5>1
      <4>2. CASE v # w
        <5>1. Len(transfers[v]) <= 1 /\ transfers'[v] = transfers[v]
          BY <2>2, <3>1, <4>2 DEF Untouched, TransferredOnce
        <5>2. QED
          BY <5>1
      <4>3. QED
        BY <4>1, <4>2
    <3>2. QED
      BY <2>1, <3>1 DEF TransferredOnce
  <2>7. RefundedWhenFailed'
    BY <2>1, <2>2, <2>3 DEF Untouched, RefundedWhenFailed
  <2>8. QED
    BY <2>4, <2>5, <2>6, <2>7 DEF Untouched
<1>4. CASE SaveTrx
  <2>1. /\ worker # Resting /\ worker.phase = "transferred"
        /\ worker'.phase = "ended" /\ worker'.job = worker.job
        /\ UNCHANGED <<refunds, transfers, batch, calls, touched>>
    BY <1>4, Typed DEF SaveTrx, Resting, money
  <2>2. \A v \in Withdrawals :
          IF v = w THEN row'[v].status = "processing" ELSE row'[v] = row[v]
    BY <1>4, Typed DEF SaveTrx, Row
  <2>3. QED
    BY <2>1, <2>2, Typed DEF Untouched, Unstarted, AtWork, Selected, ByHand,
                             TransferredOnce, RefundedWhenFailed
<1>5. CASE RunFails
  <2>1. /\ worker # Resting /\ worker.phase \in {"processing", "transferred"}
        /\ worker'.phase = "ended" /\ worker'.job = worker.job
        /\ UNCHANGED <<refunds, transfers, batch, calls, touched>>
    BY <1>5, Typed DEF RunFails, FailedRun, Resting, money
  <2>2. PICK s \in {"failed", row[w].status} : row' = [row EXCEPT ![w].status = s]
    BY <1>5 DEF RunFails, FailedRun
  <2>3. s \in Statuses
    BY <2>1, <2>2, Typed DEF Row, Statuses
  <2>4. /\ \A v \in Withdrawals : row'[v].trx = row[v].trx
        /\ \A v \in Withdrawals : row'[v].status = IF v = w THEN s ELSE row[v].status
    BY <2>1, <2>2, <2>3, Typed, SetStatus
  <2>5. QED
    BY <2>1, <2>2, <2>4, Typed DEF Untouched, Unstarted, AtWork, Selected, ByHand,
                                   TransferredOnce, RefundedWhenFailed
<1>6. CASE JobEnds \/ Crash
  <2>1. worker' = Resting /\ UNCHANGED <<row, refunds, transfers, batch, calls, touched>>
    BY <1>6 DEF JobEnds, Crash, money
  <2>2. QED
    BY <2>1 DEF Untouched, Unstarted, AtWork, Selected, ByHand,
                TransferredOnce, RefundedWhenFailed
<1>7. QED
  BY <1>1, <1>2, <1>3, <1>4, <1>5, <1>6 DEF FlipWorker

\* Flip's answer to a transfer does not change once it is given.
LEMMA FlipUntouched == TypeInv /\ Untouched /\ Flip => Untouched'
<1> SUFFICES ASSUME TypeInv, Untouched, Flip PROVE Untouched'
  OBVIOUS
<1>1. PICK w \in Withdrawals : \E k \in DOMAIN transfers[w] : FlipSettles(w, k)
  BY DEF Flip
<1>2. PICK k \in DOMAIN transfers[w] : FlipSettles(w, k)
  BY <1>1
<1>3. UNCHANGED <<row, refunds, worker, batch, calls, touched>>
  BY <1>2 DEF FlipSettles, money
<1>4. /\ \A v \in Withdrawals : Len(transfers'[v]) = Len(transfers[v])
      /\ \A v \in Withdrawals : transfers[v] = <<>> => transfers'[v] = <<>>
      /\ \A v \in Withdrawals, n \in Nat :
           transfers[v][n] = "FAILED" => transfers'[v][n] = "FAILED"
  BY <1>2 DEF FlipSettles, TypeInv, TypeOK
<1>5. \A v \in Withdrawals : row[v].trx \in Nat
  BY Typed DEF Row
<1>6. Unstarted' /\ Selected' /\ ByHand'
  BY <1>3, <1>4 DEF Untouched, Unstarted, Selected, ByHand
<1>7. AtWork'
  BY <1>3, <1>4 DEF Untouched, AtWork
<1>8. TransferredOnce'
  BY <1>3, <1>4 DEF Untouched, TransferredOnce
<1>9. RefundedWhenFailed'
  BY <1>3, <1>4, <1>5 DEF Untouched, RefundedWhenFailed
<1>10. QED
  BY <1>6, <1>7, <1>8, <1>9 DEF Untouched

\* The status worker refunds an untouched row once, when its transfer has failed.
LEMMA StatusUntouched == TypeInv /\ Untouched /\ StatusWorker => Untouched'
<1> SUFFICES ASSUME TypeInv, Untouched, StatusWorker PROVE Untouched'
  OBVIOUS
<1>1. CASE StatusSelect
  BY <1>1 DEF StatusSelect, Unverified, money, Untouched, Unstarted, AtWork, Selected,
              ByHand, TransferredOnce, RefundedWhenFailed
<1>2. ASSUME NEW x \in batch, CheckFails(x) PROVE Untouched'
  BY <1>2 DEF CheckFails, money, Untouched, Unstarted, AtWork, Selected, ByHand,
              TransferredOnce, RefundedWhenFailed
<1>3. ASSUME NEW x \in batch, CheckTransfer(x) PROVE Untouched'
  <2>1. x.w \in Withdrawals /\ UNCHANGED <<worker, transfers, calls, touched>>
    BY <1>3, Typed DEF CheckTransfer
  <2>2. batch' \subseteq batch /\ \A y \in batch' : y.w = x.w => y.trx # x.trx
    BY <1>3, Typed DEF CheckTransfer
  <2>3. CASE UNCHANGED <<row, money>>
    BY <2>1, <2>2, <2>3 DEF money, Untouched, Unstarted, AtWork, Selected, ByHand,
                            TransferredOnce, RefundedWhenFailed
  <2>4. CASE Confirm(x.w)
    <3>1. /\ \A v \in Withdrawals : row'[v].trx = row[v].trx
          /\ \A v \in Withdrawals :
               row'[v].status = IF v = x.w THEN "processed" ELSE row[v].status
      BY <2>1, <2>4, Typed, SetStatus DEF Confirm, Statuses
    <3>2. QED
      BY <2>1, <2>2, <2>4, <3>1, Typed DEF Confirm, money, Untouched, Unstarted, AtWork,
         Selected, ByHand, TransferredOnce, RefundedWhenFailed
  <2>5. CASE transfers[x.w][x.trx] = "FAILED" /\ Refund(x.w, "failed")
    <3>1. /\ \A v \in Withdrawals : row'[v].trx = row[v].trx
          /\ \A v \in Withdrawals :
               row'[v].status = IF v = x.w THEN "failed" ELSE row[v].status
      BY <2>1, <2>5, Typed, SetStatus DEF Refund, Statuses
    <3>2. \A v \in Withdrawals : refunds'[v] = IF v = x.w THEN refunds[v] + 1 ELSE refunds[v]
      BY <2>1, <2>5, Typed DEF Refund
    <3>3. Unstarted' /\ TransferredOnce' /\ ByHand'
      BY <2>1, <3>1, <3>2 DEF Untouched, Unstarted, TransferredOnce, ByHand
    <3>4. AtWork'
      BY <2>1, <3>1, Typed DEF Untouched, AtWork, Selected
    <3>5. Selected'
      BY <2>1, <2>2, <3>1, Typed DEF Untouched, Selected
    <3>6. RefundedWhenFailed'
      BY <2>1, <2>5, <3>1, <3>2, Typed DEF Untouched, Selected, RefundedWhenFailed
    <3>7. QED
      BY <3>3, <3>4, <3>5, <3>6 DEF Untouched
  <2>6. QED
    BY <1>3, <2>3, <2>4, <2>5 DEF CheckTransfer, OutcomeOf
<1>4. QED
  BY <1>1, <1>2, <1>3 DEF StatusWorker

\* What an admin handler changes is touched.
LEMMA AdminUntouched == TypeInv /\ Untouched /\ Admin => Untouched'
<1> SUFFICES ASSUME TypeInv, Untouched, Admin PROVE Untouched'
  OBVIOUS
<1>1. ASSUME NEW w \in Withdrawals, AdminProcess(w) \/ RejectRead(w) \/ VerifyRead(w)
      PROVE  Untouched'
  <2>1. /\ UNCHANGED <<row, refunds, worker, transfers, batch>> /\ touched \subseteq touched'
        /\ \A call \in calls' : call \in calls \/ call.w \in touched'
    BY <1>1 DEF AdminProcess, RejectRead, VerifyRead, EnterCall, money
  <2>2. QED
    BY <2>1 DEF Untouched, Unstarted, AtWork, Selected, ByHand,
                TransferredOnce, RefundedWhenFailed
<1>2. ASSUME NEW call \in calls, RejectWrite(call) \/ VerifyWrite(call) PROVE Untouched'
  <2>1. /\ call.w \in Withdrawals /\ call.w \in touched /\ calls' \subseteq calls
        /\ UNCHANGED <<worker, transfers, batch, touched>>
    BY <1>2, Typed DEF RejectWrite, VerifyWrite, Untouched, ByHand
  <2>2. \A v \in Withdrawals : v # call.w => row'[v] = row[v] /\ refunds'[v] = refunds[v]
    BY <1>2, Typed DEF RejectWrite, VerifyWrite, Confirm, Refund, money
  <2>3. Unstarted' /\ TransferredOnce' /\ ByHand'
    BY <2>1, <2>2 DEF Untouched, Unstarted, TransferredOnce, ByHand
  <2>4. AtWork'
    BY <2>1, <2>2 DEF Untouched, AtWork
  <2>5. Selected'
    BY <2>1, <2>2, Typed DEF Untouched, Selected
  <2>6. RefundedWhenFailed'
    BY <2>1, <2>2 DEF Untouched, RefundedWhenFailed
  <2>7. QED
    BY <2>3, <2>4, <2>5, <2>6 DEF Untouched
<1>3. QED
  BY <1>1, <1>2 DEF Admin

\* Every step leaves the untouched rows in order.
LEMMA UntouchedStep == TypeInv /\ Untouched /\ [Next]_vars => Untouched'
<1> SUFFICES ASSUME TypeInv, Untouched, [Next]_vars PROVE Untouched'
  OBVIOUS
<1>1. CASE NewDay \/ UNCHANGED vars
  BY <1>1 DEF NewDay, vars, money, Untouched, Unstarted, AtWork, Selected, ByHand,
              TransferredOnce, RefundedWhenFailed
<1>2. QED
  BY <1>1, CreateUntouched, WorkerUntouched, FlipUntouched, StatusUntouched, AdminUntouched
     DEF Next

-----------------------------------------------------------------------------
\* A transfer Flip completed stays completed.
LEMMA DoneStays ==
  ASSUME TypeInv, [Next]_vars, NEW w \in Withdrawals, NEW k \in DOMAIN transfers[w],
         transfers[w][k] = "DONE"
  PROVE  k \in DOMAIN transfers'[w] /\ transfers'[w][k] = "DONE"
<1>1. transfers \in [Withdrawals -> Seq({"PENDING", "DONE", "FAILED"})]
  BY DEF TypeInv, TypeOK
<1>2. CASE UNCHANGED transfers
  BY <1>2
<1>3. CASE Transfer
  <2>1. transfers' = [transfers EXCEPT ![worker.job.w] =
                        Append(transfers[worker.job.w], "PENDING")]
    BY <1>3 DEF Transfer
  <2>2. QED
    BY <1>1, <2>1
<1>4. CASE Flip
  <2>1. PICK v \in Withdrawals : \E n \in DOMAIN transfers[v] : FlipSettles(v, n)
    BY <1>4 DEF Flip
  <2>2. PICK n \in DOMAIN transfers[v] : FlipSettles(v, n)
    BY <2>1
  <2>3. QED
    BY <1>1, <2>2 DEF FlipSettles
<1>5. QED
  BY <1>2, <1>3, <1>4
     DEF Next, vars, NewDay, Create, SubmitRead, AdminCreateRead, EndCreate, Debit,
         FlipWorker, TakeJob, MarkProcessing, SaveTrx, RunFails, JobEnds, Crash,
         StatusWorker, StatusSelect, CheckTransfer, CheckFails,
         Admin, AdminProcess, RejectRead, VerifyRead, EnterCall, RejectWrite, VerifyWrite

\* A row becomes "processed" only on the word of Flip.
LEMMA PaidStep == TypeInv /\ ProcessedIsPaid /\ [Next]_vars => ProcessedIsPaid'
<1> SUFFICES ASSUME TypeInv, ProcessedIsPaid, [Next]_vars,
                    NEW w \in Withdrawals, row'[w].status = "processed"
             PROVE  \E k \in DOMAIN transfers'[w] : transfers'[w][k] = "DONE"
  BY DEF ProcessedIsPaid
<1>1. /\ row \in [Withdrawals -> Row] /\ worker \in Worker
      /\ transfers \in [Withdrawals -> Seq({"PENDING", "DONE", "FAILED"})]
  BY DEF TypeInv, TypeOK
<1>2. CASE row[w].status = "processed"
  <2>1. PICK k \in DOMAIN transfers[w] : transfers[w][k] = "DONE"
    BY <1>2 DEF ProcessedIsPaid
  <2>2. QED
    BY <2>1, DoneStays
<1>3. CASE row[w].status # "processed"
  <2>1. CASE \E x \in batch : CheckTransfer(x)
    <3>1. PICK x \in batch : CheckTransfer(x)
      BY <2>1
    <3>2. x.w \in Withdrawals /\ x.trx \in DOMAIN transfers[x.w] /\ UNCHANGED transfers
      BY <1>1, <3>1 DEF CheckTransfer, TypeInv, TypeOK
    <3>3. x.w = w /\ transfers[w][x.trx] = "DONE"
      BY <1>1, <1>3, <3>1, <3>2 DEF CheckTransfer, Confirm, Refund, OutcomeOf, Row
    <3>4. QED
      BY <3>2, <3>3
  <2>2. CASE \E call \in calls : RejectWrite(call) \/ VerifyWrite(call)
    <3>1. PICK call \in calls : RejectWrite(call) \/ VerifyWrite(call)
      BY <2>2
    <3>2. call.w \in Withdrawals /\ UNCHANGED transfers
      BY <3>1 DEF RejectWrite, VerifyWrite, TypeInv, TypeOK, Call
    <3>3. /\ call.w = w /\ call.op = "verify" /\ transfers[w][call.trx] = "DONE"
      BY <1>1, <1>3, <3>1, <3>2 DEF RejectWrite, VerifyWrite, Confirm, Refund, OutcomeOf, Row
    <3>4. call.trx \in DOMAIN transfers[w]
      BY <1>1, <3>3 DEF TypeInv, TypeOK
    <3>5. QED
      BY <3>2, <3>3, <3>4
  <2>3. CASE RunFails
    <3>1. worker.job.w \in Withdrawals
      BY <1>1, <2>3 DEF RunFails, Worker, Resting, Job
    <3>2. PICK s \in {"failed", row[worker.job.w].status} :
            row' = [row EXCEPT ![worker.job.w].status = s]
      BY <2>3 DEF RunFails, FailedRun
    <3>3. QED
      BY <1>1, <1>3, <3>1, <3>2 DEF Row
  <2>4. CASE MarkProcessing \/ SaveTrx
    <3>1. worker.job.w \in Withdrawals
      BY <1>1, <2>4 DEF MarkProcessing, SaveTrx, Worker, Resting, Job
    <3>2. QED
      BY <1>1, <1>3, <2>4, <3>1 DEF MarkProcessing, SaveTrx, Row
  <2>5. CASE \E q \in Requests, v \in Withdrawals : Debit(q, v)
    BY <1>1, <1>3, <2>5 DEF Debit, Row
  <2>6. row' # row
    BY <1>3
  <2>7. QED
    BY <2>1, <2>2, <2>3, <2>4, <2>5, <2>6
       DEF Next, vars, NewDay, Create, SubmitRead, AdminCreateRead, EndCreate,
           FlipWorker, TakeJob, Transfer, JobEnds, Crash, Flip, FlipSettles,
           StatusWorker, StatusSelect, CheckFails,
           Admin, AdminProcess, RejectRead, VerifyRead, EnterCall
<1>4. QED
  BY <1>2, <1>3

-----------------------------------------------------------------------------
\* The inductive invariant holds in every reachable state.
THEOREM WithdrawalInvariant == Spec => []IInv
<1>1. IInv /\ [Next]_vars => IInv'
  BY TypeStep, UntouchedStep, PaidStep DEF IInv
<1>2. QED
  BY InitIInv, <1>1, PTL DEF Spec

\* Every variable keeps its type, and flipTrxId names a transfer of its row.
THEOREM WithdrawalTypes == Spec => []TypeOK
<1>1. IInv => TypeOK
  BY DEF IInv, TypeInv
<1>2. QED
  BY WithdrawalInvariant, <1>1, PTL

\* Unless an admin acts on it, a withdrawal leaves at most once: no interleaving of
\* the worker, its crashes and restarts and the status worker transfers it twice.
THEOREM WithdrawalLeavesOnce == Spec => []TransferredOnce
<1>1. IInv => TransferredOnce
  BY DEF IInv, Untouched
<1>2. QED
  BY WithdrawalInvariant, <1>1, PTL

\* Unless an admin acts on it, a withdrawal is given back exactly when its transfer
\* has failed.
THEOREM WithdrawalRefunded == Spec => []RefundedWhenFailed
<1>1. IInv => RefundedWhenFailed
  BY DEF IInv, Untouched
<1>2. QED
  BY WithdrawalInvariant, <1>1, PTL

\* A processed withdrawal has a completed transfer, whatever the admin does.
THEOREM WithdrawalPaid == Spec => []ProcessedIsPaid
<1>1. IInv => ProcessedIsPaid
  BY DEF IInv
<1>2. QED
  BY WithdrawalInvariant, <1>1, PTL

\* Both together, as the runs check them.
THEOREM WithdrawalStatusTells == Spec => []StatusTells
BY WithdrawalRefunded, WithdrawalPaid, PTL DEF StatusTells

-----------------------------------------------------------------------------
(* One creating handler at a time: what its checks found still holds when  *)
(* it debits.                                                              *)

\* Creations do not overlap.
OneRequest == \A q, r \in Requests : q = r

Reserved ==
  \A q \in Requests :
    request[q].stage = "checked" =>
      balance >= 1 /\ (request[q].by = "client" => today \subseteq touched)

\* What is withdrawn is covered, and reserved until the debit.
LEMMA ReservedStep ==
  ASSUME OneRequest, IInv, Reserved, BalanceCovered, OneADay, [Next]_vars
  PROVE  Reserved' /\ BalanceCovered' /\ OneADay'
<1>1. /\ balance \in Int /\ balance' \in Int /\ request \in [Requests -> Request]
      /\ touched \subseteq touched'
  BY TypeStep DEF IInv, TypeInv, TypeOK, Next, vars, NewDay, Create, SubmitRead,
       AdminCreateRead, EndCreate, Debit, FlipWorker, TakeJob, MarkProcessing, Transfer,
       SaveTrx, RunFails, JobEnds, Crash, Flip, FlipSettles, StatusWorker, StatusSelect,
       CheckTransfer, CheckFails, Admin, AdminProcess, RejectRead, VerifyRead, EnterCall,
       RejectWrite, VerifyWrite
<1>2. CASE Create
  <2>1. PICK q \in Requests :
          \/ SubmitRead(q) \/ AdminCreateRead(q) \/ EndCreate(q)
          \/ \E w \in Withdrawals : Debit(q, w)
    BY <1>2 DEF Create
  <2>2. \A r \in Requests : r = q
    BY DEF OneRequest
  <2>3. CASE SubmitRead(q) \/ AdminCreateRead(q)
    <3>1. UNCHANGED <<balance, today, touched>>
      BY <2>3 DEF SubmitRead, AdminCreateRead, money
    <3>2. /\ balance >= 1
          /\ request'[q].by = "client" => \A v \in today : row[v].status = "rejected"
      BY <1>1, <2>3 DEF SubmitRead, AdminCreateRead, MayCreate, DayIsFree
    <3>3. request'[q].by = "client" => today \subseteq touched
      BY <3>2 DEF IInv, Untouched, ByHand, TypeInv, TypeOK
    <3>4. QED
      BY <2>2, <3>1, <3>2, <3>3 DEF Reserved, BalanceCovered, OneADay
  <2>4. CASE EndCreate(q)
    <3>1. request'[q].stage = "idle" /\ UNCHANGED <<balance, today, touched>>
      BY <1>1, <2>4 DEF EndCreate, Idle, money
    <3>2. QED
      BY <2>2, <3>1 DEF Reserved, BalanceCovered, OneADay
  <2>5. ASSUME NEW w \in Withdrawals, Debit(q, w)
        PROVE  Reserved' /\ BalanceCovered' /\ OneADay'
    <3>1. request'[q].stage = "debited" /\ balance >= 1 /\ balance' = balance - 1
      BY <1>1, <2>5 DEF Debit, Reserved
    <3>2. Reserved' /\ BalanceCovered'
      BY <1>1, <2>2, <3>1 DEF Reserved, BalanceCovered
    <3>3. OneADay'
      <4>1. CASE request[q].by = "admin"
        BY <2>5, <4>1 DEF Debit, OneADay
      <4>2. CASE request[q].by # "admin"
        <5>1. request[q].by = "client"
          BY <1>1, <2>5, <4>2 DEF Debit, Request
        <5>2. today \subseteq touched
          BY <2>5, <5>1 DEF Debit, Reserved
        <5>3. QED
          BY <2>5, <4>2, <5>2 DEF Debit, OneADay
      <4>3. QED
        BY <4>1, <4>2
    <3>4. QED
      BY <3>2, <3>3
  <2>6. QED
    BY <2>1, <2>3, <2>4, <2>5
<1>3. CASE ~Create
  <2>1. UNCHANGED request /\ today' \subseteq today
    BY <1>3 DEF Next, vars, NewDay, FlipWorker, TakeJob, MarkProcessing, Transfer,
       SaveTrx, RunFails, JobEnds, Crash, Flip, FlipSettles, StatusWorker, StatusSelect,
       CheckTransfer, CheckFails, Admin, AdminProcess, RejectRead, VerifyRead, EnterCall,
       RejectWrite, VerifyWrite
  <2>2. balance' = balance \/ balance' = balance + 1
    BY <1>3 DEF Next, vars, money, NewDay, FlipWorker, TakeJob, MarkProcessing,
       Transfer, SaveTrx, RunFails, FailedRun, JobEnds, Crash, Flip, FlipSettles,
       StatusWorker, StatusSelect, CheckTransfer, CheckFails, Confirm, Refund, Admin,
       AdminProcess, RejectRead, VerifyRead, EnterCall, RejectWrite, VerifyWrite
  <2>3. balance' >= balance
    BY <1>1, <2>2
  <2>4. QED
    BY <1>1, <2>1, <2>3 DEF Reserved, BalanceCovered, OneADay
<1>4. QED
  BY <1>2, <1>3

\* If creations do not overlap, the balance covers every withdrawal and a merchant
\* withdraws once a day, whatever else runs meanwhile.
THEOREM WithdrawalCovered ==
  ASSUME OneRequest
  PROVE  Spec => []CoveredOnceADay
<1> DEFINE All == IInv /\ Reserved /\ BalanceCovered /\ OneADay
<1>1. Init => All
  BY InitIInv, WithdrawalAssumption DEF Init, Reserved, BalanceCovered, OneADay, Idle
<1>2. All /\ [Next]_vars => All'
  BY OneRequest, ReservedStep, TypeStep, UntouchedStep, PaidStep DEF IInv
<1>3. All => CoveredOnceADay
  BY DEF CoveredOnceADay
<1>4. QED
  BY <1>1, <1>2, <1>3, PTL DEF Spec
=============================================================================
