------------------------------ MODULE Deposit ------------------------------
(***************************************************************************)
(* How money enters the disbursement account of one client.                *)
(*                                                                         *)
(* The client creates a deposit, which opens a top-up at the provider,     *)
(* Flip, pays it, and says so (confirm).  Whoever next asks Flip and hears *)
(* that it is paid credits the account: the client's own poll, the status  *)
(* worker, or an admin.  A deposit can be cancelled, and a new one expires *)
(* the last that is older than two hours.  Each of them reads the row,     *)
(* talks to Flip, and then writes by id.                                   *)
(*                                                                         *)
(* Time is not kept: the last open deposit may be two hours old at any     *)
(* time.  Every deposit is for the same amount.                            *)
(***************************************************************************)
EXTENDS Integers

CONSTANTS
  MaxDeposits,   \* bound: deposits ever created, numbered in their order
  DepositAmount, \* amount of each
  Handlers,      \* deposit handlers that can be in progress at once
  Opening,       \* balance of the account at the start, from earlier deposits
  WorkerSees     \* the endpoint the status worker asks knows about top-ups

ASSUME DepositAssumption ==
  /\ MaxDeposits \in Nat /\ DepositAmount \in Nat \ {0} /\ Opening \in Nat
  /\ WorkerSees \in BOOLEAN

VARIABLES
  account,   \* row of disbursement_balances
  deposit,   \* status of each deposit
  topup,     \* status of its top-up at Flip
  credited,  \* how often it was credited (history)
  handler,   \* handlers between their read and their write
  checking,  \* deposits the status worker has selected and not yet checked
  contended  \* deposits ever in two hands at once (history)

depositVars == <<account, deposit, topup, credited, handler, checking, contended>>

Deposits == 1..MaxDeposits

Open == {"pending", "confirmed"}

DepositStatuses == {"none", "done", "expired"} \cup Open

Account == [balance: Int, totalDeposited: Int, totalDisbursed: Int, totalFees: Int]

Free == [op |-> "free"]

DepositCall == {Free} \cup [op: {"create"}]
                 \cup [op: {"expire", "cancel", "confirm", "check"}, d: Deposits]

DepositInit ==
  /\ account = [balance |-> Opening, totalDeposited |-> Opening,
                totalDisbursed |-> 0, totalFees |-> 0]
  /\ deposit = [d \in Deposits |-> "none"]
  /\ topup = [d \in Deposits |-> "none"]
  /\ credited = [d \in Deposits |-> 0]
  /\ handler = [h \in Handlers |-> Free]
  /\ checking = {}
  /\ contended = {}

-----------------------------------------------------------------------------
\* Handler h has read the row of d and may write it.
Holds(h, d) == handler[h].op \notin {"free", "create"} /\ handler[h].d = d

HeldByHandler(d) == \E h \in Handlers : Holds(h, d)

InHands(d) == d \in checking \/ HeldByHandler(d)

\* Handler h has read d and will write it.
Enter(h, op, d) ==
  /\ handler[h] = Free
  /\ handler' = [handler EXCEPT ![h] = [op |-> op, d |-> d]]
  /\ contended' = IF InHands(d) THEN contended \cup {d} ELSE contended
  /\ UNCHANGED <<account, deposit, topup, credited, checking>>

Return(h) == handler' = [handler EXCEPT ![h] = Free]

Set(d, status) ==
  /\ deposit' = [deposit EXCEPT ![d] = status]
  /\ UNCHANGED <<account, credited>>

\* The account with that much more.
Deposited(amount) ==
  [account EXCEPT !.balance = @ + amount, !.totalDeposited = @ + amount]

\* The transaction that completes a deposit.
Credit(d) ==
  /\ deposit' = [deposit EXCEPT ![d] = "done"]
  /\ account' = Deposited(DepositAmount)
  /\ credited' = [credited EXCEPT ![d] = credited[d] + 1]

-----------------------------------------------------------------------------
(* The client.                                                             *)

Last(d) == deposit[d] \in Open /\ \A e \in Deposits : deposit[e] \in Open => e <= d

\* POST /disbursements/deposit.  The last open deposit is resumed, unless it is old.
CreateRead(h) ==
  /\ handler[h] = Free
  /\ \A d \in Deposits : deposit[d] \notin Open
  /\ handler' = [handler EXCEPT ![h] = [op |-> "create"]]
  /\ UNCHANGED <<account, deposit, topup, credited, checking, contended>>

CreateReadOld(h, d) == Last(d) /\ Enter(h, "expire", d)

ExpireOld(h) ==
  /\ handler[h].op = "expire"
  /\ Set(handler[h].d, "expired")
  /\ handler' = [handler EXCEPT ![h] = [op |-> "create"]]
  /\ UNCHANGED <<topup, checking, contended>>

\* The top-up and its row; a top-up whose row is not written is nobody's.
CreateDeposit(h, d) ==
  /\ handler[h].op = "create"
  /\ deposit[d] = "none" /\ \A e \in 1..(d - 1) : deposit[e] # "none"
  /\ Set(d, "pending")
  /\ topup' = [topup EXCEPT ![d] = "PENDING"]
  /\ Return(h)
  /\ UNCHANGED <<checking, contended>>

\* POST /disbursements/deposit/:id/cancel.
CancelRead(h, d) == deposit[d] \in Open /\ Enter(h, "cancel", d)

\* Flip cancels what is not paid yet, if the request gets through.
CancelAtFlip(h) ==
  /\ handler[h].op = "cancel"
  /\ topup[handler[h].d] = "PENDING"
  /\ topup' = [topup EXCEPT ![handler[h].d] = "CANCELLED"]
  /\ UNCHANGED <<account, deposit, credited, handler, checking, contended>>

CancelWrite(h) ==
  /\ handler[h].op = "cancel"
  /\ Set(handler[h].d, "expired")
  /\ Return(h)
  /\ UNCHANGED <<topup, checking, contended>>

\* POST /disbursements/deposit/:id/confirm.
ConfirmRead(h, d) == deposit[d] = "pending" /\ Enter(h, "confirm", d)

ConfirmWrite(h) ==
  /\ handler[h].op = "confirm"
  /\ Set(handler[h].d, "confirmed")
  /\ Return(h)
  /\ UNCHANGED <<topup, checking, contended>>

\* GET /disbursements/deposit/:id/status.
PollRead(h, d) == deposit[d] = "confirmed" /\ Enter(h, "check", d)

\* Mutant: a deposit that is done is checked like the others.
Checkable_Done(d) == deposit[d] # "none"

Checkable(d) == deposit[d] \notin {"none", "done"}

\* POST /admin/deposits/:id/check-flip.
AdminCheckRead(h, d) == Checkable(d) /\ Enter(h, "check", d)

\* Flip says DONE or PROCESSED.
IsPaid(d) == topup[d] = "DONE"

\* Either of the two: the answer of Flip, and what follows from it.
CheckWrite(h) ==
  /\ handler[h].op = "check"
  /\ LET d == handler[h].d
     IN  \/ IsPaid(d) /\ Credit(d)
         \/ ~IsPaid(d) /\ UNCHANGED <<account, deposit, credited>>
  /\ Return(h)
  /\ UNCHANGED <<topup, checking, contended>>

\* Flip or the database fails, or the process dies.
DepositHandlerFails(h) ==
  /\ handler[h] # Free
  /\ Return(h)
  /\ UNCHANGED <<account, deposit, topup, credited, checking, contended>>

-----------------------------------------------------------------------------
(* Flip and the status worker.                                             *)

TopupEnds(d) ==
  /\ topup[d] = "PENDING"
  /\ \E s \in {"DONE", "CANCELLED"} : topup' = [topup EXCEPT ![d] = s]
  /\ UNCHANGED <<account, deposit, credited, handler, checking, contended>>

PendingDeposits == {d \in Deposits : deposit[d] \in Open}

SelectDeposits ==
  /\ checking = {}
  /\ PendingDeposits # {}
  /\ checking' = PendingDeposits
  /\ contended' = contended \cup {d \in PendingDeposits : HeldByHandler(d)}
  /\ UNCHANGED <<account, deposit, topup, credited, handler>>

\* The worker asks the endpoint for transfers out, not the one for top-ups.
CheckDeposit(d) ==
  /\ WorkerSees
  /\ d \in checking
  /\ checking' = checking \ {d}
  /\ \/ IsPaid(d) /\ Credit(d)
     \/ ~IsPaid(d) /\ topup[d] = "CANCELLED" /\ Set(d, "expired")
     \/ ~IsPaid(d) /\ topup[d] = "PENDING" /\ UNCHANGED <<account, deposit, credited>>
  /\ UNCHANGED <<topup, handler, contended>>

\* An error is logged; the process may also die.
CheckDepositFails(d) ==
  /\ d \in checking
  /\ checking' = checking \ {d}
  /\ UNCHANGED <<account, deposit, topup, credited, handler, contended>>

-----------------------------------------------------------------------------
DepositNext ==
  \/ \E h \in Handlers :
       \/ CreateRead(h) \/ ExpireOld(h) \/ CancelAtFlip(h) \/ CancelWrite(h)
       \/ ConfirmWrite(h) \/ CheckWrite(h) \/ DepositHandlerFails(h)
       \/ \E d \in Deposits :
            \/ CreateReadOld(h, d) \/ CreateDeposit(h, d) \/ CancelRead(h, d)
            \/ ConfirmRead(h, d) \/ PollRead(h, d) \/ AdminCheckRead(h, d)
  \/ SelectDeposits
  \/ \E d \in Deposits : TopupEnds(d) \/ CheckDeposit(d) \/ CheckDepositFails(d)

DepositSpec == DepositInit /\ [][DepositNext]_depositVars

-----------------------------------------------------------------------------
(* Properties.                                                             *)

DepositTypeOK ==
  /\ account \in Account
  /\ deposit \in [Deposits -> DepositStatuses]
  /\ topup \in [Deposits -> {"none", "PENDING", "DONE", "CANCELLED"}]
  /\ credited \in [Deposits -> Nat]
  /\ handler \in [Handlers -> DepositCall]
  /\ checking \subseteq Deposits
  /\ contended \subseteq Deposits

\* Nobody credits money that has not come, and what is done has been credited,
\* whichever of the writers was last.
CreditedIsPaid ==
  \A d \in Deposits :
    /\ credited[d] > 0 => topup[d] = "DONE"
    /\ deposit[d] = "done" => credited[d] > 0

\* A deposit that was never in two hands at once is credited exactly when it is done,
\* and once: cancelled, expired, confirmed and checked in any order, by the client,
\* the worker and the admin, with handlers that fail.
CreditedOnce ==
  \A d \in Deposits \ contended : credited[d] = (IF deposit[d] = "done" THEN 1 ELSE 0)

\* What is credited has come, and once.
CreditedAsPaid == CreditedIsPaid /\ CreditedOnce
=============================================================================
