------------------------- MODULE DisbursementProofs -------------------------
(***************************************************************************)
(* Proofs about the parts of MCDisbursement: Disbursement, for any number  *)
(* of disbursements, deposits, handlers and retries, any amounts, and any  *)
(* overlap of the handlers; the forms that look an account's owner up, the *)
(* dialogs that top up, and the wizard that logs the platform in, for any  *)
(* accounts, deposits, tokens and requests under way.                      *)
(***************************************************************************)
EXTENDS MCDisbursement, TLAPS

-----------------------------------------------------------------------------
(* Deposits alone (DepositSpec).                                            *)

\* A deposit that was never contended is in one hand at a time ...
Alone ==
  \A d \in Deposits \ contended :
    /\ \A g, h \in Handlers : Holds(g, d) /\ Holds(h, d) => g = h
    /\ d \in checking => ~HeldByHandler(d)

\* ... and its row is as that hand has read it.
AsRead ==
  \A d \in Deposits \ contended :
    /\ d \in checking => deposit[d] \in Open
    /\ \A h \in Handlers : Holds(h, d) =>
         /\ deposit[d] \notin {"none", "done"}
         /\ handler[h].op # "check" => deposit[d] \in Open

\* Nothing has happened to a row that does not exist.
Untouched ==
  \A d \in Deposits : deposit[d] = "none" => credited[d] = 0 /\ ~InHands(d)

DepositIInv ==
  DepositTypeOK /\ Alone /\ AsRead /\ Untouched /\ CreditedIsPaid /\ CreditedOnce

-----------------------------------------------------------------------------
(* The initial state and typing.                                           *)

LEMMA DepositInitial == DepositInit => DepositIInv
BY DepositAssumption DEF DepositInit, DepositIInv, DepositTypeOK, Account, DepositStatuses,
     Open, DepositCall, Free, Alone, AsRead, Untouched, CreditedIsPaid, CreditedOnce,
     Holds, HeldByHandler, InHands

\* A handler past its read names a deposit.
LEMMA CallNames ==
  ASSUME DepositTypeOK, NEW h \in Handlers, handler[h].op \notin {"free", "create"}
  PROVE  handler[h].d \in Deposits
BY DEF DepositTypeOK, DepositCall, Free

LEMMA DepositedTypes ==
  ASSUME account \in Account, NEW n \in Int
  PROVE  /\ Deposited(n).balance = account.balance + n
         /\ Deposited(n).totalDeposited = account.totalDeposited + n
         /\ Deposited(n).totalDisbursed = account.totalDisbursed
         /\ Deposited(n).totalFees = account.totalFees
         /\ Deposited(n) \in Account
<1>1. /\ Deposited(n).balance = account.balance + n
      /\ Deposited(n).totalDeposited = account.totalDeposited + n
      /\ Deposited(n).totalDisbursed = account.totalDisbursed
      /\ Deposited(n).totalFees = account.totalFees
  BY DEF Deposited, Account
<1> DEFINE a1 == [account EXCEPT !.balance = account.balance + n]
<1>2. account.balance + n \in Int
  BY DEF Account
<1>3. a1 \in Account
  BY <1>2, Zenon DEF Account
<1>4. a1.totalDeposited = account.totalDeposited
  BY DEF Account
<1>5. Deposited(n) = [a1 EXCEPT !.totalDeposited = account.totalDeposited + n]
  BY DEF Deposited, Account
<1>6. account.totalDeposited + n \in Int
  BY DEF Account
<1> HIDE DEF a1
<1>7. [a1 EXCEPT !.totalDeposited = account.totalDeposited + n] \in Account
  BY <1>3, <1>6, Zenon DEF Account
<1> QED
  BY <1>1, <1>5, <1>7

LEMMA CreditTypes ==
  ASSUME DepositTypeOK, NEW d \in Deposits, Credit(d)
  PROVE  /\ account' \in Account
         /\ deposit' = [deposit EXCEPT ![d] = "done"]
         /\ deposit' \in [Deposits -> DepositStatuses]
         /\ credited' = [credited EXCEPT ![d] = credited[d] + 1]
         /\ credited' \in [Deposits -> Nat]
BY DepositAssumption, DepositedTypes DEF DepositTypeOK, Credit, DepositStatuses

LEMMA DepositTypeStep == DepositTypeOK /\ [DepositNext]_depositVars => DepositTypeOK'
<1> SUFFICES ASSUME DepositTypeOK, DepositNext PROVE DepositTypeOK'
  BY DEF DepositTypeOK, depositVars, Account, DepositCall
<1> USE DepositAssumption DEF DepositTypeOK, Account, DepositStatuses, Open, DepositCall, Free
<1>1. ASSUME NEW h \in Handlers, CreateRead(h) PROVE DepositTypeOK'
  BY <1>1 DEF CreateRead
<1>2. ASSUME NEW h \in Handlers, ExpireOld(h) PROVE DepositTypeOK'
  BY <1>2 DEF ExpireOld, Set
<1>3. ASSUME NEW h \in Handlers, CancelAtFlip(h) PROVE DepositTypeOK'
  BY <1>3 DEF CancelAtFlip
<1>4. ASSUME NEW h \in Handlers, CancelWrite(h) PROVE DepositTypeOK'
  BY <1>4 DEF CancelWrite, Set, Return
<1>5. ASSUME NEW h \in Handlers, ConfirmWrite(h) PROVE DepositTypeOK'
  BY <1>5 DEF ConfirmWrite, Set, Return
<1>6. ASSUME NEW h \in Handlers, CheckWrite(h) PROVE DepositTypeOK'
  <2>1. handler[h].d \in Deposits
    BY <1>6, CallNames DEF CheckWrite
  <2>2. CASE Credit(handler[h].d)
    BY <1>6, <2>1, <2>2, CreditTypes DEF CheckWrite, Return
  <2>3. CASE UNCHANGED <<account, deposit, credited>>
    BY <1>6, <2>3 DEF CheckWrite, Return
  <2> QED
    BY <1>6, <2>2, <2>3 DEF CheckWrite
<1>7. ASSUME NEW h \in Handlers, DepositHandlerFails(h) PROVE DepositTypeOK'
  BY <1>7 DEF DepositHandlerFails, Return
<1>8. ASSUME NEW h \in Handlers, NEW d \in Deposits, NEW op \in {"expire", "cancel", "confirm", "check"},
             Enter(h, op, d)
      PROVE  DepositTypeOK'
  BY <1>8 DEF Enter
<1>9. ASSUME NEW h \in Handlers, NEW d \in Deposits, CreateDeposit(h, d) PROVE DepositTypeOK'
  BY <1>9 DEF CreateDeposit, Set, Return
<1>10. ASSUME SelectDeposits PROVE DepositTypeOK'
  BY <1>10 DEF SelectDeposits, PendingDeposits
<1>11. ASSUME NEW d \in Deposits, TopupEnds(d) PROVE DepositTypeOK'
  BY <1>11 DEF TopupEnds
<1>12. ASSUME NEW d \in Deposits, CheckDeposit(d) PROVE DepositTypeOK'
  <2>1. CASE Credit(d)
    BY <1>12, <2>1, CreditTypes DEF CheckDeposit
  <2>2. CASE ~Credit(d)
    BY <1>12, <2>2 DEF CheckDeposit, Set
  <2> QED
    BY <2>1, <2>2
<1>13. ASSUME NEW d \in Deposits, CheckDepositFails(d) PROVE DepositTypeOK'
  BY <1>13 DEF CheckDepositFails
<1> QED
  BY <1>1, <1>2, <1>3, <1>4, <1>5, <1>6, <1>7, <1>8, <1>9, <1>10, <1>11, <1>12, <1>13
  DEF DepositNext, CreateReadOld, CancelRead, ConfirmRead, PollRead, AdminCheckRead

-----------------------------------------------------------------------------
(* Hands: who holds a row after a step.                                    *)

\* A handler that returns, or goes on to create, lets go of its row.
LEMMA LetsGo ==
  ASSUME DepositTypeOK, NEW h \in Handlers, NEW c \in {Free, [op |-> "create"]},
         handler' = [handler EXCEPT ![h] = c]
  PROVE  \A g \in Handlers : \A e :
           /\ Holds(g, e)' <=> g # h /\ Holds(g, e)
           /\ g # h => handler'[g] = handler[g]
BY DEF DepositTypeOK, Holds, Free

\* A handler that enters takes its row, and nobody else's.
LEMMA Takes ==
  ASSUME DepositTypeOK, NEW h \in Handlers, NEW d \in Deposits,
         NEW op \in {"expire", "cancel", "confirm", "check"}, Enter(h, op, d)
  PROVE  \A g \in Handlers : \A e :
           /\ Holds(g, e)' <=> (g = h /\ e = d) \/ (g # h /\ Holds(g, e))
           /\ g # h => handler'[g] = handler[g]
           /\ g = h => handler'[g].op = op /\ ~Holds(g, e)
BY DEF DepositTypeOK, Holds, Free, Enter

\* Entering keeps the invariant, of a row the entry may be about.
LEMMA EnterStep ==
  ASSUME DepositIInv, NEW h \in Handlers, NEW d \in Deposits,
         NEW op \in {"expire", "cancel", "confirm", "check"}, Enter(h, op, d),
         deposit[d] \notin {"none", "done"}, op # "check" => deposit[d] \in Open
  PROVE  Alone' /\ AsRead' /\ Untouched' /\ CreditedIsPaid' /\ CreditedOnce'
<1> USE DEF DepositIInv
<1>1. \A g \in Handlers : \A e :
           /\ Holds(g, e)' <=> (g = h /\ e = d) \/ (g # h /\ Holds(g, e))
           /\ g # h => handler'[g] = handler[g]
           /\ g = h => handler'[g].op = op /\ ~Holds(g, e)
  BY Takes
<1>2. /\ contended \subseteq contended'
      /\ d \notin contended' => ~InHands(d)
      /\ UNCHANGED <<deposit, topup, credited, checking>>
  BY DEF Enter
<1>3. \A e : HeldByHandler(e)' <=> e = d \/ HeldByHandler(e)
  BY <1>1 DEF HeldByHandler
<1>4. Alone'
  BY <1>1, <1>2, <1>3 DEF Alone, InHands, HeldByHandler
<1>5. AsRead'
  BY <1>1, <1>2 DEF AsRead
<1>6. Untouched'
  BY <1>2, <1>3 DEF Untouched, InHands
<1>7. CreditedIsPaid' /\ CreditedOnce'
  BY <1>2 DEF CreditedIsPaid, CreditedOnce
<1> QED
  BY <1>4, <1>5, <1>6, <1>7

\* A handler that writes the row it holds, never to "done" without a credit, and lets
\* go of it keeps the invariant.
LEMMA HandlerWrites ==
  ASSUME DepositIInv, NEW h \in Handlers, NEW d \in Deposits, Holds(h, d),
         NEW c \in {Free, [op |-> "create"]}, handler' = [handler EXCEPT ![h] = c],
         \/ Credit(d) /\ IsPaid(d)
         \/ \E s \in {"expired", "confirmed"} : Set(d, s)
         \/ UNCHANGED <<deposit, credited>>,
         UNCHANGED <<topup, checking, contended>>
  PROVE  Alone' /\ AsRead' /\ Untouched' /\ CreditedIsPaid' /\ CreditedOnce'
<1> USE DEF DepositIInv
<1>1. \A g \in Handlers : \A e :
           /\ Holds(g, e)' <=> g # h /\ Holds(g, e)
           /\ g # h => handler'[g] = handler[g]
  BY LetsGo
<1>2. \A e : HeldByHandler(e)' => HeldByHandler(e)
  BY <1>1 DEF HeldByHandler
<1>3. /\ \A e \in Deposits \ {d} : deposit'[e] = deposit[e] /\ credited'[e] = credited[e]
      /\ deposit[d] # "none" => deposit'[d] # "none"
      /\ \/ deposit'[d] = deposit[d] /\ credited'[d] = credited[d]
         \/ deposit'[d] \in {"expired", "confirmed"} /\ credited'[d] = credited[d]
         \/ deposit'[d] = "done" /\ credited'[d] = credited[d] + 1 /\ topup[d] = "DONE"
  BY CreditTypes DEF Set, IsPaid, DepositTypeOK, Credit
<1>4. Alone'
  BY <1>1, <1>2 DEF Alone
<1>5. d \in contended \/ (d \notin checking /\ \A g \in Handlers : Holds(g, d) => g = h)
  BY DEF Alone, HeldByHandler
<1>6. AsRead'
  BY <1>1, <1>3, <1>5 DEF AsRead
<1>7. deposit[d] # "none"
  BY DEF Untouched, InHands, HeldByHandler
<1>8. Untouched'
  BY <1>2, <1>3, <1>7 DEF Untouched, InHands
<1>9. CreditedIsPaid'
  BY <1>3 DEF CreditedIsPaid, DepositTypeOK
<1>10. d \in contended \/ deposit[d] # "done"
  BY DEF AsRead
<1>11. CreditedOnce'
  BY <1>3, <1>10 DEF CreditedOnce, DepositTypeOK
<1> QED
  BY <1>4, <1>6, <1>8, <1>9, <1>11

\* The same for the status worker.
LEMMA WorkerWrites ==
  ASSUME DepositIInv, NEW d \in checking, checking' = checking \ {d},
         \/ Credit(d) /\ IsPaid(d)
         \/ Set(d, "expired")
         \/ UNCHANGED <<deposit, credited>>,
         UNCHANGED <<topup, handler, contended>>
  PROVE  Alone' /\ AsRead' /\ Untouched' /\ CreditedIsPaid' /\ CreditedOnce'
<1> USE DEF DepositIInv
<1>1. d \in Deposits
  BY DEF DepositTypeOK
<1>2. \A e : (\A g \in Handlers : Holds(g, e)' <=> Holds(g, e)) /\ (HeldByHandler(e)' <=> HeldByHandler(e))
  BY DEF Holds, HeldByHandler
<1>3. /\ \A e \in Deposits \ {d} : deposit'[e] = deposit[e] /\ credited'[e] = credited[e]
      /\ deposit[d] # "none" => deposit'[d] # "none"
      /\ \/ deposit'[d] = deposit[d] /\ credited'[d] = credited[d]
         \/ deposit'[d] = "expired" /\ credited'[d] = credited[d]
         \/ deposit'[d] = "done" /\ credited'[d] = credited[d] + 1 /\ topup[d] = "DONE"
  BY <1>1, CreditTypes DEF Set, IsPaid, DepositTypeOK, Credit
<1>4. Alone'
  BY <1>2 DEF Alone
<1>5. d \in contended \/ \A g \in Handlers : ~Holds(g, d)
  BY <1>1 DEF Alone, HeldByHandler
<1>6. AsRead'
  BY <1>2, <1>3, <1>5 DEF AsRead
<1>7. deposit[d] # "none"
  BY <1>1 DEF Untouched, InHands
<1>8. Untouched'
  BY <1>2, <1>3, <1>7 DEF Untouched, InHands
<1>9. CreditedIsPaid'
  BY <1>3 DEF CreditedIsPaid, DepositTypeOK
<1>10. d \in contended \/ deposit[d] # "done"
  BY <1>1 DEF AsRead, Open
<1>11. CreditedOnce'
  BY <1>3, <1>10 DEF CreditedOnce, DepositTypeOK
<1> QED
  BY <1>4, <1>6, <1>8, <1>9, <1>11

-----------------------------------------------------------------------------
(* The invariant and the theorems.                                         *)

LEMMA DepositStep == DepositIInv /\ [DepositNext]_depositVars => DepositIInv'
<1> SUFFICES ASSUME DepositIInv, [DepositNext]_depositVars
             PROVE  Alone' /\ AsRead' /\ Untouched' /\ CreditedIsPaid' /\ CreditedOnce'
  BY DepositTypeStep DEF DepositIInv
<1> DEFINE Kept == Alone' /\ AsRead' /\ Untouched' /\ CreditedIsPaid' /\ CreditedOnce'
<1>0. DepositTypeOK
  BY DEF DepositIInv
<1>1. CASE UNCHANGED depositVars
  BY <1>1 DEF depositVars, DepositIInv, Alone, AsRead, Untouched, CreditedIsPaid, CreditedOnce,
     Holds, HeldByHandler, InHands
<1>2. ASSUME NEW h \in Handlers, CreateRead(h) PROVE Kept
  <2>1. \A g \in Handlers : \A e :
           /\ Holds(g, e)' <=> g # h /\ Holds(g, e)
           /\ g # h => handler'[g] = handler[g]
    BY <1>0, <1>2, LetsGo DEF CreateRead
  <2>2. \A e : HeldByHandler(e)' => HeldByHandler(e)
    BY <2>1 DEF HeldByHandler
  <2> QED
    BY <1>2, <2>1, <2>2 DEF CreateRead, DepositIInv, Alone, AsRead, Untouched, CreditedIsPaid,
       CreditedOnce, InHands
<1>3. ASSUME NEW h \in Handlers, ExpireOld(h) PROVE Kept
  <2>1. handler[h].d \in Deposits /\ Holds(h, handler[h].d)
    BY <1>0, <1>3, CallNames DEF ExpireOld, Holds
  <2> QED
    BY <1>3, <2>1, HandlerWrites DEF ExpireOld
<1>4. ASSUME NEW h \in Handlers, handler[h].op \in {"cancel", "confirm"},
             CancelWrite(h) \/ ConfirmWrite(h)
      PROVE  Kept
  <2>1. handler[h].d \in Deposits /\ Holds(h, handler[h].d)
    BY <1>0, <1>4, CallNames DEF Holds
  <2> QED
    BY <1>4, <2>1, HandlerWrites DEF CancelWrite, ConfirmWrite, Return
<1>5. ASSUME NEW h \in Handlers, CheckWrite(h) PROVE Kept
  <2>1. handler[h].d \in Deposits /\ Holds(h, handler[h].d)
    BY <1>0, <1>5, CallNames DEF CheckWrite, Holds
  <2> QED
    BY <1>5, <2>1, HandlerWrites DEF CheckWrite, Return
<1>6. ASSUME NEW h \in Handlers, DepositHandlerFails(h) PROVE Kept
  <2>1. CASE handler[h].op = "create"
    <3>1. \A g \in Handlers : \A e :
             /\ Holds(g, e)' <=> g # h /\ Holds(g, e)
             /\ g # h => handler'[g] = handler[g]
      BY <1>0, <1>6, LetsGo DEF DepositHandlerFails, Return
    <3>2. \A e : HeldByHandler(e)' => HeldByHandler(e)
      BY <3>1 DEF HeldByHandler
    <3> QED
      BY <1>6, <3>1, <3>2 DEF DepositHandlerFails, DepositIInv, Alone, AsRead, Untouched,
         CreditedIsPaid, CreditedOnce, InHands
  <2>2. CASE handler[h].op # "create"
    <3>1. handler[h].op # "free"
      BY <1>0, <1>6 DEF DepositHandlerFails, DepositTypeOK, DepositCall, Free
    <3>2. handler[h].d \in Deposits /\ Holds(h, handler[h].d)
      BY <1>0, <2>2, <3>1, CallNames DEF Holds
    <3> QED
      BY <1>6, <3>2, HandlerWrites DEF DepositHandlerFails, Return
  <2> QED
    BY <2>1, <2>2
<1>7. ASSUME NEW h \in Handlers, NEW d \in Deposits,
             \/ CreateReadOld(h, d) \/ CancelRead(h, d) \/ ConfirmRead(h, d)
             \/ PollRead(h, d) \/ AdminCheckRead(h, d)
      PROVE  Kept
  BY <1>7, EnterStep DEF CreateReadOld, Last, CancelRead, ConfirmRead, PollRead, AdminCheckRead,
     Checkable, Open
<1>8. ASSUME NEW h \in Handlers, NEW d \in Deposits, CreateDeposit(h, d) PROVE Kept
  <2>1. \A g \in Handlers : \A e :
           /\ Holds(g, e)' <=> g # h /\ Holds(g, e)
           /\ g # h => handler'[g] = handler[g]
    BY <1>0, <1>8, LetsGo DEF CreateDeposit, Return
  <2>2. \A e : HeldByHandler(e)' => HeldByHandler(e)
    BY <2>1 DEF HeldByHandler
  <2>3. ~InHands(d) /\ credited[d] = 0
    BY <1>8 DEF CreateDeposit, DepositIInv, Untouched
  <2>4. /\ deposit' = [deposit EXCEPT ![d] = "pending"] /\ topup' = [topup EXCEPT ![d] = "PENDING"]
        /\ UNCHANGED <<credited, checking, contended>>
    BY <1>8 DEF CreateDeposit, Set
  <2>5. Alone' /\ AsRead'
    BY <2>1, <2>2, <2>3, <2>4, <1>0 DEF DepositIInv, Alone, AsRead, InHands, HeldByHandler, DepositTypeOK
  <2>6. Untouched'
    BY <2>2, <2>4, <1>0 DEF DepositIInv, Untouched, InHands, DepositTypeOK
  <2>7. CreditedIsPaid' /\ CreditedOnce'
    BY <2>3, <2>4, <1>0, <1>8 DEF DepositIInv, CreditedIsPaid, CreditedOnce, DepositTypeOK, CreateDeposit
  <2> QED
    BY <2>5, <2>6, <2>7
<1>9. ASSUME NEW d \in Deposits, topup[d] = "PENDING",
             NEW s \in {"DONE", "CANCELLED"}, topup' = [topup EXCEPT ![d] = s],
             UNCHANGED <<account, deposit, credited, handler, checking, contended>>
      PROVE  Kept
  <2>1. Alone' /\ AsRead' /\ Untouched' /\ CreditedOnce'
    BY <1>9 DEF DepositIInv, Alone, AsRead, Untouched, CreditedOnce, Holds, HeldByHandler, InHands
  <2>2. CreditedIsPaid'
    BY <1>0, <1>9 DEF DepositIInv, CreditedIsPaid, DepositTypeOK
  <2> QED
    BY <2>1, <2>2
<1>10. ASSUME NEW h \in Handlers, CancelAtFlip(h) PROVE Kept
  <2>1. handler[h].d \in Deposits
    BY <1>0, <1>10, CallNames DEF CancelAtFlip
  <2> QED
    BY <1>9, <1>10, <2>1 DEF CancelAtFlip
<1>11. ASSUME SelectDeposits PROVE Kept
  <2>1. \A e : (\A g \in Handlers : Holds(g, e)' <=> Holds(g, e)) /\ (HeldByHandler(e)' <=> HeldByHandler(e))
    BY <1>11 DEF SelectDeposits, Holds, HeldByHandler
  <2> QED
    BY <1>11, <2>1, <1>0 DEF SelectDeposits, PendingDeposits, DepositIInv, Alone, AsRead, Untouched,
       CreditedIsPaid, CreditedOnce, InHands, DepositTypeOK, Open
<1>12. ASSUME NEW d \in Deposits, CheckDeposit(d) PROVE Kept
  BY <1>12, WorkerWrites DEF CheckDeposit
<1>13. ASSUME NEW d \in Deposits, CheckDepositFails(d) PROVE Kept
  BY <1>13, WorkerWrites DEF CheckDepositFails
<1> QED
  BY <1>1, <1>2, <1>3, <1>4, <1>5, <1>6, <1>7, <1>8, <1>9, <1>10, <1>11, <1>12, <1>13
  DEF DepositNext, TopupEnds, CancelWrite, ConfirmWrite

LEMMA DepositInvariant == DepositSpec => []DepositIInv
BY DepositInitial, DepositStep, PTL DEF DepositSpec

\* Money is credited only for a top-up that Flip completed, and what is done has been
\* credited, for any number of deposits and handlers.
THEOREM DepositCreditedIsPaid == DepositSpec => []CreditedIsPaid
BY DepositInvariant, PTL DEF DepositIInv

\* A deposit that was never in two hands is credited exactly once.
THEOREM DepositCreditedOnce == DepositSpec => []CreditedOnce
BY DepositInvariant, PTL DEF DepositIInv

\* Both together, as the runs check them.
THEOREM DepositCreditedAsPaid == DepositSpec => []CreditedAsPaid
BY DepositCreditedIsPaid, DepositCreditedOnce, PTL DEF CreditedAsPaid

-----------------------------------------------------------------------------
(* The account.                                                            *)

\* The totals explain the balance of an account that has the type of one.
Adds == account \in Account /\ AccountAdds

LEMMA DepositedAdds ==
  ASSUME Adds, NEW n \in Int, account' = Deposited(n)
  PROVE  Adds'
<1>1. /\ account'.balance = account.balance + n
      /\ account'.totalDeposited = account.totalDeposited + n
      /\ account'.totalDisbursed = account.totalDisbursed
      /\ account'.totalFees = account.totalFees
      /\ account' \in Account
  BY DepositedTypes DEF Adds
<1>2. account.balance \in Int /\ account.totalDeposited \in Int
      /\ account.totalDisbursed \in Int /\ account.totalFees \in Int
  BY DEF Adds, Account
<1> QED
  BY <1>1, <1>2 DEF Adds, AccountAdds

\* Debits and refunds: three fields change.
LEMMA ThreeFields ==
  ASSUME account \in Account, NEW b \in Int, NEW t \in Int, NEW f \in Int,
         account' = [account EXCEPT !.balance = b, !.totalDisbursed = t, !.totalFees = f]
  PROVE  /\ account'.balance = b
         /\ account'.totalDeposited = account.totalDeposited
         /\ account'.totalDisbursed = t
         /\ account'.totalFees = f
         /\ account' \in Account
<1> DEFINE a1 == [account EXCEPT !.balance = b]
           a2 == [a1 EXCEPT !.totalDisbursed = t]
<1>1. /\ account'.balance = b
      /\ account'.totalDeposited = account.totalDeposited
      /\ account'.totalDisbursed = t
      /\ account'.totalFees = f
  BY DEF Account
<1>2. a1 \in Account
  BY Zenon DEF Account
<1>3. account' = [a2 EXCEPT !.totalFees = f]
  BY DEF Account
<1> HIDE DEF a1
<1>4. a2 \in Account
  BY <1>2, Zenon DEF Account
<1> HIDE DEF a2
<1>5. [a2 EXCEPT !.totalFees = f] \in Account
  BY <1>4, Zenon DEF Account
<1> QED
  BY <1>1, <1>3, <1>5

LEMMA CostsInt == Payout \in Int /\ Fee \in Int /\ Cost \in Int /\ Cost = Payout + Fee
BY DisbursementAssumption DEF Cost

LEMMA DebitAdds ==
  ASSUME Adds,
         account' = [account EXCEPT !.balance = @ - Cost,
                                    !.totalDisbursed = @ + Payout, !.totalFees = @ + Fee]
  PROVE  Adds'
<1>1. account.balance \in Int /\ account.totalDeposited \in Int
      /\ account.totalDisbursed \in Int /\ account.totalFees \in Int
  BY DEF Adds, Account
<1> DEFINE b == account.balance - Cost
           t == account.totalDisbursed + Payout
           f == account.totalFees + Fee
<1>2. b \in Int /\ t \in Int /\ f \in Int
  BY <1>1, CostsInt
<1>3. account' = [account EXCEPT !.balance = b, !.totalDisbursed = t, !.totalFees = f]
  OBVIOUS
<1> HIDE DEF b, t, f
<1>4. /\ account'.balance = b
      /\ account'.totalDeposited = account.totalDeposited
      /\ account'.totalDisbursed = t
      /\ account'.totalFees = f
      /\ account' \in Account
  BY <1>2, <1>3, ThreeFields DEF Adds
<1> QED
  BY <1>1, <1>4, CostsInt DEF Adds, AccountAdds, b, t, f

LEMMA RefundAdds ==
  ASSUME Adds, account' = Refunded
  PROVE  Adds'
<1>1. account.balance \in Int /\ account.totalDeposited \in Int
      /\ account.totalDisbursed \in Int /\ account.totalFees \in Int
  BY DEF Adds, Account
<1> DEFINE b == account.balance + Cost
           t == account.totalDisbursed - Payout
           f == account.totalFees - Fee
<1>2. b \in Int /\ t \in Int /\ f \in Int
  BY <1>1, CostsInt
<1>3. account' = [account EXCEPT !.balance = b, !.totalDisbursed = t, !.totalFees = f]
  BY DEF Refunded
<1> HIDE DEF b, t, f
<1>4. /\ account'.balance = b
      /\ account'.totalDeposited = account.totalDeposited
      /\ account'.totalDisbursed = t
      /\ account'.totalFees = f
      /\ account' \in Account
  BY <1>2, <1>3, ThreeFields DEF Adds
<1> QED
  BY <1>1, <1>4, CostsInt DEF Adds, AccountAdds, b, t, f

LEMMA AddsInitial == Init => Adds
BY DepositAssumption DEF Init, DepositInit, Adds, AccountAdds, Account

\* Every step leaves the account alone, or deposits, debits or refunds.
LEMMA AddsStep == Adds /\ [Next]_vars => Adds'
<1> SUFFICES ASSUME Adds, [Next]_vars PROVE Adds'
  OBVIOUS
<1>1. CASE UNCHANGED account
  BY <1>1 DEF Adds, AccountAdds
<1>2. CASE account' = Deposited(DepositAmount)
  BY <1>2, DepositAssumption, DepositedAdds
<1>3. CASE account' = [account EXCEPT !.balance = @ - Cost,
                                       !.totalDisbursed = @ + Payout, !.totalFees = @ + Fee]
  BY <1>3, DebitAdds
<1>4. CASE account' = Refunded
  BY <1>4, RefundAdds
<1> DEFINE Booked == \/ UNCHANGED account
                     \/ account' = Deposited(DepositAmount)
                     \/ account' = [account EXCEPT !.balance = @ - Cost,
                                      !.totalDisbursed = @ + Payout, !.totalFees = @ + Fee]
                     \/ account' = Refunded
<1>5. CASE UNCHANGED vars
  BY <1>1, <1>5 DEF vars, depositVars
<1>6. ASSUME DepositNext PROVE Booked
  BY <1>6 DEF DepositNext, CreateRead, ExpireOld, CancelAtFlip, CancelWrite, ConfirmWrite, CheckWrite,
     DepositHandlerFails, CreateReadOld, CreateDeposit, CancelRead, ConfirmRead, PollRead,
     AdminCheckRead, SelectDeposits, TopupEnds, CheckDeposit, CheckDepositFails, Enter, Set, Credit
<1>7. ASSUME Handle PROVE Booked
  BY <1>7 DEF Handle, TransferRead, RetryDebit, EndRequest, MoveRead, MoveIn, RequestFails,
     TransferDebit, RetryRead, Debit, Retried, depositVars
<1>8. ASSUME FlipWorker PROVE Booked
  BY <1>8 DEF FlipWorker, TakeJob, MarkProcessing, Transfer, SaveTrx, RunFails, JobEnds, Crash,
     Refund, money, depositVars
<1>9. ASSUME Flip PROVE Booked
  BY <1>9 DEF Flip, FlipSettles, depositVars
<1>10. ASSUME StatusWorker PROVE Booked
  BY <1>10 DEF StatusWorker, StatusSelect, CheckTransfer, CheckFails, Refund, Confirm, money, depositVars
<1>11. ASSUME Verify PROVE Booked
  BY <1>11 DEF Verify, VerifyRead, VerifyWrite, Refund, Confirm, money, depositVars
<1>12. ASSUME NEW d \in Disbursements, DayPasses(d) PROVE Booked
  BY <1>12 DEF DayPasses, depositVars
<1>13. Booked \/ UNCHANGED vars
  BY <1>6, <1>7, <1>8, <1>9, <1>10, <1>11, <1>12 DEF Next
<1> QED
  BY <1>1, <1>2, <1>3, <1>4, <1>5, <1>13

\* The totals explain the balance whatever happens: every debit and every refund, even a
\* second one, moves the balance and the totals together.
THEOREM DisbursementAccountAdds == Spec => []AccountAdds
BY AddsInitial, AddsStep, PTL DEF Spec, Adds

-----------------------------------------------------------------------------
(* Typing.                                                                 *)

\* The part of TypeOK that is not about the deposits.
OwnTypeOK ==
  /\ row \in [Disbursements -> Row]
  /\ charged \in [Disbursements -> Int]
  /\ retried \in [Disbursements -> Nat]
  /\ available \in Int
  /\ request \in [Requests -> Request]
  /\ queue \in Seq(Job)
  /\ worker \in Worker
  /\ worker.phase = "transferred" => worker.trx \in 1..Len(transfers[worker.job.d])
  /\ transfers \in [Disbursements -> Seq({"PENDING", "DONE", "FAILED"})]
  /\ \A d \in Disbursements : row[d].trx \in 0..Len(transfers[d])
  /\ batch \subseteq [d : Disbursements, trx : Nat]
  /\ \A x \in batch : x.trx \in 1..Len(transfers[x.d])
  /\ calls \subseteq Call
  /\ \A call \in calls : call.trx \in 1..Len(transfers[call.d])
  /\ loose \subseteq Disbursements

LEMMA TypeParts == TypeOK <=> DepositTypeOK /\ OwnTypeOK
BY DEF TypeOK, OwnTypeOK

LEMMA OwnInitial == Init => OwnTypeOK /\ SuccessIsPaid
BY DisbursementAssumption DEF Init, OwnTypeOK, SuccessIsPaid, Row, RowStatuses, Request, Idle, Worker, Resting

\* A row whose status alone is written.
LEMMA StatusWritten ==
  ASSUME row \in [Disbursements -> Row], NEW d \in Disbursements, NEW s \in RowStatuses,
         row' = [row EXCEPT ![d].status = s]
  PROVE  /\ row' \in [Disbursements -> Row]
         /\ row'[d].status = s
         /\ \A e \in Disbursements : row'[e].trx = row[e].trx
         /\ \A e \in Disbursements \ {d} : row'[e] = row[e]
<1>1. row[d] \in Row
  OBVIOUS
<1>2. [row[d] EXCEPT !.status = s] \in Row
  BY <1>1 DEF Row, RowStatuses
<1>3. [row[d] EXCEPT !.status = s].trx = row[d].trx /\ [row[d] EXCEPT !.status = s].status = s
  BY <1>1 DEF Row, RowStatuses
<1>4. row' = [row EXCEPT ![d] = [row[d] EXCEPT !.status = s]]
  OBVIOUS
<1> QED
  BY <1>2, <1>3, <1>4

LEMMA JobOfWorker ==
  ASSUME OwnTypeOK, worker.phase \in {"read", "processing", "ended", "transferred"}
  PROVE  worker.job \in Job /\ worker.job.d \in Disbursements
BY DEF OwnTypeOK, Worker, Job

LEMMA RefundTypes ==
  ASSUME OwnTypeOK, NEW d \in Disbursements, Refund(d)
  PROVE  /\ row' \in [Disbursements -> Row]
         /\ charged' \in [Disbursements -> Int]
         /\ available' = available
         /\ \A e \in Disbursements : row'[e].trx = row[e].trx
         /\ \A e \in Disbursements \ {d} : row'[e] = row[e]
         /\ row'[d].status = "failed"
<1>1. row' = [row EXCEPT ![d].status = "failed"] /\ "failed" \in RowStatuses
  BY DEF Refund, RowStatuses
<1>2. charged' \in [Disbursements -> Int] /\ available' = available
  BY DEF OwnTypeOK, Refund
<1> QED
  BY <1>1, <1>2, StatusWritten DEF OwnTypeOK

LEMMA RequestNames ==
  ASSUME OwnTypeOK, NEW q \in Requests, request[q].stage \in {"retry", "debited"}
  PROVE  request[q].d \in Disbursements
BY DEF OwnTypeOK, Request

LEMMA RetriedRow ==
  ASSUME NEW x \in Row
  PROVE  /\ [x EXCEPT !.status = "pending", !.trx = 0] \in Row
         /\ [x EXCEPT !.status = "pending", !.trx = 0].trx = 0
         /\ [x EXCEPT !.status = "pending", !.trx = 0].status = "pending"
<1> DEFINE x1 == [x EXCEPT !.status = "pending"]
<1>1. x1 \in Row
  BY Zenon DEF Row, RowStatuses
<1>2. [x EXCEPT !.status = "pending", !.trx = 0] = [x1 EXCEPT !.trx = 0]
  BY DEF Row, RowStatuses
<1>3. /\ [x EXCEPT !.status = "pending", !.trx = 0].trx = 0
      /\ [x EXCEPT !.status = "pending", !.trx = 0].status = "pending"
  BY DEF Row, RowStatuses
<1> HIDE DEF x1
<1>4. [x1 EXCEPT !.trx = 0] \in Row
  BY <1>1 DEF Row, RowStatuses
<1> QED
  BY <1>2, <1>3, <1>4

\* What the worker and the verification do to a row leaves the rest typed.
LEMMA RowChanges ==
  ASSUME OwnTypeOK, NEW d \in Disbursements,
         Refund(d) \/ UNCHANGED money \/ Confirm(d)
  PROVE  /\ row' \in [Disbursements -> Row]
         /\ charged' \in [Disbursements -> Int]
         /\ available' = available
         /\ \A e \in Disbursements : row'[e].trx = row[e].trx
         /\ \A e \in Disbursements \ {d} : row'[e] = row[e]
         /\ row'[d].status = "success" => row[d].status = "success" \/ Confirm(d)
<1>1. CASE Refund(d)
  BY <1>1, RefundTypes
<1>2. CASE UNCHANGED money
  BY <1>2 DEF money, OwnTypeOK
<1>3. CASE Confirm(d)
  BY <1>3, StatusWritten DEF Confirm, OwnTypeOK, RowStatuses
<1> QED
  BY <1>1, <1>2, <1>3

\* A step of the handlers.
LEMMA HandleTypes == OwnTypeOK /\ SuccessIsPaid /\ Handle => (OwnTypeOK /\ SuccessIsPaid)'
<1> SUFFICES ASSUME OwnTypeOK, SuccessIsPaid, Handle PROVE (OwnTypeOK /\ SuccessIsPaid)'
  OBVIOUS
<1> USE DEF OwnTypeOK
<1>1. ASSUME NEW q \in Requests, TransferRead(q) \/ MoveRead(q) \/ RequestFails(q)
      PROVE  (OwnTypeOK /\ SuccessIsPaid)'
  <2>1. /\ request' \in [Requests -> Request]
        /\ UNCHANGED <<row, charged, retried, available, queue, worker, transfers, batch, calls, loose>>
    <3>1. PICK c \in {[stage |-> "transfer"], [stage |-> "move"], Idle} :
            /\ request' = [request EXCEPT ![q] = c]
            /\ UNCHANGED <<row, charged, retried, available, queue, worker, transfers, batch, calls, loose>>
      BY <1>1 DEF TransferRead, MoveRead, RequestFails
    <3>2. c \in Request
      BY <3>1 DEF Request, Idle
    <3> QED
      BY <3>1, <3>2
  <2> QED
    BY <2>1 DEF SuccessIsPaid
<1>2. ASSUME NEW q \in Requests, NEW d \in Disbursements, TransferDebit(q, d)
      PROVE  (OwnTypeOK /\ SuccessIsPaid)'
  <2>1. row' = [row EXCEPT ![d].status = "pending"] /\ "pending" \in RowStatuses
    BY <1>2 DEF TransferDebit, RowStatuses
  <2>2. /\ row' \in [Disbursements -> Row]
        /\ row'[d].status = "pending"
        /\ \A e \in Disbursements : row'[e].trx = row[e].trx
        /\ \A e \in Disbursements \ {d} : row'[e] = row[e]
    BY <2>1, StatusWritten
  <2>3. SuccessIsPaid'
    BY <1>2, <2>2 DEF SuccessIsPaid, TransferDebit
  <2> QED
    BY <1>2, <2>2, <2>3 DEF TransferDebit, Debit, Request
<1>3. ASSUME NEW q \in Requests, NEW d \in Disbursements, RetryRead(q, d)
      PROVE  (OwnTypeOK /\ SuccessIsPaid)'
  BY <1>3 DEF RetryRead, Request, LoosenIfHeld, SuccessIsPaid
<1>4. ASSUME NEW q \in Requests, RetryDebit(q) PROVE (OwnTypeOK /\ SuccessIsPaid)'
  <2> DEFINE d == request[q].d
             r == [row[d] EXCEPT !.status = "pending", !.trx = 0]
  <2>1. d \in Disbursements
    BY <1>4, RequestNames DEF RetryDebit
  <2>2. row[d] \in Row
    BY <2>1
  <2>3. r \in Row /\ r.trx = 0 /\ r.status = "pending"
    BY <2>2, RetriedRow
  <2>4. row' = [row EXCEPT ![d] = r]
    BY <1>4 DEF RetryDebit
  <2> HIDE DEF r
  <2>5. SuccessIsPaid'
    BY <1>4, <2>1, <2>3, <2>4 DEF SuccessIsPaid, RetryDebit
  <2>6. row' \in [Disbursements -> Row] /\ \A e \in Disbursements : row'[e].trx \in 0..Len(transfers'[e])
    BY <1>4, <2>1, <2>3, <2>4 DEF RetryDebit
  <2>7. retried' \in [Disbursements -> Nat] /\ charged' \in [Disbursements -> Int] /\ available' \in Int
    BY <1>4, <2>1 DEF RetryDebit, Retried, Debit
  <2> QED
    BY <1>4, <2>1, <2>5, <2>6, <2>7 DEF RetryDebit, Request
<1>5. ASSUME NEW q \in Requests, EndRequest(q) PROVE (OwnTypeOK /\ SuccessIsPaid)'
  <2>1. [d |-> request[q].d, stalled |-> 0] \in Job
    <3>1. request[q].d \in Disbursements
      BY <1>5, RequestNames DEF EndRequest
    <3> QED
      BY <3>1, DisbursementAssumption DEF Job
  <2>2. queue' \in Seq(Job)
    <3>1. PICK j \in Job : j = [d |-> request[q].d, stalled |-> 0]
      BY <2>1
    <3>2. queue' = queue \o <<>> \/ queue' = queue \o <<j>>
      BY <1>5, <3>1 DEF EndRequest
    <3>3. queue \in Seq(Job)
      OBVIOUS
    <3>4. queue \o <<>> \in Seq(Job) /\ queue \o <<j>> \in Seq(Job)
      BY <3>3
    <3> QED
      BY <3>2, <3>4
  <2> QED
    <3>1. /\ request' \in [Requests -> Request]
          /\ UNCHANGED <<row, charged, retried, available, worker, transfers, batch, calls, loose>>
      BY <1>5 DEF EndRequest, Request, Idle
    <3> QED
      BY <2>2, <3>1 DEF SuccessIsPaid
<1>6. ASSUME NEW q \in Requests, MoveIn(q) PROVE (OwnTypeOK /\ SuccessIsPaid)'
  BY <1>6, DepositAssumption DEF MoveIn, Request, Idle, SuccessIsPaid
<1> QED
  BY <1>1, <1>2, <1>3, <1>4, <1>5, <1>6 DEF Handle

LEMMA StalledOnceMore ==
  ASSUME NEW j \in Job, j.stalled < MaxStalledCount
  PROVE  [j EXCEPT !.stalled = @ + 1] \in Job
<1> DEFINE n == j.stalled + 1
<1>1. n \in 0..MaxStalledCount
  BY DisbursementAssumption DEF Job
<1> HIDE DEF n
<1>2. [j EXCEPT !.stalled = n] \in Job
  BY <1>1 DEF Job
<1> QED
  BY <1>2 DEF n

\* A step of the flip worker.
LEMMA WorkerTypes == OwnTypeOK /\ SuccessIsPaid /\ FlipWorker => (OwnTypeOK /\ SuccessIsPaid)'
<1> SUFFICES ASSUME OwnTypeOK, SuccessIsPaid, FlipWorker PROVE (OwnTypeOK /\ SuccessIsPaid)'
  OBVIOUS
<1> USE DEF OwnTypeOK
<1>0. Resting \in Worker /\ Resting.phase = "idle"
  BY DEF Worker, Resting
<1>1. CASE TakeJob
  <2>1. Head(queue) \in Job /\ queue' = Tail(queue) /\ Tail(queue) \in Seq(Job)
    BY <1>1 DEF TakeJob
  <2>2. \A j \in Job : [phase |-> "read", job |-> j] \in Worker
    BY DEF Worker
  <2>3. worker' \in Worker /\ worker'.phase # "transferred"
    BY <1>0, <1>1, <2>1, <2>2 DEF TakeJob
  <2>4. Head(queue).d \in Disbursements
    BY <2>1 DEF Job
  <2>5. loose' \subseteq Disbursements
    BY <1>1, <2>4 DEF TakeJob
  <2>6. UNCHANGED <<row, charged, retried, available, request, transfers, batch, calls>>
    BY <1>1 DEF TakeJob
  <2> QED
    BY <2>1, <2>3, <2>5, <2>6 DEF SuccessIsPaid
<1>2. CASE MarkProcessing
  <2>1. worker.job.d \in Disbursements /\ worker.job \in Job
    BY <1>2, JobOfWorker DEF MarkProcessing
  <2>2. row' = [row EXCEPT ![worker.job.d].status = "processing"] /\ "processing" \in RowStatuses
    BY <1>2 DEF MarkProcessing, RowStatuses
  <2>3. /\ row' \in [Disbursements -> Row]
        /\ row'[worker.job.d].status = "processing"
        /\ \A e \in Disbursements : row'[e].trx = row[e].trx
        /\ \A e \in Disbursements \ {worker.job.d} : row'[e] = row[e]
    BY <2>1, <2>2, StatusWritten
  <2>4. worker = [phase |-> "read", job |-> worker.job]
    BY <1>2 DEF MarkProcessing, Worker
  <2>5. worker' = [phase |-> "processing", job |-> worker.job]
    BY <1>2, <2>4 DEF MarkProcessing
  <2>6. worker' \in Worker /\ worker'.phase # "transferred"
    BY <2>1, <2>5 DEF Worker
  <2>7. UNCHANGED <<charged, retried, available, request, queue, transfers, batch, calls, loose>>
    BY <1>2 DEF MarkProcessing
  <2> QED
    BY <2>1, <2>3, <2>6, <2>7 DEF SuccessIsPaid
<1>3. CASE Transfer
  <2> DEFINE d == worker.job.d
             k == Len(transfers[d]) + 1
  <2>1. d \in Disbursements /\ worker.job \in Job
    BY <1>3, JobOfWorker DEF Transfer
  <2>2. transfers[d] \in Seq({"PENDING", "DONE", "FAILED"}) /\ Len(transfers[d]) \in Nat
    BY <2>1
  <2>3. PICK trx \in 1..k :
          /\ transfers' = IF trx = k THEN [transfers EXCEPT ![d] = Append(@, "PENDING")] ELSE transfers
          /\ worker' = [phase |-> "transferred", job |-> worker.job, trx |-> trx]
    BY <1>3 DEF Transfer
  <2>4. /\ transfers' \in [Disbursements -> Seq({"PENDING", "DONE", "FAILED"})]
        /\ \A e \in Disbursements : /\ Len(transfers'[e]) >= Len(transfers[e])
                                    /\ \A i \in 1..Len(transfers[e]) : transfers'[e][i] = transfers[e][i]
        /\ trx \in 1..Len(transfers'[d])
    <3>1. CASE trx = k
      <4> DEFINE t == Append(transfers[d], "PENDING")
      <4>1. /\ t \in Seq({"PENDING", "DONE", "FAILED"}) /\ Len(t) = k
            /\ \A i \in 1..Len(transfers[d]) : t[i] = transfers[d][i]
        BY <2>2
      <4>2. transfers' = [transfers EXCEPT ![d] = t]
        BY <2>3, <3>1
      <4> HIDE DEF t
      <4> QED
        BY <2>1, <2>2, <3>1, <4>1, <4>2
    <3>2. CASE trx # k
      BY <2>1, <2>2, <2>3, <3>2
    <3> QED
      BY <3>1, <3>2
  <2>5. worker' \in Worker /\ (worker'.phase = "transferred" => worker'.trx \in 1..Len(transfers'[worker'.job.d]))
    BY <2>1, <2>2, <2>3, <2>4 DEF Worker
  <2>6. UNCHANGED <<row, charged, retried, available, request, queue, batch, calls, loose>>
    BY <1>3 DEF Transfer
  <2>7. \A e \in Disbursements : Len(transfers[e]) \in Nat /\ Len(transfers'[e]) \in Nat
    BY <2>4
  <2>8. \A e \in Disbursements : \A i \in Nat :
          /\ i \in 0..Len(transfers[e]) => i \in 0..Len(transfers'[e])
          /\ i \in 1..Len(transfers[e]) => i \in 1..Len(transfers'[e])
    BY <2>4, <2>7
  <2>9. SuccessIsPaid'
    BY <2>4, <2>6, <2>7, <2>8 DEF SuccessIsPaid
  <2>10. \A e \in Disbursements : row'[e].trx \in 0..Len(transfers'[e])
    BY <2>6, <2>7, <2>8 DEF Row, RowStatuses
  <2>11. (\A x \in batch' : x.trx \in 1..Len(transfers'[x.d]))
         /\ \A call \in calls' : call.trx \in 1..Len(transfers'[call.d])
    BY <2>6, <2>7, <2>8 DEF Call
  <2> HIDE DEF d, k
  <2> QED
    BY <2>4, <2>5, <2>6, <2>9, <2>10, <2>11
<1>4. CASE SaveTrx
  <2> DEFINE d == worker.job.d
             r == [status |-> "processing", trx |-> worker.trx, old |-> FALSE]
  <2>1. d \in Disbursements /\ worker.job \in Job
    BY <1>4, JobOfWorker DEF SaveTrx
  <2>2. worker.trx \in 1..Len(transfers[d]) /\ Len(transfers[d]) \in Nat
    BY <1>4, <2>1 DEF SaveTrx
  <2>3. r \in Row /\ r.trx \in 0..Len(transfers[d]) /\ r.status = "processing"
    BY <2>2 DEF Row, RowStatuses
  <2>4. row' = [row EXCEPT ![d] = r]
    BY <1>4 DEF SaveTrx
  <2>5. worker' \in Worker /\ worker'.phase # "transferred"
    BY <1>4, <2>1 DEF SaveTrx, Worker
  <2>6. UNCHANGED <<charged, retried, available, request, queue, transfers, batch, calls, loose>>
    BY <1>4 DEF SaveTrx
  <2> HIDE DEF r
  <2> QED
    BY <2>1, <2>3, <2>4, <2>5, <2>6 DEF SuccessIsPaid
<1>5. CASE RunFails
  <2> DEFINE d == worker.job.d
  <2>1. d \in Disbursements /\ worker.job \in Job
    BY <1>5, JobOfWorker DEF RunFails
  <2>2. Refund(d) \/ UNCHANGED money
    BY <1>5 DEF RunFails
  <2>3. worker' \in Worker /\ worker'.phase # "transferred"
    BY <1>5, <2>1 DEF RunFails, Worker
  <2>4. loose' \subseteq Disbursements /\ UNCHANGED <<retried, request, queue, transfers, batch, calls>>
    BY <1>5, <2>1 DEF RunFails
  <2> HIDE DEF d
  <2>5. /\ row' \in [Disbursements -> Row]
        /\ charged' \in [Disbursements -> Int]
        /\ available' = available
        /\ \A e \in Disbursements : row'[e].trx = row[e].trx
        /\ \A e \in Disbursements \ {d} : row'[e] = row[e]
    BY <2>1, <2>2, RowChanges
  <2>6. row'[d].status = "success" => row[d].status = "success"
    BY <2>1, <2>2, RefundTypes DEF money
  <2>7. SuccessIsPaid'
    BY <2>1, <2>4, <2>5, <2>6 DEF SuccessIsPaid
  <2> QED
    BY <2>3, <2>4, <2>5, <2>7
<1>6. CASE JobEnds
  BY <1>0, <1>6 DEF JobEnds, SuccessIsPaid
<1>7. CASE Crash
  <2>1. worker.phase # "idle"
    BY <1>7 DEF Crash, Worker, Resting
  <2>2. worker.job \in Job
    BY <2>1 DEF Worker
  <2>3. worker.job.stalled < MaxStalledCount => [worker.job EXCEPT !.stalled = @ + 1] \in Job
    BY <2>2, StalledOnceMore
  <2>4. queue' \in Seq(Job)
    <3>1. CASE worker.job.stalled < MaxStalledCount
      <4>1. PICK j \in Job : queue' = <<j>> \o queue
        BY <1>7, <2>3, <3>1 DEF Crash
      <4> QED
        BY <4>1
    <3>2. CASE ~(worker.job.stalled < MaxStalledCount)
      BY <1>7, <3>2 DEF Crash
    <3> QED
      BY <3>1, <3>2
  <2>5. worker' = Resting
        /\ UNCHANGED <<row, charged, retried, available, request, transfers, batch, calls, loose>>
    BY <1>7 DEF Crash
  <2> QED
    BY <1>0, <2>4, <2>5 DEF SuccessIsPaid
<1> QED
  BY <1>1, <1>2, <1>3, <1>4, <1>5, <1>6, <1>7 DEF FlipWorker

\* Flip settles a transfer, or time passes.
LEMMA OutsideTypes ==
  ASSUME OwnTypeOK, SuccessIsPaid, Flip \/ \E d \in Disbursements : DayPasses(d)
  PROVE  (OwnTypeOK /\ SuccessIsPaid)'
<1> USE DEF OwnTypeOK
<1>1. ASSUME NEW d \in Disbursements, NEW k \in DOMAIN transfers[d], FlipSettles(d, k)
      PROVE  (OwnTypeOK /\ SuccessIsPaid)'
  <2>1. PICK s \in {"DONE", "FAILED"} : transfers' = [transfers EXCEPT ![d][k] = s]
    BY <1>1 DEF FlipSettles
  <2> DEFINE t == [transfers[d] EXCEPT ![k] = s]
  <2>2. transfers[d] \in Seq({"PENDING", "DONE", "FAILED"}) /\ transfers[d][k] = "PENDING"
    BY <1>1 DEF FlipSettles
  <2>3. /\ t \in Seq({"PENDING", "DONE", "FAILED"}) /\ Len(t) = Len(transfers[d])
        /\ DOMAIN t = DOMAIN transfers[d]
        /\ \A i \in DOMAIN transfers[d] : transfers[d][i] = "DONE" => t[i] = "DONE"
    BY <1>1, <2>2
  <2>4. transfers' = [transfers EXCEPT ![d] = t]
    BY <2>1
  <2> HIDE DEF t
  <2>5. /\ transfers' \in [Disbursements -> Seq({"PENDING", "DONE", "FAILED"})]
        /\ \A e \in Disbursements : /\ Len(transfers'[e]) = Len(transfers[e])
                                    /\ DOMAIN transfers'[e] = DOMAIN transfers[e]
                                    /\ \A i \in DOMAIN transfers[e] :
                                         transfers[e][i] = "DONE" => transfers'[e][i] = "DONE"
    BY <2>3, <2>4
  <2>6. UNCHANGED <<row, charged, retried, available, request, queue, worker, batch, calls, loose>>
    BY <1>1 DEF FlipSettles
  <2>7. SuccessIsPaid'
    BY <2>5, <2>6 DEF SuccessIsPaid
  <2>8. worker.phase = "transferred" => worker.job.d \in Disbursements
    BY JobOfWorker
  <2>9. (\A x \in batch' : x.trx \in 1..Len(transfers'[x.d]))
        /\ \A call \in calls' : call.trx \in 1..Len(transfers'[call.d])
    BY <2>5, <2>6 DEF Call
  <2> QED
    BY <2>5, <2>6, <2>7, <2>8, <2>9
<1>2. ASSUME NEW d \in Disbursements, DayPasses(d) PROVE (OwnTypeOK /\ SuccessIsPaid)'
  <2> DEFINE r == [row[d] EXCEPT !.old = TRUE]
  <2>1. row[d] \in Row
    OBVIOUS
  <2>2. r \in Row /\ r.trx = row[d].trx /\ r.status = row[d].status
    BY <2>1 DEF Row, RowStatuses
  <2>3. row' = [row EXCEPT ![d] = r]
    BY <1>2 DEF DayPasses
  <2>4. UNCHANGED <<charged, retried, available, request, queue, worker, transfers, batch, calls, loose>>
    BY <1>2 DEF DayPasses
  <2> HIDE DEF r
  <2> QED
    BY <2>2, <2>3, <2>4 DEF SuccessIsPaid
<1> QED
  BY <1>1, <1>2 DEF Flip

\* A row is confirmed when Flip has said so, or refunded, or left.
LEMMA Answered ==
  ASSUME OwnTypeOK, SuccessIsPaid, NEW d \in Disbursements, NEW trx \in 1..Len(transfers[d]),
         \/ OutcomeOf(d, trx) = "DONE" /\ Confirm(d)
         \/ Refund(d)
         \/ UNCHANGED money,
         batch' \subseteq batch, calls' \subseteq calls,
         UNCHANGED <<retried, request, queue, worker, transfers, loose>>
  PROVE  (OwnTypeOK /\ SuccessIsPaid)'
<1>1. /\ row' \in [Disbursements -> Row]
      /\ charged' \in [Disbursements -> Int]
      /\ available' = available
      /\ \A e \in Disbursements : row'[e].trx = row[e].trx
      /\ \A e \in Disbursements \ {d} : row'[e] = row[e]
  BY RowChanges
<1>2. row'[d].status = "success" => row[d].status = "success" \/ transfers[d][trx] = "DONE"
  BY RefundTypes DEF money, OutcomeOf
<1>3. trx \in DOMAIN transfers[d]
  BY DEF OwnTypeOK
<1>4. SuccessIsPaid'
  BY <1>1, <1>2, <1>3 DEF SuccessIsPaid
<1>5. OwnTypeOK'
  BY <1>1 DEF OwnTypeOK
<1> QED
  BY <1>4, <1>5

\* A step of the status worker or of a verification.
LEMMA AnswerTypes ==
  ASSUME OwnTypeOK, SuccessIsPaid, StatusWorker \/ Verify
  PROVE  (OwnTypeOK /\ SuccessIsPaid)'
<1>0. \A d \in Disbursements : row[d].trx # 0 => row[d].trx \in Nat /\ row[d].trx \in 1..Len(transfers[d])
  BY DEF OwnTypeOK, Row
<1>1. CASE StatusSelect
  <2>1. batch' = {[d |-> d, trx |-> row[d].trx] : d \in RecentDisbursements}
        /\ UNCHANGED <<row, charged, retried, available, request, queue, worker, transfers, calls>>
    BY <1>1 DEF StatusSelect
  <2>2. RecentDisbursements \subseteq Disbursements
        /\ \A d \in RecentDisbursements : row[d].trx # 0
    BY DEF RecentDisbursements
  <2>3. batch' \subseteq [d : Disbursements, trx : Nat]
    BY <1>0, <2>1, <2>2
  <2>4. \A x \in batch' : x.trx \in 1..Len(transfers[x.d])
    BY <1>0, <2>1, <2>2
  <2>5. loose' \subseteq Disbursements
    BY <1>1, <2>2 DEF StatusSelect, OwnTypeOK
  <2> QED
    BY <2>1, <2>3, <2>4, <2>5 DEF OwnTypeOK, SuccessIsPaid
<1>2. ASSUME NEW x \in batch, CheckTransfer(x) \/ CheckFails(x) PROVE (OwnTypeOK /\ SuccessIsPaid)'
  <2>1. x.d \in Disbursements /\ x.trx \in 1..Len(transfers[x.d])
    BY DEF OwnTypeOK
  <2>2. \/ OutcomeOf(x.d, x.trx) = "DONE" /\ Confirm(x.d)
        \/ Refund(x.d)
        \/ UNCHANGED money
    BY <1>2 DEF CheckTransfer, CheckFails, money, depositVars
  <2>3. /\ batch' \subseteq batch /\ calls' \subseteq calls
        /\ UNCHANGED <<retried, request, queue, worker, transfers, loose>>
    BY <1>2 DEF CheckTransfer, CheckFails
  <2> QED
    BY <2>1, <2>2, <2>3, Answered
<1>3. ASSUME NEW d \in Disbursements, VerifyRead(d) PROVE (OwnTypeOK /\ SuccessIsPaid)'
  <2> DEFINE c == [d |-> d, trx |-> row[d].trx, status |-> row[d].status]
  <2>1. row[d].trx # 0 /\ calls' = calls \cup {c}
        /\ UNCHANGED <<row, charged, retried, available, request, queue, worker, transfers, batch>>
    BY <1>3 DEF VerifyRead
  <2>2. c \in Call /\ c.trx \in 1..Len(transfers[c.d])
    BY <1>0, <2>1 DEF Call, OwnTypeOK, Row
  <2>3. loose' \subseteq Disbursements
    BY <1>3 DEF VerifyRead, LoosenIfHeld, OwnTypeOK
  <2> HIDE DEF c
  <2> QED
    BY <2>1, <2>2, <2>3 DEF OwnTypeOK, SuccessIsPaid
<1>4. ASSUME NEW call \in calls, VerifyWrite(call) PROVE (OwnTypeOK /\ SuccessIsPaid)'
  <2>1. call.d \in Disbursements /\ call.trx \in 1..Len(transfers[call.d])
    BY DEF OwnTypeOK, Call
  <2>2. \/ OutcomeOf(call.d, call.trx) = "DONE" /\ Confirm(call.d)
        \/ Refund(call.d)
        \/ UNCHANGED money
    BY <1>4 DEF VerifyWrite
  <2>3. /\ batch' \subseteq batch /\ calls' \subseteq calls
        /\ UNCHANGED <<retried, request, queue, worker, transfers, loose>>
    BY <1>4 DEF VerifyWrite
  <2> QED
    BY <2>1, <2>2, <2>3, Answered
<1> QED
  BY <1>1, <1>2, <1>3, <1>4 DEF StatusWorker, Verify

-----------------------------------------------------------------------------
(* The invariant and the theorems.                                         *)

IInv == DepositIInv /\ OwnTypeOK /\ AccountAdds /\ SuccessIsPaid

LEMMA Initial == Init => IInv
BY DepositInitial, OwnInitial, AddsInitial DEF Init, IInv, Adds

\* What a step of the disbursements does to the deposits: nothing, but to the account.
LEMMA DepositsKept ==
  ASSUME DepositIInv, account' \in Account, UNCHANGED restOfDeposit
  PROVE  DepositIInv'
<1>1. DepositTypeOK'
  BY DEF DepositIInv, DepositTypeOK, restOfDeposit
<1>2. Alone' /\ AsRead' /\ Untouched' /\ CreditedIsPaid' /\ CreditedOnce'
  BY DEF DepositIInv, Alone, AsRead, Untouched, CreditedIsPaid, CreditedOnce,
     Holds, HeldByHandler, InHands, restOfDeposit
<1> QED
  BY <1>1, <1>2 DEF DepositIInv

LEMMA Step == IInv /\ [Next]_vars => IInv'
<1> SUFFICES ASSUME IInv, [Next]_vars PROVE IInv'
  OBVIOUS
<1> USE DEF IInv
<1>1. Adds'
  BY AddsStep DEF Adds, DepositIInv, DepositTypeOK
<1>2. CASE [DepositNext]_depositVars /\ UNCHANGED ownVars
  <2>1. OwnTypeOK' /\ SuccessIsPaid'
    BY <1>2 DEF ownVars, OwnTypeOK, SuccessIsPaid
  <2> QED
    BY <1>1, <1>2, <2>1, DepositStep DEF Adds
<1>3. CASE Handle \/ FlipWorker \/ Flip \/ StatusWorker \/ Verify \/ \E d \in Disbursements : DayPasses(d)
  <2>1. OwnTypeOK' /\ SuccessIsPaid'
    BY <1>3, HandleTypes, WorkerTypes, OutsideTypes, AnswerTypes
  <2>2. UNCHANGED restOfDeposit
    <3>1. CASE Handle
      BY <3>1 DEF Handle, TransferRead, RetryDebit, EndRequest, MoveRead, MoveIn, RequestFails,
         TransferDebit, RetryRead, restOfDeposit, depositVars
    <3>2. CASE FlipWorker
      BY <3>2 DEF FlipWorker, TakeJob, MarkProcessing, Transfer, SaveTrx, RunFails, JobEnds, Crash,
         restOfDeposit, depositVars
    <3>3. CASE Flip \/ StatusWorker \/ Verify \/ \E d \in Disbursements : DayPasses(d)
      BY <3>3 DEF Flip, FlipSettles, StatusWorker, StatusSelect, CheckTransfer, CheckFails, Verify,
         VerifyRead, VerifyWrite, DayPasses, restOfDeposit, depositVars
    <3> QED
      BY <1>3, <3>1, <3>2, <3>3
  <2> QED
    BY <1>1, <2>1, <2>2, DepositsKept DEF Adds
<1> QED
  BY <1>2, <1>3 DEF Next, vars, ownVars

LEMMA Invariant == Spec => []IInv
BY Initial, Step, PTL DEF Spec

\* Every row, job, batch and call has its type; in particular the id a row, the worker,
\* a batch or a verification carries is that of a transfer that exists.
THEOREM DisbursementTypeCorrect == Spec => []TypeOK
BY Invariant, TypeParts, PTL DEF IInv, DepositIInv

\* A disbursement is "success" only if Flip completed a transfer of it, however the
\* worker, the retries and the two checks interleave.
THEOREM DisbursementSuccessIsPaid == Spec => []SuccessIsPaid
BY Invariant, PTL DEF IInv

\* What holds of the deposits alone holds of them beside the disbursements.
THEOREM DisbursementCredits == Spec => []CreditedAsPaid
BY Invariant, PTL DEF IInv, DepositIInv, CreditedAsPaid

-----------------------------------------------------------------------------
(* One debiting handler at a time: what its check found is still there when *)
(* it debits.                                                              *)

\* Handlers that debit do not overlap.
OneRequest == \A q, r \in Requests : q = r

Reserved ==
  \A q \in Requests :
    /\ request[q].stage \in {"transfer", "retry"} => account.balance >= Cost
    /\ request[q].stage = "move" => available >= DepositAmount

CoveredInv == Reserved /\ BalanceCovered

LEMMA CoveredInit == Init => CoveredInv
BY DepositAssumption, DisbursementAssumption
   DEF Init, DepositInit, CoveredInv, Reserved, BalanceCovered, Idle

\* The handler itself.
LEMMA HandlerCovered ==
  ASSUME OneRequest, IInv, CoveredInv, Handle
  PROVE  CoveredInv'
<1>1. /\ account \in Account /\ account.balance \in Int /\ available \in Int
      /\ request \in [Requests -> Request]
  BY DEF IInv, OwnTypeOK, DepositIInv, DepositTypeOK, Account
<1>2. PICK q \in Requests :
        \/ TransferRead(q) \/ RetryDebit(q) \/ EndRequest(q) \/ MoveRead(q) \/ MoveIn(q)
        \/ RequestFails(q)
        \/ \E d \in Disbursements : TransferDebit(q, d) \/ RetryRead(q, d)
  BY DEF Handle
<1>3. \A r \in Requests : r = q
  BY DEF OneRequest
<1>4. CASE TransferRead(q) \/ \E d \in Disbursements : RetryRead(q, d)
  <2>1. UNCHANGED <<account, available>> /\ account.balance >= Cost
        /\ request'[q].stage \in {"transfer", "retry"}
    BY <1>1, <1>4 DEF TransferRead, RetryRead, Affords, depositVars
  <2> QED
    BY <1>3, <2>1 DEF CoveredInv, Reserved, BalanceCovered
<1>5. CASE MoveRead(q)
  <2>1. UNCHANGED <<account, available>> /\ available >= DepositAmount
        /\ request'[q].stage = "move"
    BY <1>1, <1>5 DEF MoveRead, depositVars
  <2> QED
    BY <1>3, <2>1 DEF CoveredInv, Reserved, BalanceCovered
<1>6. CASE EndRequest(q) \/ RequestFails(q)
  <2>1. UNCHANGED <<account, available>> /\ request'[q].stage = "idle"
    BY <1>1, <1>6 DEF EndRequest, RequestFails, Idle, depositVars
  <2> QED
    BY <1>3, <2>1 DEF CoveredInv, Reserved, BalanceCovered
<1>7. CASE RetryDebit(q) \/ \E d \in Disbursements : TransferDebit(q, d)
  <2>1. account.balance >= Cost /\ request'[q].stage = "debited" /\ UNCHANGED available
    BY <1>1, <1>7 DEF RetryDebit, Retried, TransferDebit, Debit, CoveredInv, Reserved
  <2>2. account' = [account EXCEPT !.balance = @ - Cost,
                                   !.totalDisbursed = @ + Payout, !.totalFees = @ + Fee]
    BY <1>7 DEF RetryDebit, Retried, TransferDebit, Debit
  <2>3. account'.balance = account.balance - Cost
    BY <1>1, <2>2 DEF Account
  <2>4. account'.balance >= 0
    BY <1>1, <2>1, <2>3, CostsInt
  <2> QED
    BY <1>3, <2>1, <2>4 DEF CoveredInv, Reserved, BalanceCovered
<1>8. CASE MoveIn(q)
  <2>1. /\ available >= DepositAmount /\ available' = available - DepositAmount
        /\ account' = Deposited(DepositAmount) /\ request'[q].stage = "idle"
    BY <1>1, <1>8 DEF MoveIn, Idle, CoveredInv, Reserved
  <2>2. account'.balance = account.balance + DepositAmount
    BY <1>1, <2>1, DepositAssumption DEF Deposited, Account
  <2>3. account'.balance >= 0 /\ available' >= 0
    BY <1>1, <2>1, <2>2, DepositAssumption DEF CoveredInv, BalanceCovered
  <2> QED
    BY <1>3, <2>1, <2>3 DEF CoveredInv, Reserved, BalanceCovered
<1> QED
  BY <1>2, <1>4, <1>5, <1>6, <1>7, <1>8

\* Everyone else only adds to the account.
LEMMA OthersCover ==
  ASSUME IInv, CoveredInv, UNCHANGED <<request, available>>,
         \/ UNCHANGED account
         \/ account' = Deposited(DepositAmount)
         \/ account' = Refunded
  PROVE  CoveredInv'
<1>1. account \in Account /\ account.balance \in Int
  BY DEF IInv, DepositIInv, DepositTypeOK, Account
<1>2. /\ account' = Deposited(DepositAmount) => account'.balance = account.balance + DepositAmount
      /\ account' = Refunded => account'.balance = account.balance + Cost
  BY <1>1 DEF Deposited, Refunded, Account
<1>3. Cost \in Nat /\ DepositAmount \in Nat
  BY DepositAssumption, DisbursementAssumption DEF Cost
<1>4. account'.balance \in Int /\ account'.balance >= account.balance
  BY <1>1, <1>2, <1>3
<1> QED
  BY <1>1, <1>3, <1>4 DEF CoveredInv, Reserved, BalanceCovered

LEMMA CoveredStep ==
  ASSUME OneRequest, IInv, CoveredInv, [Next]_vars
  PROVE  CoveredInv'
<1> DEFINE Added == /\ UNCHANGED <<request, available>>
                    /\ \/ UNCHANGED account
                       \/ account' = Deposited(DepositAmount)
                       \/ account' = Refunded
<1>1. CASE UNCHANGED vars
  BY <1>1 DEF vars, depositVars, ownVars, CoveredInv, Reserved, BalanceCovered
<1>2. ASSUME DepositNext /\ UNCHANGED ownVars PROVE Added
  BY <1>2 DEF ownVars, DepositNext, CreateRead, ExpireOld, CancelAtFlip, CancelWrite, ConfirmWrite,
     CheckWrite, DepositHandlerFails, CreateReadOld, CreateDeposit, CancelRead, ConfirmRead, PollRead,
     AdminCheckRead, SelectDeposits, TopupEnds, CheckDeposit, CheckDepositFails, Enter, Set, Credit
<1>3. CASE Handle
  BY <1>3, HandlerCovered
<1>4. ASSUME FlipWorker PROVE Added
  BY <1>4 DEF FlipWorker, TakeJob, MarkProcessing, Transfer, SaveTrx, RunFails, JobEnds, Crash,
     Refund, money, depositVars
<1>5. ASSUME Flip PROVE Added
  BY <1>5 DEF Flip, FlipSettles, depositVars
<1>6. ASSUME StatusWorker PROVE Added
  BY <1>6 DEF StatusWorker, StatusSelect, CheckTransfer, CheckFails, Refund, Confirm, money, depositVars
<1>7. ASSUME Verify PROVE Added
  BY <1>7 DEF Verify, VerifyRead, VerifyWrite, Refund, Confirm, money, depositVars
<1>8. ASSUME NEW d \in Disbursements, DayPasses(d) PROVE Added
  BY <1>8 DEF DayPasses, depositVars
<1>9. Added \/ Handle \/ UNCHANGED vars
  BY <1>2, <1>4, <1>5, <1>6, <1>7, <1>8 DEF Next
<1>10. CASE Added
  BY <1>10, OthersCover
<1> QED
  BY <1>1, <1>3, <1>9, <1>10

\* If handlers that debit do not overlap, neither the disbursement balance nor the
\* available one is overdrawn, whatever is deposited, refunded, retried, restarted or
\* verified meanwhile.
THEOREM DisbursementCovered ==
  ASSUME OneRequest
  PROVE  Spec => []BalanceCovered
<1>1. Spec => []IInv
  BY Invariant
<1>2. Init => CoveredInv
  BY CoveredInit
<1>3. IInv /\ CoveredInv /\ [Next]_vars => CoveredInv'
  BY CoveredStep
<1>4. CoveredInv => BalanceCovered
  BY DEF CoveredInv
<1> QED
  BY <1>1, <1>2, <1>3, <1>4, PTL DEF Spec

-----------------------------------------------------------------------------
(* Charged as sent: the inductive invariant.                               *)

Retrying(q, d) == request[q] = [stage |-> "retry", d |-> d]

Works(phase, d) == worker.phase = phase /\ worker.job.d = d

\* What the status of a row says about its charge and its transfers ...
RowSound(d) ==
  /\ row[d].status = "none" => charged[d] = 0 /\ row[d].trx = 0 /\ transfers[d] = <<>>
  /\ row[d].status = "pending" => charged[d] = 1 /\ row[d].trx = 0 /\ Out(d) = {}
  /\ row[d].status = "processing" =>
       /\ charged[d] = 1
       /\ \A k, l \in Out(d) : k = l
       /\ row[d].trx # 0 => Out(d) \subseteq {row[d].trx}
  /\ row[d].status = "success" =>
       charged[d] = 1 /\ Out(d) = {row[d].trx} /\ transfers[d][row[d].trx] = "DONE"
  /\ row[d].status = "failed" => charged[d] = 0 /\ Out(d) = {}

\* ... how far the worker is with it ...
WorkerSound(d) ==
  /\ Works("read", d) => row[d].status = "pending"
  /\ Works("processing", d) => row[d].status = "processing" /\ row[d].trx = 0 /\ Out(d) = {}
  /\ Works("transferred", d) =>
       row[d].status = "processing" /\ row[d].trx = 0 /\ Out(d) \subseteq {worker.trx}

\* ... and, of those who will write it, that there is one and the row is as it was read.
HandsSound(d) ==
  /\ \A q \in Requests : Retrying(q, d) =>
       /\ row[d].status = "failed"
       /\ \A p \in Requests : Retrying(p, d) => p = q
       /\ \A x \in batch : x.d # d
       /\ \A c \in calls : c.d # d
  /\ \A x \in batch : x.d = d =>
       /\ row[d].status = "processing" /\ row[d].trx = x.trx /\ x.trx # 0
       /\ \A y \in batch : y.d = d => x = y
       /\ \A c \in calls : c.d # d
  /\ \A c \in calls : c.d = d =>
       /\ row[d].status = c.status /\ row[d].trx = c.trx /\ c.trx # 0
       /\ \A b \in calls : b.d = d => b = c

Sound(d) == RowSound(d) /\ WorkerSound(d) /\ HandsSound(d)

AllSound == \A d \in Disbursements \ loose : Sound(d)

LEMMA SoundInitial == Init => AllSound
BY DEF Init, AllSound, Sound, RowSound, WorkerSound, HandsSound, Retrying, Works, Idle, Resting

LEMMA SoundIsCharged == OwnTypeOK /\ AllSound => ChargedAsSent
<1> SUFFICES ASSUME OwnTypeOK, AllSound, NEW d \in Disbursements \ loose
             PROVE  /\ charged[d] = (IF row[d].status \in {"none", "failed"} THEN 0 ELSE 1)
                    /\ \A k \in Out(d) : charged[d] = 1 /\ \A l \in Out(d) : k = l
  BY DEF ChargedAsSent
<1>1. RowSound(d)
  BY DEF AllSound, Sound
<1>2. row[d].status \in RowStatuses
  BY DEF OwnTypeOK, Row
<1>3. row[d].status = "none" => Out(d) = {}
  BY <1>1 DEF RowSound, Out
<1> QED
  BY <1>1, <1>2, <1>3 DEF RowSound, RowStatuses

\* A step that leaves d to those who have it.
LEMMA LeftAlone ==
  ASSUME NEW d, Sound(d),
         row'[d].status = row[d].status, row'[d].trx = row[d].trx,
         charged'[d] = charged[d], transfers'[d] = transfers[d],
         worker' = worker \/ worker'.phase \in {"idle", "ended"} \/ worker'.job.d # d,
         \A q \in Requests : Retrying(q, d)' => Retrying(q, d),
         \A x \in batch' : x.d = d => x \in batch,
         \A c \in calls' : c.d = d => c \in calls
  PROVE  Sound(d)'
<1>1. Out(d)' = Out(d)
  BY DEF Out
<1>2. RowSound(d)'
  BY <1>1 DEF Sound, RowSound
<1>3. WorkerSound(d)'
  BY <1>1 DEF Sound, WorkerSound, Works
<1>4. HandsSound(d)'
  BY DEF Sound, HandsSound
<1> QED
  BY <1>2, <1>3, <1>4 DEF Sound

\* Nobody else will write d.
NoHands(d) ==
  /\ \A q \in Requests : ~Retrying(q, d)
  /\ \A x \in batch : x.d # d
  /\ \A c \in calls : c.d # d

LEMMA NotHeld ==
  ASSUME NEW d PROVE ~Held(d) <=> NoHands(d)
BY DEF Held, NoHands, Retrying

LEMMA NoHandsSound ==
  ASSUME NEW d, NoHands(d)' PROVE HandsSound(d)'
BY DEF NoHands, HandsSound

\* A write of d by the one that has it: the row, and who has it afterwards.
LEMMA Written ==
  ASSUME NEW d, RowSound(d)', WorkerSound(d)', NoHands(d)'
  PROVE  Sound(d)'
BY NoHandsSound DEF Sound

LEMMA HandleSound ==
  ASSUME OwnTypeOK, NEW d \in Disbursements \ loose', Sound(d), Handle
  PROVE  Sound(d)'
<1>1. ASSUME NEW q \in Requests, TransferRead(q) \/ MoveRead(q) \/ RequestFails(q) \/ EndRequest(q) \/ MoveIn(q)
      PROVE  Sound(d)'
  <2>1. /\ UNCHANGED <<row, charged, transfers, worker, batch, calls>>
        /\ \E c \in {Idle, [stage |-> "transfer"], [stage |-> "move"]} : request' = [request EXCEPT ![q] = c]
    BY <1>1 DEF TransferRead, MoveRead, RequestFails, EndRequest, MoveIn
  <2>2. \A p \in Requests : Retrying(p, d)' => Retrying(p, d)
    BY <2>1 DEF Retrying, OwnTypeOK, Idle
  <2> QED
    BY <2>1, <2>2, LeftAlone
<1>2. ASSUME NEW q \in Requests, NEW e \in Disbursements, TransferDebit(q, e) PROVE Sound(d)'
  <2>1. /\ row' = [row EXCEPT ![e].status = "pending"]
        /\ charged' = [charged EXCEPT ![e] = charged[e] + 1]
        /\ request' = [request EXCEPT ![q] = [stage |-> "debited", d |-> e]]
        /\ UNCHANGED <<transfers, worker, batch, calls>>
        /\ row[e].status = "none"
    BY <1>2 DEF TransferDebit, Debit
  <2>2. \A p \in Requests : Retrying(p, d)' => Retrying(p, d)
    BY <2>1 DEF Retrying, OwnTypeOK
  <2>3. /\ row'[e].status = "pending" /\ row'[e].trx = row[e].trx
        /\ d # e => row'[d] = row[d] /\ charged'[d] = charged[d]
    BY <2>1, StatusWritten DEF OwnTypeOK, RowStatuses
  <2>4. CASE d # e
    BY <2>1, <2>2, <2>3, <2>4, LeftAlone
  <2>5. CASE d = e
    <3>1. charged'[d] = 1 /\ Out(d)' = {} /\ row'[d].trx = 0
      BY <2>1, <2>3, <2>5 DEF Sound, RowSound, Out, OwnTypeOK
    <3>2. WorkerSound(d)'
      BY <2>1, <2>5 DEF Sound, WorkerSound, Works
    <3>3. NoHands(d)
      BY <2>1, <2>5, <1>2 DEF Sound, HandsSound, NoHands, RowSound
    <3>4. NoHands(d)'
      BY <2>1, <2>2, <3>3 DEF NoHands
    <3> QED
      BY <2>3, <2>5, <3>1, <3>2, <3>4, Written DEF RowSound
  <2> QED
    BY <2>4, <2>5
<1>3. ASSUME NEW q \in Requests, NEW e \in Disbursements, RetryRead(q, e) PROVE Sound(d)'
  <2>1. /\ request' = [request EXCEPT ![q] = [stage |-> "retry", d |-> e]]
        /\ UNCHANGED <<row, charged, transfers, worker, batch, calls>>
        /\ row[e].status = "failed"
    BY <1>3 DEF RetryRead
  <2>2. CASE d # e
    <3>1. \A p \in Requests : Retrying(p, d)' => Retrying(p, d)
      BY <2>1, <2>2 DEF Retrying, OwnTypeOK
    <3> QED
      BY <2>1, <3>1, LeftAlone
  <2>3. CASE d = e
    <3>1. NoHands(d)
      BY <1>3, <2>3, NotHeld DEF RetryRead, LoosenIfHeld
    <3>2. RowSound(d)' /\ WorkerSound(d)'
      BY <2>1 DEF Sound, RowSound, WorkerSound, Works, Out
    <3>3. \A p \in Requests : Retrying(p, d)' => p = q
      BY <2>1, <3>1 DEF Retrying, OwnTypeOK, NoHands
    <3>4. HandsSound(d)'
      BY <2>1, <2>3, <3>1, <3>3 DEF HandsSound, NoHands
    <3> QED
      BY <3>2, <3>4 DEF Sound
  <2> QED
    BY <2>2, <2>3
<1>4. ASSUME NEW q \in Requests, RetryDebit(q) PROVE Sound(d)'
  <2> DEFINE e == request[q].d
             r == [row[e] EXCEPT !.status = "pending", !.trx = 0]
  <2>1. e \in Disbursements /\ request[q] = [stage |-> "retry", d |-> e]
    BY <1>4, RequestNames DEF RetryDebit, OwnTypeOK, Request
  <2>2. row[e] \in Row
    BY <2>1 DEF OwnTypeOK
  <2>3. r.trx = 0 /\ r.status = "pending"
    BY <2>2, RetriedRow
  <2>4. /\ row' = [row EXCEPT ![e] = r]
        /\ charged' = [charged EXCEPT ![e] = charged[e] + 1]
        /\ request' = [request EXCEPT ![q] = [stage |-> "debited", d |-> e]]
        /\ UNCHANGED <<transfers, worker, batch, calls>>
    BY <1>4 DEF RetryDebit, Retried, Debit
  <2> HIDE DEF r
  <2>5. \A p \in Requests : Retrying(p, d)' => p # q /\ Retrying(p, d)
    BY <2>4 DEF Retrying, OwnTypeOK
  <2>6. CASE d # e
    BY <2>4, <2>5, <2>6, LeftAlone DEF OwnTypeOK
  <2>7. CASE d = e
    <3>1. Retrying(q, d)
      BY <2>1, <2>7 DEF Retrying
    <3>2. row[d].status = "failed" /\ NoHands(d)'
      BY <2>4, <2>5, <3>1 DEF Sound, HandsSound, NoHands
    <3>3. charged'[d] = 1 /\ Out(d)' = {} /\ row'[d].trx = 0 /\ row'[d].status = "pending"
      BY <2>3, <2>4, <2>7, <3>2 DEF Sound, RowSound, Out, OwnTypeOK
    <3>4. WorkerSound(d)'
      BY <2>4, <3>2 DEF Sound, WorkerSound, Works
    <3> QED
      BY <3>2, <3>3, <3>4, Written DEF RowSound
  <2> QED
    BY <2>6, <2>7
<1> QED
  BY <1>1, <1>2, <1>3, <1>4 DEF Handle

LEMMA WorkerStepSound ==
  ASSUME OwnTypeOK, NEW d \in Disbursements \ loose', Sound(d), FlipWorker
  PROVE  Sound(d)'
<1> DEFINE e == worker.job.d
<1>1. CASE TakeJob
  <2>1. /\ UNCHANGED <<row, charged, transfers, request, batch, calls>>
        /\ queue # <<>>
        /\ worker' = IF row[Head(queue).d].status \in Runnable
                     THEN [phase |-> "read", job |-> Head(queue)] ELSE Resting
        /\ row[Head(queue).d].status = "failed" => Head(queue).d \in loose'
    BY <1>1 DEF TakeJob, OwnTypeOK, Job
  <2>2. CASE worker' = [phase |-> "read", job |-> Head(queue)] /\ Head(queue).d = d
    <3>1. row[d].status = "pending"
      BY <2>1, <2>2 DEF Runnable, Resting
    <3>2. WorkerSound(d)'
      BY <2>1, <2>2, <3>1 DEF WorkerSound, Works
    <3>3. RowSound(d)' /\ HandsSound(d)'
      BY <2>1 DEF Sound, RowSound, HandsSound, Retrying, Out
    <3> QED
      BY <3>2, <3>3 DEF Sound
  <2>3. CASE ~(worker' = [phase |-> "read", job |-> Head(queue)] /\ Head(queue).d = d)
    <3>1. worker'.phase = "idle" \/ worker'.job.d # d
      BY <2>1, <2>3 DEF Resting
    <3>2. \A q \in Requests : Retrying(q, d)' => Retrying(q, d)
      BY <2>1 DEF Retrying
    <3> QED
      BY <2>1, <3>1, <3>2, LeftAlone
  <2> QED
    BY <2>2, <2>3
<1>2. CASE MarkProcessing
  <2>1. /\ row' = [row EXCEPT ![e].status = "processing"]
        /\ UNCHANGED <<charged, transfers, request, batch, calls>>
        /\ worker' = [worker EXCEPT !.phase = "processing"]
        /\ worker.phase = "read"
    BY <1>2 DEF MarkProcessing
  <2>2. e \in Disbursements
    BY <2>1, JobOfWorker
  <2>3. /\ row'[e].status = "processing" /\ row'[e].trx = row[e].trx
        /\ d # e => row'[d] = row[d]
    BY <2>1, <2>2, StatusWritten DEF OwnTypeOK, RowStatuses
  <2>4. worker'.phase = "processing" /\ worker'.job = worker.job
    BY <2>1 DEF OwnTypeOK, Worker
  <2>5. \A q \in Requests : Retrying(q, d)' <=> Retrying(q, d)
    BY <2>1 DEF Retrying
  <2>6. CASE d # e
    BY <2>1, <2>3, <2>4, <2>5, <2>6, LeftAlone
  <2>7. CASE d = e
    <3>1. row[d].status = "pending"
      BY <2>1, <2>7 DEF Sound, WorkerSound, Works
    <3>2. charged[d] = 1 /\ row[d].trx = 0 /\ Out(d) = {}
      BY <3>1 DEF Sound, RowSound
    <3>3. Out(d)' = {}
      BY <2>1, <3>2 DEF Out
    <3>4. NoHands(d)'
      BY <2>1, <2>5, <3>1, <3>2 DEF Sound, HandsSound, NoHands
    <3>5. RowSound(d)' /\ WorkerSound(d)'
      BY <2>1, <2>3, <2>4, <2>7, <3>2, <3>3 DEF RowSound, WorkerSound, Works
    <3> QED
      BY <3>4, <3>5, Written
  <2> QED
    BY <2>6, <2>7
<1>3. CASE Transfer
  <2> DEFINE k == Len(transfers[e]) + 1
  <2>1. /\ UNCHANGED <<row, charged, request, batch, calls>> /\ worker.phase = "processing"
    BY <1>3 DEF Transfer
  <2>2. PICK trx \in 1..k :
          /\ transfers' = IF trx = k THEN [transfers EXCEPT ![e] = Append(@, "PENDING")] ELSE transfers
          /\ worker' = [phase |-> "transferred", job |-> worker.job, trx |-> trx]
    BY <1>3 DEF Transfer
  <2>3. e \in Disbursements
    BY <2>1, JobOfWorker
  <2>4. \A q \in Requests : Retrying(q, d)' <=> Retrying(q, d)
    BY <2>1 DEF Retrying
  <2>5. CASE d # e
    <3>1. transfers'[d] = transfers[d] /\ worker'.job.d # d
      BY <2>2, <2>3, <2>5 DEF OwnTypeOK
    <3> QED
      BY <2>1, <2>4, <3>1, LeftAlone
  <2>6. CASE d = e
    <3>1. row[d].status = "processing" /\ row[d].trx = 0 /\ Out(d) = {} /\ charged[d] = 1
      BY <2>1, <2>6 DEF Sound, WorkerSound, Works, RowSound
    <3>2. transfers[d] \in Seq({"PENDING", "DONE", "FAILED"})
      BY DEF OwnTypeOK
    <3>3. Out(d)' \subseteq {trx}
      <4>1. CASE trx = k
        <5>1. transfers'[d] = Append(transfers[d], "PENDING")
          BY <2>2, <2>6, <4>1 DEF OwnTypeOK
        <5>2. /\ DOMAIN transfers'[d] = 1..k
              /\ \A i \in 1..k : i # k => i \in DOMAIN transfers[d] /\ transfers'[d][i] = transfers[d][i]
          BY <2>6, <3>2, <5>1
        <5> QED
          BY <3>1, <4>1, <5>2 DEF Out
      <4>2. CASE trx # k
        BY <2>2, <3>1, <4>2 DEF Out
      <4> QED
        BY <4>1, <4>2
    <3>4. NoHands(d)'
      BY <2>1, <2>4, <3>1 DEF Sound, HandsSound, NoHands
    <3>5. worker'.phase = "transferred" /\ worker'.trx = trx
      BY <2>2
    <3>6. RowSound(d)' /\ WorkerSound(d)'
      BY <2>1, <3>1, <3>3, <3>5 DEF RowSound, WorkerSound, Works
    <3> QED
      BY <3>4, <3>6, Written
  <2> QED
    BY <2>5, <2>6
<1>4. CASE SaveTrx
  <2> DEFINE r == [status |-> "processing", trx |-> worker.trx, old |-> FALSE]
  <2>1. /\ row' = [row EXCEPT ![e] = r]
        /\ worker' = [phase |-> "ended", job |-> worker.job]
        /\ UNCHANGED <<charged, transfers, request, batch, calls>>
        /\ worker.phase = "transferred"
    BY <1>4 DEF SaveTrx
  <2>2. e \in Disbursements
    BY <2>1, JobOfWorker
  <2>3. r.status = "processing" /\ r.trx = worker.trx
    OBVIOUS
  <2> HIDE DEF r
  <2>4. \A q \in Requests : Retrying(q, d)' <=> Retrying(q, d)
    BY <2>1 DEF Retrying
  <2>5. CASE d # e
    BY <2>1, <2>2, <2>4, <2>5, LeftAlone DEF OwnTypeOK
  <2>6. CASE d = e
    <3>1. row[d].status = "processing" /\ row[d].trx = 0 /\ Out(d) \subseteq {worker.trx} /\ charged[d] = 1
      BY <2>1, <2>6 DEF Sound, WorkerSound, Works, RowSound
    <3>2. row'[d] = r /\ Out(d)' = Out(d)
      BY <2>1, <2>2, <2>6 DEF OwnTypeOK, Out
    <3>3. NoHands(d)'
      BY <2>1, <2>4, <3>1 DEF Sound, HandsSound, NoHands
    <3>4. RowSound(d)' /\ WorkerSound(d)'
      BY <2>1, <2>3, <3>1, <3>2 DEF RowSound, WorkerSound, Works
    <3> QED
      BY <3>3, <3>4, Written
  <2> QED
    BY <2>5, <2>6
<1>5. CASE RunFails
  <2>1. /\ worker.phase \in {"processing", "transferred"}
        /\ Refund(e) \/ UNCHANGED money
        /\ worker.phase = "transferred" => e \in loose'
        /\ worker' = [phase |-> "ended", job |-> worker.job]
        /\ UNCHANGED <<transfers, request, batch, calls>>
    BY <1>5 DEF RunFails
  <2>2. e \in Disbursements
    BY <2>1, JobOfWorker
  <2>3. \A q \in Requests : Retrying(q, d)' <=> Retrying(q, d)
    BY <2>1 DEF Retrying
  <2>4. CASE UNCHANGED money
    BY <2>1, <2>3, <2>4, LeftAlone DEF money
  <2>5. CASE Refund(e) /\ d # e
    <3>1. row'[d] = row[d] /\ charged'[d] = charged[d]
      BY <2>2, <2>5, RefundTypes DEF Refund, OwnTypeOK
    <3> QED
      BY <2>1, <2>3, <3>1, LeftAlone
  <2>6. CASE Refund(e) /\ d = e
    <3>1. worker.phase = "processing"
      BY <2>1, <2>6
    <3>2. row[d].status = "processing" /\ row[d].trx = 0 /\ Out(d) = {} /\ charged[d] = 1
      BY <2>6, <3>1 DEF Sound, WorkerSound, Works, RowSound
    <3>3. row'[d].status = "failed" /\ charged'[d] = 0 /\ Out(d)' = {}
      BY <2>1, <2>2, <2>6, <3>2, RefundTypes DEF Refund, OwnTypeOK, Out
    <3>4. NoHands(d)'
      BY <2>1, <2>3, <3>2 DEF Sound, HandsSound, NoHands
    <3>5. RowSound(d)' /\ WorkerSound(d)'
      BY <2>1, <3>3 DEF RowSound, WorkerSound, Works
    <3> QED
      BY <3>4, <3>5, Written
  <2> QED
    BY <2>1, <2>4, <2>5, <2>6
<1>6. CASE JobEnds \/ Crash
  <2>1. /\ worker' = Resting /\ UNCHANGED <<row, charged, transfers, request, batch, calls>>
    BY <1>6 DEF JobEnds, Crash
  <2>2. worker'.phase = "idle"
    BY <2>1 DEF Resting
  <2>3. \A q \in Requests : Retrying(q, d)' => Retrying(q, d)
    BY <2>1 DEF Retrying
  <2> QED
    BY <2>1, <2>2, <2>3, LeftAlone
<1> QED
  BY <1>1, <1>2, <1>3, <1>4, <1>5, <1>6 DEF FlipWorker

LEMMA OutsideSound ==
  ASSUME OwnTypeOK, NEW d \in Disbursements \ loose', Sound(d),
         Flip \/ \E e \in Disbursements : DayPasses(e)
  PROVE  Sound(d)'
<1>1. ASSUME NEW e \in Disbursements, NEW k \in DOMAIN transfers[e], FlipSettles(e, k)
      PROVE  Sound(d)'
  <2>1. PICK s \in {"DONE", "FAILED"} : transfers' = [transfers EXCEPT ![e][k] = s]
    BY <1>1 DEF FlipSettles
  <2>2. UNCHANGED <<row, charged, request, worker, batch, calls>> /\ transfers[e][k] = "PENDING"
    BY <1>1 DEF FlipSettles
  <2>3. \A q \in Requests : Retrying(q, d)' <=> Retrying(q, d)
    BY <2>2 DEF Retrying
  <2>4. CASE d # e
    BY <2>1, <2>2, <2>3, <2>4, LeftAlone DEF OwnTypeOK
  <2>5. CASE d = e
    <3>1. transfers[d] \in Seq({"PENDING", "DONE", "FAILED"}) /\ k \in DOMAIN transfers[d]
      BY <2>5 DEF OwnTypeOK
    <3>2. transfers'[d] = [transfers[d] EXCEPT ![k] = s]
      BY <2>1, <2>5 DEF OwnTypeOK
    <3>3. DOMAIN transfers'[d] = DOMAIN transfers[d]
          /\ \A i \in DOMAIN transfers[d] : i # k => transfers'[d][i] = transfers[d][i]
      BY <3>1, <3>2
    <3>4. k \in Out(d)
      BY <2>2, <2>5, <3>1 DEF Out
    <3>5. Out(d)' \subseteq Out(d)
      BY <3>3, <3>4 DEF Out
    <3>6. transfers[d] # <<>> /\ row[d].status # "none"
      BY <3>1 DEF Sound, RowSound
    <3>7. row[d].status # "success"
      BY <2>2, <2>5, <3>4 DEF Sound, RowSound
    <3>8. RowSound(d)'
      BY <2>2, <3>5, <3>6, <3>7 DEF Sound, RowSound
    <3>9. WorkerSound(d)' /\ HandsSound(d)'
      BY <2>2, <2>3, <3>5 DEF Sound, WorkerSound, HandsSound, Works
    <3> QED
      BY <3>8, <3>9 DEF Sound
  <2> QED
    BY <2>4, <2>5
<1>2. ASSUME NEW e \in Disbursements, DayPasses(e) PROVE Sound(d)'
  <2>1. row' = [row EXCEPT ![e].old = TRUE] /\ UNCHANGED <<charged, transfers, request, worker, batch, calls>>
    BY <1>2 DEF DayPasses
  <2>2. row'[d].status = row[d].status /\ row'[d].trx = row[d].trx
    BY <2>1 DEF OwnTypeOK, Row
  <2>3. \A q \in Requests : Retrying(q, d)' => Retrying(q, d)
    BY <2>1 DEF Retrying
  <2> QED
    BY <2>1, <2>2, <2>3, LeftAlone
<1> QED
  BY <1>1, <1>2 DEF Flip

\* The one that asked Flip about d writes what Flip answered.
LEMMA AnswerSound ==
  ASSUME OwnTypeOK, NEW d \in Disbursements, Sound(d),
         row[d].status = "processing", row[d].trx \in 1..Len(transfers[d]), row[d].trx # 0,
         \/ OutcomeOf(d, row[d].trx) = "DONE" /\ Confirm(d)
         \/ OutcomeOf(d, row[d].trx) = "FAILED" /\ Refund(d),
         UNCHANGED <<transfers, worker>>, NoHands(d)'
  PROVE  Sound(d)'
<1>1. charged[d] = 1 /\ Out(d) \subseteq {row[d].trx} /\ Out(d)' = Out(d)
  BY DEF Sound, RowSound, Out
<1>2. row[d].trx \in DOMAIN transfers[d]
  BY DEF OwnTypeOK
<1>3. ~Works("read", d)' /\ ~Works("processing", d)' /\ ~Works("transferred", d)'
  BY DEF Sound, WorkerSound, Works
<1>4. CASE OutcomeOf(d, row[d].trx) = "DONE" /\ Confirm(d)
  <2>1. row'[d].status = "success" /\ row'[d].trx = row[d].trx /\ charged' = charged
    BY <1>4, StatusWritten DEF Confirm, OwnTypeOK, RowStatuses
  <2>2. Out(d) = {row[d].trx}
    BY <1>1, <1>2, <1>4 DEF Out, OutcomeOf
  <2>3. RowSound(d)'
    BY <1>1, <1>4, <2>1, <2>2 DEF RowSound, OutcomeOf
  <2> QED
    BY <1>3, <2>3, Written DEF WorkerSound
<1>5. CASE OutcomeOf(d, row[d].trx) = "FAILED" /\ Refund(d)
  <2>1. row'[d].status = "failed" /\ charged'[d] = 0
    BY <1>1, <1>5, RefundTypes DEF Refund, OwnTypeOK
  <2>2. Out(d) = {}
    BY <1>1, <1>5 DEF Out, OutcomeOf
  <2>3. RowSound(d)'
    BY <1>1, <2>1, <2>2 DEF RowSound
  <2> QED
    BY <1>3, <2>3, Written DEF WorkerSound
<1> QED
  BY <1>4, <1>5

\* An answer about e is nothing to another row.
LEMMA AnswerElsewhere ==
  ASSUME OwnTypeOK, NEW d \in Disbursements, Sound(d), NEW e \in Disbursements \ {d},
         Refund(e) \/ UNCHANGED money \/ Confirm(e),
         batch' \subseteq batch, calls' \subseteq calls,
         UNCHANGED <<request, worker, transfers>>
  PROVE  Sound(d)'
<1>1. row'[d] = row[d]
  BY RowChanges
<1>2. charged'[d] = charged[d]
  BY DEF Refund, Confirm, money, OwnTypeOK
<1>3. \A q \in Requests : Retrying(q, d)' => Retrying(q, d)
  BY DEF Retrying
<1> QED
  BY <1>1, <1>2, <1>3, LeftAlone

LEMMA StatusSound ==
  ASSUME OwnTypeOK, NEW d \in Disbursements \ loose', Sound(d), StatusWorker
  PROVE  Sound(d)'
<1>1. CASE StatusSelect
  <2>1. /\ batch = {} /\ batch' = {[d |-> e, trx |-> row[e].trx] : e \in RecentDisbursements}
        /\ UNCHANGED <<row, charged, request, worker, transfers, calls>>
        /\ loose' = loose \cup {e \in RecentDisbursements : Held(e)}
    BY <1>1 DEF StatusSelect
  <2>2. \A q \in Requests : Retrying(q, d)' <=> Retrying(q, d)
    BY <2>1 DEF Retrying
  <2>3. CASE d \notin RecentDisbursements
    BY <2>1, <2>2, <2>3, LeftAlone
  <2>4. CASE d \in RecentDisbursements
    <3>1. NoHands(d) /\ row[d].status = "processing" /\ row[d].trx # 0
      BY <2>1, <2>4, NotHeld DEF RecentDisbursements
    <3>2. \A x \in batch' : x.d = d => x = [d |-> d, trx |-> row[d].trx]
      BY <2>1
    <3>3. HandsSound(d)'
      BY <2>1, <2>2, <3>1, <3>2 DEF HandsSound, NoHands
    <3>4. RowSound(d)' /\ WorkerSound(d)'
      BY <2>1 DEF Sound, RowSound, WorkerSound, Works, Out
    <3> QED
      BY <3>3, <3>4 DEF Sound
  <2> QED
    BY <2>3, <2>4
<1>2. ASSUME NEW x \in batch, CheckTransfer(x) \/ CheckFails(x) PROVE Sound(d)'
  <2>1. x.d \in Disbursements /\ x.trx \in 1..Len(transfers[x.d])
    BY DEF OwnTypeOK
  <2>2. /\ batch' = batch \ {x} /\ calls' = calls
        /\ UNCHANGED <<request, worker, transfers>>
        /\ \/ OutcomeOf(x.d, x.trx) = "DONE" /\ Confirm(x.d)
           \/ OutcomeOf(x.d, x.trx) = "FAILED" /\ Refund(x.d)
           \/ UNCHANGED money
    BY <1>2 DEF CheckTransfer, CheckFails, money, depositVars
  <2>3. \A q \in Requests : Retrying(q, d)' <=> Retrying(q, d)
    BY <2>2 DEF Retrying
  <2>4. CASE x.d # d
    BY <2>1, <2>2, <2>4, AnswerElsewhere
  <2>5. CASE x.d = d /\ UNCHANGED money
    BY <2>2, <2>3, <2>5, LeftAlone DEF money
  <2>6. CASE x.d = d /\ ~UNCHANGED money
    <3>1. row[d].status = "processing" /\ row[d].trx = x.trx /\ x.trx # 0
      BY <2>6 DEF Sound, HandsSound
    <3>2. NoHands(d)'
      BY <2>2, <2>3, <2>6 DEF Sound, HandsSound, NoHands
    <3> QED
      BY <2>1, <2>2, <2>6, <3>1, <3>2, AnswerSound
  <2> QED
    BY <2>4, <2>5, <2>6
<1> QED
  BY <1>1, <1>2 DEF StatusWorker

LEMMA VerifySound ==
  ASSUME OwnTypeOK, NEW d \in Disbursements \ loose', Sound(d), Verify
  PROVE  Sound(d)'
<1>1. ASSUME NEW e \in Disbursements, VerifyRead(e) PROVE Sound(d)'
  <2> DEFINE c == [d |-> e, trx |-> row[e].trx, status |-> row[e].status]
  <2>1. /\ row[e].trx # 0 /\ calls' = calls \cup {c}
        /\ UNCHANGED <<row, charged, request, worker, transfers, batch>>
    BY <1>1 DEF VerifyRead
  <2>2. \A q \in Requests : Retrying(q, d)' <=> Retrying(q, d)
    BY <2>1 DEF Retrying
  <2>3. CASE d # e
    BY <2>1, <2>2, <2>3, LeftAlone
  <2>4. CASE d = e
    <3>1. NoHands(d)
      BY <1>1, <2>4, NotHeld DEF VerifyRead, LoosenIfHeld
    <3>2. c.d = d /\ c.trx = row[d].trx /\ c.status = row[d].status
      BY <2>4
    <3> HIDE DEF c
    <3>3. HandsSound(d)'
      BY <2>1, <2>2, <2>4, <3>1, <3>2 DEF HandsSound, NoHands
    <3>4. RowSound(d)' /\ WorkerSound(d)'
      BY <2>1 DEF Sound, RowSound, WorkerSound, Works, Out
    <3> QED
      BY <3>3, <3>4 DEF Sound
  <2> QED
    BY <2>3, <2>4
<1>2. ASSUME NEW call \in calls, VerifyWrite(call) PROVE Sound(d)'
  <2>1. call.d \in Disbursements /\ call.trx \in 1..Len(transfers[call.d])
    BY DEF OwnTypeOK, Call
  <2>2. /\ calls' = calls \ {call} /\ batch' = batch
        /\ UNCHANGED <<request, worker, transfers>>
        /\ \/ OutcomeOf(call.d, call.trx) = "DONE" /\ call.status # "success" /\ Confirm(call.d)
           \/ OutcomeOf(call.d, call.trx) = "FAILED" /\ call.status # "failed" /\ Refund(call.d)
           \/ UNCHANGED money
    BY <1>2 DEF VerifyWrite
  <2>3. \A q \in Requests : Retrying(q, d)' <=> Retrying(q, d)
    BY <2>2 DEF Retrying
  <2>4. CASE call.d # d
    BY <2>1, <2>2, <2>4, AnswerElsewhere
  <2>5. CASE call.d = d /\ UNCHANGED money
    BY <2>2, <2>3, <2>5, LeftAlone DEF money
  <2>6. CASE call.d = d /\ ~UNCHANGED money
    <3>1. row[d].status = call.status /\ row[d].trx = call.trx /\ call.trx # 0
      BY <2>6 DEF Sound, HandsSound
    <3>2. NoHands(d)'
      BY <2>2, <2>3, <2>6 DEF Sound, HandsSound, NoHands
    <3>3. call.trx \in DOMAIN transfers[d]
      BY <2>1, <2>6 DEF OwnTypeOK
    <3>4. row[d].status \in RowStatuses
      BY DEF OwnTypeOK, Row
    <3>5. row[d].status # "none" /\ row[d].status # "pending"
      BY <3>1 DEF Sound, RowSound
    <3>6. row[d].status = "success" => OutcomeOf(d, call.trx) = "DONE"
      BY <3>1 DEF Sound, RowSound, OutcomeOf
    <3>7. row[d].status = "failed" => OutcomeOf(d, call.trx) = "FAILED"
      BY <3>1, <3>3 DEF Sound, RowSound, OutcomeOf, Out
    <3>8. row[d].status = "processing"
      BY <2>2, <2>6, <3>1, <3>4, <3>5, <3>6, <3>7 DEF RowStatuses
    <3> QED
      BY <2>1, <2>2, <2>6, <3>1, <3>2, <3>8, AnswerSound
  <2> QED
    BY <2>4, <2>5, <2>6
<1> QED
  BY <1>1, <1>2 DEF Verify

LEMMA SoundStep == OwnTypeOK /\ AllSound /\ [Next]_vars => AllSound'
<1> SUFFICES ASSUME OwnTypeOK, AllSound, [Next]_vars, NEW d \in Disbursements \ loose' PROVE Sound(d)'
  BY DEF AllSound
<1>1. loose \subseteq loose'
  BY DEF Next, vars, ownVars, Handle, TransferRead, RetryDebit, EndRequest, MoveRead, MoveIn,
     RequestFails, TransferDebit, RetryRead, LoosenIfHeld, FlipWorker, TakeJob, MarkProcessing,
     Transfer, SaveTrx, RunFails, JobEnds, Crash, Flip, FlipSettles, StatusWorker, StatusSelect,
     CheckTransfer, CheckFails, Verify, VerifyRead, VerifyWrite, DayPasses
<1>2. Sound(d)
  BY <1>1 DEF AllSound
<1>3. CASE UNCHANGED ownVars
  BY <1>2, <1>3, LeftAlone DEF ownVars, Retrying
<1>4. CASE Handle \/ FlipWorker \/ Flip \/ StatusWorker \/ Verify \/ \E e \in Disbursements : DayPasses(e)
  BY <1>2, <1>4, HandleSound, WorkerStepSound, OutsideSound, StatusSound, VerifySound
<1> QED
  BY <1>3, <1>4 DEF Next, vars

LEMMA SoundInvariant == Spec => []AllSound
<1>1. Spec => []OwnTypeOK
  BY Invariant, PTL DEF IInv
<1> QED
  BY <1>1, SoundInitial, SoundStep, PTL DEF Spec

\* A disbursement that the code keeps track of is charged once as long as it may leave or
\* has left, by one transfer at most, and not at all when it has failed: through any
\* number of retries, restarted jobs, failed runs, late answers and verifications.
THEOREM DisbursementChargedAsSent == Spec => []ChargedAsSent
<1>1. Spec => []OwnTypeOK
  BY Invariant, PTL DEF IInv
<1> QED
  BY <1>1, SoundInvariant, SoundIsCharged, PTL

\* What was charged and what was paid agree with the rows.
THEOREM DisbursementTransfersExplained == Spec => []TransfersExplained
BY DisbursementSuccessIsPaid, DisbursementChargedAsSent, PTL DEF TransfersExplained

(***************************************************************************)
(* The forms that look a name up (TransferForm), alone.                    *)
(***************************************************************************)
Target == Targets \cup {Nobody}

FormRow == [shown : BOOLEAN, account : Target, name : Target,
            checked : {"no", "yes", "error"}, checking : BOOLEAN]

PostedRow == [at : {"idle", "sent", "stale", "accepted", "refused"},
              account : Target, name : Target, stray : BOOLEAN, token : Nat]

FormTypes ==
  /\ form \in FormRow
  /\ timer \in Target /\ checks \subseteq Targets
  /\ post \in PostedRow
  /\ nonce \in Nat /\ issued \in [n : Nat, spent : BOOLEAN] /\ asks \subseteq Nat
  /\ stray \in BOOLEAN /\ lost \in BOOLEAN

\* The name is of the typed account, a stray answer brought it, or the admin's form is
\* still to ask or asking.
NameIsOwn ==
  \/ form.name \in {Nobody, form.account} \/ stray
  \/ formKind = "admin" /\ (timer # Nobody \/ form.checking)

FormInv == FormTypes /\ NameIsOwn /\ Form!SentToOwner /\ Form!TokenIsNewest

\* A token asked for is the newest, and on its way.
LEMMA AsksNewest ==
  ASSUME FormTypes, Form!Asks
  PROVE  /\ issued' \in [n : Nat, spent : BOOLEAN] /\ asks' \subseteq Nat
         /\ asks' # {} /\ lost' = lost
<1> DEFINE f == FALSE
           k == issued.n + 1
<1>1. issued' = [n |-> k, spent |-> f] /\ asks' = asks \cup {k} /\ lost' = lost
  BY DEF Form!Asks
<1>2. k \in Nat /\ f \in BOOLEAN
  BY DEF FormTypes
<1> HIDE DEF f, k
<1> QED BY <1>1, <1>2 DEF FormTypes

\* Types.
LEMMA FormTypesStep ==
  FormTypes /\ [Form!Next]_(Form!vars) => FormTypes'
<1> SUFFICES ASSUME FormTypes, [Form!Next]_(Form!vars)
             PROVE  FormTypes'
  OBVIOUS
<1>1. CASE Form!Opens
  <2>1. form' \in FormRow
    <3> DEFINE t == TRUE
               f == FALSE
               r == [form EXCEPT !.shown = t]
    <3>1. t \in BOOLEAN /\ f \in BOOLEAN
      OBVIOUS
    <3>2. \/ form' = [shown |-> t, account |-> Nobody, name |-> Nobody, checked |-> "no", checking |-> f]
          \/ form' = [form EXCEPT !.shown = t, !.checked = "no"]
      BY <1>1 DEF Form!Opens, Form!Empty
    <3>3. r \in FormRow
      BY <3>1 DEF FormTypes, FormRow
    <3>4. [form EXCEPT !.shown = t, !.checked = "no"] = [r EXCEPT !.checked = "no"]
      BY DEF FormTypes, FormRow
    <3> HIDE DEF t, f, r
    <3>5. [r EXCEPT !.checked = "no"] \in FormRow
      BY <3>3 DEF FormRow
    <3> QED BY <3>1, <3>2, <3>4, <3>5 DEF FormRow, Target
  <2>2. /\ nonce' \in Nat /\ issued' \in [n : Nat, spent : BOOLEAN]
        /\ asks' \subseteq Nat /\ lost' = lost
    <3>1. CASE Form!HasToken
      BY <1>1, <3>1, AsksNewest DEF Form!Opens
    <3>2. CASE ~ Form!HasToken
      BY <1>1, <3>2 DEF Form!Opens, Form!tokens, FormTypes
    <3> QED BY <3>1, <3>2
  <2> QED BY <2>1, <2>2, <1>1 DEF Form!Opens, FormTypes
<1>2. CASE Form!Closes
  BY <1>2 DEF Form!Closes, FormTypes, FormRow, PostedRow, Target, Form!Empty,
    Form!Closed, Form!Stopped
<1>3. CASE Form!Refreshes
  <2> QED BY <1>3, AsksNewest DEF Form!Refreshes, FormTypes
<1>4. CASE Form!TokenExpires
  <2> DEFINE t == TRUE
  <2>1. issued' = [issued EXCEPT !.spent = t] /\ t \in BOOLEAN
    BY <1>4 DEF Form!TokenExpires
  <2> HIDE DEF t
  <2>2. issued' \in [n : Nat, spent : BOOLEAN]
    BY <2>1 DEF FormTypes
  <2> QED BY <2>2, <1>4 DEF Form!TokenExpires, FormTypes
<1>5. ASSUME NEW n \in asks, Form!TokenArrives(n)
      PROVE  FormTypes'
  BY <1>5 DEF Form!TokenArrives, FormTypes, FormRow, PostedRow, Target
<1>6. ASSUME NEW n \in asks, Form!TokenLost(n)
      PROVE  FormTypes'
  BY <1>6 DEF Form!TokenLost, FormTypes, FormRow, PostedRow, Target
<1>7. ASSUME NEW a \in Targets \cup {Nobody}, Form!Types(a)
      PROVE  FormTypes'
  BY <1>7 DEF Form!Types, FormTypes, FormRow, PostedRow, Target, Form!tokens, Form!Edited
<1>8. CASE Form!TimerFires
  BY <1>8 DEF Form!TimerFires, FormTypes, FormRow, PostedRow, Target, Form!tokens,
    Form!Checking
<1>9. CASE Form!PressesCheck
  BY <1>9 DEF Form!PressesCheck, FormTypes, FormRow, PostedRow, Target, Form!tokens,
    Form!Checking
<1>10. ASSUME NEW a \in checks, Form!Answered(a)
      PROVE  FormTypes'
  BY <1>10 DEF Form!Answered, FormTypes, FormRow, PostedRow, Target, Form!tokens
<1>11. CASE Form!Submits
  BY <1>11 DEF Form!Submits, FormTypes, FormRow, PostedRow, Target, Form!tokens,
    Form!Submittable, Form!Hasty
<1>12. CASE Form!Accepts
  BY <1>12 DEF Form!Accepts, FormTypes, FormRow, PostedRow, Target, Form!HasToken
<1>13. CASE Form!Succeeds
  BY <1>13 DEF Form!Succeeds, FormTypes, FormRow, PostedRow, Target, Form!Empty,
    Form!NoPost, Form!Closed, Form!Stopped
<1>14. CASE Form!Renews
  <2>1. post' \in PostedRow
    <3> DEFINE f == FALSE
    <3>1. /\ f \in BOOLEAN
          /\ post' = [at |-> "idle", account |-> Nobody, name |-> Nobody, stray |-> f, token |-> 0]
      BY <1>14 DEF Form!Renews, Form!NoPost
    <3> HIDE DEF f
    <3> QED BY <3>1 DEF PostedRow, Target
  <2>2. nonce' = 0 /\ Form!Asks /\ UNCHANGED <<form, timer, checks, stray>>
    BY <1>14 DEF Form!Renews
  <2> QED BY <2>1, <2>2, AsksNewest DEF FormTypes
<1>15. CASE Form!Refused
  <2>1. post' \in PostedRow
    <3> DEFINE f == FALSE
    <3>1. /\ f \in BOOLEAN
          /\ post' = [at |-> "idle", account |-> Nobody, name |-> Nobody, stray |-> f, token |-> 0]
      BY <1>15 DEF Form!Refused, Form!NoPost
    <3> HIDE DEF f
    <3> QED BY <3>1 DEF PostedRow, Target
  <2>2. Form!Closed \in FormRow
    <3> DEFINE f == FALSE
               c == form.checking
    <3>1. f \in BOOLEAN /\ c \in BOOLEAN
      BY DEF FormTypes, FormRow
    <3>2. Form!Closed = [Form!Empty EXCEPT !.shown = f, !.checking = c]
      BY DEF Form!Closed
    <3>3. Form!Empty \in FormRow
      BY DEF Form!Empty, FormRow, Target
    <3> HIDE DEF f, c
    <3> QED BY <3>1, <3>2, <3>3 DEF FormRow
  <2>3. UNCHANGED <<checks, issued, asks, stray, lost>>
    BY <1>15 DEF Form!Refused
  <2>4. form' \in FormRow
    BY <2>2, <1>15 DEF Form!Refused, FormTypes
  <2>5. timer' \in Target /\ nonce' \in Nat
    BY <1>15 DEF Form!Refused, FormTypes, Form!Stopped, Target
  <2> QED BY <2>1, <2>3, <2>4, <2>5 DEF FormTypes
<1>16. CASE UNCHANGED Form!vars
  BY <1>16 DEF Form!vars, FormTypes, FormRow, PostedRow, Target
<1> QED BY <1>1, <1>2, <1>3, <1>4, <1>5, <1>6, <1>7, <1>8, <1>9, <1>10, <1>11, <1>12,
  <1>13, <1>14, <1>15, <1>16 DEF Form!Next

\* The name goes as the account is typed, or the form is to ask.
LEMMA NameIsOwnStep ==
  FormTypes /\ NameIsOwn /\ [Form!Next]_(Form!vars) => NameIsOwn'
<1> SUFFICES ASSUME FormTypes, NameIsOwn, [Form!Next]_(Form!vars)
             PROVE  NameIsOwn'
  OBVIOUS
<1>1. CASE Form!Opens
  BY <1>1 DEF Form!Opens, FormTypes, FormRow, PostedRow, Target, NameIsOwn, Form!Empty,
    Form!tokens, Form!HasToken, Form!Asks
<1>2. CASE Form!Closes
  BY <1>2 DEF Form!Closes, FormTypes, FormRow, PostedRow, Target, NameIsOwn, Form!Empty,
    Form!Closed, Form!Stopped
<1>3. CASE Form!Refreshes
  BY <1>3 DEF Form!Refreshes, FormTypes, FormRow, PostedRow, Target, NameIsOwn,
    Form!HasToken, Form!Asks
<1>4. CASE Form!TokenExpires
  BY <1>4 DEF Form!TokenExpires, FormTypes, FormRow, PostedRow, Target, NameIsOwn
<1>5. ASSUME NEW n \in asks, Form!TokenArrives(n)
      PROVE  NameIsOwn'
  BY <1>5 DEF Form!TokenArrives, FormTypes, FormRow, PostedRow, Target, NameIsOwn
<1>6. ASSUME NEW n \in asks, Form!TokenLost(n)
      PROVE  NameIsOwn'
  BY <1>6 DEF Form!TokenLost, FormTypes, FormRow, PostedRow, Target, NameIsOwn
<1>7. ASSUME NEW a \in Targets \cup {Nobody}, Form!Types(a)
      PROVE  NameIsOwn'
  BY <1>7 DEF Form!Types, FormTypes, FormRow, PostedRow, Target, NameIsOwn, Form!tokens,
    Form!Edited
<1>8. CASE Form!TimerFires
  BY <1>8 DEF Form!TimerFires, FormTypes, FormRow, PostedRow, Target, NameIsOwn,
    Form!tokens, Form!Checking
<1>9. CASE Form!PressesCheck
  BY <1>9 DEF Form!PressesCheck, FormTypes, FormRow, PostedRow, Target, NameIsOwn,
    Form!tokens, Form!Checking
<1>10. ASSUME NEW a \in checks, Form!Answered(a)
      PROVE  NameIsOwn'
  BY <1>10 DEF Form!Answered, FormTypes, FormRow, PostedRow, Target, NameIsOwn, Form!tokens
<1>11. CASE Form!Submits
  BY <1>11 DEF Form!Submits, FormTypes, FormRow, PostedRow, Target, NameIsOwn,
    Form!tokens, Form!Submittable, Form!Hasty
<1>12. CASE Form!Accepts
  BY <1>12 DEF Form!Accepts, FormTypes, FormRow, PostedRow, Target, NameIsOwn, Form!HasToken
<1>13. CASE Form!Succeeds
  BY <1>13 DEF Form!Succeeds, FormTypes, FormRow, PostedRow, Target, NameIsOwn,
    Form!Empty, Form!NoPost, Form!Closed, Form!Stopped
<1>14. CASE Form!Renews
  BY <1>14 DEF Form!Renews, FormTypes, FormRow, PostedRow, Target, NameIsOwn,
    Form!NoPost, Form!Asks
<1>15. CASE Form!Refused
  BY <1>15 DEF Form!Refused, FormTypes, FormRow, PostedRow, Target, NameIsOwn,
    Form!Empty, Form!NoPost, Form!Closed, Form!Stopped
<1>16. CASE UNCHANGED Form!vars
  BY <1>16 DEF Form!vars, FormTypes, FormRow, PostedRow, Target, NameIsOwn
<1> QED BY <1>1, <1>2, <1>3, <1>4, <1>5, <1>6, <1>7, <1>8, <1>9, <1>10, <1>11, <1>12,
  <1>13, <1>14, <1>15, <1>16 DEF Form!Next

\* What is sent is what the form says.
LEMMA SentToOwnerStep ==
  FormTypes /\ NameIsOwn /\ Form!SentToOwner /\ [Form!Next]_(Form!vars) => Form!SentToOwner'
<1> SUFFICES ASSUME FormTypes, NameIsOwn, Form!SentToOwner, [Form!Next]_(Form!vars)
             PROVE  Form!SentToOwner'
  OBVIOUS
<1>1. CASE Form!Opens
  BY <1>1 DEF Form!Opens, FormTypes, FormRow, PostedRow, Target, NameIsOwn, Form!Empty,
    Form!tokens, Form!HasToken, Form!Asks, Form!SentToOwner
<1>2. CASE Form!Closes
  BY <1>2 DEF Form!Closes, FormTypes, FormRow, PostedRow, Target, NameIsOwn, Form!Empty,
    Form!Closed, Form!Stopped, Form!SentToOwner
<1>3. CASE Form!Refreshes
  BY <1>3 DEF Form!Refreshes, FormTypes, FormRow, PostedRow, Target, NameIsOwn,
    Form!HasToken, Form!Asks, Form!SentToOwner
<1>4. CASE Form!TokenExpires
  BY <1>4 DEF Form!TokenExpires, FormTypes, FormRow, PostedRow, Target, NameIsOwn,
    Form!SentToOwner
<1>5. ASSUME NEW n \in asks, Form!TokenArrives(n)
      PROVE  Form!SentToOwner'
  BY <1>5 DEF Form!TokenArrives, FormTypes, FormRow, PostedRow, Target, NameIsOwn,
    Form!SentToOwner
<1>6. ASSUME NEW n \in asks, Form!TokenLost(n)
      PROVE  Form!SentToOwner'
  BY <1>6 DEF Form!TokenLost, FormTypes, FormRow, PostedRow, Target, NameIsOwn,
    Form!SentToOwner
<1>7. ASSUME NEW a \in Targets \cup {Nobody}, Form!Types(a)
      PROVE  Form!SentToOwner'
  BY <1>7 DEF Form!Types, FormTypes, FormRow, PostedRow, Target, NameIsOwn, Form!tokens,
    Form!Edited, Form!SentToOwner
<1>8. CASE Form!TimerFires
  BY <1>8 DEF Form!TimerFires, FormTypes, FormRow, PostedRow, Target, NameIsOwn,
    Form!tokens, Form!Checking, Form!SentToOwner
<1>9. CASE Form!PressesCheck
  BY <1>9 DEF Form!PressesCheck, FormTypes, FormRow, PostedRow, Target, NameIsOwn,
    Form!tokens, Form!Checking, Form!SentToOwner
<1>10. ASSUME NEW a \in checks, Form!Answered(a)
      PROVE  Form!SentToOwner'
  BY <1>10 DEF Form!Answered, FormTypes, FormRow, PostedRow, Target, NameIsOwn,
    Form!tokens, Form!SentToOwner
<1>11. CASE Form!Submits
  BY <1>11 DEF Form!Submits, FormTypes, FormRow, PostedRow, Target, NameIsOwn,
    Form!tokens, Form!Submittable, Form!Hasty, Form!SentToOwner
<1>12. CASE Form!Accepts
  BY <1>12 DEF Form!Accepts, FormTypes, FormRow, PostedRow, Target, NameIsOwn,
    Form!HasToken, Form!SentToOwner
<1>13. CASE Form!Succeeds
  BY <1>13 DEF Form!Succeeds, FormTypes, FormRow, PostedRow, Target, NameIsOwn,
    Form!Empty, Form!NoPost, Form!Closed, Form!Stopped, Form!SentToOwner
<1>14. CASE Form!Renews
  BY <1>14 DEF Form!Renews, FormTypes, FormRow, PostedRow, Target, NameIsOwn,
    Form!NoPost, Form!Asks, Form!SentToOwner
<1>15. CASE Form!Refused
  BY <1>15 DEF Form!Refused, FormTypes, FormRow, PostedRow, Target, NameIsOwn,
    Form!Empty, Form!NoPost, Form!Closed, Form!Stopped, Form!SentToOwner
<1>16. CASE UNCHANGED Form!vars
  BY <1>16 DEF Form!vars, FormTypes, FormRow, PostedRow, Target, NameIsOwn, Form!SentToOwner
<1> QED BY <1>1, <1>2, <1>3, <1>4, <1>5, <1>6, <1>7, <1>8, <1>9, <1>10, <1>11, <1>12,
  <1>13, <1>14, <1>15, <1>16 DEF Form!Next

\* The last token to arrive is the newest, or one was overtaken.
LEMMA TokenIsNewestStep ==
  FormTypes /\ Form!TokenIsNewest /\ [Form!Next]_(Form!vars) => Form!TokenIsNewest'
<1> SUFFICES ASSUME FormTypes, Form!TokenIsNewest, [Form!Next]_(Form!vars)
             PROVE  Form!TokenIsNewest'
  OBVIOUS
<1>1. CASE Form!Opens
  BY <1>1 DEF Form!Opens, FormTypes, FormRow, PostedRow, Target, Form!Empty, Form!tokens,
    Form!HasToken, Form!Asks, Form!TokenIsNewest
<1>2. CASE Form!Closes
  BY <1>2 DEF Form!Closes, FormTypes, FormRow, PostedRow, Target, Form!Empty,
    Form!HasToken, Form!Closed, Form!Stopped, Form!TokenIsNewest
<1>3. CASE Form!Refreshes
  BY <1>3 DEF Form!Refreshes, FormTypes, FormRow, PostedRow, Target, Form!HasToken,
    Form!Asks, Form!TokenIsNewest
<1>4. CASE Form!TokenExpires
  BY <1>4 DEF Form!TokenExpires, FormTypes, FormRow, PostedRow, Target, Form!HasToken,
    Form!TokenIsNewest
<1>5. ASSUME NEW n \in asks, Form!TokenArrives(n)
      PROVE  Form!TokenIsNewest'
  BY <1>5 DEF Form!TokenArrives, FormTypes, FormRow, PostedRow, Target, Form!HasToken,
    Form!TokenIsNewest
<1>6. ASSUME NEW n \in asks, Form!TokenLost(n)
      PROVE  Form!TokenIsNewest'
  BY <1>6 DEF Form!TokenLost, FormTypes, FormRow, PostedRow, Target, Form!HasToken,
    Form!TokenIsNewest
<1>7. ASSUME NEW a \in Targets \cup {Nobody}, Form!Types(a)
      PROVE  Form!TokenIsNewest'
  BY <1>7 DEF Form!Types, FormTypes, FormRow, PostedRow, Target, Form!tokens,
    Form!HasToken, Form!Edited, Form!TokenIsNewest
<1>8. CASE Form!TimerFires
  BY <1>8 DEF Form!TimerFires, FormTypes, FormRow, PostedRow, Target, Form!tokens,
    Form!HasToken, Form!Checking, Form!TokenIsNewest
<1>9. CASE Form!PressesCheck
  BY <1>9 DEF Form!PressesCheck, FormTypes, FormRow, PostedRow, Target, Form!tokens,
    Form!HasToken, Form!Checking, Form!TokenIsNewest
<1>10. ASSUME NEW a \in checks, Form!Answered(a)
      PROVE  Form!TokenIsNewest'
  BY <1>10 DEF Form!Answered, FormTypes, FormRow, PostedRow, Target, Form!tokens,
    Form!HasToken, Form!TokenIsNewest
<1>11. CASE Form!Submits
  BY <1>11 DEF Form!Submits, FormTypes, FormRow, PostedRow, Target, Form!tokens,
    Form!HasToken, Form!Submittable, Form!Hasty, Form!TokenIsNewest
<1>12. CASE Form!Accepts
  BY <1>12 DEF Form!Accepts, FormTypes, FormRow, PostedRow, Target, Form!HasToken,
    Form!TokenIsNewest
<1>13. CASE Form!Succeeds
  BY <1>13 DEF Form!Succeeds, FormTypes, FormRow, PostedRow, Target, Form!Empty,
    Form!NoPost, Form!HasToken, Form!Closed, Form!Stopped, Form!TokenIsNewest
<1>14. CASE Form!Renews
  BY <1>14 DEF Form!Renews, FormTypes, FormRow, PostedRow, Target, Form!NoPost,
    Form!HasToken, Form!Asks, Form!TokenIsNewest
<1>15. CASE Form!Refused
  BY <1>15 DEF Form!Refused, FormTypes, FormRow, PostedRow, Target, Form!Empty,
    Form!NoPost, Form!HasToken, Form!Closed, Form!Stopped, Form!TokenIsNewest
<1>16. CASE UNCHANGED Form!vars
  BY <1>16 DEF Form!vars, FormTypes, FormRow, PostedRow, Target, Form!HasToken,
    Form!TokenIsNewest
<1> QED BY <1>1, <1>2, <1>3, <1>4, <1>5, <1>6, <1>7, <1>8, <1>9, <1>10, <1>11, <1>12,
  <1>13, <1>14, <1>15, <1>16 DEF Form!Next

LEMMA FormInvHolds == Form!Spec => []FormInv
<1>1. Form!Init => FormInv
  <2> SUFFICES ASSUME Form!Init
               PROVE  FormInv
    OBVIOUS
  <2> DEFINE f == FALSE
             t == TRUE
             s == (formKind = "transfer")
  <2>1. f \in BOOLEAN /\ t \in BOOLEAN /\ s \in BOOLEAN
    OBVIOUS
  <2>2. /\ post = [at |-> "idle", account |-> Nobody, name |-> Nobody, stray |-> f, token |-> 0]
        /\ form = [shown |-> s, account |-> Nobody, name |-> Nobody, checked |-> "no",
                   checking |-> f]
        /\ issued = [n |-> 0, spent |-> t] /\ lost = f /\ stray = f
    BY DEF Form!Init, Form!Empty, Form!NoPost
  <2>3. nonce = 0 /\ asks = {} /\ timer = Nobody /\ checks = {}
    BY DEF Form!Init
  <2> HIDE DEF f, t, s
  <2>4. FormTypes
    BY <2>1, <2>2, <2>3 DEF FormTypes, FormRow, PostedRow, Target
  <2>5. NameIsOwn /\ Form!SentToOwner /\ Form!TokenIsNewest
    BY <2>2, <2>3 DEF NameIsOwn, Form!SentToOwner, Form!TokenIsNewest
  <2> QED BY <2>4, <2>5 DEF FormInv
<1>2. FormInv /\ [Form!Next]_(Form!vars) => FormInv'
  BY FormTypesStep, NameIsOwnStep, SentToOwnerStep, TokenIsNewestStep DEF FormInv
<1> QED BY <1>1, <1>2, PTL DEF Form!Spec


(***************************************************************************)
(* The dialogs that top up (DepositDialog), alone.                         *)
(***************************************************************************)
DepositStatus == {"none", "pending", "confirmed", "done", "expired"}

DepositId == Deposits \cup {NoDepositId}

DialogRow == [open : BOOLEAN, step : {"form", "transferring", "polling", "done"},
              id : DepositId, details : DepositId, loading : BOOLEAN, cancelling : BOOLEAN]

CallRow == [op : {"create", "confirm", "cancel"}, id : DepositId, at : {"sent", "done"},
            late : BOOLEAN]

AnswerRow == [id : Deposits, status : DepositStatus, late : BOOLEAN]

DialogTypes ==
  /\ dialog \in DialogRow
  /\ deposits \in [Deposits -> DepositStatus]
  /\ pressed \subseteq CallRow /\ answers \subseteq AnswerRow
  /\ outlived \in BOOLEAN

\* One creation or confirmation is under way at a time, whichever opening it is of.
Loading(c) == c.op \in {"create", "confirm"}

OneLoads ==
  \A c \in pressed : Loading(c) =>
    dialog.loading /\ \A e \in pressed : Loading(e) => e = c

\* A deposit that is done remains so, and an answer says no more than that.
AnswersHold == \A a \in answers : a.status = "done" => deposits[a.id] = "done"

\* Polls of this opening are for one deposit, follow its confirmation, and leave the
\* dialog as it is cleared; those of a closed dialog are cleared as it opens.
PollsOfOne ==
  ~ outlived =>
    /\ ~ dialog.open => polls \subseteq {cleanup} /\ \A c \in pressed : c.late
    /\ dialog.open =>
         /\ polls \subseteq {interval}
         /\ \A a \in answers : ~ a.late => polls \subseteq {a.id}
         /\ \A a, b \in answers : ~ a.late /\ ~ b.late => a.id = b.id
         /\ dialog.step \in {"form", "transferring"} => polls = {} /\ \A a \in answers : a.late
         /\ \A c \in pressed : c.op = "create" => dialog.step = "form"
         /\ \A c \in pressed : c.op = "confirm" /\ ~ c.late =>
              dialog.step \in {"form", "transferring"}

\* What is shown as done is, and stays what the later answers are about.
DoneStays ==
  ~ outlived /\ dialog.open =>
    /\ dialog.step = "done" =>
         /\ dialog.id \in Deposits /\ deposits[dialog.id] = "done"
         /\ polls \subseteq {dialog.id}
         /\ \A a \in answers : ~ a.late => a.id = dialog.id
    /\ dialog.step = "transferring" => dialog.id = dialog.details

DialogInv == DialogTypes /\ OneLoads /\ AnswersHold /\ PollsOfOne /\ DoneStays

\* A request of an earlier opening is the same request.
LEMMA LateCall ==
  ASSUME NEW c \in CallRow
  PROVE  LET q == [c EXCEPT !.late = TRUE]
         IN  q \in CallRow /\ q.late /\ q.op = c.op /\ q.id = c.id /\ q.at = c.at
<1> DEFINE t == TRUE
           q == [c EXCEPT !.late = t]
<1>1. t \in BOOLEAN /\ t
  OBVIOUS
<1> HIDE DEF t
<1>2. q \in CallRow /\ q.late = t /\ q.op = c.op /\ q.id = c.id /\ q.at = c.at
  BY <1>1 DEF CallRow
<1> QED BY <1>1, <1>2 DEF t

LEMMA LateAnswer ==
  ASSUME NEW a \in AnswerRow
  PROVE  LET q == [a EXCEPT !.late = TRUE]
         IN  q \in AnswerRow /\ q.late /\ q.id = a.id /\ q.status = a.status
<1> DEFINE t == TRUE
           q == [a EXCEPT !.late = t]
<1>1. t \in BOOLEAN /\ t
  OBVIOUS
<1> HIDE DEF t
<1>2. q \in AnswerRow /\ q.late = t /\ q.id = a.id /\ q.status = a.status
  BY <1>1 DEF AnswerRow
<1> QED BY <1>1, <1>2 DEF t

LEMMA ToggledRows ==
  ASSUME DialogTypes, Dialog!Toggled
  PROVE  /\ deposits' = deposits /\ pressed' \subseteq CallRow /\ answers' \subseteq AnswerRow
         /\ pressed' = {[c EXCEPT !.late = TRUE] : c \in pressed}
<1>1. /\ deposits' = deposits /\ pressed' = {[c EXCEPT !.late = TRUE] : c \in pressed}
      /\ answers' = {[a EXCEPT !.late = TRUE] : a \in answers}
  BY DEF Dialog!Toggled, Dialog!Earlier
<1>2. \A c \in CallRow : [c EXCEPT !.late = TRUE] \in CallRow
  BY LateCall
<1>3. \A a \in AnswerRow : [a EXCEPT !.late = TRUE] \in AnswerRow
  BY LateAnswer
<1>4. pressed' \subseteq CallRow
  BY <1>1, <1>2 DEF DialogTypes
<1>5. answers' \subseteq AnswerRow
  BY <1>1, <1>3 DEF DialogTypes
<1> QED BY <1>1, <1>4, <1>5

LEMMA ToggledLoads ==
  ASSUME DialogTypes, OneLoads, Dialog!Toggled, dialog'.loading = dialog.loading
  PROVE  OneLoads'
<1> DEFINE late(c) == [c EXCEPT !.late = TRUE]
<1>1. pressed' = {late(c) : c \in pressed}
  BY ToggledRows
<1>2. \A c \in pressed : late(c).op = c.op
  BY LateCall DEF DialogTypes
<1> HIDE DEF late
<1>3. \A q \in pressed' : \E c \in pressed : q = late(c) /\ q.op = c.op
  BY <1>1, <1>2
<1>4. \A q \in pressed' : Loading(q) =>
        \E c \in pressed : Loading(c) /\ q = late(c)
  BY <1>3 DEF Loading
<1> QED BY <1>4 DEF OneLoads

\* A button that is pressed.
LEMMA SendsRow ==
  ASSUME NEW o \in {"create", "confirm", "cancel"}, NEW i \in DepositId,
         DialogTypes, Dialog!Sends(o, i)
  PROVE  pressed' \subseteq CallRow
<1> DEFINE f == FALSE
<1>1. pressed' = pressed \cup {[op |-> o, id |-> i, at |-> "sent", late |-> f]} /\ f \in BOOLEAN
  BY DEF Dialog!Sends
<1> HIDE DEF f
<1> QED BY <1>1 DEF DialogTypes, CallRow

\* Types.
LEMMA DialogTypesStep ==
  DialogTypes /\ [Dialog!Next]_(Dialog!vars) => DialogTypes'
<1> SUFFICES ASSUME DialogTypes, [Dialog!Next]_(Dialog!vars)
             PROVE  DialogTypes'
  OBVIOUS
<1>1. CASE Dialog!Opens
  <2> DEFINE t == TRUE
             n == dialog.loading
             s == [Dialog!Shut EXCEPT !.open = t]
  <2>1. t \in BOOLEAN /\ n \in BOOLEAN /\ Dialog!Shut \in DialogRow
    BY DEF DialogTypes, DialogRow, Dialog!Shut, DepositId
  <2>2. dialog' = [Dialog!Shut EXCEPT !.open = t, !.loading = n] /\ Dialog!Toggled
    BY <1>1 DEF Dialog!Opens
  <2> HIDE DEF t, n
  <2>3. dialog' \in DialogRow
    BY <2>1, <2>2 DEF DialogRow
  <2>4. outlived' \in BOOLEAN
    BY <1>1 DEF Dialog!Opens, DialogTypes
  <2> QED BY <2>2, <2>3, <2>4, ToggledRows DEF DialogTypes
<1>2. CASE Dialog!Resets
  <2> DEFINE t == TRUE
             n == dialog.loading
             s == [Dialog!Shut EXCEPT !.open = t]
  <2>1. t \in BOOLEAN /\ n \in BOOLEAN /\ Dialog!Shut \in DialogRow
    BY DEF DialogTypes, DialogRow, Dialog!Shut, DepositId
  <2>2. dialog' = [Dialog!Shut EXCEPT !.open = t, !.loading = n] /\ Dialog!Toggled
    BY <1>2 DEF Dialog!Resets
  <2> HIDE DEF t, n
  <2>3. dialog' \in DialogRow
    BY <2>1, <2>2 DEF DialogRow
  <2>4. outlived' \in BOOLEAN
    BY <1>2 DEF Dialog!Resets, DialogTypes
  <2> QED BY <2>2, <2>3, <2>4, ToggledRows DEF DialogTypes
<1>3. CASE Dialog!Closes
  <2> DEFINE f == FALSE
  <2>1. /\ f \in BOOLEAN /\ dialog' = [dialog EXCEPT !.open = f]
        /\ Dialog!Toggled /\ UNCHANGED outlived
    BY <1>3 DEF Dialog!Closes
  <2> HIDE DEF f
  <2>2. dialog' \in DialogRow
    BY <2>1 DEF DialogRow, DialogTypes
  <2> QED BY <2>1, <2>2, ToggledRows DEF DialogTypes
<1>4. CASE Dialog!PressesCreate
  <2> DEFINE t == TRUE
  <2>1. /\ t \in BOOLEAN /\ dialog' = [dialog EXCEPT !.loading = t]
        /\ Dialog!Sends("create", NoDepositId)
        /\ UNCHANGED <<deposits, answers, outlived>>
    BY <1>4 DEF Dialog!PressesCreate, Dialog!polling
  <2> HIDE DEF t
  <2>2. dialog' \in DialogRow
    BY <2>1 DEF DialogRow, DialogTypes
  <2>3. NoDepositId \in DepositId
    BY DEF DialogTypes, DialogRow, DepositId
  <2> QED BY <2>1, <2>2, <2>3, SendsRow DEF DialogTypes
<1>5. CASE Dialog!PressesConfirm
  <2> DEFINE t == TRUE
  <2>1. /\ t \in BOOLEAN /\ dialog' = [dialog EXCEPT !.loading = t]
        /\ Dialog!Sends("confirm", dialog.id)
        /\ UNCHANGED <<deposits, answers, outlived>>
    BY <1>5 DEF Dialog!PressesConfirm, Dialog!polling
  <2> HIDE DEF t
  <2>2. dialog' \in DialogRow
    BY <2>1 DEF DialogRow, DialogTypes
  <2>3. dialog.id \in DepositId
    BY DEF DialogTypes, DialogRow, DepositId
  <2> QED BY <2>1, <2>2, <2>3, SendsRow DEF DialogTypes
<1>6. CASE Dialog!PressesCancel
  <2> DEFINE t == TRUE
  <2>1. /\ t \in BOOLEAN /\ dialog' = [dialog EXCEPT !.cancelling = t]
        /\ Dialog!Sends("cancel", dialog.id)
        /\ UNCHANGED <<deposits, answers, outlived>>
    BY <1>6 DEF Dialog!PressesCancel, Dialog!polling
  <2> HIDE DEF t
  <2>2. dialog' \in DialogRow
    BY <2>1 DEF DialogRow, DialogTypes
  <2>3. dialog.id \in DepositId
    BY DEF DialogTypes, DialogRow, DepositId
  <2> QED BY <2>1, <2>2, <2>3, SendsRow DEF DialogTypes
<1>7. ASSUME NEW c \in pressed, Dialog!Creates(c)
      PROVE  DialogTypes'
  <2>1. PICK d \in Deposits : Dialog!Becomes(c, "done", d) /\ (deposits' = deposits \/
          deposits' = [e \in Deposits |-> IF Dialog!NewestOf(Dialog!Resumed, e) THEN "expired"
                                          ELSE IF e = d THEN "pending" ELSE deposits[e]])
    BY <1>7 DEF Dialog!Creates
  <2>2. deposits' \in [Deposits -> DepositStatus]
    BY <2>1 DEF DialogTypes, DepositStatus
  <2>3. pressed' \subseteq CallRow
    BY <2>1 DEF Dialog!Becomes, DialogTypes, CallRow, DepositId
  <2>4. UNCHANGED <<dialog, answers, outlived>>
    BY <1>7 DEF Dialog!Creates, Dialog!polling
  <2> QED BY <2>2, <2>3, <2>4 DEF DialogTypes
<1>8. ASSUME NEW c \in pressed, Dialog!Confirms(c)
      PROVE  DialogTypes'
  BY <1>8 DEF Dialog!Confirms, DialogTypes, DialogRow, CallRow, AnswerRow, DepositStatus,
    DepositId, Dialog!polling, Dialog!Becomes
<1>9. ASSUME NEW c \in pressed, Dialog!Cancels(c)
      PROVE  DialogTypes'
  BY <1>9 DEF Dialog!Cancels, DialogTypes, DialogRow, CallRow, AnswerRow, DepositStatus,
    DepositId, Dialog!polling, Dialog!Becomes, Dialog!Active
<1>10. ASSUME NEW c \in pressed, Dialog!Failed(c)
      PROVE  DialogTypes'
  BY <1>10 DEF Dialog!Failed, DialogTypes, DialogRow, CallRow, AnswerRow, DepositStatus,
    DepositId, Dialog!polling
<1>11. ASSUME NEW c \in pressed, Dialog!Created(c)
      PROVE  DialogTypes'
  BY <1>11 DEF Dialog!Created, DialogTypes, DialogRow, CallRow, AnswerRow, DepositStatus,
    DepositId, Dialog!polling
<1>12. ASSUME NEW c \in pressed, Dialog!Confirmed(c)
      PROVE  DialogTypes'
  BY <1>12 DEF Dialog!Confirmed, DialogTypes, DialogRow, CallRow, AnswerRow,
    DepositStatus, DepositId, Dialog!polling
<1>13. ASSUME NEW c \in pressed, Dialog!Cancelled(c)
      PROVE  DialogTypes'
  BY <1>13 DEF Dialog!Cancelled, DialogTypes, DialogRow, CallRow, AnswerRow,
    DepositStatus, DepositId, Dialog!polling
<1>14. ASSUME NEW d \in Deposits, Dialog!Polls(d)
      PROVE  DialogTypes'
  <2>1. deposits' \in [Deposits -> DepositStatus]
    BY <1>14 DEF Dialog!Polls, DialogTypes, DepositStatus
  <2> DEFINE f == FALSE
             s == deposits'[d]
  <2>2. f \in BOOLEAN /\ s \in DepositStatus
    BY <2>1
  <2>3. answers' = answers \cup {[id |-> d, status |-> s, late |-> f]}
    BY <1>14 DEF Dialog!Polls
  <2> HIDE DEF f, s
  <2>4. answers' \subseteq AnswerRow
    BY <2>2, <2>3 DEF AnswerRow, DialogTypes
  <2> QED BY <2>1, <2>4, <1>14 DEF Dialog!Polls, DialogTypes
<1>15. ASSUME NEW d \in Deposits, Dialog!PollsEnd(d)
      PROVE  DialogTypes'
  BY <1>15 DEF Dialog!PollsEnd, DialogTypes, DialogRow, CallRow, AnswerRow,
    DepositStatus, DepositId
<1>16. ASSUME NEW d \in Deposits, Dialog!Elsewhere(d)
      PROVE  DialogTypes'
  BY <1>16 DEF Dialog!Elsewhere, DialogTypes, DialogRow, CallRow, AnswerRow,
    DepositStatus, DepositId, Dialog!polling
<1>17. ASSUME NEW a \in answers, Dialog!PollAnswered(a)
      PROVE  DialogTypes'
  BY <1>17 DEF Dialog!PollAnswered, DialogTypes, DialogRow, CallRow, AnswerRow,
    DepositStatus, DepositId, Dialog!Ends
<1>18. ASSUME NEW a \in answers, Dialog!PollLost(a)
      PROVE  DialogTypes'
  BY <1>18 DEF Dialog!PollLost, DialogTypes, DialogRow, CallRow, AnswerRow,
    DepositStatus, DepositId
<1>19. CASE UNCHANGED Dialog!vars
  BY <1>19 DEF Dialog!vars, DialogTypes, DialogRow, CallRow, AnswerRow, DepositStatus,
    DepositId
<1> QED BY <1>1, <1>2, <1>3, <1>4, <1>5, <1>6, <1>7, <1>8, <1>9, <1>10, <1>11, <1>12,
  <1>13, <1>14, <1>15, <1>16, <1>17, <1>18, <1>19 DEF Dialog!Next

\* The buttons wait for the creation or confirmation under way.
LEMMA OneLoadsStep ==
  DialogTypes /\ OneLoads /\ [Dialog!Next]_(Dialog!vars) => OneLoads'
<1> SUFFICES ASSUME DialogTypes, OneLoads, [Dialog!Next]_(Dialog!vars)
             PROVE  OneLoads'
  OBVIOUS
<1>1. CASE Dialog!Opens
  <2>1. Dialog!Toggled
    BY <1>1 DEF Dialog!Opens
  <2>2. dialog'.loading = dialog.loading
    BY <1>1 DEF Dialog!Opens, Dialog!Shut, DialogTypes, DialogRow
  <2> QED BY <2>1, <2>2, ToggledLoads
<1>2. CASE Dialog!Resets
  <2>1. Dialog!Toggled
    BY <1>2 DEF Dialog!Resets
  <2>2. dialog'.loading = dialog.loading
    BY <1>2 DEF Dialog!Resets, Dialog!Shut, DialogTypes, DialogRow
  <2> QED BY <2>1, <2>2, ToggledLoads
<1>3. CASE Dialog!Closes
  <2>1. Dialog!Toggled
    BY <1>3 DEF Dialog!Closes
  <2>2. dialog'.loading = dialog.loading
    BY <1>3 DEF Dialog!Closes, Dialog!Shut, DialogTypes, DialogRow
  <2> QED BY <2>1, <2>2, ToggledLoads
<1>4. CASE Dialog!PressesCreate
  BY <1>4 DEF Dialog!PressesCreate, DialogTypes, DialogRow, CallRow, AnswerRow,
    DepositStatus, DepositId, OneLoads, Loading, Dialog!polling, Dialog!Sends
<1>5. CASE Dialog!PressesConfirm
  BY <1>5 DEF Dialog!PressesConfirm, DialogTypes, DialogRow, CallRow, AnswerRow,
    DepositStatus, DepositId, OneLoads, Loading, Dialog!polling, Dialog!Sends
<1>6. CASE Dialog!PressesCancel
  BY <1>6 DEF Dialog!PressesCancel, DialogTypes, DialogRow, CallRow, AnswerRow,
    DepositStatus, DepositId, OneLoads, Loading, Dialog!polling, Dialog!Sends
<1>7. ASSUME NEW c \in pressed, Dialog!Creates(c)
      PROVE  OneLoads'
  BY <1>7 DEF Dialog!Creates, DialogTypes, DialogRow, CallRow, AnswerRow, DepositStatus,
    DepositId, OneLoads, Loading, Dialog!polling, Dialog!Becomes, Dialog!Active,
    Dialog!Unused, Dialog!NewestOf, Dialog!OldestOf, Dialog!Resumed
<1>8. ASSUME NEW c \in pressed, Dialog!Confirms(c)
      PROVE  OneLoads'
  BY <1>8 DEF Dialog!Confirms, DialogTypes, DialogRow, CallRow, AnswerRow, DepositStatus,
    DepositId, OneLoads, Loading, Dialog!polling, Dialog!Becomes
<1>9. ASSUME NEW c \in pressed, Dialog!Cancels(c)
      PROVE  OneLoads'
  BY <1>9 DEF Dialog!Cancels, DialogTypes, DialogRow, CallRow, AnswerRow, DepositStatus,
    DepositId, OneLoads, Loading, Dialog!polling, Dialog!Becomes, Dialog!Active
<1>10. ASSUME NEW c \in pressed, Dialog!Failed(c)
      PROVE  OneLoads'
  BY <1>10 DEF Dialog!Failed, DialogTypes, DialogRow, CallRow, AnswerRow, DepositStatus,
    DepositId, OneLoads, Loading, Dialog!polling
<1>11. ASSUME NEW c \in pressed, Dialog!Created(c)
      PROVE  OneLoads'
  BY <1>11 DEF Dialog!Created, DialogTypes, DialogRow, CallRow, AnswerRow, DepositStatus,
    DepositId, OneLoads, Loading, Dialog!polling
<1>12. ASSUME NEW c \in pressed, Dialog!Confirmed(c)
      PROVE  OneLoads'
  BY <1>12 DEF Dialog!Confirmed, DialogTypes, DialogRow, CallRow, AnswerRow,
    DepositStatus, DepositId, OneLoads, Loading, Dialog!polling
<1>13. ASSUME NEW c \in pressed, Dialog!Cancelled(c)
      PROVE  OneLoads'
  BY <1>13 DEF Dialog!Cancelled, DialogTypes, DialogRow, CallRow, AnswerRow,
    DepositStatus, DepositId, OneLoads, Loading, Dialog!polling
<1>14. ASSUME NEW d \in Deposits, Dialog!Polls(d)
      PROVE  OneLoads'
  BY <1>14 DEF Dialog!Polls, DialogTypes, DialogRow, CallRow, AnswerRow, DepositStatus,
    DepositId, OneLoads, Loading
<1>15. ASSUME NEW d \in Deposits, Dialog!PollsEnd(d)
      PROVE  OneLoads'
  BY <1>15 DEF Dialog!PollsEnd, DialogTypes, DialogRow, CallRow, AnswerRow,
    DepositStatus, DepositId, OneLoads, Loading
<1>16. ASSUME NEW d \in Deposits, Dialog!Elsewhere(d)
      PROVE  OneLoads'
  BY <1>16 DEF Dialog!Elsewhere, DialogTypes, DialogRow, CallRow, AnswerRow,
    DepositStatus, DepositId, OneLoads, Loading, Dialog!polling
<1>17. ASSUME NEW a \in answers, Dialog!PollAnswered(a)
      PROVE  OneLoads'
  BY <1>17 DEF Dialog!PollAnswered, DialogTypes, DialogRow, CallRow, AnswerRow,
    DepositStatus, DepositId, OneLoads, Loading, Dialog!Ends
<1>18. ASSUME NEW a \in answers, Dialog!PollLost(a)
      PROVE  OneLoads'
  BY <1>18 DEF Dialog!PollLost, DialogTypes, DialogRow, CallRow, AnswerRow,
    DepositStatus, DepositId, OneLoads, Loading
<1>19. CASE UNCHANGED Dialog!vars
  BY <1>19 DEF Dialog!vars, DialogTypes, DialogRow, CallRow, AnswerRow, DepositStatus,
    DepositId, OneLoads, Loading
<1> QED BY <1>1, <1>2, <1>3, <1>4, <1>5, <1>6, <1>7, <1>8, <1>9, <1>10, <1>11, <1>12,
  <1>13, <1>14, <1>15, <1>16, <1>17, <1>18, <1>19 DEF Dialog!Next

\* A deposit that is done is never anything else.
LEMMA AnswersHoldStep ==
  DialogTypes /\ AnswersHold /\ [Dialog!Next]_(Dialog!vars) => AnswersHold'
<1> SUFFICES ASSUME DialogTypes, AnswersHold, [Dialog!Next]_(Dialog!vars)
             PROVE  AnswersHold'
  OBVIOUS
<1>1. CASE Dialog!Opens
  BY <1>1 DEF Dialog!Opens, DialogTypes, DialogRow, CallRow, AnswerRow, DepositStatus,
    DepositId, AnswersHold, Dialog!Shut, Dialog!Earlier, Dialog!Cleared, Dialog!Toggled
<1>2. CASE Dialog!Resets
  BY <1>2 DEF Dialog!Resets, DialogTypes, DialogRow, CallRow, AnswerRow, DepositStatus,
    DepositId, AnswersHold, Dialog!Shut, Dialog!Earlier, Dialog!Cleared, Dialog!Toggled
<1>3. CASE Dialog!Closes
  BY <1>3 DEF Dialog!Closes, DialogTypes, DialogRow, CallRow, AnswerRow, DepositStatus,
    DepositId, AnswersHold, Dialog!Earlier, Dialog!Cleared, Dialog!Toggled
<1>4. CASE Dialog!PressesCreate
  BY <1>4 DEF Dialog!PressesCreate, DialogTypes, DialogRow, CallRow, AnswerRow,
    DepositStatus, DepositId, AnswersHold, Dialog!polling, Dialog!Sends
<1>5. CASE Dialog!PressesConfirm
  BY <1>5 DEF Dialog!PressesConfirm, DialogTypes, DialogRow, CallRow, AnswerRow,
    DepositStatus, DepositId, AnswersHold, Dialog!polling, Dialog!Sends
<1>6. CASE Dialog!PressesCancel
  BY <1>6 DEF Dialog!PressesCancel, DialogTypes, DialogRow, CallRow, AnswerRow,
    DepositStatus, DepositId, AnswersHold, Dialog!polling, Dialog!Sends
<1>7. ASSUME NEW c \in pressed, Dialog!Creates(c)
      PROVE  AnswersHold'
  BY <1>7 DEF Dialog!Creates, DialogTypes, DialogRow, CallRow, AnswerRow, DepositStatus,
    DepositId, AnswersHold, Dialog!polling, Dialog!Becomes, Dialog!Active, Dialog!Unused,
    Dialog!NewestOf, Dialog!OldestOf, Dialog!Resumed
<1>8. ASSUME NEW c \in pressed, Dialog!Confirms(c)
      PROVE  AnswersHold'
  BY <1>8 DEF Dialog!Confirms, DialogTypes, DialogRow, CallRow, AnswerRow, DepositStatus,
    DepositId, AnswersHold, Dialog!polling, Dialog!Becomes
<1>9. ASSUME NEW c \in pressed, Dialog!Cancels(c)
      PROVE  AnswersHold'
  BY <1>9 DEF Dialog!Cancels, DialogTypes, DialogRow, CallRow, AnswerRow, DepositStatus,
    DepositId, AnswersHold, Dialog!polling, Dialog!Becomes, Dialog!Active
<1>10. ASSUME NEW c \in pressed, Dialog!Failed(c)
      PROVE  AnswersHold'
  BY <1>10 DEF Dialog!Failed, DialogTypes, DialogRow, CallRow, AnswerRow, DepositStatus,
    DepositId, AnswersHold, Dialog!polling
<1>11. ASSUME NEW c \in pressed, Dialog!Created(c)
      PROVE  AnswersHold'
  BY <1>11 DEF Dialog!Created, DialogTypes, DialogRow, CallRow, AnswerRow, DepositStatus,
    DepositId, AnswersHold, Dialog!polling
<1>12. ASSUME NEW c \in pressed, Dialog!Confirmed(c)
      PROVE  AnswersHold'
  BY <1>12 DEF Dialog!Confirmed, DialogTypes, DialogRow, CallRow, AnswerRow,
    DepositStatus, DepositId, AnswersHold, Dialog!polling
<1>13. ASSUME NEW c \in pressed, Dialog!Cancelled(c)
      PROVE  AnswersHold'
  BY <1>13 DEF Dialog!Cancelled, DialogTypes, DialogRow, CallRow, AnswerRow,
    DepositStatus, DepositId, AnswersHold, Dialog!polling
<1>14. ASSUME NEW d \in Deposits, Dialog!Polls(d)
      PROVE  AnswersHold'
  BY <1>14 DEF Dialog!Polls, DialogTypes, DialogRow, CallRow, AnswerRow, DepositStatus,
    DepositId, AnswersHold
<1>15. ASSUME NEW d \in Deposits, Dialog!PollsEnd(d)
      PROVE  AnswersHold'
  BY <1>15 DEF Dialog!PollsEnd, DialogTypes, DialogRow, CallRow, AnswerRow,
    DepositStatus, DepositId, AnswersHold
<1>16. ASSUME NEW d \in Deposits, Dialog!Elsewhere(d)
      PROVE  AnswersHold'
  BY <1>16 DEF Dialog!Elsewhere, DialogTypes, DialogRow, CallRow, AnswerRow,
    DepositStatus, DepositId, AnswersHold, Dialog!polling
<1>17. ASSUME NEW a \in answers, Dialog!PollAnswered(a)
      PROVE  AnswersHold'
  BY <1>17 DEF Dialog!PollAnswered, DialogTypes, DialogRow, CallRow, AnswerRow,
    DepositStatus, DepositId, AnswersHold, Dialog!Ends
<1>18. ASSUME NEW a \in answers, Dialog!PollLost(a)
      PROVE  AnswersHold'
  BY <1>18 DEF Dialog!PollLost, DialogTypes, DialogRow, CallRow, AnswerRow,
    DepositStatus, DepositId, AnswersHold
<1>19. CASE UNCHANGED Dialog!vars
  BY <1>19 DEF Dialog!vars, DialogTypes, DialogRow, CallRow, AnswerRow, DepositStatus,
    DepositId, AnswersHold
<1> QED BY <1>1, <1>2, <1>3, <1>4, <1>5, <1>6, <1>7, <1>8, <1>9, <1>10, <1>11, <1>12,
  <1>13, <1>14, <1>15, <1>16, <1>17, <1>18, <1>19 DEF Dialog!Next

\* Polls begin once in an opening, and are cleared before the next.
LEMMA PollsOfOneStep ==
  DialogTypes /\ OneLoads /\ PollsOfOne /\ [Dialog!Next]_(Dialog!vars) => PollsOfOne'
<1> SUFFICES ASSUME DialogTypes, OneLoads, PollsOfOne, [Dialog!Next]_(Dialog!vars)
             PROVE  PollsOfOne'
  OBVIOUS
<1>1. CASE Dialog!Opens
  BY <1>1 DEF Dialog!Opens, DialogTypes, DialogRow, CallRow, AnswerRow, DepositStatus,
    DepositId, OneLoads, Loading, PollsOfOne, Dialog!Shut, Dialog!Earlier,
    Dialog!Cleared, Dialog!Toggled
<1>2. CASE Dialog!Resets
  BY <1>2 DEF Dialog!Resets, DialogTypes, DialogRow, CallRow, AnswerRow, DepositStatus,
    DepositId, OneLoads, Loading, PollsOfOne, Dialog!Shut, Dialog!Earlier,
    Dialog!Cleared, Dialog!Toggled
<1>3. CASE Dialog!Closes
  BY <1>3 DEF Dialog!Closes, DialogTypes, DialogRow, CallRow, AnswerRow, DepositStatus,
    DepositId, OneLoads, Loading, PollsOfOne, Dialog!Earlier, Dialog!Cleared, Dialog!Toggled
<1>4. CASE Dialog!PressesCreate
  BY <1>4 DEF Dialog!PressesCreate, DialogTypes, DialogRow, CallRow, AnswerRow,
    DepositStatus, DepositId, OneLoads, Loading, PollsOfOne, Dialog!polling, Dialog!Sends
<1>5. CASE Dialog!PressesConfirm
  BY <1>5 DEF Dialog!PressesConfirm, DialogTypes, DialogRow, CallRow, AnswerRow,
    DepositStatus, DepositId, OneLoads, Loading, PollsOfOne, Dialog!polling, Dialog!Sends
<1>6. CASE Dialog!PressesCancel
  BY <1>6 DEF Dialog!PressesCancel, DialogTypes, DialogRow, CallRow, AnswerRow,
    DepositStatus, DepositId, OneLoads, Loading, PollsOfOne, Dialog!polling, Dialog!Sends
<1>7. ASSUME NEW c \in pressed, Dialog!Creates(c)
      PROVE  PollsOfOne'
  BY <1>7 DEF Dialog!Creates, DialogTypes, DialogRow, CallRow, AnswerRow, DepositStatus,
    DepositId, OneLoads, Loading, PollsOfOne, Dialog!polling, Dialog!Becomes,
    Dialog!Active, Dialog!Unused, Dialog!NewestOf, Dialog!OldestOf, Dialog!Resumed
<1>8. ASSUME NEW c \in pressed, Dialog!Confirms(c)
      PROVE  PollsOfOne'
  BY <1>8 DEF Dialog!Confirms, DialogTypes, DialogRow, CallRow, AnswerRow, DepositStatus,
    DepositId, OneLoads, Loading, PollsOfOne, Dialog!polling, Dialog!Becomes
<1>9. ASSUME NEW c \in pressed, Dialog!Cancels(c)
      PROVE  PollsOfOne'
  BY <1>9 DEF Dialog!Cancels, DialogTypes, DialogRow, CallRow, AnswerRow, DepositStatus,
    DepositId, OneLoads, Loading, PollsOfOne, Dialog!polling, Dialog!Becomes, Dialog!Active
<1>10. ASSUME NEW c \in pressed, Dialog!Failed(c)
      PROVE  PollsOfOne'
  BY <1>10 DEF Dialog!Failed, DialogTypes, DialogRow, CallRow, AnswerRow, DepositStatus,
    DepositId, OneLoads, Loading, PollsOfOne, Dialog!polling
<1>11. ASSUME NEW c \in pressed, Dialog!Created(c)
      PROVE  PollsOfOne'
  BY <1>11 DEF Dialog!Created, DialogTypes, DialogRow, CallRow, AnswerRow, DepositStatus,
    DepositId, OneLoads, Loading, PollsOfOne, Dialog!polling
<1>12. ASSUME NEW c \in pressed, Dialog!Confirmed(c)
      PROVE  PollsOfOne'
  BY <1>12 DEF Dialog!Confirmed, DialogTypes, DialogRow, CallRow, AnswerRow,
    DepositStatus, DepositId, OneLoads, Loading, PollsOfOne, Dialog!polling
<1>13. ASSUME NEW c \in pressed, Dialog!Cancelled(c)
      PROVE  PollsOfOne'
  BY <1>13 DEF Dialog!Cancelled, DialogTypes, DialogRow, CallRow, AnswerRow,
    DepositStatus, DepositId, OneLoads, Loading, PollsOfOne, Dialog!polling
<1>14. ASSUME NEW d \in Deposits, Dialog!Polls(d)
      PROVE  PollsOfOne'
  BY <1>14 DEF Dialog!Polls, DialogTypes, DialogRow, CallRow, AnswerRow, DepositStatus,
    DepositId, OneLoads, Loading, PollsOfOne
<1>15. ASSUME NEW d \in Deposits, Dialog!PollsEnd(d)
      PROVE  PollsOfOne'
  BY <1>15 DEF Dialog!PollsEnd, DialogTypes, DialogRow, CallRow, AnswerRow,
    DepositStatus, DepositId, OneLoads, Loading, PollsOfOne
<1>16. ASSUME NEW d \in Deposits, Dialog!Elsewhere(d)
      PROVE  PollsOfOne'
  BY <1>16 DEF Dialog!Elsewhere, DialogTypes, DialogRow, CallRow, AnswerRow,
    DepositStatus, DepositId, OneLoads, Loading, PollsOfOne, Dialog!polling
<1>17. ASSUME NEW a \in answers, Dialog!PollAnswered(a)
      PROVE  PollsOfOne'
  BY <1>17 DEF Dialog!PollAnswered, DialogTypes, DialogRow, CallRow, AnswerRow,
    DepositStatus, DepositId, OneLoads, Loading, PollsOfOne, Dialog!Ends
<1>18. ASSUME NEW a \in answers, Dialog!PollLost(a)
      PROVE  PollsOfOne'
  BY <1>18 DEF Dialog!PollLost, DialogTypes, DialogRow, CallRow, AnswerRow,
    DepositStatus, DepositId, OneLoads, Loading, PollsOfOne
<1>19. CASE UNCHANGED Dialog!vars
  BY <1>19 DEF Dialog!vars, DialogTypes, DialogRow, CallRow, AnswerRow, DepositStatus,
    DepositId, OneLoads, Loading, PollsOfOne
<1> QED BY <1>1, <1>2, <1>3, <1>4, <1>5, <1>6, <1>7, <1>8, <1>9, <1>10, <1>11, <1>12,
  <1>13, <1>14, <1>15, <1>16, <1>17, <1>18, <1>19 DEF Dialog!Next

\* What is done is what is polled for, and stays.
LEMMA DoneStaysStep ==
  DialogTypes /\ AnswersHold /\ PollsOfOne /\ DoneStays /\ [Dialog!Next]_(Dialog!vars)
    => DoneStays'
<1> SUFFICES ASSUME DialogTypes, AnswersHold, PollsOfOne, DoneStays, [Dialog!Next]_(Dialog!vars)
             PROVE  DoneStays'
  OBVIOUS
<1>1. CASE Dialog!Opens
  BY <1>1 DEF Dialog!Opens, DialogTypes, DialogRow, CallRow, AnswerRow, DepositStatus,
    DepositId, AnswersHold, PollsOfOne, DoneStays, Dialog!Shut, Dialog!Earlier,
    Dialog!Cleared, Dialog!Toggled
<1>2. CASE Dialog!Resets
  BY <1>2 DEF Dialog!Resets, DialogTypes, DialogRow, CallRow, AnswerRow, DepositStatus,
    DepositId, AnswersHold, PollsOfOne, DoneStays, Dialog!Shut, Dialog!Earlier,
    Dialog!Cleared, Dialog!Toggled
<1>3. CASE Dialog!Closes
  BY <1>3 DEF Dialog!Closes, DialogTypes, DialogRow, CallRow, AnswerRow, DepositStatus,
    DepositId, AnswersHold, PollsOfOne, DoneStays, Dialog!Earlier, Dialog!Cleared,
    Dialog!Toggled
<1>4. CASE Dialog!PressesCreate
  BY <1>4 DEF Dialog!PressesCreate, DialogTypes, DialogRow, CallRow, AnswerRow,
    DepositStatus, DepositId, AnswersHold, PollsOfOne, DoneStays, Dialog!polling,
    Dialog!Sends
<1>5. CASE Dialog!PressesConfirm
  BY <1>5 DEF Dialog!PressesConfirm, DialogTypes, DialogRow, CallRow, AnswerRow,
    DepositStatus, DepositId, AnswersHold, PollsOfOne, DoneStays, Dialog!polling,
    Dialog!Sends
<1>6. CASE Dialog!PressesCancel
  BY <1>6 DEF Dialog!PressesCancel, DialogTypes, DialogRow, CallRow, AnswerRow,
    DepositStatus, DepositId, AnswersHold, PollsOfOne, DoneStays, Dialog!polling,
    Dialog!Sends
<1>7. ASSUME NEW c \in pressed, Dialog!Creates(c)
      PROVE  DoneStays'
  BY <1>7 DEF Dialog!Creates, DialogTypes, DialogRow, CallRow, AnswerRow, DepositStatus,
    DepositId, AnswersHold, PollsOfOne, DoneStays, Dialog!polling, Dialog!Becomes,
    Dialog!Active, Dialog!Unused, Dialog!NewestOf, Dialog!OldestOf, Dialog!Resumed
<1>8. ASSUME NEW c \in pressed, Dialog!Confirms(c)
      PROVE  DoneStays'
  BY <1>8 DEF Dialog!Confirms, DialogTypes, DialogRow, CallRow, AnswerRow, DepositStatus,
    DepositId, AnswersHold, PollsOfOne, DoneStays, Dialog!polling, Dialog!Becomes
<1>9. ASSUME NEW c \in pressed, Dialog!Cancels(c)
      PROVE  DoneStays'
  BY <1>9 DEF Dialog!Cancels, DialogTypes, DialogRow, CallRow, AnswerRow, DepositStatus,
    DepositId, AnswersHold, PollsOfOne, DoneStays, Dialog!polling, Dialog!Becomes,
    Dialog!Active
<1>10. ASSUME NEW c \in pressed, Dialog!Failed(c)
      PROVE  DoneStays'
  BY <1>10 DEF Dialog!Failed, DialogTypes, DialogRow, CallRow, AnswerRow, DepositStatus,
    DepositId, AnswersHold, PollsOfOne, DoneStays, Dialog!polling
<1>11. ASSUME NEW c \in pressed, Dialog!Created(c)
      PROVE  DoneStays'
  BY <1>11 DEF Dialog!Created, DialogTypes, DialogRow, CallRow, AnswerRow, DepositStatus,
    DepositId, AnswersHold, PollsOfOne, DoneStays, Dialog!polling
<1>12. ASSUME NEW c \in pressed, Dialog!Confirmed(c)
      PROVE  DoneStays'
  BY <1>12 DEF Dialog!Confirmed, DialogTypes, DialogRow, CallRow, AnswerRow,
    DepositStatus, DepositId, AnswersHold, PollsOfOne, DoneStays, Dialog!polling
<1>13. ASSUME NEW c \in pressed, Dialog!Cancelled(c)
      PROVE  DoneStays'
  BY <1>13 DEF Dialog!Cancelled, DialogTypes, DialogRow, CallRow, AnswerRow,
    DepositStatus, DepositId, AnswersHold, PollsOfOne, DoneStays, Dialog!polling
<1>14. ASSUME NEW d \in Deposits, Dialog!Polls(d)
      PROVE  DoneStays'
  BY <1>14 DEF Dialog!Polls, DialogTypes, DialogRow, CallRow, AnswerRow, DepositStatus,
    DepositId, AnswersHold, PollsOfOne, DoneStays
<1>15. ASSUME NEW d \in Deposits, Dialog!PollsEnd(d)
      PROVE  DoneStays'
  BY <1>15 DEF Dialog!PollsEnd, DialogTypes, DialogRow, CallRow, AnswerRow,
    DepositStatus, DepositId, AnswersHold, PollsOfOne, DoneStays
<1>16. ASSUME NEW d \in Deposits, Dialog!Elsewhere(d)
      PROVE  DoneStays'
  BY <1>16 DEF Dialog!Elsewhere, DialogTypes, DialogRow, CallRow, AnswerRow,
    DepositStatus, DepositId, AnswersHold, PollsOfOne, DoneStays, Dialog!polling
<1>17. ASSUME NEW a \in answers, Dialog!PollAnswered(a)
      PROVE  DoneStays'
  BY <1>17 DEF Dialog!PollAnswered, DialogTypes, DialogRow, CallRow, AnswerRow,
    DepositStatus, DepositId, AnswersHold, PollsOfOne, DoneStays, Dialog!Ends
<1>18. ASSUME NEW a \in answers, Dialog!PollLost(a)
      PROVE  DoneStays'
  BY <1>18 DEF Dialog!PollLost, DialogTypes, DialogRow, CallRow, AnswerRow,
    DepositStatus, DepositId, AnswersHold, PollsOfOne, DoneStays
<1>19. CASE UNCHANGED Dialog!vars
  BY <1>19 DEF Dialog!vars, DialogTypes, DialogRow, CallRow, AnswerRow, DepositStatus,
    DepositId, AnswersHold, PollsOfOne, DoneStays
<1> QED BY <1>1, <1>2, <1>3, <1>4, <1>5, <1>6, <1>7, <1>8, <1>9, <1>10, <1>11, <1>12,
  <1>13, <1>14, <1>15, <1>16, <1>17, <1>18, <1>19 DEF Dialog!Next

LEMMA DialogInvHolds == Dialog!Spec => []DialogInv
<1>1. Dialog!Init => DialogInv
  <2> SUFFICES ASSUME Dialog!Init
               PROVE  DialogInv
    OBVIOUS
  <2>1. Dialog!Shut \in DialogRow /\ ~ Dialog!Shut.open
    BY DEF Dialog!Shut, DialogRow, DepositId
  <2>2. deposits \in [Deposits -> DepositStatus] /\ outlived \in BOOLEAN
    BY DEF Dialog!Init, DepositStatus
  <2>3. DialogTypes
    BY <2>1, <2>2 DEF Dialog!Init, DialogTypes
  <2> QED BY <2>1, <2>3 DEF Dialog!Init, DialogInv, OneLoads, AnswersHold, PollsOfOne, DoneStays
<1>2. DialogInv /\ [Dialog!Next]_(Dialog!vars) => DialogInv'
  BY DialogTypesStep, OneLoadsStep, AnswersHoldStep, PollsOfOneStep, DoneStaysStep DEF DialogInv
<1> QED BY <1>1, <1>2, PTL DEF Dialog!Spec

\* What the dialogs show is what they are about, but for the reasons DialogTells and
\* FormIsSound name: the deposit whose transfer is asked for or called done, and the
\* owner of the account money is sent to; for any deposits, accounts, polls and tokens.
THEOREM DialogsHold == Dialog!Spec /\ Form!Spec => []DialogsTell
<1>1. DialogInv /\ FormInv => DialogsTell
  BY DEF DialogInv, DoneStays, FormInv, DialogsTell, Dialog!DialogTells, Dialog!DoneIsCredited,
    Dialog!TransferIsOfOne, Form!FormIsSound
<1> QED BY <1>1, DialogInvHolds, FormInvHolds, PTL

(***************************************************************************)
(* The wizard that logs the platform in (FlipWizard), alone.               *)
(***************************************************************************)
Holder == Accounts \cup {NoAccount}

WizardRow == [open : BOOLEAN, step : 0 .. 4, typed : Holder, shown : Holder,
              code : Holder, busy : BOOLEAN]

PostRow == [n : 1 .. MaxRequests, kind : {"check", "code", "verify", "finalize"},
            at : {"sent", "good", "bad", "token", "read", "saved", "loading"},
            mine : BOOLEAN, of : Holder, code : Holder]

WizardTypes ==
  /\ wizard \in WizardRow
  /\ posts \subseteq PostRow /\ temp \in Holder /\ saved \in Holder

\* What a request under way says and will do is what the wizard shows.
Says(r) ==
  /\ r.mine /\ wizard.busy
  /\ r.kind = "check" =>
       wizard.step = 0 /\ (r.at \in {"sent", "good"} => r.of = wizard.typed)
  /\ r.kind = "code" => wizard.step \in {1, 2}
  /\ r.kind = "verify" =>
       /\ wizard.step = 2
       /\ r.at \in {"sent", "token"} => r.of = wizard.typed
       /\ r.at = "good" => temp \in {wizard.shown, NoAccount}
  /\ r.kind = "finalize" =>
       /\ wizard.step = IF r.at = "loading" THEN 4 ELSE 3
       /\ r.at = "read" => r.of = wizard.shown
       /\ r.at \in {"saved", "good"} => saved = wizard.shown

\* There is one at most, and it says so.
OneSays ==
  wizard.open /\ blurred = {} => \A r \in posts : Says(r) /\ \A q \in posts : q = r

WizardInv == WizardTypes /\ OneSays /\ WizardTells

\* A request goes on under the account that is typed, and the button waits.
LEMMA AsksRow ==
  ASSUME WizardTypes, NEW k \in {"check", "code", "verify", "finalize"}, Login!Asks(k)
  PROVE  \E q \in PostRow :
           /\ posts' = posts \cup {q}
           /\ q.kind = k /\ q.at = "sent" /\ q.mine
           /\ k # "finalize" => q.of = wizard.typed
<1>1. PICK n \in 1 .. MaxRequests :
        posts' = posts \cup
          {[n |-> n, kind |-> k, at |-> "sent", mine |-> TRUE,
            of |-> IF k = "finalize" THEN NoAccount ELSE wizard.typed,
            code |-> IF k = "verify" THEN wizard.code ELSE NoAccount]}
  BY DEF Login!Asks, Login!FreeNumbers
<1> DEFINE o == IF k = "finalize" THEN NoAccount ELSE wizard.typed
           c == IF k = "verify" THEN wizard.code ELSE NoAccount
           t == TRUE
           q == [n |-> n, kind |-> k, at |-> "sent", mine |-> t, of |-> o, code |-> c]
<1>2. o \in Holder /\ c \in Holder /\ t \in BOOLEAN /\ t
  BY DEF WizardTypes, WizardRow, Holder
<1>3. k # "finalize" => o = wizard.typed
  OBVIOUS
<1>4. posts' = posts \cup {q}
  BY <1>1
<1> HIDE DEF o, c, t
<1>5. q \in PostRow
  BY <1>2 DEF PostRow
<1>6. q.kind = k /\ q.at = "sent" /\ q.mine /\ q.of = o
  BY <1>2
<1> HIDE DEF q
<1> QED BY <1>3, <1>4, <1>5, <1>6

LEMMA AsksWaits ==
  ASSUME WizardTypes, NEW k, Login!Asks(k)
  PROVE  /\ wizard' \in WizardRow /\ wizard'.busy
         /\ wizard'.open = wizard.open /\ wizard'.step = wizard.step
         /\ wizard'.typed = wizard.typed /\ wizard'.shown = wizard.shown
<1> DEFINE t == TRUE
<1>1. wizard' = [wizard EXCEPT !.busy = t] /\ t /\ t \in BOOLEAN
  BY DEF Login!Asks
<1> HIDE DEF t
<1> QED BY <1>1 DEF WizardTypes, WizardRow

\* A request that goes on is the same request, and may be of nobody's account now.
LEMMA MoveRow ==
  ASSUME WizardTypes, NEW r \in posts,
         NEW s \in {"sent", "good", "bad", "token", "read", "saved", "loading"},
         Login!Move(r, s)
  PROVE  \E q \in PostRow :
           /\ posts' = (posts \ {r}) \cup {q}
           /\ q.kind = r.kind /\ q.at = s /\ q.mine = r.mine
           /\ s \in {"token", "read"} \/ (s = "good" /\ r.kind = "check") => q.of = r.of
<1> DEFINE o == IF s \in {"token", "read"} \/ (s = "good" /\ r.kind = "check")
                THEN r.of ELSE NoAccount
           f == [r EXCEPT !.at = s]
           g == [f EXCEPT !.code = NoAccount]
           q == [g EXCEPT !.of = o]
<1>1. posts' = (posts \ {r}) \cup {[r EXCEPT !.at = s, !.code = NoAccount, !.of = o]}
  BY DEF Login!Move
<1>2. r \in PostRow /\ o \in Holder /\ NoAccount \in Holder
  BY DEF WizardTypes, Holder, PostRow
<1>3. s \in {"token", "read"} \/ (s = "good" /\ r.kind = "check") => o = r.of
  OBVIOUS
<1>4. posts' = (posts \ {r}) \cup {q}
  BY <1>1, <1>2 DEF PostRow
<1> HIDE DEF o
<1>5. f \in PostRow /\ f.kind = r.kind /\ f.at = s /\ f.mine = r.mine
  BY <1>2 DEF PostRow
<1> HIDE DEF f
<1>6. g \in PostRow /\ g.kind = f.kind /\ g.at = f.at /\ g.mine = f.mine
  BY <1>2, <1>5 DEF PostRow
<1> HIDE DEF g
<1>7. q \in PostRow /\ q.kind = g.kind /\ q.at = g.at /\ q.mine = g.mine /\ q.of = o
  BY <1>2, <1>6 DEF PostRow
<1> HIDE DEF q
<1> QED BY <1>3, <1>4, <1>5, <1>6, <1>7

\* Types.
LEMMA WizardTypesStep ==
  WizardTypes /\ [Login!Next]_(Login!vars) => WizardTypes'
<1> SUFFICES ASSUME WizardTypes, [Login!Next]_(Login!vars)
             PROVE  WizardTypes'
  OBVIOUS
<1>1. CASE Login!Opens
  <2> DEFINE t == TRUE
             u == [Login!Shut EXCEPT !.open = t]
  <2>1. Login!Shut \in WizardRow /\ t \in BOOLEAN /\ wizard.busy \in BOOLEAN
    BY DEF Login!Shut, WizardTypes, WizardRow, Holder
  <2>2. wizard' = [Login!Shut EXCEPT !.open = t, !.busy = wizard.busy]
    BY <1>1 DEF Login!Opens
  <2> HIDE DEF t
  <2>3. wizard' \in WizardRow
    BY <2>1, <2>2 DEF WizardRow
  <2> QED BY <2>3, <1>1 DEF Login!Opens, WizardTypes
<1>2. CASE Login!Closes
  <2>1. Login!Shut \in WizardRow /\ wizard.busy \in BOOLEAN
    BY DEF Login!Shut, WizardTypes, WizardRow, Holder
  <2>2. wizard' = [Login!Shut EXCEPT !.busy = wizard.busy]
    BY <1>2 DEF Login!Closes
  <2>3. wizard' \in WizardRow
    BY <2>1, <2>2 DEF WizardRow
  <2> QED BY <2>3, <1>2 DEF Login!Closes, WizardTypes
<1>3. CASE Login!Leaves
  <2> DEFINE n == FALSE
  <2>1. Login!Shut \in WizardRow
    BY DEF Login!Shut, WizardRow, Holder
  <2>2. posts' = {[r EXCEPT !.mine = n] : r \in posts} /\ n \in BOOLEAN
    BY <1>3 DEF Login!Leaves
  <2> HIDE DEF n
  <2>3. \A r \in PostRow : [r EXCEPT !.mine = n] \in PostRow
    BY <2>2 DEF PostRow
  <2>4. posts' \subseteq PostRow
    BY <2>2, <2>3 DEF WizardTypes
  <2> QED BY <2>1, <2>4, <1>3 DEF Login!Leaves, WizardTypes
<1>4. CASE Login!Back
  BY <1>4 DEF Login!Back, WizardTypes, WizardRow, Holder, PostRow
<1>5. CASE Login!TokenExpires
  BY <1>5 DEF Login!TokenExpires, WizardTypes, WizardRow, Holder, PostRow
<1>6. ASSUME NEW a \in Accounts, Login!Types(a)
      PROVE  WizardTypes'
  BY <1>6 DEF Login!Types, WizardTypes, WizardRow, Holder, PostRow
<1>7. ASSUME NEW a \in Accounts, Login!TypesCode(a)
      PROVE  WizardTypes'
  BY <1>7 DEF Login!TypesCode, WizardTypes, WizardRow, Holder, PostRow
<1>8. CASE Login!Checks
  <2>1. Login!Asks("check") /\ UNCHANGED <<temp, saved>>
    BY <1>8 DEF Login!Checks, Login!Asks
  <2> QED BY <2>1, AsksRow, AsksWaits DEF WizardTypes
<1>9. CASE Login!RequestsCode
  <2>1. Login!Asks("code") /\ UNCHANGED <<temp, saved>>
    BY <1>9 DEF Login!RequestsCode, Login!Asks
  <2> QED BY <2>1, AsksRow, AsksWaits DEF WizardTypes
<1>10. CASE Login!Verifies
  <2>1. Login!Asks("verify") /\ UNCHANGED <<temp, saved>>
    BY <1>10 DEF Login!Verifies, Login!Asks
  <2> QED BY <2>1, AsksRow, AsksWaits DEF WizardTypes
<1>11. CASE Login!Finalizes
  <2>1. Login!Asks("finalize") /\ UNCHANGED <<temp, saved>>
    BY <1>11 DEF Login!Finalizes, Login!Asks
  <2> QED BY <2>1, AsksRow, AsksWaits DEF WizardTypes
<1>12. ASSUME NEW r \in posts, Login!Looked(r)
      PROVE  WizardTypes'
  BY <1>12 DEF Login!Looked, WizardTypes, WizardRow, Holder, PostRow, Login!Move
<1>13. ASSUME NEW r \in posts, Login!SendsCode(r)
      PROVE  WizardTypes'
  BY <1>13 DEF Login!SendsCode, WizardTypes, WizardRow, Holder, PostRow, Login!Move
<1>14. ASSUME NEW r \in posts, Login!ChecksCode(r)
      PROVE  WizardTypes'
  BY <1>14 DEF Login!ChecksCode, WizardTypes, WizardRow, Holder, PostRow, Login!Move
<1>15. ASSUME NEW r \in posts, Login!KeepsToken(r)
      PROVE  WizardTypes'
  BY <1>15 DEF Login!KeepsToken, WizardTypes, WizardRow, Holder, PostRow, Login!Move,
    Login!Kept
<1>16. ASSUME NEW r \in posts, Login!ReadsToken(r)
      PROVE  WizardTypes'
  BY <1>16 DEF Login!ReadsToken, WizardTypes, WizardRow, Holder, PostRow
<1>17. ASSUME NEW r \in posts, Login!SavesToken(r)
      PROVE  WizardTypes'
  BY <1>17 DEF Login!SavesToken, WizardTypes, WizardRow, Holder, PostRow, Login!Move
<1>18. ASSUME NEW r \in posts, Login!DropsToken(r)
      PROVE  WizardTypes'
  BY <1>18 DEF Login!DropsToken, WizardTypes, WizardRow, Holder, PostRow, Login!Move
<1>19. ASSUME NEW r \in posts, Login!Fails(r)
      PROVE  WizardTypes'
  BY <1>19 DEF Login!Fails, WizardTypes, WizardRow, Holder, PostRow, Login!Move
<1>20. ASSUME NEW r \in posts, Login!Answered(r)
      PROVE  WizardTypes'
  <2>1. Login!Follows(r) \in WizardRow
    <3>1. r \in PostRow /\ wizard \in WizardRow
      BY DEF WizardTypes
    <3>2. \A k \in 0 .. 4 : [wizard EXCEPT !.step = k] \in WizardRow
      BY <3>1 DEF WizardRow
    <3>3. [wizard EXCEPT !.step = 1, !.shown = r.of] \in WizardRow
      <4> DEFINE f == [wizard EXCEPT !.step = 1]
      <4>1. f \in WizardRow /\ r.of \in Holder
        BY <3>1, <3>2 DEF PostRow
      <4>2. [wizard EXCEPT !.step = 1, !.shown = r.of] = [f EXCEPT !.shown = r.of]
        BY <3>1 DEF WizardRow
      <4> HIDE DEF f
      <4> QED BY <4>1, <4>2 DEF WizardRow
    <3> QED BY <3>2, <3>3 DEF Login!Follows
  <2> DEFINE n == FALSE
  <2>2. \/ wizard' = wizard \/ wizard' = [wizard EXCEPT !.busy = n]
        \/ wizard' = [Login!Follows(r) EXCEPT !.busy = n]
    BY <1>20 DEF Login!Answered
  <2>3. n \in BOOLEAN
    OBVIOUS
  <2> HIDE DEF n
  <2>4. wizard' \in WizardRow
    BY <2>1, <2>2, <2>3 DEF WizardTypes, WizardRow
  <2> QED BY <2>4, <1>20 DEF Login!Answered, WizardTypes
<1>21. ASSUME NEW r \in posts, Login!Finished(r)
      PROVE  WizardTypes'
  <2>1. Login!Follows(r) \in WizardRow
    <3>1. r \in PostRow /\ wizard \in WizardRow
      BY DEF WizardTypes
    <3>2. \A k \in 0 .. 4 : [wizard EXCEPT !.step = k] \in WizardRow
      BY <3>1 DEF WizardRow
    <3>3. [wizard EXCEPT !.step = 1, !.shown = r.of] \in WizardRow
      <4> DEFINE f == [wizard EXCEPT !.step = 1]
      <4>1. f \in WizardRow /\ r.of \in Holder
        BY <3>1, <3>2 DEF PostRow
      <4>2. [wizard EXCEPT !.step = 1, !.shown = r.of] = [f EXCEPT !.shown = r.of]
        BY <3>1 DEF WizardRow
      <4> HIDE DEF f
      <4> QED BY <4>1, <4>2 DEF WizardRow
    <3> QED BY <3>2, <3>3 DEF Login!Follows
  <2>2. \E q \in PostRow : posts' = (posts \ {r}) \cup {q}
    BY MoveRow, <1>21 DEF Login!Finished
  <2> QED BY <2>1, <2>2, <1>21 DEF Login!Finished, WizardTypes
<1>22. ASSUME NEW r \in posts, Login!Reloaded(r)
      PROVE  WizardTypes'
  BY <1>22 DEF Login!Reloaded, WizardTypes, WizardRow, Holder, PostRow
<1>23. CASE UNCHANGED Login!vars
  BY <1>23 DEF Login!vars, WizardTypes, WizardRow, Holder, PostRow
<1> QED BY <1>1, <1>2, <1>3, <1>4, <1>5, <1>6, <1>7, <1>8, <1>9, <1>10, <1>11, <1>12,
  <1>13, <1>14, <1>15, <1>16, <1>17, <1>18, <1>19, <1>20, <1>21, <1>22, <1>23 DEF Login!Next

\* A request of this wizard goes on as the wizard says.
LEMMA OneSaysStep ==
  WizardTypes /\ OneSays /\ WizardTells /\ [Login!Next]_(Login!vars) => OneSays'
<1> SUFFICES ASSUME WizardTypes, OneSays, WizardTells, [Login!Next]_(Login!vars)
             PROVE  OneSays'
  OBVIOUS
<1>1. CASE Login!Opens
  BY <1>1 DEF Login!Opens, WizardTypes, WizardRow, Holder, PostRow, OneSays, Says,
    WizardTells, Login!Shut, Login!WizardTells
<1>2. CASE Login!Closes
  BY <1>2 DEF Login!Closes, WizardTypes, WizardRow, Holder, PostRow, OneSays, Says,
    WizardTells, Login!Shut, Login!WizardTells
<1>3. CASE Login!Leaves
  BY <1>3 DEF Login!Leaves, WizardTypes, WizardRow, Holder, PostRow, OneSays, Says,
    WizardTells, Login!Shut, Login!WizardTells
<1>4. CASE Login!Back
  BY <1>4 DEF Login!Back, WizardTypes, WizardRow, Holder, PostRow, OneSays, Says,
    WizardTells, Login!WizardTells
<1>5. CASE Login!TokenExpires
  BY <1>5 DEF Login!TokenExpires, WizardTypes, WizardRow, Holder, PostRow, OneSays, Says,
    WizardTells, Login!WizardTells
<1>6. ASSUME NEW a \in Accounts, Login!Types(a)
      PROVE  OneSays'
  BY <1>6 DEF Login!Types, WizardTypes, WizardRow, Holder, PostRow, OneSays, Says,
    WizardTells, Login!WizardTells
<1>7. ASSUME NEW a \in Accounts, Login!TypesCode(a)
      PROVE  OneSays'
  BY <1>7 DEF Login!TypesCode, WizardTypes, WizardRow, Holder, PostRow, OneSays, Says,
    WizardTells, Login!WizardTells
<1>8. CASE Login!Checks
  <2>1. Login!Asks("check") /\ UNCHANGED <<temp, saved>>
    BY <1>8 DEF Login!Checks, Login!Asks
  <2>2. PICK q \in PostRow : /\ posts' = posts \cup {q}
                             /\ q.kind = "check" /\ q.at = "sent" /\ q.mine
                             /\ "check" # "finalize" => q.of = wizard.typed
    BY <2>1, AsksRow
  <2>3. posts # {} => blurred' # {}
    BY <2>1 DEF Login!Asks
  <2>4. /\ wizard'.busy /\ wizard'.open = wizard.open /\ wizard'.step = wizard.step
        /\ wizard'.typed = wizard.typed
    BY <2>1, AsksWaits
  <2> QED BY <2>2, <2>3, <2>4, <1>8 DEF Login!Checks, OneSays, Says
<1>9. CASE Login!RequestsCode
  <2>1. Login!Asks("code") /\ UNCHANGED <<temp, saved>>
    BY <1>9 DEF Login!RequestsCode, Login!Asks
  <2>2. PICK q \in PostRow : /\ posts' = posts \cup {q}
                             /\ q.kind = "code" /\ q.at = "sent" /\ q.mine
                             /\ "code" # "finalize" => q.of = wizard.typed
    BY <2>1, AsksRow
  <2>3. posts # {} => blurred' # {}
    BY <2>1 DEF Login!Asks
  <2>4. /\ wizard'.busy /\ wizard'.open = wizard.open /\ wizard'.step = wizard.step
        /\ wizard'.typed = wizard.typed
    BY <2>1, AsksWaits
  <2> QED BY <2>2, <2>3, <2>4, <1>9 DEF Login!RequestsCode, OneSays, Says
<1>10. CASE Login!Verifies
  <2>1. Login!Asks("verify") /\ UNCHANGED <<temp, saved>>
    BY <1>10 DEF Login!Verifies, Login!Asks
  <2>2. PICK q \in PostRow : /\ posts' = posts \cup {q}
                             /\ q.kind = "verify" /\ q.at = "sent" /\ q.mine
                             /\ "verify" # "finalize" => q.of = wizard.typed
    BY <2>1, AsksRow
  <2>3. posts # {} => blurred' # {}
    BY <2>1 DEF Login!Asks
  <2>4. /\ wizard'.busy /\ wizard'.open = wizard.open /\ wizard'.step = wizard.step
        /\ wizard'.typed = wizard.typed
    BY <2>1, AsksWaits
  <2> QED BY <2>2, <2>3, <2>4, <1>10 DEF Login!Verifies, OneSays, Says
<1>11. CASE Login!Finalizes
  <2>1. Login!Asks("finalize") /\ UNCHANGED <<temp, saved>>
    BY <1>11 DEF Login!Finalizes, Login!Asks
  <2>2. PICK q \in PostRow : /\ posts' = posts \cup {q}
                             /\ q.kind = "finalize" /\ q.at = "sent" /\ q.mine
                             /\ "finalize" # "finalize" => q.of = wizard.typed
    BY <2>1, AsksRow
  <2>3. posts # {} => blurred' # {}
    BY <2>1 DEF Login!Asks
  <2>4. /\ wizard'.busy /\ wizard'.open = wizard.open /\ wizard'.step = wizard.step
        /\ wizard'.typed = wizard.typed
    BY <2>1, AsksWaits
  <2> QED BY <2>2, <2>3, <2>4, <1>11 DEF Login!Finalizes, OneSays, Says
<1>12. ASSUME NEW r \in posts, Login!Looked(r)
      PROVE  OneSays'
  <2>1. Login!Move(r, "good") /\ UNCHANGED <<blurred>>
    BY <1>12 DEF Login!Looked
  <2>2. PICK q \in PostRow :
          /\ posts' = (posts \ {r}) \cup {q}
          /\ q.kind = r.kind /\ q.at = "good" /\ q.mine = r.mine
          /\ r.kind = "check" => q.of = r.of
    BY <2>1, MoveRow
  <2> QED BY <2>1, <2>2, <1>12 DEF Login!Looked, OneSays, Says, WizardTells,
    Login!WizardTells, WizardTypes
<1>13. ASSUME NEW r \in posts, Login!SendsCode(r)
      PROVE  OneSays'
  <2>1. Login!Move(r, "good") /\ UNCHANGED <<blurred>>
    BY <1>13 DEF Login!SendsCode
  <2>2. PICK q \in PostRow :
          /\ posts' = (posts \ {r}) \cup {q}
          /\ q.kind = r.kind /\ q.at = "good" /\ q.mine = r.mine
          /\ r.kind = "check" => q.of = r.of
    BY <2>1, MoveRow
  <2> QED BY <2>1, <2>2, <1>13 DEF Login!SendsCode, OneSays, Says, WizardTells,
    Login!WizardTells, WizardTypes
<1>14. ASSUME NEW r \in posts, Login!ChecksCode(r)
      PROVE  OneSays'
  <2>1. Login!Move(r, "token") /\ UNCHANGED <<blurred>>
    BY <1>14 DEF Login!ChecksCode
  <2>2. PICK q \in PostRow :
          /\ posts' = (posts \ {r}) \cup {q}
          /\ q.kind = r.kind /\ q.at = "token" /\ q.mine = r.mine
          /\ q.of = r.of
    BY <2>1, MoveRow
  <2> QED BY <2>1, <2>2, <1>14 DEF Login!ChecksCode, OneSays, Says, WizardTells,
    Login!WizardTells, WizardTypes
<1>15. ASSUME NEW r \in posts, Login!KeepsToken(r)
      PROVE  OneSays'
  <2>1. Login!Move(r, "good") /\ UNCHANGED <<blurred>>
    BY <1>15 DEF Login!KeepsToken
  <2>2. PICK q \in PostRow :
          /\ posts' = (posts \ {r}) \cup {q}
          /\ q.kind = r.kind /\ q.at = "good" /\ q.mine = r.mine
          /\ r.kind = "check" => q.of = r.of
    BY <2>1, MoveRow
  <2> QED BY <2>1, <2>2, <1>15 DEF Login!KeepsToken, Login!Kept, OneSays, Says,
    WizardTells, Login!WizardTells, WizardTypes
<1>16. ASSUME NEW r \in posts, Login!ReadsToken(r)
      PROVE  OneSays'
  <2> DEFINE f == [r EXCEPT !.at = "read"]
             q == [f EXCEPT !.of = temp]
  <2>1. r \in PostRow /\ temp \in Holder
    BY DEF WizardTypes
  <2>2. posts' = (posts \ {r}) \cup {q} /\ UNCHANGED <<wizard, temp, saved, blurred>>
    BY <2>1, <1>16 DEF Login!ReadsToken, PostRow
  <2>3. f \in PostRow /\ f.kind = r.kind /\ f.at = "read" /\ f.mine = r.mine
    BY <2>1 DEF PostRow
  <2> HIDE DEF f
  <2>4. q \in PostRow /\ q.kind = f.kind /\ q.at = f.at /\ q.mine = f.mine /\ q.of = temp
    BY <2>1, <2>3 DEF PostRow
  <2> HIDE DEF q
  <2> QED BY <2>2, <2>3, <2>4, <1>16 DEF Login!ReadsToken, OneSays, Says, WizardTells,
    Login!WizardTells
<1>17. ASSUME NEW r \in posts, Login!SavesToken(r)
      PROVE  OneSays'
  <2>1. Login!Move(r, "saved") /\ UNCHANGED <<blurred>>
    BY <1>17 DEF Login!SavesToken
  <2>2. PICK q \in PostRow :
          /\ posts' = (posts \ {r}) \cup {q}
          /\ q.kind = r.kind /\ q.at = "saved" /\ q.mine = r.mine
    BY <2>1, MoveRow
  <2> QED BY <2>1, <2>2, <1>17 DEF Login!SavesToken, OneSays, Says, WizardTells,
    Login!WizardTells, WizardTypes
<1>18. ASSUME NEW r \in posts, Login!DropsToken(r)
      PROVE  OneSays'
  <2>1. Login!Move(r, "good") /\ UNCHANGED <<blurred>>
    BY <1>18 DEF Login!DropsToken
  <2>2. PICK q \in PostRow :
          /\ posts' = (posts \ {r}) \cup {q}
          /\ q.kind = r.kind /\ q.at = "good" /\ q.mine = r.mine
          /\ r.kind = "check" => q.of = r.of
    BY <2>1, MoveRow
  <2> QED BY <2>1, <2>2, <1>18 DEF Login!DropsToken, OneSays, Says, WizardTells,
    Login!WizardTells, WizardTypes
<1>19. ASSUME NEW r \in posts, Login!Fails(r)
      PROVE  OneSays'
  <2>1. Login!Move(r, "bad") /\ UNCHANGED <<blurred>>
    BY <1>19 DEF Login!Fails
  <2>2. PICK q \in PostRow :
          /\ posts' = (posts \ {r}) \cup {q}
          /\ q.kind = r.kind /\ q.at = "bad" /\ q.mine = r.mine
    BY <2>1, MoveRow
  <2> QED BY <2>1, <2>2, <1>19 DEF Login!Fails, OneSays, Says, WizardTells,
    Login!WizardTells, WizardTypes
<1>20. ASSUME NEW r \in posts, Login!Answered(r)
      PROVE  OneSays'
  BY <1>20 DEF Login!Answered, WizardTypes, WizardRow, Holder, PostRow, OneSays, Says,
    WizardTells, Login!Follows, Login!WizardTells
<1>21. ASSUME NEW r \in posts, Login!Finished(r)
      PROVE  OneSays'
  <2>1. Login!Move(r, "loading") /\ UNCHANGED <<blurred>>
    BY <1>21 DEF Login!Finished
  <2>2. PICK q \in PostRow :
          /\ posts' = (posts \ {r}) \cup {q}
          /\ q.kind = r.kind /\ q.at = "loading" /\ q.mine = r.mine
    BY <2>1, MoveRow
  <2>3. wizard' = [wizard EXCEPT !.step = 4] /\ UNCHANGED <<temp, saved>>
    <3>1. r.kind # "check" /\ r.kind # "code" /\ r.kind # "verify"
      BY <1>21 DEF Login!Finished
    <3>2. Login!Follows(r) = [wizard EXCEPT !.step = 4]
      BY <3>1, Zenon DEF Login!Follows
    <3> QED BY <3>2, <1>21 DEF Login!Finished
  <2>4. /\ wizard'.step = 4 /\ wizard'.busy = wizard.busy /\ wizard'.open = wizard.open
        /\ wizard'.shown = wizard.shown /\ q.kind = "finalize"
    BY <2>2, <2>3, <1>21 DEF Login!Finished, WizardTypes, WizardRow
  <2> QED BY <2>1, <2>2, <2>3, <2>4, <1>21 DEF Login!Finished, OneSays, Says,
    WizardTells, Login!WizardTells, WizardTypes
<1>22. ASSUME NEW r \in posts, Login!Reloaded(r)
      PROVE  OneSays'
  BY <1>22 DEF Login!Reloaded, WizardTypes, WizardRow, Holder, PostRow, OneSays, Says,
    WizardTells, Login!WizardTells
<1>23. CASE UNCHANGED Login!vars
  BY <1>23 DEF Login!vars, WizardTypes, WizardRow, Holder, PostRow, OneSays, Says,
    WizardTells, Login!WizardTells
<1> QED BY <1>1, <1>2, <1>3, <1>4, <1>5, <1>6, <1>7, <1>8, <1>9, <1>10, <1>11, <1>12,
  <1>13, <1>14, <1>15, <1>16, <1>17, <1>18, <1>19, <1>20, <1>21, <1>22, <1>23 DEF Login!Next

\* What the wizard tells is what its requests have done.
LEMMA WizardTellsStep ==
  WizardTypes /\ OneSays /\ WizardTells /\ [Login!Next]_(Login!vars) => WizardTells'
<1> SUFFICES ASSUME WizardTypes, OneSays, WizardTells, [Login!Next]_(Login!vars)
             PROVE  WizardTells'
  OBVIOUS
<1>1. CASE Login!Opens
  BY <1>1 DEF Login!Opens, WizardTypes, WizardRow, Holder, PostRow, OneSays, Says,
    WizardTells, Login!Shut, Login!WizardTells
<1>2. CASE Login!Closes
  BY <1>2 DEF Login!Closes, WizardTypes, WizardRow, Holder, PostRow, OneSays, Says,
    WizardTells, Login!Shut, Login!WizardTells
<1>3. CASE Login!Leaves
  BY <1>3 DEF Login!Leaves, WizardTypes, WizardRow, Holder, PostRow, OneSays, Says,
    WizardTells, Login!Shut, Login!WizardTells
<1>4. CASE Login!Back
  BY <1>4 DEF Login!Back, WizardTypes, WizardRow, Holder, PostRow, OneSays, Says,
    WizardTells, Login!WizardTells
<1>5. CASE Login!TokenExpires
  BY <1>5 DEF Login!TokenExpires, WizardTypes, WizardRow, Holder, PostRow, OneSays, Says,
    WizardTells, Login!WizardTells
<1>6. ASSUME NEW a \in Accounts, Login!Types(a)
      PROVE  WizardTells'
  BY <1>6 DEF Login!Types, WizardTypes, WizardRow, Holder, PostRow, OneSays, Says,
    WizardTells, Login!WizardTells
<1>7. ASSUME NEW a \in Accounts, Login!TypesCode(a)
      PROVE  WizardTells'
  BY <1>7 DEF Login!TypesCode, WizardTypes, WizardRow, Holder, PostRow, OneSays, Says,
    WizardTells, Login!WizardTells
<1>8. CASE Login!Checks
  BY <1>8 DEF Login!Checks, WizardTypes, WizardRow, Holder, PostRow, OneSays, Says,
    WizardTells, Login!FreeNumbers, Login!Asks, Login!WizardTells
<1>9. CASE Login!RequestsCode
  BY <1>9 DEF Login!RequestsCode, WizardTypes, WizardRow, Holder, PostRow, OneSays, Says,
    WizardTells, Login!FreeNumbers, Login!Asks, Login!WizardTells
<1>10. CASE Login!Verifies
  BY <1>10 DEF Login!Verifies, WizardTypes, WizardRow, Holder, PostRow, OneSays, Says,
    WizardTells, Login!FreeNumbers, Login!Asks, Login!WizardTells
<1>11. CASE Login!Finalizes
  BY <1>11 DEF Login!Finalizes, WizardTypes, WizardRow, Holder, PostRow, OneSays, Says,
    WizardTells, Login!FreeNumbers, Login!Asks, Login!WizardTells
<1>12. ASSUME NEW r \in posts, Login!Looked(r)
      PROVE  WizardTells'
  BY <1>12 DEF Login!Looked, WizardTypes, WizardRow, Holder, PostRow, OneSays, Says,
    WizardTells, Login!Move, Login!WizardTells
<1>13. ASSUME NEW r \in posts, Login!SendsCode(r)
      PROVE  WizardTells'
  BY <1>13 DEF Login!SendsCode, WizardTypes, WizardRow, Holder, PostRow, OneSays, Says,
    WizardTells, Login!Move, Login!WizardTells
<1>14. ASSUME NEW r \in posts, Login!ChecksCode(r)
      PROVE  WizardTells'
  BY <1>14 DEF Login!ChecksCode, WizardTypes, WizardRow, Holder, PostRow, OneSays, Says,
    WizardTells, Login!Move, Login!WizardTells
<1>15. ASSUME NEW r \in posts, Login!KeepsToken(r)
      PROVE  WizardTells'
  BY <1>15 DEF Login!KeepsToken, WizardTypes, WizardRow, Holder, PostRow, OneSays, Says,
    WizardTells, Login!Move, Login!Kept, Login!WizardTells
<1>16. ASSUME NEW r \in posts, Login!ReadsToken(r)
      PROVE  WizardTells'
  BY <1>16 DEF Login!ReadsToken, WizardTypes, WizardRow, Holder, PostRow, OneSays, Says,
    WizardTells, Login!WizardTells
<1>17. ASSUME NEW r \in posts, Login!SavesToken(r)
      PROVE  WizardTells'
  BY <1>17 DEF Login!SavesToken, WizardTypes, WizardRow, Holder, PostRow, OneSays, Says,
    WizardTells, Login!Move, Login!WizardTells
<1>18. ASSUME NEW r \in posts, Login!DropsToken(r)
      PROVE  WizardTells'
  BY <1>18 DEF Login!DropsToken, WizardTypes, WizardRow, Holder, PostRow, OneSays, Says,
    WizardTells, Login!Move, Login!WizardTells
<1>19. ASSUME NEW r \in posts, Login!Fails(r)
      PROVE  WizardTells'
  BY <1>19 DEF Login!Fails, WizardTypes, WizardRow, Holder, PostRow, OneSays, Says,
    WizardTells, Login!Move, Login!WizardTells
<1>20. ASSUME NEW r \in posts, Login!Answered(r)
      PROVE  WizardTells'
  BY <1>20 DEF Login!Answered, WizardTypes, WizardRow, Holder, PostRow, OneSays, Says,
    WizardTells, Login!Follows, Login!WizardTells
<1>21. ASSUME NEW r \in posts, Login!Finished(r)
      PROVE  WizardTells'
  BY <1>21 DEF Login!Finished, WizardTypes, WizardRow, Holder, PostRow, OneSays, Says,
    WizardTells, Login!Move, Login!Follows, Login!WizardTells
<1>22. ASSUME NEW r \in posts, Login!Reloaded(r)
      PROVE  WizardTells'
  BY <1>22 DEF Login!Reloaded, WizardTypes, WizardRow, Holder, PostRow, OneSays, Says,
    WizardTells, Login!WizardTells
<1>23. CASE UNCHANGED Login!vars
  BY <1>23 DEF Login!vars, WizardTypes, WizardRow, Holder, PostRow, OneSays, Says,
    WizardTells, Login!WizardTells
<1> QED BY <1>1, <1>2, <1>3, <1>4, <1>5, <1>6, <1>7, <1>8, <1>9, <1>10, <1>11, <1>12,
  <1>13, <1>14, <1>15, <1>16, <1>17, <1>18, <1>19, <1>20, <1>21, <1>22, <1>23 DEF Login!Next

\* The account an admin has confirmed gets the code, and its token is the one that is
\* saved, but for the reasons WizardTells names: the login wizard and pg-login.js, for
\* any accounts and requests under way.
THEOREM WizardHolds == Login!Spec => []WizardTells
<1>1. Login!Init => WizardInv
  BY DEF Login!Init, WizardInv, WizardTypes, WizardRow, Holder, PostRow, OneSays, Says, WizardTells,
    Login!WizardTells, Login!Shut
<1>2. WizardInv /\ [Login!Next]_(Login!vars) => WizardInv'
  BY WizardTypesStep, OneSaysStep, WizardTellsStep DEF WizardInv
<1> QED BY <1>1, <1>2, PTL DEF Login!Spec, WizardInv

====
