-------------------------- MODULE SettlementProofs --------------------------
(***************************************************************************)
(* Proofs about Settlement, for any clients, credits, workers and          *)
(* corrections.                                                            *)
(*                                                                         *)
(* The balance of a credit depends on what the row looked like when it was *)
(* selected.  The inductive invariant therefore says what a selection      *)
(* still knows about its rows: that they exist, and, when the row was      *)
(* never in two selections at once, that it is still unsettled.            *)
(***************************************************************************)
EXTENDS MCSettlement, FiniteSetTheorems, TLAPS

\* A credit without a row is counted nowhere and is in no selection.
NoRow ==
  \A e \in Credits : type[e] = "none" =>
    /\ ~settled[e] /\ audit[e] = 0
    /\ pendingBal[e] = 0 /\ availableBal[e] = 0
    /\ \A w \in Workers : e \notin batch[w]
    /\ \A r \in Corrections : e \notin wrongEntries[r]

Unsettled(e) == type[e] = "credit_pending" /\ ~settled[e]

\* A row that was never contended is in one selection at most, and a selection
\* that holds it still holds an unsettled row.
SelectionsFresh ==
  \A e \in Credits \ contended :
    /\ \A w \in Workers : e \in batch[w] =>
         /\ Unsettled(e)
         /\ \A x \in Workers : e \in batch[x] => x = w
         /\ \A r \in Corrections : e \notin wrongEntries[r]
    /\ \A r \in Corrections : e \in wrongEntries[r] =>
         /\ Unsettled(e)
         /\ \A s \in Corrections : e \in wrongEntries[s] => s = r

\* With one correction at a time, the rows it holds are credit_pending.
CorrectionFresh ==
  (\A r, s \in Corrections : r = s) =>
    \A r \in Corrections, e \in Credits :
      e \in wrongEntries[r] => type[e] = "credit_pending"

NeverNegative == \A e \in Credits : availableBal[e] >= 0

IInv ==
  /\ TypeOK /\ NoRow /\ SelectionsFresh /\ CorrectionFresh /\ NeverNegative
  /\ BalancesConserve /\ AvailableIsLedger /\ PendingIsUnsettled

-----------------------------------------------------------------------------
\* What it means for a row to be held by nobody.
LEMMA HeldBy ==
  ASSUME NEW e
  PROVE  e \in Held <=> \/ \E w \in Workers : e \in batch[w]
                        \/ \E r \in Corrections : e \in wrongEntries[r]
BY DEF Held

\* Every invariant holds in the initial states.
LEMMA InitIInv == Init => IInv
BY SettlementAssumption
   DEF Init, IInv, TypeOK, RowTypes, NoRow, SelectionsFresh, CorrectionFresh,
       NeverNegative, BalancesConserve, AvailableIsLedger, PendingIsUnsettled, Unsettled

\* Every step keeps the types.
LEMMA TypeStep == IInv /\ [Next]_vars => TypeOK'
<1> SUFFICES ASSUME IInv, [Next]_vars PROVE TypeOK'
  OBVIOUS
<1> USE SettlementAssumption DEF IInv, TypeOK, RowTypes, ledger, balances, selections, correction
<1>1. ASSUME NEW e \in Credits, CreditInstant(e) \/ CreditPending(e) \/ BecomeDue(e)
      PROVE  TypeOK'
  <2>1. CASE CreditInstant(e)
    BY <2>1 DEF CreditInstant
  <2>2. CASE CreditPending(e)
    BY <2>2 DEF CreditPending
  <2>3. CASE BecomeDue(e)
    BY <2>3 DEF BecomeDue
  <2>4. QED
    BY <1>1, <2>1, <2>2, <2>3
<1>2. ASSUME NEW c \in Clients, PlanChanges(c) PROVE TypeOK'
  BY <1>2 DEF PlanChanges
<1>3. ASSUME NEW w \in Workers, Tick(w) \/ WorkerRestarts(w) PROVE TypeOK'
  BY <1>3 DEF Tick, WorkerRestarts, DueEntries
<1>4. ASSUME NEW w \in Workers, NEW e \in Credits, SettleEntry(w, e) \/ EntryFails(w, e)
      PROVE  TypeOK'
  <2>1. CASE SettleEntry(w, e)
    BY <2>1 DEF SettleEntry, MovePendingToAvailable
  <2>2. CASE EntryFails(w, e)
    BY <2>2 DEF EntryFails
  <2>3. QED
    BY <1>4, <2>1, <2>2
<1>5. ASSUME NEW r \in Corrections,
             ReadProClients(r) \/ CorrectionRead(r) \/ CorrectionAborts(r)
      PROVE  TypeOK'
  BY <1>5 DEF ReadProClients, CorrectionRead, CorrectionAborts, WrongEntries
<1>6. ASSUME NEW r \in Corrections, NEW e \in Credits, CorrectEntry(r, e) PROVE TypeOK'
  BY <1>6 DEF CorrectEntry, CorrectedType, MovePendingToAvailable
<1>7. CASE UNCHANGED vars
  BY <1>7 DEF vars
<1>8. QED
  BY <1>1, <1>2, <1>3, <1>4, <1>5, <1>6, <1>7 DEF Next

\* Every step keeps the invariant.
LEMMA StepIInv == IInv /\ [Next]_vars => IInv'
<1> SUFFICES ASSUME IInv, [Next]_vars PROVE IInv'
  OBVIOUS
<1>0. TypeOK'
  BY TypeStep
<1> DEFINE Rest == NoRow /\ SelectionsFresh /\ CorrectionFresh /\ NeverNegative
                     /\ BalancesConserve /\ AvailableIsLedger /\ PendingIsUnsettled
<1>1. ASSUME NEW e \in Credits, CreditInstant(e) PROVE Rest'
  BY <1>0, <1>1
     DEF IInv, TypeOK, CreditInstant, selections, correction, NoRow, SelectionsFresh, Unsettled,
         CorrectionFresh, NeverNegative, BalancesConserve, AvailableIsLedger, PendingIsUnsettled
<1>2. ASSUME NEW e \in Credits, CreditPending(e) PROVE Rest'
  BY <1>0, <1>2
     DEF IInv, TypeOK, CreditPending, selections, correction, NoRow, SelectionsFresh, Unsettled,
         CorrectionFresh, NeverNegative, BalancesConserve, AvailableIsLedger, PendingIsUnsettled
<1>3. ASSUME NEW e \in Credits, BecomeDue(e) PROVE Rest'
  BY <1>0, <1>3
     DEF IInv, TypeOK, BecomeDue, balances, selections, correction, NoRow, SelectionsFresh,
         Unsettled, CorrectionFresh, NeverNegative, BalancesConserve, AvailableIsLedger,
         PendingIsUnsettled
<1>4. ASSUME NEW c \in Clients, PlanChanges(c) PROVE Rest'
  BY <1>4
     DEF IInv, PlanChanges, ledger, balances, selections, correction, NoRow, SelectionsFresh,
         Unsettled, CorrectionFresh, NeverNegative, BalancesConserve, AvailableIsLedger,
         PendingIsUnsettled
<1>5. ASSUME NEW w \in Workers, Tick(w) PROVE Rest'
  <2>1. SelectionsFresh'
    BY <1>5, HeldBy DEF IInv, TypeOK, Tick, DueEntries, ledger, correction, SelectionsFresh, Unsettled
  <2>2. NoRow'
    BY <1>5 DEF IInv, TypeOK, Tick, DueEntries, ledger, balances, correction, NoRow
  <2>3. QED
    BY <1>5, <2>1, <2>2
       DEF IInv, Tick, ledger, balances, correction, CorrectionFresh, NeverNegative,
           BalancesConserve, AvailableIsLedger, PendingIsUnsettled
<1>6. ASSUME NEW w \in Workers, NEW e \in Credits, SettleEntry(w, e) PROVE Rest'
  <2>1. type[e] # "none"
    BY <1>6 DEF IInv, NoRow, SettleEntry
  <2>2. NoRow' /\ CorrectionFresh' /\ NeverNegative'
    BY <1>6, <2>1 DEF IInv, TypeOK, SettleEntry, MovePendingToAvailable, correction, NoRow,
                      CorrectionFresh, NeverNegative
  <2>3. SelectionsFresh'
    BY <1>6 DEF IInv, TypeOK, SettleEntry, correction, SelectionsFresh, Unsettled
  <2>4. BalancesConserve' /\ AvailableIsLedger'
    BY <1>6 DEF IInv, TypeOK, SettleEntry, MovePendingToAvailable, BalancesConserve,
                AvailableIsLedger
  <2>5. PendingIsUnsettled'
    BY <1>6 DEF IInv, TypeOK, SettleEntry, MovePendingToAvailable, PendingIsUnsettled,
                SelectionsFresh, Unsettled
  <2>6. QED
    BY <2>2, <2>3, <2>4, <2>5
<1>7. ASSUME NEW w \in Workers, WorkerRestarts(w) \/ \E e \in Credits : EntryFails(w, e)
      PROVE  Rest'
  \* The selection only shrinks, and nothing else changes.
  <2>1. \E B \in SUBSET batch[w] : batch' = [batch EXCEPT ![w] = B]
    BY <1>7 DEF WorkerRestarts, EntryFails
  <2>2. UNCHANGED <<ledger, balances, correction, contended>>
    BY <1>7 DEF WorkerRestarts, EntryFails
  <2>3. NoRow' /\ SelectionsFresh'
    BY <2>1, <2>2 DEF IInv, TypeOK, ledger, balances, correction, NoRow, SelectionsFresh, Unsettled
  <2>4. QED
    BY <2>2, <2>3
       DEF IInv, ledger, balances, correction, CorrectionFresh, NeverNegative,
           BalancesConserve, AvailableIsLedger, PendingIsUnsettled
<1>8. ASSUME NEW r \in Corrections, ReadProClients(r) PROVE Rest'
  BY <1>8
     DEF IInv, ReadProClients, ledger, balances, NoRow, SelectionsFresh, Unsettled,
         CorrectionFresh, NeverNegative, BalancesConserve, AvailableIsLedger, PendingIsUnsettled
<1>9. ASSUME NEW r \in Corrections, CorrectionRead(r) PROVE Rest'
  <2>1. SelectionsFresh'
    BY <1>9, HeldBy
       DEF IInv, TypeOK, CorrectionRead, WrongEntries, ledger, SelectionsFresh, Unsettled
  <2>2. NoRow' /\ CorrectionFresh'
    BY <1>9 DEF IInv, TypeOK, CorrectionRead, WrongEntries, ledger, balances, NoRow,
                CorrectionFresh
  <2>3. QED
    BY <1>9, <2>1, <2>2
       DEF IInv, CorrectionRead, ledger, balances, NeverNegative, BalancesConserve,
           AvailableIsLedger, PendingIsUnsettled
<1>10. ASSUME NEW r \in Corrections, NEW e \in Credits, CorrectEntry(r, e) PROVE Rest'
  <2>1. type[e] # "none"
    BY <1>10 DEF IInv, NoRow, CorrectEntry
  <2>2. NoRow' /\ CorrectionFresh' /\ NeverNegative'
    BY <1>10, <2>1
       DEF IInv, TypeOK, CorrectEntry, CorrectedType, MovePendingToAvailable, NoRow,
           CorrectionFresh, NeverNegative
  <2>3. SelectionsFresh'
    BY <1>10 DEF IInv, TypeOK, CorrectEntry, CorrectedType, SelectionsFresh, Unsettled
  <2>4. BalancesConserve'
    BY <1>10, <2>1 DEF IInv, TypeOK, CorrectEntry, CorrectedType, MovePendingToAvailable,
                       BalancesConserve
  <2>5. AvailableIsLedger'
    BY <1>10 DEF IInv, TypeOK, CorrectEntry, CorrectedType, MovePendingToAvailable,
                 AvailableIsLedger, CorrectionFresh
  <2>6. PendingIsUnsettled'
    BY <1>10 DEF IInv, TypeOK, CorrectEntry, CorrectedType, MovePendingToAvailable,
                 PendingIsUnsettled, SelectionsFresh, Unsettled
  <2>7. QED
    BY <2>2, <2>3, <2>4, <2>5, <2>6
<1>11. ASSUME NEW r \in Corrections, CorrectionAborts(r) PROVE Rest'
  BY <1>11
     DEF IInv, TypeOK, CorrectionAborts, ledger, balances, NoRow, SelectionsFresh, Unsettled,
         CorrectionFresh, NeverNegative, BalancesConserve, AvailableIsLedger, PendingIsUnsettled
<1>12. ASSUME UNCHANGED vars PROVE Rest'
  <2>1. UNCHANGED <<type, settled, audit, pendingBal, availableBal, batch, wrongEntries, contended>>
    BY <1>12 DEF vars, ledger, balances, selections, correction
  <2>2. NoRow' /\ SelectionsFresh' /\ CorrectionFresh' /\ NeverNegative'
    <3>1. NoRow'
      BY <2>1 DEF IInv, NoRow
    <3>2. SelectionsFresh'
      BY <2>1 DEF IInv, SelectionsFresh, Unsettled
    <3>3. CorrectionFresh' /\ NeverNegative'
      BY <2>1 DEF IInv, CorrectionFresh, NeverNegative
    <3>4. QED
      BY <3>1, <3>2, <3>3
  <2>3. BalancesConserve' /\ AvailableIsLedger' /\ PendingIsUnsettled'
    BY <2>1 DEF IInv, BalancesConserve, AvailableIsLedger, PendingIsUnsettled
  <2>4. QED
    BY <2>2, <2>3
<1>13. Rest'
  <2>1. CASE \E e \in Credits : CreditInstant(e) \/ CreditPending(e) \/ BecomeDue(e)
    BY <2>1, <1>1, <1>2, <1>3
  <2>2. CASE \E c \in Clients : PlanChanges(c)
    BY <2>2, <1>4
  <2>3. CASE \E w \in Workers :
               \/ Tick(w) \/ WorkerRestarts(w)
               \/ \E e \in Credits : SettleEntry(w, e) \/ EntryFails(w, e)
    BY <2>3, <1>5, <1>6, <1>7
  <2>4. CASE \E r \in Corrections :
               \/ ReadProClients(r) \/ CorrectionRead(r) \/ CorrectionAborts(r)
               \/ \E e \in Credits : CorrectEntry(r, e)
    <3>1. PICK r \in Corrections :
            \/ ReadProClients(r) \/ CorrectionRead(r) \/ CorrectionAborts(r)
            \/ \E e \in Credits : CorrectEntry(r, e)
      BY <2>4
    <3>2. QED
      BY <3>1, <1>8, <1>9, <1>10, <1>11
  <2>5. QED
    BY <2>1, <2>2, <2>3, <2>4, <1>12 DEF Next
<1>14. QED
  BY <1>0, <1>13 DEF IInv

-----------------------------------------------------------------------------
THEOREM SettlementInvariant == Spec => []IInv
<1>1. Init => IInv
  BY InitIInv
<1>2. IInv /\ [Next]_vars => IInv'
  BY StepIInv
<1>3. QED
  BY <1>1, <1>2, PTL DEF Spec

\* Every row, balance and selection has its type, for any number of movers.
THEOREM SettlementTypes == Spec => []TypeOK
BY SettlementInvariant, PTL DEF IInv

\* Whatever workers and corrections overlap, pending and available together hold
\* the amount of a credit exactly once: settlement neither makes nor loses money.
THEOREM SettlementConserves == Spec => []BalancesConserve
BY SettlementInvariant, PTL DEF IInv

\* With one correction at a time, the ledger explains the available balance.
THEOREM LedgerExplainsAvailable == Spec => []AvailableIsLedger
BY SettlementInvariant, PTL DEF IInv

\* Overlapping selections are the only way to make pending differ from what the
\* ledger says is unsettled.
THEOREM PendingExplained == Spec => []PendingIsUnsettled
BY SettlementInvariant, PTL DEF IInv

\* The three together, as the runs check them.
THEOREM SettlementExplained == Spec => []BalancesExplained
BY SettlementConserves, LedgerExplainsAvailable, PendingExplained, PTL DEF BalancesExplained

-----------------------------------------------------------------------------
(* Settlement implements the promise.                                      *)

\* The initial states are those of the promise.
LEMMA PromiseInit == Init => Promise!Init
BY DEF Init, Promise!Init, Place

\* A step that leaves the balances alone leaves every credit in its place.
LEMMA PromiseStutter == UNCHANGED balances => UNCHANGED Place
BY DEF balances, Place

\* Moving a credit from pending to available releases it, if it was still held.
LEMMA PromiseMove ==
  ASSUME IInv, NEW e \in Credits, type[e] # "none", MovePendingToAvailable(e)
  PROVE  Promise!Release(e) \/ UNCHANGED Place
<1>1. pendingBal[e] + availableBal[e] = 1 /\ availableBal[e] >= 0
  BY DEF IInv, BalancesConserve, NeverNegative
<1>2. pendingBal[e] \in Int /\ availableBal[e] \in Int
  BY DEF IInv, TypeOK
<1>3. availableBal'[e] > 0
  BY <1>1, <1>2 DEF MovePendingToAvailable, IInv, TypeOK
<1>4. \A d \in Credits \ {e} :
        availableBal'[d] = availableBal[d] /\ pendingBal'[d] = pendingBal[d]
  BY DEF MovePendingToAvailable, IInv, TypeOK
<1>5. Place' = [Place EXCEPT ![e] = "released"]
  BY <1>3, <1>4 DEF Place
<1>6. CASE availableBal[e] > 0
  <2>1. Place[e] = "released"
    BY <1>6 DEF Place
  <2>2. QED
    BY <1>5, <2>1 DEF Place
<1>7. CASE availableBal[e] = 0
  <2>1. Place[e] = "held"
    BY <1>1, <1>2, <1>7 DEF Place
  <2>2. QED
    BY <1>5, <2>1 DEF Promise!Release
<1>8. QED
  BY <1>1, <1>2, <1>6, <1>7

\* Paying an invoice credits it.
LEMMA PromiseCredit ==
  ASSUME IInv, NEW e \in Credits, CreditInstant(e) \/ CreditPending(e)
  PROVE  Promise!Credit(e)
<1>1. type[e] = "none" /\ pendingBal[e] = 0 /\ availableBal[e] = 0
  BY DEF CreditInstant, CreditPending, IInv, NoRow
<1>2. Place[e] = "nowhere"
  BY <1>1 DEF Place
<1>3. CASE CreditInstant(e)
  <2>1. /\ availableBal'[e] > 0
        /\ \A d \in Credits \ {e} : /\ availableBal'[d] = availableBal[d]
                                     /\ pendingBal'[d] = pendingBal[d]
    BY <1>1, <1>3 DEF CreditInstant, IInv, TypeOK
  <2>2. Place' = [Place EXCEPT ![e] = "released"]
    BY <2>1 DEF Place
  <2>3. QED
    BY <1>2, <2>2 DEF Promise!Credit
<1>4. CASE CreditPending(e)
  <2>1. /\ pendingBal'[e] > 0 /\ ~(availableBal'[e] > 0)
        /\ \A d \in Credits \ {e} : /\ availableBal'[d] = availableBal[d]
                                     /\ pendingBal'[d] = pendingBal[d]
    BY <1>1, <1>4 DEF CreditPending, IInv, TypeOK
  <2>2. Place' = [Place EXCEPT ![e] = "held"]
    BY <1>1, <2>1 DEF Place
  <2>3. QED
    BY <1>2, <2>2 DEF Promise!Credit
<1>5. QED
  BY <1>3, <1>4

\* Every step credits, releases, or leaves every credit in its place.
LEMMA PromiseStep == IInv /\ [Next]_vars => [Promise!Next]_Place
<1> SUFFICES ASSUME IInv, [Next]_vars PROVE [Promise!Next]_Place
  OBVIOUS
<1>1. ASSUME NEW e \in Credits, CreditInstant(e) \/ CreditPending(e) PROVE Promise!Next
  BY <1>1, PromiseCredit DEF Promise!Next
<1>2. ASSUME NEW w \in Workers, NEW e \in Credits, SettleEntry(w, e)
      PROVE  [Promise!Next]_Place
  <2>1. type[e] # "none" /\ MovePendingToAvailable(e)
    BY <1>2 DEF SettleEntry, IInv, NoRow
  <2>2. QED
    BY <2>1, PromiseMove DEF Promise!Next
<1>3. ASSUME NEW r \in Corrections, NEW e \in Credits, CorrectEntry(r, e)
      PROVE  [Promise!Next]_Place
  <2>1. type[e] # "none" /\ MovePendingToAvailable(e)
    BY <1>3 DEF CorrectEntry, IInv, NoRow
  <2>2. QED
    BY <2>1, PromiseMove DEF Promise!Next
<1>4. ASSUME \/ \E e \in Credits : BecomeDue(e)
             \/ \E c \in Clients : PlanChanges(c)
             \/ \E w \in Workers :
                  \/ Tick(w) \/ WorkerRestarts(w)
                  \/ \E e \in Credits : EntryFails(w, e)
             \/ \E r \in Corrections :
                  ReadProClients(r) \/ CorrectionRead(r) \/ CorrectionAborts(r)
             \/ UNCHANGED vars
      PROVE  UNCHANGED Place
  <2>1. UNCHANGED balances
    BY <1>4 DEF BecomeDue, PlanChanges, Tick, WorkerRestarts, EntryFails, ReadProClients,
                CorrectionRead, CorrectionAborts, vars
  <2>2. QED
    BY <2>1, PromiseStutter
<1>5. QED
  BY <1>1, <1>2, <1>3, <1>4 DEF Next

\* The money of a paid invoice is credited once, held or released, and is never
\* taken back once released: settlement implements the promise to the merchant.
THEOREM SettlementKeepsPromise == Spec => PromiseSpec
<1>1. Init => Promise!Init
  BY PromiseInit
<1>2. IInv /\ [Next]_vars => [Promise!Next]_Place
  BY PromiseStep
<1>3. QED
  BY <1>1, <1>2, SettlementInvariant, PTL DEF Spec, PromiseSpec, Promise!Spec

-----------------------------------------------------------------------------
(* The limits of the free plan (Invoicing).                                *)

\* Requests that will make their invoice, and those that the limit of the month
\* will not stop, because of what they have read.
Allowed == {q \in Requests : request[q].at = "allowed"}
Admitted == {q \in Requests : /\ request[q].at = "pending"
                              /\ request[q].total + request[q].amount <= MonthLimit}

\* What may still be paid without another look at the month: how often, and how much each.
Outstanding == Cardinality(Free!Open) + Cardinality(Allowed) + Cardinality(Admitted)
OutstandingAmounts == {open[i] : i \in Free!Open} \cup {request[q].amount : q \in Allowed \cup Admitted}

MostInvoices == MaxPending + Cardinality(Requests) - 1
MostOutstanding == MaxPending + 2 * Cardinality(Requests) - 1
MostPaid == MonthLimit + (MostOutstanding - 1) * MaxAmount

\* The sum stays within the bound when all that is outstanding is paid, if need be
\* with one amount counted as it is and the others as the largest.
Payable(sum, n, amounts) ==
  \/ sum + n * MaxAmount <= MostPaid
  \/ \E amt \in amounts : sum + amt + (n - 1) * MaxAmount <= MostPaid

Sized ==
  /\ \A q \in Requests : request[q].at # "idle" => request[q].amount \in MinAmount .. MaxAmount
  /\ \A q \in Requests : request[q].at = "idle" => request[q] = Free!Idle

SalesInv ==
  /\ Free!TypeOK /\ Sized
  /\ Cardinality(Free!Open) + Cardinality(Allowed) <= MostInvoices
  /\ Payable(paid, Outstanding, OutstandingAmounts)

LEMMA FreeCardinality == ASSUME NEW S PROVE Free!Cardinality(S) = Cardinality(S)
BY DEF Cardinality, Free!Cardinality

LEMMA SalesBounds ==
  /\ MinAmount \in Nat /\ MaxAmount \in Nat /\ MonthLimit \in Nat /\ MinAmount > 0
  /\ MinAmount <= MaxAmount /\ MaxAmount <= MonthLimit
  /\ MaxPending \in Nat /\ MaxPending > 0
  /\ Cardinality(Requests) \in Nat
  /\ MostInvoices \in Nat /\ MostOutstanding \in Nat /\ MostPaid \in Nat
<1>1. Cardinality(Requests) \in Nat
  BY LimitsAssumption, FS_CardinalityType
<1>2. MostInvoices \in Nat /\ MostOutstanding \in Nat
  BY <1>1, LimitsAssumption DEF MostInvoices, MostOutstanding
<1>3. MostPaid \in Nat
  <2>1. CASE MostOutstanding = 0
    BY <2>1, LimitsAssumption DEF MostPaid
  <2>2. CASE MostOutstanding > 0
    <3>1. PICK n \in Nat : n = MostOutstanding - 1
      BY <1>2, <2>2
    <3>2. n * MaxAmount \in Nat
      BY <3>1, LimitsAssumption
    <3> QED
      BY <3>1, <3>2, LimitsAssumption DEF MostPaid
  <2> QED
    BY <1>2, <2>1, <2>2
<1> QED
  BY <1>1, <1>2, <1>3, LimitsAssumption

\* Sets of requests and invoices are finite.
LEMMA SalesFinite ==
  ASSUME NEW S, S \subseteq Requests \/ S \subseteq Invoices
  PROVE  IsFiniteSet(S) /\ Cardinality(S) \in Nat
<1>1. IsFiniteSet(S)
  BY LimitsAssumption, FS_Subset
<1> QED
  BY <1>1, FS_CardinalityType

-----------------------------------------------------------------------------
(* How Payable moves.                                                      *)

\* One that was outstanding is dropped.
LEMMA PayableDrop ==
  ASSUME NEW sum \in Nat, NEW n \in Nat, NEW A, A \subseteq Nat, Payable(sum, n + 1, A), NEW B
  PROVE  Payable(sum, n, B)
<1>1. (n + 1) * MaxAmount = n * MaxAmount + MaxAmount /\ n * MaxAmount \in Nat
  BY SalesBounds
<1>2. (n + 1) - 1 = n
  OBVIOUS
<1>3. sum + n * MaxAmount <= MostPaid
  BY <1>1, <1>2, SalesBounds DEF Payable
<1> QED
  BY <1>3 DEF Payable

\* One of the amounts is paid.
LEMMA PayablePaid ==
  ASSUME NEW sum \in Nat, NEW n \in Nat, NEW A, A \subseteq 0 .. MaxAmount, NEW amt \in A,
         Payable(sum, n + 1, A), NEW B, \A x \in A : x = amt \/ x \in B
  PROVE  Payable(sum + amt, n, B)
<1>1. /\ (n + 1) * MaxAmount = n * MaxAmount + MaxAmount /\ n * MaxAmount \in Nat
      /\ (n - 1) * MaxAmount = n * MaxAmount - MaxAmount
      /\ (n + 1) - 1 = n
  BY SalesBounds
<1>2. amt \in Nat /\ amt <= MaxAmount
  BY SalesBounds
<1>3. CASE sum + (n + 1) * MaxAmount <= MostPaid
  <2>1. (sum + amt) + n * MaxAmount <= MostPaid
    BY <1>1, <1>2, <1>3, SalesBounds
  <2> QED
    BY <2>1 DEF Payable
<1>4. ASSUME NEW x \in A, sum + x + ((n + 1) - 1) * MaxAmount <= MostPaid
      PROVE  Payable(sum + amt, n, B)
  <2>1. x \in Nat /\ sum + x + n * MaxAmount <= MostPaid
    BY <1>1, <1>4, SalesBounds
  <2>2. CASE x = amt
    BY <2>1, <2>2 DEF Payable
  <2>3. CASE x \in B
    <3>1. (sum + amt) + x + (n - 1) * MaxAmount <= MostPaid
      BY <1>1, <1>2, <2>1, SalesBounds
    <3> QED
      BY <2>3, <3>1 DEF Payable
  <2> QED
    BY <2>2, <2>3
<1> QED
  BY <1>3, <1>4 DEF Payable

\* Amounts are known by more names, or less has been paid.
LEMMA PayableMore ==
  ASSUME NEW sum \in Nat, NEW n \in Nat, NEW A, A \subseteq Nat, Payable(sum, n, A),
         NEW B, A \subseteq B, NEW less \in Nat, less <= sum
  PROVE  Payable(less, n, B)
<1>1. n * MaxAmount \in Nat /\ (n - 1) * MaxAmount \in Int
  BY SalesBounds
<1>2. CASE sum + n * MaxAmount <= MostPaid
  BY <1>1, <1>2, SalesBounds DEF Payable
<1>3. ASSUME NEW x \in A, sum + x + (n - 1) * MaxAmount <= MostPaid
      PROVE  Payable(less, n, B)
  <2>1. less + x + (n - 1) * MaxAmount <= MostPaid
    BY <1>1, <1>3, SalesBounds
  <2> QED
    BY <2>1 DEF Payable
<1> QED
  BY <1>2, <1>3 DEF Payable

\* A request reads a sum that leaves room for its own amount.
LEMMA PayableRead ==
  ASSUME NEW sum \in Nat, NEW n \in Nat, n <= MostOutstanding, NEW A, NEW amt \in A, amt \in Nat,
         sum + amt <= MonthLimit
  PROVE  Payable(sum, n, A)
<1>1. (n - 1) * MaxAmount <= (MostOutstanding - 1) * MaxAmount
  <2>1. PICK d \in Nat : MostOutstanding = n + d
    <3>1. MostOutstanding - n \in Nat /\ MostOutstanding = n + (MostOutstanding - n)
      BY SalesBounds
    <3> QED
      BY <3>1
  <2>2. (MostOutstanding - 1) * MaxAmount = (n - 1) * MaxAmount + d * MaxAmount
    BY <2>1, SalesBounds
  <2>3. d * MaxAmount \in Nat
    BY SalesBounds
  <2> QED
    BY <2>2, <2>3, SalesBounds
<1>2. (n - 1) * MaxAmount \in Int /\ (MostOutstanding - 1) * MaxAmount \in Int
  BY SalesBounds
<1>3. sum + amt + (n - 1) * MaxAmount <= MostPaid
  BY <1>1, <1>2, SalesBounds DEF MostPaid
<1> QED
  BY <1>3 DEF Payable

-----------------------------------------------------------------------------
(* The steps.                                                              *)

LEMMA OutstandingTypes ==
  ASSUME Free!TypeOK, Sized
  PROVE  /\ Outstanding \in Nat /\ paid \in Nat
         /\ OutstandingAmounts \subseteq 0 .. MaxAmount /\ OutstandingAmounts \subseteq Nat
         /\ \A S \in {Free!Open, Allowed, Admitted} : IsFiniteSet(S) /\ Cardinality(S) \in Nat
<1>1. \A S \in {Free!Open, Allowed, Admitted} : IsFiniteSet(S) /\ Cardinality(S) \in Nat
  <2>1. /\ Free!Open \subseteq Invoices /\ Allowed \subseteq Requests /\ Admitted \subseteq Requests
    BY DEF Free!Open, Allowed, Admitted
  <2> QED
    BY <2>1, SalesFinite
<1>2. Outstanding \in Nat
  BY <1>1 DEF Outstanding
<1>3. \A i \in Free!Open : open[i] \in 0 .. MaxAmount
  BY DEF Free!TypeOK, Free!Open
<1>4. \A q \in Allowed \cup Admitted : request[q].amount \in 0 .. MaxAmount
  BY SalesBounds DEF Sized, Allowed, Admitted
<1>5. OutstandingAmounts \subseteq 0 .. MaxAmount
  BY <1>3, <1>4 DEF OutstandingAmounts
<1> QED
  BY <1>1, <1>2, <1>5, SalesBounds DEF Free!TypeOK

LEMMA SalesInit == Free!Init => SalesInv
<1> SUFFICES ASSUME Free!Init PROVE SalesInv
  OBVIOUS
<1>1. Free!TypeOK /\ Sized
  BY SalesBounds DEF Free!Init, Free!TypeOK, Sized, Free!Request, Free!Amounts, Free!Idle
<1>2. Free!Open = {} /\ Allowed = {} /\ Admitted = {}
  BY DEF Free!Init, Free!Open, Allowed, Admitted, Free!Idle
<1>3. Cardinality(Free!Open) = 0 /\ Cardinality(Allowed) = 0 /\ Outstanding = 0
  BY <1>2, FS_EmptySet DEF Outstanding
<1>4. Payable(paid, Outstanding, OutstandingAmounts)
  <2>1. paid + 0 * MaxAmount <= MostPaid
    BY SalesBounds DEF Free!Init
  <2> QED
    BY <1>3, <2>1 DEF Payable
<1>5. Cardinality(Free!Open) + Cardinality(Allowed) <= MostInvoices
  BY <1>3, SalesBounds
<1> QED
  BY <1>1, <1>4, <1>5 DEF SalesInv

\* A request changes the sets above only by its own membership.
LEMMA OneRequestMoves ==
  ASSUME Free!TypeOK, NEW q \in Requests, NEW r \in Free!Request,
         request' = [request EXCEPT ![q] = r]
  PROVE  /\ Allowed' = IF r.at = "allowed" THEN Allowed \cup {q} ELSE Allowed \ {q}
         /\ Admitted' = IF r.at = "pending" /\ r.total + r.amount <= MonthLimit
                          THEN Admitted \cup {q} ELSE Admitted \ {q}
         /\ request'[q] = r /\ \A p \in Requests \ {q} : request'[p] = request[p]
<1>1. request'[q] = r /\ \A p \in Requests \ {q} : request'[p] = request[p]
  BY DEF Free!TypeOK
<1>2. Allowed' = IF r.at = "allowed" THEN Allowed \cup {q} ELSE Allowed \ {q}
  BY <1>1 DEF Allowed
<1>3. Admitted' = IF r.at = "pending" /\ r.total + r.amount <= MonthLimit
                    THEN Admitted \cup {q} ELSE Admitted \ {q}
  BY <1>1 DEF Admitted
<1> QED
  BY <1>1, <1>2, <1>3

\* A request leaves, is asked, or reads nothing new: at most one amount is dropped.
LEMMA RequestDrops ==
  ASSUME SalesInv, NEW q \in Requests, UNCHANGED <<open, paid>>,
         NEW r \in Free!Request, request' = [request EXCEPT ![q] = r],
         r.at \in {"idle", "volume"}, r.at = "idle" => r = Free!Idle,
         r.at # "idle" => r.amount \in MinAmount .. MaxAmount
  PROVE  SalesInv'
<1>1. Free!TypeOK'
  BY DEF SalesInv, Free!TypeOK
<1>2. /\ Allowed' = Allowed \ {q} /\ Admitted' = Admitted \ {q}
      /\ request'[q] = r /\ \A p \in Requests \ {q} : request'[p] = request[p]
  BY OneRequestMoves DEF SalesInv
<1>3. Sized'
  BY <1>2 DEF SalesInv, Sized
<1>4. Free!Open' = Free!Open /\ paid' = paid
  BY DEF Free!Open
<1>5. /\ Outstanding \in Nat /\ paid \in Nat /\ OutstandingAmounts \subseteq Nat
      /\ \A S \in {Free!Open, Allowed, Admitted} : IsFiniteSet(S) /\ Cardinality(S) \in Nat
  BY OutstandingTypes DEF SalesInv
<1>6. /\ Cardinality(Allowed') = IF q \in Allowed THEN Cardinality(Allowed) - 1 ELSE Cardinality(Allowed)
      /\ Cardinality(Admitted') = IF q \in Admitted THEN Cardinality(Admitted) - 1 ELSE Cardinality(Admitted)
      /\ Cardinality(Allowed') \in Nat /\ Cardinality(Admitted') \in Nat
  <2>1. IsFiniteSet(Allowed') /\ IsFiniteSet(Admitted')
    BY <1>2, <1>5, FS_RemoveElement
  <2> QED
    BY <1>2, <1>5, <2>1, FS_RemoveElement, FS_CardinalityType
<1>7. ~ (q \in Allowed /\ q \in Admitted)
  BY DEF Allowed, Admitted
<1>8. CASE q \in Allowed \cup Admitted
  <2>1. Outstanding' \in Nat /\ Outstanding = Outstanding' + 1
    BY <1>4, <1>5, <1>6, <1>7, <1>8 DEF Outstanding
  <2>2. Payable(paid, Outstanding', OutstandingAmounts')
    BY <1>5, <2>1, PayableDrop DEF SalesInv
  <2> QED
    BY <1>1, <1>3, <1>4, <1>5, <1>6, <2>2, SalesBounds DEF SalesInv
<1>9. CASE q \notin Allowed \cup Admitted
  <2>1. Outstanding' = Outstanding
    BY <1>4, <1>6, <1>9 DEF Outstanding
  <2>2. OutstandingAmounts' = OutstandingAmounts
    BY <1>2, <1>4, <1>9 DEF OutstandingAmounts, Allowed, Admitted
  <2> QED
    BY <1>1, <1>3, <1>4, <1>5, <1>6, <1>9, <2>1, <2>2 DEF SalesInv
<1> QED
  BY <1>8, <1>9

LEMMA AsksKeeps ==
  ASSUME SalesInv, NEW q \in Requests, NEW amt \in MinAmount .. MaxAmount, Free!PostInvoice(q, amt)
  PROVE  SalesInv'
<1> DEFINE r == [Free!Idle EXCEPT !.at = "volume", !.amount = amt]
<1>1. r \in Free!Request /\ r.at = "volume" /\ r.amount = amt
  <2>1. amt \in Free!Amounts /\ Free!Idle \in Free!Request
    BY SalesBounds DEF Free!Amounts, Free!Request, Free!Idle
  <2>2. r \in Free!Request
    BY <2>1 DEF Free!Request
  <2>3. r.at = "volume" /\ r.amount = amt
    BY <2>1 DEF Free!Request
  <2> QED
    BY <2>2, <2>3
<1>2. request' = [request EXCEPT ![q] = r] /\ UNCHANGED <<open, paid>>
  BY DEF Free!PostInvoice
<1> QED
  BY <1>1, <1>2, RequestDrops

LEMMA FailsKeeps ==
  ASSUME SalesInv, NEW q \in Requests, request' = [request EXCEPT ![q] = Free!Idle],
         UNCHANGED <<open, paid>>
  PROVE  SalesInv'
<1>1. Free!Idle \in Free!Request /\ Free!Idle.at = "idle"
  BY SalesBounds DEF Free!Request, Free!Idle, Free!Amounts
<1> QED
  BY <1>1, RequestDrops

\* A request that reads the month may be one more that is not stopped.
LEMMA ReadsKeeps ==
  ASSUME SalesInv, NEW q \in Requests, Free!ReadsVolume(q)
  PROVE  SalesInv'
<1> DEFINE r == [request[q] EXCEPT !.at = "pending", !.total = paid]
<1>1. /\ request[q] \in Free!Request /\ request[q].at = "volume"
      /\ request[q].amount \in MinAmount .. MaxAmount /\ paid \in Nat
  BY DEF SalesInv, Free!TypeOK, Sized, Free!ReadsVolume
<1>2. /\ r \in Free!Request /\ r.at = "pending" /\ r.total = paid /\ r.amount = request[q].amount
      /\ r.amount \in Nat
  <2>1. r \in Free!Request
    BY <1>1 DEF Free!Request
  <2>2. r.at = "pending" /\ r.total = paid /\ r.amount = request[q].amount
    BY <1>1 DEF Free!Request
  <2> QED
    BY <1>1, <2>1, <2>2, SalesBounds
<1>3. request' = [request EXCEPT ![q] = r] /\ UNCHANGED <<open, paid>>
  BY DEF Free!ReadsVolume
<1>4. Free!TypeOK'
  BY <1>2, <1>3 DEF SalesInv, Free!TypeOK
<1>5. /\ Allowed' = Allowed \ {q}
      /\ Admitted' = IF paid + r.amount <= MonthLimit THEN Admitted \cup {q} ELSE Admitted \ {q}
      /\ request'[q] = r /\ \A p \in Requests \ {q} : request'[p] = request[p]
  BY <1>2, <1>3, OneRequestMoves DEF SalesInv
<1>6. q \notin Allowed /\ q \notin Admitted
  BY <1>1 DEF Allowed, Admitted
<1>7. Sized'
  BY <1>1, <1>2, <1>5 DEF SalesInv, Sized
<1>8. Free!Open' = Free!Open /\ paid' = paid /\ Allowed' = Allowed
  BY <1>3, <1>5, <1>6 DEF Free!Open
<1>9. /\ Outstanding \in Nat /\ OutstandingAmounts \subseteq Nat
      /\ \A S \in {Free!Open, Allowed, Admitted} : IsFiniteSet(S) /\ Cardinality(S) \in Nat
  BY OutstandingTypes DEF SalesInv
<1>10. CASE paid + r.amount <= MonthLimit
  <2>1. Admitted' = Admitted \cup {q} /\ Admitted' \subseteq Requests
    BY <1>5, <1>10 DEF Admitted
  <2>2. Cardinality(Admitted') = Cardinality(Admitted) + 1 /\ Cardinality(Admitted') <= Cardinality(Requests)
    BY <1>6, <1>9, <2>1, FS_AddElement, FS_Subset, LimitsAssumption
  <2>3. Outstanding' \in Nat /\ Outstanding' <= MostOutstanding
    BY <1>8, <1>9, <2>2, SalesBounds DEF Outstanding, SalesInv, MostInvoices, MostOutstanding
  <2>4. r.amount \in OutstandingAmounts'
    BY <1>5, <2>1 DEF OutstandingAmounts
  <2>5. Payable(paid, Outstanding', OutstandingAmounts')
    BY <1>1, <1>2, <1>10, <2>3, <2>4, PayableRead
  <2> QED
    BY <1>4, <1>7, <1>8, <2>5 DEF SalesInv
<1>11. CASE ~ (paid + r.amount <= MonthLimit)
  <2>1. Admitted' = Admitted
    BY <1>5, <1>6, <1>11
  <2>2. Outstanding' = Outstanding /\ OutstandingAmounts' = OutstandingAmounts
    <3>1. \A p \in Allowed \cup Admitted : request'[p] = request[p]
      BY <1>5, <1>6 DEF Allowed, Admitted
    <3>2. {request'[p].amount : p \in Allowed \cup Admitted} = {request[p].amount : p \in Allowed \cup Admitted}
      BY <3>1
    <3> QED
      BY <1>3, <1>8, <2>1, <3>2 DEF Outstanding, OutstandingAmounts
  <2> QED
    BY <1>4, <1>7, <1>8, <2>2 DEF SalesInv
<1> QED
  BY <1>10, <1>11

\* Once it has counted the open invoices, a request passes both limits or ends.
LEMMA CountsKeeps ==
  ASSUME SalesInv, NEW q \in Requests, Free!ReadsPending(q)
  PROVE  SalesInv'
<1> DEFINE r == [request[q] EXCEPT !.at = "allowed", !.pending = Cardinality(Free!Open)]
<1>1. /\ Outstanding \in Nat /\ paid \in Nat /\ OutstandingAmounts \subseteq Nat
      /\ \A S \in {Free!Open, Allowed, Admitted} : IsFiniteSet(S) /\ Cardinality(S) \in Nat
  BY OutstandingTypes DEF SalesInv
<1>2. /\ request[q] \in Free!Request /\ request[q].at = "pending"
      /\ request[q].amount \in MinAmount .. MaxAmount
  BY DEF SalesInv, Free!TypeOK, Sized, Free!ReadsPending
<1>3. r \in Free!Request
  BY <1>1, <1>2 DEF Free!Request
<1>4. /\ r.at = "allowed" /\ r.pending = Cardinality(Free!Open)
      /\ r.amount = request[q].amount /\ r.total = request[q].total
  BY <1>2 DEF Free!Request
<1>5. /\ UNCHANGED <<open, paid>>
      /\ request' = [request EXCEPT ![q] = IF Free!Fits(r) THEN r ELSE Free!Idle]
  BY FreeCardinality DEF Free!ReadsPending
<1> HIDE DEF r
<1>6. CASE ~ Free!Fits(r)
  <2>1. request' = [request EXCEPT ![q] = Free!Idle]
    BY <1>5, <1>6
  <2> QED
    BY <1>5, <2>1, FailsKeeps
<1>7. CASE Free!Fits(r)
  <2>1. request' = [request EXCEPT ![q] = r]
    BY <1>5, <1>7
  <2>2. Cardinality(Free!Open) < MaxPending /\ request[q].total + request[q].amount <= MonthLimit
    BY <1>4, <1>7 DEF Free!Fits
  <2>3. /\ Allowed' = Allowed \cup {q} /\ Admitted' = Admitted \ {q}
        /\ request'[q] = r /\ \A p \in Requests \ {q} : request'[p] = request[p]
    BY <1>3, <1>4, <2>1, OneRequestMoves DEF SalesInv
  <2>4. q \in Admitted /\ q \notin Allowed
    BY <1>2, <2>2 DEF Admitted, Allowed
  <2>5. Free!TypeOK'
    BY <1>3, <1>5, <2>1 DEF SalesInv, Free!TypeOK
  <2>6. Sized'
    BY <1>2, <1>4, <2>3 DEF SalesInv, Sized
  <2>7. Free!Open' = Free!Open /\ paid' = paid
    BY <1>5 DEF Free!Open
  <2>8. /\ Cardinality(Allowed') = Cardinality(Allowed) + 1
        /\ Cardinality(Admitted') = Cardinality(Admitted) - 1
    BY <1>1, <2>3, <2>4, FS_AddElement, FS_RemoveElement
  <2>9. Cardinality(Allowed') <= Cardinality(Requests)
    <3>1. Allowed' \subseteq Requests
      BY DEF Allowed
    <3> QED
      BY <3>1, FS_Subset, LimitsAssumption
  <2>10. Cardinality(Free!Open)' + Cardinality(Allowed)' <= MostInvoices
    BY <1>1, <2>2, <2>7, <2>8, <2>9, SalesBounds DEF MostInvoices
  <2>11. Outstanding' = Outstanding
    BY <1>1, <2>7, <2>8 DEF Outstanding
  <2>12. OutstandingAmounts \subseteq OutstandingAmounts'
    <3>1. \A p \in Allowed \cup Admitted : request'[p].amount = request[p].amount
      BY <1>4, <2>3 DEF Allowed, Admitted
    <3>2. Allowed \cup Admitted \subseteq Allowed' \cup Admitted'
      BY <2>3
    <3> QED
      BY <1>5, <2>7, <3>1, <3>2 DEF OutstandingAmounts
  <2>13. Payable(paid, Outstanding', OutstandingAmounts')
    <3>1. Payable(paid, Outstanding, OutstandingAmounts) /\ paid <= paid
      BY <1>1 DEF SalesInv
    <3>2. Payable(paid, Outstanding, OutstandingAmounts')
      BY <1>1, <2>12, <3>1, PayableMore
    <3> QED
      BY <2>11, <3>2
  <2> QED
    BY <2>5, <2>6, <2>7, <2>10, <2>13 DEF SalesInv
<1> QED
  BY <1>6, <1>7

\* The request's place is taken by its invoice.
LEMMA CreatesKeeps ==
  ASSUME SalesInv, NEW q \in Requests, NEW i \in Invoices, Free!CreatesInvoice(q, i)
  PROVE  SalesInv'
<1>1. /\ Outstanding \in Nat /\ paid \in Nat /\ OutstandingAmounts \subseteq Nat
      /\ \A S \in {Free!Open, Allowed, Admitted} : IsFiniteSet(S) /\ Cardinality(S) \in Nat
  BY OutstandingTypes DEF SalesInv
<1>2. /\ request[q].at = "allowed" /\ open[i] = 0
      /\ open' = [open EXCEPT ![i] = request[q].amount]
      /\ request' = [request EXCEPT ![q] = Free!Idle] /\ paid' = paid
  BY DEF Free!CreatesInvoice
<1>3. request[q].amount \in MinAmount .. MaxAmount
  BY <1>2 DEF SalesInv, Sized
<1>4. Free!Idle \in Free!Request /\ Free!Idle.at = "idle"
  BY SalesBounds DEF Free!Request, Free!Idle, Free!Amounts
<1>5. /\ Allowed' = Allowed \ {q} /\ Admitted' = Admitted \ {q}
      /\ request'[q] = Free!Idle /\ \A p \in Requests \ {q} : request'[p] = request[p]
  BY <1>2, <1>4, OneRequestMoves DEF SalesInv
<1>6. q \in Allowed /\ q \notin Admitted
  BY <1>2 DEF Allowed, Admitted
<1>7. open'[i] = request[q].amount /\ \A j \in Invoices \ {i} : open'[j] = open[j]
  BY <1>2 DEF SalesInv, Free!TypeOK
<1>8. Free!Open' = Free!Open \cup {i} /\ i \notin Free!Open
  BY <1>2, <1>3, <1>7, SalesBounds DEF Free!Open
<1>9. Free!TypeOK'
  BY <1>2, <1>3, <1>4, SalesBounds DEF SalesInv, Free!TypeOK
<1>10. Sized'
  BY <1>4, <1>5 DEF SalesInv, Sized
<1>11. /\ Cardinality(Free!Open') = Cardinality(Free!Open) + 1
       /\ Cardinality(Allowed') = Cardinality(Allowed) - 1
       /\ Cardinality(Admitted') = Cardinality(Admitted)
  <2>1. Admitted' = Admitted
    BY <1>5, <1>6
  <2> QED
    BY <1>1, <1>5, <1>6, <1>8, <2>1, FS_AddElement, FS_RemoveElement
<1>12. /\ Cardinality(Free!Open)' + Cardinality(Allowed)' <= MostInvoices
       /\ Outstanding' = Outstanding
  BY <1>1, <1>11 DEF SalesInv, Outstanding
<1>13. OutstandingAmounts \subseteq OutstandingAmounts'
  <2> SUFFICES ASSUME NEW x \in OutstandingAmounts PROVE x \in OutstandingAmounts'
    OBVIOUS
  <2>1. ASSUME NEW j \in Free!Open, x = open[j] PROVE x \in OutstandingAmounts'
    <3>1. open'[j] = x /\ j \in Free!Open'
      BY <1>7, <1>8, <2>1 DEF Free!Open
    <3> QED
      BY <3>1 DEF OutstandingAmounts
  <2>2. ASSUME NEW p \in Allowed \cup Admitted, x = request[p].amount PROVE x \in OutstandingAmounts'
    <3>1. CASE p = q
      <4>1. open'[i] = x /\ i \in Free!Open'
        BY <1>7, <1>8, <2>2, <3>1
      <4> QED
        BY <4>1 DEF OutstandingAmounts
    <3>2. CASE p # q
      <4>1. request'[p].amount = x /\ p \in Allowed' \cup Admitted'
        BY <1>5, <2>2, <3>2 DEF Allowed, Admitted
      <4> QED
        BY <4>1 DEF OutstandingAmounts
    <3> QED
      BY <3>1, <3>2
  <2> QED
    BY <2>1, <2>2 DEF OutstandingAmounts
<1>14. Payable(paid, Outstanding', OutstandingAmounts')
  <2>1. Payable(paid, Outstanding, OutstandingAmounts) /\ paid <= paid
    BY <1>1 DEF SalesInv
  <2>2. Payable(paid, Outstanding, OutstandingAmounts')
    BY <1>1, <1>13, <2>1, PayableMore
  <2> QED
    BY <1>12, <2>2
<1> QED
  BY <1>2, <1>9, <1>10, <1>12, <1>14 DEF SalesInv

\* An invoice is open no more.
LEMMA InvoiceLeaves ==
  ASSUME SalesInv, NEW i \in Invoices, open[i] # 0, open' = [open EXCEPT ![i] = 0],
         request' = request
  PROVE  /\ Cardinality(Free!Open)' + Cardinality(Allowed)' <= MostInvoices
         /\ Outstanding' \in Nat /\ Outstanding = Outstanding' + 1
         /\ open[i] \in OutstandingAmounts
         /\ \A x \in OutstandingAmounts : x = open[i] \/ x \in OutstandingAmounts'
         /\ open' \in [Invoices -> 0 .. MaxAmount] /\ Sized'
<1>1. \A S \in {Free!Open, Allowed, Admitted} : IsFiniteSet(S) /\ Cardinality(S) \in Nat
  BY OutstandingTypes DEF SalesInv
<1>2. open'[i] = 0 /\ \A j \in Invoices \ {i} : open'[j] = open[j]
  BY DEF SalesInv, Free!TypeOK
<1>3. Free!Open' = Free!Open \ {i} /\ i \in Free!Open
  BY <1>2 DEF Free!Open
<1>4. Cardinality(Free!Open') = Cardinality(Free!Open) - 1 /\ Cardinality(Free!Open') \in Nat
  BY <1>1, <1>3, FS_RemoveElement, FS_CardinalityType
<1>5. Allowed' = Allowed /\ Admitted' = Admitted
  BY DEF Allowed, Admitted
<1>6. /\ Cardinality(Free!Open)' + Cardinality(Allowed)' <= MostInvoices
      /\ Outstanding' \in Nat /\ Outstanding = Outstanding' + 1
  BY <1>1, <1>4, <1>5, SalesBounds DEF SalesInv, Outstanding
<1>7. open[i] \in OutstandingAmounts
  BY <1>3 DEF OutstandingAmounts
<1>8. \A x \in OutstandingAmounts : x = open[i] \/ x \in OutstandingAmounts'
  <2> SUFFICES ASSUME NEW x \in OutstandingAmounts, x # open[i] PROVE x \in OutstandingAmounts'
    OBVIOUS
  <2>1. ASSUME NEW j \in Free!Open, x = open[j] PROVE x \in OutstandingAmounts'
    <3>1. open'[j] = x /\ j \in Free!Open'
      BY <1>2, <1>3, <2>1 DEF Free!Open
    <3> QED
      BY <3>1 DEF OutstandingAmounts
  <2>2. ASSUME NEW p \in Allowed \cup Admitted, x = request[p].amount PROVE x \in OutstandingAmounts'
    BY <1>5, <2>2 DEF OutstandingAmounts
  <2> QED
    BY <2>1, <2>2 DEF OutstandingAmounts
<1>9. open' \in [Invoices -> 0 .. MaxAmount]
  BY SalesBounds DEF SalesInv, Free!TypeOK
<1>10. Sized'
  BY DEF SalesInv, Sized
<1> QED
  BY <1>6, <1>7, <1>8, <1>9, <1>10

LEMMA PaidKeeps ==
  ASSUME SalesInv, NEW i \in Invoices, Free!InvoicePaid(i)
  PROVE  SalesInv'
<1>1. /\ open[i] # 0 /\ open' = [open EXCEPT ![i] = 0] /\ request' = request
      /\ paid' = paid + open[i]
  BY DEF Free!InvoicePaid
<1>2. /\ Cardinality(Free!Open)' + Cardinality(Allowed)' <= MostInvoices
      /\ Outstanding' \in Nat /\ Outstanding = Outstanding' + 1
      /\ open[i] \in OutstandingAmounts
      /\ \A x \in OutstandingAmounts : x = open[i] \/ x \in OutstandingAmounts'
      /\ open' \in [Invoices -> 0 .. MaxAmount] /\ Sized'
  BY <1>1, InvoiceLeaves
<1>3. paid \in Nat /\ OutstandingAmounts \subseteq 0 .. MaxAmount
  BY OutstandingTypes DEF SalesInv
<1>4. Payable(paid', Outstanding', OutstandingAmounts')
  <2>1. Payable(paid, Outstanding' + 1, OutstandingAmounts)
    BY <1>2 DEF SalesInv
  <2> QED
    BY <1>1, <1>2, <1>3, <2>1, PayablePaid
<1>5. Free!TypeOK'
  BY <1>1, <1>2, <1>3 DEF SalesInv, Free!TypeOK
<1> QED
  BY <1>2, <1>4, <1>5 DEF SalesInv

LEMMA ClosesKeeps ==
  ASSUME SalesInv, NEW i \in Invoices, Free!InvoiceCloses(i)
  PROVE  SalesInv'
<1>1. open[i] # 0 /\ open' = [open EXCEPT ![i] = 0] /\ request' = request /\ paid' = paid
  BY DEF Free!InvoiceCloses
<1>2. /\ Cardinality(Free!Open)' + Cardinality(Allowed)' <= MostInvoices
      /\ Outstanding' \in Nat /\ Outstanding = Outstanding' + 1
      /\ open' \in [Invoices -> 0 .. MaxAmount] /\ Sized'
  BY <1>1, InvoiceLeaves
<1>3. paid \in Nat /\ OutstandingAmounts \subseteq Nat
  BY OutstandingTypes DEF SalesInv
<1>4. Payable(paid, Outstanding', OutstandingAmounts')
  <2>1. Payable(paid, Outstanding' + 1, OutstandingAmounts)
    BY <1>2 DEF SalesInv
  <2> QED
    BY <1>2, <1>3, <2>1, PayableDrop
<1>5. Free!TypeOK'
  BY <1>1, <1>2 DEF SalesInv, Free!TypeOK
<1> QED
  BY <1>1, <1>2, <1>4, <1>5 DEF SalesInv

LEMMA MonthKeeps ==
  ASSUME SalesInv, Free!MonthBegins
  PROVE  SalesInv'
<1>1. paid' = 0 /\ UNCHANGED <<open, request>>
  BY DEF Free!MonthBegins
<1>2. /\ Free!Open' = Free!Open /\ Allowed' = Allowed /\ Admitted' = Admitted
      /\ Outstanding' = Outstanding /\ OutstandingAmounts' = OutstandingAmounts
  BY <1>1 DEF Free!Open, Allowed, Admitted, Outstanding, OutstandingAmounts
<1>3. paid \in Nat /\ OutstandingAmounts \subseteq Nat /\ Outstanding \in Nat
  BY OutstandingTypes DEF SalesInv
<1>4. Payable(0, Outstanding, OutstandingAmounts)
  <2>1. Payable(paid, Outstanding, OutstandingAmounts) /\ 0 \in Nat /\ 0 <= paid
    BY <1>3 DEF SalesInv
  <2> QED
    BY <1>3, <2>1, PayableMore
<1>5. Free!TypeOK' /\ Sized'
  BY <1>1 DEF SalesInv, Free!TypeOK, Sized
<1> QED
  BY <1>1, <1>2, <1>4, <1>5 DEF SalesInv

LEMMA SalesStep == SalesInv /\ [Free!Next]_(Free!vars) => SalesInv'
<1> SUFFICES ASSUME SalesInv, [Free!Next]_(Free!vars) PROVE SalesInv'
  OBVIOUS
<1>1. ASSUME NEW q \in Requests, NEW amt \in MinAmount .. MaxAmount, Free!PostInvoice(q, amt)
      PROVE  SalesInv'
  BY <1>1, AsksKeeps
<1>2. ASSUME NEW q \in Requests, Free!ReadsVolume(q) PROVE SalesInv'
  BY <1>2, ReadsKeeps
<1>3. ASSUME NEW q \in Requests, Free!ReadsPending(q) PROVE SalesInv'
  BY <1>3, CountsKeeps
<1>4. ASSUME NEW q \in Requests, Free!RequestFails(q) PROVE SalesInv'
  BY <1>4, FailsKeeps DEF Free!RequestFails
<1>5. ASSUME NEW q \in Requests, NEW i \in Invoices, Free!CreatesInvoice(q, i) PROVE SalesInv'
  BY <1>5, CreatesKeeps
<1>6. ASSUME NEW i \in Invoices, Free!InvoicePaid(i) \/ Free!InvoiceCloses(i) PROVE SalesInv'
  BY <1>6, PaidKeeps, ClosesKeeps
<1>7. CASE Free!MonthBegins
  BY <1>7, MonthKeeps
<1>8. CASE UNCHANGED Free!vars
  <2>1. UNCHANGED <<open, paid, request>>
    BY <1>8 DEF Free!vars
  <2>2. /\ Free!Open' = Free!Open /\ Allowed' = Allowed /\ Admitted' = Admitted
        /\ Outstanding' = Outstanding /\ OutstandingAmounts' = OutstandingAmounts
    BY <2>1 DEF Free!Open, Allowed, Admitted, Outstanding, OutstandingAmounts
  <2>3. Free!TypeOK' /\ Sized'
    BY <2>1 DEF SalesInv, Free!TypeOK, Sized
  <2> QED
    BY <2>1, <2>2, <2>3 DEF SalesInv
<1> QED
  BY <1>1, <1>2, <1>3, <1>4, <1>5, <1>6, <1>7, <1>8 DEF Free!Next

\* The two limits, when all that is outstanding is made and paid.
LEMMA SalesLimits == SalesInv => LimitsHold
<1> SUFFICES ASSUME SalesInv PROVE LimitsHold
  OBVIOUS
<1>1. /\ Outstanding \in Nat /\ paid \in Nat /\ OutstandingAmounts \subseteq Nat
      /\ \A S \in {Free!Open, Allowed, Admitted} : IsFiniteSet(S) /\ Cardinality(S) \in Nat
  BY OutstandingTypes DEF SalesInv
<1>2. Cardinality(Free!Open) <= MaxPending + Cardinality(Requests) - 1
  BY <1>1, SalesBounds DEF SalesInv, MostInvoices
<1>3. paid <= MostPaid
  <2>1. CASE paid + Outstanding * MaxAmount <= MostPaid
    <3>1. Outstanding * MaxAmount \in Nat
      BY <1>1, SalesBounds
    <3> QED
      BY <1>1, <2>1, <3>1, SalesBounds
  <2>2. ASSUME NEW x \in OutstandingAmounts,
               paid + x + (Outstanding - 1) * MaxAmount <= MostPaid
        PROVE  paid <= MostPaid
    <3>1. Outstanding > 0
      <4>1. CASE \E i \in Free!Open : TRUE
        <5>1. Cardinality(Free!Open) # 0
          BY <1>1, <4>1, FS_EmptySet
        <5> QED
          BY <1>1, <5>1 DEF Outstanding
      <4>2. CASE \E q \in Allowed : TRUE
        <5>1. Cardinality(Allowed) # 0
          BY <1>1, <4>2, FS_EmptySet
        <5> QED
          BY <1>1, <5>1 DEF Outstanding
      <4>3. CASE \E q \in Admitted : TRUE
        <5>1. Cardinality(Admitted) # 0
          BY <1>1, <4>3, FS_EmptySet
        <5> QED
          BY <1>1, <5>1 DEF Outstanding
      <4> QED
        BY <2>2, <4>1, <4>2, <4>3 DEF OutstandingAmounts
    <3>2. (Outstanding - 1) * MaxAmount \in Nat /\ x \in Nat
      BY <1>1, <3>1, SalesBounds
    <3> QED
      BY <1>1, <2>2, <3>2, SalesBounds
  <2> QED
    BY <2>1, <2>2 DEF SalesInv, Payable
<1>4. MostPaid = MonthLimit + (MaxPending + 2 * Cardinality(Requests) - 2) * MaxAmount
  <2>1. MostOutstanding - 1 = MaxPending + 2 * Cardinality(Requests) - 2
    BY SalesBounds DEF MostOutstanding
  <2> QED
    BY <2>1 DEF MostPaid
<1>5. paid <= MonthLimit + (MaxPending + 2 * Cardinality(Requests) - 2) * MaxAmount
  BY <1>3, <1>4
<1> QED
  BY <1>2, <1>5, FreeCardinality DEF LimitsHold, Free!LimitsHold

THEOREM LimitsInvariant == Free!Spec => []SalesInv
BY SalesInit, SalesStep, PTL DEF Free!Spec

\* However many requests overlap, and however the month turns among them, a client of
\* the free plan has no more invoices open, and is paid no more in a month, than the
\* limits and the requests under way explain.
THEOREM FreePlanLimits == Free!Spec => []LimitsHold
BY LimitsInvariant, SalesLimits, PTL
=============================================================================
