----------------------------- MODULE Settlement -----------------------------
(***************************************************************************)
(* How the credit of a paid invoice reaches the available balance.         *)
(*                                                                         *)
(* The payment transaction writes one balance_ledger row: credit_available *)
(* for a Disbursement Pro client, otherwise credit_pending, due two days   *)
(* later.  The settlement worker selects the due rows and settles them one *)
(* transaction at a time; the correction an admin runs (endpoint or        *)
(* script) selects the unsettled rows of Disbursement Pro clients and      *)
(* turns each into credit_available.  Both select first and write later,   *)
(* and neither makes a write depend on the row still being unsettled.      *)
(*                                                                         *)
(* A balance is kept as a formal sum: pendingBal[e] and availableBal[e]    *)
(* say how many times the amount of credit e is counted in the pending and *)
(* in the available balance of its owner.  All the updates are atomic      *)
(* increments by that amount, so this is exactly what the row holds.       *)
(***************************************************************************)
EXTENDS Integers, FiniteSets

CONSTANTS
  Clients,      \* merchants
  Credits,      \* credits of paid invoices
  Owner,        \* the client of each credit
  Workers,      \* running settlement workers (one per scraper process)
  Corrections   \* correction requests and script runs

ASSUME SettlementAssumption == Owner \in [Credits -> Clients]

VARIABLES
  pro,          \* the client is disbursement_user with an active subscription
  type,         \* type of the ledger row of the credit
  due,          \* available_at has passed
  settled,      \* settled_at is not null
  audit,        \* credit_available rows the worker inserted for the credit
  pendingBal,   \* share of the credit in balance_pending
  availableBal, \* share of the credit in balance_available
  batch,        \* rows a worker has selected and not yet handled
  proClients,   \* Disbursement Pro clients a correction has read
  wrongEntries, \* rows a correction has selected and not yet handled
  contended     \* rows ever selected while another selection held them (history)

ledger == <<type, due, settled, audit>>
balances == <<pendingBal, availableBal>>
correction == <<proClients, wrongEntries>>
selections == <<batch, correction, contended>>
vars == <<pro, ledger, balances, selections>>

RowTypes == {"none", "credit_pending", "credit_available"}

Init ==
  /\ pro \in [Clients -> BOOLEAN]
  /\ type = [e \in Credits |-> "none"]
  /\ due = [e \in Credits |-> FALSE]
  /\ settled = [e \in Credits |-> FALSE]
  /\ audit = [e \in Credits |-> 0]
  /\ pendingBal = [e \in Credits |-> 0]
  /\ availableBal = [e \in Credits |-> 0]
  /\ batch = [w \in Workers |-> {}]
  /\ proClients = [r \in Corrections |-> {}]
  /\ wrongEntries = [r \in Corrections |-> {}]
  /\ contended = {}

-----------------------------------------------------------------------------
\* The payment transaction: the ledger row and the balance, in one commit.
CreditInstant(e) ==
  /\ type[e] = "none"
  /\ pro[Owner[e]]
  /\ type' = [type EXCEPT ![e] = "credit_available"]
  /\ settled' = [settled EXCEPT ![e] = TRUE]
  /\ availableBal' = [availableBal EXCEPT ![e] = availableBal[e] + 1]
  /\ UNCHANGED <<pro, due, audit, pendingBal, selections>>

CreditPending(e) ==
  /\ type[e] = "none"
  /\ ~pro[Owner[e]]
  /\ type' = [type EXCEPT ![e] = "credit_pending"]
  /\ pendingBal' = [pendingBal EXCEPT ![e] = pendingBal[e] + 1]
  /\ UNCHANGED <<pro, due, settled, audit, availableBal, selections>>

\* Two days pass.
BecomeDue(e) ==
  /\ type[e] = "credit_pending"
  /\ ~due[e]
  /\ due' = [due EXCEPT ![e] = TRUE]
  /\ UNCHANGED <<pro, type, settled, audit, balances, selections>>

\* A subscription starts or ends, or an admin changes the role.
PlanChanges(c) ==
  /\ pro' = [pro EXCEPT ![c] = ~pro[c]]
  /\ UNCHANGED <<ledger, balances, selections>>

\* The rows some worker or correction has selected and not yet handled.
Held == UNION ({batch[w] : w \in Workers} \cup {wrongEntries[r] : r \in Corrections})

-----------------------------------------------------------------------------
(* Settlement worker.                                                      *)

\* Mutant: the rows of Disbursement Pro clients are left to the correction.
DueEntries_RegularOnly ==
  {e \in Credits : type[e] = "credit_pending" /\ ~settled[e] /\ due[e] /\ ~pro[Owner[e]]}

DueEntries == {e \in Credits : type[e] = "credit_pending" /\ ~settled[e] /\ due[e]}

Tick(w) ==
  /\ batch[w] = {}
  /\ DueEntries # {}
  /\ batch' = [batch EXCEPT ![w] = DueEntries]
  /\ contended' = contended \cup (DueEntries \cap Held)
  /\ UNCHANGED <<pro, ledger, balances, correction>>

\* Mutant: available is incremented, pending is not decremented.
MovePendingToAvailable_OneSided(e) ==
  /\ availableBal' = [availableBal EXCEPT ![e] = availableBal[e] + 1]
  /\ UNCHANGED pendingBal

\* Mutant: pending is decremented, available is not incremented.
MovePendingToAvailable_Lost(e) ==
  /\ pendingBal' = [pendingBal EXCEPT ![e] = pendingBal[e] - 1]
  /\ UNCHANGED availableBal

\* balance_pending - amount, balance_available + amount.
MovePendingToAvailable(e) ==
  /\ pendingBal' = [pendingBal EXCEPT ![e] = pendingBal[e] - 1]
  /\ availableBal' = [availableBal EXCEPT ![e] = availableBal[e] + 1]

\* One interactive transaction.  The UPDATE of the row is conditional, but the
\* number of rows it changed is not looked at.
SettleEntry(w, e) ==
  /\ e \in batch[w]
  /\ settled' = [settled EXCEPT ![e] = TRUE]
  /\ audit' = [audit EXCEPT ![e] = audit[e] + 1]
  /\ MovePendingToAvailable(e)
  /\ batch' = [batch EXCEPT ![w] = batch[w] \ {e}]
  /\ UNCHANGED <<pro, type, due, correction, contended>>

\* The transaction is rolled back; the error is logged and the next row taken.
EntryFails(w, e) ==
  /\ e \in batch[w]
  /\ batch' = [batch EXCEPT ![w] = batch[w] \ {e}]
  /\ UNCHANGED <<pro, ledger, balances, correction, contended>>

\* The scraper process dies and starts again.
WorkerRestarts(w) ==
  /\ batch[w] # {}
  /\ batch' = [batch EXCEPT ![w] = {}]
  /\ UNCHANGED <<pro, ledger, balances, correction, contended>>

-----------------------------------------------------------------------------
(* Correction of Disbursement Pro credits that went to pending.            *)

ReadProClients(r) ==
  /\ proClients[r] = {} /\ wrongEntries[r] = {}
  /\ \E c \in Clients : pro[c]
  /\ proClients' = [proClients EXCEPT ![r] = {c \in Clients : pro[c]}]
  /\ UNCHANGED <<pro, ledger, balances, batch, wrongEntries, contended>>

WrongEntries(r) ==
  {e \in Credits : Owner[e] \in proClients[r] /\ type[e] = "credit_pending" /\ ~settled[e]}

CorrectionRead(r) ==
  /\ proClients[r] # {}
  /\ wrongEntries' = [wrongEntries EXCEPT ![r] = WrongEntries(r)]
  /\ contended' = contended \cup (WrongEntries(r) \cap Held)
  /\ proClients' = [proClients EXCEPT ![r] = {}]
  /\ UNCHANGED <<pro, ledger, balances, batch>>

\* Mutant: the correction leaves the row credit_pending.
CorrectedType_Unchanged == "credit_pending"

\* The type a corrected row gets.
CorrectedType == "credit_available"

CorrectEntry(r, e) ==
  /\ e \in wrongEntries[r]
  /\ type' = [type EXCEPT ![e] = CorrectedType]
  /\ settled' = [settled EXCEPT ![e] = TRUE]
  /\ due' = [due EXCEPT ![e] = TRUE]
  /\ MovePendingToAvailable(e)
  /\ wrongEntries' = [wrongEntries EXCEPT ![r] = wrongEntries[r] \ {e}]
  /\ UNCHANGED <<pro, audit, batch, proClients, contended>>

\* An update fails: the request ends, the rows it has not reached stay.
CorrectionAborts(r) ==
  /\ wrongEntries[r] # {}
  /\ wrongEntries' = [wrongEntries EXCEPT ![r] = {}]
  /\ UNCHANGED <<pro, ledger, balances, batch, proClients, contended>>

-----------------------------------------------------------------------------
Next ==
  \/ \E e \in Credits : CreditInstant(e) \/ CreditPending(e) \/ BecomeDue(e)
  \/ \E c \in Clients : PlanChanges(c)
  \/ \E w \in Workers :
       \/ Tick(w) \/ WorkerRestarts(w)
       \/ \E e \in Credits : SettleEntry(w, e) \/ EntryFails(w, e)
  \/ \E r \in Corrections :
       \/ ReadProClients(r) \/ CorrectionRead(r) \/ CorrectionAborts(r)
       \/ \E e \in Credits : CorrectEntry(r, e)

Spec == Init /\ [][Next]_vars

\* The worker reschedules itself after every tick, whatever happened in it, and
\* a transaction that is retried again and again does not fail for ever.
FairSpec ==
  /\ Spec
  /\ \A w \in Workers :
       /\ WF_vars(Tick(w))
       /\ \A e \in Credits : SF_vars(SettleEntry(w, e))

-----------------------------------------------------------------------------
(* Properties.                                                             *)

TypeOK ==
  /\ pro \in [Clients -> BOOLEAN]
  /\ type \in [Credits -> RowTypes]
  /\ due \in [Credits -> BOOLEAN]
  /\ settled \in [Credits -> BOOLEAN]
  /\ audit \in [Credits -> Nat]
  /\ pendingBal \in [Credits -> Int]
  /\ availableBal \in [Credits -> Int]
  /\ batch \in [Workers -> SUBSET Credits]
  /\ proClients \in [Corrections -> SUBSET Clients]
  /\ wrongEntries \in [Corrections -> SUBSET Credits]
  /\ contended \subseteq Credits

\* The ledger is the source of truth for the available balance: it counts every
\* credit as many times as the ledger has credit_available rows for it, even when
\* workers and a correction move the same row.  (Two corrections that overlap turn
\* one row into one credit_available row, and move its amount twice.)
AvailableIsLedger ==
  (\A r, s \in Corrections : r = s) =>
    \A e \in Credits :
      availableBal[e] = audit[e] + (IF type[e] = "credit_available" THEN 1 ELSE 0)

\* No interleaving makes or loses money: pending and available together hold
\* every credit exactly once.
BalancesConserve ==
  \A e \in Credits :
    pendingBal[e] + availableBal[e] = (IF type[e] = "none" THEN 0 ELSE 1)

\* The pending balance is what the ledger says is still to settle, for every row
\* that never was in two selections at once.  Only a second worker or a correction
\* that overlaps the worker can break it.
PendingIsUnsettled ==
  \A e \in Credits \ contended :
    pendingBal[e] = (IF type[e] = "credit_pending" /\ ~settled[e] THEN 1 ELSE 0)

\* Each balance agrees with the ledger, and nothing is lost between the two.
BalancesExplained == BalancesConserve /\ AvailableIsLedger /\ PendingIsUnsettled

\* Due money is released, through failed transactions and restarts.
DueIsSettled ==
  \A e \in Credits : (type[e] = "credit_pending" /\ due[e]) ~> settled[e]

\* The promise to the merchant.
Place ==
  [e \in Credits |->
     IF availableBal[e] > 0 THEN "released"
     ELSE IF pendingBal[e] > 0 THEN "held" ELSE "nowhere"]

Promise == INSTANCE CreditLifecycle WITH place <- Place

PromiseSpec == Promise!Spec

-----------------------------------------------------------------------------
(* What the sources say and the program does not do.                       *)

\* The flow of the ledger takes out of pending only what is not yet settled.
PendingNeverOverdrawn == \A e \in Credits : pendingBal[e] >= 0
=============================================================================
