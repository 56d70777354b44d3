------------------------------ MODULE Billing -------------------------------
(***************************************************************************)
(* The subscription of one client: invoices for it, the match worker that  *)
(* grants a month when one is paid, the scheduler that ends what is        *)
(* overdue, and the changes the client and the admin make.                 *)
(*                                                                         *)
(* Time is counted in months.  There is one paid plan and one free plan,   *)
(* whose period ends in Never.  All but the admin's change are series of   *)
(* reads and writes outside of a transaction, with anything in between.    *)
(* How an invoice comes to be paid is the business of Matching.            *)
(***************************************************************************)
EXTENDS Integers, Sequences, FiniteSets

CONSTANTS
  Invoices, \* invoices of the client for the subscription
  Requests, \* requests of the client in progress at once
  MaxTime,  \* bound: months
  MaxRows,  \* bound: rows of client_subscriptions
  MaxFaults \* bound: failures in the middle of a series

ASSUME BillingAssumption ==
  /\ MaxTime \in Nat /\ MaxRows \in Nat \ {0} /\ MaxFaults \in Nat
  /\ IsFiniteSet(Invoices) /\ IsFiniteSet(Requests)

VARIABLES
  clock,    \* the present month
  rows,     \* subscriptions of the client, in the order of createdAt
  invoice,  \* invoices, and the grant that follows the payment of each
  request,  \* requests of the client
  sweep,    \* the scheduler, within its part on overdue subscriptions
  channels, \* the client's own channels are active
  faults,   \* failures so far
  owed,     \* the month until which the client has paid (history)
  crossed   \* a series failed, or two of them overlapped (history)

vars == <<clock, rows, invoice, request, sweep, channels, faults, owed, crossed>>

\* 2099, and the year the admin grants.
Never == 1000
Year == 12

Plans == {"free", "subscription"}

Subscription == [plan: Plans, status: {"active", "expired", "cancelled"}, end: Nat]

\* A grant knows the time of the payment, then what it starts from.
Invoice == [at: {"none", "open", "closed"}]
  \cup [at: {"paid"}, now: Nat]
  \cup [at: {"expiring", "granting"}, base: Nat]

Sweep == [at: {"rest"}] \cup [at: {"expiring"}, overdue: SUBSET (1..MaxRows)]
  \cup [at: {"freeing", "stopping"}, left: Nat]

TypeOK ==
  /\ clock \in Nat /\ rows \in Seq(Subscription)
  /\ invoice \in [Invoices -> Invoice]
  /\ request \in [Requests -> {"none", "downgrading", "invoicing"}]
  /\ sweep \in Sweep
  /\ channels \in BOOLEAN /\ crossed \in BOOLEAN
  /\ faults \in Nat /\ owed \in Nat

Row(plan, end) == [plan |-> plan, status |-> "active", end |-> end]

At(at) == [at |-> at]

\* Registration has granted the free plan.
Init ==
  /\ clock = 0 /\ rows = <<Row("free", Never)>>
  /\ invoice = [i \in Invoices |-> At("none")]
  /\ request = [r \in Requests |-> "none"]
  /\ sweep = At("rest") /\ channels = FALSE
  /\ faults = 0 /\ owed = 0 /\ crossed = FALSE

-----------------------------------------------------------------------------
(* The table of subscriptions.                                             *)

Active(s) == s.status = "active"

\* updateMany of the active ones
Ended(status) == [k \in DOMAIN rows |-> IF Active(rows[k]) THEN [rows[k] EXCEPT !.status = status]
                                                       ELSE rows[k]]

ActiveRows == {k \in DOMAIN rows : Active(rows[k])}

Room == Len(rows) < MaxRows

MaxOf(a, b) == IF a > b THEN a ELSE b

\* What is in the middle of a series that ends or makes subscriptions.
Granting == {i \in Invoices : invoice[i].at \in {"paid", "expiring", "granting"}}

Downgrading == {r \in Requests : request[r] = "downgrading"}

Busy == Cardinality(Granting) + Cardinality(Downgrading) + (IF sweep.at = "rest" THEN 0 ELSE 1)

-----------------------------------------------------------------------------
(* The client.                                                             *)

\* POST /subscriptions/upgrade to the free plan: what is active ends, ...
Downgrade(r) ==
  /\ request[r] = "none"
  /\ request' = [request EXCEPT ![r] = "downgrading"]
  /\ rows' = Ended("expired")
  /\ owed' = 0
  /\ UNCHANGED <<clock, invoice, sweep, channels, faults>>

\* ... and the free plan begins.
FreePlan(r) ==
  /\ request[r] = "downgrading" /\ Room
  /\ rows' = Append(rows, Row("free", Never))
  /\ request' = [request EXCEPT ![r] = "none"]
  /\ UNCHANGED <<clock, invoice, sweep, channels, faults, owed>>

\* To the paid plan: an open invoice is returned, otherwise one is made.
AsksForInvoice(r) ==
  /\ request[r] = "none"
  /\ \A i \in Invoices : invoice[i].at # "open"
  /\ request' = [request EXCEPT ![r] = "invoicing"]
  /\ UNCHANGED <<clock, rows, invoice, sweep, channels, faults, owed>>

MakesInvoice(r) ==
  /\ request[r] = "invoicing"
  /\ \E i \in Invoices :
       /\ invoice[i] = At("none")
       /\ invoice' = [invoice EXCEPT ![i] = At("open")]
  /\ request' = [request EXCEPT ![r] = "none"]
  /\ UNCHANGED <<clock, rows, sweep, channels, faults, owed>>

\* POST /channels: the plan is that of any one active subscription.
OpensChannel ==
  /\ ~channels
  /\ \E k \in ActiveRows : rows[k].plan = "subscription" /\ rows[k].end > clock
  /\ channels' = TRUE
  /\ UNCHANGED <<clock, rows, invoice, request, sweep, faults, owed>>

RequestFails(r) ==
  /\ request[r] # "none"
  /\ faults < MaxFaults /\ faults' = faults + 1
  /\ request' = [request EXCEPT ![r] = "none"]
  /\ UNCHANGED <<clock, rows, invoice, sweep, channels, owed>>

-----------------------------------------------------------------------------
(* The match worker.                                                       *)

InvoicePaid(i) ==
  /\ invoice[i] = At("open")
  /\ invoice' = [invoice EXCEPT ![i] = [at |-> "paid", now |-> clock]]
  /\ owed' = MaxOf(owed, clock) + 1
  /\ UNCHANGED <<clock, rows, request, sweep, channels, faults>>

InvoiceExpires(i) ==
  /\ invoice[i] = At("open")
  /\ invoice' = [invoice EXCEPT ![i] = At("closed")]
  /\ UNCHANGED <<clock, rows, request, sweep, channels, faults, owed>>

\* The active subscription made last.
Existing == CHOOSE k \in ActiveRows : \A l \in ActiveRows : l <= k

\* Mutant: the month begins today.
Base_Now(now) == now

\* A month is added to a paid period that is not over.
Base(now) ==
  IF ActiveRows # {} /\ rows[Existing].plan = "subscription" /\ rows[Existing].end > now
  THEN rows[Existing].end ELSE now

ReadsExisting(i) ==
  /\ invoice[i].at = "paid"
  /\ invoice' = [invoice EXCEPT ![i] = [at |-> "expiring", base |-> Base(invoice[i].now)]]
  /\ UNCHANGED <<clock, rows, request, sweep, channels, faults, owed>>

EndsExisting(i) ==
  /\ invoice[i].at = "expiring"
  /\ rows' = Ended("expired")
  /\ invoice' = [invoice EXCEPT ![i].at = "granting"]
  /\ UNCHANGED <<clock, request, sweep, channels, faults, owed>>

GrantsMonth(i) ==
  /\ invoice[i].at = "granting" /\ Room
  /\ rows' = Append(rows, Row("subscription", invoice[i].base + 1))
  /\ invoice' = [invoice EXCEPT ![i] = At("closed")]
  /\ UNCHANGED <<clock, request, sweep, channels, faults, owed>>

\* The error is logged, or the worker dies: the mutation is matched, and the
\* grant is not tried again.
GrantFails(i) ==
  /\ i \in Granting
  /\ faults < MaxFaults /\ faults' = faults + 1
  /\ invoice' = [invoice EXCEPT ![i] = At("closed")]
  /\ UNCHANGED <<clock, rows, request, sweep, channels, owed>>

-----------------------------------------------------------------------------
(* The scheduler.                                                          *)

\* Mutant: a subscription is overdue a month after its end.
Overdue_Late == {k \in ActiveRows : rows[k].plan = "subscription" /\ rows[k].end < clock}

Overdue == {k \in ActiveRows : rows[k].plan = "subscription" /\ rows[k].end <= clock}

SweepReads ==
  /\ sweep = At("rest") /\ Overdue # {}
  /\ sweep' = [at |-> "expiring", overdue |-> Overdue]
  /\ UNCHANGED <<clock, rows, invoice, request, channels, faults, owed>>

SweepExpires ==
  /\ sweep.at = "expiring"
  /\ rows' = [k \in DOMAIN rows |-> IF k \in sweep.overdue THEN [rows[k] EXCEPT !.status = "expired"]
                                                           ELSE rows[k]]
  /\ sweep' = [at |-> "freeing", left |-> Cardinality(sweep.overdue)]
  /\ UNCHANGED <<clock, invoice, request, channels, faults, owed>>

\* For each of them the free plan begins, ...
SweepFrees ==
  /\ sweep.at = "freeing" /\ Room
  /\ rows' = Append(rows, Row("free", Never))
  /\ sweep' = [sweep EXCEPT !.at = "stopping"]
  /\ UNCHANGED <<clock, invoice, request, channels, faults, owed>>

\* ... and the client's own channels stop.
SweepStops ==
  /\ sweep.at = "stopping"
  /\ channels' = FALSE
  /\ sweep' = IF sweep.left = 1 THEN At("rest") ELSE [at |-> "freeing", left |-> sweep.left - 1]
  /\ UNCHANGED <<clock, rows, invoice, request, faults, owed>>

SweepFails ==
  /\ sweep.at # "rest"
  /\ faults < MaxFaults /\ faults' = faults + 1
  /\ sweep' = At("rest")
  /\ UNCHANGED <<clock, rows, invoice, request, channels, owed>>

-----------------------------------------------------------------------------
\* PATCH /admin/clients/:id/plan, one transaction: a year of either plan.
AdminSetsPlan ==
  /\ Room
  /\ \E p \in Plans :
       /\ rows' = Append(Ended("cancelled"), Row(p, clock + Year))
       /\ owed' = IF p = "subscription" THEN clock + Year ELSE 0
  /\ crossed' = (crossed \/ Busy > 0)
  /\ UNCHANGED <<clock, invoice, request, sweep, channels, faults>>

Tick ==
  /\ clock < MaxTime
  /\ clock' = clock + 1
  /\ UNCHANGED <<rows, invoice, request, sweep, channels, faults, owed>>

\* A failure, or two series at once.
Cross == crossed' = (crossed \/ faults' # faults \/ Busy' > 1)

SweepStep == SweepReads \/ SweepExpires \/ SweepFrees \/ SweepStops

Grant(i) == ReadsExisting(i) \/ EndsExisting(i) \/ GrantsMonth(i)

Series ==
  /\ \/ \E r \in Requests :
          Downgrade(r) \/ FreePlan(r) \/ AsksForInvoice(r) \/ MakesInvoice(r) \/ RequestFails(r)
     \/ OpensChannel
     \/ \E i \in Invoices : InvoicePaid(i) \/ InvoiceExpires(i) \/ Grant(i) \/ GrantFails(i)
     \/ SweepStep \/ SweepFails
     \/ Tick
  /\ Cross

Next == Series \/ AdminSetsPlan

\* The scheduler polls.
Spec == Init /\ [][Next]_vars /\ WF_vars(SweepStep /\ Cross)

-----------------------------------------------------------------------------
\* Paid months add up: what the client has paid for and not given up is granted,
\* to the month, whatever has been paid, has ended, or was granted by the admin
\* before.  Only a failure or two series at once can take a month.
PaidTimeIsGranted ==
  crossed \/ Granting # {} \/ owed <= clock
    \/ \E k \in ActiveRows : rows[k].plan = "subscription" /\ rows[k].end = owed

\* Of a client's subscriptions one is active, unless a series failed or two
\* overlapped: requests read any one of them.
OnePlan == crossed \/ Cardinality(ActiveRows) <= 1

\* The active row is one, and says what was paid.
SubscriptionAgrees == PaidTimeIsGranted /\ OnePlan

\* An overdue subscription ends, also when the scheduler fails on the way.
OverdueEnds ==
  \A k \in 1..MaxRows :
    (k \in ActiveRows /\ rows[k].plan = "subscription" /\ rows[k].end <= clock)
      ~> (k \notin ActiveRows)
=============================================================================
