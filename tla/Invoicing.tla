----------------------------- MODULE Invoicing ------------------------------
(***************************************************************************)
(* The invoices one client of the free plan makes, and the two limits of   *)
(* that plan: what is paid in a calendar month, and how many invoices are  *)
(* open.                                                                   *)
(*                                                                         *)
(* A request reads both before it makes its invoice, and requests overlap. *)
(* The limit on what is paid is looked at when an invoice is made, not     *)
(* when it is paid.  Amounts are counted in units; numbers, tokens, links, *)
(* customers and the choice of a channel are left out.                     *)
(***************************************************************************)
EXTENDS Integers, FiniteSets

CONSTANTS
  Invoices,   \* invoices that exist at once
  Requests,   \* requests that can be in progress at once
  MinAmount,  \* INVOICE.MIN_AMOUNT
  MaxAmount,  \* INVOICE.FREE_TIER_MAX_AMOUNT
  MonthLimit, \* INVOICE.FREE_TIER_MONTHLY_LIMIT
  MaxPending  \* INVOICE.FREE_TIER_MAX_PENDING

VARIABLES
  open,    \* amounts of the pending and confirmed invoices, 0 for none
  paid,    \* sum of the amounts paid this month
  request  \* requests to make an invoice

vars == <<open, paid, request>>

Amounts == 0 .. MaxAmount + 1

Idle == [at |-> "idle", amount |-> 0, total |-> 0, pending |-> 0]

Request == [at: {"idle", "volume", "pending", "allowed"}, amount: Amounts, total: Nat, pending: Nat]

TypeOK ==
  /\ open \in [Invoices -> 0 .. MaxAmount] /\ paid \in Nat
  /\ request \in [Requests -> Request]

Init ==
  /\ open = [i \in Invoices |-> 0] /\ paid = 0
  /\ request = [q \in Requests |-> Idle]

-----------------------------------------------------------------------------
Open == {i \in Invoices : open[i] # 0}

\* The amount is checked first, against the limits of the plan.
PostInvoice(q, a) ==
  /\ request[q] = Idle
  /\ MinAmount <= a /\ a <= MaxAmount
  /\ request' = [request EXCEPT ![q] = [Idle EXCEPT !.at = "volume", !.amount = a]]
  /\ UNCHANGED <<open, paid>>

\* Two queries sent together: the sum of the month is read, ...
ReadsVolume(q) ==
  /\ request[q].at = "volume"
  /\ request' = [request EXCEPT ![q].at = "pending", ![q].total = paid]
  /\ UNCHANGED <<open, paid>>

\* Mutant: the invoice itself is forgotten.
Fits_Total(r) == r.total <= MonthLimit /\ r.pending < MaxPending

Fits(r) == r.total + r.amount <= MonthLimit /\ r.pending < MaxPending

\* ... and the open invoices are counted; then the limits are applied.
ReadsPending(q) ==
  /\ request[q].at = "pending"
  /\ LET r == [request[q] EXCEPT !.at = "allowed", !.pending = Cardinality(Open)]
     IN  request' = [request EXCEPT ![q] = IF Fits(r) THEN r ELSE Idle]
  /\ UNCHANGED <<open, paid>>

CreatesInvoice(q, i) ==
  /\ request[q].at = "allowed" /\ open[i] = 0
  /\ open' = [open EXCEPT ![i] = request[q].amount]
  /\ request' = [request EXCEPT ![q] = Idle]
  /\ UNCHANGED paid

RequestFails(q) ==
  /\ request[q] # Idle
  /\ request' = [request EXCEPT ![q] = Idle]
  /\ UNCHANGED <<open, paid>>

InvoicePaid(i) ==
  /\ open[i] # 0
  /\ paid' = paid + open[i]
  /\ open' = [open EXCEPT ![i] = 0]
  /\ UNCHANGED request

\* Cancelled by the client, or expired.
InvoiceCloses(i) ==
  /\ open[i] # 0
  /\ open' = [open EXCEPT ![i] = 0]
  /\ UNCHANGED <<paid, request>>

MonthBegins ==
  /\ paid' = 0
  /\ UNCHANGED <<open, request>>

Next ==
  \/ \E q \in Requests :
       \/ \E a \in MinAmount .. MaxAmount : PostInvoice(q, a)
       \/ ReadsVolume(q) \/ ReadsPending(q) \/ RequestFails(q)
       \/ \E i \in Invoices : CreatesInvoice(q, i)
  \/ \E i \in Invoices : InvoicePaid(i) \/ InvoiceCloses(i)
  \/ MonthBegins

Spec == Init /\ [][Next]_vars

-----------------------------------------------------------------------------
\* How far the limits hold.  Each request that overlaps another can open one
\* invoice too many; and each can have read the month's sum when it was still
\* small, so that what was open then, and what the others had read, is paid
\* beyond the limit.  That much, and no more.
LimitsHold ==
  /\ Cardinality(Open) <= MaxPending + Cardinality(Requests) - 1
  /\ paid <= MonthLimit + (MaxPending + 2 * Cardinality(Requests) - 2) * MaxAmount
=============================================================================
