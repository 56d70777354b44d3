------------------------------ MODULE Matching ------------------------------
(***************************************************************************)
(* How a bank mutation becomes a payment.                                  *)
(*                                                                         *)
(* The scraper records the mutations it finds on a payment channel and     *)
(* pushes one job per mutation on the BullMQ queue "match".  A match       *)
(* worker looks for an open invoice of that channel and amount, and in one *)
(* database transaction marks the mutation matched and the invoice paid;   *)
(* then it announces the payment.  Meanwhile customers select a channel    *)
(* and confirm, merchants cancel, the scheduler expires, and an admin      *)
(* matches by hand.  Every API handler reads its rows first and writes     *)
(* them later, by primary key and without a condition on what it read: a   *)
(* handler between its read and its write is a record in "calls".          *)
(***************************************************************************)
EXTENDS Naturals, Sequences, FiniteSets

CONSTANTS
  NumInvoices,     \* invoices 1..NumInvoices, numbered by createdAt
  SubInvoices,     \* the invoices whose number starts with SUB-
  Mutations,       \* bank mutations that may ever be scraped
  Channels,        \* payment channels
  Charges,         \* amounts to pay (amountUnique)
  None,            \* null
  MaxAttempts,     \* MATCH.MAX_ATTEMPTS
  JobAttempts,     \* "attempts" of the match queue
  MaxStalledCount, \* how often BullMQ restarts a stalled job before it fails it
  Concurrency,     \* match jobs that run at the same time
  MaxCalls,        \* bound: API calls between their read and their write
  EnqueueFaults,   \* TRUE: matchQueue.add may fail after the row is written
  QueryFaults,     \* TRUE: a query of the match worker may fail
  PublishFaults,   \* TRUE: the worker may fail after its transaction commits
  Stalls,          \* TRUE: the process may die in a job
  AdminMatches     \* TRUE: an admin matches mutations by hand

Invoices == 1..NumInvoices

ASSUME MatchingAssumption ==
  /\ NumInvoices \in Nat
  /\ SubInvoices \subseteq Invoices
  /\ MaxAttempts \in Nat \ {0} /\ JobAttempts \in Nat \ {0}
  /\ MaxStalledCount \in Nat /\ Concurrency \in Nat /\ MaxCalls \in Nat
  /\ {EnqueueFaults, QueryFaults, PublishFaults, Stalls, AdminMatches} \subseteq BOOLEAN
  /\ None \notin Nat \cup Channels \cup Charges

VARIABLES
  invoice,   \* row of each invoice; "open" is expiredAt > now
  tx,        \* row of each mutation in "transactions"
  job,       \* match job of each mutation, with the invoice its run has read
  payments,  \* committed payments of each mutation, in order (history)
  webhooks,  \* "invoice.paid" webhook jobs pushed by each mutation's job
  activated, \* SUB- invoices whose subscription each mutation's job created
  calls      \* API handlers between their read and their write

vars == <<invoice, tx, job, payments, webhooks, activated, calls>>

Live == {"pending", "user_confirmed"}

InvoiceRow == [status: Live \cup {"paid", "expired", "cancelled"},
               channel: Channels \cup {None},
               charge: Charges \cup {None},
               open: BOOLEAN]

TxRow == [status: {"unseen", "unmatched", "matched", "manual"},
          channel: Channels \cup {None},
          amount: Charges \cup {None},
          attempt: Nat,
          invoice: Invoices \cup {None}]

\* A running job is "searched", "committed" or "announced": the last thing it did.
Running == {"searched", "committed", "announced"}

Job == [state: {"unsent", "wait", "done", "failed"} \cup Running,
        attemptsMade: 0..JobAttempts,
        stalled: 0..MaxStalledCount,
        found: Invoices \cup {None}]

Call == [op: {"select"}, inv: Invoices, channel: Channels]
          \cup [op: {"confirm", "cancel"}, inv: Invoices]
          \cup [op: {"match"}, inv: Invoices, mut: Mutations]

Init ==
  /\ invoice = [i \in Invoices |-> [status |-> "pending", channel |-> None,
                                    charge |-> None, open |-> TRUE]]
  /\ tx = [t \in Mutations |-> [status |-> "unseen", channel |-> None,
                                amount |-> None, attempt |-> 0, invoice |-> None]]
  /\ job = [t \in Mutations |-> [state |-> "unsent", attemptsMade |-> 0,
                                 stalled |-> 0, found |-> None]]
  /\ payments = [t \in Mutations |-> <<>>]
  /\ webhooks = [t \in Mutations |-> <<>>]
  /\ activated = [t \in Mutations |-> <<>>]
  /\ calls = {}

-----------------------------------------------------------------------------
(* API handlers: customer, merchant and admin.                             *)

\* A handler has read its rows and passed its checks.
Enter(call) ==
  /\ Cardinality(calls) < MaxCalls
  /\ calls' = calls \cup {call}
  /\ UNCHANGED <<invoice, tx, job, payments, webhooks, activated>>

\* POST /pay/:token/select-channel, first call for this invoice.
SelectRead(i, c) ==
  /\ invoice[i].status = "pending"
  /\ invoice[i].open
  /\ invoice[i].channel = None
  /\ Enter([op |-> "select", inv |-> i, channel |-> c])

\* The code assigned makes the amount to pay; the window restarts at 30 minutes.
SelectWrite(call, charge) ==
  /\ call.op = "select"
  /\ invoice' = [invoice EXCEPT ![call.inv].channel = call.channel,
                                ![call.inv].charge = charge,
                                ![call.inv].open = TRUE]
  /\ calls' = calls \ {call}
  /\ UNCHANGED <<tx, job, payments, webhooks, activated>>

\* POST /pay/:token/confirm.
ConfirmRead(i) ==
  /\ invoice[i].channel # None
  /\ invoice[i].status = "pending"
  /\ invoice[i].open
  /\ Enter([op |-> "confirm", inv |-> i])

\* DELETE /invoices/:id.
CancelRead(i) ==
  /\ invoice[i].status = "pending"
  /\ Enter([op |-> "cancel", inv |-> i])

\* The status a confirm or a cancel leaves.
StatusAfter == [confirm |-> "user_confirmed", cancel |-> "cancelled"]

\* The update of a confirm or a cancel: by id, whatever the status is by now.
StatusWrite(call) ==
  /\ call.op \in DOMAIN StatusAfter
  /\ invoice' = [invoice EXCEPT ![call.inv].status = StatusAfter[call.op]]
  /\ calls' = calls \ {call}
  /\ UNCHANGED <<tx, job, payments, webhooks, activated>>

\* PATCH /admin/transactions/:id/match.
AdminMatchRead(t, i) ==
  /\ AdminMatches
  /\ tx[t].status \notin {"unseen", "matched"}
  /\ invoice[i].status # "paid"
  /\ Enter([op |-> "match", inv |-> i, mut |-> t])

\* Mutant: a mutation that was linked before keeps its link.
Pay_KeepsLink(t, i) ==
  /\ tx' = [tx EXCEPT ![t].status = "matched",
                      ![t].invoice = IF tx[t].invoice = None THEN i ELSE tx[t].invoice,
                      ![t].attempt = tx[t].attempt + 1]
  /\ invoice' = [invoice EXCEPT ![i].status = "paid"]
  /\ payments' = [payments EXCEPT ![t] = Append(payments[t], i)]

\* The payment transaction: mutation matched, invoice paid, ledger credited.
Pay(t, i) ==
  /\ tx' = [tx EXCEPT ![t].status = "matched",
                      ![t].invoice = i,
                      ![t].attempt = tx[t].attempt + 1]
  /\ invoice' = [invoice EXCEPT ![i].status = "paid"]
  /\ payments' = [payments EXCEPT ![t] = Append(payments[t], i)]

AdminMatchWrite(call) ==
  /\ call.op = "match"
  /\ Pay(call.mut, call.inv)
  /\ calls' = calls \ {call}
  /\ UNCHANGED <<job, webhooks, activated>>

-----------------------------------------------------------------------------
(* Time and the scheduler.                                                 *)

\* expiredAt goes by.
DeadlinePasses(i) ==
  /\ invoice[i].open
  /\ invoice[i].status \in Live
  /\ invoice' = [invoice EXCEPT ![i].open = FALSE]
  /\ UNCHANGED <<tx, job, payments, webhooks, activated, calls>>

Overdue(i) == invoice[i].status \in Live /\ ~invoice[i].open

\* One updateMany: its condition is evaluated by the database.
ExpireInvoices ==
  /\ \E i \in Invoices : Overdue(i)
  /\ invoice' = [i \in Invoices |->
                   IF Overdue(i) THEN [invoice[i] EXCEPT !.status = "expired"]
                                 ELSE invoice[i]]
  /\ UNCHANGED <<tx, job, payments, webhooks, activated, calls>>

-----------------------------------------------------------------------------
(* Scrape worker: a mutation is written once (uniqueHash), then its match  *)
(* job is added; no later scrape adds the job again.                       *)

RecordMutation(t, c, amount) ==
  /\ tx[t].status = "unseen"
  /\ tx' = [tx EXCEPT ![t].status = "unmatched",
                      ![t].channel = c,
                      ![t].amount = amount]
  /\ UNCHANGED <<invoice, job, payments, webhooks, activated, calls>>

\* A failed add is logged as an insert error; the job is never sent ("failed").
AddMatchJob(t) ==
  /\ tx[t].status # "unseen"
  /\ job[t].state = "unsent"
  /\ \E s \in {"wait"} \cup (IF EnqueueFaults THEN {"failed"} ELSE {}) :
       job' = [job EXCEPT ![t].state = s]
  /\ UNCHANGED <<invoice, tx, payments, webhooks, activated, calls>>

-----------------------------------------------------------------------------
(* Match worker.                                                           *)

Candidates(t) ==
  {i \in Invoices : /\ invoice[i].channel = tx[t].channel
                    /\ invoice[i].charge = tx[t].amount
                    /\ invoice[i].status \in Live
                    /\ invoice[i].open}

\* An ENUM column sorts by the order its values are declared in.
StatusRank == [pending |-> 1, user_confirmed |-> 2]

SortsBefore(i, j) ==
  LET rank(k) == StatusRank[invoice[k].status]
  IN  rank(i) < rank(j) \/ (rank(i) = rank(j) /\ i < j)

\* findFirst: status ascending, then createdAt ascending; null if there is none.
FindInvoice(t) ==
  IF Candidates(t) = {}
  THEN {None}
  ELSE {i \in Candidates(t) : \A j \in Candidates(t) \ {i} : SortsBefore(i, j)}

\* The job throws: BullMQ counts the attempt, then delays the job or fails it.
Thrown(j) ==
  [j EXCEPT !.attemptsMade = j.attemptsMade + 1,
            !.state = IF j.attemptsMade + 1 < JobAttempts THEN "wait" ELSE "failed",
            !.found = None]

Finished(j) == [j EXCEPT !.state = "done", !.found = None]

RunningJobs == {t \in Mutations : job[t].state \in Running}

SearchInvoice(t) ==
  /\ job[t].state = "wait"
  /\ Cardinality(RunningJobs) < Concurrency
  /\ \E found \in FindInvoice(t) :
       job' = [job EXCEPT ![t].state = "searched", ![t].found = found]
  /\ UNCHANGED <<invoice, tx, payments, webhooks, activated, calls>>

\* Mutant: off by one.
LastAttempt_OffByOne(t) == tx[t].attempt + 1 > MaxAttempts

\* The attempt being made is the last one the row allows.
LastAttempt(t) == tx[t].attempt + 1 >= MaxAttempts

\* No invoice: count the attempt in the row; the last one asks for a manual review.
NoMatch(t) ==
  /\ job[t].state = "searched"
  /\ job[t].found = None
  /\ tx' = [tx EXCEPT ![t].attempt = tx[t].attempt + 1,
                      ![t].status = IF LastAttempt(t) THEN "manual" ELSE "unmatched"]
  /\ job' = [job EXCEPT ![t] = IF LastAttempt(t) THEN Finished(job[t]) ELSE Thrown(job[t])]
  /\ UNCHANGED <<invoice, payments, webhooks, activated, calls>>

CommitMatch(t) ==
  /\ job[t].state = "searched"
  /\ job[t].found # None
  /\ Pay(t, job[t].found)
  /\ job' = [job EXCEPT ![t].state = "committed"]
  /\ UNCHANGED <<webhooks, activated, calls>>

\* Mutant: the announcement may precede the transaction.
ReadyToAnnounce_BeforeCommit(t) ==
  job[t].state \in {"searched", "committed"} /\ job[t].found # None

\* Mutant: a subscription payment is not announced.
ReadyToAnnounce_RegularOnly(t) ==
  job[t].state = "committed" /\ job[t].found \notin SubInvoices

\* The transaction has committed.
ReadyToAnnounce(t) == job[t].state = "committed"

\* Redis publish and webhookQueue.add; only a SUB- invoice has more to do.
AnnouncePayment(t) ==
  /\ ReadyToAnnounce(t)
  /\ webhooks' = [webhooks EXCEPT ![t] = Append(webhooks[t], job[t].found)]
  /\ job' = [job EXCEPT ![t] = IF job[t].found \in SubInvoices
                               THEN [job[t] EXCEPT !.state = "announced"]
                               ELSE Finished(job[t])]
  /\ UNCHANGED <<invoice, tx, payments, activated, calls>>

ActivateSubscription(t) ==
  /\ job[t].state = "announced"
  /\ activated' = [activated EXCEPT ![t] = Append(activated[t], job[t].found)]
  /\ job' = [job EXCEPT ![t] = Finished(job[t])]
  /\ UNCHANGED <<invoice, tx, payments, webhooks, calls>>

\* Mutant: no try/catch around the activation.
AfterActivationError_Uncaught(j) == Thrown(j)

\* Any error of the activation is caught and logged: the job completes.
AfterActivationError(j) == Finished(j)

ActivationFails(t) ==
  /\ job[t].state = "announced"
  /\ job' = [job EXCEPT ![t] = AfterActivationError(job[t])]
  /\ UNCHANGED <<invoice, tx, payments, webhooks, activated, calls>>

\* The search, or the write after it, fails: the error leaves the job.
QueryFails(t) ==
  /\ QueryFaults
  /\ job[t].state \in {"wait", "searched"}
  /\ job' = [job EXCEPT ![t] = Thrown(job[t])]
  /\ UNCHANGED <<invoice, tx, payments, webhooks, activated, calls>>

\* The transaction committed, and its 8 s timeout, the publish or the add rejects.
PublishFails(t) ==
  /\ PublishFaults
  /\ job[t].state = "committed"
  /\ job' = [job EXCEPT ![t] = Thrown(job[t])]
  /\ UNCHANGED <<invoice, tx, payments, webhooks, activated, calls>>

\* BullMQ finds an active job without its lock: it runs it again, or fails it.
Restarted(j) ==
  IF j.stalled < MaxStalledCount
  THEN [j EXCEPT !.state = "wait", !.stalled = j.stalled + 1, !.found = None]
  ELSE [j EXCEPT !.state = "failed", !.found = None]

\* The process dies in the job, whose lock then expires.
Stall(t) ==
  /\ Stalls
  /\ job[t].state \in Running
  /\ job' = [job EXCEPT ![t] = Restarted(job[t])]
  /\ UNCHANGED <<invoice, tx, payments, webhooks, activated, calls>>

-----------------------------------------------------------------------------
Api ==
  \/ \E i \in Invoices :
       \/ \E c \in Channels : SelectRead(i, c)
       \/ ConfirmRead(i)
       \/ CancelRead(i)
       \/ \E t \in Mutations : AdminMatchRead(t, i)
  \/ \E call \in calls :
       \/ \E charge \in Charges : SelectWrite(call, charge)
       \/ StatusWrite(call)
       \/ AdminMatchWrite(call)

Scheduler == ExpireInvoices \/ \E i \in Invoices : DeadlinePasses(i)

Scraper(t) ==
  \/ \E c \in Channels, amount \in Charges : RecordMutation(t, c, amount)
  \/ AddMatchJob(t)

\* What the worker does of its own accord.
MatchStep(t) ==
  \/ SearchInvoice(t) \/ NoMatch(t) \/ CommitMatch(t)
  \/ AnnouncePayment(t) \/ ActivateSubscription(t)

Fault(t) == ActivationFails(t) \/ QueryFails(t) \/ PublishFails(t) \/ Stall(t)

Next ==
  \/ Api
  \/ Scheduler
  \/ \E t \in Mutations : Scraper(t) \/ MatchStep(t) \/ Fault(t)

Spec == Init /\ [][Next]_vars

\* BullMQ hands every waiting job to a worker, and a worker that is neither
\* stalled nor failing goes on; the scrape loop adds the job right after the row.
FairSpec ==
  /\ Spec
  /\ \A t \in Mutations : WF_vars(AddMatchJob(t)) /\ WF_vars(MatchStep(t))

-----------------------------------------------------------------------------
(* Properties.                                                             *)

SetOf(s) == {s[n] : n \in 1..Len(s)}

\* Every row, job and pending call is one the code can build; in particular no
\* job runs more often than the attempts and the restarts of its queue.
TypeOK ==
  /\ invoice \in [Invoices -> InvoiceRow]
  /\ tx \in [Mutations -> TxRow]
  /\ job \in [Mutations -> Job]
  /\ payments \in [Mutations -> Seq(Invoices)]
  /\ webhooks \in [Mutations -> Seq(Invoices)]
  /\ activated \in [Mutations -> Seq(Invoices)]
  /\ calls \subseteq Call

\* One bank mutation pays at most one invoice (and credits one ledger row),
\* however often its job runs.  It needs a worker that never fails after its
\* transaction, jobs that never stall and no match by hand.
EachMutationPaysOnce == \A t \in Mutations : Len(payments[t]) <= 1

\* A mutation whose job has ended is matched or waits for a manual review: the
\* attempts of the queue never run out before the row reaches "manual".
NoMutationStranded ==
  \A t \in Mutations :
    job[t].state \in {"done", "failed"} => tx[t].status \in {"matched", "manual"}

\* A merchant hears "invoice.paid", and a subscription is activated, only for an
\* invoice the same mutation has already paid: never before the commit, never
\* more often than there were commits, and in that order.
EffectsFollowPayment ==
  \A t \in Mutations :
    /\ Len(activated[t]) <= Len(webhooks[t]) /\ Len(webhooks[t]) <= Len(payments[t])
    /\ SetOf(webhooks[t]) \subseteq SetOf(payments[t])
    /\ SetOf(activated[t]) \subseteq SetOf(webhooks[t]) \cap SubInvoices

\* A matched mutation is linked to the last invoice it paid, whatever handlers
\* and jobs were interleaved: the link and the payment are one write.
LinkIsLastPayment ==
  \A t \in Mutations :
    tx[t].status = "matched" =>
      payments[t] # <<>> /\ tx[t].invoice = payments[t][Len(payments[t])]

\* A mutation on record ends up matched or in manual review.
MutationSettles ==
  \A t \in Mutations :
    tx[t].status = "unmatched" ~> tx[t].status \in {"matched", "manual"}

\* A payment is announced to the merchant.
PaymentAnnounced ==
  \A t \in Mutations : payments[t] # <<>> ~> webhooks[t] # <<>>

\* What a job began is brought to its end.
JobsComplete == MutationSettles /\ PaymentAnnounced

-----------------------------------------------------------------------------
(* What the sources say and the program does not do.                       *)

\* invoices.js refuses to cancel a paid invoice.
PaidNeverCancelled ==
  [][\A i \in Invoices :
       invoice[i].status = "paid" => invoice'[i].status # "cancelled"]_vars
=============================================================================
