--------------------------- MODULE MatchingProofs ---------------------------
(***************************************************************************)
(* Proofs about the three parts of MCPayments: Matching, for any invoices,  *)
(* mutations, channels, charges and limits, and for any faults unless a     *)
(* theorem excludes them; ScrapeTiming, for any intervals, back-offs and    *)
(* jobs; LiveList, for any changes, views and reads under way.              *)
(***************************************************************************)
EXTENDS MCPayments, TLAPS

\* A job that may still run has an attempt left, and one that is past its
\* transaction knows the invoice it paid.
LiveJob ==
  {j \in Job : /\ j.state \notin {"done", "failed"} => j.attemptsMade < JobAttempts
               /\ j.state \in {"committed", "announced"} => j.found \in Invoices}

TypeInv == TypeOK /\ job \in [Mutations -> LiveJob]

-----------------------------------------------------------------------------
(* Updates of one row or job.                                              *)

LEMMA JobMoves ==
  ASSUME job \in [Mutations -> LiveJob], NEW t \in Mutations,
         job[t].state \notin {"done", "failed"},
         NEW s \in {"wait", "searched"}, NEW f \in Invoices \cup {None}
  PROVE  [job EXCEPT ![t].state = s, ![t].found = f] \in [Mutations -> LiveJob]
BY DEF LiveJob, Job, Running

LEMMA JobFinished == ASSUME NEW j \in LiveJob PROVE Finished(j) \in LiveJob
BY MatchingAssumption DEF Finished, LiveJob, Job, Running

LEMMA JobThrown ==
  ASSUME NEW j \in LiveJob, j.state \notin {"done", "failed"}
  PROVE  Thrown(j) \in LiveJob
<1>1. j \in Job /\ j.attemptsMade < JobAttempts
  BY DEF LiveJob
<1>2. j.attemptsMade + 1 \in 0..JobAttempts
  BY <1>1, MatchingAssumption DEF Job
<1>3. CASE j.attemptsMade + 1 < JobAttempts
  BY <1>1, <1>2, <1>3 DEF Thrown, Job, LiveJob
<1>4. CASE ~(j.attemptsMade + 1 < JobAttempts)
  BY <1>1, <1>2, <1>4 DEF Thrown, Job, LiveJob
<1>5. QED
  BY <1>3, <1>4

LEMMA JobRestarts ==
  ASSUME NEW j \in LiveJob, j.state \notin {"done", "failed"}
  PROVE  Restarted(j) \in LiveJob
<1>1. ASSUME NEW n \in 0..MaxStalledCount
      PROVE  [j EXCEPT !.state = "wait", !.stalled = n, !.found = None] \in LiveJob
  <2>1. ASSUME NEW s \in {"wait"}, NEW f \in {None}
        PROVE  [j EXCEPT !.state = s, !.stalled = n, !.found = f] \in LiveJob
    BY <1>1 DEF LiveJob, Job
  <2>2. QED
    BY <2>1
<1>2. CASE j.stalled < MaxStalledCount
  <2>1. j.stalled + 1 \in 0..MaxStalledCount
    BY <1>2, MatchingAssumption DEF LiveJob, Job
  <2>2. QED
    BY <1>1, <1>2, <2>1 DEF Restarted
<1>3. CASE ~(j.stalled < MaxStalledCount)
  BY <1>3 DEF Restarted, LiveJob, Job
<1>4. QED
  BY <1>2, <1>3

LEMMA TxMatched ==
  ASSUME tx \in [Mutations -> TxRow], NEW t \in Mutations, NEW i \in Invoices, NEW n \in Nat,
         NEW s \in {"unseen", "unmatched", "matched", "manual"}
  PROVE  [tx EXCEPT ![t].status = s, ![t].invoice = i, ![t].attempt = n] \in [Mutations -> TxRow]
BY DEF TxRow

LEMMA TxRecorded ==
  ASSUME tx \in [Mutations -> TxRow], NEW t \in Mutations, NEW c \in Channels, NEW x \in Charges,
         NEW s \in {"unseen", "unmatched", "matched", "manual"}
  PROVE  [tx EXCEPT ![t].status = s, ![t].channel = c, ![t].amount = x] \in [Mutations -> TxRow]
BY DEF TxRow

LEMMA TxAttempted ==
  ASSUME tx \in [Mutations -> TxRow], NEW t \in Mutations, NEW n \in Nat,
         NEW s \in {"unseen", "unmatched", "matched", "manual"}
  PROVE  [tx EXCEPT ![t].attempt = n, ![t].status = s] \in [Mutations -> TxRow]
BY DEF TxRow

\* The payment transaction keeps the types of the three tables it writes.
LEMMA PayTypes ==
  ASSUME TypeOK, NEW t \in Mutations, NEW i \in Invoices, Pay(t, i)
  PROVE  /\ tx' \in [Mutations -> TxRow]
         /\ invoice' \in [Invoices -> InvoiceRow]
         /\ payments' \in [Mutations -> Seq(Invoices)]
<1>1. tx[t].attempt + 1 \in Nat
  BY DEF TypeOK, TxRow
<1>2. tx' \in [Mutations -> TxRow]
  BY <1>1, TxMatched DEF Pay, TypeOK
<1>3. invoice' \in [Invoices -> InvoiceRow]
  BY DEF Pay, TypeOK, InvoiceRow
<1>4. payments' \in [Mutations -> Seq(Invoices)]
  BY DEF Pay, TypeOK
<1>5. QED
  BY <1>2, <1>3, <1>4

-----------------------------------------------------------------------------
(* Types.                                                                  *)

LEMMA ApiTypes == TypeInv /\ Api => TypeInv'
<1> SUFFICES ASSUME TypeInv, Api PROVE TypeInv'
  OBVIOUS
<1> USE DEF TypeInv
<1>1. ASSUME NEW call \in Call, Enter(call) PROVE TypeInv'
  BY <1>1 DEF Enter, TypeOK
<1>2. ASSUME NEW i \in Invoices,
             \/ \E c \in Channels : SelectRead(i, c)
             \/ ConfirmRead(i) \/ CancelRead(i)
             \/ \E t \in Mutations : AdminMatchRead(t, i)
      PROVE  TypeInv'
  <2>1. \E call \in Call : Enter(call)
    BY <1>2 DEF SelectRead, ConfirmRead, CancelRead, AdminMatchRead, Call
  <2>2. QED
    BY <1>1, <2>1
<1>3. ASSUME NEW call \in calls, NEW charge \in Charges, SelectWrite(call, charge)
      PROVE  TypeInv'
  <2>1. call.inv \in Invoices /\ call.channel \in Channels
    BY <1>3 DEF SelectWrite, TypeOK, Call
  <2>2. invoice' \in [Invoices -> InvoiceRow]
    BY <1>3, <2>1 DEF SelectWrite, TypeOK, InvoiceRow
  <2>3. QED
    BY <1>3, <2>2 DEF SelectWrite, TypeOK
<1>4. ASSUME NEW call \in calls, StatusWrite(call) PROVE TypeInv'
  <2>1. call.inv \in Invoices /\ call.op \in {"confirm", "cancel"}
    BY <1>4 DEF StatusWrite, StatusAfter, TypeOK, Call
  <2>2. StatusAfter[call.op] \in {"user_confirmed", "cancelled"}
    BY <2>1 DEF StatusAfter
  <2>3. invoice' \in [Invoices -> InvoiceRow]
    BY <1>4, <2>1, <2>2 DEF StatusWrite, TypeOK, InvoiceRow, Live
  <2>4. QED
    BY <1>4, <2>3 DEF StatusWrite, TypeOK
<1>5. ASSUME NEW call \in calls, AdminMatchWrite(call) PROVE TypeInv'
  <2>1. call.inv \in Invoices /\ call.mut \in Mutations
    BY <1>5 DEF AdminMatchWrite, TypeOK, Call
  <2>2. QED
    BY <1>5, <2>1, PayTypes DEF AdminMatchWrite, TypeOK
<1>6. QED
  BY <1>2, <1>3, <1>4, <1>5 DEF Api

LEMMA SchedulerTypes == TypeInv /\ Scheduler => TypeInv'
<1> SUFFICES ASSUME TypeInv, Scheduler PROVE TypeInv'
  OBVIOUS
<1>1. CASE ExpireInvoices
  <2>1. ASSUME NEW i \in Invoices PROVE [invoice[i] EXCEPT !.status = "expired"] \in InvoiceRow
    BY DEF TypeInv, TypeOK, InvoiceRow
  <2>2. QED
    BY <1>1, <2>1 DEF ExpireInvoices, TypeInv, TypeOK
<1>2. CASE \E i \in Invoices : DeadlinePasses(i)
  <2>1. PICK i \in Invoices : DeadlinePasses(i)
    BY <1>2
  <2>2. invoice' \in [Invoices -> InvoiceRow]
    BY <2>1 DEF DeadlinePasses, TypeInv, TypeOK, InvoiceRow
  <2>3. QED
    BY <2>1, <2>2 DEF DeadlinePasses, TypeInv, TypeOK
<1>3. QED
  BY <1>1, <1>2 DEF Scheduler

LEMMA ScraperTypes == ASSUME NEW t \in Mutations, TypeInv, Scraper(t) PROVE TypeInv'
<1>1. CASE \E c \in Channels, x \in Charges : RecordMutation(t, c, x)
  <2>1. PICK c \in Channels, x \in Charges : RecordMutation(t, c, x)
    BY <1>1
  <2>2. tx' = [tx EXCEPT ![t].status = "unmatched", ![t].channel = c, ![t].amount = x]
    BY <2>1 DEF RecordMutation
  <2>3. tx' \in [Mutations -> TxRow]
    BY <2>2, TxRecorded DEF TypeInv, TypeOK
  <2>4. QED
    BY <2>1, <2>3 DEF RecordMutation, TypeInv, TypeOK
<1>2. CASE AddMatchJob(t)
  <2>1. PICK s \in {"wait", "failed"} : job' = [job EXCEPT ![t].state = s]
    BY <1>2 DEF AddMatchJob
  <2>2. job' \in [Mutations -> LiveJob]
    BY <1>2, <2>1 DEF AddMatchJob, TypeInv, LiveJob, Job
  <2>3. LiveJob \subseteq Job
    BY DEF LiveJob
  <2>4. QED
    BY <1>2, <2>2, <2>3 DEF AddMatchJob, TypeInv, TypeOK
<1>3. QED
  BY <1>1, <1>2 DEF Scraper

LEMMA WorkerTypes ==
  ASSUME NEW t \in Mutations, TypeInv, MatchStep(t) \/ Fault(t)
  PROVE  TypeInv'
<1> USE DEF TypeInv
<1>1. LiveJob \subseteq Job /\ job[t] \in LiveJob
  BY DEF LiveJob
<1>2. CASE SearchInvoice(t)
  <2>1. FindInvoice(t) \subseteq Invoices \cup {None}
    BY DEF FindInvoice, Candidates
  <2>2. PICK found \in FindInvoice(t) :
          job' = [job EXCEPT ![t].state = "searched", ![t].found = found]
    BY <1>2 DEF SearchInvoice
  <2>3. job' \in [Mutations -> LiveJob]
    BY <1>2, <2>1, <2>2, JobMoves DEF SearchInvoice, Running
  <2>4. QED
    BY <1>1, <1>2, <2>3 DEF SearchInvoice, TypeOK
<1>3. CASE NoMatch(t)
  <2>1. tx[t].attempt + 1 \in Nat
    BY DEF TypeOK, TxRow
  <2>2. tx' \in [Mutations -> TxRow]
    BY <1>3, <2>1, TxAttempted DEF NoMatch, TypeOK
  <2>3. job' \in [Mutations -> LiveJob]
    BY <1>1, <1>3, JobFinished, JobThrown DEF NoMatch
  <2>4. QED
    BY <1>1, <1>3, <2>2, <2>3 DEF NoMatch, TypeOK
<1>4. CASE CommitMatch(t)
  <2>1. job[t].found \in Invoices
    BY <1>4 DEF CommitMatch, TypeOK, Job
  <2>2. job' \in [Mutations -> LiveJob]
    BY <1>4 DEF CommitMatch, LiveJob, Job, Running
  <2>3. QED
    BY <1>1, <1>4, <2>1, <2>2, PayTypes DEF CommitMatch, TypeOK
<1>5. CASE AnnouncePayment(t)
  <2>1. job[t].state = "committed" /\ job[t].found \in Invoices
    BY <1>1, <1>5 DEF AnnouncePayment, ReadyToAnnounce, LiveJob
  <2>2. [job[t] EXCEPT !.state = "announced"] \in LiveJob
    BY <1>1, <2>1 DEF LiveJob, Job, Running
  <2>3. job' \in [Mutations -> LiveJob]
    BY <1>1, <1>5, <2>2, JobFinished DEF AnnouncePayment
  <2>4. webhooks' \in [Mutations -> Seq(Invoices)]
    BY <1>5, <2>1 DEF AnnouncePayment, TypeOK
  <2>5. QED
    BY <1>1, <1>5, <2>3, <2>4 DEF AnnouncePayment, TypeOK
<1>6. CASE ActivateSubscription(t)
  <2>1. job[t].found \in Invoices
    BY <1>1, <1>6 DEF ActivateSubscription, LiveJob
  <2>2. job' \in [Mutations -> LiveJob]
    BY <1>1, <1>6, JobFinished DEF ActivateSubscription
  <2>3. activated' \in [Mutations -> Seq(Invoices)]
    BY <1>6, <2>1 DEF ActivateSubscription, TypeOK
  <2>4. QED
    BY <1>1, <1>6, <2>2, <2>3 DEF ActivateSubscription, TypeOK
<1>7. CASE Fault(t)
  <2>1. \/ job' = [job EXCEPT ![t] = Finished(job[t])]
        \/ /\ job[t].state \notin {"done", "failed"}
           /\ \/ job' = [job EXCEPT ![t] = Thrown(job[t])]
              \/ job' = [job EXCEPT ![t] = Restarted(job[t])]
    BY <1>7 DEF Fault, ActivationFails, AfterActivationError, QueryFails, PublishFails, Stall,
                Running
  <2>2. job' \in [Mutations -> LiveJob]
    BY <1>1, <2>1, JobFinished, JobThrown, JobRestarts
  <2>3. QED
    BY <1>1, <1>7, <2>2 DEF Fault, ActivationFails, QueryFails, PublishFails, Stall, TypeOK
<1>8. QED
  BY <1>2, <1>3, <1>4, <1>5, <1>6, <1>7 DEF MatchStep

\* Every step keeps the types.
LEMMA TypeStep == TypeInv /\ [Next]_vars => TypeInv'
<1>1. TypeInv /\ UNCHANGED vars => TypeInv'
  BY DEF vars, TypeInv, TypeOK
<1>2. QED
  BY <1>1, ApiTypes, SchedulerTypes, ScraperTypes, WorkerTypes DEF Next

LEMMA TypeInit == Init => TypeInv
<1> SUFFICES ASSUME Init PROVE TypeInv
  OBVIOUS
<1>1. 0 \in 0..JobAttempts /\ 0 \in 0..MaxStalledCount /\ 0 < JobAttempts
  BY MatchingAssumption
<1>2. job \in [Mutations -> LiveJob] /\ LiveJob \subseteq Job
  BY <1>1 DEF Init, LiveJob, Job
<1>3. invoice \in [Invoices -> InvoiceRow] /\ tx \in [Mutations -> TxRow]
  BY DEF Init, InvoiceRow, Live, TxRow
<1>4. job \in [Mutations -> Job]
  BY <1>2
<1>5. /\ payments \in [Mutations -> Seq(Invoices)]
      /\ webhooks \in [Mutations -> Seq(Invoices)]
      /\ activated \in [Mutations -> Seq(Invoices)]
  BY DEF Init
<1>6. QED
  BY <1>2, <1>3, <1>4, <1>5 DEF Init, TypeInv, TypeOK

THEOREM TypeInvariant == Spec => []TypeInv
BY TypeInit, TypeStep, PTL DEF Spec

\* Every row, job and pending call is one the code can build; no job runs more
\* often than the attempts and the restarts of its queue.
THEOREM MatchingTypes == Spec => []TypeOK
BY TypeInvariant, PTL DEF TypeInv

-----------------------------------------------------------------------------
(* What a step can do to the mutations.                                    *)

\* Everything the API, the scheduler and a stutter do to the mutations is to pay
\* by hand; the rest is done by the scraper and the worker to one mutation.
LEMMA StepCases ==
  ASSUME TypeOK, [Next]_vars
  PROVE  \/ UNCHANGED <<tx, job, payments, webhooks, activated>>
         \/ \E call \in calls : AdminMatchWrite(call) /\ call.mut \in Mutations
                                                     /\ call.inv \in Invoices
         \/ \E t \in Mutations : Scraper(t) \/ MatchStep(t) \/ Fault(t)
<1>1. ASSUME Api
      PROVE  \/ UNCHANGED <<tx, job, payments, webhooks, activated>>
             \/ \E call \in calls : AdminMatchWrite(call) /\ call.mut \in Mutations
                                                         /\ call.inv \in Invoices
  <2>1. ASSUME NEW call \in calls, AdminMatchWrite(call)
        PROVE  call.mut \in Mutations /\ call.inv \in Invoices
    BY <2>1 DEF AdminMatchWrite, TypeOK, Call
  <2>2. QED
    BY <1>1, <2>1 DEF Api, SelectRead, ConfirmRead, CancelRead, AdminMatchRead, Enter,
                      SelectWrite, StatusWrite
<1>2. ASSUME Scheduler PROVE UNCHANGED <<tx, job, payments, webhooks, activated>>
  BY <1>2 DEF Scheduler, ExpireInvoices, DeadlinePasses
<1>3. ASSUME UNCHANGED vars PROVE UNCHANGED <<tx, job, payments, webhooks, activated>>
  BY <1>3 DEF vars
<1>4. QED
  BY <1>1, <1>2, <1>3 DEF Next

\* What a fault does: the job of t ends or runs again, and nothing else changes.
LEMMA FaultEffect ==
  ASSUME TypeOK, NEW t \in Mutations, Fault(t)
  PROVE  /\ UNCHANGED <<tx, payments, webhooks, activated>>
         /\ job[t].state \in {"wait"} \cup Running
         /\ job'[t].state \in {"wait", "failed", "done"}
         /\ \A u \in Mutations \ {t} : job'[u] = job[u]
<1>1. job[t] \in Job
  BY DEF TypeOK
<1>2. /\ Finished(job[t]).state = "done"
      /\ Thrown(job[t]).state \in {"wait", "failed"}
      /\ Restarted(job[t]).state \in {"wait", "failed"}
  BY <1>1 DEF Finished, Thrown, Restarted, Job
<1>3. /\ job[t].state \in {"wait"} \cup Running
      /\ \/ job' = [job EXCEPT ![t] = Finished(job[t])]
         \/ job' = [job EXCEPT ![t] = Thrown(job[t])]
         \/ job' = [job EXCEPT ![t] = Restarted(job[t])]
  BY DEF Fault, ActivationFails, AfterActivationError, QueryFails, PublishFails, Stall, Running
<1>4. UNCHANGED <<tx, payments, webhooks, activated>>
  BY DEF Fault, ActivationFails, QueryFails, PublishFails, Stall
<1>5. QED
  BY <1>2, <1>3, <1>4 DEF TypeOK

-----------------------------------------------------------------------------
(* The link of a matched mutation.                                         *)

\* A payment links the mutation to the invoice it pays, and touches no other.
LEMMA PayLinks ==
  ASSUME TypeOK, LinkIsLastPayment, NEW t \in Mutations, NEW i \in Invoices, Pay(t, i)
  PROVE  LinkIsLastPayment'
<1>1. /\ tx'[t].invoice = i /\ payments'[t] = Append(payments[t], i)
      /\ \A u \in Mutations \ {t} : tx'[u] = tx[u] /\ payments'[u] = payments[u]
  BY DEF Pay, TypeOK, TxRow
<1>2. payments[t] \in Seq(Invoices)
  BY DEF TypeOK
<1>3. payments'[t] # <<>> /\ payments'[t][Len(payments'[t])] = i
  BY <1>1, <1>2
<1>4. QED
  BY <1>1, <1>3 DEF LinkIsLastPayment

LEMMA LinkStep == TypeOK /\ LinkIsLastPayment /\ [Next]_vars => LinkIsLastPayment'
<1> SUFFICES ASSUME TypeOK, LinkIsLastPayment, [Next]_vars PROVE LinkIsLastPayment'
  OBVIOUS
<1>1. CASE UNCHANGED <<tx, payments>>
  BY <1>1 DEF LinkIsLastPayment
<1>2. ASSUME NEW call \in calls, AdminMatchWrite(call), call.mut \in Mutations,
             call.inv \in Invoices
      PROVE  LinkIsLastPayment'
  BY <1>2, PayLinks DEF AdminMatchWrite
<1>3. ASSUME NEW t \in Mutations, CommitMatch(t) PROVE LinkIsLastPayment'
  <2>1. job[t].found \in Invoices
    BY <1>3 DEF CommitMatch, TypeOK, Job
  <2>2. QED
    BY <1>3, <2>1, PayLinks DEF CommitMatch
\* The only other writes of a row leave it unmatched or in manual review.
<1>4. ASSUME NEW t \in Mutations,
             \/ \E c \in Channels, x \in Charges : RecordMutation(t, c, x)
             \/ NoMatch(t)
      PROVE  LinkIsLastPayment'
  <2>1. ASSUME NEW c \in Channels, NEW x \in Charges, RecordMutation(t, c, x)
        PROVE  tx'[t].status # "matched"
    BY <2>1 DEF RecordMutation, TypeOK, TxRow
  <2>2. ASSUME NoMatch(t) PROVE tx'[t].status # "matched"
    <3>1. tx[t] \in TxRow /\ tx[t].attempt + 1 \in Nat
      BY DEF TypeOK, TxRow
    <3>2. tx'[t].status = IF LastAttempt(t) THEN "manual" ELSE "unmatched"
      BY <2>2, <3>1 DEF NoMatch, TypeOK, TxRow
    <3>3. QED
      BY <3>2
  <2>3. /\ payments' = payments
        /\ \A u \in Mutations \ {t} : tx'[u] = tx[u]
    BY <1>4 DEF RecordMutation, NoMatch, TypeOK
  <2>4. QED
    BY <1>4, <2>1, <2>2, <2>3 DEF LinkIsLastPayment
<1>5. ASSUME NEW t \in Mutations,
             \/ AddMatchJob(t) \/ SearchInvoice(t) \/ AnnouncePayment(t)
             \/ ActivateSubscription(t) \/ Fault(t)
      PROVE  UNCHANGED <<tx, payments>>
  BY <1>5, FaultEffect DEF AddMatchJob, SearchInvoice, AnnouncePayment, ActivateSubscription
<1>6. QED
  BY <1>1, <1>2, <1>3, <1>4, <1>5, StepCases DEF Scraper, MatchStep

\* The link of a matched mutation is the last invoice it paid, whatever handlers,
\* jobs and faults were interleaved.
THEOREM LinkCorrect == Spec => []LinkIsLastPayment
<1>1. Init => LinkIsLastPayment
  BY DEF Init, LinkIsLastPayment
<1>2. QED
  BY <1>1, LinkStep, MatchingTypes, PTL DEF Spec

-----------------------------------------------------------------------------
(* Announcements and activations follow payments.                          *)

Effects(t) ==
  /\ Len(activated[t]) <= Len(webhooks[t]) /\ Len(webhooks[t]) <= Len(payments[t])
  /\ SetOf(webhooks[t]) \subseteq SetOf(payments[t])
  /\ SetOf(activated[t]) \subseteq SetOf(webhooks[t]) \cap SubInvoices

\* The job of a mutation still owes what its state says: a committed job one
\* announcement, an announced one an activation.
Owes(t) ==
  /\ job[t].state = "committed" =>
       job[t].found \in SetOf(payments[t]) /\ Len(webhooks[t]) < Len(payments[t])
  /\ job[t].state = "announced" =>
       /\ job[t].found \in SetOf(webhooks[t]) \cap SubInvoices
       /\ Len(activated[t]) < Len(webhooks[t])

EffectsInv == \A t \in Mutations : Effects(t) /\ Owes(t)

LEMMA SetOfAppend ==
  ASSUME NEW S, NEW s \in Seq(S), NEW x \in S
  PROVE  /\ SetOf(Append(s, x)) = SetOf(s) \cup {x}
         /\ Len(Append(s, x)) = Len(s) + 1
         /\ Len(s) \in Nat
BY DEF SetOf

LEMMA HistoryTypes ==
  ASSUME TypeOK, NEW t \in Mutations
  PROVE  /\ payments[t] \in Seq(Invoices) /\ webhooks[t] \in Seq(Invoices)
         /\ activated[t] \in Seq(Invoices)
         /\ Len(payments[t]) \in Nat /\ Len(webhooks[t]) \in Nat /\ Len(activated[t]) \in Nat
BY DEF TypeOK

\* One more payment disturbs nothing that was owed or done.
LEMMA PayEffects ==
  ASSUME TypeOK, EffectsInv, NEW t \in Mutations, NEW i \in Invoices, Pay(t, i),
         UNCHANGED <<webhooks, activated>>
  PROVE  /\ Effects(t)' /\ Len(webhooks'[t]) < Len(payments'[t])
         /\ SetOf(payments'[t]) = SetOf(payments[t]) \cup {i}
<1>1. payments'[t] = Append(payments[t], i)
  BY DEF Pay, TypeOK
<1>2. /\ SetOf(payments'[t]) = SetOf(payments[t]) \cup {i}
      /\ Len(payments'[t]) = Len(payments[t]) + 1
  BY <1>1, SetOfAppend, HistoryTypes
<1>3. QED
  BY <1>2, HistoryTypes DEF EffectsInv, Effects

LEMMA EffectsStep == TypeInv /\ EffectsInv /\ [Next]_vars => EffectsInv'
<1> SUFFICES ASSUME TypeInv, EffectsInv, [Next]_vars PROVE EffectsInv'
  OBVIOUS
<1> USE DEF TypeInv
\* A step on t leaves what every other mutation did and owes.
<1>1. ASSUME NEW t \in Mutations, Effects(t)', Owes(t)',
             \A u \in Mutations \ {t} : /\ job'[u] = job[u] /\ payments'[u] = payments[u]
                                        /\ webhooks'[u] = webhooks[u]
                                        /\ activated'[u] = activated[u]
      PROVE  EffectsInv'
  <2>1. ASSUME NEW u \in Mutations \ {t} PROVE Effects(u)' /\ Owes(u)'
    BY <1>1, <2>1 DEF EffectsInv, Effects, Owes
  <2>2. QED
    BY <1>1, <2>1 DEF EffectsInv
<1>2. CASE UNCHANGED <<job, payments, webhooks, activated>>
  BY <1>2 DEF EffectsInv, Effects, Owes
\* A job that has nothing to owe yet, or any more.
<1>3. ASSUME NEW t \in Mutations, UNCHANGED <<payments, webhooks, activated>>,
             job'[t].state \notin {"committed", "announced"},
             \A u \in Mutations \ {t} : job'[u] = job[u]
      PROVE  EffectsInv'
  BY <1>1, <1>3 DEF EffectsInv, Effects, Owes
<1>4. ASSUME NEW call \in calls, AdminMatchWrite(call), call.mut \in Mutations,
             call.inv \in Invoices
      PROVE  EffectsInv'
  <2> DEFINE t == call.mut
  <2>1. Pay(t, call.inv) /\ UNCHANGED <<job, webhooks, activated>>
    BY <1>4 DEF AdminMatchWrite
  <2>2. Effects(t)' /\ Owes(t)'
    BY <1>4, <2>1, PayEffects DEF EffectsInv, Owes
  <2>3. \A u \in Mutations \ {t} : payments'[u] = payments[u]
    BY <1>4, <2>1 DEF Pay, TypeOK
  <2>4. QED
    BY <1>1, <1>4, <2>1, <2>2, <2>3
<1>5. ASSUME NEW t \in Mutations, Scraper(t) PROVE EffectsInv'
  <2>1. CASE \E c \in Channels, x \in Charges : RecordMutation(t, c, x)
    BY <1>2, <2>1 DEF RecordMutation
  <2>2. CASE AddMatchJob(t)
    <3>1. PICK s \in {"wait", "failed"} : job' = [job EXCEPT ![t].state = s]
      BY <2>2 DEF AddMatchJob
    <3>2. job'[t].state = s /\ \A u \in Mutations \ {t} : job'[u] = job[u]
      BY <3>1 DEF TypeOK, Job
    <3>3. QED
      BY <1>3, <2>2, <3>2 DEF AddMatchJob
  <2>3. QED
    BY <1>5, <2>1, <2>2 DEF Scraper
<1>6. ASSUME NEW t \in Mutations, SearchInvoice(t) PROVE EffectsInv'
  BY <1>3, <1>6 DEF SearchInvoice, TypeOK, Job
<1>7. ASSUME NEW t \in Mutations, NoMatch(t) PROVE EffectsInv'
  <2>1. job'[t] \in {Finished(job[t]), Thrown(job[t])}
    BY <1>7 DEF NoMatch, TypeOK
  <2>2. job'[t].state \notin {"committed", "announced"}
    BY <2>1 DEF Finished, Thrown, TypeOK, Job
  <2>3. QED
    BY <1>3, <1>7, <2>2 DEF NoMatch, TypeOK
<1>8. ASSUME NEW t \in Mutations, CommitMatch(t) PROVE EffectsInv'
  <2>1. job[t].found \in Invoices
    BY <1>8 DEF CommitMatch, TypeOK, Job
  <2>2. /\ job'[t].state = "committed" /\ job'[t].found = job[t].found
        /\ \A u \in Mutations \ {t} : job'[u] = job[u]
    BY <1>8 DEF CommitMatch, TypeOK, Job
  <2>3. Pay(t, job[t].found) /\ UNCHANGED <<webhooks, activated>>
    BY <1>8 DEF CommitMatch
  <2>4. Effects(t)' /\ Owes(t)'
    BY <2>1, <2>2, <2>3, PayEffects DEF Owes
  <2>5. \A u \in Mutations \ {t} : payments'[u] = payments[u]
    BY <2>3 DEF Pay, TypeOK
  <2>6. QED
    BY <1>1, <2>2, <2>3, <2>4, <2>5
<1>9. ASSUME NEW t \in Mutations, AnnouncePayment(t) PROVE EffectsInv'
  <2>1. /\ job[t].state = "committed" /\ job[t].found \in Invoices
        /\ webhooks' = [webhooks EXCEPT ![t] = Append(webhooks[t], job[t].found)]
        /\ UNCHANGED <<payments, activated>>
    BY <1>9 DEF AnnouncePayment, ReadyToAnnounce, LiveJob
  <2>2. /\ \A u \in Mutations \ {t} : job'[u] = job[u] /\ webhooks'[u] = webhooks[u]
        /\ webhooks'[t] = Append(webhooks[t], job[t].found)
    BY <1>9, <2>1 DEF AnnouncePayment, TypeOK
  <2>3. /\ SetOf(webhooks'[t]) = SetOf(webhooks[t]) \cup {job[t].found}
        /\ Len(webhooks'[t]) = Len(webhooks[t]) + 1
    BY <2>1, <2>2, SetOfAppend, HistoryTypes
  <2>4. Effects(t)' /\ Len(activated'[t]) < Len(webhooks'[t])
    <3>1. Effects(t) /\ Owes(t)
      BY DEF EffectsInv
    <3>2. /\ Len(webhooks[t]) < Len(payments[t]) /\ Len(activated[t]) <= Len(webhooks[t])
          /\ job[t].found \in SetOf(payments[t])
      BY <2>1, <3>1 DEF Effects, Owes
    <3>3. /\ Len(webhooks'[t]) <= Len(payments'[t]) /\ Len(activated'[t]) < Len(webhooks'[t])
          /\ Len(activated'[t]) <= Len(webhooks'[t])
      BY <2>1, <2>3, <3>2, HistoryTypes
    <3>4. /\ SetOf(webhooks'[t]) \subseteq SetOf(payments'[t])
          /\ SetOf(activated'[t]) \subseteq SetOf(webhooks'[t]) \cap SubInvoices
      BY <2>1, <2>3, <3>1, <3>2 DEF Effects
    <3>5. QED
      BY <3>3, <3>4 DEF Effects
  <2>5. \/ job'[t].state = "done"
        \/ /\ job'[t].state = "announced"
           /\ job'[t].found = job[t].found /\ job[t].found \in SubInvoices
    BY <1>9 DEF AnnouncePayment, Finished, TypeOK, Job
  <2>6. Owes(t)'
    BY <2>3, <2>4, <2>5 DEF Owes
  <2>7. QED
    BY <1>1, <2>1, <2>2, <2>4, <2>6
<1>10. ASSUME NEW t \in Mutations, ActivateSubscription(t) PROVE EffectsInv'
  <2>1. /\ job[t].state = "announced" /\ job[t].found \in Invoices
        /\ activated' = [activated EXCEPT ![t] = Append(activated[t], job[t].found)]
        /\ UNCHANGED <<payments, webhooks>>
    BY <1>10 DEF ActivateSubscription, LiveJob
  <2>2. /\ \A u \in Mutations \ {t} : job'[u] = job[u] /\ activated'[u] = activated[u]
        /\ activated'[t] = Append(activated[t], job[t].found)
        /\ job'[t].state = "done"
    BY <1>10, <2>1 DEF ActivateSubscription, Finished, TypeOK, Job
  <2>3. /\ SetOf(activated'[t]) = SetOf(activated[t]) \cup {job[t].found}
        /\ Len(activated'[t]) = Len(activated[t]) + 1
    BY <2>1, <2>2, SetOfAppend, HistoryTypes
  <2>4. Effects(t)
    BY DEF EffectsInv
  <2>5. /\ Len(activated[t]) < Len(webhooks[t]) /\ Len(webhooks[t]) <= Len(payments[t])
        /\ job[t].found \in SetOf(webhooks[t]) \cap SubInvoices
    BY <2>1, <2>4 DEF EffectsInv, Effects, Owes
  <2>6. Len(activated'[t]) <= Len(webhooks'[t]) /\ Len(webhooks'[t]) <= Len(payments'[t])
    BY <2>1, <2>3, <2>5, HistoryTypes
  <2>7. /\ SetOf(webhooks'[t]) \subseteq SetOf(payments'[t])
        /\ SetOf(activated'[t]) \subseteq SetOf(webhooks'[t]) \cap SubInvoices
    BY <2>1, <2>3, <2>4, <2>5 DEF Effects
  <2>8. Effects(t)' /\ Owes(t)'
    BY <2>2, <2>6, <2>7 DEF Effects, Owes
  <2>9. QED
    BY <1>1, <2>1, <2>2, <2>8
<1>11. ASSUME NEW t \in Mutations, Fault(t) PROVE EffectsInv'
  BY <1>3, <1>11, FaultEffect
<1>12. QED
  BY <1>2, <1>4, <1>5, <1>6, <1>7, <1>8, <1>9, <1>10, <1>11, StepCases DEF MatchStep

\* Webhooks and activations never run ahead of the payments, whatever fails and
\* however often a job runs.
THEOREM EffectsFollow == Spec => []EffectsFollowPayment
<1>1. Init => EffectsInv
  BY DEF Init, EffectsInv, Effects, Owes, SetOf
<1>2. EffectsInv => EffectsFollowPayment
  BY DEF EffectsInv, Effects, EffectsFollowPayment
<1>3. QED
  BY <1>1, <1>2, EffectsStep, TypeInvariant, PTL DEF Spec

-----------------------------------------------------------------------------
(* One mutation, one payment.                                              *)

\* Nothing brings a job back once its transaction has committed.
NoSecondRun == ~Stalls /\ ~PublishFaults /\ ~AdminMatches

NoManualMatch == \A call \in calls : call.op # "match"

\* A job that has not committed has paid nothing, and a job commits once.
PaidOnce ==
  \A t \in Mutations :
    /\ job[t].state \notin {"committed", "announced", "done"} => payments[t] = <<>>
    /\ Len(payments[t]) <= 1

LEMMA NoManualStep ==
  ASSUME ~AdminMatches, NoManualMatch, [Next]_vars
  PROVE  NoManualMatch'
<1>1. ASSUME NEW call, call.op # "match", Enter(call) PROVE NoManualMatch'
  BY <1>1 DEF Enter, NoManualMatch
<1>2. ASSUME Api PROVE NoManualMatch'
  BY <1>1, <1>2 DEF Api, SelectRead, ConfirmRead, CancelRead, AdminMatchRead, SelectWrite,
                    StatusWrite, AdminMatchWrite, NoManualMatch
<1>3. ASSUME Scheduler PROVE NoManualMatch'
  BY <1>3 DEF Scheduler, ExpireInvoices, DeadlinePasses, NoManualMatch
<1>4. ASSUME NEW t \in Mutations, Scraper(t) \/ MatchStep(t) \/ Fault(t) PROVE NoManualMatch'
  BY <1>4 DEF Scraper, RecordMutation, AddMatchJob, MatchStep, SearchInvoice, NoMatch,
              CommitMatch, AnnouncePayment, ActivateSubscription, Fault, ActivationFails,
              QueryFails, PublishFails, Stall, NoManualMatch
<1>5. CASE UNCHANGED vars
  BY <1>5 DEF vars, NoManualMatch
<1>6. QED
  BY <1>2, <1>3, <1>4, <1>5 DEF Next

\* Without restarts, a fault ends an announced job or sends back one that has not
\* committed.
LEMMA FaultBeforeCommit ==
  ASSUME ~Stalls, ~PublishFaults, TypeOK, NEW t \in Mutations, Fault(t)
  PROVE  \/ job[t].state = "announced" /\ job'[t].state = "done"
         \/ QueryFaults /\ job[t].state \in {"wait", "searched"}
<1>1. CASE ActivationFails(t)
  BY <1>1 DEF ActivationFails, AfterActivationError, Finished, TypeOK, Job
<1>2. CASE QueryFails(t)
  BY <1>2 DEF QueryFails
<1>3. QED
  BY <1>1, <1>2 DEF Fault, PublishFails, Stall

LEMMA PaidOnceStep ==
  ASSUME NoSecondRun, NoManualMatch, TypeInv, PaidOnce, [Next]_vars
  PROVE  PaidOnce'
<1> USE DEF TypeInv, NoSecondRun
<1>1. CASE UNCHANGED <<job, payments>>
  BY <1>1 DEF PaidOnce
\* A step of t that pays nothing.
<1>2. ASSUME NEW t \in Mutations, UNCHANGED payments,
             job[t].state \in {"committed", "announced", "done"} => job'[t].state \in {"committed", "announced", "done"},
             \A u \in Mutations \ {t} : job'[u] = job[u]
      PROVE  PaidOnce'
  BY <1>2 DEF PaidOnce
<1>3. ASSUME NEW call \in calls PROVE ~AdminMatchWrite(call)
  BY <1>3 DEF NoManualMatch, AdminMatchWrite
<1>4. ASSUME NEW t \in Mutations, Scraper(t) PROVE PaidOnce'
  <2>1. CASE \E c \in Channels, x \in Charges : RecordMutation(t, c, x)
    BY <1>1, <2>1 DEF RecordMutation
  <2>2. CASE AddMatchJob(t)
    BY <1>2, <2>2 DEF AddMatchJob, TypeOK
  <2>3. QED
    BY <1>4, <2>1, <2>2 DEF Scraper
<1>5. ASSUME NEW t \in Mutations, SearchInvoice(t) \/ NoMatch(t) PROVE PaidOnce'
  BY <1>2, <1>5 DEF SearchInvoice, NoMatch, TypeOK
<1>6. ASSUME NEW t \in Mutations, CommitMatch(t) PROVE PaidOnce'
  <2>1. payments[t] = <<>> /\ job[t].found \in Invoices
    BY <1>6 DEF CommitMatch, PaidOnce, TypeOK, Job
  <2>2. Len(payments'[t]) <= 1 /\ job'[t].state = "committed"
    BY <1>6, <2>1 DEF CommitMatch, Pay, TypeOK, Job
  <2>3. \A u \in Mutations \ {t} : job'[u] = job[u] /\ payments'[u] = payments[u]
    BY <1>6 DEF CommitMatch, Pay, TypeOK
  <2>4. QED
    BY <2>2, <2>3 DEF PaidOnce
<1>7. ASSUME NEW t \in Mutations, AnnouncePayment(t) \/ ActivateSubscription(t) PROVE PaidOnce'
  <2>1. \/ job'[t] = Finished(job[t])
        \/ job'[t] = [job[t] EXCEPT !.state = "announced"]
    BY <1>7 DEF AnnouncePayment, ActivateSubscription, TypeOK
  <2>2. job[t] \in Job
    BY DEF TypeOK
  <2>3. job'[t].state \in {"announced", "done"}
    BY <2>1, <2>2 DEF Finished, Job
  <2>4. QED
    BY <1>2, <1>7, <2>3 DEF AnnouncePayment, ActivateSubscription, TypeOK
<1>8. ASSUME NEW t \in Mutations, Fault(t) PROVE PaidOnce'
  BY <1>2, <1>8, FaultEffect, FaultBeforeCommit
<1>9. QED
  BY <1>1, <1>3, <1>4, <1>5, <1>6, <1>7, <1>8, StepCases DEF MatchStep

\* One bank mutation pays at most one invoice, through failed queries, lost jobs and
\* every interleaving of API calls, as long as nothing runs a job again after its
\* transaction.
THEOREM MutationPaysOnce ==
  ASSUME NoSecondRun
  PROVE  Spec => []EachMutationPaysOnce
<1>1. Init => NoManualMatch /\ PaidOnce
  BY DEF Init, NoManualMatch, PaidOnce
<1>2. NoManualMatch /\ [Next]_vars => NoManualMatch'
  BY NoManualStep DEF NoSecondRun
<1>3. TypeInv /\ NoManualMatch /\ PaidOnce /\ [Next]_vars => PaidOnce'
  BY PaidOnceStep
<1>4. PaidOnce => EachMutationPaysOnce
  BY DEF PaidOnce, EachMutationPaysOnce
<1>5. QED
  BY <1>1, <1>2, <1>3, <1>4, TypeInvariant, PTL DEF Spec

-----------------------------------------------------------------------------
(* No mutation is forgotten.                                               *)

\* Every attempt of the queue is an attempt of the row, and the queue has as many.
AttemptsAgree ==
  NoSecondRun /\ ~QueryFaults /\ ~EnqueueFaults /\ MaxAttempts <= JobAttempts

\* A waiting job and its row count the same attempts; a job that ended settled it.
Progress ==
  \A t \in Mutations :
    /\ job[t].state \in {"unsent", "wait", "searched"} =>
         tx[t].attempt = job[t].attemptsMade /\ tx[t].attempt < MaxAttempts
    /\ job[t].state \in {"committed", "announced", "done"} =>
         tx[t].status \in {"matched", "manual"}
    /\ job[t].state # "failed"

LEMMA ProgressStep ==
  ASSUME AttemptsAgree, NoManualMatch, TypeInv, Progress, [Next]_vars
  PROVE  Progress'
<1> USE DEF TypeInv, AttemptsAgree, NoSecondRun
<1>1. CASE UNCHANGED <<job, tx>>
  BY <1>1 DEF Progress
<1>2. ASSUME NEW t \in Mutations, job'[t].state \in {"committed", "announced", "done"},
             tx'[t].status \in {"matched", "manual"},
             \A u \in Mutations \ {t} : job'[u] = job[u] /\ tx'[u] = tx[u]
      PROVE  Progress'
  BY <1>2 DEF Progress
<1>3. ASSUME NEW call \in calls PROVE ~AdminMatchWrite(call)
  BY <1>3 DEF NoManualMatch, AdminMatchWrite
<1>4. ASSUME NEW t \in Mutations, NEW c \in Channels, NEW x \in Charges, RecordMutation(t, c, x)
      PROVE  Progress'
  <2>1. /\ tx'[t].attempt = tx[t].attempt /\ tx[t].status = "unseen" /\ job' = job
        /\ \A u \in Mutations \ {t} : tx'[u] = tx[u]
    BY <1>4 DEF RecordMutation, TypeOK, TxRow
  <2>2. QED
    BY <2>1 DEF Progress
<1>5. ASSUME NEW t \in Mutations, AddMatchJob(t) PROVE Progress'
  <2>1. job' = [job EXCEPT ![t].state = "wait"] /\ tx' = tx
    BY <1>5 DEF AddMatchJob
  <2>2. job'[t].state = "wait" /\ job'[t].attemptsMade = job[t].attemptsMade
    BY <2>1 DEF TypeOK, Job
  <2>3. QED
    BY <1>5, <2>1, <2>2 DEF AddMatchJob, Progress, TypeOK
<1>6. ASSUME NEW t \in Mutations, SearchInvoice(t) PROVE Progress'
  <2>1. PICK found \in FindInvoice(t) :
          job' = [job EXCEPT ![t].state = "searched", ![t].found = found]
    BY <1>6 DEF SearchInvoice
  <2>2. job'[t].state = "searched" /\ job'[t].attemptsMade = job[t].attemptsMade
    <3>1. job[t] \in Job /\ job'[t] = [job[t] EXCEPT !.state = "searched", !.found = found]
      BY <2>1 DEF TypeOK
    <3>2. QED
      BY <3>1 DEF Job
  <2>3. QED
    BY <1>6, <2>1, <2>2 DEF SearchInvoice, Progress, TypeOK
<1>7. ASSUME NEW t \in Mutations, NoMatch(t) PROVE Progress'
  <2>1. /\ tx[t].attempt = job[t].attemptsMade /\ tx[t].attempt \in Nat
        /\ job[t] \in Job /\ tx[t] \in TxRow
    BY <1>7 DEF NoMatch, Progress, TypeOK, TxRow
  <2>2. \A u \in Mutations \ {t} : job'[u] = job[u] /\ tx'[u] = tx[u]
    BY <1>7 DEF NoMatch, TypeOK
  <2>3. CASE LastAttempt(t)
    <3>1. job'[t] = Finished(job[t]) /\ tx'[t].status = "manual"
      BY <1>7, <2>1, <2>3 DEF NoMatch, TypeOK, TxRow
    <3>2. QED
      BY <1>2, <2>1, <2>2, <3>1 DEF Finished, Job
  <2>4. CASE ~LastAttempt(t)
    <3>1. tx[t].attempt + 1 < MaxAttempts /\ tx[t].attempt + 1 < JobAttempts
      BY <2>1, <2>4, MatchingAssumption DEF LastAttempt
    <3>2. job'[t] = Thrown(job[t]) /\ tx'[t].attempt = tx[t].attempt + 1
      BY <1>7, <2>1, <2>4 DEF NoMatch, TypeOK, TxRow
    <3>3. job'[t].state = "wait" /\ job'[t].attemptsMade = tx'[t].attempt
      BY <2>1, <3>1, <3>2 DEF Thrown, Job
    <3>4. QED
      BY <2>2, <3>1, <3>2, <3>3 DEF Progress
  <2>5. QED
    BY <2>3, <2>4
<1>8. ASSUME NEW t \in Mutations, CommitMatch(t) PROVE Progress'
  <2>1. job'[t].state = "committed" /\ tx'[t].status = "matched"
    BY <1>8 DEF CommitMatch, Pay, TypeOK, Job, TxRow
  <2>2. \A u \in Mutations \ {t} : job'[u] = job[u] /\ tx'[u] = tx[u]
    BY <1>8 DEF CommitMatch, Pay, TypeOK
  <2>3. QED
    BY <1>2, <2>1, <2>2
<1>9. ASSUME NEW t \in Mutations, AnnouncePayment(t) \/ ActivateSubscription(t) PROVE Progress'
  <2>1. job'[t].state \in {"announced", "done"} /\ job[t].state \in {"committed", "announced"}
    BY <1>9 DEF AnnouncePayment, ReadyToAnnounce, ActivateSubscription, Finished, TypeOK, Job
  <2>2. tx' = tx /\ \A u \in Mutations \ {t} : job'[u] = job[u]
    BY <1>9 DEF AnnouncePayment, ActivateSubscription, TypeOK
  <2>3. QED
    BY <1>2, <2>1, <2>2 DEF Progress
<1>10. ASSUME NEW t \in Mutations, Fault(t) PROVE Progress'
  BY <1>2, <1>10, FaultEffect, FaultBeforeCommit DEF Progress
<1>11. QED
  BY <1>1, <1>3, <1>4, <1>5, <1>6, <1>7, <1>8, <1>9, <1>10, StepCases DEF Scraper, MatchStep

\* Without faults, and with a queue that has as many attempts as the row, a job
\* never ends before its mutation is matched or in manual review.
THEOREM NoneStranded ==
  ASSUME AttemptsAgree
  PROVE  Spec => []NoMutationStranded
<1>1. Init => NoManualMatch /\ Progress
  BY MatchingAssumption DEF Init, NoManualMatch, Progress
<1>2. NoManualMatch /\ [Next]_vars => NoManualMatch'
  BY NoManualStep DEF AttemptsAgree, NoSecondRun
<1>3. TypeInv /\ NoManualMatch /\ Progress /\ [Next]_vars => Progress'
  BY ProgressStep
<1>4. Progress => NoMutationStranded
  BY DEF Progress, NoMutationStranded
<1>5. QED
  BY <1>1, <1>2, <1>3, <1>4, TypeInvariant, PTL DEF Spec

(***************************************************************************)
(* How soon the bank is read.                                              *)
(***************************************************************************)
BillState == [status : {"none", "pending", "confirmed", "closed"}, age : Nat, wait : Nat]

TimingTypes ==
  /\ next \in Nat /\ bills \in [Invoices -> BillState]
  /\ poll \in [at : {"rest", "read", "confirmed", "pending", "counted", "free", "set"},
               due : BOOLEAN, confirmed : SUBSET Invoices, pending : BOOLEAN, old : BOOLEAN]
  /\ polled \in BOOLEAN /\ waiting \in Nat /\ scraping \in Nat

\* Nobody waits during a scrape, nor before what a confirmation writes is written.
NoneWaits ==
  /\ scraping > 0 => \A i \in Invoices : bills[i].wait = 0
  /\ \A i \in Invoices : <<i, "confirm">> \in pushing => bills[i].wait = 0

\* The ticks waited and those to come are within the shortest interval, unless a job is
\* there or about to be; a poll that got through, or found the channel not due, leaves
\* one tick at least.
WaitIsShort(i) ==
  /\ bills[i].wait <= High
  /\ \/ <<i, "confirm">> \in pushing
     \/ /\ next <= High
        /\ bills[i].wait + next <= High \/ poll.at = "set" \/ waiting > 0
  /\ polled => bills[i].wait < High \/ waiting > 0
  /\ poll.at \in {"read", "confirmed", "pending", "counted"} /\ ~ poll.due =>
       bills[i].wait < High \/ waiting > 0

AllShort == excuse = {} => \A i \in Timing!Prompted : WaitIsShort(i)

TimingInv == TimingTypes /\ NoneWaits /\ AllShort

\* Types.
LEMMA TimingTypesStep ==
  TimingTypes /\ [Timing!Next]_(Timing!vars) => TimingTypes'
<1> SUFFICES ASSUME TimingTypes, [Timing!Next]_(Timing!vars)
             PROVE  TimingTypes'
  OBVIOUS
<1>1. ASSUME NEW i \in Invoices, Timing!Selects(i)
      PROVE  TimingTypes'
  BY <1>1, TimingAssumption DEF Timing!Selects, TimingTypes, BillState, Timing!Becomes
<1>2. ASSUME NEW i \in Invoices, Timing!Confirms(i)
      PROVE  TimingTypes'
  BY <1>2, TimingAssumption DEF Timing!Confirms, TimingTypes, BillState, Timing!Becomes
<1>3. ASSUME NEW i \in Invoices, Timing!Cancels(i)
      PROVE  TimingTypes'
  BY <1>3, TimingAssumption DEF Timing!Cancels, TimingTypes, BillState, Timing!Becomes
<1>4. ASSUME NEW i \in Invoices, Timing!Closes(i)
      PROVE  TimingTypes'
  BY <1>4, TimingAssumption DEF Timing!Closes, TimingTypes, BillState, Timing!Becomes
<1>5. CASE Timing!Pushes
  BY <1>5, TimingAssumption DEF Timing!Pushes, TimingTypes, BillState, Timing!Writes,
    Timing!Unwaited
<1>6. CASE Timing!HandlerDies
  BY <1>6, TimingAssumption DEF Timing!HandlerDies, TimingTypes, BillState
<1>7. CASE Timing!CancelCounts
  BY <1>7, TimingAssumption DEF Timing!CancelCounts, TimingTypes, BillState, Timing!With
<1>8. CASE Timing!CancelPostpones
  BY <1>8, TimingAssumption DEF Timing!CancelPostpones, TimingTypes, BillState,
    Timing!Writes
<1>9. CASE Timing!CancelDies
  BY <1>9, TimingAssumption DEF Timing!CancelDies, TimingTypes, BillState
<1>10. CASE Timing!PollReads
  BY <1>10, TimingAssumption DEF Timing!PollReads, TimingTypes, BillState, Timing!AtRest
<1>11. CASE Timing!PollCountsConfirmed
  BY <1>11, TimingAssumption DEF Timing!PollCountsConfirmed, TimingTypes, BillState,
    Timing!With
<1>12. CASE Timing!PollCountsPending
  BY <1>12, TimingAssumption DEF Timing!PollCountsPending, TimingTypes, BillState,
    Timing!With
<1>13. CASE Timing!PollChecksOldest
  BY <1>13, TimingAssumption DEF Timing!PollChecksOldest, TimingTypes, BillState,
    Timing!With
<1>14. CASE Timing!PollSkips
  BY <1>14, TimingAssumption DEF Timing!PollSkips, TimingTypes, BillState, Timing!AtRest
<1>15. CASE Timing!PollListsJobs
  BY <1>15, TimingAssumption DEF Timing!PollListsJobs, TimingTypes, BillState
<1>16. CASE Timing!PollSetsNext
  BY <1>16, TimingAssumption DEF Timing!PollSetsNext, TimingTypes, BillState,
    Timing!With, Timing!Writes, Timing!Unwaited, Timing!Interval
<1>17. CASE Timing!PollAddsJob
  BY <1>17, TimingAssumption DEF Timing!PollAddsJob, TimingTypes, BillState, Timing!AtRest
<1>18. CASE Timing!PollFails
  BY <1>18, TimingAssumption DEF Timing!PollFails, TimingTypes, BillState, Timing!AtRest
<1>19. CASE Timing!ScrapeBegins
  BY <1>19, TimingAssumption DEF Timing!ScrapeBegins, TimingTypes, BillState,
    Timing!Unwaited
<1>20. CASE Timing!ScrapeFails
  BY <1>20, TimingAssumption DEF Timing!ScrapeFails, TimingTypes, BillState
<1>21. CASE Timing!ScrapeEnds
  BY <1>21, TimingAssumption DEF Timing!ScrapeEnds, TimingTypes, BillState
<1>22. CASE Timing!BankAsksToWait
  BY <1>22, TimingAssumption DEF Timing!BankAsksToWait, TimingTypes, BillState,
    Timing!Writes
<1>23. CASE Timing!Restarts
  BY <1>23, TimingAssumption DEF Timing!Restarts, TimingTypes, BillState, Timing!AtRest,
    Timing!Writes, Timing!Unwaited
<1>24. CASE Timing!Tick
  <2>1. \A i \in Invoices : Timing!Later(bills[i]) \in BillState
    <3> SUFFICES ASSUME NEW b \in BillState
                 PROVE  Timing!Later(b) \in BillState
      BY DEF TimingTypes, BillState
    <3> DEFINE a == IF b.age > HighTimeout THEN b.age ELSE b.age + 1
               w == IF scraping > 0 \/ b.wait > High THEN b.wait ELSE b.wait + 1
    <3>1. a \in Nat /\ w \in Nat
      BY DEF BillState
    <3>2. Timing!Later(b) = IF b.status # "confirmed" THEN b ELSE [b EXCEPT !.age = a, !.wait = w]
      BY DEF Timing!Later
    <3> HIDE DEF a, w
    <3> QED BY <3>1, <3>2 DEF BillState
  <2>2. bills' = [i \in Invoices |-> Timing!Later(bills[i])]
    BY <1>24 DEF Timing!Tick
  <2>3. bills' \in [Invoices -> BillState]
    BY <2>1, <2>2
  <2>4. next' \in Nat
    BY <1>24 DEF Timing!Tick, TimingTypes
  <2>5. polled' \in BOOLEAN
    BY <1>24 DEF Timing!Tick
  <2>6. UNCHANGED <<poll, waiting, scraping>>
    BY <1>24 DEF Timing!Tick
  <2> QED BY <2>3, <2>4, <2>5, <2>6 DEF TimingTypes
<1>25. CASE UNCHANGED Timing!vars
  BY <1>25 DEF Timing!vars, TimingTypes, BillState
<1> QED BY <1>1, <1>2, <1>3, <1>4, <1>5, <1>6, <1>7, <1>8, <1>9, <1>10, <1>11, <1>12,
  <1>13, <1>14, <1>15, <1>16, <1>17, <1>18, <1>19, <1>20, <1>21, <1>22, <1>23, <1>24,
  <1>25 DEF Timing!Next, Timing!Poll

\* A scrape starts the wait anew, and time stands still while a handler writes.
LEMMA NoneWaitsStep ==
  TimingTypes /\ NoneWaits /\ [Timing!Next]_(Timing!vars) => NoneWaits'
<1> SUFFICES ASSUME TimingTypes, NoneWaits, [Timing!Next]_(Timing!vars)
             PROVE  NoneWaits'
  OBVIOUS
<1>1. ASSUME NEW i \in Invoices, Timing!Selects(i)
      PROVE  NoneWaits'
  BY <1>1, TimingAssumption DEF Timing!Selects, TimingTypes, BillState, NoneWaits,
    Timing!Becomes
<1>2. ASSUME NEW i \in Invoices, Timing!Confirms(i)
      PROVE  NoneWaits'
  BY <1>2, TimingAssumption DEF Timing!Confirms, TimingTypes, BillState, NoneWaits,
    Timing!Becomes
<1>3. ASSUME NEW i \in Invoices, Timing!Cancels(i)
      PROVE  NoneWaits'
  BY <1>3, TimingAssumption DEF Timing!Cancels, TimingTypes, BillState, NoneWaits,
    Timing!Becomes
<1>4. ASSUME NEW i \in Invoices, Timing!Closes(i)
      PROVE  NoneWaits'
  BY <1>4, TimingAssumption DEF Timing!Closes, TimingTypes, BillState, NoneWaits,
    Timing!Becomes
<1>5. CASE Timing!Pushes
  BY <1>5, TimingAssumption DEF Timing!Pushes, TimingTypes, BillState, NoneWaits,
    Timing!Writes, Timing!Unwaited
<1>6. CASE Timing!HandlerDies
  BY <1>6, TimingAssumption DEF Timing!HandlerDies, TimingTypes, BillState, NoneWaits
<1>7. CASE Timing!CancelCounts
  BY <1>7, TimingAssumption DEF Timing!CancelCounts, TimingTypes, BillState, NoneWaits,
    Timing!With
<1>8. CASE Timing!CancelPostpones
  BY <1>8, TimingAssumption DEF Timing!CancelPostpones, TimingTypes, BillState,
    NoneWaits, Timing!Writes
<1>9. CASE Timing!CancelDies
  BY <1>9, TimingAssumption DEF Timing!CancelDies, TimingTypes, BillState, NoneWaits
<1>10. CASE Timing!PollReads
  BY <1>10, TimingAssumption DEF Timing!PollReads, TimingTypes, BillState, NoneWaits,
    Timing!AtRest
<1>11. CASE Timing!PollCountsConfirmed
  BY <1>11, TimingAssumption DEF Timing!PollCountsConfirmed, TimingTypes, BillState,
    NoneWaits, Timing!With
<1>12. CASE Timing!PollCountsPending
  BY <1>12, TimingAssumption DEF Timing!PollCountsPending, TimingTypes, BillState,
    NoneWaits, Timing!With
<1>13. CASE Timing!PollChecksOldest
  BY <1>13, TimingAssumption DEF Timing!PollChecksOldest, TimingTypes, BillState,
    NoneWaits, Timing!With
<1>14. CASE Timing!PollSkips
  BY <1>14, TimingAssumption DEF Timing!PollSkips, TimingTypes, BillState, NoneWaits,
    Timing!AtRest
<1>15. CASE Timing!PollListsJobs
  BY <1>15, TimingAssumption DEF Timing!PollListsJobs, TimingTypes, BillState, NoneWaits
<1>16. CASE Timing!PollSetsNext
  BY <1>16, TimingAssumption DEF Timing!PollSetsNext, TimingTypes, BillState, NoneWaits,
    Timing!With, Timing!Writes, Timing!Unwaited, Timing!Interval
<1>17. CASE Timing!PollAddsJob
  BY <1>17, TimingAssumption DEF Timing!PollAddsJob, TimingTypes, BillState, NoneWaits,
    Timing!AtRest
<1>18. CASE Timing!PollFails
  BY <1>18, TimingAssumption DEF Timing!PollFails, TimingTypes, BillState, NoneWaits,
    Timing!AtRest
<1>19. CASE Timing!ScrapeBegins
  BY <1>19, TimingAssumption DEF Timing!ScrapeBegins, TimingTypes, BillState, NoneWaits,
    Timing!Unwaited
<1>20. CASE Timing!ScrapeFails
  BY <1>20, TimingAssumption DEF Timing!ScrapeFails, TimingTypes, BillState, NoneWaits
<1>21. CASE Timing!ScrapeEnds
  BY <1>21, TimingAssumption DEF Timing!ScrapeEnds, TimingTypes, BillState, NoneWaits
<1>22. CASE Timing!BankAsksToWait
  BY <1>22, TimingAssumption DEF Timing!BankAsksToWait, TimingTypes, BillState,
    NoneWaits, Timing!Writes
<1>23. CASE Timing!Restarts
  BY <1>23, TimingAssumption DEF Timing!Restarts, TimingTypes, BillState, NoneWaits,
    Timing!AtRest, Timing!Writes, Timing!Unwaited
<1>24. CASE Timing!Tick
  BY <1>24, TimingAssumption DEF Timing!Tick, TimingTypes, BillState, NoneWaits,
    Timing!Later
<1>25. CASE UNCHANGED Timing!vars
  BY <1>25 DEF Timing!vars, TimingTypes, BillState, NoneWaits
<1> QED BY <1>1, <1>2, <1>3, <1>4, <1>5, <1>6, <1>7, <1>8, <1>9, <1>10, <1>11, <1>12,
  <1>13, <1>14, <1>15, <1>16, <1>17, <1>18, <1>19, <1>20, <1>21, <1>22, <1>23, <1>24,
  <1>25 DEF Timing!Next, Timing!Poll

\* Each step leaves a confirmed payment's wait short, or an excuse.
LEMMA WaitStep ==
  TimingTypes /\ NoneWaits /\ AllShort /\ [Timing!Next]_(Timing!vars) => AllShort'
<1> SUFFICES ASSUME TimingTypes, NoneWaits, AllShort, [Timing!Next]_(Timing!vars)
             PROVE  AllShort'
  OBVIOUS
<1>1. ASSUME NEW i \in Invoices, Timing!Selects(i)
      PROVE  AllShort'
  BY <1>1, TimingAssumption DEF Timing!Selects, AllShort, TimingTypes, BillState,
    NoneWaits, WaitIsShort, Timing!With, Timing!Becomes, Timing!Prompted
<1>2. ASSUME NEW i \in Invoices, Timing!Confirms(i)
      PROVE  AllShort'
  <2> SUFFICES ASSUME excuse' = {}, NEW j \in Timing!Prompted'
               PROVE  WaitIsShort(j)'
    BY DEF AllShort
  <2>0. /\ j \in Invoices /\ bills[j].wait \in Nat /\ bills[j].age \in Nat
        /\ next \in Nat /\ waiting \in Nat
    BY DEF TimingTypes, BillState, Timing!Prompted, Timing!With
  <2>1. /\ UNCHANGED <<next, poll, polled, waiting, excuse>>
        /\ pushing' = pushing \cup {<<i, "confirm">>}
    BY <1>2 DEF Timing!Confirms
  <2>2. j = i => bills'[j].wait = 0
    BY <2>0, <1>2 DEF Timing!Confirms, Timing!Becomes, TimingTypes, BillState
  <2>3. j # i => bills'[j] = bills[j]
    BY <2>0, <1>2 DEF Timing!Confirms, Timing!Becomes, TimingTypes, BillState
  <2>4. j # i => WaitIsShort(j)
    BY <2>0, <2>1, <2>3 DEF AllShort, Timing!Prompted, Timing!With
  <2> QED BY <2>0, <2>1, <2>2, <2>3, <2>4, TimingAssumption DEF WaitIsShort
<1>3. ASSUME NEW i \in Invoices, Timing!Cancels(i)
      PROVE  AllShort'
  BY <1>3, TimingAssumption DEF Timing!Cancels, AllShort, TimingTypes, BillState,
    NoneWaits, WaitIsShort, Timing!With, Timing!Becomes, Timing!Prompted
<1>4. ASSUME NEW i \in Invoices, Timing!Closes(i)
      PROVE  AllShort'
  BY <1>4, TimingAssumption DEF Timing!Closes, AllShort, TimingTypes, BillState,
    NoneWaits, WaitIsShort, Timing!With, Timing!Becomes, Timing!Prompted
<1>5. CASE Timing!Pushes
  <2> SUFFICES ASSUME excuse' = {}, NEW j \in Timing!Prompted'
               PROVE  WaitIsShort(j)'
    BY DEF AllShort
  <2>0. /\ j \in Invoices /\ bills[j].wait \in Nat /\ bills[j].age \in Nat
        /\ next \in Nat /\ waiting \in Nat
    BY DEF TimingTypes, BillState, Timing!Prompted, Timing!With
  <2>1. next' = 0 /\ UNCHANGED <<poll, polled, waiting>>
    BY <1>5 DEF Timing!Pushes, Timing!Writes
  <2>2. excuse # {} => bills'[j].wait = 0
    BY <2>0, <1>5 DEF Timing!Pushes, Timing!Unwaited, TimingTypes, BillState
  <2>3. excuse = {} => bills' = bills /\ WaitIsShort(j)
    BY <1>5 DEF Timing!Pushes, AllShort, Timing!Prompted, Timing!With
  <2> QED BY <2>0, <2>1, <2>2, <2>3, TimingAssumption DEF WaitIsShort
<1>6. CASE Timing!HandlerDies
  BY <1>6, TimingAssumption DEF Timing!HandlerDies, AllShort, TimingTypes, BillState,
    NoneWaits, WaitIsShort, Timing!With, Timing!Prompted
<1>7. CASE Timing!CancelCounts
  BY <1>7, TimingAssumption DEF Timing!CancelCounts, AllShort, TimingTypes, BillState,
    NoneWaits, WaitIsShort, Timing!With, Timing!Prompted
<1>8. CASE Timing!CancelPostpones
  BY <1>8, TimingAssumption DEF Timing!CancelPostpones, AllShort, TimingTypes, BillState,
    NoneWaits, WaitIsShort, Timing!With, Timing!Writes, Timing!Prompted
<1>9. CASE Timing!CancelDies
  BY <1>9, TimingAssumption DEF Timing!CancelDies, AllShort, TimingTypes, BillState,
    NoneWaits, WaitIsShort, Timing!With, Timing!Prompted
<1>10. CASE Timing!PollReads
  <2> SUFFICES ASSUME excuse' = {}, NEW j \in Timing!Prompted'
               PROVE  WaitIsShort(j)'
    BY DEF AllShort
  <2>0. /\ j \in Invoices /\ bills[j].wait \in Nat /\ bills[j].age \in Nat
        /\ next \in Nat /\ waiting \in Nat
    BY DEF TimingTypes, BillState, Timing!Prompted, Timing!With
  <2>1. WaitIsShort(j) /\ UNCHANGED <<bills, excuse, next, pushing, waiting, polled>>
    BY <1>10 DEF Timing!PollReads, AllShort, Timing!Prompted, Timing!With
  <2>2. poll.at = "rest" /\ poll'.at = "read" /\ poll'.due = (next = 0)
    <3> DEFINE d == next = 0
               rest == Timing!AtRest
               asked == [rest EXCEPT !.at = "read"]
    <3>1. poll.at = "rest" /\ poll' = [rest EXCEPT !.at = "read", !.due = d]
      BY <1>10 DEF Timing!PollReads
    <3>2. "at" \in DOMAIN rest /\ "due" \in DOMAIN rest
      BY DEF Timing!AtRest
    <3> HIDE DEF d, rest
    <3>3. poll'.at = "read" /\ poll'.due = d
      BY <3>1, <3>2
    <3> QED BY <3>1, <3>3 DEF d
  <2>3. next # 0 => bills[j].wait < High \/ waiting > 0
    BY <2>0, <2>1, <2>2, TimingAssumption DEF WaitIsShort, NoneWaits
  <2> QED BY <2>0, <2>1, <2>2, <2>3 DEF WaitIsShort
<1>11. CASE Timing!PollCountsConfirmed
  BY <1>11, TimingAssumption DEF Timing!PollCountsConfirmed, AllShort, TimingTypes,
    BillState, NoneWaits, WaitIsShort, Timing!With, Timing!Prompted
<1>12. CASE Timing!PollCountsPending
  BY <1>12, TimingAssumption DEF Timing!PollCountsPending, AllShort, TimingTypes,
    BillState, NoneWaits, WaitIsShort, Timing!With, Timing!Prompted
<1>13. CASE Timing!PollChecksOldest
  BY <1>13, TimingAssumption DEF Timing!PollChecksOldest, AllShort, TimingTypes,
    BillState, NoneWaits, WaitIsShort, Timing!With, Timing!Prompted
<1>14. CASE Timing!PollSkips
  <2> SUFFICES ASSUME excuse' = {}, NEW j \in Timing!Prompted'
               PROVE  WaitIsShort(j)'
    BY DEF AllShort
  <2>0. /\ j \in Invoices /\ bills[j].wait \in Nat /\ bills[j].age \in Nat
        /\ next \in Nat /\ waiting \in Nat
    BY DEF TimingTypes, BillState, Timing!Prompted, Timing!With
  <2>1. WaitIsShort(j) /\ UNCHANGED <<bills, excuse, next, pushing, waiting>>
    BY <1>14 DEF Timing!PollSkips, AllShort, Timing!Prompted, Timing!With
  <2>2. poll.at = "counted" /\ poll'.at = "rest" /\ (poll.due => bills[j].wait = 0)
    BY <2>0, <1>14 DEF Timing!PollSkips, Timing!AtRest, NoneWaits, TimingTypes, BillState
  <2> QED BY <2>0, <2>1, <2>2, TimingAssumption DEF WaitIsShort
<1>15. CASE Timing!PollListsJobs
  BY <1>15, TimingAssumption DEF Timing!PollListsJobs, AllShort, TimingTypes, BillState,
    NoneWaits, WaitIsShort, Timing!With, Timing!Prompted
<1>16. CASE Timing!PollSetsNext
  <2> SUFFICES ASSUME excuse' = {}, NEW j \in Timing!Prompted'
               PROVE  WaitIsShort(j)'
    BY DEF AllShort
  <2>0. /\ j \in Invoices /\ bills[j].wait \in Nat /\ bills[j].age \in Nat
        /\ next \in Nat /\ waiting \in Nat
    BY DEF TimingTypes, BillState, Timing!Prompted, Timing!With
  <2>1. poll.at = "free" /\ poll'.at = "set" /\ UNCHANGED <<polled, waiting, pushing>>
    BY <1>16 DEF Timing!PollSetsNext, TimingTypes, BillState
  <2>2. j \in Timing!With("confirmed")
    BY <1>16, <2>0 DEF Timing!PollSetsNext, Timing!Unwaited, TimingTypes, BillState,
      Timing!Prompted, Timing!With
  <2>3. j \in poll.confirmed /\ ~ poll.old
    BY <2>2, <1>16 DEF Timing!PollSetsNext, Timing!Writes
  <2>4. Timing!Interval = High
    BY <2>3 DEF Timing!Interval
  <2>5. next' = High
    BY <2>4, <1>16 DEF Timing!PollSetsNext, Timing!Writes
  <2>6. excuse # {} => bills'[j].wait = 0
    BY <2>0, <1>16 DEF Timing!PollSetsNext, Timing!Unwaited, TimingTypes, BillState
  <2>7. excuse = {} => bills' = bills /\ WaitIsShort(j)
    BY <1>16 DEF Timing!PollSetsNext, AllShort, Timing!Prompted, Timing!With
  <2> QED BY <2>0, <2>1, <2>2, <2>3, <2>4, <2>5, <2>6, <2>7,
    TimingAssumption DEF WaitIsShort
<1>17. CASE Timing!PollAddsJob
  <2> SUFFICES ASSUME excuse' = {}, NEW j \in Timing!Prompted'
               PROVE  WaitIsShort(j)'
    BY DEF AllShort
  <2>0. /\ j \in Invoices /\ bills[j].wait \in Nat /\ bills[j].age \in Nat
        /\ next \in Nat /\ waiting \in Nat
    BY DEF TimingTypes, BillState, Timing!Prompted, Timing!With
  <2>1. WaitIsShort(j) /\ UNCHANGED <<bills, excuse, next, pushing>>
    BY <1>17 DEF Timing!PollAddsJob, AllShort, Timing!Prompted, Timing!With
  <2>2. waiting' = waiting + 1 /\ poll'.at = "rest"
    BY <1>17 DEF Timing!PollAddsJob, Timing!AtRest
  <2> QED BY <2>0, <2>1, <2>2, TimingAssumption DEF WaitIsShort
<1>18. CASE Timing!PollFails
  BY <1>18, TimingAssumption DEF Timing!PollFails, AllShort, TimingTypes, BillState,
    NoneWaits, WaitIsShort, Timing!AtRest, Timing!With, Timing!Prompted
<1>19. CASE Timing!ScrapeBegins
  <2> SUFFICES ASSUME excuse' = {}, NEW j \in Timing!Prompted'
               PROVE  WaitIsShort(j)'
    BY DEF AllShort
  <2>0. /\ j \in Invoices /\ bills[j].wait \in Nat /\ bills[j].age \in Nat
        /\ next \in Nat /\ waiting \in Nat
    BY DEF TimingTypes, BillState, Timing!Prompted, Timing!With
  <2>1. bills'[j].wait = 0 /\ excuse = {} /\ UNCHANGED <<next, poll, polled, pushing>>
    BY <2>0, <1>19 DEF Timing!ScrapeBegins, Timing!Unwaited, TimingTypes, BillState
  <2>2. j \in Timing!Prompted
    BY <2>0, <1>19 DEF Timing!ScrapeBegins, Timing!Unwaited, TimingTypes, BillState,
      Timing!Prompted, Timing!With
  <2>3. WaitIsShort(j)
    BY <2>1, <2>2 DEF AllShort
  <2> QED BY <2>0, <2>1, <2>2, <2>3, TimingAssumption DEF WaitIsShort
<1>20. CASE Timing!ScrapeFails
  <2> SUFFICES ASSUME excuse' = {}, NEW j \in Timing!Prompted'
               PROVE  WaitIsShort(j)'
    BY DEF AllShort
  <2>0. /\ j \in Invoices /\ bills[j].wait \in Nat /\ bills[j].age \in Nat
        /\ next \in Nat /\ waiting \in Nat
    BY DEF TimingTypes, BillState, Timing!Prompted, Timing!With
  <2>1. WaitIsShort(j) /\ UNCHANGED <<bills, excuse, next, poll, polled, pushing>>
    BY <1>20 DEF Timing!ScrapeFails, AllShort, Timing!Prompted, Timing!With
  <2>2. waiting' = waiting + 1
    BY <1>20 DEF Timing!ScrapeFails
  <2> QED BY <2>0, <2>1, <2>2, TimingAssumption DEF WaitIsShort
<1>21. CASE Timing!ScrapeEnds
  BY <1>21, TimingAssumption DEF Timing!ScrapeEnds, AllShort, TimingTypes, BillState,
    NoneWaits, WaitIsShort, Timing!With, Timing!Prompted
<1>22. CASE Timing!BankAsksToWait
  BY <1>22, TimingAssumption DEF Timing!BankAsksToWait, AllShort, TimingTypes, BillState,
    NoneWaits, WaitIsShort, Timing!With, Timing!Writes, Timing!Prompted
<1>23. CASE Timing!Restarts
  <2> SUFFICES ASSUME excuse' = {}, NEW j \in Timing!Prompted'
               PROVE  WaitIsShort(j)'
    BY DEF AllShort
  <2>0. /\ j \in Invoices /\ bills[j].wait \in Nat /\ bills[j].age \in Nat
        /\ next \in Nat /\ waiting \in Nat
    BY DEF TimingTypes, BillState, Timing!Prompted, Timing!With
  <2>1. poll'.at = "rest" /\ polled' = polled /\ waiting' \in Nat /\ (waiting > 0 => waiting' > 0) /\ pushing' = pushing
    BY <2>0, <1>23 DEF Timing!Restarts, Timing!AtRest, TimingTypes, BillState
  <2>2. excuse # {} => next' = 0 /\ bills'[j].wait = 0
    BY <2>0, <1>23 DEF Timing!Restarts, Timing!Writes, Timing!Unwaited, TimingTypes,
      BillState
  <2>3. excuse = {} => bills' = bills /\ WaitIsShort(j)
    BY <1>23 DEF Timing!Restarts, AllShort, Timing!Prompted, Timing!With
  <2>4. next' = 0 \/ (next' = next /\ poll.at # "set")
    BY <1>23 DEF Timing!Restarts, Timing!Writes
  <2> QED BY <2>0, <2>1, <2>2, <2>3, <2>4, TimingAssumption DEF WaitIsShort
<1>24. CASE Timing!Tick
  <2> SUFFICES ASSUME excuse' = {}, NEW j \in Timing!Prompted'
               PROVE  WaitIsShort(j)'
    BY DEF AllShort
  <2>0. /\ j \in Invoices /\ bills[j].wait \in Nat /\ bills[j].age \in Nat
        /\ next \in Nat /\ waiting \in Nat
    BY DEF TimingTypes, BillState, Timing!Prompted, Timing!With
  <2>1. bills'[j] = Timing!Later(bills[j])
    BY <2>0, <1>24 DEF Timing!Tick
  <2>2. bills[j] \in [status : {"none", "pending", "confirmed", "closed"}, age : Nat, wait : Nat]
    BY <2>0 DEF TimingTypes, BillState
  <2>3. bills'[j].status = "confirmed" /\ bills'[j].age <= HighTimeout
    BY DEF Timing!Prompted, Timing!With
  <2>4. bills[j].status = "confirmed"
    BY <2>1, <2>2, <2>3 DEF Timing!Later
  <2>5. bills'[j].age = IF bills[j].age > HighTimeout THEN bills[j].age ELSE bills[j].age + 1
    BY <2>1, <2>2, <2>4 DEF Timing!Later
  <2>6. bills[j].age <= HighTimeout
    BY <2>0, <2>3, <2>5, TimingAssumption
  <2>7. j \in Timing!Prompted
    BY <2>0, <2>4, <2>6 DEF Timing!Prompted, Timing!With
  <2>8. excuse = {} /\ WaitIsShort(j)
    BY <2>7, <1>24 DEF Timing!Tick, AllShort
  <2>9. polled /\ waiting = 0 /\ poll.at = "rest" /\ pushing = {}
    BY <1>24 DEF Timing!Tick
  <2>10. bills[j].wait < High /\ bills[j].wait + next <= High
    BY <2>8, <2>9, <2>0, TimingAssumption DEF WaitIsShort
  <2>11. bills'[j].wait \in {bills[j].wait, bills[j].wait + 1}
    BY <2>1, <2>2 DEF Timing!Later
  <2>12. next' = (IF next = 0 THEN 0 ELSE next - 1) /\ ~ polled' /\ poll'.at = "rest"
    BY <1>24 DEF Timing!Tick
  <2> QED BY <2>0, <2>1, <2>2, <2>3, <2>4, <2>5, <2>6, <2>7, <2>8, <2>9, <2>10, <2>11,
    <2>12, TimingAssumption DEF WaitIsShort
<1>25. CASE UNCHANGED Timing!vars
  BY <1>25 DEF Timing!vars, AllShort, TimingTypes, BillState, NoneWaits, WaitIsShort,
    Timing!With, Timing!Prompted
<1> QED BY <1>1, <1>2, <1>3, <1>4, <1>5, <1>6, <1>7, <1>8, <1>9, <1>10, <1>11, <1>12,
  <1>13, <1>14, <1>15, <1>16, <1>17, <1>18, <1>19, <1>20, <1>21, <1>22, <1>23, <1>24,
  <1>25 DEF Timing!Next, Timing!Poll

\* A confirmed payment waits no longer than the shortest interval for a scrape, but for
\* the reasons PromptIsKept names: scheduler.js, scrape.worker.js and pay.js, for any
\* intervals, back-offs, invoices and jobs.
THEOREM PromptHolds == Timing!Spec => []PromptIsKept
<1>1. Timing!Init => TimingInv
  <2> SUFFICES ASSUME Timing!Init
               PROVE  TimingInv
    OBVIOUS
  <2>1. TimingTypes
    BY TimingAssumption DEF Timing!Init, TimingTypes, BillState, Timing!AtRest
  <2>2. \A i \in Invoices : bills[i].status = "none" /\ bills[i].wait = 0
    BY DEF Timing!Init
  <2>3. NoneWaits
    BY <2>2 DEF NoneWaits
  <2>4. AllShort
    BY <2>2 DEF AllShort, Timing!Prompted, Timing!With
  <2> QED BY <2>1, <2>3, <2>4 DEF TimingInv
<1>2. TimingInv /\ [Timing!Next]_(Timing!vars) => TimingInv'
  BY TimingTypesStep, NoneWaitsStep, WaitStep DEF TimingInv
<1>3. TimingInv => PromptIsKept
  BY DEF TimingInv, AllShort, WaitIsShort, PromptIsKept, Timing!PromptIsKept
<1> QED BY <1>1, <1>2, <1>3, PTL DEF Timing!Spec

(***************************************************************************)
(* The list that follows what happens.                                     *)
(***************************************************************************)
ListRow == [open : BOOLEAN, view : Views \cup {FirstView}, of : Views \cup {FirstView},
            rows : SUBSET Changes]

LoadRow == [n : 1..MaxLoads, view : Views \cup {FirstView}, at : {"asked", "read"},
            rows : SUBSET Changes]

ListTypes ==
  /\ list \in ListRow /\ loads \subseteq LoadRow
  /\ stream \in [at : {"asked", "open", "on", "ended"}, first : BOOLEAN, good : BOOLEAN]
  /\ committed \subseteq Changes /\ unpublished \subseteq Changes /\ events \subseteq Changes

\* Only what happened is read, and a stream that was opened is not the first.
OnlyCommitted ==
  /\ list.rows \subseteq committed /\ \A l \in loads : l.rows \subseteq committed
  /\ stream.at \in {"open", "on"} => ~ stream.first

\* What brings a change to the page: an event, a read, or the stream when it is opened
\* again, which tells all but the balance to read.
OnItsWay(c) ==
  \/ c \in unpublished \cup events
  \/ \E l \in loads : l.at = "asked" \/ c \in l.rows
  \/ kind # "balance" /\ stream.at \in {"asked", "ended"} /\ ~ stream.first

NoneIsLost ==
  list.open /\ why \cap {"missed", "failed", "overtaken"} = {} =>
    \A c \in committed : c \in list.rows \/ OnItsWay(c)

ViewIsAsked ==
  list.open /\ why \cap {"failed", "otherView"} = {} =>
    list.of = list.view \/ \E l \in loads : l.view = list.view

ListInv == ListTypes /\ OnlyCommitted /\ NoneIsLost /\ ViewIsAsked

\* A read is asked with no rows yet, and those under way go on.
LEMMA LoadsRow ==
  ASSUME NEW v \in Views \cup {FirstView}, Lists!Loads(v)
  PROVE  /\ loads \subseteq loads'
         /\ \A l \in loads' : l \in loads \/ (l \in LoadRow /\ l.rows = {})
         /\ \E l \in loads' : l.at = "asked" /\ l.view = v
<1>1. PICK n \in 1 .. MaxLoads :
        loads' = loads \cup {[n |-> n, view |-> v, at |-> "asked", rows |-> {}]}
  BY DEF Lists!Loads, Lists!FreeNumbers
<1> DEFINE l == [n |-> n, view |-> v, at |-> "asked", rows |-> {}]
<1>2. l \in LoadRow /\ l.rows = {} /\ l.at = "asked" /\ l.view = v
  BY DEF LoadRow
<1> HIDE DEF l
<1>3. loads' = loads \cup {l}
  BY <1>1 DEF l
<1> QED BY <1>2, <1>3

\* The page that is told reads its first view, unless nobody looks or it is no
\* concern of the page.
LEMMA ToldRow ==
  ASSUME NEW e, Lists!Told(e)
  PROVE  /\ loads \subseteq loads'
         /\ \A l \in loads' : l \in loads \/ (l \in LoadRow /\ l.rows = {})
         /\ list.open /\ ~ (kind = "balance" /\ e = "reload") => \E l \in loads' : l.at = "asked"
<1>1. CASE ~ list.open \/ (kind = "balance" /\ e = "reload")
  BY <1>1 DEF Lists!Told
<1>2. CASE ~ (~ list.open \/ (kind = "balance" /\ e = "reload"))
  <2>1. Lists!Loads(FirstView)
    BY <1>2 DEF Lists!Told
  <2> QED BY <2>1, LoadsRow
<1> QED BY <1>1, <1>2

\* Types.
LEMMA ListTypesStep ==
  ListTypes /\ [Lists!Next]_(Lists!vars) => ListTypes'
<1> SUFFICES ASSUME ListTypes, [Lists!Next]_(Lists!vars)
             PROVE  ListTypes'
  OBVIOUS
<1>1. CASE Lists!Opens
  <2>1. list' \in ListRow
    BY <1>1 DEF Lists!Opens, Lists!NoList, ListRow
  <2>2. loads' \subseteq LoadRow
    BY <1>1, LoadsRow DEF Lists!Opens, ListTypes
  <2> QED BY <1>1, <2>1, <2>2 DEF Lists!Opens, ListTypes
<1>2. CASE Lists!Leaves
  BY <1>2 DEF Lists!Leaves, ListTypes, ListRow, LoadRow, Lists!NoList
<1>3. CASE Lists!BecomesVisible
  BY <1>3 DEF Lists!BecomesVisible, ListTypes, ListRow, LoadRow, Lists!FreeNumbers,
    Lists!Loads, Lists!Told
<1>4. ASSUME NEW v \in Views, Lists!Chooses(v)
      PROVE  ListTypes'
  BY <1>4 DEF Lists!Chooses, ListTypes, ListRow, LoadRow, Lists!FreeNumbers, Lists!Loads
<1>5. ASSUME NEW l \in loads, Lists!Reads(l)
      PROVE  ListTypes'
  BY <1>5 DEF Lists!Reads, ListTypes, ListRow, LoadRow
<1>6. ASSUME NEW l \in loads, Lists!Answered(l)
      PROVE  ListTypes'
  BY <1>6 DEF Lists!Answered, ListTypes, ListRow, LoadRow, Lists!Excused, Lists!If
<1>7. ASSUME NEW l \in loads, Lists!LoadFails(l)
      PROVE  ListTypes'
  BY <1>7 DEF Lists!LoadFails, ListTypes, ListRow, LoadRow, Lists!Excused
<1>8. CASE Lists!StreamOpens
  <2>1. loads' \subseteq LoadRow
    BY <1>8, ToldRow DEF Lists!StreamOpens, ListTypes
  <2>2. stream' = [stream EXCEPT !.at = "open", !.first = FALSE]
    BY <1>8 DEF Lists!StreamOpens
  <2>3. stream' \in [at : {"asked", "open", "on", "ended"}, first : BOOLEAN, good : BOOLEAN]
    <3> DEFINE n == FALSE
    <3>1. n \in BOOLEAN
      OBVIOUS
    <3>2. stream' = [stream EXCEPT !.at = "open", !.first = n]
      BY <2>2
    <3> HIDE DEF n
    <3> QED BY <3>1, <3>2 DEF ListTypes
  <2> QED BY <1>8, <2>1, <2>3 DEF Lists!StreamOpens, ListTypes
<1>9. CASE Lists!Subscribes
  BY <1>9 DEF Lists!Subscribes, ListTypes, ListRow, LoadRow
<1>10. CASE Lists!Drops
  BY <1>10 DEF Lists!Drops, ListTypes, ListRow, LoadRow, Lists!Excused, Lists!If
<1>11. CASE Lists!StreamRefused
  BY <1>11 DEF Lists!StreamRefused, ListTypes, ListRow, LoadRow
<1>12. CASE Lists!TokenExpires
  BY <1>12 DEF Lists!TokenExpires, ListTypes, ListRow, LoadRow
<1>13. CASE Lists!TokenRenewed
  BY <1>13 DEF Lists!TokenRenewed, ListTypes, ListRow, LoadRow, Lists!NewStream,
    Lists!Excused, Lists!If, Lists!Listening
<1>14. ASSUME NEW c \in Changes, Lists!Commits(c)
      PROVE  ListTypes'
  BY <1>14 DEF Lists!Commits, ListTypes, ListRow, LoadRow
<1>15. ASSUME NEW c \in Changes, Lists!Publishes(c)
      PROVE  ListTypes'
  BY <1>15 DEF Lists!Publishes, ListTypes, ListRow, LoadRow, Lists!Excused, Lists!If,
    Lists!Listening
<1>16. ASSUME NEW c \in Changes, Lists!Hears(c)
      PROVE  ListTypes'
  BY <1>16 DEF Lists!Hears, ListTypes, ListRow, LoadRow, Lists!FreeNumbers, Lists!Loads,
    Lists!Told
<1>17. CASE UNCHANGED Lists!vars
  BY <1>17 DEF Lists!vars, ListTypes, ListRow, LoadRow
<1> QED BY <1>1, <1>2, <1>3, <1>4, <1>5, <1>6, <1>7, <1>8, <1>9, <1>10, <1>11, <1>12,
  <1>13, <1>14, <1>15, <1>16, <1>17 DEF Lists!Next

\* A read brings what is committed at that time, and nothing is taken back.
LEMMA OnlyCommittedStep ==
  ListTypes /\ OnlyCommitted /\ [Lists!Next]_(Lists!vars) => OnlyCommitted'
<1> SUFFICES ASSUME ListTypes, OnlyCommitted, [Lists!Next]_(Lists!vars)
             PROVE  OnlyCommitted'
  OBVIOUS
<1>1. CASE Lists!Opens
  BY <1>1 DEF Lists!Opens, ListTypes, ListRow, LoadRow, OnlyCommitted, Lists!NoList,
    Lists!FreeNumbers, Lists!Loads
<1>2. CASE Lists!Leaves
  BY <1>2 DEF Lists!Leaves, ListTypes, ListRow, LoadRow, OnlyCommitted, Lists!NoList
<1>3. CASE Lists!BecomesVisible
  BY <1>3 DEF Lists!BecomesVisible, ListTypes, ListRow, LoadRow, OnlyCommitted,
    Lists!FreeNumbers, Lists!Loads, Lists!Told
<1>4. ASSUME NEW v \in Views, Lists!Chooses(v)
      PROVE  OnlyCommitted'
  BY <1>4 DEF Lists!Chooses, ListTypes, ListRow, LoadRow, OnlyCommitted,
    Lists!FreeNumbers, Lists!Loads
<1>5. ASSUME NEW l \in loads, Lists!Reads(l)
      PROVE  OnlyCommitted'
  BY <1>5 DEF Lists!Reads, ListTypes, ListRow, LoadRow, OnlyCommitted
<1>6. ASSUME NEW l \in loads, Lists!Answered(l)
      PROVE  OnlyCommitted'
  BY <1>6 DEF Lists!Answered, ListTypes, ListRow, LoadRow, OnlyCommitted, Lists!Excused,
    Lists!If
<1>7. ASSUME NEW l \in loads, Lists!LoadFails(l)
      PROVE  OnlyCommitted'
  BY <1>7 DEF Lists!LoadFails, ListTypes, ListRow, LoadRow, OnlyCommitted, Lists!Excused
<1>8. CASE Lists!StreamOpens
  BY <1>8 DEF Lists!StreamOpens, ListTypes, ListRow, LoadRow, OnlyCommitted,
    Lists!FreeNumbers, Lists!Loads, Lists!Told, Lists!MayHaveMissed
<1>9. CASE Lists!Subscribes
  BY <1>9 DEF Lists!Subscribes, ListTypes, ListRow, LoadRow, OnlyCommitted
<1>10. CASE Lists!Drops
  BY <1>10 DEF Lists!Drops, ListTypes, ListRow, LoadRow, OnlyCommitted, Lists!Excused,
    Lists!If
<1>11. CASE Lists!StreamRefused
  BY <1>11 DEF Lists!StreamRefused, ListTypes, ListRow, LoadRow, OnlyCommitted
<1>12. CASE Lists!TokenExpires
  BY <1>12 DEF Lists!TokenExpires, ListTypes, ListRow, LoadRow, OnlyCommitted
<1>13. CASE Lists!TokenRenewed
  BY <1>13 DEF Lists!TokenRenewed, ListTypes, ListRow, LoadRow, OnlyCommitted,
    Lists!NewStream, Lists!Excused, Lists!If, Lists!Listening
<1>14. ASSUME NEW c \in Changes, Lists!Commits(c)
      PROVE  OnlyCommitted'
  BY <1>14 DEF Lists!Commits, ListTypes, ListRow, LoadRow, OnlyCommitted
<1>15. ASSUME NEW c \in Changes, Lists!Publishes(c)
      PROVE  OnlyCommitted'
  BY <1>15 DEF Lists!Publishes, ListTypes, ListRow, LoadRow, OnlyCommitted,
    Lists!Excused, Lists!If, Lists!Listening
<1>16. ASSUME NEW c \in Changes, Lists!Hears(c)
      PROVE  OnlyCommitted'
  BY <1>16 DEF Lists!Hears, ListTypes, ListRow, LoadRow, OnlyCommitted,
    Lists!FreeNumbers, Lists!Loads, Lists!Told
<1>17. CASE UNCHANGED Lists!vars
  BY <1>17 DEF Lists!vars, ListTypes, ListRow, LoadRow, OnlyCommitted
<1> QED BY <1>1, <1>2, <1>3, <1>4, <1>5, <1>6, <1>7, <1>8, <1>9, <1>10, <1>11, <1>12,
  <1>13, <1>14, <1>15, <1>16, <1>17 DEF Lists!Next

\* A change is published, heard and read, or the list has an excuse.
LEMMA NoneIsLostStep ==
  ListTypes /\ OnlyCommitted /\ NoneIsLost /\ [Lists!Next]_(Lists!vars) => NoneIsLost'
<1> SUFFICES ASSUME ListTypes, OnlyCommitted, NoneIsLost, [Lists!Next]_(Lists!vars)
             PROVE  NoneIsLost'
  OBVIOUS
<1>1. CASE Lists!Opens
  <2>1. \E l \in loads' : l.at = "asked"
    BY <1>1, LoadsRow DEF Lists!Opens
  <2> QED BY <2>1 DEF NoneIsLost, OnItsWay
<1>2. CASE Lists!Leaves
  BY <1>2 DEF Lists!Leaves, ListTypes, ListRow, LoadRow, OnlyCommitted, NoneIsLost,
    OnItsWay, Lists!NoList
<1>3. CASE Lists!BecomesVisible
  BY <1>3 DEF Lists!BecomesVisible, ListTypes, ListRow, LoadRow, OnlyCommitted,
    NoneIsLost, OnItsWay, Lists!FreeNumbers, Lists!Loads, Lists!Told
<1>4. ASSUME NEW v \in Views, Lists!Chooses(v)
      PROVE  NoneIsLost'
  BY <1>4 DEF Lists!Chooses, ListTypes, ListRow, LoadRow, OnlyCommitted, NoneIsLost,
    OnItsWay, Lists!FreeNumbers, Lists!Loads
<1>5. ASSUME NEW l \in loads, Lists!Reads(l)
      PROVE  NoneIsLost'
  <2> SUFFICES ASSUME list'.open, why' \cap {"missed", "failed", "overtaken"} = {},
                      NEW d \in committed'
               PROVE  d \in list'.rows \/ OnItsWay(d)'
    BY DEF NoneIsLost
  <2> DEFINE r == [l EXCEPT !.at = "read", !.rows = committed]
  <2>1. r \in loads' /\ r.rows = committed
    BY <1>5 DEF Lists!Reads, ListTypes, LoadRow
  <2>2. d \in committed
    BY <1>5 DEF Lists!Reads
  <2> HIDE DEF r
  <2> QED BY <2>1, <2>2 DEF OnItsWay
<1>6. ASSUME NEW l \in loads, Lists!Answered(l)
      PROVE  NoneIsLost'
  BY <1>6 DEF Lists!Answered, ListTypes, ListRow, LoadRow, OnlyCommitted, NoneIsLost,
    OnItsWay, Lists!Excused, Lists!If
<1>7. ASSUME NEW l \in loads, Lists!LoadFails(l)
      PROVE  NoneIsLost'
  BY <1>7 DEF Lists!LoadFails, ListTypes, ListRow, LoadRow, OnlyCommitted, NoneIsLost,
    OnItsWay, Lists!Excused
<1>8. CASE Lists!StreamOpens
  <2> SUFFICES ASSUME list'.open, why' \cap {"missed", "failed", "overtaken"} = {},
                      NEW d \in committed'
               PROVE  d \in list'.rows \/ OnItsWay(d)'
    BY DEF NoneIsLost
  <2>1. d \in list.rows \/ OnItsWay(d)
    BY <1>8 DEF Lists!StreamOpens, NoneIsLost
  <2>2. UNCHANGED <<kind, unpublished, events, list>> /\ loads \subseteq loads'
    BY <1>8, ToldRow DEF Lists!StreamOpens
  <2>3. CASE \/ d \in list.rows \/ d \in unpublished \cup events
             \/ \E l \in loads : l.at = "asked" \/ d \in l.rows
    BY <2>2, <2>3 DEF OnItsWay
  <2>4. CASE kind # "balance" /\ ~ stream.first
    <3>1. \E l \in loads' : l.at = "asked"
      BY <2>2, <2>4, <1>8, ToldRow DEF Lists!StreamOpens, Lists!MayHaveMissed
    <3> QED BY <3>1 DEF OnItsWay
  <2> QED BY <2>1, <2>3, <2>4 DEF OnItsWay
<1>9. CASE Lists!Subscribes
  BY <1>9 DEF Lists!Subscribes, ListTypes, ListRow, LoadRow, OnlyCommitted, NoneIsLost,
    OnItsWay
<1>10. CASE Lists!Drops
  BY <1>10 DEF Lists!Drops, ListTypes, ListRow, LoadRow, OnlyCommitted, NoneIsLost,
    OnItsWay, Lists!Excused, Lists!If
<1>11. CASE Lists!StreamRefused
  BY <1>11 DEF Lists!StreamRefused, ListTypes, ListRow, LoadRow, OnlyCommitted,
    NoneIsLost, OnItsWay
<1>12. CASE Lists!TokenExpires
  BY <1>12 DEF Lists!TokenExpires, ListTypes, ListRow, LoadRow, OnlyCommitted,
    NoneIsLost, OnItsWay
<1>13. CASE Lists!TokenRenewed
  BY <1>13 DEF Lists!TokenRenewed, ListTypes, ListRow, LoadRow, OnlyCommitted,
    NoneIsLost, OnItsWay, Lists!NewStream, Lists!Excused, Lists!If, Lists!Listening
<1>14. ASSUME NEW c \in Changes, Lists!Commits(c)
      PROVE  NoneIsLost'
  BY <1>14 DEF Lists!Commits, ListTypes, ListRow, LoadRow, OnlyCommitted, NoneIsLost,
    OnItsWay
<1>15. ASSUME NEW c \in Changes, Lists!Publishes(c)
      PROVE  NoneIsLost'
  BY <1>15 DEF Lists!Publishes, ListTypes, ListRow, LoadRow, OnlyCommitted, NoneIsLost,
    OnItsWay, Lists!Excused, Lists!If, Lists!Listening
<1>16. ASSUME NEW c \in Changes, Lists!Hears(c)
      PROVE  NoneIsLost'
  <2> SUFFICES ASSUME list'.open, why' \cap {"missed", "failed", "overtaken"} = {},
                      NEW d \in committed'
               PROVE  d \in list'.rows \/ OnItsWay(d)'
    BY DEF NoneIsLost
  <2>1. \E l \in loads' : l.at = "asked"
    BY <1>16, ToldRow DEF Lists!Hears
  <2> QED BY <2>1 DEF OnItsWay
<1>17. CASE UNCHANGED Lists!vars
  BY <1>17 DEF Lists!vars, ListTypes, ListRow, LoadRow, OnlyCommitted, NoneIsLost, OnItsWay
<1> QED BY <1>1, <1>2, <1>3, <1>4, <1>5, <1>6, <1>7, <1>8, <1>9, <1>10, <1>11, <1>12,
  <1>13, <1>14, <1>15, <1>16, <1>17 DEF Lists!Next

\* A view is chosen with a read of it, and no answer of another goes unexcused.
LEMMA ViewIsAskedStep ==
  ListTypes /\ ViewIsAsked /\ [Lists!Next]_(Lists!vars) => ViewIsAsked'
<1> SUFFICES ASSUME ListTypes, ViewIsAsked, [Lists!Next]_(Lists!vars)
             PROVE  ViewIsAsked'
  OBVIOUS
<1>1. CASE Lists!Opens
  BY <1>1 DEF Lists!Opens, ListTypes, ListRow, LoadRow, ViewIsAsked, Lists!NoList,
    Lists!FreeNumbers, Lists!Loads
<1>2. CASE Lists!Leaves
  BY <1>2 DEF Lists!Leaves, ListTypes, ListRow, LoadRow, ViewIsAsked, Lists!NoList
<1>3. CASE Lists!BecomesVisible
  BY <1>3 DEF Lists!BecomesVisible, ListTypes, ListRow, LoadRow, ViewIsAsked,
    Lists!FreeNumbers, Lists!Loads, Lists!Told
<1>4. ASSUME NEW v \in Views, Lists!Chooses(v)
      PROVE  ViewIsAsked'
  <2>1. list'.view = v /\ UNCHANGED why
    BY <1>4 DEF Lists!Chooses, ListTypes, ListRow
  <2>2. \E l \in loads' : l.view = v
    BY <1>4, LoadsRow DEF Lists!Chooses
  <2> QED BY <2>1, <2>2 DEF ViewIsAsked
<1>5. ASSUME NEW l \in loads, Lists!Reads(l)
      PROVE  ViewIsAsked'
  <2> DEFINE r == [l EXCEPT !.at = "read", !.rows = committed]
  <2>1. r.view = l.view /\ loads' = (loads \ {l}) \cup {r}
    BY <1>5 DEF Lists!Reads, ListTypes, LoadRow
  <2> HIDE DEF r
  <2> QED BY <2>1, <1>5 DEF Lists!Reads, ViewIsAsked
<1>6. ASSUME NEW l \in loads, Lists!Answered(l)
      PROVE  ViewIsAsked'
  BY <1>6 DEF Lists!Answered, ListTypes, ListRow, LoadRow, ViewIsAsked, Lists!Excused,
    Lists!If
<1>7. ASSUME NEW l \in loads, Lists!LoadFails(l)
      PROVE  ViewIsAsked'
  BY <1>7 DEF Lists!LoadFails, ListTypes, ListRow, LoadRow, ViewIsAsked, Lists!Excused
<1>8. CASE Lists!StreamOpens
  BY <1>8 DEF Lists!StreamOpens, ListTypes, ListRow, LoadRow, ViewIsAsked,
    Lists!FreeNumbers, Lists!Loads, Lists!Told, Lists!MayHaveMissed
<1>9. CASE Lists!Subscribes
  BY <1>9 DEF Lists!Subscribes, ListTypes, ListRow, LoadRow, ViewIsAsked
<1>10. CASE Lists!Drops
  BY <1>10 DEF Lists!Drops, ListTypes, ListRow, LoadRow, ViewIsAsked, Lists!Excused,
    Lists!If
<1>11. CASE Lists!StreamRefused
  BY <1>11 DEF Lists!StreamRefused, ListTypes, ListRow, LoadRow, ViewIsAsked
<1>12. CASE Lists!TokenExpires
  BY <1>12 DEF Lists!TokenExpires, ListTypes, ListRow, LoadRow, ViewIsAsked
<1>13. CASE Lists!TokenRenewed
  BY <1>13 DEF Lists!TokenRenewed, ListTypes, ListRow, LoadRow, ViewIsAsked,
    Lists!NewStream, Lists!Excused, Lists!If, Lists!Listening
<1>14. ASSUME NEW c \in Changes, Lists!Commits(c)
      PROVE  ViewIsAsked'
  BY <1>14 DEF Lists!Commits, ListTypes, ListRow, LoadRow, ViewIsAsked
<1>15. ASSUME NEW c \in Changes, Lists!Publishes(c)
      PROVE  ViewIsAsked'
  BY <1>15 DEF Lists!Publishes, ListTypes, ListRow, LoadRow, ViewIsAsked, Lists!Excused,
    Lists!If, Lists!Listening
<1>16. ASSUME NEW c \in Changes, Lists!Hears(c)
      PROVE  ViewIsAsked'
  BY <1>16 DEF Lists!Hears, ListTypes, ListRow, LoadRow, ViewIsAsked, Lists!FreeNumbers,
    Lists!Loads, Lists!Told
<1>17. CASE UNCHANGED Lists!vars
  BY <1>17 DEF Lists!vars, ListTypes, ListRow, LoadRow, ViewIsAsked
<1> QED BY <1>1, <1>2, <1>3, <1>4, <1>5, <1>6, <1>7, <1>8, <1>9, <1>10, <1>11, <1>12,
  <1>13, <1>14, <1>15, <1>16, <1>17 DEF Lists!Next

\* A list that listens shows what has happened, of the view that is chosen, but for the
\* reasons ListTells names: layout.js and the pages that read again when told, for any
\* changes, views and reads under way.
THEOREM ListHolds == Lists!Spec => []ListTells
<1>1. Lists!Init => ListInv
  BY DEF Lists!Init, ListInv, ListTypes, ListRow, LoadRow, OnlyCommitted, NoneIsLost,
    ViewIsAsked, Lists!NoList, Lists!NewStream
<1>2. ListInv /\ [Lists!Next]_(Lists!vars) => ListInv'
  BY ListTypesStep, OnlyCommittedStep, NoneIsLostStep, ViewIsAskedStep DEF ListInv
<1>3. ListInv => ListTells
  <2> SUFFICES ASSUME ListInv
               PROVE  ListTells
    OBVIOUS
  <2>1. Lists!ListIsFresh
    BY DEF ListInv, OnlyCommitted, NoneIsLost, OnItsWay, Lists!ListIsFresh,
      Lists!Quiet, Lists!Listening
  <2>2. Lists!RowsAreOfView
    BY DEF ListInv, ViewIsAsked, Lists!RowsAreOfView, Lists!Quiet
  <2> QED BY <2>1, <2>2 DEF ListTells, Lists!ListTells
<1> QED BY <1>1, <1>2, <1>3, PTL DEF Lists!Spec

====
