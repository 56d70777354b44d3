--------------------------- MODULE Reconciliation ---------------------------
(***************************************************************************)
(* The admin's reconciliation: GET lists rows that look wrong, dry-run      *)
(* previews the one repair there is (a platform invoice that is paid and    *)
(* has no credit in the ledger), execute performs it in a transaction whose *)
(* audit row carries a unique idempotency key.  Around it the rows move:    *)
(* payments credit invoices, a withdrawal and a disbursement go their way.  *)
(***************************************************************************)
EXTENDS Naturals, FiniteSets

CONSTANTS
  Invoices,    \* regular invoices (no SUB- number) of one client
  Platform,    \* those on a platform channel
  Calls,       \* overlapping calls of execute
  Keys,        \* idempotency keys a caller may choose itself
  MaxFixes     \* bound: repairs of one invoice

VARIABLES
  status,      \* invoices: "pending" or "paid"
  ledger,      \* rows credit_pending and credit_available of each invoice
  pro,         \* the client is a disbursement_user with an active plan
  usedKeys,    \* idempotency keys of committed audit rows
  call,        \* calls of execute between their reads and their commit
  withdrawal, disbursement, \* one row of each, as reconciliation sees it
  listed,      \* issues the page shows
  overlapped   \* history: invoices repaired while another repair was under way

vars == <<status, ledger, pro, usedKeys, call, withdrawal, disbursement, listed, overlapped>>
money == <<withdrawal, disbursement>>
books == <<status, ledger, pro, usedKeys, call, overlapped>>

Idle == [pc |-> "idle"]
DefaultKey(i) == <<"create-missing-ledger", i>>
Row == [status |-> "pending", trx |-> FALSE, sent |-> "never", refund |-> "none"]

Ledger == [credit_pending: Nat, credit_available: Nat]

AnyKey == Keys \cup {DefaultKey(i) : i \in Invoices}

Call == {Idle} \cup [pc: {"preview"}, invoice: Invoices, key: AnyKey]
               \cup [pc: {"writing"}, invoice: Invoices, key: AnyKey, pro: BOOLEAN]

TypeOK ==
  /\ status \in [Invoices -> {"pending", "paid"}]
  /\ ledger \in [Invoices -> Ledger]
  /\ pro \in BOOLEAN
  /\ usedKeys \subseteq AnyKey
  /\ call \in [Calls -> Call]
  /\ overlapped \subseteq Invoices

\* Invoices may be paid without a credit from before the ledger was kept.
Init ==
  /\ status \in [Invoices -> {"pending", "paid"}]
  /\ ledger = [i \in Invoices |-> [credit_pending |-> 0, credit_available |-> 0]]
  /\ pro = FALSE /\ usedKeys = {} /\ call = [c \in Calls |-> Idle]
  /\ withdrawal = Row /\ disbursement = Row
  /\ listed = {} /\ overlapped = {}

Credits(i) == ledger[i].credit_pending + ledger[i].credit_available

(***************************************************************************)
(* GET /admin/reconciliation: what each collector selects                   *)
(***************************************************************************)
InvoiceIssues ==
  {<<"missing_credit", i>> : i \in {j \in Platform : status[j] = "paid" /\ Credits(j) = 0}}

\* A refund counts when its note contains 'Refund withdrawal'.
WithdrawalIssues ==
  LET w == withdrawal IN
    (IF w.status = "processed" /\ ~ w.trx THEN {<<"processed_without_provider_id", "withdrawal">>} ELSE {})
      \cup (IF w.status = "processing" /\ w.sent = "long_ago" THEN {<<"processing_stale", "withdrawal">>} ELSE {})
      \cup (IF w.status \in {"failed", "rejected"} /\ w.refund # "Refund withdrawal"
              THEN {<<"missing_refund", "withdrawal">>} ELSE {})

\* Every failure of a disbursement carries its reason, so the third collector
\* finds nothing.
DisbursementIssues ==
  LET d == disbursement IN
    (IF d.status = "success" /\ ~ d.trx THEN {<<"success_without_provider_id", "disbursement">>} ELSE {})
      \cup (IF d.status = "processing" /\ d.sent = "long_ago" THEN {<<"processing_stale", "disbursement">>} ELSE {})

Lists ==
  /\ listed' = InvoiceIssues \cup WithdrawalIssues \cup DisbursementIssues
  /\ UNCHANGED <<books, money>>

(***************************************************************************)
(* POST /admin/reconciliation/execute                                      *)
(***************************************************************************)
Fixable(i) == Credits(i) = 0

\* The page asks for a row it shows and names no key; a caller of the API may
\* name any invoice and key.  The preview refuses what is not paid, not on a
\* platform channel or already credited.  The dry run ends here.
Preview(c, i, key) ==
  /\ call[c].pc = "idle"
  /\ key = DefaultKey(i) => <<"missing_credit", i>> \in listed
  /\ status[i] = "paid" /\ i \in Platform /\ Fixable(i)
  /\ call' = [call EXCEPT ![c] = [pc |-> "preview", invoice |-> i, key |-> key]]
  /\ UNCHANGED <<status, ledger, pro, usedKeys, money, listed, overlapped>>

\* The transaction reads the invoice again, its credits, role and plan; it
\* looks neither at the status nor at the channel.
Begins(c) ==
  LET i == call[c].invoice IN
    /\ call[c].pc = "preview"
    /\ IF Fixable(i)
         THEN call' = [call EXCEPT ![c] = [pc |-> "writing", invoice |-> i, key |-> @.key,
                                           pro |-> pro]]
         ELSE call' = [call EXCEPT ![c] = Idle]
    /\ UNCHANGED <<status, ledger, pro, usedKeys, money, listed, overlapped>>

\* Credited at once for a client on Disbursement Pro, after two days otherwise.
Plan(i, isPro) ==
  IF isPro THEN [ledger[i] EXCEPT !.credit_available = @ + 1]
           ELSE [ledger[i] EXCEPT !.credit_pending = @ + 1]

Others(c) == {d \in Calls : /\ call[d].pc = "writing" /\ call[d].invoice = call[c].invoice
                            /\ call[d].key # call[c].key}

\* The key column without its unique index.
KeyIsFree_NotUnique(key) == TRUE

KeyIsFree(key) == key \notin usedKeys

\* Ledger, balance and audit row commit together; a key already used aborts
\* them all (DUPLICATE_EXECUTION).
Commits(c) ==
  LET i == call[c].invoice IN
    /\ call[c].pc = "writing"
    /\ IF KeyIsFree(call[c].key)
         THEN /\ Credits(i) < MaxFixes
              /\ ledger' = [ledger EXCEPT ![i] = Plan(i, call[c].pro)]
              /\ usedKeys' = usedKeys \cup {call[c].key}
              /\ overlapped' = IF Others(c) = {} THEN overlapped ELSE overlapped \cup {i}
         ELSE UNCHANGED <<ledger, usedKeys, overlapped>>
    /\ call' = [call EXCEPT ![c] = Idle]
    /\ UNCHANGED <<status, pro, money, listed>>

\* A failed query, or the API stopping: the transaction is rolled back.
Aborts(c) ==
  /\ call[c].pc # "idle"
  /\ call' = [call EXCEPT ![c] = Idle]
  /\ UNCHANGED <<status, ledger, pro, usedKeys, money, listed, overlapped>>

(***************************************************************************)
(* The rows meanwhile                                                      *)
(***************************************************************************)

\* The match worker or the admin's manual match: paid and credited in one
\* transaction, but for the client's own channels.
Pays(i) ==
  /\ status[i] = "pending"
  /\ status' = [status EXCEPT ![i] = "paid"]
  /\ ledger' = IF i \in Platform THEN [ledger EXCEPT ![i] = Plan(i, pro)] ELSE ledger
  /\ UNCHANGED <<pro, usedKeys, call, money, listed, overlapped>>

\* PATCH /admin/clients/:id/role, a plan bought or ended.
PlanChanges ==
  /\ pro' = ~ pro
  /\ UNCHANGED <<status, ledger, usedKeys, call, money, listed, overlapped>>

\* The flip worker takes the row up; processedAt is only written with the
\* transfer's id.
WithdrawalMoves ==
  LET w == withdrawal IN
    /\ \/ /\ w.status \in {"pending", "failed"}
          /\ withdrawal' = [w EXCEPT !.status = "processing"]
       \/ /\ w.status = "processing"
          /\ withdrawal' \in {[w EXCEPT !.trx = TRUE, !.sent = "now"],
                              [w EXCEPT !.status = "failed"]}
       \/ /\ w.trx /\ w.status = "processing"
          /\ withdrawal' \in {[w EXCEPT !.status = "processed"],
                              [w EXCEPT !.status = "failed", !.refund = "Refund withdrawal"]}
       \/ /\ w.sent = "now"
          /\ withdrawal' = [w EXCEPT !.sent = "long_ago"]
    /\ UNCHANGED <<books, disbursement, listed>>

\* The note of this refund begins 'Refund penarikan ditolak'.
AdminRejects ==
  /\ withdrawal.status \in {"pending", "failed"}
  /\ withdrawal' = [withdrawal EXCEPT !.status = "rejected", !.sent = "now",
                                      !.refund = "Refund penarikan ditolak"]
  /\ UNCHANGED <<books, disbursement, listed>>

DisbursementMoves ==
  LET d == disbursement IN
    /\ \/ /\ d.status \in {"pending", "failed"}
          /\ disbursement' = [d EXCEPT !.status = "processing"]
       \/ /\ d.status = "processing"
          /\ disbursement' \in {[d EXCEPT !.trx = TRUE, !.sent = "now"],
                                [d EXCEPT !.status = "failed"]}
       \/ /\ d.trx /\ d.status = "processing"
          /\ disbursement' = [d EXCEPT !.status = "success"]
       \/ /\ d.sent = "now"
          /\ disbursement' = [d EXCEPT !.sent = "long_ago"]
    /\ UNCHANGED <<books, withdrawal, listed>>

Next ==
  \/ Lists \/ PlanChanges \/ WithdrawalMoves \/ AdminRejects \/ DisbursementMoves
  \/ \E i \in Invoices :
       \/ Pays(i)
       \/ \E c \in Calls, key \in Keys \cup {DefaultKey(i)} : Preview(c, i, key)
  \/ \E c \in Calls : Begins(c) \/ Commits(c) \/ Aborts(c)

Spec == Init /\ [][Next]_vars

(***************************************************************************)
(* Properties                                                              *)
(***************************************************************************)

\* Two repairs of one invoice that overlap (admin.js:719) both find no credit;
\* the unique key of the audit row stops the second.  An invoice is credited
\* twice only when two calls under different keys were in their transactions
\* together.
CreditedOnceByFix ==
  \A i \in Invoices : Credits(i) > 1 => i \in overlapped

\* A withdrawal whose money went back to the client is not reported as
\* 'belum ditemukan ledger refund' with the advice to refund it
\* (admin.js:200-201).
RefundedNotReported ==
  [][withdrawal.refund # "none" =>
       <<"missing_refund", "withdrawal">> \notin listed' \ listed]_vars

=============================================================================
