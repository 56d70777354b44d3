------------------------------ MODULE Payouts -------------------------------
(***************************************************************************)
(* Who may open a withdrawal: the client with a token and its password,    *)
(* the admin, and the admin who closes the account of a client that does   *)
(* not want to be verified.  The three check different things before they  *)
(* create the row.                                                         *)
(*                                                                         *)
(* What becomes of an open withdrawal is in Withdrawal; here it is handled *)
(* or fails at any time.  The balance and the money are left out.  Rows    *)
(* are numbered as they are created.                                       *)
(***************************************************************************)
EXTENDS Kyc

CONSTANTS
  Requests,   \* handlers that can be in progress at once
  MaxRows,    \* withdrawals ever created
  MaxIntents, \* tokens ever handed out
  MaxWrong    \* wrong passwords before the lock

ASSUME PayoutsAssumption ==
  /\ MaxRows \in Nat /\ MaxIntents \in Nat
  /\ MaxWrong \in Nat \ {0}

VARIABLES
  row,        \* the withdrawals
  today,      \* those requested today
  token,      \* pg:withdraw:nonce, 0 for none
  intents,    \* tokens handed out
  wrong,      \* pg:withdraw:pwfail
  lock,       \* pg:withdraw:pwlock
  suspended,  \* the client's status
  request,    \* handlers in progress
  faults,     \* history: has Redis failed to delete a token?
  crossed     \* history: two creations overlapped, or a failed row was taken up again

payout == <<row, today, token, intents, wrong, lock, suspended, request, faults, crossed>>

vars == <<kyc, payout>>

Rows == 1 .. MaxRows

NoRow == [status |-> "none", by |-> "none", token |-> 0]

Row == [status: {"pending", "processing", "processed", "failed", "rejected"},
        by: {"client", "admin", "optout"}, token: 0 .. MaxIntents]

Rest == [at |-> "idle", by |-> "none", token |-> 0]

Handling == [at: {"intending", "comparing", "wrong", "locking", "right", "again", "checked", "finding"},
             by: {"client", "admin", "optout"}, token: 0 .. MaxIntents]

TypeOK ==
  /\ KycTypes
  /\ row \in [Rows -> Row \cup {NoRow}] /\ today \subseteq Rows
  /\ token \in 0 .. MaxIntents /\ intents \in 0 .. MaxIntents
  /\ wrong \in 0 .. MaxWrong /\ lock \in BOOLEAN /\ suspended \in BOOLEAN
  /\ request \in [Requests -> {Rest} \cup Handling]
  /\ faults \in BOOLEAN /\ crossed \in BOOLEAN

Init ==
  /\ KycInit
  /\ row = [r \in Rows |-> NoRow] /\ today = {}
  /\ token = 0 /\ intents = 0 /\ wrong = 0 /\ lock = FALSE /\ suspended = FALSE
  /\ request = [q \in Requests |-> Rest]
  /\ faults = FALSE /\ crossed = FALSE

withdrawals == <<row, today>>
tokens == <<token, intents>>
passwords == <<wrong, lock>>
history == <<faults, crossed>>

Goes(q, at) == request' = [request EXCEPT ![q].at = at]
Answer(q) == request' = [request EXCEPT ![q] = Rest]

-----------------------------------------------------------------------------
Open == {r \in Rows : row[r].status \in {"pending", "processing"}}

NothingOpen == Open = {}

\* One withdrawal a day, unless it was rejected.
DayIsFree == \A r \in today : row[r].status = "rejected"

\* The first step: the checks of the second are made in advance, ...
Intent(q) ==
  /\ request[q] = Rest /\ ~suspended
  /\ MayWithdraw /\ DayIsFree /\ NothingOpen
  /\ request' = [request EXCEPT ![q] = [at |-> "intending", by |-> "client", token |-> 0]]
  /\ UNCHANGED <<kyc, withdrawals, tokens, passwords, suspended, history>>

\* ... and a token is stored over the last one.
HandsOutToken(q) ==
  /\ request[q].at = "intending" /\ intents < MaxIntents
  /\ intents' = intents + 1 /\ token' = intents + 1
  /\ Answer(q)
  /\ UNCHANGED <<kyc, withdrawals, passwords, suspended, history>>

TokenExpires ==
  /\ token # 0 /\ token' = 0
  /\ UNCHANGED <<kyc, withdrawals, intents, passwords, suspended, request, history>>

\* The second step.  The token is looked at and kept until the password is right.
Submit(q) ==
  /\ request[q] = Rest /\ ~suspended
  /\ MayWithdraw /\ token # 0 /\ ~lock
  /\ request' = [request EXCEPT ![q] = [at |-> "comparing", by |-> "client", token |-> token]]
  /\ UNCHANGED <<kyc, withdrawals, tokens, passwords, suspended, history>>

ComparesPassword(q, right) ==
  /\ request[q].at = "comparing"
  /\ Goes(q, IF right THEN "right" ELSE "wrong")
  /\ UNCHANGED <<kyc, withdrawals, tokens, passwords, suspended, history>>

\* Beyond the limit all counts are alike.
CountsWrong(q) ==
  /\ request[q].at = "wrong"
  /\ wrong' = IF wrong < MaxWrong THEN wrong + 1 ELSE wrong
  /\ IF wrong + 1 >= MaxWrong THEN Goes(q, "locking") ELSE Answer(q)
  /\ UNCHANGED <<kyc, withdrawals, tokens, lock, suspended, history>>

SetsLock(q) ==
  /\ request[q].at = "locking"
  /\ lock' = TRUE
  /\ Answer(q)
  /\ UNCHANGED <<kyc, withdrawals, tokens, wrong, suspended, history>>

\* Mutant: the token is not deleted.
Spent_Kept == token

Spent == 0

\* DEL of whatever token is there, and of the count; an error of Redis is no error.
SpendsToken(q) ==
  /\ request[q].at = "right"
  /\ \/ token' = Spent /\ wrong' = 0 /\ UNCHANGED faults
     \/ faults' = TRUE /\ UNCHANGED <<token, wrong>>
  /\ Goes(q, "again")
  /\ UNCHANGED <<kyc, withdrawals, intents, lock, suspended, crossed>>

\* The day and what is open are read once more.
ChecksAgain(q) ==
  /\ request[q].at = "again"
  /\ IF DayIsFree /\ NothingOpen THEN Goes(q, "checked") ELSE Answer(q)
  /\ UNCHANGED <<kyc, withdrawals, tokens, passwords, suspended, history>>

\* The admin is not bound to the day, the documents or the client's status, and
\* may name the opt-out as the reason.
AdminCreates(q, by) ==
  /\ request[q] = Rest /\ NothingOpen
  /\ request' = [request EXCEPT ![q] = [at |-> "checked", by |-> by, token |-> 0]]
  /\ UNCHANGED <<kyc, withdrawals, tokens, passwords, suspended, history>>

-----------------------------------------------------------------------------
(* Closing the account of a client that opts out.                          *)

OptOuts == {r \in Rows : row[r].by = "optout"}

\* The withdrawal that is named, or the last one.  Once it is processed the
\* client is suspended; while there is none it is created; else the admin is
\* told to wait or to see to it.
Finalize(q) ==
  /\ request[q] = Rest
  /\ \/ /\ \E r \in OptOuts : row[r].status = "processed"
        /\ suspended' = TRUE /\ UNCHANGED request
     \/ /\ OptOuts = {}
        /\ request' = [request EXCEPT ![q] = [at |-> "finding", by |-> "optout", token |-> 0]]
        /\ UNCHANGED suspended
  /\ UNCHANGED <<kyc, withdrawals, tokens, passwords, history>>

\* Mutant: the opt-out does not look at other withdrawals.
MayClose_Any == TRUE

MayClose == NothingOpen

FindsNothingOpen(q) ==
  /\ request[q].at = "finding"
  /\ IF MayClose THEN Goes(q, "checked") ELSE Answer(q)
  /\ UNCHANGED <<kyc, withdrawals, tokens, passwords, suspended, history>>

AdminSetsStatus ==
  /\ suspended' = ~suspended
  /\ UNCHANGED <<kyc, withdrawals, tokens, passwords, request, history>>

-----------------------------------------------------------------------------
Checked(q) == request[q].at = "checked"

\* The transaction: the row is created.
Creates(q, r) ==
  /\ Checked(q)
  /\ row[r] = NoRow /\ \A s \in Rows : s < r => row[s] # NoRow
  /\ row' = [row EXCEPT ![r] = [status |-> "pending", by |-> request[q].by,
                                token |-> request[q].token]]
  /\ today' = today \cup {r}
  /\ crossed' = (crossed \/ \E p \in Requests \ {q} : Checked(p) \/ request[p].token # 0)
  /\ Answer(q)
  /\ UNCHANGED <<kyc, tokens, passwords, suspended, faults>>

RequestFails(q) ==
  /\ request[q] # Rest
  /\ Answer(q)
  /\ UNCHANGED <<kyc, withdrawals, tokens, passwords, suspended, history>>

\* The worker takes a pending row, or one that failed and is queued again.
TakenUp(r) ==
  /\ row[r].status \in {"pending", "failed"}
  /\ crossed' = (crossed \/ row[r].status = "failed")
  /\ row' = [row EXCEPT ![r].status = "processing"]
  /\ UNCHANGED <<kyc, today, tokens, passwords, suspended, request, faults>>

Ends(r, status) ==
  /\ row[r].status = "processing"
  /\ row' = [row EXCEPT ![r].status = status]
  /\ UNCHANGED <<kyc, today, tokens, passwords, suspended, request, history>>

Rejects(r) ==
  /\ row[r].status \in {"pending", "failed"}
  /\ row' = [row EXCEPT ![r].status = "rejected"]
  /\ UNCHANGED <<kyc, today, tokens, passwords, suspended, request, history>>

\* Another day: what is counted by the day begins anew.
DayPasses ==
  /\ today' = {} /\ wrong' = 0 /\ lock' = FALSE
  /\ UNCHANGED <<kyc, row, tokens, suspended, request, history>>

PayoutNext ==
  \/ \E q \in Requests :
       \/ Intent(q) \/ HandsOutToken(q) \/ Submit(q)
       \/ \E right \in BOOLEAN : ComparesPassword(q, right)
       \/ CountsWrong(q) \/ SetsLock(q) \/ SpendsToken(q) \/ ChecksAgain(q)
       \/ \E by \in {"admin", "optout"} : AdminCreates(q, by)
       \/ Finalize(q) \/ FindsNothingOpen(q) \/ RequestFails(q)
       \/ \E r \in Rows : Creates(q, r)
  \/ \E r \in Rows :
       TakenUp(r) \/ Rejects(r) \/ \E status \in {"processed", "failed"} : Ends(r, status)
  \/ TokenExpires \/ AdminSetsStatus \/ DayPasses

Next == PayoutNext \/ (KycNext /\ UNCHANGED payout)

Spec == Init /\ [][Next]_vars

-----------------------------------------------------------------------------
\* A client has one withdrawal open, whoever creates it, unless creations
\* overlapped or a failed one was taken up again.
OneOpen == crossed \/ Cardinality(Open) <= 1

\* A token opens one withdrawal, if its deletion did not fail and creations did
\* not overlap.
TokenOpensOne ==
  \A r, s \in Rows :
    r # s /\ row[r].token # 0 => row[r].token # row[s].token \/ faults \/ crossed

\* A client that asks once is paid once.
OpenedOnce == OneOpen /\ TokenOpensOne
=============================================================================
