---------------------------- MODULE PayoutsProofs ----------------------------
(***************************************************************************)
(* What is proved of the parts MCAccounts composes: Kyc and Payouts, then   *)
(* Reconciliation (Recon), ProviderSession (Flip) and Accounts (Account),   *)
(* each for any number of the processes that take part in it.              *)
(*                                                                         *)
(*  - An approval stands, and a client that asks once has one withdrawal   *)
(*    open.                                                                *)
(*  - A correction credits once: a call in its transaction has found no    *)
(*    credit, and whoever credits the invoice meanwhile has used its key,  *)
(*    so that it will abort, or overlapped it; payment cannot, because the *)
(*    invoice is paid already.                                             *)
(*  - The session at the payment provider stays usable: a token issued and *)
(*    not yet stored is in one hand, and is of the account that was read.  *)
(*  - Passwords are guessed a bounded number of times, and a link sets one *)
(*    password: guesses are counted against the attempts and the handlers  *)
(*    still under way, and a link is followed by one handler at a time.    *)
(***************************************************************************)
EXTENDS MCAccounts, FiniteSetTheorems, TLAPS

-----------------------------------------------------------------------------
(* The two halves of a step.                                               *)

\* Nothing that happens to withdrawals touches the documents.
LEMMA PayoutLeavesKyc == PayoutNext => UNCHANGED kyc
BY DEF PayoutNext, Intent, HandsOutToken, Submit, ComparesPassword, CountsWrong, SetsLock,
       SpendsToken, ChecksAgain, AdminCreates, Finalize, FindsNothingOpen, RequestFails, Creates,
       TakenUp, Rejects, Ends, TokenExpires, AdminSetsStatus, DayPasses

-----------------------------------------------------------------------------
(* Types.                                                                  *)

LEMMA KycTypesInit == KycInit => KycTypes
<1>. SUFFICES ASSUME KycInit PROVE KycTypes
  OBVIOUS
<1>1. None \in [Kinds -> 0 .. MaxSubmissions] /\ 0 \in 0 .. MaxSubmissions
  BY KycAssumption DEF None
<1>2. QED
  BY <1>1 DEF KycInit, KycTypes

LEMMA KycTypesStep == ASSUME KycTypes, KycNext PROVE KycTypes'
<1>1. CASE AdminSetsRole \/ Earns
  BY <1>1 DEF KycTypes, AdminSetsRole, Earns
<1>2. ASSUME NEW t \in Tabs, Submits(t) PROVE KycTypes'
  <2>1. submissions' \in Submissions /\ submissions' \in 0 .. MaxSubmissions
    BY <1>2, KycAssumption DEF KycTypes, Submits, Submissions
  <2>2. [at |-> "sending", n |-> submissions', exists |-> doc # "none", left |-> Kinds] \in
          [at: {"sending"}, n: Submissions, exists: BOOLEAN, left: SUBSET Kinds]
    BY <2>1
  <2>3. QED
    BY <1>2, <2>1, <2>2 DEF KycTypes, Submits
<1>3. ASSUME NEW t \in Tabs, NEW kind \in Kinds, Uploads(t, kind) PROVE KycTypes'
  <2>1. tab[t] \in [at: {"sending"}, n: Submissions, exists: BOOLEAN, left: SUBSET Kinds]
    BY <1>3 DEF KycTypes, Uploads
  <2>2. tab[t].n \in 0 .. MaxSubmissions
    BY <2>1 DEF Submissions
  <2>3. [tab[t] EXCEPT !.left = @ \ {kind}] \in
          [at: {"sending"}, n: Submissions, exists: BOOLEAN, left: SUBSET Kinds]
    BY <2>1
  <2>4. tab' = [tab EXCEPT ![t] = [tab[t] EXCEPT !.left = @ \ {kind}]]
    BY <1>3 DEF Uploads
  <2>5. QED
    BY <1>3, <2>2, <2>3, <2>4 DEF KycTypes, Uploads
<1>4. ASSUME NEW t \in Tabs, SubmitFails(t) \/ WritesRow(t) PROVE KycTypes'
  BY <1>4 DEF KycTypes, SubmitFails, WritesRow
<1>5. ASSUME NEW a \in Reviews,
             EndsReview(a) \/ \E verdict \in {"approving", "rejecting"} : BeginsReview(a, verdict)
      PROVE KycTypes'
  BY <1>5 DEF KycTypes, EndsReview, BeginsReview
<1>6. QED
  BY <1>1, <1>2, <1>3, <1>4, <1>5 DEF KycNext

LEMMA TypesInit == Init => TypeOK
<1>. SUFFICES ASSUME Init PROVE TypeOK
  OBVIOUS
<1>1. lock \in BOOLEAN /\ suspended \in BOOLEAN /\ faults \in BOOLEAN /\ crossed \in BOOLEAN
  BY Zenon DEF Init
<1>2. token \in 0 .. MaxIntents /\ intents \in 0 .. MaxIntents /\ wrong \in 0 .. MaxWrong
  BY PayoutsAssumption DEF Init
<1>3. row \in [Rows -> Row \cup {NoRow}] /\ today \subseteq Rows
  BY DEF Init
<1>4. request \in [Requests -> {Rest} \cup Handling]
  BY DEF Init
<1>5. QED
  BY <1>1, <1>2, <1>3, <1>4, KycTypesInit DEF Init, TypeOK

\* The flags of the withdrawals stay flags.
LEMMA PayoutFlagsStep ==
  ASSUME TypeOK, PayoutNext
  PROVE  /\ lock' \in BOOLEAN /\ suspended' \in BOOLEAN
         /\ faults' \in BOOLEAN /\ crossed' \in BOOLEAN
<1>. USE DEF TypeOK, passwords, history
<1>1. ASSUME NEW q \in Requests, NEW r \in Rows, Creates(q, r)
      PROVE lock' \in BOOLEAN /\ suspended' \in BOOLEAN /\ faults' \in BOOLEAN /\ crossed' \in BOOLEAN
  BY <1>1 DEF Creates
<1>2. ASSUME NEW r \in Rows, TakenUp(r)
      PROVE lock' \in BOOLEAN /\ suspended' \in BOOLEAN /\ faults' \in BOOLEAN /\ crossed' \in BOOLEAN
  BY <1>2 DEF TakenUp
<1>3. QED
  BY <1>1, <1>2, Zenon DEF PayoutNext, Intent, HandsOutToken, Submit, ComparesPassword, CountsWrong,
     SetsLock, SpendsToken, ChecksAgain, AdminCreates, Finalize, FindsNothingOpen, RequestFails,
     Rejects, Ends, TokenExpires, AdminSetsStatus, DayPasses

LEMMA PayoutTypesStep == ASSUME TypeOK, PayoutNext PROVE TypeOK'
<1>. USE PayoutsAssumption DEF TypeOK, Goes, Answer, Rest, withdrawals, tokens, passwords, history,
              Handling
<1>0. KycTypes'
  BY PayoutLeavesKyc DEF KycTypes, kyc
<1>f. /\ lock' \in BOOLEAN /\ suspended' \in BOOLEAN
      /\ faults' \in BOOLEAN /\ crossed' \in BOOLEAN
  BY PayoutFlagsStep
<1>1. ASSUME NEW q \in Requests, Intent(q) \/ RequestFails(q) \/ Finalize(q) PROVE TypeOK'
  BY <1>0, <1>f, <1>1 DEF Intent, RequestFails, Finalize
<1>2. ASSUME NEW q \in Requests, HandsOutToken(q) PROVE TypeOK'
  BY <1>0, <1>f, <1>2 DEF HandsOutToken
<1>3. ASSUME NEW q \in Requests, Submit(q) PROVE TypeOK'
  BY <1>0, <1>f, <1>3 DEF Submit
<1>4. ASSUME NEW q \in Requests, NEW right \in BOOLEAN, ComparesPassword(q, right) PROVE TypeOK'
  BY <1>0, <1>f, <1>4 DEF ComparesPassword
<1>5. ASSUME NEW q \in Requests, CountsWrong(q) PROVE TypeOK'
  BY <1>0, <1>f, <1>5 DEF CountsWrong
<1>6. ASSUME NEW q \in Requests, SetsLock(q) PROVE TypeOK'
  BY <1>0, <1>f, <1>6 DEF SetsLock
<1>7. ASSUME NEW q \in Requests, SpendsToken(q) PROVE TypeOK'
  BY <1>0, <1>f, <1>7 DEF SpendsToken, Spent
<1>8. ASSUME NEW q \in Requests, ChecksAgain(q) PROVE TypeOK'
  BY <1>0, <1>f, <1>8 DEF ChecksAgain
<1>9. ASSUME NEW q \in Requests, NEW by \in {"admin", "optout"}, AdminCreates(q, by) PROVE TypeOK'
  BY <1>0, <1>f, <1>9 DEF AdminCreates
<1>10. ASSUME NEW q \in Requests, FindsNothingOpen(q) PROVE TypeOK'
  BY <1>0, <1>f, <1>10 DEF FindsNothingOpen
<1>11. ASSUME NEW q \in Requests, NEW r \in Rows, Creates(q, r) PROVE TypeOK'
  <2>2. request' \in [Requests -> {Rest} \cup Handling]
    BY <1>11 DEF Creates
  <2>3. row' \in [Rows -> Row \cup {NoRow}] /\ today' \subseteq Rows
    <3>1. request[q].by \in {"client", "admin", "optout"}
      BY <1>11 DEF Creates, Checked, Handling
    <3>2. QED
      BY <1>11, <3>1 DEF Creates, Row
  <2>4. QED
    BY <1>0, <1>f, <1>11, <2>2, <2>3 DEF Creates
<1>12. ASSUME NEW r \in Rows, TakenUp(r) \/ Rejects(r) \/ \E s \in {"processed", "failed"} : Ends(r, s)
       PROVE TypeOK'
  BY <1>0, <1>f, <1>12 DEF TakenUp, Rejects, Ends, Row, NoRow
<1>13. CASE TokenExpires \/ AdminSetsStatus \/ DayPasses
  BY <1>0, <1>f, <1>13 DEF TokenExpires, AdminSetsStatus, DayPasses
<1>14. QED
  BY <1>1, <1>2, <1>3, <1>4, <1>5, <1>6, <1>7, <1>8, <1>9, <1>10, <1>11, <1>12, <1>13
     DEF PayoutNext

LEMMA TypesStep == TypeOK /\ [Next]_vars => TypeOK'
<1>. SUFFICES ASSUME TypeOK, [Next]_vars PROVE TypeOK'
  OBVIOUS
<1>1. CASE PayoutNext
  BY <1>1, PayoutTypesStep
<1>2. CASE KycNext /\ UNCHANGED payout
  <2>1. KycTypes'
    BY <1>2, KycTypesStep DEF TypeOK
  <2>2. QED
    BY <1>2, <2>1 DEF TypeOK, payout
<1>3. CASE UNCHANGED vars
  BY <1>3 DEF vars, kyc, payout, TypeOK, KycTypes
<1>4. QED
  BY <1>1, <1>2, <1>3 DEF Next

\* Rows, tokens, handlers and documents keep their types: a handler that is at
\* work knows for whom, and no token is used that was not handed out
\* (withdrawals.js, kyc.js).
THEOREM PayoutsTypes == Spec => []TypeOK
BY TypesInit, TypesStep, PTL DEF Spec

-----------------------------------------------------------------------------
(* The approval.                                                           *)

\* While no review overlaps a submission or another review, there is one review
\* at a time and none beside a submission; what is being submitted is not
\* approved yet, and what is being reviewed neither.
Apart ==
  /\ Submitting # {} => Reviewing = {} /\ doc # "approved"
  /\ \A a, b \in Reviewing : a = b
  /\ Reviewing # {} => doc # "approved"

ApprovalInv == ~mixed => Apart /\ ApprovalStands

LEMMA ApprovalInit == Init => ApprovalInv
BY DEF Init, KycInit, ApprovalInv, Apart, Submitting, Reviewing, ApprovalStands

LEMMA ApprovalSubmission ==
  ASSUME TypeOK, ApprovalInv, NEW t \in Tabs,
         Submits(t) \/ SubmitFails(t) \/ WritesRow(t) \/ \E kind \in Kinds : Uploads(t, kind)
  PROVE  ApprovalInv'
<1>. SUFFICES ASSUME ~mixed' PROVE Apart' /\ ApprovalStands'
  BY DEF ApprovalInv
<1>0. mixed => mixed'
  BY DEF Submits, SubmitFails, WritesRow, Uploads
<1>1. ~mixed /\ Apart /\ Reviewing' = Reviewing /\ approved' = approved
  <2>1. review' = review /\ approved' = approved
    BY DEF Submits, SubmitFails, WritesRow, Uploads
  <2>2. QED
    BY <1>0, <2>1 DEF ApprovalInv, Reviewing
<1>2. doc # "approved" /\ Reviewing = {}
  <2>1. CASE Submits(t)
    BY <2>1, <1>1 DEF Submits, MaySubmit
  <2>2. CASE SubmitFails(t) \/ WritesRow(t) \/ \E kind \in Kinds : Uploads(t, kind)
    <3>1. t \in Submitting
      BY <2>2 DEF SubmitFails, WritesRow, Uploads, Submitting
    <3>2. QED
      BY <3>1, <1>1 DEF Apart
  <2>3. QED
    BY <2>1, <2>2
<1>3. doc' # "approved"
  BY <1>2 DEF Submits, SubmitFails, WritesRow, Uploads
<1>4. approved = None
  BY <1>1, <1>2 DEF ApprovalInv, ApprovalStands
<1>5. QED
  BY <1>1, <1>2, <1>3, <1>4 DEF Apart, ApprovalStands

LEMMA ApprovalReview ==
  ASSUME TypeOK, ApprovalInv, NEW a \in Reviews,
         EndsReview(a) \/ \E verdict \in {"approving", "rejecting"} : BeginsReview(a, verdict)
  PROVE  ApprovalInv'
<1>. SUFFICES ASSUME ~mixed' PROVE Apart' /\ ApprovalStands'
  BY DEF ApprovalInv
<1>0. mixed => mixed'
  BY DEF EndsReview, BeginsReview
<1>1. ~mixed /\ Apart /\ ApprovalStands /\ Submitting' = Submitting /\ pictures' = pictures
  <2>1. tab' = tab /\ pictures' = pictures
    BY DEF EndsReview, BeginsReview
  <2>2. QED
    BY <1>0, <2>1 DEF ApprovalInv, Submitting
<1>2. CASE EndsReview(a)
  <2>1. a \in Reviewing
    BY <1>2 DEF EndsReview, Reviewing
  <2>2. Reviewing' = {}
    BY <1>1, <1>2, <2>1 DEF Apart, EndsReview, Reviewing, TypeOK, KycTypes
  <2>3. Submitting = {} /\ approved = None
    BY <1>1, <2>1 DEF Apart, ApprovalStands
  <2>4. QED
    BY <1>1, <1>2, <2>2, <2>3 DEF Apart, EndsReview, ApprovalStands
<1>3. ASSUME NEW verdict \in {"approving", "rejecting"}, BeginsReview(a, verdict)
      PROVE Apart' /\ ApprovalStands'
  <2>1. Submitting = {} /\ Reviewing = {} /\ doc' = doc /\ doc # "approved" /\ approved' = approved
    BY <1>1, <1>3 DEF BeginsReview
  <2>2. Reviewing' \subseteq {a}
    BY <1>3, <2>1 DEF BeginsReview, Reviewing, TypeOK, KycTypes
  <2>3. approved = None
    BY <1>1, <2>1 DEF ApprovalStands
  <2>4. QED
    BY <1>1, <2>1, <2>2, <2>3 DEF Apart, ApprovalStands
<1>4. QED
  BY <1>2, <1>3

LEMMA ApprovalStep == TypeOK /\ ApprovalInv /\ [Next]_vars => ApprovalInv'
<1>. SUFFICES ASSUME TypeOK, ApprovalInv, [Next]_vars PROVE ApprovalInv'
  OBVIOUS
<1>1. CASE UNCHANGED kyc
  BY <1>1 DEF kyc, ApprovalInv, Apart, Submitting, Reviewing, ApprovalStands
<1>2. CASE KycNext
  <2>1. CASE AdminSetsRole \/ Earns
    BY <2>1 DEF AdminSetsRole, Earns, ApprovalInv, Apart, Submitting, Reviewing, ApprovalStands
  <2>2. QED
    BY <1>2, <2>1, ApprovalSubmission, ApprovalReview DEF KycNext
<1>3. QED
  BY <1>1, <1>2, PayoutLeavesKyc DEF Next, vars

\* What an admin has approved stays approved, and is what is stored under the
\* client's keys: kyc.js:122-130 refuses a submission of what is pending or
\* approved, and admin.js a rejection of what is approved.  The row is written
\* whatever its status is by then, so this needs reviews that overlap neither
\* a submission nor each other.
THEOREM PayoutsApproval == Spec => []ApprovalStands
<1>1. TypeOK /\ ApprovalInv => ApprovalStands
  BY DEF ApprovalInv, ApprovalStands
<1>2. QED
  BY <1>1, TypesInit, TypesStep, ApprovalInit, ApprovalStep, PTL DEF Spec

-----------------------------------------------------------------------------
(* One withdrawal open.                                                    *)

\* While no creations overlap, whoever has passed the checks finds nothing open
\* when it creates its row.
OpenInv ==
  ~crossed => /\ \A r, s \in Open : r = s
              /\ \A q \in Requests : Checked(q) => Open = {}

LEMMA OpenInit == Init => OpenInv
BY DEF Init, OpenInv, Open, NoRow, Checked, Rest

\* What a step does to the handlers.
LEMMA GoesMoves ==
  ASSUME TypeOK, NEW q \in Requests, NEW at, Goes(q, at)
  PROVE  /\ request'[q].at = at /\ request'[q].token = request[q].token
         /\ \A p \in Requests \ {q} : request'[p] = request[p]
BY DEF TypeOK, Goes, Handling, Rest

LEMMA AnswerMoves ==
  ASSUME TypeOK, NEW q \in Requests, Answer(q)
  PROVE  /\ request'[q].at = "idle" /\ request'[q].token = 0
         /\ \A p \in Requests \ {q} : request'[p] = request[p]
BY DEF TypeOK, Answer, Rest

\* A wrong password leads to the lock or to the answer, the second check to the
\* transaction or to the answer.
LEMMA CountingGoes ==
  ASSUME NEW q \in Requests, CountsWrong(q)
  PROVE  request[q].at = "wrong" /\ (Goes(q, "locking") \/ Answer(q))
BY Zenon DEF CountsWrong

LEMMA CheckingGoes ==
  ASSUME NEW q \in Requests, ChecksAgain(q)
  PROVE  request[q].at = "again" /\ (Goes(q, "checked") \/ Answer(q))
BY Zenon DEF ChecksAgain

LEMMA OpenCreates ==
  ASSUME TypeOK, OpenInv, NEW q \in Requests, NEW r \in Rows, Creates(q, r)
  PROVE  OpenInv'
<1>. SUFFICES ASSUME ~crossed' PROVE OpenInv'
  BY DEF OpenInv
<1>1. ~crossed /\ \A p \in Requests \ {q} : ~Checked(p)
  BY DEF Creates
<1>2. Open = {}
  BY <1>1 DEF OpenInv, Creates
<1>3. Open' \subseteq {r}
  BY <1>2 DEF Creates, Open, TypeOK
<1>4. \A p \in Requests : ~Checked(p)'
  BY <1>1 DEF Creates, Checked, Answer, Rest, TypeOK
<1>5. QED
  BY <1>3, <1>4 DEF OpenInv

LEMMA OpenStep == TypeOK /\ OpenInv /\ [Next]_vars => OpenInv'
<1>. SUFFICES ASSUME TypeOK, OpenInv, [Next]_vars PROVE OpenInv'
  OBVIOUS
<1>1. CASE UNCHANGED payout
  BY <1>1 DEF payout, OpenInv, Open, Checked
\* A handler that gets past the checks has just found nothing open.
<1>2. ASSUME row' = row, crossed' = crossed,
             \A q \in Requests : Checked(q)' => Checked(q) \/ Open = {}
      PROVE OpenInv'
  BY <1>2 DEF OpenInv, Open
<1>3. ASSUME NEW q \in Requests,
             \/ Intent(q) \/ HandsOutToken(q) \/ Submit(q)
             \/ \E right \in BOOLEAN : ComparesPassword(q, right)
             \/ CountsWrong(q) \/ SetsLock(q) \/ SpendsToken(q) \/ ChecksAgain(q)
             \/ \E by \in {"admin", "optout"} : AdminCreates(q, by)
             \/ Finalize(q) \/ FindsNothingOpen(q) \/ RequestFails(q)
      PROVE OpenInv'
  <2>1. row' = row /\ crossed' = crossed
    BY <1>3 DEF Intent, HandsOutToken, Submit, ComparesPassword, CountsWrong, SetsLock, SpendsToken,
       ChecksAgain, AdminCreates, Finalize, FindsNothingOpen, RequestFails, withdrawals, history
  <2>2. \A p \in Requests : Checked(p)' => Checked(p) \/ Open = {}
    <3>. USE DEF Checked, Goes, Answer, Rest, NothingOpen, TypeOK
    <3>0. CASE Intent(q) \/ Submit(q)
      BY <3>0 DEF Intent, Submit
    <3>1. CASE HandsOutToken(q) \/ SetsLock(q) \/ RequestFails(q)
      BY <3>1 DEF HandsOutToken, SetsLock, RequestFails
    <3>5. CASE CountsWrong(q)
      <4>1. Goes(q, "locking") \/ Answer(q)
        BY <3>5, CountingGoes
      <4>2. QED
        BY <4>1, GoesMoves, AnswerMoves DEF Checked
    <3>6. CASE SpendsToken(q)
      BY <3>6 DEF SpendsToken
    <3>2. CASE \E right \in BOOLEAN : ComparesPassword(q, right)
      BY <3>2 DEF ComparesPassword
    <3>3. CASE ChecksAgain(q) \/ \E by \in {"admin", "optout"} : AdminCreates(q, by)
      BY <3>3 DEF ChecksAgain, AdminCreates
    <3>4. CASE Finalize(q) \/ FindsNothingOpen(q)
      BY <3>4 DEF Finalize, FindsNothingOpen, MayClose
    <3>7. QED
      BY <1>3, <3>0, <3>1, <3>2, <3>3, <3>4, <3>5, <3>6
  <2>3. QED
    BY <1>2, <2>1, <2>2
\* A row that leaves the pending or processing ones, or is taken up from them.
<1>4. ASSUME NEW r \in Rows,
             TakenUp(r) \/ Rejects(r) \/ \E s \in {"processed", "failed"} : Ends(r, s)
      PROVE OpenInv'
  <2>1. request' = request
    BY <1>4 DEF TakenUp, Rejects, Ends
  <2>2. crossed' \/ (~crossed /\ Open' \subseteq Open) \/ crossed
    BY <1>4 DEF TakenUp, Rejects, Ends, history, Open, TypeOK, Row, NoRow
  <2>3. crossed => crossed'
    BY <1>4 DEF TakenUp, Rejects, Ends, history
  <2>4. QED
    BY <2>1, <2>2, <2>3 DEF OpenInv, Checked
<1>5. CASE TokenExpires \/ AdminSetsStatus \/ DayPasses
  BY <1>5 DEF TokenExpires, AdminSetsStatus, DayPasses, withdrawals, history, OpenInv, Open, Checked
<1>6. QED
  <2>1. UNCHANGED vars => UNCHANGED payout
    BY DEF vars
  <2>2. QED
    BY <1>1, <1>3, <1>4, <1>5, <2>1, OpenCreates DEF Next, PayoutNext

-----------------------------------------------------------------------------
(* A token opens one withdrawal.                                           *)

\* Nobody knows a token before it is handed out.
TokensHandedOut ==
  /\ token <= intents
  /\ \A q \in Requests : request[q].token <= intents
  /\ \A r \in Rows : row[r].token <= intents

\* Whoever is past its deletion holds a token that is gone; that of a row is gone
\* and in no other hand.
TokensSpent ==
  /\ \A q \in Requests :
       request[q].at \in {"again", "checked"} /\ request[q].token # 0 => request[q].token # token
  /\ \A r \in Rows : row[r].token # 0 =>
       /\ row[r].token # token
       /\ \A q \in Requests : request[q].token # row[r].token

\* The opt-out needs no token.
OptOutHasNone == \A q \in Requests : request[q].at = "finding" => request[q].token = 0

TokenInv ==
  TokensHandedOut /\ OptOutHasNone /\ (~faults /\ ~crossed => TokensSpent /\ TokenOpensOne)

LEMMA TokenInit == Init => TokenInv
BY DEF Init, TokenInv, TokensHandedOut, OptOutHasNone, TokensSpent, TokenOpensOne, Rest, NoRow

LEMMA RequestTypes ==
  ASSUME TypeOK, NEW q \in Requests
  PROVE  request[q].token \in Nat /\ (request[q] = Rest \/ request[q] \in Handling)
BY PayoutsAssumption DEF TypeOK, Rest, Handling

LEMMA RowTypes ==
  ASSUME TypeOK, NEW r \in Rows
  PROVE  row[r].token \in Nat /\ (row[r] = NoRow \/ row[r] \in Row)
BY PayoutsAssumption DEF TypeOK, Row, NoRow

\* A step that only moves handlers on, without a token they did not have.
\* A step that only moves handlers on, none of them to a token of another.
LEMMA TokensMoved ==
  ASSUME TypeOK, TokenInv, row' = row, intents' = intents,
         token' = token \/ token' = 0, crossed' = crossed, faults => faults',
         \A q \in Requests : request'[q].at = "finding" => request'[q].token = 0,
         \A q \in Requests :
           \/ request'[q].token = 0
           \/ /\ request'[q].token = request[q].token
              /\ \/ request'[q].at \notin {"again", "checked"}
                 \/ request[q].at \in {"again", "checked"}
                 \/ token' = 0 \/ faults'
  PROVE  TokenInv'
<1>0. intents \in Nat
  BY PayoutsAssumption DEF TypeOK
<1>1. TokensHandedOut'
  BY <1>0, RequestTypes DEF TokenInv, TokensHandedOut
<1>2. ASSUME ~faults', ~crossed' PROVE TokensSpent' /\ TokenOpensOne'
  <2>1. TokensSpent /\ TokenOpensOne
    BY <1>2 DEF TokenInv
  <2>2. TokenOpensOne'
    BY <1>2, <2>1 DEF TokenOpensOne
  <2>3. TokensSpent'
    BY <1>2, <2>1 DEF TokensSpent
  <2>4. QED
    BY <2>2, <2>3
<1>3. QED
  BY <1>1, <1>2 DEF TokenInv, OptOutHasNone

\* The first step: the token is new.
LEMMA TokenHandedOut ==
  ASSUME TypeOK, TokenInv, NEW q \in Requests, HandsOutToken(q)
  PROVE  TokenInv'
<1>0. intents \in Nat /\ token' = intents + 1 /\ intents' = intents + 1
  BY PayoutsAssumption DEF TypeOK, HandsOutToken
<1>1. row' = row /\ faults' = faults /\ crossed' = crossed
  BY DEF HandsOutToken, withdrawals, history
<1>2. \A p \in Requests : request'[p].token = 0 \/ request'[p] = request[p]
  BY DEF HandsOutToken, Answer, Rest, TypeOK
<1>3. TokensHandedOut'
  BY <1>0, <1>1, <1>2, RequestTypes, RowTypes DEF TokenInv, TokensHandedOut
<1>4. ASSUME ~faults', ~crossed' PROVE TokensSpent' /\ TokenOpensOne'
  <2>1. TokensHandedOut /\ TokensSpent /\ TokenOpensOne
    BY <1>1, <1>4 DEF TokenInv
  <2>2. TokenOpensOne'
    BY <1>1, <1>4, <2>1 DEF TokenOpensOne
  <2>3. TokensSpent'
    BY <1>0, <1>1, <1>2, <2>1, RequestTypes, RowTypes DEF TokensSpent, TokensHandedOut
  <2>4. QED
    BY <2>2, <2>3
<1>5. OptOutHasNone'
  BY <1>2 DEF TokenInv, OptOutHasNone
<1>6. QED
  BY <1>3, <1>4, <1>5 DEF TokenInv

\* The second step takes the token that is there, which no row has.
LEMMA TokenTaken ==
  ASSUME TypeOK, TokenInv, NEW q \in Requests, Submit(q)
  PROVE  TokenInv'
<1>1. /\ row' = row /\ faults' = faults /\ crossed' = crossed
      /\ token' = token /\ intents' = intents
  BY DEF Submit, withdrawals, history, tokens
<1>2. \A p \in Requests : request'[p] = request[p]
                          \/ (request'[p].token = token /\ request'[p].at = "comparing")
  BY DEF Submit, TypeOK
<1>3. TokensHandedOut'
  BY <1>1, <1>2 DEF TokenInv, TokensHandedOut
<1>4. ASSUME ~faults', ~crossed' PROVE TokensSpent' /\ TokenOpensOne'
  <2>1. TokensSpent /\ TokenOpensOne
    BY <1>1, <1>4 DEF TokenInv
  <2>2. TokenOpensOne'
    BY <1>1, <1>4, <2>1 DEF TokenOpensOne
  <2>3. TokensSpent'
    BY <1>1, <1>2, <2>1 DEF TokensSpent
  <2>4. QED
    BY <2>2, <2>3
<1>5. OptOutHasNone'
  BY <1>2 DEF TokenInv, OptOutHasNone
<1>6. QED
  BY <1>3, <1>4, <1>5 DEF TokenInv

\* The row takes over a token that is gone and, as creations do not overlap, in
\* no other hand.
LEMMA TokenUsed ==
  ASSUME TypeOK, TokenInv, NEW q \in Requests, NEW r \in Rows, Creates(q, r)
  PROVE  TokenInv'
<1>1. /\ faults' = faults /\ token' = token /\ intents' = intents
      /\ request[q].at = "checked" /\ row[r].token = 0
  BY DEF Creates, tokens, Checked, NoRow
<1>2. \A s \in Rows : row'[s] = row[s] \/ (s = r /\ row'[s].token = request[q].token)
  BY DEF Creates, TypeOK
<1>3. \A p \in Requests : request'[p] = IF p = q THEN Rest ELSE request[p]
  BY DEF Creates, Answer, TypeOK
<1>4. TokensHandedOut'
  <2>1. intents \in Nat
    BY PayoutsAssumption DEF TypeOK
  <2>2. QED
    BY <1>1, <1>2, <1>3, <2>1 DEF TokenInv, TokensHandedOut, Rest
<1>5. ASSUME ~faults', ~crossed' PROVE TokensSpent' /\ TokenOpensOne'
  <2>0. ~crossed /\ \A p \in Requests \ {q} : request[p].token = 0
    BY <1>5 DEF Creates
  <2>1. TokensSpent /\ TokenOpensOne
    BY <1>1, <1>5, <2>0 DEF TokenInv
  <2>2. \A p \in Requests : request'[p].token = 0
    BY <1>3, <2>0 DEF Rest
  <2>3. TokensSpent'
    BY <1>1, <1>2, <2>1, <2>2 DEF TokensSpent
  <2>4. \A s \in Rows : row[s].token # 0 => row[s].token # request[q].token
    BY <2>1 DEF TokensSpent
  <2>5. TokenOpensOne'
    BY <1>2, <1>5, <2>0, <2>1, <2>4, <1>1 DEF TokenOpensOne
  <2>6. QED
    BY <2>3, <2>5
<1>6. OptOutHasNone'
  BY <1>3 DEF TokenInv, OptOutHasNone, Rest
<1>7. QED
  BY <1>4, <1>5, <1>6 DEF TokenInv

\* What becomes of a row does not change its token.
LEMMA TokensKept ==
  ASSUME TypeOK, TokenInv, NEW r \in Rows,
         TakenUp(r) \/ Rejects(r) \/ \E s \in {"processed", "failed"} : Ends(r, s)
  PROVE  TokenInv'
<1>1. /\ \A s \in Rows : row'[s].token = row[s].token
      /\ request' = request /\ token' = token /\ intents' = intents /\ faults' = faults
  BY DEF TakenUp, Rejects, Ends, tokens, history, TypeOK, Row, NoRow
<1>2. crossed => crossed'
  BY DEF TakenUp, Rejects, Ends, history
<1>3. TokensHandedOut'
  BY <1>1 DEF TokenInv, TokensHandedOut
<1>4. ASSUME ~faults', ~crossed' PROVE TokensSpent' /\ TokenOpensOne'
  BY <1>1, <1>2, <1>4 DEF TokenInv, TokensSpent, TokenOpensOne
<1>5. QED
  BY <1>1, <1>3, <1>4 DEF TokenInv, OptOutHasNone

LEMMA TokenRequest ==
  ASSUME TypeOK, TokenInv, NEW q \in Requests,
         \/ Intent(q) \/ CountsWrong(q) \/ SetsLock(q) \/ SpendsToken(q) \/ ChecksAgain(q)
         \/ \E right \in BOOLEAN : ComparesPassword(q, right)
         \/ \E by \in {"admin", "optout"} : AdminCreates(q, by)
         \/ Finalize(q) \/ FindsNothingOpen(q) \/ RequestFails(q)
  PROVE  TokenInv'
<1>. USE DEF Goes, Answer, Rest, TypeOK
<1>1. row' = row /\ intents' = intents /\ crossed' = crossed
  BY DEF Intent, CountsWrong, SetsLock, SpendsToken, ChecksAgain, ComparesPassword, AdminCreates,
     Finalize, FindsNothingOpen, RequestFails, withdrawals, tokens, history
<1>2. (token' = token \/ token' = 0) /\ (faults => faults')
  BY DEF Intent, CountsWrong, SetsLock, SpendsToken, Spent, ChecksAgain, ComparesPassword,
     AdminCreates, Finalize, FindsNothingOpen, RequestFails, tokens, history
<1>3. \A p \in Requests :
        \/ request'[p].token = 0
        \/ /\ request'[p].token = request[p].token
           /\ \/ request'[p].at \notin {"again", "checked"}
              \/ request[p].at \in {"again", "checked"}
              \/ token' = 0 \/ faults'
  <2>1. CASE Intent(q) \/ \E by \in {"admin", "optout"} : AdminCreates(q, by)
    BY <2>1 DEF Intent, AdminCreates
  <2>2. CASE CountsWrong(q)
    <3>1. Goes(q, "locking") \/ Answer(q)
      BY <2>2, CountingGoes
    <3>2. QED
      BY <3>1, GoesMoves, AnswerMoves
  <2>3. CASE SetsLock(q) \/ RequestFails(q)
    BY <2>3 DEF SetsLock, RequestFails
  <2>4. CASE SpendsToken(q)
    BY <2>4 DEF SpendsToken, Spent
  <2>5. CASE ChecksAgain(q)
    <3>1. request[q].at = "again" /\ (Goes(q, "checked") \/ Answer(q))
      BY <2>5, CheckingGoes
    <3>2. QED
      BY <3>1, GoesMoves, AnswerMoves
  <2>6. CASE \E right \in BOOLEAN : ComparesPassword(q, right)
    BY <2>6 DEF ComparesPassword
  <2>7. CASE Finalize(q)
    BY <2>7 DEF Finalize
  <2>8. CASE FindsNothingOpen(q)
    <3>0. Goes(q, "checked") \/ Answer(q)
      BY <2>8, Zenon DEF FindsNothingOpen
    <3>1. request[q].token = 0
      BY <2>8 DEF FindsNothingOpen, TokenInv, OptOutHasNone
    <3>2. QED
      BY <3>0, <3>1, GoesMoves, AnswerMoves
  <2>9. QED
    BY <2>1, <2>2, <2>3, <2>4, <2>5, <2>6, <2>7, <2>8
<1>4. \A p \in Requests : request'[p].at = "finding" => request'[p].token = 0
  <2>0. request'[q].at # "finding" \/ request'[q].token = 0 \/ request' = request
    <3>1. CASE CountsWrong(q)
      <4>1. Goes(q, "locking") \/ Answer(q)
        BY <3>1, CountingGoes
      <4>2. QED
        BY <4>1, GoesMoves, AnswerMoves
    <3>2. CASE ChecksAgain(q)
      BY <3>2, CheckingGoes, GoesMoves, AnswerMoves
    <3>3. CASE Intent(q) \/ SetsLock(q) \/ RequestFails(q)
      BY <3>3 DEF Intent, SetsLock, RequestFails
    <3>8. CASE \E right \in BOOLEAN : ComparesPassword(q, right)
      BY <3>8 DEF ComparesPassword, Handling
    <3>4. CASE SpendsToken(q)
      BY <3>4 DEF SpendsToken
    <3>5. CASE \E by \in {"admin", "optout"} : AdminCreates(q, by)
      BY <3>5 DEF AdminCreates
    <3>6. CASE Finalize(q)
      BY <3>6 DEF Finalize
    <3>9. CASE FindsNothingOpen(q)
      <4>1. Goes(q, "checked") \/ Answer(q)
        BY <3>9, Zenon DEF FindsNothingOpen
      <4>2. QED
        BY <4>1, GoesMoves, AnswerMoves
    <3>7. QED
      BY <3>1, <3>2, <3>3, <3>4, <3>5, <3>6, <3>8, <3>9
  <2>1. \A p \in Requests \ {q} : request'[p] = request[p]
    <3>1. CASE CountsWrong(q) \/ ChecksAgain(q)
      BY <3>1, CountingGoes, CheckingGoes
    <3>2. CASE \/ Intent(q) \/ SetsLock(q) \/ SpendsToken(q) \/ RequestFails(q)
               \/ \E right \in BOOLEAN : ComparesPassword(q, right)
               \/ \E by \in {"admin", "optout"} : AdminCreates(q, by)
      BY <3>2 DEF Intent, SetsLock, SpendsToken, RequestFails, ComparesPassword, AdminCreates
    <3>3. CASE Finalize(q) \/ FindsNothingOpen(q)
      BY <3>3 DEF Finalize, FindsNothingOpen
    <3>4. QED
      BY <3>1, <3>2, <3>3
  <2>2. QED
    BY <2>0, <2>1 DEF TokenInv, OptOutHasNone
<1>5. QED
  BY <1>1, <1>2, <1>3, <1>4, TokensMoved

LEMMA TokenStep == TypeOK /\ TokenInv /\ [Next]_vars => TokenInv'
<1>. SUFFICES ASSUME TypeOK, TokenInv, [Next]_vars PROVE TokenInv'
  OBVIOUS
<1>1. CASE UNCHANGED payout
  BY <1>1 DEF payout, TokenInv, TokensHandedOut, OptOutHasNone, TokensSpent, TokenOpensOne
<1>2. CASE TokenExpires \/ AdminSetsStatus \/ DayPasses
  <2>1. /\ row' = row /\ intents' = intents /\ crossed' = crossed /\ faults' = faults
        /\ request' = request /\ (token' = token \/ token' = 0)
    BY <1>2 DEF TokenExpires, AdminSetsStatus, DayPasses, withdrawals, tokens, history
  <2>2. QED
    BY <2>1, TokensMoved DEF TokenInv, OptOutHasNone
<1>3. CASE PayoutNext
  BY <1>2, <1>3, TokenHandedOut, TokenTaken, TokenUsed, TokensKept, TokenRequest DEF PayoutNext
<1>4. QED
  BY <1>1, <1>3 DEF Next, vars

\* A client that asks once is paid once: one withdrawal is open at a time,
\* whoever creates it, and a token opens one.  withdrawals.js reads the token and
\* what is open before it creates the row, in calls of their own, so this is for
\* creations that do not overlap, rows that are not taken up a second time, and
\* a Redis that deletes the token when told to.
THEOREM PayoutsOpenedOnce == Spec => []OpenedOnce
<1>1. TypeOK /\ OpenInv /\ TokenInv => OpenedOnce
  <2>. SUFFICES ASSUME TypeOK, OpenInv, TokenInv PROVE OpenedOnce
    OBVIOUS
  <2>1. ASSUME ~crossed PROVE Cardinality(Open) <= 1
    <3>1. CASE Open = {}
      BY <3>1, FS_EmptySet
    <3>2. ASSUME NEW r \in Open PROVE Cardinality(Open) <= 1
      <4>1. Open = {r}
        BY <2>1, <3>2 DEF OpenInv
      <4>2. Cardinality({r}) = 1
        BY FS_Singleton
      <4>3. QED
        BY <4>1, <4>2
    <3>3. QED
      BY <3>1, <3>2
  <2>2. TokenOpensOne
    BY DEF TokenInv, TokenOpensOne
  <2>3. QED
    BY <2>1, <2>2 DEF OpenedOnce, OneOpen
<1>2. QED
  BY <1>1, TypesInit, TypesStep, OpenInit, OpenStep, TokenInit, TokenStep, PTL DEF Spec

-----------------------------------------------------------------------------
(* Reconciliation.  A call that is in its transaction has found no credit.  *)
(* Whoever credits its invoice meanwhile has either used its key, so that   *)
(* it will abort, or overlapped it; payment cannot, because the invoice is  *)
(* paid already.                                                           *)

LEMMA BooksTypesInit == Recon!Init => Recon!TypeOK
<1> SUFFICES ASSUME Recon!Init PROVE Recon!TypeOK
  OBVIOUS
<1>1. ledger \in [Invoices -> Recon!Ledger]
  BY DEF Recon!Init, Recon!Ledger
<1>2. executes \in [Executes -> Recon!Call]
  BY DEF Recon!Init, Recon!Call
<1> QED
  BY <1>1, <1>2 DEF Recon!Init, Recon!TypeOK

\* What a credit does to the row of an invoice.
LEMMA PlanCredits ==
  ASSUME Recon!TypeOK, NEW i \in Invoices, NEW isPro \in BOOLEAN
  PROVE  /\ Recon!Plan(i, isPro) \in Recon!Ledger
         /\ Recon!Plan(i, isPro).credit_pending + Recon!Plan(i, isPro).credit_available = Recon!Credits(i) + 1
         /\ Recon!Credits(i) \in Nat
<1>1. ledger[i] \in Recon!Ledger
  BY DEF Recon!TypeOK
<1>2. /\ Recon!Plan(i, isPro) \in Recon!Ledger
      /\ isPro => /\ Recon!Plan(i, isPro).credit_pending = ledger[i].credit_pending
                  /\ Recon!Plan(i, isPro).credit_available = ledger[i].credit_available + 1
      /\ ~isPro => /\ Recon!Plan(i, isPro).credit_pending = ledger[i].credit_pending + 1
                   /\ Recon!Plan(i, isPro).credit_available = ledger[i].credit_available
  BY <1>1 DEF Recon!Plan, Recon!Ledger
<1> QED
  BY <1>1, <1>2 DEF Recon!Credits, Recon!Ledger

-----------------------------------------------------------------------------
(* The inductive invariant.                                                *)

\* Only paid invoices are repaired, and those that are not paid have no credit.
RepairsPaid ==
  /\ \A c \in Executes : executes[c].pc # "idle" => status[executes[c].invoice] = "paid"
  /\ \A i \in Invoices : status[i] = "pending" => Recon!Credits(i) = 0

\* What a transaction has found still holds, or it will abort, or is known to overlap.
FoundNone ==
  \A c \in Executes : executes[c].pc = "writing" =>
    \/ Recon!Credits(executes[c].invoice) = 0
    \/ executes[c].invoice \in overlapped
    \/ executes[c].key \in usedKeys

BooksInv == Recon!TypeOK /\ RepairsPaid /\ FoundNone /\ CreditedOnceByFix

LEMMA BooksInit == Recon!Init => BooksInv
<1> SUFFICES ASSUME Recon!Init PROVE BooksInv
  OBVIOUS
<1>1. \A i \in Invoices : Recon!Credits(i) = 0
  BY DEF Recon!Init, Recon!Credits
<1> QED
  BY <1>1, BooksTypesInit DEF Recon!Init, BooksInv, RepairsPaid, FoundNone, CreditedOnceByFix, Recon!CreditedOnceByFix, Recon!Idle

\* Steps that write neither invoices nor the ledger, and start no transaction.
LEMMA NothingBooked ==
  ASSUME BooksInv, Recon!TypeOK', UNCHANGED <<status, ledger, usedKeys, overlapped>>,
         \A c \in Executes :
           \/ executes'[c] = executes[c]
           \/ executes'[c].pc = "idle"
           \/ executes'[c].pc = "preview" /\ status[executes'[c].invoice] = "paid"
  PROVE  BooksInv'
<1>1. \A i : Recon!Credits(i)' = Recon!Credits(i)
  BY DEF Recon!Credits
<1>2. CreditedOnceByFix'
  BY <1>1 DEF BooksInv, CreditedOnceByFix, Recon!CreditedOnceByFix
<1>3. RepairsPaid'
  BY <1>1 DEF BooksInv, RepairsPaid
<1>4. FoundNone'
  BY <1>1 DEF BooksInv, FoundNone
<1> QED
  BY <1>2, <1>3, <1>4 DEF BooksInv

LEMMA PreviewKeeps ==
  ASSUME BooksInv, NEW i \in Invoices, NEW c \in Executes, NEW key \in Keys \cup {Recon!DefaultKey(i)},
         Recon!Preview(c, i, key)
  PROVE  BooksInv'
<1>1. /\ UNCHANGED <<status, ledger, pro, usedKeys, overlapped>>
      /\ executes' = [executes EXCEPT ![c] = [pc |-> "preview", invoice |-> i, key |-> key]]
      /\ status[i] = "paid" /\ key \in Recon!AnyKey
  BY DEF Recon!Preview, Recon!AnyKey
<1>2. Recon!TypeOK'
  BY <1>1 DEF BooksInv, Recon!TypeOK, Recon!Call
<1>3. \A d \in Executes : executes'[d] = executes[d] \/ executes'[d] = [pc |-> "preview", invoice |-> i, key |-> key]
  BY <1>1 DEF BooksInv, Recon!TypeOK
<1> QED
  BY <1>1, <1>2, <1>3, NothingBooked

\* A transaction begins only on an invoice without a credit.
LEMMA BeginsKeeps ==
  ASSUME BooksInv, NEW c \in Executes, Recon!Begins(c)
  PROVE  BooksInv'
<1> DEFINE i == executes[c].invoice
<1>1. executes[c].pc = "preview" /\ executes[c] \in Recon!Call /\ i \in Invoices /\ executes[c].key \in Recon!AnyKey
  BY DEF BooksInv, Recon!TypeOK, Recon!Begins, Recon!Call, Recon!Idle
<1>2. UNCHANGED <<status, ledger, pro, usedKeys, overlapped>>
  BY DEF Recon!Begins
<1>3. CASE Recon!Credits(i) = 0
  <2>1. executes' = [executes EXCEPT ![c] = [pc |-> "writing", invoice |-> i, key |-> executes[c].key,
                                     pro |-> pro]]
    BY <1>3 DEF Recon!Begins, Recon!Fixable
  <2>2. Recon!TypeOK'
    BY <1>1, <1>2, <2>1 DEF BooksInv, Recon!TypeOK, Recon!Call
  <2>3. \A j : Recon!Credits(j)' = Recon!Credits(j)
    BY <1>2 DEF Recon!Credits
  <2>4. /\ executes'[c].pc = "writing" /\ executes'[c].invoice = i
        /\ \A d \in Executes \ {c} : executes'[d] = executes[d]
    BY <2>1 DEF BooksInv, Recon!TypeOK
  <2>5. RepairsPaid'
    BY <1>1, <1>2, <2>3, <2>4 DEF BooksInv, RepairsPaid
  <2>6. FoundNone'
    BY <1>2, <1>3, <2>3, <2>4 DEF BooksInv, FoundNone
  <2>7. CreditedOnceByFix'
    BY <1>2, <2>3 DEF BooksInv, CreditedOnceByFix, Recon!CreditedOnceByFix
  <2> QED
    BY <2>2, <2>5, <2>6, <2>7 DEF BooksInv
<1>4. CASE Recon!Credits(i) # 0
  <2>1. executes' = [executes EXCEPT ![c] = Recon!Idle]
    BY <1>4 DEF Recon!Begins, Recon!Fixable
  <2>2. Recon!TypeOK'
    BY <1>2, <2>1 DEF BooksInv, Recon!TypeOK, Recon!Call
  <2>3. \A d \in Executes : executes'[d] = executes[d] \/ executes'[d].pc = "idle"
    BY <2>1 DEF BooksInv, Recon!TypeOK, Recon!Idle
  <2> QED
    BY <1>2, <2>2, <2>3, NothingBooked
<1> QED
  BY <1>3, <1>4

\* A commit credits an invoice once, or is one of two that overlap.
LEMMA CommitsKeeps ==
  ASSUME BooksInv, NEW c \in Executes, Recon!Commits(c)
  PROVE  BooksInv'
<1>0. executes[c].pc = "writing" /\ executes[c].invoice \in Invoices /\ executes[c].key \in Recon!AnyKey
  BY DEF BooksInv, Recon!TypeOK, Recon!Commits, Recon!Call, Recon!Idle
<1> PICK i \in Invoices, key \in Recon!AnyKey : i = executes[c].invoice /\ key = executes[c].key
  BY <1>0
<1>1. executes[c].pc = "writing" /\ i \in Invoices /\ key \in Recon!AnyKey /\ executes[c].pro \in BOOLEAN
  BY DEF BooksInv, Recon!TypeOK, Recon!Commits, Recon!Call, Recon!Idle
<1>2. UNCHANGED <<status, pro>> /\ executes' = [executes EXCEPT ![c] = Recon!Idle]
  BY DEF Recon!Commits
<1>3. /\ executes'[c].pc = "idle"
      /\ \A d \in Executes \ {c} : executes'[d] = executes[d]
  BY <1>2 DEF BooksInv, Recon!TypeOK, Recon!Idle
<1>4. CASE key \in usedKeys
  <2>1. UNCHANGED <<ledger, usedKeys, overlapped>>
    BY <1>4 DEF Recon!Commits, Recon!KeyIsFree
  <2>2. Recon!TypeOK'
    BY <1>2, <2>1 DEF BooksInv, Recon!TypeOK, Recon!Call
  <2> QED
    BY <1>2, <1>3, <2>1, <2>2, NothingBooked
<1>5. CASE key \notin usedKeys
  <2>1. /\ ledger' = [ledger EXCEPT ![i] = Recon!Plan(i, executes[c].pro)]
        /\ usedKeys' = usedKeys \cup {key}
        /\ overlapped' = IF Recon!Others(c) = {} THEN overlapped ELSE overlapped \cup {i}
    BY <1>5 DEF Recon!Commits, Recon!KeyIsFree
  <2>2. /\ Recon!Plan(i, executes[c].pro) \in Recon!Ledger /\ Recon!Credits(i) \in Nat
        /\ Recon!Plan(i, executes[c].pro).credit_pending + Recon!Plan(i, executes[c].pro).credit_available
             = Recon!Credits(i) + 1
    BY <1>1, PlanCredits DEF BooksInv
  <2>3. /\ Recon!Credits(i)' = Recon!Credits(i) + 1
        /\ \A j \in Invoices \ {i} : Recon!Credits(j)' = Recon!Credits(j)
    BY <1>1, <2>1, <2>2 DEF Recon!Credits, BooksInv, Recon!TypeOK
  <2>4. overlapped \subseteq overlapped'
    BY <2>1
  <2>5. Recon!TypeOK'
    BY <1>1, <1>2, <2>1, <2>2 DEF BooksInv, Recon!TypeOK, Recon!Call
  <2>6. RepairsPaid'
    <3>1. status[i] = "paid"
      BY <1>1 DEF BooksInv, RepairsPaid
    <3> QED
      BY <1>2, <1>3, <2>3, <3>1 DEF BooksInv, RepairsPaid
  <2>7. FoundNone'
    <3>1. SUFFICES ASSUME NEW d \in Executes \ {c}, executes[d].pc = "writing"
                   PROVE  \/ Recon!Credits(executes[d].invoice)' = 0
                          \/ executes[d].invoice \in overlapped'
                          \/ executes[d].key \in usedKeys'
      BY <1>3 DEF FoundNone
    <3>2. executes[d].invoice \in Invoices
      BY <3>1 DEF BooksInv, Recon!TypeOK, Recon!Call, Recon!Idle
    <3>3. CASE executes[d].invoice # i
      BY <1>3, <2>1, <2>3, <2>4, <3>1, <3>2, <3>3 DEF BooksInv, FoundNone
    <3>4. CASE executes[d].invoice = i /\ executes[d].key = key
      BY <2>1, <3>4
    <3>5. CASE executes[d].invoice = i /\ executes[d].key # key
      <4>1. d \in Recon!Others(c)
        BY <3>1, <3>5 DEF Recon!Others
      <4> QED
        BY <2>1, <3>5, <4>1
    <3> QED
      BY <3>3, <3>4, <3>5
  <2>8. CreditedOnceByFix'
    <3>1. Recon!Credits(i) = 0 \/ i \in overlapped
      BY <1>1, <1>5 DEF BooksInv, FoundNone
    <3> QED
      BY <2>3, <2>4, <3>1 DEF BooksInv, CreditedOnceByFix, Recon!CreditedOnceByFix
  <2> QED
    BY <2>5, <2>6, <2>7, <2>8 DEF BooksInv
<1> QED
  BY <1>4, <1>5

\* A payment is the first credit of its invoice, and no repair of it is under way.
LEMMA PaysKeeps ==
  ASSUME BooksInv, NEW i \in Invoices, Recon!Pays(i)
  PROVE  BooksInv'
<1>1. /\ status[i] = "pending" /\ status' = [status EXCEPT ![i] = "paid"]
      /\ UNCHANGED <<pro, usedKeys, executes, overlapped>>
  BY DEF Recon!Pays
<1>2. ledger' = ledger \/ ledger' = [ledger EXCEPT ![i] = Recon!Plan(i, pro)]
  BY DEF Recon!Pays
<1>3. /\ Recon!Plan(i, pro) \in Recon!Ledger
      /\ Recon!Plan(i, pro).credit_pending + Recon!Plan(i, pro).credit_available = Recon!Credits(i) + 1
  BY PlanCredits DEF BooksInv, Recon!TypeOK
<1>4. Recon!Credits(i) = 0
  BY <1>1 DEF BooksInv, RepairsPaid
<1>5. /\ Recon!Credits(i)' \in {0, 1}
      /\ \A j \in Invoices \ {i} : Recon!Credits(j)' = Recon!Credits(j)
  BY <1>2, <1>3, <1>4 DEF Recon!Credits, BooksInv, Recon!TypeOK
<1>6. Recon!TypeOK'
  BY <1>1, <1>2, <1>3 DEF BooksInv, Recon!TypeOK
<1>7. /\ status'[i] = "paid"
      /\ \A j \in Invoices \ {i} : status'[j] = status[j]
  BY <1>1 DEF BooksInv, Recon!TypeOK
<1>8. \A c \in Executes : executes[c].pc # "idle" =>
        executes[c].invoice \in Invoices /\ status[executes[c].invoice] = "paid"
  BY DEF BooksInv, Recon!TypeOK, RepairsPaid, Recon!Call, Recon!Idle
<1>9. RepairsPaid'
  BY <1>1, <1>5, <1>7, <1>8 DEF BooksInv, RepairsPaid
<1>10. FoundNone'
  <2>1. \A c \in Executes : executes[c].pc = "writing" => executes[c].invoice \in Invoices \ {i}
    BY <1>1, <1>8
  <2> QED
    BY <1>1, <1>5, <2>1 DEF BooksInv, FoundNone
<1>11. CreditedOnceByFix'
  BY <1>1, <1>5 DEF BooksInv, CreditedOnceByFix, Recon!CreditedOnceByFix
<1> QED
  BY <1>6, <1>9, <1>10, <1>11 DEF BooksInv

LEMMA BooksStep == BooksInv /\ [Recon!Next]_(Recon!vars) => BooksInv'
<1> SUFFICES ASSUME BooksInv, [Recon!Next]_(Recon!vars) PROVE BooksInv'
  OBVIOUS
<1>1. CASE Recon!Lists \/ Recon!WithdrawalMoves \/ Recon!AdminRejects \/ Recon!DisbursementMoves \/ UNCHANGED Recon!vars
  <2>1. UNCHANGED <<status, ledger, pro, usedKeys, executes, overlapped>>
    BY <1>1 DEF Recon!Lists, Recon!WithdrawalMoves, Recon!AdminRejects, Recon!DisbursementMoves, Recon!books, Recon!vars
  <2>2. Recon!TypeOK'
    BY <2>1 DEF BooksInv, Recon!TypeOK
  <2> QED
    BY <2>1, <2>2, NothingBooked
<1>2. CASE Recon!PlanChanges
  <2>1. UNCHANGED <<status, ledger, usedKeys, executes, overlapped>> /\ pro' \in BOOLEAN
    BY <1>2 DEF Recon!PlanChanges
  <2>2. Recon!TypeOK'
    BY <2>1 DEF BooksInv, Recon!TypeOK
  <2> QED
    BY <2>1, <2>2, NothingBooked
<1>3. ASSUME NEW i \in Invoices, Recon!Pays(i) PROVE BooksInv'
  BY <1>3, PaysKeeps
<1>4. ASSUME NEW i \in Invoices, NEW c \in Executes, NEW key \in Keys \cup {Recon!DefaultKey(i)},
             Recon!Preview(c, i, key)
      PROVE  BooksInv'
  BY <1>4, PreviewKeeps
<1>5. ASSUME NEW c \in Executes, Recon!Begins(c) PROVE BooksInv'
  BY <1>5, BeginsKeeps
<1>6. ASSUME NEW c \in Executes, Recon!Commits(c) PROVE BooksInv'
  BY <1>6, CommitsKeeps
<1>7. ASSUME NEW c \in Executes, Recon!Aborts(c) PROVE BooksInv'
  <2>1. /\ UNCHANGED <<status, ledger, pro, usedKeys, overlapped>>
        /\ executes' = [executes EXCEPT ![c] = Recon!Idle]
    BY <1>7 DEF Recon!Aborts
  <2>2. Recon!TypeOK'
    BY <2>1 DEF BooksInv, Recon!TypeOK, Recon!Call
  <2>3. \A d \in Executes : executes'[d] = executes[d] \/ executes'[d].pc = "idle"
    BY <2>1 DEF BooksInv, Recon!TypeOK, Recon!Idle
  <2> QED
    BY <2>1, <2>2, <2>3, NothingBooked
<1> QED
  BY <1>1, <1>2, <1>3, <1>4, <1>5, <1>6, <1>7 DEF Recon!Next

THEOREM ReconciliationInvariant == Recon!Spec => []BooksInv
BY BooksInit, BooksStep, PTL DEF Recon!Spec

\* Every invoice, ledger row, key and call keeps its type, for any number of them.
THEOREM ReconciliationTypes == Recon!Spec => []Recon!TypeOK
BY ReconciliationInvariant, PTL DEF BooksInv

\* However many calls of the repair, payments and plan changes interleave, an invoice
\* gets a second credit only from two transactions under different keys that overlap.
THEOREM ReconciliationCreditsOnce == Recon!Spec => []CreditedOnceByFix
BY ReconciliationInvariant, PTL DEF BooksInv

-----------------------------------------------------------------------------
(* The session at the payment provider (ProviderSession).  A token that Flip *)
(* has issued and nobody has stored yet is in one hand: it is in no row, no  *)
(* process has read it, and Flip has not exchanged it.                       *)

\* Nobody knows a token that Flip has not issued; who refreshes has read a row.
Issued ==
  /\ provider # NoProvider => provider.token <= Len(owner)
  /\ \A p \in Flip!Users : call[p].read <= Len(owner) /\ call[p].token <= Len(owner)
  /\ login.token <= Len(owner)
  /\ \A p \in Flip!Procs : call[p].pc \in {"refresh", "saving"} => provider # NoProvider
  /\ \A p \in Flip!Users : call[p].pc = "sent" => call[p].token # 0

\* Token t has been issued and is still to be stored.
NotYetStored(t) ==
  /\ t # 0 /\ t \notin spent
  /\ provider # NoProvider => provider.token # t
  /\ \A p \in Flip!Users : call[p].read # t

InOneHand ==
  /\ \A p \in Flip!Procs : call[p].pc = "saving" =>
       /\ NotYetStored(call[p].token)
       /\ login.token # call[p].token
       /\ \A q \in Flip!Procs \ {p} : call[q].pc = "saving" => call[q].token # call[p].token
  /\ login.token # 0 => NotYetStored(login.token)

\* Flip exchanges a token for one of the same account.
SameAccount ==
  \A p \in Flip!Procs : call[p].pc \in {"saving", "ready", "typing", "activating"} =>
    /\ call[p].read # 0 /\ call[p].token # 0
    /\ owner[call[p].token] = owner[call[p].read]

FlipInv ==
  Flip!TypeOK /\ Issued /\ InOneHand /\ SameAccount /\ Flip!StoredIsUnspent
    /\ (provider # NoProvider /\ ~byHand =>
          {provider.userId, provider.pin} = {Flip!AccountOf(provider.token)})

LEMMA FlipInit == Flip!Init => FlipInv
<1> SUFFICES ASSUME Flip!Init PROVE FlipInv
  OBVIOUS
<1>1. Flip!Idle \in Flip!Call
  BY FlipAssumption DEF Flip!Idle, Flip!Call
<1>2. Flip!TypeOK
  <2>1. owner \in Seq(FlipAccounts) /\ Len(owner) <= Grants /\ spent \subseteq 1 .. Len(owner)
    BY FlipAssumption DEF Flip!Init
  <2>2. call \in [Flip!Users -> Flip!Call]
    BY <1>1 DEF Flip!Init
  <2>3. login \in [temp : FlipAccounts \cup {NoOne}, token : 0 .. Grants]
    BY FlipAssumption DEF Flip!Init, Flip!NoLogin
  <2> QED
    BY <2>1, <2>2, <2>3 DEF Flip!Init, Flip!TypeOK
<1>3. \A p \in Flip!Users : call[p] = Flip!Idle
  BY DEF Flip!Init
<1>4. Issued /\ InOneHand /\ SameAccount
  BY <1>3 DEF Flip!Init, Issued, InOneHand, SameAccount, Flip!Idle, Flip!NoLogin, Flip!Users
<1> QED
  BY <1>2, <1>4 DEF Flip!Init, FlipInv, Flip!StoredIsUnspent

\* What is known of a process that becomes c.
LEMMA FlipBecomes ==
  ASSUME FlipInv, NEW p \in Flip!Users, NEW c \in Flip!Call, call' = [call EXCEPT ![p] = c]
  PROVE  /\ call' \in [Flip!Users -> Flip!Call]
         /\ call'[p] = c /\ \A q \in Flip!Users \ {p} : call'[q] = call[q]
BY DEF FlipInv, Flip!TypeOK

\* A process that is not about to save gives up, or goes on with a token already stored.
LEMMA FlipGoesOn ==
  ASSUME FlipInv, NEW p \in Flip!Users, NEW c \in Flip!Call, call' = [call EXCEPT ![p] = c],
         UNCHANGED <<provider, owner, spent, login, byHand>>,
         linked' \subseteq FlipAccounts, lost' \in BOOLEAN, lost => lost',
         call[p].pc = "saving" => lost', c.pc # "saving",
         \/ c.read = call[p].read
         \/ c.read = 0
         \/ provider # NoProvider /\ c.read = provider.token,
         c.token \in {0, c.read} \/ c.token = call[p].token,
         c.pc = "refresh" => provider # NoProvider,
         c.pc = "sent" => c.token # 0,
         c.pc \in {"ready", "typing", "activating"} /\ p \in Flip!Procs =>
           /\ c.read # 0 /\ c.token # 0
           /\ owner[c.token] = owner[c.read]
  PROVE  FlipInv'
<1>1. /\ call' \in [Flip!Users -> Flip!Call]
      /\ call'[p] = c /\ \A q \in Flip!Users \ {p} : call'[q] = call[q]
  BY FlipBecomes
<1>2. Flip!TypeOK'
  BY <1>1 DEF FlipInv, Flip!TypeOK
<1>3. Issued'
  BY <1>1 DEF FlipInv, Issued, Flip!Users, Flip!TypeOK
<1>4. InOneHand'
  <2>1. ASSUME NEW t, NotYetStored(t) PROVE NotYetStored(t)'
    BY <1>1, <2>1 DEF NotYetStored
  <2> QED
    BY <1>1, <2>1 DEF FlipInv, InOneHand, Flip!Users
<1>5. SameAccount'
  BY <1>1 DEF FlipInv, SameAccount, Flip!Users
<1>6. Flip!StoredIsUnspent'
  BY <1>1 DEF FlipInv, Flip!StoredIsUnspent, Flip!Users
<1>7. (provider # NoProvider /\ ~byHand =>
          {provider.userId, provider.pin} = {Flip!AccountOf(provider.token)})'
  BY DEF FlipInv, Flip!AccountOf
<1> QED
  BY <1>2, <1>3, <1>4, <1>5, <1>6, <1>7 DEF FlipInv

-----------------------------------------------------------------------------
(* Refreshing.                                                             *)

LEMMA FlipHolding ==
  ASSUME FlipInv, provider # NoProvider, NEW p, NEW t \in 0 .. Grants,
         NEW pc \in {"refresh", "ready", "sent"}
  PROVE  /\ Flip!Holding(p, pc, t) \in Flip!Call
         /\ Flip!Holding(p, pc, t).pc = pc /\ Flip!Holding(p, pc, t).token = t
         /\ Flip!Holding(p, pc, t).read = provider.token
<1>1. provider \in Flip!Row
  BY DEF FlipInv, Flip!TypeOK
<1> QED
  BY <1>1 DEF Flip!Holding, Flip!Call, Flip!Row

LEMMA BeginsRefreshKeeps ==
  ASSUME FlipInv, NEW p \in Flip!Procs, Flip!BeginsRefresh(p)
  PROVE  FlipInv'
<1> DEFINE c == Flip!Holding(p, "refresh", 0)
<1>1. /\ call[p].pc = "idle" /\ provider # NoProvider /\ call' = [call EXCEPT ![p] = c]
      /\ UNCHANGED <<provider, owner, spent, login, linked, byHand, lost>>
  BY DEF Flip!BeginsRefresh
<1>2. c \in Flip!Call /\ c.pc = "refresh" /\ c.token = 0 /\ c.read = provider.token
  BY <1>1, FlipAssumption, FlipHolding
<1>3. p \in Flip!Users /\ linked \subseteq FlipAccounts /\ lost \in BOOLEAN
  BY DEF FlipInv, Flip!TypeOK, Flip!Users
<1> HIDE DEF c
<1> QED
  BY <1>1, <1>2, <1>3, FlipGoesOn

LEMMA TakesTokenKeeps ==
  ASSUME FlipInv, Flip!TakesToken
  PROVE  FlipInv'
<1> DEFINE c == Flip!Holding(FlipWorker, "ready", provider.token)
<1>1. /\ call[FlipWorker].pc = "idle" /\ provider # NoProvider /\ provider.token # 0
      /\ call' = [call EXCEPT ![FlipWorker] = c]
      /\ UNCHANGED <<provider, owner, spent, login, linked, byHand, lost>>
  BY DEF Flip!TakesToken
<1>2. provider.token \in 0 .. Grants
  BY <1>1 DEF FlipInv, Flip!TypeOK, Flip!Row
<1>3. c \in Flip!Call /\ c.pc = "ready" /\ c.token = provider.token /\ c.read = provider.token
  BY <1>1, <1>2, FlipHolding
<1>4. FlipWorker \in Flip!Users /\ linked \subseteq FlipAccounts /\ lost \in BOOLEAN
  BY DEF FlipInv, Flip!TypeOK, Flip!Users, Flip!Procs, Flip!Workers
<1> HIDE DEF c
<1> QED
  BY <1>1, <1>3, <1>4, FlipGoesOn

\* What Flip issues is new to everybody.
LEMMA FlipIssues ==
  ASSUME FlipInv, NEW a \in FlipAccounts, Flip!Issues(a)
  PROVE  /\ owner' \in Seq(FlipAccounts) /\ Len(owner') = Len(owner) + 1 /\ Len(owner') <= Grants
         /\ Flip!Fresh = Len(owner) + 1 /\ Flip!Fresh \in 1 .. Grants
         /\ owner'[Flip!Fresh] = a
         /\ \A t \in 1 .. Len(owner) : owner'[t] = owner[t]
         /\ NotYetStored(Flip!Fresh)
         /\ \A p \in Flip!Users : call[p].token # Flip!Fresh
         /\ login.token # Flip!Fresh
<1>1. owner \in Seq(FlipAccounts) /\ Len(owner) \in Nat /\ Len(owner) <= Grants
  BY DEF FlipInv, Flip!TypeOK
<1>2. owner' = Append(owner, a) /\ Len(owner) < Grants
  BY DEF Flip!Issues
<1>3. Flip!Fresh = Len(owner) + 1
  BY DEF Flip!Fresh
<1>4. \A t \in spent : t <= Len(owner)
  BY <1>1 DEF FlipInv, Flip!TypeOK
<1>5. provider # NoProvider => provider.token \in Nat
  BY FlipAssumption DEF FlipInv, Flip!TypeOK, Flip!Row
<1>6. \A p \in Flip!Users : call[p].read \in Nat /\ call[p].token \in Nat
  BY FlipAssumption DEF FlipInv, Flip!TypeOK, Flip!Call
<1>7. login.token \in Nat
  BY FlipAssumption DEF FlipInv, Flip!TypeOK
<1>8. /\ owner' \in Seq(FlipAccounts) /\ Len(owner') = Len(owner) + 1 /\ Len(owner') <= Grants
      /\ Flip!Fresh \in 1 .. Grants /\ owner'[Flip!Fresh] = a
      /\ \A t \in 1 .. Len(owner) : owner'[t] = owner[t]
  BY <1>1, <1>2, <1>3, FlipAssumption
<1>9. /\ NotYetStored(Flip!Fresh) /\ login.token # Flip!Fresh
      /\ \A p \in Flip!Users : call[p].token # Flip!Fresh
  BY <1>1, <1>3, <1>4, <1>5, <1>6, <1>7 DEF FlipInv, Issued, NotYetStored
<1> QED
  BY <1>3, <1>8, <1>9

\* The exchanged token is spent; the new one is in the hand of p.
LEMMA FlipRefreshesKeeps ==
  ASSUME FlipInv, NEW p \in Flip!Procs, Flip!FlipRefreshes(p)
  PROVE  FlipInv'
<1> DEFINE old == call[p].read
           c == [call[p] EXCEPT !.pc = "saving", !.token = Flip!Fresh]
<1>1. /\ call[p].pc = "refresh" /\ old # 0 /\ Flip!Issues(owner[old])
      /\ spent' = spent \cup {old} /\ call' = [call EXCEPT ![p] = c]
      /\ UNCHANGED <<provider, login, linked, byHand, lost>>
  BY DEF Flip!FlipRefreshes
<1>2. /\ call[p] \in Flip!Call /\ p \in Flip!Users /\ old \in 1 .. Len(owner)
      /\ owner \in Seq(FlipAccounts)
  BY <1>1, FlipAssumption DEF FlipInv, Flip!TypeOK, Flip!Users, Flip!Call, Issued
<1>3. owner[old] \in FlipAccounts
  BY <1>2
<1>4. /\ owner' \in Seq(FlipAccounts) /\ Len(owner') = Len(owner) + 1 /\ Len(owner') <= Grants
      /\ Flip!Fresh = Len(owner) + 1 /\ Flip!Fresh \in 1 .. Grants
      /\ owner'[Flip!Fresh] = owner[old]
      /\ \A t \in 1 .. Len(owner) : owner'[t] = owner[t]
      /\ NotYetStored(Flip!Fresh)
      /\ \A q \in Flip!Users : call[q].token # Flip!Fresh
      /\ login.token # Flip!Fresh
  BY <1>1, <1>3, FlipIssues
<1>5. c \in Flip!Call /\ c.pc = "saving" /\ c.token = Flip!Fresh /\ c.read = old
  <2>1. PICK b \in Flip!Call : b = call[p]
    BY <1>2
  <2>2. PICK t \in 0 .. Grants : t = Flip!Fresh
    BY <1>4, FlipAssumption
  <2>3. [b EXCEPT !.pc = "saving", !.token = t] \in Flip!Call
    BY DEF Flip!Call
  <2>4. c \in Flip!Call
    BY <2>1, <2>2, <2>3
  <2>5. call[p] \in [pc : {"idle", "refresh", "saving", "ready", "typing", "activating", "sent"},
         read : 0 .. Grants, token : 0 .. Grants, pin : FlipAccounts \cup {NoOne}]
    BY <1>2 DEF Flip!Call
  <2>6. c.pc = "saving" /\ c.token = Flip!Fresh /\ c.read = old
    BY <2>5
  <2> QED
    BY <2>4, <2>6
<1>6. /\ call' \in [Flip!Users -> Flip!Call]
      /\ call'[p] = c /\ \A q \in Flip!Users \ {p} : call'[q] = call[q]
  <2> HIDE DEF c
  <2> QED
    BY <1>1, <1>2, <1>5, FlipBecomes
<1> HIDE DEF c
<1>7. Flip!TypeOK'
  <2>1. Len(owner) \in Nat /\ Len(owner') \in Nat
    BY <1>2, <1>4
  <2>2. spent \subseteq 1 .. Len(owner)
    BY DEF FlipInv, Flip!TypeOK
  <2>3. spent' \subseteq 1 .. Len(owner')
    BY <1>1, <1>2, <1>4, <2>1, <2>2
  <2> QED
    BY <1>1, <1>4, <1>6, <2>3 DEF FlipInv, Flip!TypeOK
<1>8. Issued'
  <2>1. \A n \in Nat : n <= Len(owner) => n <= Len(owner')
    BY <1>2, <1>4
  <2>2. provider # NoProvider => provider.token \in Nat
    BY FlipAssumption DEF FlipInv, Flip!TypeOK, Flip!Row
  <2>3. \A q \in Flip!Users : call[q].read \in Nat /\ call[q].token \in Nat
    BY FlipAssumption DEF FlipInv, Flip!TypeOK, Flip!Call
  <2>4. login.token \in Nat
    BY FlipAssumption DEF FlipInv, Flip!TypeOK
  <2>5. c.read <= Len(owner') /\ c.token <= Len(owner')
    BY <1>2, <1>4, <1>5
  <2>6. \A q \in Flip!Users : call'[q].read <= Len(owner') /\ call'[q].token <= Len(owner')
    BY <1>6, <2>1, <2>3, <2>5 DEF FlipInv, Issued
  <2>7. \A q \in Flip!Procs : call'[q].pc \in {"refresh", "saving"} => provider # NoProvider
    BY <1>1, <1>5, <1>6 DEF FlipInv, Issued, Flip!Users
  <2>8. \A q \in Flip!Users : call'[q].pc = "sent" => call'[q].token # 0
    BY <1>5, <1>6 DEF FlipInv, Issued
  <2> QED
    BY <1>1, <2>1, <2>2, <2>4, <2>6, <2>7, <2>8 DEF FlipInv, Issued
<1>9. InOneHand'
  <2>1. ASSUME NEW t, NotYetStored(t) PROVE t = old \/ NotYetStored(t)'
    BY <1>1, <1>5, <1>6, <2>1 DEF NotYetStored
  <2>2. NotYetStored(Flip!Fresh) /\ Flip!Fresh # old
    BY <1>2, <1>4
  <2>3. \A t : NotYetStored(t) => t # old
    BY <1>2 DEF NotYetStored
  <2>4. /\ call'[p].token = Flip!Fresh /\ call'[p].pc = "saving"
        /\ \A q \in Flip!Procs \ {p} : call'[q] = call[q]
    BY <1>5, <1>6 DEF Flip!Users
  <2>5. \A q \in Flip!Procs : call'[q].pc = "saving" => (NotYetStored(call[q].token))'
    <3>1. ASSUME NEW q \in Flip!Procs \ {p}, call'[q].pc = "saving"
          PROVE  NotYetStored(call[q].token)'
      <4>1. call[q].pc = "saving" /\ call'[q].token = call[q].token
        BY <3>1, <2>4
      <4>2. PICK t : t = call[q].token
        OBVIOUS
      <4>3. NotYetStored(t)
        BY <4>1, <4>2 DEF FlipInv, InOneHand
      <4>4. NotYetStored(t)'
        BY <2>1, <2>3, <4>3
      <4> QED
        BY <4>1, <4>2, <4>4 DEF NotYetStored
    <3>2. NotYetStored(call[p].token)'
      BY <2>2, <2>4, <1>1, <1>6, <1>5, <1>4 DEF NotYetStored
    <3> QED
      BY <3>1, <3>2
  <2>6. \A q \in Flip!Procs : call'[q].pc = "saving" => login'.token # call'[q].token
    BY <1>1, <1>4, <2>4 DEF FlipInv, InOneHand
  <2>7. \A q, r \in Flip!Procs : q # r /\ call'[q].pc = "saving" /\ call'[r].pc = "saving" =>
          call'[q].token # call'[r].token
    BY <1>4, <2>4 DEF FlipInv, InOneHand, Flip!Users
  <2>8. login'.token # 0 => NotYetStored(login.token)'
    <3> SUFFICES ASSUME login.token # 0 PROVE NotYetStored(login.token)'
      BY <1>1
    <3>1. PICK t : t = login.token
      OBVIOUS
    <3>2. NotYetStored(t)
      BY <3>1 DEF FlipInv, InOneHand
    <3>3. NotYetStored(t)'
      BY <2>1, <2>3, <3>2
    <3> QED
      BY <1>1, <3>1, <3>3 DEF NotYetStored
  <2> QED
    BY <2>5, <2>6, <2>7, <2>8 DEF InOneHand
<1>10. SameAccount'
  <2>1. \A q \in Flip!Procs : call'[q].pc \in {"saving", "ready", "typing", "activating"} =>
          call'[q].read # 0 /\ call'[q].token # 0
    BY <1>1, <1>4, <1>5, <1>6 DEF FlipInv, SameAccount, Flip!Users
  <2>2. ASSUME NEW q \in Flip!Procs \ {p},
               call[q].pc \in {"saving", "ready", "typing", "activating"}
        PROVE  owner'[call[q].token] = owner'[call[q].read]
    <3>1. call[q].token \in 1 .. Len(owner) /\ call[q].read \in 1 .. Len(owner)
      BY <2>2, <1>2, FlipAssumption DEF FlipInv, Flip!TypeOK, Flip!Call, Flip!Users, Issued, SameAccount
    <3> QED
      BY <1>4, <2>2, <3>1 DEF FlipInv, SameAccount
  <2>3. owner'[c.token] = owner'[c.read]
    BY <1>2, <1>4, <1>5
  <2>4. call'[p] = c /\ \A q \in Flip!Procs \ {p} : call'[q] = call[q]
    BY <1>6 DEF Flip!Users
  <2> QED
    BY <2>1, <2>2, <2>3, <2>4 DEF SameAccount
<1>11. Flip!StoredIsUnspent'
  <2>1. call'[p].pc = "saving" /\ call'[p].read = old
    BY <1>5, <1>6
  <2>2. \A q \in Flip!Procs : call[q].pc = "saving" => call'[q] = call[q]
    BY <1>1, <1>6 DEF Flip!Users
  <2> QED
    BY <1>1, <2>1, <2>2 DEF FlipInv, Flip!StoredIsUnspent
<1>12. (provider # NoProvider /\ ~byHand =>
          {provider.userId, provider.pin} = {Flip!AccountOf(provider.token)})'
  <2> SUFFICES ASSUME provider # NoProvider, ~byHand
               PROVE  Flip!AccountOf(provider.token)' = Flip!AccountOf(provider.token)
    BY <1>1 DEF FlipInv
  <2>1. provider.token \in 0 .. Len(owner)
    BY <1>2, FlipAssumption DEF FlipInv, Flip!TypeOK, Flip!Row, Issued
  <2> QED
    BY <1>1, <1>2, <1>4, <2>1 DEF Flip!AccountOf
<1> QED
  BY <1>7, <1>8, <1>9, <1>10, <1>11, <1>12 DEF FlipInv

LEMMA RefreshFailsKeeps ==
  ASSUME FlipInv, NEW p \in Flip!Users, NEW pc \in {"refresh", "sent"}, call[p].pc = pc,
         call' = [call EXCEPT ![p] = Flip!Idle],
         linked' \subseteq FlipAccounts,
         UNCHANGED <<provider, owner, spent, login, byHand, lost>>
  PROVE  FlipInv'
<1>1. /\ Flip!Idle \in Flip!Call /\ Flip!Idle.pc = "idle"
      /\ Flip!Idle.read = 0 /\ Flip!Idle.token = 0
  BY FlipAssumption DEF Flip!Idle, Flip!Call
<1>2. lost \in BOOLEAN
  BY DEF FlipInv, Flip!TypeOK
<1> QED
  BY <1>1, <1>2, FlipGoesOn

\* What the process that saves wrote is stored; what it had read may be spent.
LEMMA SavesTokenKeeps ==
  ASSUME FlipInv, NEW p \in Flip!Procs, Flip!SavesToken(p)
  PROVE  FlipInv'
<1> DEFINE t == call[p].token
           c == IF p = FlipWorker THEN [call[p] EXCEPT !.pc = "ready"] ELSE Flip!Idle
<1>1. /\ call[p].pc = "saving" /\ provider' = Flip!Kept(p, t)
      /\ call' = [call EXCEPT ![p] = c]
      /\ byHand' = (byHand \/ provider.token # call[p].read)
      /\ UNCHANGED <<owner, spent, login, linked, lost>>
  BY DEF Flip!SavesToken, FlipInv, Flip!TypeOK, Flip!Users
<1>2. /\ call[p] \in Flip!Call /\ p \in Flip!Users /\ owner \in Seq(FlipAccounts)
      /\ provider # NoProvider /\ provider \in Flip!Row /\ provider.token \in Nat
      /\ call[p].read \in 1 .. Len(owner) /\ t \in 1 .. Len(owner) /\ t \in 0 .. Grants
      /\ owner[t] = owner[call[p].read] /\ owner[t] \in FlipAccounts
  <2>1. /\ call[p] \in Flip!Call /\ p \in Flip!Users /\ owner \in Seq(FlipAccounts)
        /\ provider # NoProvider /\ provider \in Flip!Row
    BY <1>1 DEF FlipInv, Flip!TypeOK, Flip!Users, Issued
  <2>2. /\ call[p].read \in 0 .. Grants /\ t \in 0 .. Grants /\ provider.token \in 0 .. Grants
    BY <2>1 DEF Flip!Call, Flip!Row
  <2>3. call[p].read # 0 /\ t # 0 /\ owner[t] = owner[call[p].read]
    BY <1>1 DEF FlipInv, SameAccount
  <2>4. call[p].read <= Len(owner) /\ t <= Len(owner) /\ Len(owner) \in Nat
    BY <2>1 DEF FlipInv, Issued
  <2> QED
    BY <2>1, <2>2, <2>3, <2>4, FlipAssumption
<1>3. /\ NotYetStored(t) /\ login.token # t
      /\ \A q \in Flip!Procs \ {p} : call[q].pc = "saving" => call[q].token # t
  BY <1>1 DEF FlipInv, InOneHand
<1>4. /\ c \in Flip!Call /\ c.pc \in {"ready", "idle"}
      /\ c.read \in {0, call[p].read} /\ c.token \in {0, t}
      /\ c.pc = "ready" => c.read = call[p].read /\ c.token = t
  <2>1. /\ Flip!Idle \in Flip!Call /\ Flip!Idle.pc = "idle"
        /\ Flip!Idle.read = 0 /\ Flip!Idle.token = 0
    BY FlipAssumption DEF Flip!Idle, Flip!Call
  <2>2. PICK b \in Flip!Call : b = call[p]
    BY <1>2
  <2>3. [b EXCEPT !.pc = "ready"] \in Flip!Call
    BY DEF Flip!Call
  <2>4. /\ [b EXCEPT !.pc = "ready"].pc = "ready" /\ [b EXCEPT !.pc = "ready"].read = b.read
        /\ [b EXCEPT !.pc = "ready"].token = b.token
    BY DEF Flip!Call
  <2> QED
    BY <2>1, <2>2, <2>3, <2>4
<1>5. /\ call' \in [Flip!Users -> Flip!Call]
      /\ call'[p] = c /\ \A q \in Flip!Users \ {p} : call'[q] = call[q]
  <2> HIDE DEF c
  <2> QED
    BY <1>1, <1>2, <1>4, FlipBecomes
<1>6. /\ provider' \in Flip!Row /\ provider' # NoProvider /\ provider'.token = t
      /\ provider'.pin = provider.pin /\ provider'.userId \in {provider.userId, owner[t]}
  <2>1. PICK r \in Flip!Row, u \in FlipAccounts \cup {NoOne}, k \in 0 .. Grants :
          /\ r = provider /\ u = (IF p \in Calls THEN owner[t] ELSE r.userId) /\ k = t
    BY <1>2 DEF Flip!Row
  <2>2. provider' = [r EXCEPT !.token = k, !.due = FALSE, !.userId = u]
    BY <1>1, <2>1 DEF Flip!Kept
  <2>3. [r EXCEPT !.token = k, !.due = FALSE, !.userId = u] \in Flip!Row
    BY DEF Flip!Row
  <2>4. /\ [r EXCEPT !.token = k, !.due = FALSE, !.userId = u].token = k
        /\ [r EXCEPT !.token = k, !.due = FALSE, !.userId = u].pin = r.pin
        /\ [r EXCEPT !.token = k, !.due = FALSE, !.userId = u].userId = u
    BY DEF Flip!Row
  <2> QED
    BY <2>1, <2>2, <2>3, <2>4, FlipAssumption
<1> HIDE DEF c
<1>7. Flip!TypeOK'
  BY <1>1, <1>5, <1>6 DEF FlipInv, Flip!TypeOK
<1>8. Issued'
  BY <1>1, <1>2, <1>4, <1>5, <1>6 DEF FlipInv, Issued, Flip!Users
<1>9. \A q \in Flip!Procs \ {p} : call'[q] = call[q]
  BY <1>5 DEF Flip!Users
<1>10. ASSUME NEW s, NotYetStored(s), s # t PROVE NotYetStored(s)'
  <2>1. provider'.token # s
    BY <1>6, <1>10
  <2>2. \A q \in Flip!Users : call'[q].read # s
    BY <1>2, <1>4, <1>5, <1>10 DEF NotYetStored
  <2> QED
    BY <1>1, <1>10, <2>1, <2>2 DEF NotYetStored
<1>11. InOneHand'
  <2>1. ASSUME NEW q \in Flip!Procs, call'[q].pc = "saving"
        PROVE  /\ q # p /\ call'[q] = call[q]
               /\ NotYetStored(call[q].token)' /\ login'.token # call'[q].token
    <3>1. q # p /\ call'[q] = call[q]
      BY <1>4, <1>5, <1>9, <2>1
    <3>2. PICK s : s = call[q].token
      OBVIOUS
    <3>3. NotYetStored(s) /\ s # t /\ login.token # s
      BY <1>3, <2>1, <3>1, <3>2 DEF FlipInv, InOneHand
    <3>4. NotYetStored(s)'
      BY <1>10, <3>3
    <3>5. NotYetStored(call[q].token)'
      BY <3>1, <3>2, <3>4 DEF NotYetStored
    <3> QED
      BY <1>1, <3>1, <3>2, <3>3, <3>5
  <2>2. login'.token # 0 => NotYetStored(login.token)'
    <3> SUFFICES ASSUME login.token # 0 PROVE NotYetStored(login.token)'
      BY <1>1
    <3>1. PICK s : s = login.token
      OBVIOUS
    <3>2. NotYetStored(s) /\ s # t
      BY <1>3, <3>1 DEF FlipInv, InOneHand
    <3>3. NotYetStored(s)'
      BY <1>10, <3>2
    <3> QED
      BY <1>1, <3>1, <3>3 DEF NotYetStored
  <2>3. \A q, r \in Flip!Procs : q # r /\ call'[q].pc = "saving" /\ call'[r].pc = "saving" =>
          call'[q].token # call'[r].token
    BY <2>1 DEF FlipInv, InOneHand
  <2> QED
    BY <2>1, <2>2, <2>3 DEF InOneHand
<1>12. SameAccount'
  BY <1>1, <1>2, <1>4, <1>5, <1>9 DEF FlipInv, SameAccount
<1>13. Flip!StoredIsUnspent'
  BY <1>1, <1>3, <1>6 DEF Flip!StoredIsUnspent, NotYetStored
<1>14. (provider # NoProvider /\ ~byHand =>
          {provider.userId, provider.pin} = {Flip!AccountOf(provider.token)})'
  <2> SUFFICES ASSUME ~byHand'
               PROVE  {provider'.userId, provider'.pin} = {Flip!AccountOf(provider.token)'}
    OBVIOUS
  <2>1. ~byHand /\ provider.token = call[p].read
    BY <1>1 DEF FlipInv, Flip!TypeOK
  <2>2. {provider.userId, provider.pin} = {owner[provider.token]}
    <3>1. {provider.userId, provider.pin} = {Flip!AccountOf(provider.token)}
      BY <1>2, <2>1 DEF FlipInv
    <3>2. provider.token # 0
      BY <1>1, <2>1 DEF FlipInv, SameAccount
    <3> QED
      BY <3>1, <3>2 DEF Flip!AccountOf
  <2>3. Flip!AccountOf(provider.token)' = owner[t]
    BY <1>1, <1>2, <1>6 DEF Flip!AccountOf
  <2> QED
    BY <1>2, <1>6, <2>1, <2>2, <2>3
<1> QED
  BY <1>7, <1>8, <1>11, <1>12, <1>13, <1>14 DEF FlipInv

LEMMA SaveFailsKeeps ==
  ASSUME FlipInv, NEW p \in Flip!Procs, Flip!SaveFails(p)
  PROVE  FlipInv'
<1>1. /\ call[p].pc = "saving" /\ call' = [call EXCEPT ![p] = Flip!Idle] /\ lost' = TRUE
      /\ UNCHANGED <<provider, owner, spent, login, linked, byHand>>
  BY DEF Flip!SaveFails
<1>2. /\ Flip!Idle \in Flip!Call /\ Flip!Idle.pc = "idle"
      /\ Flip!Idle.read = 0 /\ Flip!Idle.token = 0
  BY FlipAssumption DEF Flip!Idle, Flip!Call
<1>3. p \in Flip!Users /\ linked \subseteq FlipAccounts
  BY DEF FlipInv, Flip!TypeOK, Flip!Users
<1> QED
  BY <1>1, <1>2, <1>3, FlipGoesOn

-----------------------------------------------------------------------------
(* The transfer challenge, and the activation by the admin.                *)

\* The flip worker goes on with the token and the PIN it has.
LEMMA FlipWorkerSteps ==
  ASSUME FlipInv, call[FlipWorker].pc \in {"ready", "typing", "activating"},
         NEW pc \in {"typing", "activating"}
  PROVE  LET c == [call[FlipWorker] EXCEPT !.pc = pc] IN
         /\ FlipWorker \in Flip!Procs /\ FlipWorker \in Flip!Users
         /\ c \in Flip!Call /\ c.pc = pc
         /\ c.read = call[FlipWorker].read /\ c.token = call[FlipWorker].token
         /\ c.read # 0 /\ c.token # 0 /\ owner[c.token] = owner[c.read]
<1>1. FlipWorker \in Flip!Procs /\ FlipWorker \in Flip!Users
  BY DEF Flip!Users, Flip!Procs, Flip!Workers
<1>2. PICK b \in Flip!Call : b = call[FlipWorker]
  BY <1>1 DEF FlipInv, Flip!TypeOK
<1>3. [b EXCEPT !.pc = pc] \in Flip!Call
  BY DEF Flip!Call
<1>4. /\ [b EXCEPT !.pc = pc].pc = pc /\ [b EXCEPT !.pc = pc].read = b.read
      /\ [b EXCEPT !.pc = pc].token = b.token
  BY DEF Flip!Call
<1>5. b.read # 0 /\ b.token # 0 /\ owner[b.token] = owner[b.read]
  BY <1>1, <1>2 DEF FlipInv, SameAccount
<1> QED
  BY <1>1, <1>2, <1>3, <1>4, <1>5

LEMMA FlipIdle ==
  ASSUME FlipInv
  PROVE  /\ Flip!Idle \in Flip!Call /\ Flip!Idle.pc = "idle"
         /\ Flip!Idle.read = 0 /\ Flip!Idle.token = 0
         /\ linked \subseteq FlipAccounts /\ lost \in BOOLEAN
BY FlipAssumption DEF Flip!Idle, Flip!Call, FlipInv, Flip!TypeOK

LEMMA AsksChallengeKeeps ==
  ASSUME FlipInv, Flip!AsksChallenge
  PROVE  FlipInv'
<1>1. PICK pc \in {"typing", "activating"} :
        pc = IF owner[call[FlipWorker].token] \in linked THEN "typing" ELSE "activating"
  OBVIOUS
<1> DEFINE c == [call[FlipWorker] EXCEPT !.pc = pc]
<1>2. /\ call[FlipWorker].pc = "ready" /\ call' = [call EXCEPT ![FlipWorker] = c]
      /\ UNCHANGED <<provider, owner, spent, login, linked, byHand, lost>>
  BY <1>1 DEF Flip!AsksChallenge, FlipInv, Flip!TypeOK
<1>3. /\ FlipWorker \in Flip!Procs /\ FlipWorker \in Flip!Users
      /\ c \in Flip!Call /\ c.pc = pc
      /\ c.read = call[FlipWorker].read /\ c.token = call[FlipWorker].token
      /\ c.read # 0 /\ c.token # 0 /\ owner[c.token] = owner[c.read]
  BY <1>2, FlipWorkerSteps
<1> HIDE DEF c
<1> QED
  BY <1>2, <1>3, FlipIdle, FlipGoesOn

LEMMA ActivatesItselfKeeps ==
  ASSUME FlipInv, Flip!ActivatesItself
  PROVE  FlipInv'
<1>1. /\ call[FlipWorker].pc = "activating"
      /\ UNCHANGED <<provider, owner, spent, login, linked, byHand, lost>>
  BY DEF Flip!ActivatesItself
<1>2. CASE owner[call[FlipWorker].token] \in linked
  <2> DEFINE c == [call[FlipWorker] EXCEPT !.pc = "typing"]
  <2>1. call' = [call EXCEPT ![FlipWorker] = c]
    BY <1>2 DEF Flip!ActivatesItself
  <2>2. /\ FlipWorker \in Flip!Procs /\ FlipWorker \in Flip!Users
        /\ c \in Flip!Call /\ c.pc = "typing"
        /\ c.read = call[FlipWorker].read /\ c.token = call[FlipWorker].token
        /\ c.read # 0 /\ c.token # 0 /\ owner[c.token] = owner[c.read]
    BY <1>1, FlipWorkerSteps
  <2> HIDE DEF c
  <2> QED
    BY <1>1, <2>1, <2>2, FlipIdle, FlipGoesOn
<1>3. CASE owner[call[FlipWorker].token] \notin linked
  <2>1. call' = [call EXCEPT ![FlipWorker] = Flip!Idle] /\ FlipWorker \in Flip!Users
    BY <1>3 DEF Flip!ActivatesItself, Flip!Users, Flip!Procs, Flip!Workers
  <2> QED
    BY <1>1, <2>1, FlipIdle, FlipGoesOn
<1> QED
  BY <1>2, <1>3

LEMMA JobEndsKeeps ==
  ASSUME FlipInv, Flip!JobEnds
  PROVE  FlipInv'
<1>1. /\ call[FlipWorker].pc # "saving" /\ FlipWorker \in Flip!Users
      /\ call' = [call EXCEPT ![FlipWorker] = Flip!Idle]
      /\ UNCHANGED <<provider, owner, spent, login, linked, byHand, lost>>
  BY DEF Flip!JobEnds, Flip!Users, Flip!Procs, Flip!Workers
<1> QED
  BY <1>1, FlipIdle, FlipGoesOn

LEMMA SendsActivationKeeps ==
  ASSUME FlipInv, Flip!SendsActivation
  PROVE  FlipInv'
<1> DEFINE c == Flip!Holding(Activation, "sent", provider.token)
<1>1. /\ call[Activation].pc = "idle" /\ provider # NoProvider /\ provider.token # 0
      /\ call' = [call EXCEPT ![Activation] = c]
      /\ UNCHANGED <<provider, owner, spent, login, linked, byHand, lost>>
  BY DEF Flip!SendsActivation
<1>2. provider.token \in 0 .. Grants
  BY <1>1 DEF FlipInv, Flip!TypeOK, Flip!Row
<1>3. c \in Flip!Call /\ c.pc = "sent" /\ c.token = provider.token /\ c.read = provider.token
  BY <1>1, <1>2, FlipHolding
<1>4. Activation \in Flip!Users
  BY DEF Flip!Users
<1> HIDE DEF c
<1> QED
  BY <1>1, <1>3, <1>4, FlipIdle, FlipGoesOn

\* The activation holds a token it has read from the row.
LEMMA ActivationEndsKeeps ==
  ASSUME FlipInv, Flip!ScraperActivates \/ Flip!ActivationFails
  PROVE  FlipInv'
<1>1. /\ call[Activation].pc = "sent" /\ Activation \in Flip!Users
      /\ call' = [call EXCEPT ![Activation] = Flip!Idle]
      /\ UNCHANGED <<provider, owner, spent, login, byHand, lost>>
  BY DEF Flip!ScraperActivates, Flip!ActivationFails, Flip!Users
<1>2. linked' \subseteq FlipAccounts
  <2>1. CASE Flip!ActivationFails
    BY <2>1, FlipIdle DEF Flip!ActivationFails
  <2>2. CASE Flip!ScraperActivates
    <3>1. /\ linked' = linked \cup {owner[call[Activation].token]}
          /\ provider.pin = owner[call[Activation].token]
      BY <2>2 DEF Flip!ScraperActivates
    <3>2. call[Activation].token \in 0 .. Grants
      BY <1>1 DEF FlipInv, Flip!TypeOK, Flip!Call
    <3>3. call[Activation].token # 0 /\ call[Activation].token <= Len(owner)
      BY <1>1 DEF FlipInv, Issued
    <3>4. owner \in Seq(FlipAccounts)
      BY DEF FlipInv, Flip!TypeOK
    <3>5. owner[call[Activation].token] \in FlipAccounts
      BY <3>2, <3>3, <3>4, FlipAssumption
    <3> QED
      BY <3>1, <3>5, FlipIdle
  <2> QED
    BY <2>1, <2>2
<1> QED
  BY <1>1, <1>2, FlipIdle, FlipGoesOn

-----------------------------------------------------------------------------
(* The admin replaces credentials; time; the two workers stopping.         *)

\* Where calls and the hand of the login stay, another row, another token issued
\* or another token in that hand matters only to what is stored.
LEMMA FlipRowChanges ==
  ASSUME FlipInv, UNCHANGED <<spent, call, lost>>,
         provider' \in Flip!Row \cup {NoProvider}, provider' = NoProvider => provider = NoProvider,
         byHand' \in BOOLEAN, linked' \subseteq FlipAccounts,
         owner' \in Seq(FlipAccounts), Len(owner) <= Len(owner'), Len(owner') <= Grants,
         \A t \in 1 .. Len(owner) : owner'[t] = owner[t],
         login' \in [temp : FlipAccounts \cup {NoOne}, token : 0 .. Grants],
         login'.token <= Len(owner'),
         provider' # NoProvider =>
           /\ provider'.token <= Len(owner')
           /\ \/ provider # NoProvider /\ provider'.token = provider.token
              \/ provider'.token = 0
              \/ /\ provider'.token \notin spent /\ login'.token # provider'.token
                 /\ \A p \in Flip!Procs :
                      call[p].pc = "saving" => call[p].token # provider'.token,
         login'.token \in {0, login.token}
           \/ /\ NotYetStored(login'.token)
              /\ \A p \in Flip!Procs : call[p].pc = "saving" => call[p].token # login'.token,
         provider' # NoProvider /\ ~byHand' =>
           {provider'.userId, provider'.pin} = {Flip!AccountOf(provider.token)'}
  PROVE  FlipInv'
<1>1. Flip!TypeOK'
  <2>1. Len(owner) \in Nat /\ Len(owner') \in Nat /\ spent \subseteq 1 .. Len(owner')
    BY DEF FlipInv, Flip!TypeOK
  <2>2. call \in [Flip!Users -> Flip!Call] /\ lost \in BOOLEAN
    BY DEF FlipInv, Flip!TypeOK
  <2> QED
    BY <2>1, <2>2 DEF Flip!TypeOK
<1>2. Issued'
  <2>1. \A p \in Flip!Users : call[p].read \in Nat /\ call[p].token \in Nat
    BY FlipAssumption DEF FlipInv, Flip!TypeOK, Flip!Call
  <2>2. Len(owner) \in Nat /\ Len(owner') \in Nat
    BY DEF FlipInv, Flip!TypeOK
  <2> QED
    BY <2>1, <2>2 DEF FlipInv, Issued
<1>3. ASSUME NEW t, NotYetStored(t),
             \/ t = login'.token
             \/ \E p \in Flip!Procs : call[p].pc = "saving" /\ t = call[p].token
      PROVE  NotYetStored(t)'
  <2>1. provider' # NoProvider => provider'.token # t
    BY <1>3 DEF NotYetStored
  <2> QED
    BY <1>3, <2>1 DEF NotYetStored
<1>4. InOneHand'
  <2>1. ASSUME NEW p \in Flip!Procs, call[p].pc = "saving"
        PROVE  NotYetStored(call[p].token)' /\ login'.token # call[p].token
    <3>1. NotYetStored(call[p].token) /\ login.token # call[p].token
      BY <2>1 DEF FlipInv, InOneHand
    <3>2. PICK t : t = call[p].token
      OBVIOUS
    <3>3. NotYetStored(t)'
      BY <1>3, <2>1, <3>1, <3>2
    <3>4. NotYetStored(call[p].token)'
      BY <3>2, <3>3 DEF NotYetStored
    <3>5. call[p].token # 0
      BY <3>1 DEF NotYetStored
    <3> QED
      BY <2>1, <3>1, <3>4, <3>5
  <2>2. login'.token # 0 => NotYetStored(login.token)'
    <3> SUFFICES ASSUME login'.token # 0 PROVE NotYetStored(login.token)'
      OBVIOUS
    <3>1. PICK t : t = login'.token
      OBVIOUS
    <3>2. NotYetStored(t)
      BY <3>1 DEF FlipInv, InOneHand
    <3>3. NotYetStored(t)'
      BY <1>3, <3>1, <3>2
    <3> QED
      BY <3>1, <3>3 DEF NotYetStored
  <2> QED
    BY <2>1, <2>2 DEF FlipInv, InOneHand
<1>5. SameAccount'
  <2>1. ASSUME NEW p \in Flip!Procs, call[p].pc \in {"saving", "ready", "typing", "activating"}
        PROVE  /\ call[p].read # 0 /\ call[p].token # 0
               /\ owner'[call[p].token] = owner'[call[p].read]
    <3>1. /\ call[p].read # 0 /\ call[p].token # 0 /\ owner[call[p].token] = owner[call[p].read]
      BY <2>1 DEF FlipInv, SameAccount
    <3>2. call[p].read \in Nat /\ call[p].token \in Nat /\ Len(owner) \in Nat
      BY FlipAssumption DEF FlipInv, Flip!TypeOK, Flip!Call, Flip!Users
    <3>3. call[p].read <= Len(owner) /\ call[p].token <= Len(owner)
      BY DEF FlipInv, Issued, Flip!Users
    <3> QED
      BY <3>1, <3>2, <3>3
  <2> QED
    BY <2>1 DEF SameAccount
<1>6. Flip!StoredIsUnspent'
  <2>1. 0 \notin spent
    BY DEF FlipInv, Flip!TypeOK
  <2> QED
    BY <2>1 DEF FlipInv, Flip!StoredIsUnspent
<1> QED
  BY <1>1, <1>2, <1>4, <1>5, <1>6 DEF FlipInv

\* What is known of the row, the hand of the login and the tokens issued.
LEMMA FlipTypes ==
  ASSUME FlipInv
  PROVE  /\ provider \in Flip!Row \cup {NoProvider} /\ byHand \in BOOLEAN
         /\ linked \subseteq FlipAccounts
         /\ owner \in Seq(FlipAccounts) /\ Len(owner) \in Nat /\ Len(owner) <= Grants
         /\ login \in [temp : FlipAccounts \cup {NoOne}, token : 0 .. Grants]
         /\ login.token \in Nat /\ login.token <= Len(owner)
         /\ provider # NoProvider => provider.token \in Nat /\ provider.token <= Len(owner)
         /\ provider # NoProvider /\ ~byHand =>
              {provider.userId, provider.pin} = {Flip!AccountOf(provider.token)}
         /\ login.token # 0 => NotYetStored(login.token)
         /\ \A p \in Flip!Procs : call[p].pc = "saving" =>
              call[p].token # 0 /\ call[p].token # login.token
<1>1. /\ provider \in Flip!Row \cup {NoProvider} /\ byHand \in BOOLEAN
      /\ linked \subseteq FlipAccounts
      /\ owner \in Seq(FlipAccounts) /\ Len(owner) \in Nat /\ Len(owner) <= Grants
      /\ login \in [temp : FlipAccounts \cup {NoOne}, token : 0 .. Grants]
  BY DEF FlipInv, Flip!TypeOK
<1>2. login.token \in Nat /\ login.token <= Len(owner)
  BY <1>1, FlipAssumption DEF FlipInv, Issued
<1>3. provider # NoProvider => provider.token \in Nat /\ provider.token <= Len(owner)
  BY <1>1, FlipAssumption DEF FlipInv, Issued, Flip!Row
<1>4. login.token # 0 => NotYetStored(login.token)
  BY DEF FlipInv, InOneHand
<1>5. \A p \in Flip!Procs : call[p].pc = "saving" =>
        call[p].token # 0 /\ call[p].token # login.token
  BY DEF FlipInv, InOneHand, NotYetStored
<1> QED
  BY <1>1, <1>2, <1>3, <1>4, <1>5 DEF FlipInv

LEMMA PatchesKeeps ==
  ASSUME FlipInv, NEW a \in FlipAccounts, NEW fields \in SUBSET Flip!Fields \ {{}},
         Flip!Patches(a, fields)
  PROVE  FlipInv'
<1> DEFINE base == IF provider = NoProvider THEN Flip!Blank ELSE provider
<1>1. base \in Flip!Row /\ base.token <= Len(owner)
  BY FlipTypes, FlipAssumption DEF Flip!Blank, Flip!Row
<1>2. /\ provider' = Flip!Patched(a, fields) /\ byHand' = (fields # Flip!Fields)
      /\ UNCHANGED <<spent, call, login, linked, lost>>
  BY DEF Flip!Patches
<1>5. /\ (base.due \/ "token" \in fields) \in BOOLEAN
      /\ (IF "user_id" \in fields THEN a ELSE base.userId) \in FlipAccounts \cup {NoOne}
      /\ (IF "pin" \in fields THEN a ELSE base.pin) \in FlipAccounts \cup {NoOne}
  <2>1. base.userId \in FlipAccounts \cup {NoOne} /\ base.pin \in FlipAccounts \cup {NoOne}
    BY <1>1 DEF Flip!Row
  <2> QED
    BY <2>1
<1>3. CASE "token" \in fields
  <2>1. Flip!Issues(a)
    BY <1>3 DEF Flip!Patches
  <2>2. /\ owner' \in Seq(FlipAccounts) /\ Len(owner') = Len(owner) + 1 /\ Len(owner') <= Grants
        /\ Flip!Fresh = Len(owner) + 1 /\ Flip!Fresh \in 1 .. Grants
        /\ owner'[Flip!Fresh] = a
        /\ \A t \in 1 .. Len(owner) : owner'[t] = owner[t]
        /\ NotYetStored(Flip!Fresh)
        /\ \A p \in Flip!Users : call[p].token # Flip!Fresh
        /\ login.token # Flip!Fresh
    BY <2>1, FlipIssues
  <2>3. PICK s \in 0 .. Grants : s = Flip!Fresh
    BY <2>2
  <2>4. PICK d \in BOOLEAN, u, k \in FlipAccounts \cup {NoOne} :
          /\ d = (base.due \/ "token" \in fields)
          /\ u = (IF "user_id" \in fields THEN a ELSE base.userId)
          /\ k = (IF "pin" \in fields THEN a ELSE base.pin)
    BY <1>5
  <2>5. provider' = [token |-> s, due |-> d, userId |-> u, pin |-> k]
    BY <1>2, <1>3, <2>3, <2>4 DEF Flip!Patched
  <2>6. /\ provider' \in Flip!Row /\ provider'.token = s /\ provider' # NoProvider
        /\ ~byHand' => {provider'.userId, provider'.pin} = {a}
    <3>1. provider' \in Flip!Row
      BY <2>5 DEF Flip!Row
    <3>2. provider'.token = s /\ provider'.userId = u /\ provider'.pin = k
      BY <2>5
    <3>3. ~byHand' => u = a /\ k = a
      BY <1>2, <2>4 DEF Flip!Fields
    <3> QED
      BY <3>1, <3>2, <3>3, FlipAssumption
  <2>7. Flip!AccountOf(provider.token)' = a
    BY <2>2, <2>3, <2>6 DEF Flip!AccountOf
  <2>8. byHand' \in BOOLEAN /\ s \notin spent /\ s <= Len(owner') /\ Len(owner) <= Len(owner')
    BY <1>2, <2>2, <2>3, FlipTypes DEF NotYetStored
  <2>9. login' \in [temp : FlipAccounts \cup {NoOne}, token : 0 .. Grants]
        /\ login'.token <= Len(owner') /\ login'.token = login.token /\ linked' \subseteq FlipAccounts
    BY <1>2, <2>2, FlipTypes
  <2>10. \A p \in Flip!Procs : call[p].pc = "saving" => call[p].token # s
    BY <2>2, <2>3 DEF Flip!Users
  <2>11. login'.token # 0 => login'.token # s
    BY <2>2, <2>3, <2>9
  <2> HIDE DEF base
  <2> QED
    BY <1>2, <2>2, <2>6, <2>7, <2>8, <2>9, <2>10, <2>11, FlipRowChanges
<1>4. CASE "token" \notin fields
  <2>1. owner' = owner
    BY <1>4 DEF Flip!Patches
  <2>2. PICK d \in BOOLEAN, u, k \in FlipAccounts \cup {NoOne} :
          /\ d = (base.due \/ "token" \in fields)
          /\ u = (IF "user_id" \in fields THEN a ELSE base.userId)
          /\ k = (IF "pin" \in fields THEN a ELSE base.pin)
    BY <1>5
  <2>3. provider' \in Flip!Row /\ provider'.token = base.token /\ provider' # NoProvider
    <3>1. provider' = [token |-> base.token, due |-> d, userId |-> u, pin |-> k]
      BY <1>2, <1>4, <2>2 DEF Flip!Patched
    <3>2. base.token \in 0 .. Grants
      BY <1>1 DEF Flip!Row
    <3>3. provider' \in Flip!Row
      BY <3>1, <3>2 DEF Flip!Row
    <3> QED
      BY <3>1, <3>3, FlipAssumption
  <2>4. byHand'
    BY <1>2, <1>4 DEF Flip!Fields
  <2>5. /\ provider = NoProvider => base.token = 0
        /\ provider # NoProvider => base.token = provider.token
    BY DEF Flip!Blank
  <2>6. 0 \notin spent
    BY DEF FlipInv, Flip!TypeOK
  <2>7. byHand' \in BOOLEAN
    BY <1>2
  <2>8. /\ Len(owner) <= Len(owner) /\ owner \in Seq(FlipAccounts) /\ Len(owner) <= Grants
        /\ linked \subseteq FlipAccounts
        /\ login \in [temp : FlipAccounts \cup {NoOne}, token : 0 .. Grants]
        /\ login.token <= Len(owner)
        /\ \A p \in Flip!Procs : call[p].pc = "saving" => call[p].token # 0
    BY FlipTypes
  <2>9. provider'.token <= Len(owner)
    BY <1>1, <2>3
  <2>10. \/ provider # NoProvider /\ provider'.token = provider.token
         \/ provider'.token \notin spent /\ provider'.token = 0
    BY <2>3, <2>5, <2>6
  <2> HIDE DEF base
  <2> QED
    BY <1>2, <2>1, <2>3, <2>4, <2>7, <2>8, <2>9, <2>10, FlipRowChanges
<1> QED
  BY <1>3, <1>4

\* The admin's one-time password and temporary token are no token of Flip's yet.
LEMMA FlipHandChanges ==
  ASSUME FlipInv, UNCHANGED <<provider, owner, spent, call, byHand, lost>>,
         linked' \subseteq FlipAccounts,
         login' \in [temp : FlipAccounts \cup {NoOne}, token : 0 .. Grants],
         login'.token \in {0, login.token}
  PROVE  FlipInv'
<1>1. /\ Len(owner) <= Len(owner) /\ login'.token <= Len(owner) /\ Len(owner) <= Grants
      /\ provider \in Flip!Row \cup {NoProvider} /\ byHand \in BOOLEAN
      /\ owner \in Seq(FlipAccounts)
      /\ provider # NoProvider => provider.token <= Len(owner)
      /\ \A p \in Flip!Procs : call[p].pc = "saving" => call[p].token # 0
      /\ login.token # 0 => NotYetStored(login.token)
  BY FlipTypes
<1>2. provider # NoProvider /\ ~byHand =>
        {provider'.userId, provider'.pin} = {Flip!AccountOf(provider.token)'}
  BY FlipTypes DEF Flip!AccountOf
<1> QED
  BY <1>1, <1>2, FlipRowChanges

LEMMA LoginStepsKeep ==
  ASSUME FlipInv,
         \/ \E a \in FlipAccounts : Flip!VerifiesOtp(a)
         \/ Flip!TempExpires \/ Flip!FinalizeFails
  PROVE  FlipInv'
<1>1. UNCHANGED <<provider, owner, spent, call, linked, byHand, lost>>
  BY DEF Flip!VerifiesOtp, Flip!TempExpires, Flip!FinalizeFails
<1>2. /\ login' \in [temp : FlipAccounts \cup {NoOne}, token : 0 .. Grants]
      /\ login'.token \in {0, login.token}
  <2>1. login \in [temp : FlipAccounts \cup {NoOne}, token : 0 .. Grants] /\ 0 \in 0 .. Grants
    BY FlipTypes, FlipAssumption
  <2> QED
    BY <2>1 DEF Flip!VerifiesOtp, Flip!TempExpires, Flip!FinalizeFails
<1> QED
  BY <1>1, <1>2, FlipTypes, FlipHandChanges

\* The token of the login is new; it is in the hand of finalize alone.
LEMMA FlipVerifiesPinKeeps ==
  ASSUME FlipInv, Flip!FlipVerifiesPin
  PROVE  FlipInv'
<1>1. /\ login.temp # NoOne /\ Flip!Issues(login.temp)
      /\ login' = [login EXCEPT !.token = Flip!Fresh]
      /\ UNCHANGED <<provider, spent, call, linked, byHand, lost>>
  BY DEF Flip!FlipVerifiesPin
<1>2. login.temp \in FlipAccounts
  BY <1>1, FlipTypes
<1>3. /\ owner' \in Seq(FlipAccounts) /\ Len(owner') = Len(owner) + 1 /\ Len(owner') <= Grants
      /\ Flip!Fresh = Len(owner) + 1 /\ Flip!Fresh \in 1 .. Grants
      /\ \A t \in 1 .. Len(owner) : owner'[t] = owner[t]
      /\ NotYetStored(Flip!Fresh)
      /\ \A p \in Flip!Users : call[p].token # Flip!Fresh
  BY <1>1, <1>2, FlipIssues
<1>4. login' \in [temp : FlipAccounts \cup {NoOne}, token : 0 .. Grants]
      /\ login'.token = Flip!Fresh
  BY <1>1, <1>3, FlipTypes
<1>5. /\ login'.token <= Len(owner') /\ Len(owner) <= Len(owner')
      /\ provider # NoProvider => provider.token <= Len(owner')
  BY <1>3, <1>4, FlipTypes
<1>6. provider # NoProvider => Flip!AccountOf(provider.token)' = Flip!AccountOf(provider.token)
  <2>1. provider # NoProvider => provider.token = 0 \/ provider.token \in 1 .. Len(owner)
    BY FlipTypes
  <2> QED
    BY <1>1, <1>3, <2>1 DEF Flip!AccountOf
<1>7. /\ NotYetStored(login'.token) /\ login'.token # 0
      /\ \A p \in Flip!Procs : call[p].pc = "saving" => call[p].token # login'.token
  BY <1>3, <1>4 DEF Flip!Users, NotYetStored
<1>8. /\ provider \in Flip!Row \cup {NoProvider} /\ byHand \in BOOLEAN
      /\ linked \subseteq FlipAccounts
      /\ \A p \in Flip!Procs : call[p].pc = "saving" => call[p].token # 0
      /\ provider # NoProvider /\ ~byHand =>
              {provider.userId, provider.pin} = {Flip!AccountOf(provider.token)}
  BY FlipTypes
<1>9. provider' # NoProvider /\ ~byHand' =>
           {provider'.userId, provider'.pin} = {Flip!AccountOf(provider.token)'}
  BY <1>1, <1>6, <1>8
<1> QED
  BY <1>1, <1>3, <1>4, <1>5, <1>7, <1>8, <1>9, FlipRowChanges

LEMMA SavesLoginKeeps ==
  ASSUME FlipInv, Flip!SavesLogin
  PROVE  FlipInv'
<1> DEFINE s == login.token
<1>1. /\ s # 0 /\ provider' = Flip!LoggedIn(owner[s], s)
      /\ login' = Flip!NoLogin /\ byHand' = FALSE
      /\ UNCHANGED <<owner, spent, call, linked, lost>>
  BY DEF Flip!SavesLogin
<1>2. /\ s \in 0 .. Grants /\ s \in 1 .. Len(owner) /\ owner[s] \in FlipAccounts /\ s \notin spent
      /\ \A p \in Flip!Procs : call[p].pc = "saving" => call[p].token # s
  BY <1>1, FlipTypes DEF NotYetStored
<1>3. /\ provider' \in Flip!Row /\ provider' # NoProvider /\ provider'.token = s
      /\ {provider'.userId, provider'.pin} = {owner[s]}
  <2>1. PICK a \in FlipAccounts, t \in 0 .. Grants : a = owner[s] /\ t = s
    BY <1>2
  <2>2. provider' = [token |-> t, userId |-> a, pin |-> a, due |-> FALSE]
    BY <1>1, <2>1 DEF Flip!LoggedIn
  <2>3. [token |-> t, userId |-> a, pin |-> a, due |-> FALSE] \in Flip!Row
    BY DEF Flip!Row
  <2> QED
    BY <2>1, <2>2, <2>3, FlipAssumption
<1>4. Flip!AccountOf(provider.token)' = owner[s]
  BY <1>1, <1>3 DEF Flip!AccountOf
<1>5. /\ login' \in [temp : FlipAccounts \cup {NoOne}, token : 0 .. Grants]
      /\ login'.token = 0
  BY <1>1, FlipAssumption DEF Flip!NoLogin
<1>6. /\ Len(owner) <= Len(owner) /\ 0 <= Len(owner) /\ s <= Len(owner) /\ Len(owner) <= Grants
      /\ owner \in Seq(FlipAccounts) /\ linked \subseteq FlipAccounts
  BY <1>2, FlipTypes
<1> HIDE DEF s
<1> QED
  BY <1>1, <1>2, <1>3, <1>4, <1>5, <1>6, FlipRowChanges

LEMMA TokenFallsDueKeeps ==
  ASSUME FlipInv, Flip!TokenFallsDue
  PROVE  FlipInv'
<1>1. /\ provider # NoProvider /\ provider' = [provider EXCEPT !.due = TRUE]
      /\ UNCHANGED <<owner, spent, call, login, linked, byHand, lost>>
  BY DEF Flip!TokenFallsDue
<1>2. provider' \in Flip!Row
  BY <1>1, FlipTypes DEF Flip!Row
<1>3. /\ provider'.token = provider.token /\ provider'.userId = provider.userId
      /\ provider'.pin = provider.pin /\ provider' # NoProvider
  BY <1>1, <1>2, FlipTypes, FlipAssumption DEF Flip!Row
<1>4. ~byHand' => {provider'.userId, provider'.pin} = {Flip!AccountOf(provider.token)'}
  BY <1>1, <1>3, FlipTypes DEF Flip!AccountOf
<1>5. /\ Len(owner) <= Len(owner) /\ Len(owner) <= Grants /\ provider.token <= Len(owner)
      /\ owner \in Seq(FlipAccounts) /\ linked \subseteq FlipAccounts /\ byHand \in BOOLEAN
      /\ login \in [temp : FlipAccounts \cup {NoOne}, token : 0 .. Grants]
      /\ login.token <= Len(owner)
      /\ \A p \in Flip!Procs : call[p].pc = "saving" => call[p].token # 0
  BY <1>1, FlipTypes
<1> QED
  BY <1>1, <1>2, <1>3, <1>4, <1>5, FlipRowChanges

LEMMA WalletLapsesKeeps ==
  ASSUME FlipInv, Flip!WalletLapses
  PROVE  FlipInv'
<1>1. UNCHANGED <<provider, owner, spent, call, login, byHand, lost>> /\ linked' \subseteq FlipAccounts
  BY FlipTypes DEF Flip!WalletLapses
<1> QED
  BY <1>1, FlipTypes, FlipHandChanges

\* The workers forget what they held, and a token that was to be stored is lost.
LEMMA ScraperStopsKeeps ==
  ASSUME FlipInv, Flip!ScraperStops
  PROVE  FlipInv'
<1>1. /\ lost' = (lost \/ \E p \in Flip!Workers : call[p].pc = "saving")
      /\ call' = [p \in Flip!Users |-> IF p \in Calls THEN call[p] ELSE Flip!Idle]
      /\ UNCHANGED <<provider, owner, spent, login, linked, byHand>>
  BY DEF Flip!ScraperStops
<1>2. \A p \in Flip!Users : call'[p] = call[p] \/ call'[p] = Flip!Idle
  BY <1>1
<1>3. Flip!TypeOK'
  BY <1>1, FlipIdle DEF FlipInv, Flip!TypeOK
<1>4. Issued'
  <2>1. provider # NoProvider => provider.token <= Len(owner)
    BY FlipTypes
  <2>2. /\ login.token <= Len(owner) /\ 0 <= Len(owner)
    BY FlipTypes
  <2>3. \A p \in Flip!Users : call'[p].read <= Len(owner) /\ call'[p].token <= Len(owner)
    BY <1>2, <2>2, FlipIdle DEF FlipInv, Issued
  <2>4. \A p \in Flip!Procs : call'[p].pc \in {"refresh", "saving"} => provider # NoProvider
    BY <1>2, FlipIdle DEF FlipInv, Issued, Flip!Users
  <2>5. \A p \in Flip!Users : call'[p].pc = "sent" => call'[p].token # 0
    BY <1>2, FlipIdle DEF FlipInv, Issued
  <2> QED
    BY <1>1, <2>1, <2>2, <2>3, <2>4, <2>5 DEF Issued
<1>5. ASSUME NEW t, NotYetStored(t) PROVE NotYetStored(t)'
  BY <1>1, <1>2, <1>5, FlipIdle DEF NotYetStored
<1>6. InOneHand'
  <2>1. ASSUME NEW p \in Flip!Procs, call'[p].pc = "saving"
        PROVE  call'[p] = call[p] /\ NotYetStored(call[p].token)'
    <3>1. call'[p] = call[p] /\ call[p].pc = "saving"
      BY <1>2, <2>1, FlipIdle DEF Flip!Users
    <3>2. PICK t : t = call[p].token
      OBVIOUS
    <3>3. NotYetStored(t)'
      BY <1>5, <3>1, <3>2 DEF FlipInv, InOneHand
    <3> QED
      BY <3>1, <3>2, <3>3 DEF NotYetStored
  <2>2. login.token # 0 => NotYetStored(login.token)'
    <3>1. PICK t : t = login.token
      OBVIOUS
    <3>2. login.token # 0 => NotYetStored(t)'
      BY <1>5, <3>1, FlipTypes
    <3> QED
      BY <1>1, <3>1, <3>2 DEF NotYetStored
  <2> QED
    BY <1>1, <2>1, <2>2 DEF FlipInv, InOneHand
<1>7. SameAccount'
  <2>1. \A p \in Flip!Procs : call'[p].pc = "idle" \/ call'[p] = call[p]
    BY <1>2, FlipIdle DEF Flip!Users
  <2> QED
    BY <1>1, <2>1 DEF FlipInv, SameAccount
<1>8. Flip!StoredIsUnspent'
  <2>1. \A p \in Flip!Procs : call[p].pc = "saving" => lost' \/ call'[p] = call[p]
    BY <1>1 DEF Flip!Users, Flip!Procs
  <2> QED
    BY <1>1, <2>1 DEF FlipInv, Flip!StoredIsUnspent
<1>9. Flip!AccountOf(provider.token)' = Flip!AccountOf(provider.token)
  BY <1>1 DEF Flip!AccountOf
<1> QED
  BY <1>1, <1>3, <1>4, <1>6, <1>7, <1>8, <1>9 DEF FlipInv

THEOREM SessionInvariant == Flip!Spec => []FlipInv
<1>1. FlipInv /\ [Flip!Next]_(Flip!vars) => FlipInv'
  <2> SUFFICES ASSUME FlipInv, [Flip!Next]_(Flip!vars) PROVE FlipInv'
    OBVIOUS
  <2>1. CASE \E p \in Flip!Procs : Flip!BeginsRefresh(p) \/ Flip!FlipRefreshes(p)
    BY <2>1, BeginsRefreshKeeps, FlipRefreshesKeeps
  <2>2. CASE \E p \in Flip!Procs : Flip!RefreshFails(p)
    <3>1. PICK p \in Flip!Procs : Flip!RefreshFails(p)
      BY <2>2
    <3> QED
      BY <3>1, FlipIdle, RefreshFailsKeeps DEF Flip!RefreshFails, Flip!Users
  <2>3. CASE \E p \in Flip!Procs : Flip!SavesToken(p) \/ Flip!SaveFails(p)
    BY <2>3, SavesTokenKeeps, SaveFailsKeeps
  <2>4. CASE Flip!TakesToken \/ Flip!AsksChallenge \/ Flip!ActivatesItself \/ Flip!JobEnds
    BY <2>4, TakesTokenKeeps, AsksChallengeKeeps, ActivatesItselfKeeps, JobEndsKeeps
  <2>5. CASE Flip!SendsActivation \/ Flip!ScraperActivates \/ Flip!ActivationFails
    BY <2>5, SendsActivationKeeps, ActivationEndsKeeps
  <2>6. CASE \E a \in FlipAccounts, fields \in SUBSET Flip!Fields \ {{}} : Flip!Patches(a, fields)
    BY <2>6, PatchesKeeps
  <2>7. CASE \/ \E a \in FlipAccounts : Flip!VerifiesOtp(a)
             \/ Flip!TempExpires \/ Flip!FinalizeFails
    BY <2>7, LoginStepsKeep
  <2>8. CASE Flip!FlipVerifiesPin \/ Flip!SavesLogin
    BY <2>8, FlipVerifiesPinKeeps, SavesLoginKeeps
  <2>9. CASE Flip!TokenFallsDue \/ Flip!WalletLapses \/ Flip!ScraperStops
    BY <2>9, TokenFallsDueKeeps, WalletLapsesKeeps, ScraperStopsKeeps
  <2>10. CASE UNCHANGED Flip!vars
    <3>1. UNCHANGED <<provider, owner, spent, call, login, linked, byHand, lost>>
      BY <2>10 DEF Flip!vars
    <3> QED
      BY <3>1, FlipTypes, FlipHandChanges
  <2> QED
    BY <2>1, <2>2, <2>3, <2>4, <2>5, <2>6, <2>7, <2>8, <2>9, <2>10 DEF Flip!Next
<1> QED
  BY <1>1, FlipInit, PTL DEF Flip!Spec

\* What the flip worker types the PIN for is the account the PIN was read with.
THEOREM ProviderSessionUsable == Flip!Spec => [](Flip!TypeOK /\ SessionUsable)
<1>1. FlipInv => Flip!TypeOK /\ SessionUsable
  <2> SUFFICES ASSUME FlipInv PROVE SessionUsable
    BY DEF FlipInv
  <2>1. ASSUME call[FlipWorker].pc \in {"typing", "activating"},
               call[FlipWorker].pin = Flip!AccountOf(call[FlipWorker].read)
        PROVE  call[FlipWorker].pin = owner[call[FlipWorker].token]
    <3>1. FlipWorker \in Flip!Procs
      BY DEF Flip!Procs, Flip!Workers
    <3> QED
      BY <2>1, <3>1 DEF FlipInv, SameAccount, Flip!AccountOf
  <2>2. Flip!CredentialsAgree
    BY <2>1 DEF FlipInv, Flip!CredentialsAgree
  <2> QED
    BY <2>2 DEF FlipInv, SessionUsable, Flip!SessionUsable
<1> QED
  BY <1>1, SessionInvariant, PTL

-----------------------------------------------------------------------------
(* The secrets of an account (Accounts).  A handler that has counted the    *)
(* last wrong password allowed is about to lock, or has locked and is to    *)
(* clear the count; so at most as many guesses go on as there are others    *)
(* past their look at the lock.                                             *)

AtOf(f, S) == {q \in Handlers : f[q].at \in S}

Locking == {"locking", "clearing"} \cup (IF MaxAttempts = 1 THEN {"first"} ELSE {})

Counting ==
  /\ fails.count <= MaxAttempts - 1 + Cardinality(AtOf(handler, Locking))
  /\ ~loginLock =>
       /\ \A q \in Handlers : handler[q].at # "clearing"
       /\ guesses <= fails.count + Cardinality(AtOf(handler, {"wrong"}))
  /\ loginLock =>
       guesses + Cardinality(AtOf(handler, {"admitted"})) <= MaxAttempts - 1 + Cardinality(Handlers)

\* A link that one handler at a time follows has set no password before that
\* handler does, and is spent or about to be spent afterwards.
Alone(l) ==
  /\ \A p, q \in Handlers : Account!Has(p, l) /\ Account!Has(q, l) => p = q
  /\ \A q \in Handlers : Account!Has(q, l) /\ handler[q].at # "spending" => uses[l] = 0
  /\ uses[l] <= 1
  /\ uses[l] = 1 => ~link[l].live \/ \E q \in Handlers : Account!Has(q, l)

\* Before there is a client nobody works on one, nor is there a link to it.
Known ==
  client.status = "none" => 
    /\ \A q \in Handlers : handler[q].at \in {"idle", "registering"}
    /\ \A l \in Links : ~link[l].live

\* A link is not followed before it is mailed.
Mailed ==
  \A l \in Links : link[l].kind = "none" =>
    /\ uses[l] = 0 /\ ~link[l].live
    /\ \A q \in Handlers : ~Account!Has(q, l)

AccountInv ==
  /\ Account!TypeOK /\ Known /\ Mailed
  /\ excused \/ (redis /\ Counting /\ \A l \in Links \ shared : Alone(l))

LEMMA AccountCardinality ==
  ASSUME NEW S PROVE Account!Cardinality(S) = Cardinality(S)
BY DEF Cardinality, Account!Cardinality

LEMMA AccountInit == Account!Init => AccountInv
<1> SUFFICES ASSUME Account!Init PROVE AccountInv
  OBVIOUS
<1>1. \A q \in Handlers : handler[q].at = "idle" /\ handler[q] = Account!Free
  BY DEF Account!Init, Account!Free
<1>2. Account!TypeOK
  <2>1. client \in Account!Client
    BY DEF Account!Init, Account!Client
  <2>2. handler \in [Handlers -> Account!Handler]
    BY DEF Account!Init, Account!Handler, Account!Free
  <2>3. fails \in [count : Nat, ttl : BOOLEAN]
    BY DEF Account!Init
  <2>4. link \in [Links -> [kind : {"none", "verify", "reset"}, live : BOOLEAN]]
    BY DEF Account!Init
  <2> QED
    BY <2>1, <2>2, <2>3, <2>4 DEF Account!Init, Account!TypeOK
<1>3. \A l \in Links : uses[l] = 0 /\ ~link[l].live
  BY DEF Account!Init
<1>4. \A q \in Handlers, l \in Links : ~Account!Has(q, l)
  BY <1>1 DEF Account!Has
<1>5. Counting
  <2>1. fails.count = 0 /\ guesses = 0 /\ ~loginLock
    BY DEF Account!Init
  <2>2. \A S : IsFiniteSet(AtOf(handler, S)) /\ Cardinality(AtOf(handler, S)) \in Nat
    <3>1. \A S : AtOf(handler, S) \subseteq Handlers
      BY DEF AtOf
    <3> QED
      BY <3>1, AccountsAssumption, FS_Subset, FS_CardinalityType
  <2> QED
    BY <1>1, <2>1, <2>2, AccountsAssumption DEF Counting
<1>6. redis
  BY DEF Account!Init
<1> QED
  BY <1>1, <1>2, <1>3, <1>4, <1>5, <1>6 DEF AccountInv, Known, Mailed, Alone

\* Where one handler moves, a set of places has one more or one less in it.
LEMMA CountMoves ==
  ASSUME NEW f, NEW g, NEW q \in Handlers, \A p \in Handlers \ {q} : g[p] = f[p], NEW S
  PROVE  /\ Cardinality(AtOf(f, S)) \in Nat /\ Cardinality(AtOf(g, S)) \in Nat
         /\ f[q].at \in S /\ g[q].at \in S => Cardinality(AtOf(g, S)) = Cardinality(AtOf(f, S))
         /\ f[q].at \notin S /\ g[q].at \notin S =>
              Cardinality(AtOf(g, S)) = Cardinality(AtOf(f, S))
         /\ f[q].at \notin S /\ g[q].at \in S =>
              Cardinality(AtOf(g, S)) = Cardinality(AtOf(f, S)) + 1
         /\ f[q].at \in S /\ g[q].at \notin S =>
              Cardinality(AtOf(g, S)) = Cardinality(AtOf(f, S)) - 1
<1>1. AtOf(f, S) \subseteq Handlers /\ AtOf(g, S) \subseteq Handlers
  BY DEF AtOf
<1>2. IsFiniteSet(AtOf(f, S)) /\ IsFiniteSet(AtOf(g, S))
  BY <1>1, AccountsAssumption, FS_Subset
<1>3. Cardinality(AtOf(f, S)) \in Nat /\ Cardinality(AtOf(g, S)) \in Nat
  BY <1>2, FS_CardinalityType
<1>4. CASE (f[q].at \in S) <=> (g[q].at \in S)
  <2>1. AtOf(g, S) = AtOf(f, S)
    BY <1>4 DEF AtOf
  <2> QED
    BY <1>3, <1>4, <2>1
<1>5. CASE f[q].at \notin S /\ g[q].at \in S
  <2>1. AtOf(g, S) = AtOf(f, S) \cup {q} /\ q \notin AtOf(f, S)
    BY <1>5 DEF AtOf
  <2> QED
    BY <1>2, <1>3, <1>5, <2>1, FS_AddElement
<1>6. CASE f[q].at \in S /\ g[q].at \notin S
  <2>1. AtOf(f, S) = AtOf(g, S) \cup {q} /\ q \notin AtOf(g, S)
    BY <1>6 DEF AtOf
  <2>2. Cardinality(AtOf(g, S) \cup {q}) = Cardinality(AtOf(g, S)) + 1
    BY <1>2, <2>1, FS_AddElement
  <2>3. Cardinality(AtOf(f, S)) = Cardinality(AtOf(g, S)) + 1
    BY <2>1, <2>2
  <2> QED
    BY <1>3, <1>6, <2>3
<1> QED
  BY <1>4, <1>5, <1>6

\* A handler is in one place at a time.
LEMMA PlacesApart ==
  ASSUME NEW f
  PROVE  Cardinality(AtOf(f, Locking)) + Cardinality(AtOf(f, {"wrong"}))
           + Cardinality(AtOf(f, {"admitted"})) <= Cardinality(Handlers)
<1> DEFINE L == AtOf(f, Locking)  W == AtOf(f, {"wrong"})  A == AtOf(f, {"admitted"})
<1>1. L \subseteq Handlers /\ W \subseteq Handlers /\ A \subseteq Handlers
  BY DEF AtOf
<1>2. L \cap W = {} /\ (L \cup W) \cap A = {} /\ (L \cup W) \cup A \subseteq Handlers
  BY DEF AtOf, Locking
<1>3. IsFiniteSet(L) /\ IsFiniteSet(W) /\ IsFiniteSet(A) /\ IsFiniteSet(L \cup W)
  BY <1>1, AccountsAssumption, FS_Subset, FS_Union
<1> HIDE DEF L, W, A
<1>7. \A X, Y : IsFiniteSet(X) /\ IsFiniteSet(Y) /\ X \cap Y = {} =>
        Cardinality(X \cup Y) = Cardinality(X) + Cardinality(Y)
  <2> TAKE X, Y
  <2> SUFFICES ASSUME IsFiniteSet(X), IsFiniteSet(Y), X \cap Y = {}
               PROVE  Cardinality(X \cup Y) = Cardinality(X) + Cardinality(Y)
    OBVIOUS
  <2>1. Cardinality(X \cup Y) = Cardinality(X) + Cardinality(Y) - Cardinality(X \cap Y)
    BY FS_Union
  <2>2. Cardinality(X \cap Y) = 0
    BY FS_EmptySet
  <2>3. Cardinality(X) \in Nat /\ Cardinality(Y) \in Nat
    BY FS_CardinalityType
  <2> QED
    BY <2>1, <2>2, <2>3
<1>4. Cardinality(L \cup W) = Cardinality(L) + Cardinality(W)
  BY <1>2, <1>3, <1>7
<1>5. Cardinality((L \cup W) \cup A) = Cardinality(L \cup W) + Cardinality(A)
  BY <1>2, <1>3, <1>7
<1>6. Cardinality((L \cup W) \cup A) <= Cardinality(Handlers)
  BY <1>2, AccountsAssumption, FS_Subset
<1> QED
  BY <1>4, <1>5, <1>6 DEF L, W, A

-----------------------------------------------------------------------------
(* What a step may leave as it was.                                        *)

LEMMA AccountTypes ==
  ASSUME AccountInv
  PROVE  /\ client \in Account!Client /\ owned \subseteq {"subscription", "balance"}
         /\ redis \in BOOLEAN /\ loginLock \in BOOLEAN /\ excused \in BOOLEAN
         /\ fails \in [count : Nat, ttl : BOOLEAN] /\ fails.count \in Nat
         /\ link \in [Links -> [kind : {"none", "verify", "reset"}, live : BOOLEAN]]
         /\ handler \in [Handlers -> Account!Handler]
         /\ guesses \in Nat /\ uses \in [Links -> Nat] /\ shared \subseteq Links
BY DEF AccountInv, Account!TypeOK

\* The kinds of handler.
LEMMA HandlerKinds ==
  ASSUME NEW h \in Account!Handler
  PROVE  /\ h.at = "idle" \/ h.at \in {"registering", "subscribing", "opening", "greeting"}
            \/ h.at = "known" \/ h.at \in Account!SignIn \/ h.at = "mailing"
            \/ h.at \in {"holding", "choosing", "spending"}
         /\ h.at \in {"registering", "subscribing", "opening", "greeting"} =>
              h \in [at : {"registering", "subscribing", "opening", "greeting"}, google : BOOLEAN]
         /\ h.at \in Account!SignIn =>
              h \in [at : Account!SignIn, password : Account!Passwords, guess : Account!Passwords]
         /\ h.at = "mailing" => h \in [at : {"mailing"}, kind : {"verify", "reset"}]
         /\ h.at \in {"holding", "choosing", "spending"} =>
              h \in [at : {"holding", "choosing", "spending"}, link : Links]
BY DEF Account!Handler, Account!SignIn

\* A handler that goes on remembers what it remembered.
LEMMA HandlerGoes ==
  ASSUME NEW h \in Account!Handler, NEW at,
         \/ h.at \in Account!SignIn /\ at \in Account!SignIn
         \/ h.at \in {"registering", "subscribing"} /\ at \in {"subscribing", "opening"}
         \/ h.at \in {"holding", "choosing", "spending"} /\ at \in {"holding", "choosing", "spending"}
  PROVE  /\ [h EXCEPT !.at = at] \in Account!Handler /\ [h EXCEPT !.at = at].at = at
         /\ at \in {"holding", "choosing", "spending"} => [h EXCEPT !.at = at].link = h.link
<1>1. CASE h.at \in Account!SignIn /\ at \in Account!SignIn
  <2>1. h \in [at : Account!SignIn, password : Account!Passwords, guess : Account!Passwords]
    BY <1>1, HandlerKinds
  <2>2. [h EXCEPT !.at = at] \in
          [at : Account!SignIn, password : Account!Passwords, guess : Account!Passwords]
        /\ [h EXCEPT !.at = at].at = at
    BY <1>1, <2>1
  <2>3. at \notin {"holding", "choosing", "spending"}
    BY <1>1 DEF Account!SignIn
  <2> QED
    BY <2>2, <2>3 DEF Account!Handler
<1>2. CASE h.at \in {"registering", "subscribing"} /\ at \in {"subscribing", "opening"}
  <2>1. h \in [at : {"registering", "subscribing", "opening", "greeting"}, google : BOOLEAN]
    BY <1>2, HandlerKinds
  <2>2. [h EXCEPT !.at = at] \in
          [at : {"registering", "subscribing", "opening", "greeting"}, google : BOOLEAN]
        /\ [h EXCEPT !.at = at].at = at
    BY <1>2, <2>1
  <2>3. at \notin {"holding", "choosing", "spending"}
    BY <1>2
  <2> QED
    BY <2>2, <2>3 DEF Account!Handler
<1>3. CASE /\ h.at \in {"holding", "choosing", "spending"}
           /\ at \in {"holding", "choosing", "spending"}
  <2>1. h \in [at : {"holding", "choosing", "spending"}, link : Links]
    BY <1>3, HandlerKinds
  <2>2. [h EXCEPT !.at = at] \in [at : {"holding", "choosing", "spending"}, link : Links]
        /\ [h EXCEPT !.at = at].at = at /\ [h EXCEPT !.at = at].link = h.link
    BY <1>3, <2>1
  <2> QED
    BY <2>2 DEF Account!Handler
<1> QED
  BY <1>1, <1>2, <1>3

LEMMA HandlerBecomes ==
  ASSUME AccountInv, NEW q \in Handlers, NEW h \in Account!Handler, Account!Become(q, h)
  PROVE  /\ handler' \in [Handlers -> Account!Handler]
         /\ handler'[q] = h /\ \A p \in Handlers \ {q} : handler'[p] = handler[p]
BY AccountTypes DEF Account!Become

Follows == {"holding", "choosing", "spending"}
Counted == {"wrong", "first", "locking", "clearing", "admitted"}

\* A handler outside the counting leaves it as it is.
LEMMA CountingRests ==
  ASSUME Counting, NEW q \in Handlers, \A p \in Handlers \ {q} : handler'[p] = handler[p],
         handler[q].at \notin Counted, handler'[q].at \notin Counted,
         UNCHANGED <<fails, loginLock, guesses>>
  PROVE  Counting'
<1>1. PICK f, g : f = handler /\ g = handler'
  OBVIOUS
<1>2. ASSUME NEW S, S \subseteq Counted
      PROVE  Cardinality(AtOf(g, S)) = Cardinality(AtOf(f, S))
  <2>1. f[q].at \notin S /\ g[q].at \notin S /\ \A p \in Handlers \ {q} : g[p] = f[p]
    BY <1>1, <1>2
  <2> QED
    BY <2>1, CountMoves
<1>3. Locking \subseteq Counted /\ {"wrong"} \subseteq Counted /\ {"admitted"} \subseteq Counted
  BY DEF Locking, Counted
<1>4. /\ Cardinality(AtOf(handler', Locking)) = Cardinality(AtOf(handler, Locking))
      /\ Cardinality(AtOf(handler', {"wrong"})) = Cardinality(AtOf(handler, {"wrong"}))
      /\ Cardinality(AtOf(handler', {"admitted"})) = Cardinality(AtOf(handler, {"admitted"}))
  BY <1>1, <1>2, <1>3
<1> QED
  BY <1>4 DEF Counting, Counted

\* So do the links, to a handler that follows none.
LEMMA LinksRest ==
  ASSUME NEW q \in Handlers, \A p \in Handlers \ {q} : handler'[p] = handler[p],
         handler[q].at \notin Follows, handler'[q].at \notin Follows,
         UNCHANGED <<link, uses, shared>>
  PROVE  /\ Mailed => Mailed'
         /\ \A l \in Links \ shared : Alone(l) => Alone(l)'
<1>1. \A p \in Handlers, l \in Links : Account!Has(p, l)' <=> Account!Has(p, l)
  BY DEF Account!Has, Follows
<1>2. \A p \in Handlers, l \in Links : Account!Has(p, l) => handler'[p].at = handler[p].at
  BY DEF Account!Has, Follows
<1> QED
  BY <1>1, <1>2 DEF Mailed, Alone

\* A handler that neither counts nor follows a link.
LEMMA AccountMoves ==
  ASSUME AccountInv, NEW q \in Handlers, NEW h \in Account!Handler, Account!Become(q, h),
         handler[q].at \notin Follows \cup Counted, h.at \notin Follows \cup Counted,
         UNCHANGED <<fails, loginLock, guesses, link, uses, shared, redis, excused>>,
         client' \in Account!Client, owned' \subseteq {"subscription", "balance"},
         client'.status = "none" =>
           client.status = "none" /\ h.at \in {"idle", "registering"}
  PROVE  AccountInv'
<1>1. /\ handler' \in [Handlers -> Account!Handler]
      /\ handler'[q] = h /\ \A p \in Handlers \ {q} : handler'[p] = handler[p]
  BY HandlerBecomes
<1>2. Account!TypeOK'
  BY <1>1, AccountTypes DEF Account!TypeOK
<1>3. Known'
  BY <1>1 DEF AccountInv, Known
<1>4. Mailed' /\ (\A l \in Links \ shared : Alone(l) => Alone(l)')
  BY <1>1, LinksRest DEF AccountInv
<1>5. Counting => Counting'
  BY <1>1, CountingRests
<1> QED
  BY <1>2, <1>3, <1>4, <1>5 DEF AccountInv

\* The handler that answers is free again.
LEMMA AccountFree ==
  Account!Free \in Account!Handler /\ Account!Free.at = "idle"
BY DEF Account!Free, Account!Handler

LEMMA AccountClient ==
  ASSUME AccountInv
  PROVE  /\ client.status = "none" => client = Account!NoClient
         /\ client.status # "none" =>
              client \in [status : {"active", "suspended"}, password : Account!Passwords,
                          google : BOOLEAN, verified : BOOLEAN]
BY AccountTypes DEF Account!Client, Account!NoClient

-----------------------------------------------------------------------------
(* Registration.                                                           *)

LEMMA RegistersKeeps ==
  ASSUME AccountInv, NEW q \in Handlers, Account!Registers(q) \/ Account!ComesByGoogle(q)
  PROVE  AccountInv'
<1>1. /\ handler[q] = Account!Free
      /\ UNCHANGED <<client, owned, fails, loginLock, guesses, link, uses, shared, redis, excused>>
  BY DEF Account!Registers, Account!ComesByGoogle, Account!account, Account!guessing,
         Account!mail, Account!around
<1>2. PICK h : /\ h \in Account!Handler /\ Account!Become(q, h)
               /\ h.at \in {"registering", "known"}
               /\ client.status = "none" => h.at = "registering"
  <2>1. /\ [at |-> "registering", google |-> FALSE] \in Account!Handler
        /\ [at |-> "registering", google |-> TRUE] \in Account!Handler
        /\ [at |-> "known", google |-> TRUE] \in Account!Handler
    BY DEF Account!Handler
  <2>2. CASE Account!Registers(q)
    BY <2>1, <2>2 DEF Account!Registers
  <2>3. CASE Account!ComesByGoogle(q) /\ client = Account!NoClient
    BY <2>1, <2>3 DEF Account!ComesByGoogle
  <2>4. CASE Account!ComesByGoogle(q) /\ client # Account!NoClient
    <3>1. client.status # "none"
      BY <2>4, AccountClient
    <3> QED
      BY <2>1, <2>4, <3>1 DEF Account!ComesByGoogle
  <2> QED
    BY <2>2, <2>3, <2>4
<1>3. h.at \notin Follows \cup Counted /\ handler[q].at \notin Follows \cup Counted
  BY <1>1, <1>2, AccountFree DEF Follows, Counted
<1>4. client \in Account!Client /\ owned \subseteq {"subscription", "balance"}
  BY AccountTypes
<1> QED
  BY <1>1, <1>2, <1>3, <1>4, AccountMoves

LEMMA CreatesClientKeeps ==
  ASSUME AccountInv, NEW q \in Handlers, Account!CreatesClient(q)
  PROVE  AccountInv'
<1>1. /\ handler[q].at = "registering" /\ handler[q] \in Account!Handler
      /\ UNCHANGED <<owned, fails, loginLock, guesses, link, uses, shared, redis, excused>>
  BY AccountTypes DEF Account!CreatesClient, Account!account, Account!guessing,
         Account!mail, Account!around
<1>2. owned \subseteq {"subscription", "balance"} /\ client \in Account!Client
  BY AccountTypes
<1>3. CASE client = Account!NoClient
  <2>1. PICK g \in BOOLEAN : g = handler[q].google
    BY <1>1, HandlerKinds
  <2>2. client' = [status |-> "active", google |-> g, password |-> IF g THEN 0 ELSE 1,
                   verified |-> g]
    BY <1>3, <2>1 DEF Account!CreatesClient
  <2>3. client' \in Account!Client /\ client'.status = "active"
    BY <2>2, AccountsAssumption DEF Account!Client, Account!Passwords
  <2> DEFINE h == [handler[q] EXCEPT !.at = "subscribing"]
  <2>4. h \in Account!Handler /\ h.at = "subscribing"
    BY <1>1, HandlerGoes
  <2>5. Account!Become(q, h)
    BY <1>1, <1>3, AccountTypes DEF Account!CreatesClient, Account!Goes, Account!Become
  <2>6. h.at \notin Follows \cup Counted /\ handler[q].at \notin Follows \cup Counted
    BY <1>1, <2>4 DEF Follows, Counted
  <2> HIDE DEF h
  <2> QED
    BY <1>1, <1>2, <2>3, <2>4, <2>5, <2>6, AccountMoves
<1>4. CASE client # Account!NoClient
  <2>1. Account!Become(q, Account!Free) /\ client' = client
    BY <1>4 DEF Account!CreatesClient, Account!Answer
  <2>2. Account!Free.at \notin Follows \cup Counted /\ handler[q].at \notin Follows \cup Counted
    BY <1>1, AccountFree DEF Follows, Counted
  <2> QED
    BY <1>1, <1>2, <2>1, <2>2, AccountFree, AccountMoves
<1> QED
  BY <1>3, <1>4

LEMMA CreatesMoreKeeps ==
  ASSUME AccountInv, NEW q \in Handlers,
         Account!CreatesSubscription(q) \/ Account!CreatesBalance(q)
  PROVE  AccountInv'
<1>1. /\ handler[q].at \in {"subscribing", "opening"} /\ handler[q] \in Account!Handler
      /\ owned' \subseteq {"subscription", "balance"}
      /\ UNCHANGED <<client, fails, loginLock, guesses, link, uses, shared, redis, excused>>
  BY AccountTypes DEF Account!CreatesSubscription, Account!CreatesBalance, Account!account,
         Account!guessing, Account!mail, Account!around
<1>2. client \in Account!Client /\ client.status # "none"
  BY <1>1, AccountTypes DEF AccountInv, Known
<1>3. PICK h \in Account!Handler : /\ Account!Become(q, h)
                                   /\ h.at \in {"opening", "idle", "mailing"}
  <2>1. CASE Account!CreatesSubscription(q)
    <3>1. handler[q].at = "subscribing"
      BY <2>1 DEF Account!CreatesSubscription
    <3>2. [handler[q] EXCEPT !.at = "opening"] \in Account!Handler
          /\ [handler[q] EXCEPT !.at = "opening"].at = "opening"
      BY <1>1, <3>1, HandlerGoes
    <3>3. Account!Become(q, [handler[q] EXCEPT !.at = "opening"])
      BY <2>1, AccountTypes DEF Account!CreatesSubscription, Account!Goes, Account!Become
    <3> QED
      BY <3>2, <3>3
  <2>2. CASE Account!CreatesBalance(q)
    <3>1. [at |-> "mailing", kind |-> "verify"] \in Account!Handler
      BY DEF Account!Handler
    <3> QED
      BY <2>2, <3>1, AccountFree DEF Account!CreatesBalance, Account!Answer
  <2> QED
    BY <2>1, <2>2
<1>4. h.at \notin Follows \cup Counted /\ handler[q].at \notin Follows \cup Counted
  BY <1>1, <1>3 DEF Follows, Counted
<1> QED
  BY <1>1, <1>2, <1>3, <1>4, AccountMoves

LEMMA LinksGoogleKeeps ==
  ASSUME AccountInv, NEW q \in Handlers, Account!LinksGoogle(q)
  PROVE  AccountInv'
<1>1. /\ handler[q].at = "known" /\ Account!Become(q, Account!Free)
      /\ client' = IF client.google THEN client
                   ELSE [client EXCEPT !.google = TRUE, !.verified = TRUE]
      /\ UNCHANGED <<owned, fails, loginLock, guesses, link, uses, shared, redis, excused>>
  BY DEF Account!LinksGoogle, Account!Answer, Account!guessing, Account!mail, Account!around
<1>2. client.status # "none"
  BY <1>1 DEF AccountInv, Known
<1>3. client' \in Account!Client /\ client'.status # "none"
  BY <1>1, <1>2, AccountClient DEF Account!Client
<1>4. /\ owned \subseteq {"subscription", "balance"}
      /\ Account!Free.at \notin Follows \cup Counted /\ handler[q].at \notin Follows \cup Counted
  BY <1>1, AccountFree, AccountTypes DEF Follows, Counted
<1> QED
  BY <1>1, <1>3, <1>4, AccountFree, AccountMoves

LEMMA AsksForLinkKeeps ==
  ASSUME AccountInv, NEW q \in Handlers,
         Account!ForgotPassword(q) \/ Account!ResendVerification(q)
  PROVE  AccountInv'
<1>1. /\ handler[q] = Account!Free /\ client.status = "active"
      /\ UNCHANGED <<client, owned, fails, loginLock, guesses, link, uses, shared, redis, excused>>
  BY DEF Account!ForgotPassword, Account!ResendVerification, Account!account, Account!guessing,
         Account!mail, Account!around
<1>2. PICK h \in Account!Handler : Account!Become(q, h) /\ h.at = "mailing"
  BY DEF Account!ForgotPassword, Account!ResendVerification, Account!Handler
<1>3. /\ client \in Account!Client /\ owned \subseteq {"subscription", "balance"}
      /\ h.at \notin Follows \cup Counted /\ handler[q].at \notin Follows \cup Counted
  BY <1>1, <1>2, AccountFree, AccountTypes DEF Follows, Counted
<1> QED
  BY <1>1, <1>2, <1>3, AccountMoves

LEMMA LoginKeeps ==
  ASSUME AccountInv, NEW q \in Handlers, NEW guess \in Account!Passwords,
         Account!Login(q, guess)
  PROVE  AccountInv'
<1>1. /\ handler[q] = Account!Free /\ client.status = "active"
      /\ UNCHANGED <<client, owned, fails, loginLock, guesses, link, uses, shared, redis, excused>>
      /\ Account!Become(q, [at |-> "read", password |-> client.password, guess |-> guess])
  BY DEF Account!Login, Account!account, Account!guessing, Account!mail, Account!around
<1>2. client.password \in Account!Passwords
  BY <1>1, AccountClient
<1>3. PICK h \in Account!Handler : Account!Become(q, h) /\ h.at = "read"
  BY <1>1, <1>2 DEF Account!Handler, Account!SignIn
<1>4. /\ client \in Account!Client /\ owned \subseteq {"subscription", "balance"}
      /\ h.at \notin Follows \cup Counted /\ handler[q].at \notin Follows \cup Counted
  BY <1>1, <1>3, AccountFree, AccountTypes DEF Follows, Counted
<1> QED
  BY <1>1, <1>3, <1>4, AccountMoves

\* The owner changes the password, or the admin the status.
LEMMA ClientChangesKeep ==
  ASSUME AccountInv, client.status # "none", client'.status # "none", client' \in Account!Client,
         UNCHANGED <<owned, handler, fails, loginLock, guesses, link, uses, shared, redis, excused>>
  PROVE  AccountInv'
<1>1. Account!TypeOK'
  BY AccountTypes DEF Account!TypeOK
<1>2. \A p \in Handlers, l \in Links : Account!Has(p, l)' <=> Account!Has(p, l)
  BY DEF Account!Has
<1>3. Counting => Counting'
  BY DEF Counting
<1> QED
  BY <1>1, <1>2, <1>3 DEF AccountInv, Known, Mailed, Alone

-----------------------------------------------------------------------------
(* Links.                                                                  *)

\* Steps of a handler on links leave the counting alone.
LEMMA FollowsApart ==
  ASSUME NEW at \in Follows \cup {"idle", "mailing", "read", "registering"}
  PROVE  at \notin Counted
BY DEF Follows, Counted

LEMMA MailsLinkKeeps ==
  ASSUME AccountInv, NEW q \in Handlers, NEW l \in Links, Account!MailsLink(q, l)
  PROVE  AccountInv'
<1>1. /\ handler[q].at = "mailing" /\ link[l].kind = "none"
      /\ link' = [link EXCEPT ![l] = [kind |-> handler[q].kind, live |-> redis]]
      /\ Account!Become(q, Account!Free)
      /\ UNCHANGED <<client, owned, fails, loginLock, guesses, uses, shared, redis, excused>>
  BY DEF Account!MailsLink, Account!Answer, Account!account, Account!guessing, Account!around
<1>2. /\ handler' \in [Handlers -> Account!Handler]
      /\ handler'[q] = Account!Free /\ \A p \in Handlers \ {q} : handler'[p] = handler[p]
  BY <1>1, AccountFree, HandlerBecomes
<1>3. handler[q].kind \in {"verify", "reset"} /\ redis \in BOOLEAN
  BY <1>1, AccountTypes, HandlerKinds
<1>4. /\ link' \in [Links -> [kind : {"none", "verify", "reset"}, live : BOOLEAN]]
      /\ \A k \in Links \ {l} : link'[k] = link[k]
      /\ link'[l].kind # "none"
  BY <1>1, <1>3, AccountTypes
<1>5. Account!TypeOK'
  BY <1>1, <1>2, <1>4, AccountTypes DEF Account!TypeOK
<1>6. client.status # "none"
  BY <1>1 DEF AccountInv, Known
<1>7. \A p \in Handlers, k \in Links : Account!Has(p, k)' <=> Account!Has(p, k)
  BY <1>1, <1>2, AccountFree DEF Account!Has
<1>8. Mailed'
  BY <1>1, <1>4, <1>7 DEF AccountInv, Mailed
<1>9. Counting => Counting'
  BY <1>1, <1>2, AccountFree, FollowsApart, CountingRests
<1>10. \A k \in Links \ shared : Alone(k) => Alone(k)'
  <2> SUFFICES ASSUME NEW k \in Links \ shared, Alone(k) PROVE Alone(k)'
    OBVIOUS
  <2>1. \A p \in Handlers : Account!Has(p, k) => handler'[p] = handler[p]
    BY <1>1, <1>2 DEF Account!Has
  <2>2. CASE k = l
    <3>1. uses[l] = 0 /\ \A p \in Handlers : ~Account!Has(p, l)
      BY <1>1 DEF AccountInv, Mailed
    <3> QED
      BY <1>1, <1>7, <2>2, <3>1 DEF Alone
  <2>3. CASE k # l
    BY <1>1, <1>4, <1>7, <2>1, <2>3 DEF Alone
  <2> QED
    BY <2>2, <2>3
<1> QED
  BY <1>1, <1>5, <1>6, <1>8, <1>9, <1>10 DEF AccountInv, Known

LEMMA LinkExpiresKeeps ==
  ASSUME AccountInv, NEW l \in Links, Account!LinkExpires(l)
  PROVE  AccountInv'
<1>1. /\ link[l].live /\ link' = [link EXCEPT ![l].live = FALSE]
      /\ UNCHANGED <<client, owned, handler, fails, loginLock, guesses, uses, shared, redis, excused>>
  BY DEF Account!LinkExpires, Account!account, Account!guessing, Account!around
<1>2. /\ link' \in [Links -> [kind : {"none", "verify", "reset"}, live : BOOLEAN]]
      /\ \A k \in Links : link'[k].kind = link[k].kind /\ (link'[k].live => link[k].live)
  BY <1>1, AccountTypes
<1>3. Account!TypeOK'
  BY <1>1, <1>2, AccountTypes DEF Account!TypeOK
<1>4. \A p \in Handlers, k \in Links : Account!Has(p, k)' <=> Account!Has(p, k)
  BY <1>1 DEF Account!Has
<1>5. Counting => Counting'
  BY <1>1 DEF Counting
<1>6. Known' /\ Mailed'
  BY <1>1, <1>2, <1>4 DEF AccountInv, Known, Mailed
<1>7. \A k \in Links \ shared : Alone(k) => Alone(k)'
  BY <1>1, <1>2, <1>4 DEF Alone
<1> QED
  BY <1>1, <1>3, <1>5, <1>6, <1>7 DEF AccountInv

LEMMA FollowsLinkKeeps ==
  ASSUME AccountInv, NEW q \in Handlers, NEW l \in Links, Account!FollowsLink(q, l)
  PROVE  AccountInv'
<1> DEFINE h == [at |-> "holding", link |-> l]
<1>1. /\ handler[q] = Account!Free /\ link[l].live /\ Account!Become(q, h)
      /\ shared' = IF \E p \in Handlers : Account!Has(p, l) THEN shared \cup {l} ELSE shared
      /\ UNCHANGED <<client, owned, fails, loginLock, guesses, link, uses, redis, excused>>
  BY DEF Account!FollowsLink, Account!account, Account!guessing, Account!around
<1>2. h \in Account!Handler /\ h.at = "holding" /\ h.link = l
  BY DEF Account!Handler
<1> HIDE DEF h
<1>3. /\ handler' \in [Handlers -> Account!Handler]
      /\ handler'[q] = h /\ \A p \in Handlers \ {q} : handler'[p] = handler[p]
  BY <1>1, <1>2, HandlerBecomes
<1>4. /\ shared' \subseteq Links /\ shared \subseteq shared'
      /\ \A p \in Handlers : Account!Has(p, l) => l \in shared'
  BY <1>1, AccountTypes
<1>5. Account!TypeOK'
  BY <1>1, <1>3, <1>4, AccountTypes DEF Account!TypeOK
<1>6. link[l].kind # "none" /\ client.status # "none"
  BY <1>1 DEF AccountInv, Known, Mailed
<1>7. /\ \A p \in Handlers, k \in Links : p # q => (Account!Has(p, k)' <=> Account!Has(p, k))
      /\ \A k \in Links : Account!Has(q, k)' <=> k = l
      /\ \A k \in Links : ~Account!Has(q, k)
  BY <1>1, <1>2, <1>3, AccountFree DEF Account!Has
<1>8. Mailed'
  BY <1>1, <1>6, <1>7 DEF AccountInv, Mailed
<1>9. Counting => Counting'
  <2>1. handler[q].at \notin Counted /\ handler'[q].at \notin Counted
    BY <1>1, <1>2, <1>3, AccountFree DEF Counted
  <2> QED
    BY <1>1, <1>3, <2>1, CountingRests
<1>10. ASSUME \A k \in Links \ shared : Alone(k), NEW k \in Links \ shared'
       PROVE  Alone(k)'
  <2>1. Alone(k)
    BY <1>4, <1>10
  <2>2. CASE k = l
    <3>1. \A p \in Handlers : ~Account!Has(p, l)
      BY <1>4, <1>10, <2>2
    <3>2. uses[l] = 0
      <4>1. uses[l] \in Nat
        BY AccountTypes
      <4>2. uses[l] <= 1 /\ uses[l] # 1
        BY <1>1, <2>1, <2>2, <3>1 DEF Alone
      <4> QED
        BY <4>1, <4>2
    <3> QED
      BY <1>1, <1>7, <2>2, <3>1, <3>2 DEF Alone
  <2>3. CASE k # l
    BY <1>1, <1>3, <1>7, <2>1, <2>3 DEF Alone
  <2> QED
    BY <2>2, <2>3
<1> QED
  BY <1>1, <1>5, <1>6, <1>8, <1>9, <1>10 DEF AccountInv, Known

\* A handler that follows a link goes on, and may leave it to nobody.
LEMMA FollowerMoves ==
  ASSUME AccountInv, NEW q \in Handlers, NEW h \in Account!Handler, Account!Become(q, h),
         handler[q].at \in Follows, h.at = "idle" \/ (h.at \in Follows /\ h.link = handler[q].link)
  PROVE  /\ handler' \in [Handlers -> Account!Handler] /\ handler[q].link \in Links
         /\ handler'[q] = h /\ \A p \in Handlers \ {q} : handler'[p] = handler[p]
         /\ \A p \in Handlers, k \in Links : Account!Has(p, k)' => Account!Has(p, k)
         /\ \A p \in Handlers, k \in Links : Account!Has(p, k) /\ h.at # "idle" => Account!Has(p, k)'
         /\ \A p \in Handlers, k \in Links : Account!Has(p, k) /\ p # q => Account!Has(p, k)'
         /\ \A k \in Links : Account!Has(q, k) <=> k = handler[q].link
         /\ Counting /\ UNCHANGED <<fails, loginLock, guesses>> => Counting'
         /\ client.status # "none" /\ link[handler[q].link].kind # "none"
<1>1. /\ handler' \in [Handlers -> Account!Handler]
      /\ handler'[q] = h /\ \A p \in Handlers \ {q} : handler'[p] = handler[p]
  BY HandlerBecomes
<1>2. handler[q].link \in Links
  BY AccountTypes, HandlerKinds DEF Follows
<1>3. /\ \A p \in Handlers, k \in Links : Account!Has(p, k)' => Account!Has(p, k)
      /\ \A p \in Handlers, k \in Links : Account!Has(p, k) /\ h.at # "idle" => Account!Has(p, k)'
      /\ \A p \in Handlers, k \in Links : Account!Has(p, k) /\ p # q => Account!Has(p, k)'
      /\ \A k \in Links : Account!Has(q, k) <=> k = handler[q].link
  BY <1>1 DEF Account!Has, Follows
<1>4. handler[q].at \notin Counted /\ handler'[q].at \notin Counted
  BY <1>1 DEF Follows, Counted
<1>5. Counting /\ UNCHANGED <<fails, loginLock, guesses>> => Counting'
  BY <1>1, <1>4, CountingRests
<1>6. client.status # "none" /\ link[handler[q].link].kind # "none"
  BY <1>2, <1>3 DEF AccountInv, Known, Mailed, Follows
<1> QED
  BY <1>1, <1>2, <1>3, <1>5, <1>6

LEMMA ReadsOwnerKeeps ==
  ASSUME AccountInv, NEW q \in Handlers, Account!ReadsOwner(q)
  PROVE  AccountInv'
<1>1. /\ handler[q].at = "holding" /\ handler[q] \in Account!Handler
      /\ UNCHANGED <<client, owned, fails, loginLock, guesses, link, uses, shared, redis, excused>>
  BY AccountTypes DEF Account!ReadsOwner, Account!account, Account!guessing, Account!mail,
                      Account!around
<1>2. PICK h \in Account!Handler :
        /\ Account!Become(q, h)
        /\ h.at = "idle" \/ (h.at \in Follows /\ h.link = handler[q].link)
  <2>1. CASE Account!Answer(q)
    BY <2>1, AccountFree DEF Account!Answer
  <2>2. ASSUME NEW at \in {"spending", "choosing"}, Account!Goes(q, at)
        PROVE  \E h \in Account!Handler :
                 /\ Account!Become(q, h)
                 /\ h.at = "idle" \/ (h.at \in Follows /\ h.link = handler[q].link)
    <3> DEFINE h == [handler[q] EXCEPT !.at = at]
    <3>1. h \in Account!Handler /\ h.at = at /\ h.link = handler[q].link
      BY <1>1, HandlerGoes
    <3>2. Account!Become(q, h)
      BY <2>2, AccountTypes DEF Account!Goes, Account!Become
    <3> HIDE DEF h
    <3> QED
      BY <3>1, <3>2 DEF Follows
  <2> QED
    BY <2>1, <2>2 DEF Account!ReadsOwner
<1>3. /\ handler' \in [Handlers -> Account!Handler] /\ handler[q].link \in Links
      /\ handler'[q] = h /\ \A p \in Handlers \ {q} : handler'[p] = handler[p]
      /\ \A p \in Handlers, k \in Links : Account!Has(p, k)' => Account!Has(p, k)
      /\ \A p \in Handlers, k \in Links : Account!Has(p, k) /\ p # q => Account!Has(p, k)'
      /\ \A k \in Links : Account!Has(q, k) <=> k = handler[q].link
      /\ Counting => Counting'
      /\ client.status # "none"
  BY <1>1, <1>2, FollowerMoves DEF Follows
<1>4. Account!TypeOK'
  BY <1>1, <1>3, AccountTypes DEF Account!TypeOK
<1>5. Mailed' /\ Known'
  BY <1>1, <1>3 DEF AccountInv, Mailed, Known
<1>6. ASSUME NEW k \in Links \ shared, Alone(k) PROVE Alone(k)'
  <2>1. Account!Has(q, k) => uses[k] = 0
    BY <1>1, <1>6 DEF Alone
  <2>2. uses[k] = 1 => ~link[k].live \/ \E p \in Handlers \ {q} : Account!Has(p, k)
    BY <1>6, <2>1 DEF Alone
  <2>3. uses[k] = 1 => ~link'[k].live \/ \E p \in Handlers : Account!Has(p, k)'
    BY <1>1, <1>3, <2>2
  <2>4. \A p \in Handlers : Account!Has(p, k)' /\ handler'[p].at # "spending" => uses'[k] = 0
    <3> SUFFICES ASSUME NEW p \in Handlers, Account!Has(p, k)', handler'[p].at # "spending"
                 PROVE  uses[k] = 0
      BY <1>1
    <3>1. Account!Has(p, k)
      BY <1>3
    <3> QED
      BY <1>3, <1>6, <2>1, <3>1 DEF Alone
  <2> QED
    BY <1>1, <1>3, <1>6, <2>3, <2>4 DEF Alone
<1> QED
  BY <1>1, <1>4, <1>5, <1>6, <1>3 DEF AccountInv

\* The link sets the password while nobody else has it.
LEMMA UsesLinkKeeps ==
  ASSUME AccountInv, NEW q \in Handlers, Account!UsesLink(q)
  PROVE  AccountInv'
<1> DEFINE l == handler[q].link
           h == [handler[q] EXCEPT !.at = "spending"]
<1>1. /\ handler[q].at = "choosing" /\ handler[q] \in Account!Handler
      /\ UNCHANGED <<owned, fails, loginLock, guesses, link, shared, redis, excused>>
      /\ uses' = [uses EXCEPT ![l] = IF link[l].kind = "reset" THEN @ + 1 ELSE @]
  BY AccountTypes DEF Account!UsesLink, Account!guessing, Account!around
<1>2. h \in Account!Handler /\ h.at = "spending" /\ h.link = handler[q].link
  BY <1>1, HandlerGoes
<1>3. Account!Become(q, h)
  BY <1>1, AccountTypes DEF Account!UsesLink, Account!Goes, Account!Become
<1> HIDE DEF h
<1>4. /\ handler' \in [Handlers -> Account!Handler] /\ l \in Links
      /\ handler'[q] = h /\ \A p \in Handlers \ {q} : handler'[p] = handler[p]
      /\ \A p \in Handlers, k \in Links : Account!Has(p, k)' => Account!Has(p, k)
      /\ \A p \in Handlers, k \in Links : Account!Has(p, k) => Account!Has(p, k)'
      /\ \A k \in Links : Account!Has(q, k) <=> k = l
      /\ Counting => Counting'
      /\ client.status # "none" /\ link[l].kind # "none"
  BY <1>1, <1>2, <1>3, FollowerMoves DEF Follows
<1>5. client' \in Account!Client /\ client'.status # "none"
  <2>1. PICK c \in [status : {"active", "suspended"}, password : Account!Passwords,
                    google : BOOLEAN, verified : BOOLEAN] : c = client
    BY <1>4, AccountClient
  <2>2. PICK n \in Account!Passwords : n = IF c.password < MaxPasswords THEN c.password + 1 ELSE c.password
    BY AccountsAssumption DEF Account!Passwords
  <2>3. client' = [c EXCEPT !.verified = TRUE] \/ client' = [c EXCEPT !.password = n]
    BY <2>1, <2>2 DEF Account!UsesLink
  <2> QED
    BY <2>3 DEF Account!Client
<1> HIDE DEF l
<1>6. /\ uses' \in [Links -> Nat] /\ uses'[l] \in {uses[l], uses[l] + 1}
      /\ \A k \in Links \ {l} : uses'[k] = uses[k]
  BY <1>1, <1>4, AccountTypes
<1>7. Account!TypeOK'
  BY <1>1, <1>4, <1>5, <1>6, AccountTypes DEF Account!TypeOK
<1>8. Mailed' /\ Known'
  BY <1>1, <1>4, <1>5, <1>6 DEF AccountInv, Mailed, Known
<1>9. ASSUME NEW k \in Links \ shared, Alone(k) PROVE Alone(k)'
  <2>1. CASE k = l
    <3>1. uses[l] = 0 /\ uses'[l] <= 1
      BY <1>1, <1>4, <1>6, <1>9, <2>1 DEF Alone
    <3>2. \A p \in Handlers : Account!Has(p, k)' => p = q
      BY <1>4, <1>9, <2>1 DEF Alone
    <3>3. Account!Has(q, k)'
      BY <1>4, <2>1
    <3> QED
      BY <1>2, <1>4, <2>1, <3>1, <3>2, <3>3 DEF Alone
  <2>2. CASE k # l
    <3>1. uses'[k] = uses[k] /\ \A p \in Handlers : Account!Has(p, k) => p # q
      BY <1>4, <1>6, <2>2
    <3> QED
      BY <1>1, <1>4, <1>9, <3>1 DEF Alone
  <2> QED
    BY <2>1, <2>2
<1> QED
  BY <1>1, <1>4, <1>7, <1>8, <1>9 DEF AccountInv

\* While Redis answers, the link that has been used is gone.
LEMMA SpendsLinkKeeps ==
  ASSUME AccountInv, NEW q \in Handlers, Account!SpendsLink(q)
  PROVE  AccountInv'
<1> DEFINE l == handler[q].link
<1>1. /\ handler[q].at = "spending" /\ Account!Become(q, Account!Free)
      /\ link' = [link EXCEPT ![l].live = Account!Spent(link[l].live)]
      /\ UNCHANGED <<client, owned, fails, loginLock, guesses, uses, shared, redis, excused>>
  BY DEF Account!SpendsLink, Account!Answer, Account!account, Account!guessing, Account!around
<1>2. /\ handler' \in [Handlers -> Account!Handler] /\ l \in Links
      /\ handler'[q] = Account!Free /\ \A p \in Handlers \ {q} : handler'[p] = handler[p]
      /\ \A p \in Handlers, k \in Links : Account!Has(p, k)' => Account!Has(p, k)
      /\ \A p \in Handlers, k \in Links : Account!Has(p, k) /\ p # q => Account!Has(p, k)'
      /\ \A k \in Links : Account!Has(q, k) <=> k = l
      /\ Counting => Counting'
      /\ client.status # "none"
  BY <1>1, AccountFree, FollowerMoves DEF Follows
<1> HIDE DEF l
<1>3. /\ link' \in [Links -> [kind : {"none", "verify", "reset"}, live : BOOLEAN]]
      /\ \A k \in Links \ {l} : link'[k] = link[k]
      /\ link'[l].kind = link[l].kind /\ (redis => ~link'[l].live)
      /\ (link'[l].live => link[l].live)
  BY <1>1, <1>2, AccountTypes DEF Account!Spent
<1>4. Account!TypeOK'
  BY <1>1, <1>2, <1>3, AccountTypes DEF Account!TypeOK
<1>5. Mailed' /\ Known'
  BY <1>1, <1>2, <1>3 DEF AccountInv, Mailed, Known
<1>6. ASSUME redis, NEW k \in Links \ shared, Alone(k) PROVE Alone(k)'
  <2>1. \A p \in Handlers : Account!Has(p, k)' => handler'[p] = handler[p]
    BY <1>2, AccountFree DEF Account!Has
  <2>2. CASE k = l
    BY <1>1, <1>2, <1>3, <1>6, <2>1, <2>2 DEF Alone
  <2>3. CASE k # l
    <3>1. \A p \in Handlers : Account!Has(p, k) => p # q
      BY <1>2, <2>3
    <3> QED
      BY <1>1, <1>2, <1>3, <1>6, <2>1, <2>3, <3>1 DEF Alone
  <2> QED
    BY <2>2, <2>3
<1> QED
  BY <1>1, <1>2, <1>4, <1>5, <1>6 DEF AccountInv

-----------------------------------------------------------------------------
(* Signing in.                                                             *)

LEMMA SignInMoves ==
  ASSUME AccountInv, NEW q \in Handlers, NEW h \in Account!Handler, Account!Become(q, h),
         handler[q].at \in Account!SignIn, h.at \in Account!SignIn \cup {"idle"},
         UNCHANGED <<client, owned, link, uses, shared, redis>>,
         excused' \in BOOLEAN, excused => excused',
         fails' \in [count : Nat, ttl : BOOLEAN], loginLock' \in BOOLEAN, guesses' \in Nat,
         ~excused' /\ redis /\ Counting => Counting'
  PROVE  AccountInv'
<1>1. /\ handler' \in [Handlers -> Account!Handler]
      /\ handler'[q] = h /\ \A p \in Handlers \ {q} : handler'[p] = handler[p]
  BY HandlerBecomes
<1>2. Account!TypeOK'
  BY <1>1, AccountTypes DEF Account!TypeOK
<1>3. Known'
  BY <1>1 DEF AccountInv, Known, Account!SignIn
<1>4. handler[q].at \notin Follows /\ handler'[q].at \notin Follows
  BY <1>1 DEF Follows, Account!SignIn
<1>5. Mailed' /\ (\A l \in Links \ shared : Alone(l) => Alone(l)')
  BY <1>1, <1>4, LinksRest DEF AccountInv
<1> QED
  BY <1>2, <1>3, <1>5 DEF AccountInv

\* The handlers in a set of places, before and after one moves.
LEMMA Counts ==
  ASSUME AccountInv, NEW q \in Handlers, NEW h \in Account!Handler, Account!Become(q, h), NEW S
  PROVE  /\ Cardinality(AtOf(handler, S)) \in Nat /\ Cardinality(AtOf(handler', S)) \in Nat
         /\ ((handler[q].at \in S) <=> (h.at \in S)) =>
              Cardinality(AtOf(handler', S)) = Cardinality(AtOf(handler, S))
         /\ handler[q].at \notin S /\ h.at \in S =>
              Cardinality(AtOf(handler', S)) = Cardinality(AtOf(handler, S)) + 1
         /\ handler[q].at \in S /\ h.at \notin S =>
              Cardinality(AtOf(handler', S)) = Cardinality(AtOf(handler, S)) - 1
<1>1. PICK f, g : f = handler /\ g = handler'
  OBVIOUS
<1>2. g[q] = h /\ \A p \in Handlers \ {q} : g[p] = f[p]
  BY <1>1, HandlerBecomes
<1>3. \A p \in Handlers \ {q} : g[p] = f[p]
  BY <1>2
<1>4. Cardinality(AtOf(f, S)) \in Nat /\ Cardinality(AtOf(g, S)) \in Nat
  BY <1>3, CountMoves
<1>5. f[q].at \in S /\ g[q].at \in S => Cardinality(AtOf(g, S)) = Cardinality(AtOf(f, S))
  <2> SUFFICES ASSUME f[q].at \in S, g[q].at \in S PROVE AtOf(g, S) = AtOf(f, S)
    OBVIOUS
  <2> QED
    BY <1>3 DEF AtOf
<1>6. f[q].at \notin S /\ g[q].at \notin S => Cardinality(AtOf(g, S)) = Cardinality(AtOf(f, S))
  BY <1>3, CountMoves
<1>7. f[q].at \notin S /\ g[q].at \in S =>
        Cardinality(AtOf(g, S)) = Cardinality(AtOf(f, S)) + 1
  BY <1>3, CountMoves
<1>8. f[q].at \in S /\ g[q].at \notin S =>
        Cardinality(AtOf(g, S)) = Cardinality(AtOf(f, S)) - 1
  BY <1>3, CountMoves
<1> QED
  BY <1>1, <1>2, <1>4, <1>5, <1>6, <1>7, <1>8

LEMMA SignInHandler ==
  ASSUME AccountInv, NEW q \in Handlers, handler[q].at \in Account!SignIn,
         NEW at \in Account!SignIn, Account!Goes(q, at)
  PROVE  \E h \in Account!Handler : Account!Become(q, h) /\ h.at = at
<1> DEFINE h == [handler[q] EXCEPT !.at = at]
<1>1. handler[q] \in Account!Handler
  BY AccountTypes
<1>2. h \in Account!Handler /\ h.at = at
  BY <1>1, HandlerGoes
<1>3. Account!Become(q, h)
  BY AccountTypes DEF Account!Goes, Account!Become
<1> HIDE DEF h
<1> QED
  BY <1>2, <1>3

LEMMA Nats ==
  ASSUME AccountInv
  PROVE  /\ Cardinality(Handlers) \in Nat /\ MaxAttempts \in Nat /\ MaxAttempts >= 1
         /\ fails.count \in Nat /\ guesses \in Nat
BY AccountTypes, AccountsAssumption, FS_CardinalityType

\* The lock is looked at.
LEMMA LooksAtLockKeeps ==
  ASSUME AccountInv, NEW q \in Handlers, Account!LooksAtLock(q)
  PROVE  AccountInv'
<1>1. /\ handler[q].at = "read"
      /\ UNCHANGED <<client, owned, fails, loginLock, guesses, link, uses, shared, redis, excused>>
  BY DEF Account!LooksAtLock, Account!account, Account!guessing, Account!mail, Account!around
<1>2. handler[q].at \in Account!SignIn
  BY <1>1 DEF Account!SignIn
<1>3. PICK h \in Account!Handler :
        /\ Account!Become(q, h) /\ h.at \in {"idle", "admitted"}
        /\ redis /\ loginLock => h.at = "idle"
  <2>1. CASE loginLock /\ redis
    BY <2>1, AccountFree DEF Account!LooksAtLock, Account!Answer
  <2>2. CASE ~(loginLock /\ redis)
    <3>1. Account!Goes(q, "admitted") /\ "admitted" \in Account!SignIn
      BY <2>2 DEF Account!LooksAtLock, Account!SignIn
    <3> QED
      BY <1>2, <2>2, <3>1, SignInHandler
  <2> QED
    BY <2>1, <2>2
<1>4. handler'[q] = h /\ \A p \in Handlers \ {q} : handler'[p] = handler[p]
  BY <1>3, HandlerBecomes
<1>5. /\ Cardinality(AtOf(handler', Locking)) = Cardinality(AtOf(handler, Locking))
      /\ Cardinality(AtOf(handler', {"wrong"})) = Cardinality(AtOf(handler, {"wrong"}))
      /\ h.at = "idle" => Cardinality(AtOf(handler', {"admitted"})) = Cardinality(AtOf(handler, {"admitted"}))
  <2>1. h.at \notin Locking /\ handler[q].at \notin Locking
    BY <1>1, <1>3 DEF Locking
  <2> QED
    BY <1>1, <1>3, <2>1, Counts
<1>6. redis /\ Counting => Counting'
  BY <1>1, <1>3, <1>4, <1>5 DEF Counting
<1>7. h.at \in Account!SignIn \cup {"idle"}
  BY <1>3 DEF Account!SignIn
<1> QED
  BY <1>1, <1>2, <1>3, <1>6, <1>7, AccountTypes, SignInMoves

LEMMA ComparesPasswordKeeps ==
  ASSUME AccountInv, NEW q \in Handlers, Account!ComparesPassword(q)
  PROVE  AccountInv'
<1>1. /\ handler[q].at = "admitted"
      /\ UNCHANGED <<client, owned, fails, loginLock, link, uses, shared, redis, excused>>
  BY DEF Account!ComparesPassword, Account!account, Account!mail, Account!around
<1>2. handler[q].at \in Account!SignIn
  BY <1>1 DEF Account!SignIn
<1>3. PICK h \in Account!Handler :
        /\ Account!Become(q, h)
        /\ \/ h.at = "right" /\ guesses' = guesses
           \/ h.at = "wrong" /\ guesses' = guesses + 1
  <2>1. /\ "right" \in Account!SignIn /\ "wrong" \in Account!SignIn
        /\ \/ Account!Goes(q, "right") /\ guesses' = guesses
           \/ Account!Goes(q, "wrong") /\ guesses' = guesses + 1
    BY DEF Account!ComparesPassword, Account!SignIn
  <2> QED
    BY <1>2, <2>1, SignInHandler
<1>4. handler'[q] = h /\ \A p \in Handlers \ {q} : handler'[p] = handler[p]
  BY <1>3, HandlerBecomes
<1>5. /\ Cardinality(AtOf(handler', Locking)) = Cardinality(AtOf(handler, Locking))
      /\ Cardinality(AtOf(handler', {"wrong"})) =
           Cardinality(AtOf(handler, {"wrong"})) + (IF h.at = "wrong" THEN 1 ELSE 0)
      /\ Cardinality(AtOf(handler', {"admitted"})) = Cardinality(AtOf(handler, {"admitted"})) - 1
      /\ Cardinality(AtOf(handler, {"admitted"})) \in Nat
      /\ Cardinality(AtOf(handler, {"wrong"})) \in Nat
  <2>1. h.at \notin Locking /\ handler[q].at \notin Locking
    BY <1>1, <1>3 DEF Locking
  <2> QED
    BY <1>1, <1>3, <2>1, Counts
<1>6. Counting => Counting'
  <2> SUFFICES ASSUME Counting PROVE Counting'
    OBVIOUS
  <2>1. fails'.count <= MaxAttempts - 1 + Cardinality(AtOf(handler', Locking))
    BY <1>1, <1>5 DEF Counting
  <2>2. ASSUME ~loginLock
        PROVE  /\ \A p \in Handlers : handler'[p].at # "clearing"
               /\ guesses' <= fails'.count + Cardinality(AtOf(handler', {"wrong"}))
    BY <1>1, <1>3, <1>4, <1>5, <2>2, Nats DEF Counting
  <2>3. ASSUME loginLock
        PROVE  guesses' + Cardinality(AtOf(handler', {"admitted"}))
                 <= MaxAttempts - 1 + Cardinality(Handlers)
    BY <1>1, <1>3, <1>5, <2>3, Nats DEF Counting
  <2> QED
    BY <1>1, <2>1, <2>2, <2>3 DEF Counting
<1>7. h.at \in Account!SignIn /\ guesses' \in Nat
  BY <1>3, Nats DEF Account!SignIn
<1> QED
  BY <1>1, <1>2, <1>3, <1>6, <1>7, AccountTypes, SignInMoves

\* The wrong password is counted: the one who counts the last allowed is to lock.
LEMMA CountsFailureKeeps ==
  ASSUME AccountInv, NEW q \in Handlers, Account!CountsFailure(q)
  PROVE  AccountInv'
<1> DEFINE count == IF redis THEN fails.count + 1 ELSE 0
<1>1. /\ handler[q].at = "wrong"
      /\ UNCHANGED <<client, owned, loginLock, guesses, link, uses, shared, redis, excused>>
      /\ fails' = IF redis THEN [fails EXCEPT !.count = count] ELSE fails
      /\ IF count = 1 THEN Account!Goes(q, "first")
         ELSE IF Account!Enough(count) THEN Account!Goes(q, "locking") ELSE Account!Answer(q)
  BY DEF Account!CountsFailure, Account!account, Account!mail, Account!around
<1>2. handler[q].at \in Account!SignIn
  BY <1>1 DEF Account!SignIn
<1>3. PICK h \in Account!Handler :
        /\ Account!Become(q, h) /\ h.at \in {"first", "locking", "idle"}
        /\ (h.at = "first") <=> (count = 1)
        /\ (h.at = "locking") <=> (count # 1 /\ count >= MaxAttempts)
  <2>1. "first" \in Account!SignIn /\ "locking" \in Account!SignIn
    BY DEF Account!SignIn
  <2> HIDE DEF count
  <2>2. CASE count = 1
    BY <1>1, <1>2, <2>1, <2>2, SignInHandler
  <2>3. CASE count # 1 /\ count >= MaxAttempts
    BY <1>1, <1>2, <2>1, <2>3, SignInHandler DEF Account!Enough
  <2>4. CASE count # 1 /\ ~(count >= MaxAttempts)
    BY <1>1, <2>4, AccountFree DEF Account!Enough, Account!Answer
  <2> QED
    BY <2>2, <2>3, <2>4
<1>4. /\ handler'[q] = h /\ (\A p \in Handlers \ {q} : handler'[p] = handler[p])
      /\ fails' \in [count : Nat, ttl : BOOLEAN]
      /\ redis => fails'.count = fails.count + 1
  BY <1>1, <1>3, HandlerBecomes, AccountTypes
<1>5. /\ Cardinality(AtOf(handler', Locking)) =
           Cardinality(AtOf(handler, Locking)) + (IF h.at \in Locking THEN 1 ELSE 0)
      /\ Cardinality(AtOf(handler', {"wrong"})) = Cardinality(AtOf(handler, {"wrong"})) - 1
      /\ Cardinality(AtOf(handler', {"admitted"})) = Cardinality(AtOf(handler, {"admitted"}))
      /\ Cardinality(AtOf(handler, Locking)) \in Nat
      /\ Cardinality(AtOf(handler, {"wrong"})) \in Nat
  <2>1. handler[q].at \notin Locking
    BY <1>1 DEF Locking
  <2> QED
    BY <1>1, <1>3, <2>1, Counts
<1>6. redis /\ Counting => Counting'
  <2> SUFFICES ASSUME redis, Counting PROVE Counting'
    OBVIOUS
  <2>1. fails'.count <= MaxAttempts - 1 + Cardinality(AtOf(handler', Locking))
    <3>1. fails.count <= MaxAttempts - 1 + Cardinality(AtOf(handler, Locking))
      BY DEF Counting
    <3>2. CASE h.at = "locking"
      <4>1. h.at \in Locking
        BY <3>2 DEF Locking
      <4> QED
        BY <1>4, <1>5, <3>1, <4>1, Nats
    <3>3. CASE h.at = "first"
      <4>1. fails'.count = 1
        BY <1>3, <1>4, <3>3
      <4>2. MaxAttempts = 1 => h.at \in Locking
        BY <3>3 DEF Locking
      <4> QED
        BY <1>5, <4>1, <4>2, Nats
    <3>4. CASE h.at = "idle"
      <4>1. fails'.count < MaxAttempts
        BY <1>3, <1>4, <3>4, Nats
      <4>2. h.at \notin Locking
        BY <3>4 DEF Locking
      <4> QED
        BY <1>4, <1>5, <4>1, <4>2, Nats
    <3> QED
      BY <1>3, <3>2, <3>3, <3>4
  <2>2. ASSUME ~loginLock
        PROVE  /\ \A p \in Handlers : handler'[p].at # "clearing"
               /\ guesses' <= fails'.count + Cardinality(AtOf(handler', {"wrong"}))
    BY <1>1, <1>3, <1>4, <1>5, <2>2, Nats DEF Counting
  <2>3. ASSUME loginLock
        PROVE  guesses' + Cardinality(AtOf(handler', {"admitted"}))
                 <= MaxAttempts - 1 + Cardinality(Handlers)
    BY <1>1, <1>5, <2>3 DEF Counting
  <2> QED
    BY <1>1, <2>1, <2>2, <2>3 DEF Counting
<1>7. h.at \in Account!SignIn \cup {"idle"}
  BY <1>3 DEF Account!SignIn
<1> QED
  BY <1>1, <1>2, <1>3, <1>4, <1>6, <1>7, AccountTypes, SignInMoves

LEMMA SetsExpiryKeeps ==
  ASSUME AccountInv, NEW q \in Handlers, Account!SetsExpiry(q)
  PROVE  AccountInv'
<1>1. /\ handler[q].at = "first"
      /\ UNCHANGED <<client, owned, loginLock, guesses, link, uses, shared, redis, excused>>
      /\ fails' = IF redis THEN [fails EXCEPT !.ttl = fails.count > 0] ELSE fails
      /\ IF Account!Enough(1) THEN Account!Goes(q, "locking") ELSE Account!Answer(q)
  BY DEF Account!SetsExpiry, Account!account, Account!mail, Account!around
<1>2. handler[q].at \in Account!SignIn
  BY <1>1 DEF Account!SignIn
<1>3. PICK h \in Account!Handler :
        /\ Account!Become(q, h) /\ h.at \in {"locking", "idle"}
        /\ (h.at = "locking") <=> (MaxAttempts = 1)
  <2>1. "locking" \in Account!SignIn
    BY DEF Account!SignIn
  <2>2. CASE MaxAttempts = 1
    <3>1. Account!Goes(q, "locking")
      BY <1>1, <2>2 DEF Account!Enough
    <3> QED
      BY <1>2, <2>1, <2>2, <3>1, SignInHandler
  <2>3. CASE MaxAttempts # 1
    <3>1. Account!Answer(q)
      BY <1>1, <2>3, Nats DEF Account!Enough
    <3> QED
      BY <2>3, <3>1, AccountFree DEF Account!Answer
  <2> QED
    BY <2>2, <2>3
<1>4. /\ handler'[q] = h /\ (\A p \in Handlers \ {q} : handler'[p] = handler[p])
      /\ fails' \in [count : Nat, ttl : BOOLEAN] /\ fails'.count = fails.count
  <2>1. (fails.count > 0) = TRUE \/ (fails.count > 0) = FALSE
    OBVIOUS
  <2>2. \/ fails' = [fails EXCEPT !.ttl = TRUE]
        \/ fails' = [fails EXCEPT !.ttl = FALSE]
        \/ fails' = fails
    BY <1>1, <2>1
  <2>3. fails' \in [count : Nat, ttl : BOOLEAN] /\ fails'.count = fails.count
    BY <2>2, AccountTypes
  <2> QED
    BY <1>3, <2>3, HandlerBecomes
<1>5. /\ Cardinality(AtOf(handler', Locking)) = Cardinality(AtOf(handler, Locking))
      /\ Cardinality(AtOf(handler', {"wrong"})) = Cardinality(AtOf(handler, {"wrong"}))
      /\ Cardinality(AtOf(handler', {"admitted"})) = Cardinality(AtOf(handler, {"admitted"}))
  <2>1. (handler[q].at \in Locking) <=> (h.at \in Locking)
    BY <1>1, <1>3 DEF Locking
  <2> QED
    BY <1>1, <1>3, <2>1, Counts
<1>6. Counting => Counting'
  BY <1>1, <1>3, <1>4, <1>5 DEF Counting
<1>7. h.at \in Account!SignIn \cup {"idle"}
  BY <1>3 DEF Account!SignIn
<1> QED
  BY <1>1, <1>2, <1>3, <1>4, <1>6, <1>7, AccountTypes, SignInMoves

\* When the lock falls, every other handler has at most one guess to come.
LEMMA SetsLockKeeps ==
  ASSUME AccountInv, NEW q \in Handlers, Account!SetsLock(q)
  PROVE  AccountInv'
<1>1. /\ handler[q].at = "locking" /\ loginLock' = (loginLock \/ redis)
      /\ Account!Goes(q, "clearing")
      /\ UNCHANGED <<client, owned, fails, guesses, link, uses, shared, redis, excused>>
  BY DEF Account!SetsLock, Account!account, Account!mail, Account!around
<1>2. handler[q].at \in Account!SignIn /\ "clearing" \in Account!SignIn
  BY <1>1 DEF Account!SignIn
<1>3. PICK h \in Account!Handler : Account!Become(q, h) /\ h.at = "clearing"
  BY <1>1, <1>2, SignInHandler
<1>5. /\ Cardinality(AtOf(handler', Locking)) = Cardinality(AtOf(handler, Locking))
      /\ Cardinality(AtOf(handler', {"admitted"})) = Cardinality(AtOf(handler, {"admitted"}))
      /\ Cardinality(AtOf(handler, Locking)) \in Nat
      /\ Cardinality(AtOf(handler, {"wrong"})) \in Nat
      /\ Cardinality(AtOf(handler, {"admitted"})) \in Nat
  <2>1. (handler[q].at \in Locking) /\ (h.at \in Locking)
    BY <1>1, <1>3 DEF Locking
  <2> QED
    BY <1>1, <1>3, <2>1, Counts
<1>6. redis /\ Counting => Counting'
  <2> SUFFICES ASSUME redis, Counting PROVE Counting'
    OBVIOUS
  <2>1. fails'.count <= MaxAttempts - 1 + Cardinality(AtOf(handler', Locking))
    BY <1>1, <1>5 DEF Counting
  <2>2. guesses + Cardinality(AtOf(handler, {"admitted"})) <= MaxAttempts - 1 + Cardinality(Handlers)
    <3>1. CASE loginLock
      BY <3>1 DEF Counting
    <3>2. CASE ~loginLock
      <4>1. /\ guesses <= fails.count + Cardinality(AtOf(handler, {"wrong"}))
            /\ fails.count <= MaxAttempts - 1 + Cardinality(AtOf(handler, Locking))
        BY <3>2 DEF Counting
      <4>2. Cardinality(AtOf(handler, Locking)) + Cardinality(AtOf(handler, {"wrong"}))
              + Cardinality(AtOf(handler, {"admitted"})) <= Cardinality(Handlers)
        BY PlacesApart
      <4> QED
        BY <1>5, <4>1, <4>2, Nats
    <3> QED
      BY <3>1, <3>2
  <2>3. loginLock'
    BY <1>1
  <2> QED
    BY <1>1, <1>5, <2>1, <2>2, <2>3 DEF Counting
<1>7. h.at \in Account!SignIn \cup {"idle"} /\ loginLock' \in BOOLEAN
  BY <1>1, <1>2, <1>3
<1> QED
  BY <1>1, <1>2, <1>3, <1>6, <1>7, AccountTypes, SignInMoves

LEMMA ClearsFailsKeeps ==
  ASSUME AccountInv, NEW q \in Handlers, Account!ClearsFails(q)
  PROVE  AccountInv'
<1>1. /\ handler[q].at \in {"clearing", "right"}
      /\ UNCHANGED <<client, owned, loginLock, link, uses, shared, redis, excused>>
      /\ fails' = IF redis THEN Account!NoFails ELSE fails
  BY DEF Account!ClearsFails, Account!account, Account!mail, Account!around
<1>2. handler[q].at \in Account!SignIn
  BY <1>1 DEF Account!SignIn
<1>3. PICK h \in Account!Handler :
        /\ Account!Become(q, h)
        /\ \/ handler[q].at = "right" /\ h.at = "unlocking" /\ guesses' = 0
           \/ handler[q].at = "clearing" /\ h.at = "idle" /\ guesses' = guesses
  <2>1. "unlocking" \in Account!SignIn
    BY DEF Account!SignIn
  <2>2. CASE handler[q].at = "right"
    <3>1. Account!Goes(q, "unlocking") /\ guesses' = 0
      BY <2>2 DEF Account!ClearsFails
    <3> QED
      BY <1>2, <2>1, <2>2, <3>1, SignInHandler
  <2>3. CASE handler[q].at = "clearing"
    BY <2>3, AccountFree DEF Account!ClearsFails, Account!Answer
  <2> QED
    BY <1>1, <2>2, <2>3
<1>4. /\ handler'[q] = h /\ (\A p \in Handlers \ {q} : handler'[p] = handler[p])
      /\ fails' \in [count : Nat, ttl : BOOLEAN]
      /\ redis => fails'.count = 0
  BY <1>1, <1>3, HandlerBecomes, AccountTypes DEF Account!NoFails
<1>5. /\ Cardinality(AtOf(handler', {"admitted"})) = Cardinality(AtOf(handler, {"admitted"}))
      /\ Cardinality(AtOf(handler', {"wrong"})) = Cardinality(AtOf(handler, {"wrong"}))
      /\ Cardinality(AtOf(handler', Locking)) \in Nat
      /\ Cardinality(AtOf(handler', {"wrong"})) \in Nat
      /\ Cardinality(AtOf(handler', {"admitted"})) <= Cardinality(Handlers)
      /\ Cardinality(AtOf(handler', {"admitted"})) \in Nat
  <2>1. /\ Cardinality(AtOf(handler', {"admitted"})) = Cardinality(AtOf(handler, {"admitted"}))
        /\ Cardinality(AtOf(handler', {"wrong"})) = Cardinality(AtOf(handler, {"wrong"}))
        /\ Cardinality(AtOf(handler', Locking)) \in Nat
        /\ Cardinality(AtOf(handler', {"wrong"})) \in Nat
        /\ Cardinality(AtOf(handler', {"admitted"})) \in Nat
    BY <1>1, <1>3, Counts
  <2>2. /\ Cardinality(AtOf(handler, Locking)) \in Nat
        /\ Cardinality(AtOf(handler, {"wrong"})) \in Nat
    BY <1>3, Counts
  <2> QED
    BY <2>1, <2>2, PlacesApart, Nats
<1>6. redis /\ Counting => Counting'
  <2> SUFFICES ASSUME redis, Counting PROVE Counting'
    OBVIOUS
  <2>1. fails'.count <= MaxAttempts - 1 + Cardinality(AtOf(handler', Locking))
    BY <1>4, <1>5, Nats
  <2>2. ASSUME ~loginLock
        PROVE  /\ \A p \in Handlers : handler'[p].at # "clearing"
               /\ guesses' <= fails'.count + Cardinality(AtOf(handler', {"wrong"}))
    <3>1. \A p \in Handlers : handler[p].at # "clearing"
      BY <2>2 DEF Counting
    <3>2. guesses' = 0 /\ h.at = "unlocking"
      BY <1>3, <3>1
    <3> QED
      BY <1>4, <1>5, <3>1, <3>2
  <2>3. ASSUME loginLock
        PROVE  guesses' + Cardinality(AtOf(handler', {"admitted"}))
                 <= MaxAttempts - 1 + Cardinality(Handlers)
    BY <1>3, <1>5, <2>3, Nats DEF Counting
  <2> QED
    BY <1>1, <2>1, <2>2, <2>3 DEF Counting
<1>7. h.at \in Account!SignIn \cup {"idle"} /\ guesses' \in Nat
  BY <1>3, Nats DEF Account!SignIn
<1> QED
  BY <1>1, <1>2, <1>3, <1>4, <1>6, <1>7, AccountTypes, SignInMoves

LEMMA ClearsLockKeeps ==
  ASSUME AccountInv, NEW q \in Handlers, Account!ClearsLock(q)
  PROVE  AccountInv'
<1>1. /\ handler[q].at = "unlocking" /\ loginLock' = (loginLock /\ ~redis) /\ guesses' = 0
      /\ Account!Become(q, Account!Free)
      /\ UNCHANGED <<client, owned, fails, link, uses, shared, redis>>
      /\ excused' = (excused \/ \E p \in Handlers \ {q} : handler[p].at \in Account!SignIn)
  BY DEF Account!ClearsLock, Account!account, Account!mail, Account!Answer
<1>2. handler[q].at \in Account!SignIn
  BY <1>1 DEF Account!SignIn
<1>3. handler'[q] = Account!Free /\ \A p \in Handlers \ {q} : handler'[p] = handler[p]
  BY <1>1, AccountFree, HandlerBecomes
<1>4. /\ Cardinality(AtOf(handler', Locking)) = Cardinality(AtOf(handler, Locking))
      /\ Cardinality(AtOf(handler', {"wrong"})) \in Nat
  <2>1. handler[q].at \notin Locking /\ Account!Free.at \notin Locking
    BY <1>1, AccountFree DEF Locking
  <2> QED
    BY <1>1, <2>1, AccountFree, Counts
<1>5. ~excused' /\ redis /\ Counting => Counting'
  <2> SUFFICES ASSUME ~excused', redis, Counting PROVE Counting'
    OBVIOUS
  <2>1. ~loginLock' /\ \A p \in Handlers \ {q} : handler[p].at \notin Account!SignIn
    BY <1>1
  <2>2. \A p \in Handlers : handler'[p].at # "clearing"
    BY <1>3, <2>1, AccountFree DEF Account!SignIn
  <2>3. guesses' <= fails'.count + Cardinality(AtOf(handler', {"wrong"}))
    BY <1>1, <1>4, Nats
  <2>4. fails'.count <= MaxAttempts - 1 + Cardinality(AtOf(handler', Locking))
    BY <1>1, <1>4 DEF Counting
  <2> QED
    BY <2>1, <2>2, <2>3, <2>4 DEF Counting
<1>6. excused' \in BOOLEAN /\ (excused => excused') /\ loginLock' \in BOOLEAN /\ guesses' \in Nat
  BY <1>1
<1> QED
  BY <1>1, <1>2, <1>5, <1>6, AccountFree, AccountTypes, SignInMoves

\* Count or lock expires; what a handler is about to do stays.
LEMMA ExpiryKeeps ==
  ASSUME AccountInv, Account!LockExpires \/ Account!FailsExpire
  PROVE  AccountInv'
<1>1. UNCHANGED <<client, owned, link, uses, shared, handler, redis, excused>> /\ guesses' = 0
  BY DEF Account!LockExpires, Account!FailsExpire, Account!account, Account!mail, Account!around
<1>2. /\ fails' \in [count : Nat, ttl : BOOLEAN] /\ fails'.count \in {0, fails.count}
      /\ fails'.count \in Nat /\ loginLock' \in BOOLEAN
      /\ loginLock' => loginLock
      /\ ~loginLock' /\ loginLock => \A q \in Handlers : handler[q].at # "clearing"
  <2>1. CASE Account!LockExpires
    BY <2>1, AccountTypes DEF Account!LockExpires
  <2>2. CASE Account!FailsExpire
    <3>1. fails' = [count |-> 0, ttl |-> FALSE] /\ loginLock' = loginLock
      BY <2>2 DEF Account!FailsExpire, Account!NoFails
    <3> QED
      BY <3>1, AccountTypes
  <2> QED
    BY <2>1, <2>2
<1>3. Account!TypeOK'
  BY <1>1, <1>2, AccountTypes DEF Account!TypeOK
<1>4. \A p \in Handlers, l \in Links : Account!Has(p, l)' <=> Account!Has(p, l)
  BY <1>1 DEF Account!Has
<1>5. /\ Cardinality(AtOf(handler, Locking)) \in Nat
      /\ Cardinality(AtOf(handler, {"wrong"})) \in Nat
      /\ Cardinality(AtOf(handler, {"admitted"})) \in Nat
  <2>1. \A S : AtOf(handler, S) \subseteq Handlers
    BY DEF AtOf
  <2> QED
    BY <2>1, AccountsAssumption, FS_Subset, FS_CardinalityType
<1>6. Counting => Counting'
  <2> SUFFICES ASSUME Counting PROVE Counting'
    OBVIOUS
  <2>1. fails'.count <= MaxAttempts - 1 + Cardinality(AtOf(handler, Locking))
    BY <1>2, <1>5, Nats DEF Counting
  <2>2. ~loginLock' => \A q \in Handlers : handler[q].at # "clearing"
    BY <1>2 DEF Counting
  <2>3. guesses' <= fails'.count + Cardinality(AtOf(handler, {"wrong"}))
    BY <1>1, <1>2, <1>5
  <2>4. guesses' + Cardinality(AtOf(handler, {"admitted"})) <= MaxAttempts - 1 + Cardinality(Handlers)
    BY <1>1, <1>5, PlacesApart, Nats
  <2> QED
    BY <1>1, <2>1, <2>2, <2>3, <2>4 DEF Counting
<1> QED
  BY <1>1, <1>3, <1>4, <1>6 DEF AccountInv, Known, Mailed, Alone

\* Redis or a handler fails: the history says so.
LEMMA FailureKeeps ==
  ASSUME AccountInv,
         \/ Account!RedisGone \/ Account!ApiRestarts
         \/ \E q \in Handlers : Account!RequestFails(q)
  PROVE  AccountInv'
<1>1. /\ UNCHANGED <<client, owned, fails, loginLock, guesses, link, uses, shared>>
      /\ excused' = TRUE /\ redis' \in BOOLEAN
  BY AccountTypes DEF Account!RedisGone, Account!ApiRestarts, Account!RequestFails,
                      Account!account, Account!guessing, Account!mail
<1>2. /\ handler' \in [Handlers -> Account!Handler]
      /\ \A p \in Handlers : handler'[p] \in {handler[p], Account!Free}
  <2>1. CASE Account!RedisGone
    BY <2>1, AccountTypes DEF Account!RedisGone
  <2>2. CASE Account!ApiRestarts
    BY <2>2, AccountFree DEF Account!ApiRestarts
  <2>3. ASSUME NEW q \in Handlers, Account!RequestFails(q)
        PROVE  /\ handler' \in [Handlers -> Account!Handler]
               /\ \A p \in Handlers : handler'[p] \in {handler[p], Account!Free}
    <3>1. Account!Become(q, Account!Free)
      BY <2>3 DEF Account!RequestFails, Account!Answer
    <3> QED
      BY <3>1, AccountFree, HandlerBecomes
  <2> QED
    BY <2>1, <2>2, <2>3
<1>3. Account!TypeOK'
  BY <1>1, <1>2, AccountTypes DEF Account!TypeOK
<1>4. \A p \in Handlers, l \in Links : Account!Has(p, l)' => Account!Has(p, l)
  BY <1>2, AccountFree DEF Account!Has
<1>5. Known' /\ Mailed'
  BY <1>1, <1>2, <1>4, AccountFree DEF AccountInv, Known, Mailed
<1> QED
  BY <1>1, <1>3, <1>5 DEF AccountInv

\* The steps of a handler.
LEMMA HandlesKeeps ==
  ASSUME AccountInv, NEW q \in Handlers, Account!Handles(q)
  PROVE  AccountInv'
<1>1. CASE Account!Registers(q) \/ Account!ComesByGoogle(q) \/ Account!CreatesClient(q)
             \/ Account!CreatesSubscription(q) \/ Account!CreatesBalance(q) \/ Account!LinksGoogle(q)
  BY <1>1, RegistersKeeps, CreatesClientKeeps, CreatesMoreKeeps, LinksGoogleKeeps
<1>2. CASE Account!ForgotPassword(q) \/ Account!ResendVerification(q)
  BY <1>2, AsksForLinkKeeps
<1>3. CASE \E l \in Links : Account!MailsLink(q, l) \/ Account!FollowsLink(q, l)
  BY <1>3, MailsLinkKeeps, FollowsLinkKeeps
<1>4. CASE Account!ReadsOwner(q) \/ Account!UsesLink(q) \/ Account!SpendsLink(q)
  BY <1>4, ReadsOwnerKeeps, UsesLinkKeeps, SpendsLinkKeeps
<1>5. CASE \E guess \in Account!Passwords \ {0} : Account!Login(q, guess)
  BY <1>5, LoginKeeps
<1>6. CASE Account!LooksAtLock(q) \/ Account!ComparesPassword(q) \/ Account!CountsFailure(q)
  BY <1>6, LooksAtLockKeeps, ComparesPasswordKeeps, CountsFailureKeeps
<1>7. CASE Account!SetsExpiry(q) \/ Account!SetsLock(q) \/ Account!ClearsFails(q)
             \/ Account!ClearsLock(q)
  BY <1>7, SetsExpiryKeeps, SetsLockKeeps, ClearsFailsKeeps, ClearsLockKeeps
<1> QED
  BY <1>1, <1>2, <1>3, <1>4, <1>5, <1>6, <1>7 DEF Account!Handles

\* The invariant of the account.
THEOREM AccountInvariant == Account!Spec => []AccountInv
<1>1. AccountInv /\ [Account!Next]_(Account!vars) => AccountInv'
  <2> SUFFICES ASSUME AccountInv, [Account!Next]_(Account!vars) PROVE AccountInv'
    OBVIOUS
  <2>1. CASE \E q \in Handlers : Account!Handles(q)
    BY <2>1, HandlesKeeps
  <2>2. CASE \E l \in Links : Account!LinkExpires(l)
    BY <2>2, LinkExpiresKeeps
  <2>3. CASE Account!LockExpires \/ Account!FailsExpire
    BY <2>3, ExpiryKeeps
  <2>4. CASE Account!ChangesPassword \/ \E s \in {"active", "suspended"} : Account!AdminSetsStatus(s)
    <3>1. /\ client.status # "none"
          /\ UNCHANGED <<owned, handler, fails, loginLock, guesses, link, uses, shared, redis, excused>>
      BY <2>4 DEF Account!ChangesPassword, Account!AdminSetsStatus, Account!guessing,
                  Account!mail, Account!around
    <3>2. PICK c \in [status : {"active", "suspended"}, password : Account!Passwords,
                      google : BOOLEAN, verified : BOOLEAN] : c = client
      BY <3>1, AccountClient
    <3>3. \/ /\ c.password + 1 \in Account!Passwords
             /\ client' = [c EXCEPT !.password = c.password + 1]
          \/ \E s \in {"active", "suspended"} : client' = [c EXCEPT !.status = s]
      <4>1. c.password < MaxPasswords => c.password + 1 \in Account!Passwords
        BY AccountsAssumption DEF Account!Passwords
      <4> QED
        BY <2>4, <3>2, <4>1 DEF Account!ChangesPassword, Account!AdminSetsStatus
    <3>4. client' \in Account!Client /\ client'.status # "none"
      BY <3>3 DEF Account!Client
    <3> QED
      BY <3>1, <3>4, ClientChangesKeep
  <2>5. CASE \/ Account!RedisGone \/ Account!ApiRestarts
             \/ \E q \in Handlers : Account!RequestFails(q)
    BY <2>5, FailureKeeps
  <2>6. CASE UNCHANGED Account!vars
    <3>1. UNCHANGED <<client, owned, redis, fails, loginLock, link, handler, guesses, uses, shared, excused>>
      BY <2>6 DEF Account!vars
    <3>2. \A p \in Handlers, l \in Links : Account!Has(p, l)' <=> Account!Has(p, l)
      BY <3>1 DEF Account!Has
    <3>3. Account!TypeOK' /\ (Counting => Counting')
      BY <3>1, AccountTypes DEF Account!TypeOK, Counting
    <3> QED
      BY <3>1, <3>2, <3>3 DEF AccountInv, Known, Mailed, Alone
  <2> QED
    BY <2>1, <2>2, <2>3, <2>4, <2>5, <2>6 DEF Account!Next
<1> QED
  BY <1>1, AccountInit, PTL DEF Account!Spec

\* Neither guessing nor a mailed link gives more than it should.
THEOREM AccountSecrets == Account!Spec => [](Account!TypeOK /\ SecretsHold)
<1>1. AccountInv => Account!TypeOK /\ SecretsHold
  <2> SUFFICES ASSUME AccountInv PROVE SecretsHold
    BY DEF AccountInv
  <2>1. Account!GuessesBounded
    <3> SUFFICES ASSUME ~excused PROVE guesses < MaxAttempts + Cardinality(Handlers)
      BY AccountCardinality DEF Account!GuessesBounded
    <3>1. Counting
      BY DEF AccountInv
    <3>2. /\ Cardinality(AtOf(handler, Locking)) \in Nat
          /\ Cardinality(AtOf(handler, {"wrong"})) \in Nat
          /\ Cardinality(AtOf(handler, {"admitted"})) \in Nat
      <4>1. \A S : AtOf(handler, S) \subseteq Handlers
        BY DEF AtOf
      <4> QED
        BY <4>1, AccountsAssumption, FS_Subset, FS_CardinalityType
    <3> QED
      BY <3>1, <3>2, PlacesApart, Nats DEF Counting
  <2>2. Account!LinkUsedOnce
    BY DEF AccountInv, Alone, Account!LinkUsedOnce
  <2> QED
    BY <2>1, <2>2 DEF SecretsHold, Account!SecretsHold
<1> QED
  BY <1>1, AccountInvariant, PTL
=============================================================================
