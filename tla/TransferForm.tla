---------------------------- MODULE TransferForm ---------------------------
(***************************************************************************)
(* The forms in which the name of a bank account's owner is looked up before *)
(* they are sent: the merchant's withdrawal, in a dialog with a one-time       *)
(* token; the transfer of the disbursement page; the withdrawal an admin makes *)
(* for a merchant; and a new channel for a BCA account.  The transfer asks     *)
(* when its button is pressed, the others by themselves, less than a second    *)
(* after the last key.                                                        *)
(*                                                                         *)
(* Bank and number are one account here, and a name is that of its owner.    *)
(***************************************************************************)
EXTENDS Naturals, FiniteSets

CONSTANTS
  Forms,     \* of "withdrawal", "transfer", "admin" and "channel", those checked
  Targets,   \* bank accounts
  Nobody,    \* no account
  MaxTokens  \* bound: tokens the API issues

VARIABLES
  kind,     \* the form at hand
  form,     \* what is typed, and what the form believes of it
  timer,    \* the account a check waits for
  checks,   \* checks under way
  token,    \* the token of the form
  issued,   \* the newest the API has issued, and whether it is spent
  asks,     \* tokens issued and not arrived yet
  post,     \* the submission under way
  stray,    \* an answer about another account than the typed one arrived (history)
  lost      \* a token was lost, or arrived after a newer one (history)

vars == <<kind, form, timer, checks, token, issued, asks, post, stray, lost>>

Empty == [shown |-> TRUE, account |-> Nobody, name |-> Nobody, checked |-> "no", checking |-> FALSE]
NoPost == [at |-> "idle", account |-> Nobody, name |-> Nobody, stray |-> FALSE, token |-> 0]

Init ==
  /\ kind \in Forms
  /\ form = [Empty EXCEPT !.shown = (kind = "transfer")]
  /\ timer = Nobody /\ checks = {}
  /\ token = 0 /\ issued = [n |-> 0, spent |-> TRUE] /\ asks = {}
  /\ post = NoPost /\ stray = FALSE /\ lost = FALSE

tokens == <<token, issued, asks, lost>>
HasToken == kind = "withdrawal"

(***************************************************************************)
(* The dialog and its token                                                *)
(***************************************************************************)

\* POST /withdrawals/intent replaces the token before.
Asks ==
  /\ issued.n < MaxTokens
  /\ issued' = [n |-> issued.n + 1, spent |-> FALSE] /\ asks' = asks \cup {issued.n + 1}
  /\ UNCHANGED lost

Opens ==
  /\ kind # "transfer" /\ ~ form.shown
  /\ form' = IF kind = "admin" THEN Empty ELSE [form EXCEPT !.shown = TRUE, !.checked = "no"]
  /\ IF HasToken THEN token' = 0 /\ Asks ELSE UNCHANGED tokens
  /\ UNCHANGED <<kind, timer, checks, post, stray>>

\* Checks and tokens under way go on, and the timer of the merchant's withdrawal.
Closed == [Empty EXCEPT !.shown = FALSE, !.checking = form.checking]
Stopped == IF kind \in {"admin", "channel"} THEN Nobody ELSE timer

\* By a click beside it, while it is being sent too.
Closes ==
  /\ kind # "transfer" /\ form.shown
  /\ form' = Closed /\ token' = 0 /\ timer' = Stopped
  /\ UNCHANGED <<kind, checks, issued, asks, post, stray, lost>>

\* Every four minutes, unseen.
Refreshes ==
  /\ HasToken /\ form.shown /\ Asks
  /\ UNCHANGED <<kind, form, timer, checks, token, post, stray>>

TokenArrives(n) ==
  /\ n \in asks /\ asks' = asks \ {n}
  /\ token' = n /\ lost' = (lost \/ n # issued.n)
  /\ UNCHANGED <<kind, form, timer, checks, issued, post, stray>>

\* A dialog that waits for its first is closed again.
TokenLost(n) ==
  /\ n \in asks /\ asks' = asks \ {n} /\ lost' = TRUE
  /\ form' \in {form, IF token = 0 THEN [form EXCEPT !.shown = FALSE] ELSE form}
  /\ UNCHANGED <<kind, timer, checks, token, issued, post, stray>>

\* Five minutes.
TokenExpires ==
  /\ ~ issued.spent /\ issued' = [issued EXCEPT !.spent = TRUE]
  /\ UNCHANGED <<kind, form, timer, checks, token, asks, post, stray, lost>>

(***************************************************************************)
(* The account and the name of its owner                                   *)
(***************************************************************************)

\* The name typed before stays.
Edited_KeepsName(a) == [form EXCEPT !.account = a]

\* The name goes; that of the admin's form stays until the next answer.
Edited(a) ==
  IF kind = "admin" /\ a # Nobody THEN [form EXCEPT !.account = a]
  ELSE [form EXCEPT !.account = a, !.name = Nobody, !.checked = "no"]

\* Each key puts the check off that waits.
Types(a) ==
  /\ form.shown /\ a # form.account
  /\ form' = Edited(a)
  /\ timer' = IF kind = "transfer" THEN Nobody ELSE a
  /\ stray' = FALSE
  /\ UNCHANGED <<kind, checks, post, tokens>>

Checking(a) ==
  /\ checks' = checks \cup {a}
  /\ form' = [form EXCEPT !.checked = "no", !.checking = TRUE]

\* Even if the dialog has been closed.
TimerFires ==
  /\ timer # Nobody /\ timer' = Nobody /\ Checking(timer)
  /\ UNCHANGED <<kind, post, stray, tokens>>

PressesCheck ==
  /\ kind = "transfer" /\ form.account # Nobody /\ ~ form.checking /\ Checking(form.account)
  /\ UNCHANGED <<kind, timer, post, stray, tokens>>

\* Flip, or Redis for five minutes after: the answer is taken for the account
\* that is typed by then.
Answered(a) ==
  /\ a \in checks /\ checks' = checks \ {a}
  /\ stray' = (stray \/ a # form.account)
  /\ \/ form' = [form EXCEPT !.name = a, !.checked = "yes", !.checking = FALSE]
     \/ form' = IF kind = "transfer" THEN [form EXCEPT !.checking = FALSE]
                ELSE [form EXCEPT !.name = Nobody, !.checked = "error", !.checking = FALSE]
  /\ UNCHANGED <<kind, timer, post, tokens>>

(***************************************************************************)
(* The form is sent                                                        *)
(***************************************************************************)
Submittable ==
  /\ form.shown /\ form.account # Nobody /\ form.name # Nobody
  /\ kind = "withdrawal" => token # 0 /\ form.checked = "yes" /\ ~ form.checking
  /\ kind = "admin" => form.checked # "error" /\ ~ form.checking

\* An account has been typed that the admin's form has not asked about yet.
Hasty == kind = "admin" /\ timer # Nobody

Submits ==
  /\ post.at = "idle" /\ Submittable
  /\ post' = [at |-> "sent", account |-> form.account, name |-> form.name,
             stray |-> stray \/ Hasty, token |-> token]
  /\ UNCHANGED <<kind, form, timer, checks, stray, tokens>>

\* The API takes the newest token once.
Accepts ==
  /\ post.at = "sent"
  /\ IF HasToken /\ (issued.spent \/ post.token # issued.n)
       THEN post' = [post EXCEPT !.at = "stale"] /\ UNCHANGED issued
       ELSE /\ post' \in {[post EXCEPT !.at = "accepted"], [post EXCEPT !.at = "refused"]}
            /\ issued' \in {issued, [issued EXCEPT !.spent = TRUE]}
            /\ post'.at = "accepted" /\ HasToken => issued'.spent
  /\ UNCHANGED <<kind, form, timer, checks, token, asks, stray, lost>>

Succeeds ==
  /\ post.at = "accepted" /\ post' = NoPost
  /\ form' = IF kind = "transfer" THEN [Empty EXCEPT !.checking = form.checking] ELSE Closed
  /\ token' = 0 /\ timer' = Stopped
  /\ UNCHANGED <<kind, checks, issued, asks, stray, lost>>

\* A token that is no longer good is replaced, and the customer presses again.
Renews ==
  /\ post.at = "stale" /\ post' = NoPost /\ token' = 0 /\ Asks
  /\ UNCHANGED <<kind, form, timer, checks, stray>>

\* A wrong password leaves the form; a lock, or a limit that is reached, closes it;
\* and the answer may be lost.
Refused ==
  /\ post.at \in {"sent", "accepted", "refused"} /\ post' = NoPost
  /\ \/ UNCHANGED <<form, timer, token>>
     \/ kind \in {"withdrawal", "channel"} /\ form' = Closed /\ token' = 0 /\ timer' = Stopped
  /\ UNCHANGED <<kind, checks, issued, asks, stray, lost>>

Next ==
  \/ Opens \/ Closes \/ Refreshes \/ TokenExpires
  \/ \E n \in asks : TokenArrives(n) \/ TokenLost(n)
  \/ \E a \in Targets \cup {Nobody} : Types(a)
  \/ TimerFires \/ PressesCheck
  \/ \E a \in checks : Answered(a)
  \/ Submits \/ Accepts \/ Succeeds \/ Renews \/ Refused

Spec == Init /\ [][Next]_vars

(***************************************************************************)
(* Properties                                                              *)
(***************************************************************************)

\* Money is sent to an account with the name of its owner, unless an answer
\* about an account typed before arrived meanwhile, or the admin pressed before the
\* form had asked.
SentToOwner == post.name = post.account \/ post.stray

\* A form that waits for nothing holds a token the API takes, or has taken, or
\* lets expire; unless a token was lost on its way.
TokenIsNewest ==
  HasToken /\ form.shown /\ asks = {} /\ ~ lost => token = issued.n

FormIsSound == SentToOwner /\ TokenIsNewest

\* 'Nama Penerima - hanya muncul setelah verifikasi sukses', with 'Terverifikasi'
\* below it (balance/page.js:595, 604): the name that is shown as verified is that of
\* the typed account.  It does not hold: Answered, and Edited of the admin's form.
VerifiedIsOwner ==
  form.shown /\ form.checked = "yes" /\ form.account # Nobody => form.name = form.account

=============================================================================
