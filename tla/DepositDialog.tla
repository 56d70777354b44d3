--------------------------- MODULE DepositDialog ---------------------------
(***************************************************************************)
(* Two dialogs that top up an account at Flip: the client's disbursement       *)
(* account ("deposit") and the provider's own ("topup").  A dialog asks the    *)
(* API for a deposit, shows what to transfer, lets it be confirmed (the        *)
(* client's: or cancelled) and polls until it is done.  The component stays     *)
(* mounted while it is closed: requests and intervals go on.  The handlers of   *)
(* the API, and Flip behind them, are in Deposit; here each is one step.       *)
(***************************************************************************)
EXTENDS Naturals, FiniteSets

CONSTANTS
  Dialogs,   \* of "deposit" and "topup", those checked
  Deposits,  \* 1 .. n, in the order in which they are created
  NoDeposit, \* 0
  MaxAnswers \* bound: polls under way

VARIABLES
  kind,     \* the dialog at hand
  row,      \* deposits at the API and Flip
  dialog,   \* what is shown: the deposit acted upon, and that of the transfer details
  calls,    \* requests of its buttons
  polls,    \* deposits an interval polls for
  interval, \* the one the component remembers
  cleanup,  \* the one that is cleared when the dialog next opens or closes
  answers,  \* answers to polls on their way
  crossed   \* a poll has outlived the form it was started from (history)

vars == <<kind, row, dialog, calls, polls, interval, cleanup, answers, crossed>>

Shut == [open |-> FALSE, step |-> "form", id |-> NoDeposit, details |-> NoDeposit,
         loading |-> FALSE, cancelling |-> FALSE]

Init ==
  /\ kind \in Dialogs
  /\ row = [d \in Deposits |-> "none"]
  /\ dialog = Shut /\ calls = {}
  /\ polls = {} /\ interval = NoDeposit /\ cleanup = NoDeposit
  /\ answers = {} /\ crossed = FALSE

polling == <<polls, interval, cleanup, answers>>

(***************************************************************************)
(* Opened and closed                                                       *)
(***************************************************************************)
Earlier(requests) == {[r EXCEPT !.late = TRUE] : r \in requests}

Cleared_Never == polls
Cleared == polls \ {cleanup}

\* The effect on `open`: the interval remembered at this render is the one that the
\* next change clears.
Toggled ==
  /\ polls' = Cleared /\ cleanup' = interval
  /\ calls' = Earlier(calls) /\ answers' = Earlier(answers)
  /\ UNCHANGED <<kind, row, interval>>

Opens ==
  /\ ~ dialog.open
  /\ dialog' = [Shut EXCEPT !.open = TRUE, !.loading = dialog.loading]
  /\ Toggled /\ UNCHANGED crossed

\* The provider's begins again when the amount proposed or the list of banks changes,
\* as it does after each success; an interval started since it was opened goes on.
Resets ==
  /\ kind = "topup" /\ dialog.open
  /\ dialog' = [Shut EXCEPT !.open = TRUE, !.loading = dialog.loading]
  /\ Toggled /\ crossed' = (crossed \/ polls' # {})

Closes ==
  /\ dialog.open /\ dialog' = [dialog EXCEPT !.open = FALSE]
  /\ Toggled /\ UNCHANGED crossed

(***************************************************************************)
(* Its three buttons                                                       *)
(***************************************************************************)
Sends(op, id) == calls' = calls \cup {[op |-> op, id |-> id, at |-> "sent", late |-> FALSE]}

PressesCreate ==
  /\ dialog.open /\ dialog.step = "form" /\ ~ dialog.loading
  /\ dialog' = [dialog EXCEPT !.loading = TRUE]
  /\ Sends("create", NoDeposit)
  /\ UNCHANGED <<kind, row, crossed, polling>>

PressesConfirm ==
  /\ dialog.open /\ dialog.step = "transferring" /\ ~ dialog.loading
  /\ dialog' = [dialog EXCEPT !.loading = TRUE]
  /\ Sends("confirm", dialog.id)
  /\ UNCHANGED <<kind, row, crossed, polling>>

PressesCancel ==
  /\ kind = "deposit" /\ dialog.open /\ dialog.step = "transferring" /\ ~ dialog.cancelling
  /\ dialog' = [dialog EXCEPT !.cancelling = TRUE]
  /\ Sends("cancel", dialog.id)
  /\ UNCHANGED <<kind, row, crossed, polling>>

Becomes(c, at, id) == calls' = (calls \ {c}) \cup {[c EXCEPT !.at = at, !.id = id]}

Active == {d \in Deposits : row[d] \in {"pending", "confirmed"}}
Unused == {d \in Deposits : row[d] = "none"}
NewestOf(ds, d) == d \in ds /\ \A e \in ds : e <= d
OldestOf(ds, d) == d \in ds /\ \A e \in ds : d <= e

\* The client's active deposit is resumed, confirmed or not; one of two hours ago is
\* over.  The provider's is a new one each time.
Resumed == IF kind = "deposit" THEN Active ELSE {}

Creates(c) ==
  /\ c \in calls /\ c.op = "create" /\ c.at = "sent"
  /\ \E d \in Deposits :
       /\ Becomes(c, "done", d)
       /\ \/ NewestOf(Resumed, d) /\ UNCHANGED row
          \/ /\ OldestOf(Unused, d)
             /\ row' = [e \in Deposits |-> IF NewestOf(Resumed, e) THEN "expired"
                                           ELSE IF e = d THEN "pending" ELSE row[e]]
  /\ UNCHANGED <<kind, dialog, crossed, polling>>

Confirms(c) ==
  /\ c \in calls /\ c.op = "confirm" /\ c.at = "sent" /\ row[c.id] = "pending"
  /\ row' = [row EXCEPT ![c.id] = "confirmed"] /\ Becomes(c, "done", c.id)
  /\ UNCHANGED <<kind, dialog, crossed, polling>>

Cancels(c) ==
  /\ c \in calls /\ c.op = "cancel" /\ c.at = "sent" /\ c.id \in Active
  /\ row' = [row EXCEPT ![c.id] = "expired"] /\ Becomes(c, "done", c.id)
  /\ UNCHANGED <<kind, dialog, crossed, polling>>

\* An error is shown; the request, or its answer, may also be lost.
Failed(c) ==
  /\ c \in calls /\ calls' = calls \ {c}
  /\ dialog' = IF c.op = "cancel" THEN [dialog EXCEPT !.cancelling = FALSE]
                                  ELSE [dialog EXCEPT !.loading = FALSE]
  /\ UNCHANGED <<kind, row, crossed, polling>>

Created(c) ==
  /\ c \in calls /\ c.op = "create" /\ c.at = "done" /\ calls' = calls \ {c}
  /\ dialog' = [dialog EXCEPT !.step = "transferring", !.id = c.id, !.details = c.id, !.loading = FALSE]
  /\ UNCHANGED <<kind, row, crossed, polling>>

Confirmed(c) ==
  /\ c \in calls /\ c.op = "confirm" /\ c.at = "done" /\ calls' = calls \ {c}
  /\ dialog' = [dialog EXCEPT !.step = "polling", !.loading = FALSE]
  /\ polls' = polls \cup {c.id} /\ interval' = c.id
  /\ crossed' = (crossed \/ c.late)
  /\ UNCHANGED <<kind, row, cleanup, answers>>

Cancelled(c) ==
  /\ c \in calls /\ c.op = "cancel" /\ c.at = "done" /\ calls' = calls \ {c}
  /\ dialog' = [dialog EXCEPT !.step = "form", !.id = NoDeposit, !.details = NoDeposit,
                              !.cancelling = FALSE]
  /\ crossed' = (crossed \/ dialog.step # "transferring")
  /\ UNCHANGED <<kind, row, polling>>

(***************************************************************************)
(* The polls                                                               *)
(***************************************************************************)

\* The API reads the deposit, and credits one that Flip calls done.
Polls(d) ==
  /\ d \in polls /\ Cardinality(answers) < MaxAnswers
  /\ \/ UNCHANGED row
     \/ row[d] = "confirmed" /\ row' = [row EXCEPT ![d] = "done"]
  /\ answers' = answers \cup {[id |-> d, status |-> row'[d], late |-> FALSE]}
  /\ UNCHANGED <<kind, dialog, calls, polls, interval, cleanup, crossed>>

Ends_AnyFinal(status) == status \in {"done", "expired"}
Ends(status) == status = "done"

\* The answer is merged into what is shown: that of the provider has all the details.
PollAnswered(a) ==
  /\ a \in answers /\ answers' = answers \ {a}
  /\ dialog' = [dialog EXCEPT !.id = a.id,
                              !.details = IF kind = "topup" THEN a.id ELSE @,
                              !.step = IF Ends(a.status) THEN "done" ELSE @]
  /\ IF Ends(a.status) THEN polls' = polls \ {a.id} /\ interval' = NoDeposit
                       ELSE UNCHANGED <<kind, polls, interval>>
  /\ crossed' = (crossed \/ a.late)
  /\ UNCHANGED <<kind, row, calls, cleanup>>

PollLost(a) ==
  /\ a \in answers /\ answers' = answers \ {a}
  /\ UNCHANGED <<kind, row, dialog, calls, polls, interval, cleanup, crossed>>

\* After 60 polls.
PollsEnd(d) ==
  /\ d \in polls /\ polls' = polls \ {d} /\ interval' = NoDeposit
  /\ UNCHANGED <<kind, row, dialog, calls, cleanup, answers, crossed>>

\* A worker, or Flip itself.
Elsewhere(d) ==
  /\ row[d] = "confirmed" /\ row' \in {[row EXCEPT ![d] = s] : s \in {"done", "expired"}}
  /\ UNCHANGED <<kind, dialog, calls, crossed, polling>>

Next ==
  \/ Opens \/ Resets \/ Closes \/ PressesCreate \/ PressesConfirm \/ PressesCancel
  \/ \E c \in calls :
       Creates(c) \/ Confirms(c) \/ Cancels(c) \/ Failed(c)
       \/ Created(c) \/ Confirmed(c) \/ Cancelled(c)
  \/ \E d \in Deposits : Polls(d) \/ PollsEnd(d) \/ Elsewhere(d)
  \/ \E a \in answers : PollAnswered(a) \/ PollLost(a)

Spec == Init /\ [][Next]_vars

(***************************************************************************)
(* Properties                                                              *)
(***************************************************************************)

\* 'Deposit Berhasil! Saldo bertambah' is said of a deposit that was credited.
DoneIsCredited == dialog.step = "done" => row[dialog.id] = "done"

\* The total to transfer, and the buttons under it, are those of one deposit: two that
\* are mixed ask for the amount of one with the code of the other.
TransferIsOfOne == dialog.step = "transferring" => dialog.id = dialog.details

\* What the open dialog tells is so, unless a poll goes on for another: after a
\* confirmation, or a poll, of an earlier opening came in; after a deposit was
\* cancelled while its confirmation was under way; after the form began again.
DialogTells == dialog.open /\ ~ crossed => DoneIsCredited /\ TransferIsOfOne

=============================================================================
