---------------------------- MODULE PaymentPage ----------------------------
(***************************************************************************)
(* The page on which a customer pays one invoice, with the stream of events *)
(* the API keeps open for it.  The page reads the invoice once; from then on *)
(* it is told by the stream, by its own countdown, and by the answers to its *)
(* two requests, each of which may come late.                               *)
(*                                                                         *)
(* An invoice is open until its deadline: that of the link at first, that of *)
(* the payment window once a method is chosen.  Redis carries what is        *)
(* published to those who listen at that moment, and to no one else.         *)
(***************************************************************************)
EXTENDS Naturals, FiniteSets

CONSTANTS
  Link,     \* the link is good until then
  Window,   \* how long the customer has once a method is chosen
  MaxTime   \* bound: the clock

VARIABLES
  now,
  invoice,   \* its row
  published, \* events the match worker, the merchant or the admin has yet to publish
  page,      \* what the page holds
  choosing,  \* its request to choose a method
  confirming, \* its request "Sudah Saya Bayar"
  stream,    \* its EventSource, with the API's end of it
  event,     \* an event on its way to the page
  was,       \* final statuses the invoice has had (history)
  excuse     \* why the page may be wrong since it was loaded (history)

vars == <<now, invoice, published, page, choosing, confirming, stream, event, was, excuse>>

Final == {"paid", "expired", "cancelled"}
Told == {"paid", "cancelled"}

Off == [at |-> "off", until |-> 0, deaf |-> FALSE]
Idle == [at |-> "idle", until |-> 0, alone |-> FALSE]
Blank == [at |-> "closed", status |-> "none", chosen |-> FALSE, until |-> 0, modal |-> FALSE]

Init ==
  /\ now = 0
  /\ invoice = [status |-> "pending", chosen |-> FALSE, until |-> Link]
  /\ published = {}
  /\ page = Blank /\ choosing = Idle /\ confirming = Idle
  /\ stream = Off /\ event = "none"
  /\ was = {} /\ excuse = {}

Open == invoice.status = "pending" /\ now < invoice.until
Excused(e) == excuse' = excuse \cup {e}

\* The page is gone or the connection is; the handler goes on to its end.
Left(r) == IF r.at = "writing" THEN [r EXCEPT !.alone = TRUE] ELSE Idle

\* The time of an invoice is extended that the page takes to be over.
TooLate == event = "expired" \/ page.status = "expired"
Extended(t) ==
  /\ invoice' = [invoice EXCEPT !.chosen = TRUE, !.until = t]
  /\ excuse' = excuse \cup (IF TooLate THEN {"outdated"} ELSE {})

\* What the page shows: the receipt, the end, the methods, or where to pay.
Screen ==
  IF page.at # "shown" THEN page.at
  ELSE IF page.status \in Final THEN page.status
  ELSE IF ~ page.chosen THEN "methods" ELSE "transfer"

(***************************************************************************)
(* The invoice                                                             *)
(***************************************************************************)
Becomes(s) == invoice' = [invoice EXCEPT !.status = s] /\ was' = was \cup {s}

\* The match worker, the admin, or the merchant.  The event follows.
Settled(s) ==
  /\ invoice.status \in {"pending", "user_confirmed"}
  /\ s = "paid" => invoice.chosen
  /\ Becomes(s) /\ published' = published \cup {s}
  /\ UNCHANGED <<now, page, choosing, confirming, stream, event, excuse>>

\* The sweep of the scheduler, which tells no one.
Lapses ==
  /\ invoice.status \in {"pending", "user_confirmed"} /\ now >= invoice.until
  /\ Becomes("expired")
  /\ UNCHANGED <<now, published, page, choosing, confirming, stream, event, excuse>>

\* The customer chooses in another tab.
ChosenElsewhere ==
  /\ Open /\ ~ invoice.chosen
  /\ Extended(now + Window)
  /\ UNCHANGED <<now, published, page, choosing, confirming, stream, event, was>>

Ticks ==
  /\ now < MaxTime /\ now' = now + 1
  /\ UNCHANGED <<invoice, published, page, choosing, confirming, stream, event, was, excuse>>

(***************************************************************************)
(* The page is loaded                                                      *)
(***************************************************************************)

\* What the invoice is when it is read; it is shown later.
Loads ==
  /\ page' = [at |-> "loading", status |-> invoice.status, chosen |-> invoice.chosen,
              until |-> invoice.until, modal |-> FALSE]
  /\ choosing' = Left(choosing) /\ confirming' = Left(confirming)
  /\ stream' = Off /\ event' = "none"
  /\ excuse' = {}
  /\ UNCHANGED <<now, invoice, published, was>>

\* A stream is opened unless all is over.
Loaded ==
  /\ page.at = "loading"
  /\ page' = [page EXCEPT !.at = "shown"]
  /\ stream' = IF page.status \in Final THEN Off ELSE [Off EXCEPT !.at = "asked"]
  /\ UNCHANGED <<now, invoice, published, choosing, confirming, event, was, excuse>>

LoadFails ==
  /\ page.at = "loading"
  /\ page' = [page EXCEPT !.at = "error"]
  /\ UNCHANGED <<now, invoice, published, choosing, confirming, stream, event, was, excuse>>

\* Five seconds after the receipt the customer is back at the shop.
Redirects ==
  /\ Screen = "paid"
  /\ page' = [page EXCEPT !.at = "left"]
  /\ choosing' = Left(choosing) /\ confirming' = Left(confirming)
  /\ stream' = Off /\ event' = "none"
  /\ UNCHANGED <<now, invoice, published, was, excuse>>

(***************************************************************************)
(* The stream                                                              *)
(***************************************************************************)

\* An answer that is no stream ends the EventSource for good: the page is not
\* told.
Connects ==
  /\ stream.at = "asked"
  /\ \/ /\ invoice.status \in Final
        /\ stream' = Off /\ Excused("missed")
     \/ /\ invoice.status \notin Final
        /\ stream' = [Off EXCEPT !.at = "read", !.until = invoice.until] /\ UNCHANGED excuse
  /\ UNCHANGED <<now, invoice, published, page, choosing, confirming, event, was>>

\* Nothing is heard between the SELECT and this.  Without Redis the stream is
\* open, and deaf until Redis is back.
Subscribes ==
  /\ stream.at = "read"
  /\ \E d \in BOOLEAN : stream' = [stream EXCEPT !.at = "open", !.deaf = d]
  /\ UNCHANGED <<now, invoice, published, page, choosing, confirming, event, was, excuse>>

RedisDrops ==
  /\ stream.at = "open"
  /\ stream' = [stream EXCEPT !.deaf = ~ @]
  /\ UNCHANGED <<now, invoice, published, page, choosing, confirming, event, was, excuse>>

\* The browser asks again; what was on its way is lost.
Breaks ==
  /\ stream.at \in {"asked", "read", "open"}
  /\ stream' = [Off EXCEPT !.at = "asked"]
  /\ event' = "none"
  /\ excuse' = excuse \cup (IF event = "none" THEN {} ELSE {"missed"})
  /\ UNCHANGED <<now, invoice, published, page, choosing, confirming, was>>

\* The API answers with an error: the EventSource is closed for good.
Closes ==
  /\ stream.at = "asked"
  /\ stream' = Off /\ Excused("missed")
  /\ UNCHANGED <<now, invoice, published, page, choosing, confirming, event, was>>

Listening == stream.at = "open" /\ ~ stream.deaf
Waiting == page.at = "loading" \/ stream.at \in {"asked", "read", "open"}

\* The API's end cleans up after an event that is final.
Publishes(s) ==
  /\ s \in published /\ published' = published \ {s}
  /\ IF Listening
       THEN stream' = [stream EXCEPT !.at = "ended"] /\ event' = s /\ UNCHANGED excuse
       ELSE /\ UNCHANGED <<stream, event>>
            /\ excuse' = excuse \cup (IF Waiting THEN {"missed"} ELSE {})
  /\ UNCHANGED <<now, invoice, page, choosing, confirming, was>>

\* The call fails, or the process dies.
NotPublished(s) ==
  /\ s \in published /\ published' = published \ {s}
  /\ Excused("missed")
  /\ UNCHANGED <<now, invoice, page, choosing, confirming, stream, event, was>>

\* The deadline the invoice had when the stream was asked for.
TimesOut ==
  /\ stream.at = "open" /\ now >= stream.until
  /\ stream' = [stream EXCEPT !.at = "ended"] /\ event' = "expired"
  /\ excuse' = excuse \cup {"missed"}
                      \cup (IF stream.until < invoice.until THEN {"outdated"} ELSE {})
  /\ UNCHANGED <<now, invoice, published, page, choosing, confirming, was>>

\* The page closes the stream with it.
Hears ==
  /\ event # "none"
  /\ page' = [page EXCEPT !.status = event] /\ event' = "none" /\ stream' = Off
  /\ UNCHANGED <<now, invoice, published, choosing, confirming, was, excuse>>

(***************************************************************************)
(* The customer chooses a method                                           *)
(***************************************************************************)
Chooses ==
  /\ Screen = "methods" /\ choosing.at = "idle"
  /\ choosing' = [Idle EXCEPT !.at = "sent"]
  /\ UNCHANGED <<now, invoice, published, page, confirming, stream, event, was, excuse>>

\* The method chosen before is answered again.
ChoiceRead ==
  /\ choosing.at = "sent"
  /\ choosing' = CASE ~ Open -> [Idle EXCEPT !.at = "refused"]
                   [] Open /\ invoice.chosen -> [Idle EXCEPT !.at = "chosen", !.until = invoice.until]
                   [] OTHER -> [Idle EXCEPT !.at = "writing", !.until = now + Window]
  /\ UNCHANGED <<now, invoice, published, page, confirming, stream, event, was, excuse>>

ChoiceWritten ==
  /\ choosing.at = "writing"
  /\ Extended(choosing.until)
  /\ choosing' = IF choosing.alone THEN Idle ELSE [choosing EXCEPT !.at = "chosen"]
  /\ UNCHANGED <<now, published, page, confirming, stream, event, was>>

\* The page keeps the deadline it has read.
Chosen_KeepsDeadline == [page EXCEPT !.chosen = TRUE]

Chosen == [page EXCEPT !.chosen = TRUE, !.until = choosing.until]

ChoiceAnswered ==
  /\ choosing.at \in {"chosen", "refused"}
  /\ choosing' = Idle
  /\ page' = IF choosing.at = "chosen" THEN Chosen ELSE page
  /\ UNCHANGED <<now, invoice, published, confirming, stream, event, was, excuse>>

\* No channel, a failing query, or no connection.
ChoiceLost ==
  /\ choosing.at # "idle"
  /\ choosing' \in {Idle, Left(choosing)}
  /\ UNCHANGED <<now, invoice, published, page, confirming, stream, event, was, excuse>>

\* Every second while the place to pay is shown.
CountsDown ==
  /\ Screen = "transfer" /\ now >= page.until
  /\ page' = [page EXCEPT !.status = "expired"]
  /\ UNCHANGED <<now, invoice, published, choosing, confirming, stream, event, was, excuse>>

(***************************************************************************)
(* The customer says it has paid                                           *)
(***************************************************************************)
OpensModal ==
  /\ Screen = "transfer" /\ page.status = "pending" /\ ~ page.modal
  /\ page' = [page EXCEPT !.modal = TRUE]
  /\ UNCHANGED <<now, invoice, published, choosing, confirming, stream, event, was, excuse>>

ClosesModal ==
  /\ Screen = "transfer" /\ page.modal
  /\ page' = [page EXCEPT !.modal = FALSE]
  /\ UNCHANGED <<now, invoice, published, choosing, confirming, stream, event, was, excuse>>

Confirms ==
  /\ Screen = "transfer" /\ page.modal /\ confirming.at = "idle"
  /\ confirming' = [Idle EXCEPT !.at = "sent"]
  /\ UNCHANGED <<now, invoice, published, page, choosing, stream, event, was, excuse>>

\* A confirmed or paid invoice is a success too.
ConfirmRead ==
  /\ confirming.at = "sent"
  /\ confirming' = [Idle EXCEPT !.at =
       CASE invoice.status \in {"user_confirmed", "paid"} -> "done"
         [] Open -> "writing"
         [] OTHER -> "refused"]
  /\ UNCHANGED <<now, invoice, published, page, choosing, stream, event, was, excuse>>

\* Whatever the status has become since.
ConfirmWritten ==
  /\ confirming.at = "writing"
  /\ invoice' = [invoice EXCEPT !.status = "user_confirmed"]
  /\ confirming' = IF confirming.alone THEN Idle ELSE [confirming EXCEPT !.at = "done"]
  /\ UNCHANGED <<now, published, page, choosing, stream, event, was, excuse>>

\* The page starts another stream with each status.
Confirmed_Closes == stream' = Off

\* The stream is not the status's.
Confirmed == UNCHANGED stream

\* The answer's status is not looked at, nor what the page has heard meanwhile.
ConfirmAnswered ==
  /\ confirming.at \in {"done", "refused"}
  /\ confirming' = Idle
  /\ IF confirming.at = "done"
       THEN /\ page' = [page EXCEPT !.status = "user_confirmed", !.modal = FALSE]
            /\ excuse' = excuse \cup (IF page.status \in Final THEN {"confirmed"} ELSE {})
            /\ Confirmed
       ELSE UNCHANGED <<page, excuse, stream>>
  /\ UNCHANGED <<now, invoice, published, choosing, event, was>>

ConfirmLost ==
  /\ confirming.at # "idle"
  /\ confirming' \in {Idle, Left(confirming)}
  /\ UNCHANGED <<now, invoice, published, page, choosing, stream, event, was, excuse>>

Next ==
  \/ \E s \in Told : Settled(s) \/ Publishes(s) \/ NotPublished(s)
  \/ Lapses \/ ChosenElsewhere \/ Ticks
  \/ Loads \/ Loaded \/ LoadFails \/ Redirects
  \/ Connects \/ Subscribes \/ RedisDrops \/ Breaks \/ Closes \/ TimesOut \/ Hears
  \/ Chooses \/ ChoiceRead \/ ChoiceWritten \/ ChoiceAnswered \/ ChoiceLost \/ CountsDown
  \/ OpensModal \/ ClosesModal
  \/ Confirms \/ ConfirmRead \/ ConfirmWritten \/ ConfirmAnswered \/ ConfirmLost

Spec == Init /\ [][Next]_vars

(***************************************************************************)
(* Properties                                                              *)
(***************************************************************************)

\* A customer is shown, or sent back to the shop with, no end the invoice did
\* not have: it was paid or cancelled, or a deadline passed that was its own.
ShownIsTrue ==
  /\ page.status \in Told => page.status \in was
  /\ page.status = "expired" /\ "outdated" \notin excuse =>
       "expired" \in was \/ now >= invoice.until

\* A page that missed nothing and whose confirmation did not come after the
\* event shows how the invoice ended, if it ended once.
EndIsShown ==
  page.at = "shown" /\ invoice.status \in Told /\ was = {invoice.status} /\ excuse = {}
    /\ published = {} /\ event = "none" /\ stream.at \notin {"asked", "read"}
    => page.status = invoice.status

PageTells == ShownIsTrue /\ EndIsShown

\* 'Auto-close saat invoice expired' (pay.js:626): the page says so only of an
\* invoice whose time is over.  It does not hold: TimesOut.
ExpiredIsOver ==
  page.status = "expired" => "expired" \in was \/ now >= invoice.until

\* 'status final' (page.js:426): what a page has shown as final it goes on showing.
\* It does not hold: ConfirmAnswered.
FinalStays ==
  [][page.at = "shown" /\ page'.at = "shown" /\ page.status \in Final => page'.status \in Final]_vars

=============================================================================
