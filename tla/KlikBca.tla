------------------------------- MODULE KlikBca -------------------------------
(***************************************************************************)
(* Scrapes of one BCA account on the web: the main page stays logged in     *)
(* between scrapes, the statement opens in a second page.  KlikBCA takes    *)
(* one session at a time and ends it after five idle minutes; it refuses a  *)
(* login by a dialog, which the scraper may miss.                           *)
(***************************************************************************)
EXTENDS Naturals

VARIABLES
  right,    \* the bank takes the channel's password
  session,  \* the bank has a session of the account open
  page,     \* the main page: at the login form, at the frames after it, at the menu
  flag,     \* isLoggedIn of the pool
  scrape,   \* the one under way
  dialog,   \* "none", on its "way", "heard" in time, or "late": heard between two attempts
  typed,    \* what dialogs were in when the password was typed, this scrape (history)
  missed,   \* a logout, a check or an answer failed since the session opened (history)
  over      \* the password was typed while a session was open (history)

vars == <<right, session, page, flag, scrape, dialog, typed, missed, over>>

MaxAttempts == 2
MaxLogins == 3
Idle == [pc |-> "idle", attempt |-> 1, try |-> 1, was |-> FALSE, hurt |-> FALSE,
         again |-> FALSE, rows |-> TRUE]

Init ==
  /\ right \in BOOLEAN /\ session = FALSE /\ page = "form" /\ flag = FALSE
  /\ scrape = Idle /\ dialog = "none" /\ typed = {} /\ missed = FALSE /\ over = FALSE

At(pc) == scrape.pc = pc
To(pc) == scrape' = [scrape EXCEPT !.pc = pc]
HurtTo(pc) == scrape' = [scrape EXCEPT !.pc = pc, !.hurt = TRUE]

\* The scrape ends; how it went stays to be read until the next one begins.
Returns(loggedIn, ending) == flag' = loggedIn /\ scrape' = ending
Read == [scrape EXCEPT !.pc = "idle", !.rows = TRUE]
Empty == [scrape EXCEPT !.pc = "idle", !.rows = FALSE]
Hurt == [Empty EXCEPT !.hurt = TRUE]
Errs == Returns(TRUE, Hurt)

Begins ==
  /\ At("idle")
  /\ scrape' = [Idle EXCEPT !.pc = "start", !.was = flag]
  /\ dialog' = "none" /\ typed' = {} /\ over' = FALSE
  /\ UNCHANGED <<right, session, page, flag, missed>>

Shutdown ==
  /\ scrape.pc \in {"start", "type"}
  /\ Returns(FALSE, Hurt)
  /\ UNCHANGED <<right, session, page, dialog, typed, missed, over>>

(***************************************************************************)
(* Logged in or not                                                        *)
(***************************************************************************)

MustLogOut == ~ scrape.was

\* Best effort.
LogOut ==
  \/ session' = FALSE /\ page' = "form" /\ missed' = FALSE
  \/ missed' = TRUE /\ UNCHANGED <<session, page>>

LogsOutFirst ==
  /\ At("start") /\ ~ scrape.was
  /\ IF MustLogOut THEN LogOut ELSE UNCHANGED <<session, page, missed>>
  /\ To("type")
  /\ UNCHANGED <<right, flag, dialog, typed, over>>

\* The menu is opened to see whether the bank redirects; any failure counts as
\* expired, and the password is then typed without a log-out.
ChecksSession ==
  /\ At("start") /\ scrape.was
  /\ \/ page # "form" /\ session /\ page' = "menu" /\ To("link") /\ UNCHANGED missed
     \/ /\ page = "form" \/ ~ session
        /\ page' = "form" /\ scrape' = [scrape EXCEPT !.pc = "type", !.again = TRUE]
        /\ UNCHANGED missed
     \/ page # "form" /\ missed' = TRUE /\ UNCHANGED page /\ HurtTo("type")
  /\ UNCHANGED <<right, session, flag, dialog, typed, over>>

(***************************************************************************)
(* doLogin                                                                 *)
(***************************************************************************)
Typing ==
  /\ typed' = typed \cup {dialog}
  /\ over' = (over \/ (session /\ ~ missed))

AfterLogin == IF scrape.was THEN "link" ELSE "menu"

LetIn ==
  /\ At("type") /\ right
  /\ Typing
  /\ session' = TRUE /\ page' = "frames" /\ missed' = FALSE /\ dialog' = "none"
  /\ To(AfterLogin)
  /\ UNCHANGED <<right, flag>>

\* Refused in the dialog's time: wrong password, lock-out, or another message.
HeardDialog_Retries == To("retry") /\ UNCHANGED flag

HeardDialog == Returns(FALSE, Hurt)

Refused ==
  /\ At("type")
  /\ Typing
  /\ dialog' = "heard" /\ page' = "form" /\ HeardDialog
  /\ UNCHANGED <<right, session, missed>>

\* Two seconds pass: the predicate of waitForURL calls includes of a URL, which
\* has none, and the wait for the page to change ends at once.
NoAnswer ==
  /\ At("type")
  /\ Typing
  /\ session' \in {session, right \/ session} /\ page' = "form"
  /\ missed' = (missed \/ session')
  /\ dialog' \in {"way", "none"}
  /\ HurtTo("retry")
  /\ UNCHANGED <<right, flag>>

\* The login page does not load.
LoginPageFails ==
  /\ At("type") /\ HurtTo("retry")
  /\ UNCHANGED <<right, session, page, flag, dialog, typed, missed, over>>

\* The listener of the last attempt is still there; what it hears is forgotten.
HearsLate ==
  /\ At("retry") /\ dialog = "way" /\ scrape.try < MaxLogins
  /\ dialog' = "late"
  /\ UNCHANGED <<right, session, page, flag, scrape, typed, missed, over>>

\* After the third, an error like any other: the channel counts as logged in.
TriesAgain ==
  /\ At("retry")
  /\ IF scrape.try < MaxLogins
       THEN scrape' = [scrape EXCEPT !.pc = "type", !.try = @ + 1] /\ UNCHANGED flag
       ELSE Errs
  /\ dialog' = IF dialog = "way" THEN "none" ELSE dialog
  /\ UNCHANGED <<right, session, page, typed, missed, over>>

(***************************************************************************)
(* The statement                                                           *)
(***************************************************************************)

\* Only after a login that the pool's flag announced; a redirection to the
\* login page is an error, and no reason to log in again.
OpensMenu ==
  /\ At("menu")
  /\ \/ session /\ page' = "menu" /\ To("link") /\ UNCHANGED flag
     \/ page' = (IF session THEN page ELSE "form") /\ Errs
  /\ UNCHANGED <<right, session, dialog, typed, missed, over>>

\* The link is in the menu; at the frames there is none, and eight seconds pass.
FollowsLink ==
  /\ At("link")
  /\ \/ page = "menu" /\ To("popup") /\ UNCHANGED flag
     \/ page = "menu" /\ Errs
     \/ page # "menu" /\ Returns(TRUE, Empty)
  /\ UNCHANGED <<right, session, page, dialog, typed, missed, over>>

ReadsStatement ==
  /\ At("popup")
  /\ (session /\ Returns(TRUE, Read)) \/ Errs
  /\ UNCHANGED <<right, session, page, dialog, typed, missed, over>>

\* The second page is the login page, or a page was closed: once more from the
\* start, after a log-out.
SessionGone ==
  /\ \/ At("popup") /\ ~ session
     \/ At("link")
     \/ At("retry") /\ scrape.try = MaxLogins
  /\ LogOut
  /\ IF scrape.attempt < MaxAttempts
       THEN /\ scrape' = [scrape EXCEPT !.pc = "start", !.attempt = @ + 1, !.try = 1,
                                        !.was = FALSE, !.again = FALSE]
            /\ UNCHANGED flag
       ELSE Returns(FALSE, Hurt)
  /\ UNCHANGED <<right, dialog, typed, over>>

SessionExpires ==
  /\ session /\ session' = FALSE /\ missed' = FALSE
  /\ UNCHANGED <<right, page, flag, scrape, dialog, typed, over>>

\* The pool opens a new browser, with the cookies that were kept or without.
BrowserReplaced ==
  /\ At("idle") /\ page' = "form" /\ flag' = FALSE
  /\ missed' \in {missed, session}
  /\ UNCHANGED <<right, session, scrape, dialog, typed, over>>

Next ==
  \/ Begins \/ Shutdown \/ LogsOutFirst \/ ChecksSession
  \/ LetIn \/ Refused \/ NoAnswer \/ LoginPageFails \/ HearsLate \/ TriesAgain
  \/ OpensMenu \/ FollowsLink \/ ReadsStatement \/ SessionGone
  \/ SessionExpires \/ BrowserReplaced

Spec == Init /\ [][Next]_vars

(***************************************************************************)
(* Properties                                                              *)
(***************************************************************************)

\* 'NEVER retry on credential/lockout errors' (bcaTransfer.js:268): after a
\* dialog the password is not typed again in the same scrape.  It does not hold:
\* HearsLate.
HeardIsFinal == typed \cap {"heard", "late"} = {}

\* The password is not typed again after a dialog that came in time, nor while
\* the account's session is open, unless the scraper could not know: a log-out,
\* a check or an answer had failed.  KlikBCA answers a second login with a
\* lock-out of five minutes.
PasswordWithCause == "heard" \notin typed /\ ~ over

\* 'If session expired -> re-login on mainPage' (bcaTransfer.js:11): a scrape that
\* nothing went wrong in reads the statement.  It does not hold: FollowsLink.
LoginReadsRows == At("idle") /\ ~ scrape.rows => scrape.hurt

\* What holds: the statement is missed only by a scrape that found the session
\* expired and logged in again.
EmptyIsExplained == At("idle") /\ ~ scrape.rows => scrape.hurt \/ scrape.again

\* A scrape logs in, and reads, for a reason.
ScrapeExplained == PasswordWithCause /\ EmptyIsExplained

=============================================================================
