----------------------------- MODULE BankSession -----------------------------
(***************************************************************************)
(* Sessions at a bank that the scrapers keep in Redis: GoPay and BRI, which *)
(* call the bank's API with a token, and QRIS BCA, which restores the       *)
(* token into a page.  A scrape takes the kept token or types the password, *)
(* asks for today's rows, and tries three times in all.  The owner replaces *)
(* the credentials and the scheduler then ends the session.                 *)
(***************************************************************************)
EXTENDS Naturals, Sequences

CONSTANTS
  Kinds,        \* channel types checked, of gopay, bri and qris_bca
  Runs,         \* scrapes and test logins under way together
  MaxTokens,    \* bound: logins and refreshes
  NoSession

VARIABLES
  kind,     \* type of the one channel
  kept,     \* the Redis key of the channel, and that of its test logins
  page,     \* QRIS BCA: the token in the browser's page, 0 if none
  loggedIn, \* QRIS BCA: what the pool passes to the next scrape
  config,   \* version of the channel's credentials
  command,  \* clean_browser waits for the scheduler
  owner,    \* owner[t]: the credentials token t was issued for
  dead,     \* tokens the bank no longer takes
  run,
  told, overlapped, late  \* history, see the properties

vars == <<kind, kept, page, loggedIn, config, command, owner, dead, run,
          told, overlapped, late>>
channel == <<kind, config, command>>
history == <<told, overlapped, late>>

MaxRetries == 3
Keys == {"channel", "test"}
Api == {"gopay", "bri"}
Idle == [pc |-> "idle", key |-> "channel", try |-> 0, config |-> 0, token |-> 0,
         merchant |-> FALSE, again |-> FALSE]

Init ==
  /\ kind \in Kinds
  /\ kept = [k \in Keys |-> NoSession] /\ page = 0 /\ loggedIn = FALSE
  /\ config = 1 /\ command = FALSE /\ owner = <<>> /\ dead = {}
  /\ run = [r \in Runs |-> Idle]
  /\ told = {} /\ overlapped = FALSE /\ late = FALSE

Active(k) == {r \in Runs : run[r].pc # "idle" /\ run[r].key = k}
Session(t, merchant) == [token |-> t, merchant |-> merchant]
Alive(t) == t # 0 /\ t \notin dead
New == Len(owner) + 1
Keeps(r, s) == kept' = [kept EXCEPT ![run[r].key] = s]
Goes(r, changed) == run' = [run EXCEPT ![r] = changed]
To(r, pc) == [run[r] EXCEPT !.pc = pc]

Ends(r) == Goes(r, Idle)
MoreTries(r) == run[r].try < MaxRetries - 1
Again(r, pc) == [run[r] EXCEPT !.try = @ + 1, !.pc = pc, !.again = FALSE]
Retries(r, pc) == IF MoreTries(r) THEN Goes(r, Again(r, pc)) ELSE Ends(r)

(***************************************************************************)
(* A job of the channel, or a test login with a key of its own              *)
(***************************************************************************)

\* Jobs of one channel may overlap when they pile up; the scheduler runs one test
\* login at a time, and a page serves one job.
Begins(r, k) ==
  /\ run[r].pc = "idle" /\ (k = "test" => Active("test") = {})
  /\ kind = "qris_bca" => k = "channel" /\ Active(k) = {}
  /\ Goes(r, [Idle EXCEPT !.key = k, !.config = config,
                          !.pc = IF kind \in Api THEN "load"
                                 ELSE IF loggedIn THEN "home" ELSE "restore"])
  /\ overlapped' = (overlapped \/ Active(k) # {})
  /\ UNCHANGED <<channel, kept, page, loggedIn, owner, dead, told, late>>

\* GoPay looks the merchant up once per token.  BRI keeps no cookies, so its
\* check of a kept token never runs, and the session is written back as it was.
LoadsKept(r) ==
  LET s == kept[run[r].key] IN
    /\ run[r].pc = "load"
    /\ IF s = NoSession
         THEN Goes(r, To(r, "login"))
         ELSE Goes(r, [run[r] EXCEPT !.token = s.token, !.merchant = s.merchant,
                         !.pc = IF kind = "bri" THEN "saves"
                                ELSE IF s.merchant THEN "fetch" ELSE "validate"])
    /\ UNCHANGED <<channel, kept, page, loggedIn, owner, dead, history>>

\* The bank's refusal of the token a scrape holds.
Refused(r) == told' = told \cup {run[r].token}

Validates(r) ==
  LET t == run[r].token IN
    /\ run[r].pc = "validate"
    /\ IF Alive(t)
         THEN /\ Keeps(r, Session(t, TRUE)) /\ Goes(r, To(r, "fetch"))
              /\ UNCHANGED told
         ELSE /\ Keeps(r, NoSession) /\ Goes(r, To(r, "login"))
              /\ Refused(r)
    /\ UNCHANGED <<channel, page, loggedIn, owner, dead, overlapped, late>>

\* GoPay keeps the token before it knows the merchant; a login that follows a
\* refusal begins the next attempt.
LogsIn(r) ==
  /\ run[r].pc = "login" /\ Len(owner) < MaxTokens
  /\ owner' = Append(owner, run[r].config)
  /\ IF kind = "gopay" THEN Keeps(r, Session(New, FALSE)) ELSE UNCHANGED kept
  /\ Goes(r, IF run[r].again THEN Again(r, "load")
                             ELSE [run[r] EXCEPT !.token = New, !.pc = "config"])
  /\ UNCHANGED <<channel, page, loggedIn, dead, history>>

\* A wrong password, or any answer but a token, ends the scrape.
LoginRefused(r) ==
  /\ run[r].pc = "login"
  /\ Ends(r)
  /\ UNCHANGED <<channel, kept, page, loggedIn, owner, dead, history>>

\* users/config, or inquiryUser, which takes an answer it cannot read for a
\* valid token without a merchant.  GoPay leaves a refused token where it is.
LearnsMerchant(r) ==
  /\ run[r].pc = "config"
  /\ IF Alive(run[r].token)
       THEN /\ \/ Goes(r, [run[r] EXCEPT !.merchant = TRUE,
                                         !.pc = IF kind = "bri" THEN "saves" ELSE "fetch"])
               \/ kind = "bri" /\ Goes(r, To(r, "saves"))
            /\ IF kind = "gopay" THEN Keeps(r, Session(run[r].token, TRUE)) ELSE UNCHANGED kept
            /\ UNCHANGED told
       ELSE /\ Ends(r)
            /\ IF kind = "bri" THEN Keeps(r, NoSession) /\ Refused(r)
                               ELSE UNCHANGED <<kept, told>>
  /\ UNCHANGED <<channel, page, loggedIn, owner, dead, overlapped, late>>

SavesSession(r) ==
  /\ run[r].pc = "saves"
  /\ Keeps(r, Session(run[r].token, run[r].merchant))
  /\ IF run[r].merchant THEN Goes(r, To(r, "fetch")) ELSE Ends(r)
  /\ UNCHANGED <<channel, page, loggedIn, owner, dead, history>>

\* A refused token that stays in Redis.
Dropped_Kept(r) == kept

Dropped(r) == [kept EXCEPT ![run[r].key] = NoSession]

\* The rows of today, or a refusal: GoPay logs in at once, BRI starts over.  On
\* the last attempt the refused token stays.
Fetches(r) ==
  /\ run[r].pc = "fetch"
  /\ IF Alive(run[r].token)
       THEN Ends(r) /\ UNCHANGED <<kept, told>>
       ELSE IF MoreTries(r)
         THEN /\ kept' = Dropped(r) /\ Refused(r)
              /\ Goes(r, IF kind = "gopay" THEN [To(r, "login") EXCEPT !.again = TRUE]
                                           ELSE Again(r, "load"))
         ELSE Ends(r) /\ UNCHANGED <<kept, told>>
  /\ UNCHANGED <<channel, page, loggedIn, owner, dead, overlapped, late>>

\* The bank cannot be reached or answers with an error.
Throws(r) ==
  /\ run[r].pc \in {"validate", "login", "config", "fetch"}
  /\ Retries(r, "load")
  /\ UNCHANGED <<channel, kept, page, loggedIn, owner, dead, history>>

(***************************************************************************)
(* QRIS BCA: restore, home page, password; then the rows of the page        *)
(***************************************************************************)
Leaves(r, flag) == Ends(r) /\ loggedIn' = flag

\* Logged in again after a refusal, the next attempt goes on from there.
Entered(r) == Goes(r, IF run[r].again THEN Again(r, "home") ELSE To(r, "home"))

\* A kept session that does not show the table in time is deleted; if the
\* restore itself fails, it is not.
Restores(r) ==
  LET s == kept["channel"] IN
    /\ run[r].pc = "restore"
    /\ \/ /\ s = NoSession
          /\ Goes(r, To(r, "checks")) /\ UNCHANGED <<kept, page, told>>
       \/ /\ s # NoSession /\ Alive(s.token)
          /\ page' = s.token /\ Entered(r) /\ UNCHANGED <<kept, told>>
       \/ /\ s # NoSession
          /\ page' = s.token /\ Keeps(r, NoSession) /\ Goes(r, To(r, "checks"))
          /\ told' = IF Alive(s.token) THEN told ELSE told \cup {s.token}
       \/ /\ s # NoSession
          /\ Goes(r, To(r, "checks")) /\ UNCHANGED <<kept, page, told>>
    /\ UNCHANGED <<channel, loggedIn, owner, dead, overlapped, late>>

ChecksHome(r) ==
  /\ run[r].pc = "checks"
  /\ \/ Alive(page) /\ Entered(r)
     \/ Goes(r, To(r, "form"))
  /\ UNCHANGED <<channel, kept, page, loggedIn, owner, dead, history>>

TypesPassword(r) ==
  /\ run[r].pc = "form" /\ Len(owner) < MaxTokens
  /\ owner' = Append(owner, run[r].config)
  /\ page' = New /\ Keeps(r, Session(New, TRUE)) /\ Entered(r)
  /\ UNCHANGED <<channel, loggedIn, dead, history>>

\* Refused: the channel is switched off and the session deleted; or no answer in
\* twenty seconds, and nothing is deleted.
TypingFails(r) ==
  /\ run[r].pc = "form"
  /\ \/ Keeps(r, NoSession)
     \/ UNCHANGED kept
  /\ Leaves(r, FALSE)
  /\ UNCHANGED <<channel, page, owner, dead, history>>

\* The home page comes up, whatever the token is worth, or does not.
SeesHome(r) ==
  /\ run[r].pc = "home"
  /\ \/ page # 0 /\ Goes(r, To(r, "dates")) /\ UNCHANGED loggedIn
     \/ MoreTries(r) /\ Goes(r, Again(r, "restore")) /\ UNCHANGED loggedIn
     \/ ~ MoreTries(r) /\ Leaves(r, FALSE)
  /\ UNCHANGED <<channel, kept, page, owner, dead, history>>

\* The page exchanges its token on its own; the copy for Redis is due half a
\* second later and dropped when the scrape ends before.
PageRefreshes(r) ==
  /\ run[r].pc = "dates" /\ Alive(page) /\ Len(owner) < MaxTokens
  /\ owner' = Append(owner, owner[page])
  /\ dead' \in {dead, dead \cup {page}}
  /\ page' = New
  /\ Keeps(r, Session(New, TRUE)) \/ UNCHANGED kept
  /\ UNCHANGED <<channel, loggedIn, run, history>>

\* All rows are scrolled into view, or the day has none.
RowsRead(r) == Leaves(r, TRUE) /\ UNCHANGED <<kept, told>>

\* The rows cannot be parsed.
RowsUnreadable(r) ==
  /\ Alive(page) /\ MoreTries(r)
  /\ Goes(r, Again(r, "home")) /\ UNCHANGED <<kept, told, loggedIn>>

\* The password is due; or the bank says that it is wrong, which leaves the
\* kept session where it is.
GrantExpired(r) ==
  /\ ~ Alive(page)
  /\ \/ /\ Keeps(r, NoSession) /\ told' = told \cup {page}
        /\ IF MoreTries(r)
             THEN Goes(r, [To(r, "restore") EXCEPT !.again = TRUE]) /\ UNCHANGED loggedIn
             ELSE Leaves(r, FALSE)
     \/ Leaves(r, FALSE) /\ UNCHANGED <<kept, told>>

\* Today's date is clicked.
ClicksToday(r) ==
  /\ run[r].pc = "dates"
  /\ RowsRead(r) \/ RowsUnreadable(r) \/ GrantExpired(r)
  /\ UNCHANGED <<channel, page, owner, dead, overlapped, late>>

(***************************************************************************)
(* The owner, the scheduler, the bank                                      *)
(***************************************************************************)
ReplacesCredentials ==
  /\ config = 1 /\ config' = 2 /\ command' = TRUE
  /\ UNCHANGED <<kind, kept, page, loggedIn, owner, dead, run, history>>

LoggedOut == [kept EXCEPT !["channel"] = NoSession]

\* clean_browser.  GoPay and BRI lose the kept token, which stays good at the
\* bank: logoutGopay is called without it.  QRIS BCA loses the browser, under
\* the scrape that uses it, and the kept session stays.
LogsOut ==
  /\ command /\ command' = FALSE /\ Active("test") = {}
  /\ IF kind \in Api
       THEN /\ kept' = LoggedOut /\ late' = (late \/ Active("channel") # {})
            /\ UNCHANGED <<page, loggedIn, run>>
       ELSE /\ page' = 0 /\ loggedIn' = FALSE /\ run' = [r \in Runs |-> Idle]
            /\ UNCHANGED <<kept, late>>
  /\ UNCHANGED <<kind, config, owner, dead, told, overlapped>>

KeptExpires(k) ==
  /\ kept[k] # NoSession
  /\ kept' = [kept EXCEPT ![k] = NoSession]
  /\ UNCHANGED <<channel, page, loggedIn, owner, dead, run, history>>

BankExpires(t) ==
  /\ dead' = dead \cup {t}
  /\ UNCHANGED <<channel, kept, page, loggedIn, owner, run, history>>

ScraperRestarts ==
  /\ run' = [r \in Runs |-> Idle] /\ page' = 0 /\ loggedIn' = FALSE
  /\ UNCHANGED <<channel, kept, owner, dead, history>>

Next ==
  \/ \E r \in Runs :
       \/ \E k \in Keys : Begins(r, k)
       \/ LoadsKept(r) \/ Validates(r) \/ LogsIn(r) \/ LoginRefused(r) \/ LearnsMerchant(r)
       \/ SavesSession(r) \/ Fetches(r) \/ Throws(r)
       \/ Restores(r) \/ ChecksHome(r) \/ TypesPassword(r) \/ TypingFails(r)
       \/ SeesHome(r) \/ PageRefreshes(r) \/ ClicksToday(r)
  \/ ReplacesCredentials \/ LogsOut \/ ScraperRestarts
  \/ \E k \in Keys : KeptExpires(k)
  \/ \E t \in (1 .. Len(owner)) \ dead : BankExpires(t)

Spec == Init /\ [][Next]_vars

(***************************************************************************)
(* Properties                                                              *)
(***************************************************************************)

\* Once the scheduler has ended the session, so that the next scrape uses the
\* new credentials (channels.js:301), the kept one of GoPay and BRI is of the
\* credentials the channel has now; but for a scrape that was under way at that
\* moment and keeps its own later.  That of QRIS BCA is not: LogsOut.
TokenIsOfConfig ==
  LET s == kept["channel"] IN
    kind \in Api /\ ~ command /\ ~ late /\ s # NoSession => owner[s.token] = config

\* A session the bank has refused to a scrape does not wait in Redis for the
\* next one, unless the refusal came with the last attempt or on a token GoPay
\* had just issued (qrisGopay.js:399, 417), or scrapes of the channel overlapped.
RefusedNotKept ==
  \A k \in Keys : kept[k] # NoSession /\ Active(k) = {} /\ kept[k].token \in told =>
                   overlapped

\* What waits in Redis is worth trying, with the account the channel has now.
KeptIsGood == TokenIsOfConfig /\ RefusedNotKept

=============================================================================
