--------------------------- MODULE BrowserSession ---------------------------
(***************************************************************************)
(* Who is signed in, in the tabs of one browser.  The access token lives in *)
(* a tab's memory; the refresh token is a cookie of all tabs, and a flag in *)
(* localStorage says there may be one.  A refused request exchanges the     *)
(* cookie once and is sent again.  An admin may open a tab that acts as a    *)
(* client, with a token of fifteen minutes kept in the tab's sessionStorage.*)
(*                                                                         *)
(* A request carries the token and the cookie of the moment it is sent, and *)
(* its answer sets or clears the cookie when it arrives.                    *)
(***************************************************************************)
EXTENDS Naturals, FiniteSets

CONSTANTS
  Tabs,     \* tabs of one browser
  People,   \* accounts that sign in here
  Admin,    \* the one of them who may act as a client
  Client,   \* whom the admin acts as
  NoOne,    \* none of them
  MaxSignIns \* bound: sign-ins, and tabs opened as the client

VARIABLES
  cookie,     \* account of the refresh token
  hasSession, \* localStorage
  tab,        \* memory and sessionStorage of each tab
  page,       \* the tab's request for data, or for its user
  auth,       \* the tab's sign-in, sign-out or restore
  signIns,
  crossed     \* tabs in which more than one thing happened at once (history)

vars == <<cookie, hasSession, tab, page, auth, signIns, crossed>>

Closed == [open |-> FALSE, viewing |-> FALSE, token |-> NoOne, fresh |-> FALSE, user |-> NoOne]
Idle == [pc |-> "idle", op |-> "data", with |-> NoOne, fresh |-> FALSE, cookie |-> NoOne]

Init ==
  /\ cookie = NoOne /\ hasSession = FALSE
  /\ tab = [t \in Tabs |-> Closed]
  /\ page = [t \in Tabs |-> Idle] /\ auth = [t \in Tabs |-> Idle]
  /\ signIns = 0 /\ crossed = {}

Viewing(t) == tab[t].viewing
Quiet(t) == page[t].pc = "idle" /\ auth[t].pc = "idle"
Others(t) == {u \in Tabs \ {t} : tab[u].open /\ ~ Viewing(u)}

Set(t, changed) == tab' = [tab EXCEPT ![t] = changed]
Holding(t, a) == [tab[t] EXCEPT !.token = a, !.fresh = TRUE]
SignedOut(t) == [tab[t] EXCEPT !.token = NoOne, !.user = NoOne]

Sent(t, op) == [pc |-> "sent", op |-> op, with |-> tab[t].token, fresh |-> tab[t].fresh,
                cookie |-> cookie]
Ask(t, op) == page' = [page EXCEPT ![t] = Sent(t, op)]

(***************************************************************************)
(* A tab is opened or loaded anew                                          *)
(***************************************************************************)

\* The token of sessionStorage first, then the cookie if there may be one.  What
\* was under way in the tab is dropped.
Loads(t, viewing) ==
  /\ tab' = [tab EXCEPT ![t] = [Closed EXCEPT !.open = TRUE, !.viewing = viewing,
               !.token = IF viewing THEN Client ELSE NoOne, !.fresh = viewing]]
  /\ page' = [page EXCEPT ![t] = IF viewing
               THEN [Idle EXCEPT !.pc = "sent", !.op = "me", !.with = Client, !.fresh = TRUE]
               ELSE Idle]
  /\ auth' = [auth EXCEPT ![t] = IF ~ viewing /\ hasSession
               THEN [Idle EXCEPT !.pc = "sent", !.op = "restore", !.cookie = cookie]
               ELSE Idle]
  /\ crossed' = crossed \ {t}
  /\ UNCHANGED <<cookie, hasSession>>

Opens(t) == ~ Viewing(t) /\ Loads(t, FALSE) /\ UNCHANGED signIns

\* The server checked that the client is active; the admin's own is refused.
OpensAsClient(t) ==
  /\ ~ tab[t].open /\ signIns < MaxSignIns
  /\ \E u \in Tabs : tab[u].token = Admin /\ tab[u].fresh /\ ~ Viewing(u)
  /\ Loads(t, TRUE) /\ signIns' = signIns + 1

\* "Keluar", or fifteen minutes after the tab was opened.
ExitsClient(t) ==
  /\ Viewing(t)
  /\ \/ Loads(t, FALSE)
     \/ /\ Set(t, Closed) /\ page' = [page EXCEPT ![t] = Idle]
        /\ auth' = [auth EXCEPT ![t] = Idle] /\ crossed' = crossed \ {t}
        /\ UNCHANGED <<cookie, hasSession>>
  /\ UNCHANGED signIns

(***************************************************************************)
(* Sign-in, sign-out, restore                                              *)
(***************************************************************************)
\* Another tab goes on with an account that is no longer the cookie's.
CookieBecomes(t, a) ==
  /\ cookie' = a
  /\ crossed' = IF a = cookie THEN crossed ELSE crossed \cup Others(t)

Restored(t) ==
  LET c == auth[t].cookie IN
    /\ auth[t].pc = "sent" /\ auth[t].op = "restore"
    /\ auth' = [auth EXCEPT ![t] = Idle]
    /\ \/ /\ c # NoOne
          /\ CookieBecomes(t, c) /\ Set(t, [Holding(t, c) EXCEPT !.user = c])
          /\ UNCHANGED hasSession
       \/ Set(t, SignedOut(t)) /\ hasSession' = FALSE /\ UNCHANGED <<cookie, crossed>>
    /\ UNCHANGED <<page, signIns>>

\* The page to sign in does not send a user on to the dashboard.
MaySignIn_Anyone(t) == page[t].pc = "idle" \/ page[t].op # "me"

\* The form is shut while the last sign-in asks for its user.
MaySignIn(t) == tab[t].user = NoOne /\ (page[t].pc = "idle" \/ page[t].op # "me")

SendsSignIn(t, a) ==
  /\ tab[t].open /\ ~ Viewing(t) /\ auth[t].pc = "idle" /\ MaySignIn(t)
  /\ signIns < MaxSignIns /\ signIns' = signIns + 1
  /\ auth' = [auth EXCEPT ![t] = [Idle EXCEPT !.pc = "sent", !.op = "in", !.with = a]]
  /\ UNCHANGED <<cookie, hasSession, tab, page, crossed>>

\* The user is asked for afterwards.
SignedIn(t) ==
  LET a == auth[t].with IN
    /\ auth[t].pc = "sent" /\ auth[t].op = "in"
    /\ auth' = [auth EXCEPT ![t] = Idle]
    /\ cookie' = a /\ hasSession' = TRUE
    /\ crossed' = (IF a = cookie THEN crossed ELSE crossed \cup Others(t))
                  \cup {u \in {t} : page[t].pc # "idle"}
    /\ Set(t, Holding(t, a))
    /\ page' = [page EXCEPT ![t] = [Idle EXCEPT !.pc = "sent", !.op = "me", !.with = a,
                                    !.fresh = TRUE, !.cookie = a]]
    /\ UNCHANGED signIns

SignInRefused(t) ==
  /\ auth[t].pc = "sent" /\ auth[t].op = "in"
  /\ auth' = [auth EXCEPT ![t] = Idle]
  /\ UNCHANGED <<cookie, hasSession, tab, page, signIns, crossed>>

SendsSignOut(t) ==
  /\ tab[t].user # NoOne /\ auth[t].pc = "idle"
  /\ auth' = [auth EXCEPT ![t] = [Idle EXCEPT !.pc = "sent", !.op = "out"]]
  /\ UNCHANGED <<cookie, hasSession, tab, page, signIns, crossed>>

\* The answer clears the cookie; no answer does not, and the tab forgets all the same.
SignsOut(t) ==
  /\ auth[t].pc = "sent" /\ auth[t].op = "out"
  /\ auth' = [auth EXCEPT ![t] = Idle]
  /\ cookie' \in {NoOne, cookie}
  /\ hasSession' = FALSE /\ Set(t, SignedOut(t))
  /\ crossed' = crossed \cup Others(t) \cup {u \in {t} : page[t].pc # "idle"}
  /\ UNCHANGED <<page, signIns>>

(***************************************************************************)
(* Requests                                                                *)
(***************************************************************************)
Asks(t, op) ==
  /\ tab[t].open /\ page[t].pc = "idle" /\ auth[t].pc = "idle"
  /\ op = "me" => tab[t].user # NoOne
  /\ Ask(t, op)
  /\ UNCHANGED <<cookie, hasSession, tab, auth, signIns, crossed>>

\* setUser with what /auth/me said.
Answered(t) ==
  LET r == page[t] IN
    /\ r.pc \in {"sent", "again"} /\ r.with # NoOne /\ r.fresh
    /\ page' = [page EXCEPT ![t] = Idle]
    /\ Set(t, [tab[t] EXCEPT !.user = IF r.op = "me" THEN r.with ELSE @])
    /\ UNCHANGED <<cookie, hasSession, auth, signIns, crossed>>

\* 401: the cookie is exchanged, whoever it is of.
Refused(t) ==
  /\ page[t].pc = "sent" /\ (page[t].with = NoOne \/ ~ page[t].fresh)
  /\ page' = [page EXCEPT ![t] = [@ EXCEPT !.pc = "refreshing", !.cookie = cookie]]
  /\ UNCHANGED <<cookie, hasSession, tab, auth, signIns, crossed>>

\* A second refusal, or a failure: for the user of the tab that acts as a
\* client, its token is forgotten.
Forgets(t) == Viewing(t) /\ page[t].op = "me" /\ tab[t].user = NoOne

Fails(t) ==
  /\ page[t].pc \in {"sent", "again"}
  /\ page' = [page EXCEPT ![t] = Idle]
  /\ IF Forgets(t) THEN Set(t, [SignedOut(t) EXCEPT !.viewing = FALSE]) ELSE UNCHANGED tab
  /\ UNCHANGED <<cookie, hasSession, auth, signIns, crossed>>

Refreshed(t) ==
  LET c == page[t].cookie IN
    /\ page[t].pc = "refreshing" /\ c # NoOne
    /\ CookieBecomes(t, c) /\ Set(t, Holding(t, c))
    /\ page' = [page EXCEPT ![t] = [@ EXCEPT !.pc = "again", !.with = c, !.fresh = TRUE]]
    /\ UNCHANGED <<hasSession, auth, signIns>>

\* The session has expired: all of the tab is signed out.
NotRefreshed(t) ==
  /\ page[t].pc = "refreshing"
  /\ page' = [page EXCEPT ![t] = Idle]
  /\ hasSession' = FALSE
  /\ Set(t, IF Forgets(t) THEN [SignedOut(t) EXCEPT !.viewing = FALSE] ELSE SignedOut(t))
  /\ UNCHANGED <<cookie, auth, signIns, crossed>>

TokenExpires(t) ==
  /\ tab[t].token # NoOne /\ tab[t].fresh
  /\ Set(t, [tab[t] EXCEPT !.fresh = FALSE])
  /\ UNCHANGED <<cookie, hasSession, page, auth, signIns, crossed>>

CookieExpires ==
  /\ cookie # NoOne /\ cookie' = NoOne
  /\ UNCHANGED <<hasSession, tab, page, auth, signIns, crossed>>

Next ==
  \/ \E t \in Tabs :
       \/ Opens(t) \/ OpensAsClient(t) \/ ExitsClient(t)
       \/ Restored(t) \/ SignedIn(t) \/ SignInRefused(t) \/ SendsSignOut(t) \/ SignsOut(t)
       \/ \E a \in People : SendsSignIn(t, a)
       \/ \E op \in {"data", "me"} : Asks(t, op)
       \/ Answered(t) \/ Refused(t) \/ Fails(t) \/ Refreshed(t) \/ NotRefreshed(t)
       \/ TokenExpires(t)
  \/ CookieExpires

Spec == Init /\ [][Next]_vars

(***************************************************************************)
(* Properties                                                              *)
(***************************************************************************)

\* A tab acts for the account it shows, unless the browser's cookie changed hands
\* under it, a request of an earlier session was still under way at a sign-in or
\* sign-out, or it acts as a client.
ActsAsShown ==
  \A t \in Tabs \ crossed :
    tab[t].user # NoOne /\ tab[t].token # NoOne /\ ~ Viewing(t) => tab[t].token = tab[t].user

=============================================================================
