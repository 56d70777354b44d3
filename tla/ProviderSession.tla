--------------------------- MODULE ProviderSession ---------------------------
(***************************************************************************)
(* The one row of payment_providers that holds the Flip account the        *)
(* gateway pays with: its token, refresh token, user id and PIN.  Nothing   *)
(* locks it.  API calls (paymentProvider.js), the flip worker and the       *)
(* status worker refresh the token when it is due; the admin replaces some  *)
(* of it (PATCH /provider) or logs in to an account by OTP and PIN (the     *)
(* flip-login routes), and links the wallet at Flip (activate-alaflip).     *)
(***************************************************************************)
EXTENDS Naturals, Sequences, FiniteSets

CONSTANTS
  Accounts,      \* Flip accounts an admin may log in to
  FlipWorker,    \* the worker of the flip queue (concurrency 1)
  StatusWorker,  \* the timer that verifies transfers
  Calls,         \* overlapping API calls
  Activation,    \* one admin activation in flight
  Grants,        \* bound: tokens Flip issues
  NoRow, NoOne

VARIABLES
  row,      \* the payment_providers row, or NoRow
  owner,    \* owner[t]: the account Flip issued token t for
  spent,    \* tokens Flip has exchanged for a newer one
  call,     \* the read, token and PIN each process holds
  login,    \* the admin's login by OTP
  linked,   \* accounts whose Alaflip wallet is linked at Flip
  mixed,    \* history: the row was composed by hand, or written from an old read
  lost      \* history: an issued token never reached the row

vars == <<row, owner, spent, call, login, linked, mixed, lost>>

Workers == {FlipWorker, StatusWorker}
Procs == Workers \cup Calls
Users == Procs \cup {Activation}
Tokens == 1 .. Grants

\* Token 0 is the 'placeholder' PATCH writes when it creates the row.
Row == [token : 0 .. Grants, due : BOOLEAN,
        userId : Accounts \cup {NoOne}, pin : Accounts \cup {NoOne}]

\* A process after the token it has read, and the token and PIN it goes on with.
Call == [pc : {"idle", "refresh", "saving", "ready", "typing", "activating", "sent"},
         read : 0 .. Grants, token : 0 .. Grants, pin : Accounts \cup {NoOne}]

Idle == [pc |-> "idle", read |-> 0, token |-> 0, pin |-> NoOne]
NoLogin == [temp |-> NoOne, token |-> 0]

TypeOK ==
  /\ row \in Row \cup {NoRow}
  /\ owner \in Seq(Accounts) /\ Len(owner) <= Grants /\ spent \subseteq 1 .. Len(owner)
  /\ call \in [Users -> Call]
  /\ login \in [temp : Accounts \cup {NoOne}, token : 0 .. Grants]
  /\ linked \subseteq Accounts /\ mixed \in BOOLEAN /\ lost \in BOOLEAN

Init ==
  /\ row = NoRow /\ owner = <<>> /\ spent = {} /\ linked = {}
  /\ call = [p \in Users |-> Idle] /\ login = NoLogin
  /\ mixed = FALSE /\ lost = FALSE

Fresh == Len(owner) + 1
Issues(a) == Len(owner) < Grants /\ owner' = Append(owner, a)
AccountOf(t) == IF t = 0 THEN NoOne ELSE owner[t]

(***************************************************************************)
(* getToken and the lazy refresh of the two workers                        *)
(***************************************************************************)

Holding(p, pc, token) ==
  [pc |-> pc, read |-> row.token, token |-> token,
   pin |-> IF p = FlipWorker THEN row.pin ELSE NoOne]

\* The row is read and found due; /provider/refresh-token and test-connection
\* refresh whatever its expiry says.
BeginsRefresh(p) ==
  /\ call[p].pc = "idle" /\ row # NoRow
  /\ row.due \/ p \in Calls
  /\ call' = [call EXCEPT ![p] = Holding(p, "refresh", 0)]
  /\ UNCHANGED <<row, owner, spent, login, linked, mixed, lost>>

\* A job that finds the token not due goes on with it.
TakesToken ==
  /\ call[FlipWorker].pc = "idle" /\ row # NoRow
  /\ ~ row.due /\ row.token # 0
  /\ call' = [call EXCEPT ![FlipWorker] = Holding(FlipWorker, "ready", row.token)]
  /\ UNCHANGED <<row, owner, spent, login, linked, mixed, lost>>

\* Flip exchanges the token sent for a new one of the same account.
FlipRefreshes(p) ==
  LET old == call[p].read IN
    /\ call[p].pc = "refresh" /\ old # 0
    /\ Issues(owner[old])
    /\ spent' = spent \cup {old}
    /\ call' = [call EXCEPT ![p].pc = "saving", ![p].token = Fresh]
    /\ UNCHANGED <<row, login, linked, mixed, lost>>

\* Flip refuses or cannot be reached: the request, the job or the cycle fails.
RefreshFails(p) ==
  /\ call[p].pc = "refresh"
  /\ call' = [call EXCEPT ![p] = Idle]
  /\ UNCHANGED <<row, owner, spent, login, linked, mixed, lost>>

\* The new expiry is kept, the new token forgotten.
Kept_ExpiryOnly(p, t) == [row EXCEPT !.due = FALSE]

\* The workers keep the new token and a new expiry, the API its user too.
\* Refresh tokens are not modelled: whether Flip takes one is its own affair.
Kept(p, t) ==
  [row EXCEPT !.token = t, !.due = FALSE,
              !.userId = IF p \in Calls THEN owner[t] ELSE @]

SavesToken(p) ==
  /\ call[p].pc = "saving"
  /\ row' = Kept(p, call[p].token)
  /\ call' = [call EXCEPT ![p] = IF p = FlipWorker THEN [@ EXCEPT !.pc = "ready"] ELSE Idle]
  /\ mixed' = (mixed \/ row.token # call[p].read)
  /\ UNCHANGED <<owner, spent, login, linked, lost>>

\* The update rejects: markFailed and throw, the next cycle, or an error 502.
SaveFails(p) ==
  /\ call[p].pc = "saving"
  /\ call' = [call EXCEPT ![p] = Idle]
  /\ lost' = TRUE
  /\ UNCHANGED <<row, owner, spent, login, linked, mixed>>

(***************************************************************************)
(* The flip worker asks for a transfer challenge and types the PIN          *)
(***************************************************************************)

\* The challenge of a linked wallet is answered with the PIN of the row read
\* when the job began.
AsksChallenge ==
  LET c == call[FlipWorker] IN
    /\ c.pc = "ready"
    /\ call' = [call EXCEPT ![FlipWorker].pc =
                  IF owner[c.token] \in linked THEN "typing" ELSE "activating"]
    /\ UNCHANGED <<row, owner, spent, login, linked, mixed, lost>>

\* The automatic activation types the PIN and gets a code, which nobody posts
\* to Flip: the second challenge finds the wallet as it was, and fails the job
\* unless the admin linked it meanwhile.
ActivatesItself ==
  LET c == call[FlipWorker] IN
    /\ c.pc = "activating"
    /\ call' = [call EXCEPT ![FlipWorker] =
                  IF owner[c.token] \in linked THEN [c EXCEPT !.pc = "typing"] ELSE Idle]
    /\ UNCHANGED <<row, owner, spent, login, linked, mixed, lost>>

JobEnds ==
  /\ call[FlipWorker].pc \in {"ready", "typing", "activating"}
  /\ call' = [call EXCEPT ![FlipWorker] = Idle]
  /\ UNCHANGED <<row, owner, spent, login, linked, mixed, lost>>

(***************************************************************************)
(* Activation by the admin: the API sends the stored token, the scraper     *)
(* reads the PIN when the request reaches it                                *)
(***************************************************************************)
SendsActivation ==
  /\ call[Activation].pc = "idle" /\ row # NoRow
  /\ row.userId # NoOne /\ row.token # 0
  /\ call' = [call EXCEPT ![Activation] = Holding(Activation, "sent", row.token)]
  /\ UNCHANGED <<row, owner, spent, login, linked, mixed, lost>>

\* The PIN fits the wallet of the token the API sent, and the code it yields is
\* posted with that token.
ScraperActivates ==
  LET a == owner[call[Activation].token] IN
    /\ call[Activation].pc = "sent" /\ row.pin = a
    /\ linked' = linked \cup {a}
    /\ call' = [call EXCEPT ![Activation] = Idle]
    /\ UNCHANGED <<row, owner, spent, login, mixed, lost>>

ActivationFails ==
  /\ call[Activation].pc = "sent"
  /\ call' = [call EXCEPT ![Activation] = Idle]
  /\ UNCHANGED <<row, owner, spent, login, linked, mixed, lost>>

(***************************************************************************)
(* The admin replaces credentials                                          *)
(***************************************************************************)
Blank == [token |-> 0, due |-> TRUE, userId |-> NoOne, pin |-> NoOne]

\* PATCH /provider: any of the fields, all of one account; a token is due at
\* once.  Fields left out keep what they had, or a placeholder.
Patched(a, fields) ==
  LET base == IF row = NoRow THEN Blank ELSE row IN
    [token  |-> IF "token" \in fields THEN Fresh ELSE base.token,
     due    |-> base.due \/ "token" \in fields,
     userId |-> IF "user_id" \in fields THEN a ELSE base.userId,
     pin    |-> IF "pin" \in fields THEN a ELSE base.pin]

Fields == {"token", "user_id", "pin"}

Patches(a, fields) ==
  /\ IF "token" \in fields THEN Issues(a) ELSE UNCHANGED owner
  /\ row' = Patched(a, fields)
  /\ mixed' = (fields # Fields)
  /\ UNCHANGED <<spent, call, login, linked, lost>>

\* verify-otp keeps the temporary token in Redis for ten minutes, one per admin.
VerifiesOtp(a) ==
  /\ login' = [login EXCEPT !.temp = a]
  /\ UNCHANGED <<row, owner, spent, call, linked, mixed, lost>>

TempExpires ==
  /\ login.temp # NoOne
  /\ login' = [login EXCEPT !.temp = NoOne]
  /\ UNCHANGED <<row, owner, spent, call, linked, mixed, lost>>

\* finalize: the temporary token is read; Flip checks the PIN and the device
\* and issues the token of that account.
FlipVerifiesPin ==
  /\ login.temp # NoOne /\ login.token = 0
  /\ Issues(login.temp)
  /\ login' = [login EXCEPT !.token = Fresh]
  /\ UNCHANGED <<row, spent, call, linked, mixed, lost>>

\* The upsert writes all of the account, then the temporary token is deleted.
LoggedIn(a, t) == [token |-> t, userId |-> a, pin |-> a, due |-> FALSE]

SavesLogin ==
  /\ login.token # 0
  /\ row' = LoggedIn(owner[login.token], login.token)
  /\ login' = NoLogin
  /\ mixed' = FALSE
  /\ UNCHANGED <<owner, spent, call, linked, lost>>

FinalizeFails ==
  /\ login.token # 0
  /\ login' = [login EXCEPT !.token = 0]
  /\ UNCHANGED <<row, owner, spent, call, linked, mixed, lost>>

(***************************************************************************)
(* Time, and the two processes stopping                                    *)
(***************************************************************************)
TokenFallsDue ==
  /\ row # NoRow /\ ~ row.due
  /\ row' = [row EXCEPT !.due = TRUE]
  /\ UNCHANGED <<owner, spent, call, login, linked, mixed, lost>>

WalletLapses ==
  /\ \E a \in linked : linked' = linked \ {a}
  /\ UNCHANGED <<row, owner, spent, call, login, mixed, lost>>

\* A PIN page that fails before its answer is awaited leaves a promise that
\* rejects with nobody listening, which ends the scraper; so does a deployment.
ScraperStops ==
  /\ lost' = (lost \/ \E p \in Workers : call[p].pc = "saving")
  /\ call' = [p \in Users |-> IF p \in Calls THEN call[p] ELSE Idle]
  /\ UNCHANGED <<row, owner, spent, login, linked, mixed>>

Next ==
  \/ \E p \in Procs : \/ BeginsRefresh(p) \/ FlipRefreshes(p) \/ RefreshFails(p)
                      \/ SavesToken(p) \/ SaveFails(p)
  \/ TakesToken \/ AsksChallenge \/ ActivatesItself \/ JobEnds
  \/ SendsActivation \/ ScraperActivates \/ ActivationFails
  \/ \E a \in Accounts :
       \/ VerifiesOtp(a)
       \/ \E fields \in SUBSET Fields \ {{}} : Patches(a, fields)
  \/ TempExpires \/ FlipVerifiesPin \/ SavesLogin \/ FinalizeFails
  \/ TokenFallsDue \/ WalletLapses \/ ScraperStops

Spec == Init /\ [][Next]_vars

(***************************************************************************)
(* Properties                                                              *)
(***************************************************************************)

\* Three processes refresh one token without a lock (flipStatusWorker.js:40,
\* flipWorker.js:100, paymentProvider.js:66).  Whatever their order, the token
\* stored is one Flip has not exchanged yet, unless the process that exchanged
\* it is about to save the new one, or could not.
StoredIsUnspent ==
  row # NoRow /\ row.token \in spent =>
    \/ lost
    \/ \E p \in Procs : call[p].pc = "saving" /\ call[p].read = row.token

\* Token, user id and PIN are of one Flip account, in the row and in the hands
\* of the worker that types the PIN, unless the admin composed the row from
\* parts or a refresh begun before a login was saved after it.
CredentialsAgree ==
  LET c == call[FlipWorker] IN
  /\ row # NoRow /\ ~ mixed => {row.userId, row.pin} = {AccountOf(row.token)}
  /\ c.pc \in {"typing", "activating"} /\ c.pin = AccountOf(c.read) =>
       c.pin = owner[c.token]

\* What is stored can be used, for one account.
SessionUsable == StoredIsUnspent /\ CredentialsAgree

=============================================================================
