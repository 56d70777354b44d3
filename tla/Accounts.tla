------------------------------ MODULE Accounts ------------------------------
(***************************************************************************)
(* One merchant's account: how it comes to be, by password or by Google,   *)
(* the links that are mailed to its owner, its password, and the lock that *)
(* ends the guessing of it.                                                *)
(*                                                                         *)
(* Links, the count of wrong passwords and the lock live in Redis.  The    *)
(* plugin of the API answers for a Redis that is down: nothing is found,   *)
(* every write is "OK", every count is 0.  A handler that lies between two *)
(* of its awaits is in request; handlers overlap.  Passwords are numbered  *)
(* as they are chosen; the form's checks, rate limits by address and the   *)
(* wording of the mails are left out.                                      *)
(***************************************************************************)
EXTENDS Integers, FiniteSets

CONSTANTS
  Requests,     \* handlers that can be in progress at once
  Links,        \* links that can be mailed
  MaxPasswords, \* passwords ever chosen
  MaxAttempts   \* MAX_ATTEMPTS: wrong passwords before the lock

VARIABLES
  client,   \* the row of the client
  owned,    \* what registration has created for it
  redis,    \* does the API reach Redis?
  fails,    \* auth:loginfail and whether it expires
  lock,     \* auth:loginlock
  link,     \* the links and what has become of them
  request,  \* the handlers
  guesses,  \* history: wrong passwords compared since the count last began
  uses,     \* history: how often a link has set the password
  shared,   \* history: links that two handlers had at once
  excused   \* history: Redis was down, a handler died, or two sign-ins overlapped to the end

vars == <<client, owned, redis, fails, lock, link, request, guesses, uses, shared, excused>>

Passwords == 0 .. MaxPasswords   \* 0: none, a client that came by Google

NoClient == [status |-> "none", password |-> 0, google |-> FALSE, verified |-> FALSE]

Client == [status: {"active", "suspended"}, password: Passwords, google: BOOLEAN, verified: BOOLEAN]
            \cup {NoClient}

Free == [at |-> "idle"]

\* A sign-in, from the row it reads to the keys it clears.
SignIn == {"read", "admitted", "wrong", "first", "locking", "clearing", "right", "unlocking"}

\* What a handler remembers of the row, of the password it was given, and of a link.
Handler ==
  [at: {"idle"}]
    \cup [at: {"registering", "subscribing", "opening", "greeting"}, google: BOOLEAN]
    \cup [at: {"known"}, google: BOOLEAN]
    \cup [at: SignIn,
     password: Passwords, guess: Passwords]
    \cup [at: {"mailing"}, kind: {"verify", "reset"}]
    \cup [at: {"holding", "choosing", "spending"}, link: Links]

TypeOK ==
  /\ client \in Client /\ owned \subseteq {"subscription", "balance"}
  /\ redis \in BOOLEAN /\ lock \in BOOLEAN
  /\ fails \in [count: Nat, ttl: BOOLEAN]
  /\ link \in [Links -> [kind: {"none", "verify", "reset"}, live: BOOLEAN]]
  /\ request \in [Requests -> Handler]
  /\ guesses \in Nat /\ uses \in [Links -> Nat] /\ shared \subseteq Links /\ excused \in BOOLEAN

Init ==
  /\ client = NoClient /\ owned = {} /\ redis = TRUE /\ lock = FALSE
  /\ fails = [count |-> 0, ttl |-> FALSE]
  /\ link = [l \in Links |-> [kind |-> "none", live |-> FALSE]]
  /\ request = [q \in Requests |-> Free]
  /\ guesses = 0 /\ uses = [l \in Links |-> 0] /\ shared = {} /\ excused = FALSE

account == <<client, owned>>
guessing == <<fails, lock, guesses>>
mail == <<link, uses, shared>>
around == <<redis, excused>>

Become(q, h) == request' = [request EXCEPT ![q] = h]
Goes(q, at) == request' = [request EXCEPT ![q].at = at]
Answer(q) == Become(q, Free)

-----------------------------------------------------------------------------
(* Registration: four or five writes, none of them in one transaction.     *)

\* No client has the address yet.
Registers(q) ==
  /\ request[q] = Free /\ client = NoClient
  /\ Become(q, [at |-> "registering", google |-> FALSE])
  /\ UNCHANGED <<account, guessing, mail, around>>

\* The token of Google is good; the client is looked up by it or its address.
ComesByGoogle(q) ==
  /\ request[q] = Free
  /\ Become(q, [at |-> IF client = NoClient THEN "registering" ELSE "known", google |-> TRUE])
  /\ UNCHANGED <<account, guessing, mail, around>>

\* The address is unique: the second create is refused.
CreatesClient(q) ==
  /\ request[q].at = "registering"
  /\ IF client = NoClient
     THEN /\ client' = [status |-> "active", google |-> request[q].google,
                        password |-> IF request[q].google THEN 0 ELSE 1,
                        verified |-> request[q].google]
          /\ Goes(q, "subscribing")
     ELSE Answer(q) /\ UNCHANGED client
  /\ UNCHANGED <<owned, guessing, mail, around>>

CreatesSubscription(q) ==
  /\ request[q].at = "subscribing"
  /\ owned' = owned \cup {"subscription"}
  /\ Goes(q, "opening")
  /\ UNCHANGED <<client, guessing, mail, around>>

CreatesBalance(q) ==
  /\ request[q].at = "opening"
  /\ owned' = owned \cup {"balance"}
  /\ IF request[q].google THEN Answer(q) ELSE Become(q, [at |-> "mailing", kind |-> "verify"])
  /\ UNCHANGED <<client, guessing, mail, around>>

\* Google answers for the address.  What registration has left undone stays undone.
LinksGoogle(q) ==
  /\ request[q].at = "known"
  /\ client' = IF client.google THEN client
               ELSE [client EXCEPT !.google = TRUE, !.verified = TRUE]
  /\ Answer(q)
  /\ UNCHANGED <<owned, guessing, mail, around>>

-----------------------------------------------------------------------------
(* Mailed links.                                                           *)

ForgotPassword(q) ==
  /\ request[q] = Free
  /\ client.status = "active" /\ client.password # 0
  /\ Become(q, [at |-> "mailing", kind |-> "reset"])
  /\ UNCHANGED <<account, guessing, mail, around>>

ResendVerification(q) ==
  /\ request[q] = Free
  /\ client.status = "active" /\ ~client.verified
  /\ Become(q, [at |-> "mailing", kind |-> "verify"])
  /\ UNCHANGED <<account, guessing, mail, around>>

\* The mail goes out whether or not Redis has the token.
MailsLink(q, l) ==
  /\ request[q].at = "mailing" /\ link[l].kind = "none"
  /\ link' = [link EXCEPT ![l] = [kind |-> request[q].kind, live |-> redis]]
  /\ Answer(q)
  /\ UNCHANGED <<account, guessing, uses, shared, around>>

\* Older links stay good beside a new one.
LinkExpires(l) ==
  /\ link[l].live
  /\ link' = [link EXCEPT ![l].live = FALSE]
  /\ UNCHANGED <<account, guessing, request, uses, shared, around>>

Has(q, l) == request[q].at \in {"holding", "choosing", "spending"} /\ request[q].link = l

FollowsLink(q, l) ==
  /\ request[q] = Free /\ link[l].live /\ redis
  /\ Become(q, [at |-> "holding", link |-> l])
  /\ shared' = IF \E p \in Requests : Has(p, l) THEN shared \cup {l} ELSE shared
  /\ UNCHANGED <<account, guessing, link, uses, around>>

\* The client is read: it must exist, and be active to get a new password.
ReadsOwner(q) ==
  /\ request[q].at = "holding"
  /\ IF link[request[q].link].kind = "reset" /\ client.status # "active" THEN Answer(q)
     ELSE Goes(q, IF link[request[q].link].kind = "verify" /\ client.verified
                  THEN "spending" ELSE "choosing")
  /\ UNCHANGED <<account, guessing, mail, around>>

\* What the link is for.  With no password left to choose, the last one is chosen again.
UsesLink(q) ==
  /\ request[q].at = "choosing"
  /\ LET l == request[q].link
     IN  /\ client' = IF link[l].kind = "verify" THEN [client EXCEPT !.verified = TRUE]
                      ELSE [client EXCEPT !.password = IF @ < MaxPasswords THEN @ + 1 ELSE @]
         /\ uses' = [uses EXCEPT ![l] = IF link[l].kind = "reset" THEN @ + 1 ELSE @]
  /\ Goes(q, "spending")
  /\ UNCHANGED <<owned, guessing, link, shared, around>>

\* Mutant: the token is left to expire.
Spent_Kept(live) == live

\* DEL, which a Redis that is down answers with 0.
Spent(live) == live /\ ~redis

SpendsLink(q) ==
  /\ request[q].at = "spending"
  /\ link' = [link EXCEPT ![request[q].link].live = Spent(@)]
  /\ Answer(q)
  /\ UNCHANGED <<account, guessing, uses, shared, around>>

-----------------------------------------------------------------------------
(* Signing in.                                                             *)

\* The row is read, and not again: its password is as it was then to the end.
Login(q, guess) ==
  /\ request[q] = Free
  /\ client.status = "active" /\ client.password # 0
  /\ Become(q, [at |-> "read", password |-> client.password, guess |-> guess])
  /\ UNCHANGED <<account, guessing, mail, around>>

LooksAtLock(q) ==
  /\ request[q].at = "read"
  /\ IF lock /\ redis THEN Answer(q) ELSE Goes(q, "admitted")
  /\ UNCHANGED <<account, guessing, mail, around>>

ComparesPassword(q) ==
  /\ request[q].at = "admitted"
  /\ LET right == request[q].guess = request[q].password
     IN  /\ Goes(q, IF right THEN "right" ELSE "wrong")
         /\ guesses' = IF right THEN guesses ELSE guesses + 1
  /\ UNCHANGED <<account, fails, lock, mail, around>>

Enough(count) == count >= MaxAttempts

\* INCR; the first time the key has yet to be given its expiry.
CountsFailure(q) ==
  /\ request[q].at = "wrong"
  /\ LET count == IF redis THEN fails.count + 1 ELSE 0
     IN  /\ fails' = IF redis THEN [fails EXCEPT !.count = count] ELSE fails
         /\ IF count = 1 THEN Goes(q, "first")
            ELSE IF Enough(count) THEN Goes(q, "locking") ELSE Answer(q)
  /\ UNCHANGED <<account, lock, guesses, mail, around>>

\* With a single attempt allowed, the first failure locks as well.
SetsExpiry(q) ==
  /\ request[q].at = "first"
  /\ fails' = IF redis THEN [fails EXCEPT !.ttl = fails.count > 0] ELSE fails
  /\ IF Enough(1) THEN Goes(q, "locking") ELSE Answer(q)
  /\ UNCHANGED <<account, lock, guesses, mail, around>>

SetsLock(q) ==
  /\ request[q].at = "locking"
  /\ lock' = (lock \/ redis)
  /\ Goes(q, "clearing")
  /\ UNCHANGED <<account, fails, guesses, mail, around>>

NoFails == [count |-> 0, ttl |-> FALSE]

ClearsFails(q) ==
  /\ request[q].at \in {"clearing", "right"}
  /\ fails' = IF redis THEN NoFails ELSE fails
  /\ IF request[q].at = "right" THEN guesses' = 0 /\ Goes(q, "unlocking")
     ELSE Answer(q) /\ UNCHANGED guesses
  /\ UNCHANGED <<account, lock, mail, around>>

\* The lock that another attempt has set meanwhile goes too.  Then the client
\* is signed in if its address is verified.
ClearsLock(q) ==
  /\ request[q].at = "unlocking"
  /\ lock' = (lock /\ ~redis) /\ guesses' = 0
  /\ excused' = (excused \/ \E p \in Requests \ {q} : request[p].at \in SignIn)
  /\ Answer(q)
  /\ UNCHANGED <<account, fails, mail, redis>>

\* No handler lasts as long as the lock.
LockExpires ==
  /\ lock /\ \A q \in Requests : request[q].at # "clearing"
  /\ lock' = FALSE /\ guesses' = 0
  /\ UNCHANGED <<account, fails, mail, request, around>>

FailsExpire ==
  /\ fails.ttl
  /\ fails' = NoFails /\ guesses' = 0
  /\ UNCHANGED <<account, lock, mail, request, around>>

-----------------------------------------------------------------------------
(* The signed-in client, the admin, and the machine.                       *)

\* With the old password, or without one for a client that came by Google.
ChangesPassword ==
  /\ client.status = "active" /\ client.password < MaxPasswords
  /\ client' = [client EXCEPT !.password = @ + 1]
  /\ UNCHANGED <<owned, guessing, mail, request, around>>

AdminSetsStatus(status) ==
  /\ client.status \notin {"none", status}
  /\ client' = [client EXCEPT !.status = status]
  /\ UNCHANGED <<owned, guessing, mail, request, around>>

\* After three retries the connection is not tried again.
RedisGone ==
  /\ redis
  /\ redis' = FALSE /\ excused' = TRUE
  /\ UNCHANGED <<account, guessing, mail, request>>

\* A query rejects; the answer is 500 and what was done stays.
RequestFails(q) ==
  /\ request[q] # Free
  /\ Answer(q) /\ excused' = TRUE
  /\ UNCHANGED <<account, guessing, mail, redis>>

ApiRestarts ==
  /\ request' = [q \in Requests |-> Free]
  /\ redis' = TRUE /\ excused' = TRUE
  /\ UNCHANGED <<account, guessing, mail>>

Handles(q) ==
  \/ Registers(q) \/ ComesByGoogle(q) \/ CreatesClient(q) \/ CreatesSubscription(q)
  \/ CreatesBalance(q) \/ LinksGoogle(q) \/ ForgotPassword(q) \/ ResendVerification(q)
  \/ \E l \in Links : MailsLink(q, l) \/ FollowsLink(q, l)
  \/ ReadsOwner(q) \/ UsesLink(q) \/ SpendsLink(q)
  \/ \E guess \in Passwords \ {0} : Login(q, guess)
  \/ LooksAtLock(q) \/ ComparesPassword(q) \/ CountsFailure(q) \/ SetsExpiry(q)
  \/ SetsLock(q) \/ ClearsFails(q) \/ ClearsLock(q)

Next ==
  \/ \E q \in Requests : Handles(q) \/ RequestFails(q)
  \/ \E l \in Links : LinkExpires(l)
  \/ LockExpires \/ FailsExpire \/ ChangesPassword
  \/ \E status \in {"active", "suspended"} : AdminSetsStatus(status)
  \/ RedisGone \/ ApiRestarts

Spec == Init /\ [][Next]_vars

-----------------------------------------------------------------------------
\* The lock ends the guessing.  Handlers count, lock and clear in calls of
\* their own, so every other handler that is past its look at the lock gets
\* one more guess, and no more than one.  (The owner's own sign-in clears count
\* and lock, and spoils both if it overlaps another.)
GuessesBounded == excused \/ guesses < MaxAttempts + Cardinality(Requests)

\* "One-time use": a link sets the password once, unless two handlers followed
\* it at once, or Redis or a handler failed.
LinkUsedOnce == \A l \in Links \ shared : uses[l] <= 1 \/ excused

\* Neither a password nor a link gives more than it should.
SecretsHold == GuessesBounded /\ LinkUsedOnce
=============================================================================
