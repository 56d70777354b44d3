------------------------------ MODULE Checkout ------------------------------
(***************************************************************************)
(* How an open invoice gets the amount that identifies its payment.        *)
(*                                                                         *)
(* The customer selects a payment channel.  The handler takes a Redis lock *)
(* of that channel, reads the codes of its live invoices, draws another,   *)
(* writes it into the invoice, and releases the lock.  The lock expires    *)
(* after ten seconds; a handler that does not get it in MaxRetries tries,  *)
(* or finds Redis unavailable, goes on without it.                         *)
(*                                                                         *)
(* The deadline of an invoice is not modelled: a live invoice may be       *)
(* closed (paid, cancelled, expired) at any time.                          *)
(***************************************************************************)
EXTENDS Naturals, FiniteSets

CONSTANTS
  Invoices,    \* invoices
  Amount,      \* amount of each invoice
  Codes,       \* getUniqueCodeRange of each invoice
  Channels,    \* payment channels
  Requests,    \* select-channel requests in progress
  MaxRetries,  \* tries to get the lock
  None         \* null

ASSUME CheckoutAssumption ==
  /\ Amount \in [Invoices -> Nat]
  /\ Codes \in [Invoices -> SUBSET (Nat \ {0})]
  /\ \A i \in Invoices : Codes[i] # {}
  /\ MaxRetries \in Nat \ {0}
  /\ None \notin Channels \cup Requests

VARIABLES
  invoice,    \* row of each invoice
  lock,       \* lock:unique_code of each channel: the request that set it
  request,    \* select-channel handlers
  confirming, \* invoices whose confirmation is between its read and its write
  told,       \* channel and code the customer of each invoice was last shown
  loose,      \* invoices whose code the lock did not protect (history)
  doubled     \* invoices with two requests in progress at once (history)

vars == <<invoice, lock, request, confirming, told, loose, doubled>>

Live == {"pending", "user_confirmed"}

InvoiceRow == [status: Live \cup {"closed"}, channel: Channels \cup {None}, code: Nat]

Idle == [stage |-> "idle"]

\* A handler in progress.  "lapsed": its lock has expired, which it does not know.
Busy == [stage: {"locking", "reading", "writing", "replying"},
         inv: Invoices, channel: Channels, tries: 0..(MaxRetries - 1),
         code: Nat, guard: {"none", "held", "lapsed"}]

Init ==
  /\ invoice = [i \in Invoices |-> [status |-> "pending", channel |-> None, code |-> 0]]
  /\ lock = [c \in Channels |-> None]
  /\ request = [r \in Requests |-> Idle]
  /\ confirming = {}
  /\ told = [i \in Invoices |-> [channel |-> None, code |-> 0]]
  /\ loose = {}
  /\ doubled = {}

-----------------------------------------------------------------------------
(* POST /pay/:token/select-channel.                                        *)

Handling(i) == \E r \in Requests : request[r] # Idle /\ request[r].inv = i

\* Mutant: a reload of the page selects again.
Selectable_Again(i) == invoice[i].status = "pending"

Selectable(i) == invoice[i].status = "pending" /\ invoice[i].channel = None

\* The first selection: any channel of the preference may be the one.
SelectChannel(r, i, c) ==
  /\ request[r] = Idle
  /\ Selectable(i)
  /\ request' = [request EXCEPT ![r] = [stage |-> "locking", inv |-> i, channel |-> c,
                                        tries |-> 0, code |-> 0, guard |-> "none"]]
  /\ doubled' = IF Handling(i) THEN doubled \cup {i} ELSE doubled
  /\ UNCHANGED <<invoice, lock, confirming, told, loose>>

\* A later one, or a reload of the page: what the row says is shown.
ShowChannel(i) ==
  /\ invoice[i].channel # None
  /\ told' = [told EXCEPT ![i] = [channel |-> invoice[i].channel, code |-> invoice[i].code]]
  /\ UNCHANGED <<invoice, lock, request, confirming, loose, doubled>>

\* SET NX.
AcquireLock(r) ==
  /\ request[r].stage = "locking"
  /\ lock[request[r].channel] = None
  /\ lock' = [lock EXCEPT ![request[r].channel] = r]
  /\ request' = [request EXCEPT ![r].stage = "reading", ![r].guard = "held"]
  /\ UNCHANGED <<invoice, confirming, told, loose, doubled>>

\* The request after a try that did not get the lock: again, or on without it.
AfterTry(q) ==
  IF q.tries + 1 < MaxRetries THEN [q EXCEPT !.tries = q.tries + 1]
                              ELSE [q EXCEPT !.stage = "reading"]

RetryLock(r) ==
  /\ request[r].stage = "locking"
  /\ lock[request[r].channel] # None
  /\ request' = [request EXCEPT ![r] = AfterTry(request[r])]
  /\ UNCHANGED <<invoice, lock, confirming, told, loose, doubled>>

\* Redis fails before or after it set the key: on without the lock.
RedisFails(r) ==
  /\ request[r].stage = "locking"
  /\ LET c == request[r].channel
     IN  \E holder \in {lock[c]} \cup (IF lock[c] = None THEN {r} ELSE {}) :
           lock' = [lock EXCEPT ![c] = holder]
  /\ request' = [request EXCEPT ![r].stage = "reading"]
  /\ UNCHANGED <<invoice, confirming, told, loose, doubled>>

UsedCodes(i, c) ==
  {invoice[j].code : j \in {k \in Invoices \ {i} : /\ invoice[k].channel = c
                                                   /\ invoice[k].status \in Live}}

\* A hundred draws find a free code if there is one.
Draw(i, used) == IF Codes[i] \subseteq used THEN Codes[i] ELSE Codes[i] \ used

DrawCode(r) ==
  /\ request[r].stage = "reading"
  /\ LET i == request[r].inv
         used == UsedCodes(i, request[r].channel)
     IN  \E code \in Draw(i, used) :
           /\ request' = [request EXCEPT ![r].stage = "writing", ![r].code = code]
           /\ loose' = IF code \in used THEN loose \cup {i} ELSE loose
  /\ UNCHANGED <<invoice, lock, confirming, told, doubled>>

\* By id, whatever the row is by now.
WriteCode(r) ==
  /\ request[r].stage = "writing"
  /\ LET q == request[r]
     IN  /\ invoice' = [invoice EXCEPT ![q.inv].channel = q.channel, ![q.inv].code = q.code]
         /\ loose' = IF q.guard = "held" THEN loose ELSE loose \cup {q.inv}
  /\ request' = [request EXCEPT ![r].stage = "replying"]
  /\ UNCHANGED <<lock, confirming, told, doubled>>

\* Mutant: DEL without comparing the value.
Released_Anyone(r) ==
  IF request[r].guard = "none" THEN lock ELSE [lock EXCEPT ![request[r].channel] = None]

\* The locks after r's compare-and-delete.
Released(r) ==
  LET c == request[r].channel
  IN  IF request[r].guard # "none" /\ lock[c] = r THEN [lock EXCEPT ![c] = None] ELSE lock

\* The release, whose failure is ignored, and the answer, if nothing fails before it.
Reply(r) ==
  /\ request[r].stage = "replying"
  /\ lock' \in {lock, Released(r)}
  /\ LET q == request[r]
     IN  told' \in {told, [told EXCEPT ![q.inv] = [channel |-> q.channel, code |-> q.code]]}
  /\ request' = [request EXCEPT ![r] = Idle]
  /\ UNCHANGED <<invoice, confirming, loose, doubled>>

\* A query fails: the lock is released on the way out.
QueryFails(r) ==
  /\ request[r].stage \in {"reading", "writing"}
  /\ lock' \in {lock, Released(r)}
  /\ request' = [request EXCEPT ![r] = Idle]
  /\ UNCHANGED <<invoice, confirming, told, loose, doubled>>

\* The API process dies; a lock it holds stays.
Crash(r) ==
  /\ request[r] # Idle
  /\ request' = [request EXCEPT ![r] = Idle]
  /\ UNCHANGED <<invoice, lock, confirming, told, loose, doubled>>

\* The ten seconds of a lock pass.
LockExpires(c) ==
  /\ lock[c] # None
  /\ lock' = [lock EXCEPT ![c] = None]
  /\ request' = [r \in Requests |->
                   IF /\ r = lock[c] /\ request[r] # Idle
                      /\ request[r].channel = c /\ request[r].guard = "held"
                   THEN [request[r] EXCEPT !.guard = "lapsed"] ELSE request[r]]
  /\ UNCHANGED <<invoice, confirming, told, loose, doubled>>

-----------------------------------------------------------------------------
(* What else happens to the status of an invoice.                          *)

\* POST /pay/:token/confirm.
ConfirmRead(i) ==
  /\ invoice[i].channel # None
  /\ invoice[i].status = "pending"
  /\ confirming' = confirming \cup {i}
  /\ UNCHANGED <<invoice, lock, request, told, loose, doubled>>

\* By id: an invoice closed since it was read lives again, its code meanwhile free.
ConfirmWrite(i) ==
  /\ i \in confirming
  /\ invoice' = [invoice EXCEPT ![i].status = "user_confirmed"]
  /\ loose' = IF invoice[i].status = "closed" THEN loose \cup {i} ELSE loose
  /\ confirming' = confirming \ {i}
  /\ UNCHANGED <<lock, request, told, doubled>>

\* Paid, cancelled or expired.
Close(i) ==
  /\ invoice[i].status \in Live
  /\ invoice' = [invoice EXCEPT ![i].status = "closed"]
  /\ UNCHANGED <<lock, request, confirming, told, loose, doubled>>

-----------------------------------------------------------------------------
Handler(r) ==
  AcquireLock(r) \/ RetryLock(r) \/ DrawCode(r) \/ WriteCode(r) \/ Reply(r)

Next ==
  \/ \E r \in Requests :
       \/ \E i \in Invoices, c \in Channels : SelectChannel(r, i, c)
       \/ Handler(r) \/ RedisFails(r) \/ QueryFails(r) \/ Crash(r)
  \/ \E c \in Channels : LockExpires(c)
  \/ \E i \in Invoices : ShowChannel(i) \/ ConfirmRead(i) \/ ConfirmWrite(i) \/ Close(i)

Spec == Init /\ [][Next]_vars

-----------------------------------------------------------------------------
(* Properties.                                                             *)

\* Rows, locks and requests keep their types; in particular a request that meets a
\* lock nobody releases stops trying.
TypeOK ==
  /\ invoice \in [Invoices -> InvoiceRow]
  /\ lock \in [Channels -> Requests \cup {None}]
  /\ request \in [Requests -> {Idle} \cup Busy]
  /\ confirming \subseteq Invoices
  /\ told \in [Invoices -> [channel: Channels \cup {None}, code: Nat]]
  /\ loose \subseteq Invoices
  /\ doubled \subseteq Invoices

\* Live invoices of one channel that are identified by a code.
SameChannel(i, j) ==
  /\ i # j
  /\ invoice[i].channel # None /\ invoice[i].channel = invoice[j].channel
  /\ invoice[i].status \in Live /\ invoice[j].status \in Live

\* Two live invoices of a channel have different codes, through crashes, failed
\* releases and expired locks: unless the code of one was written without the lock or
\* after it lapsed, drawn from an exhausted range, or came back to life with a
\* confirmation.
CodesDiffer ==
  \A i, j \in Invoices \ loose :
    SameChannel(i, j) => invoice[i].code # invoice[j].code

\* What a customer was shown is what the invoice still asks for: of two selections,
\* only one that began before the other had ended can change it.
ToldStands ==
  \A i \in Invoices \ doubled :
    told[i].channel # None =>
      told[i] = [channel |-> invoice[i].channel, code |-> invoice[i].code]

\* The code identifies its invoice, to the match worker and to the customer.
CodesStand == CodesDiffer /\ ToldStands

=============================================================================
