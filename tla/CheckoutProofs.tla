--------------------------- MODULE CheckoutProofs ---------------------------
(***************************************************************************)
(* Proofs about what people ask of the API at once: Checkout, the page a   *)
(* customer pays on, the tabs of a browser and the channels of a client,   *)
(* for any number of invoices, channels, codes, requests and tries.        *)
(*                                                                         *)
(* The codes of a channel differ because a handler whose guard is "held"   *)
(* is the one the lock names: between its read and its write only an       *)
(* unprotected handler, which makes its invoice loose, writes a code.      *)
(***************************************************************************)
EXTENDS MCPages, FiniteSetTheorems, TLAPS

\* The lock names the handler that relies on it.
LockHeld ==
  \A r \in Requests : request[r] # Idle =>
    /\ request[r].guard = "held" => lock[request[r].channel] = r
    /\ request[r].guard # "none" => request[r].stage # "locking"

\* The code a protected handler has drawn is still free.
DrawnIsFree ==
  \A r \in Requests, j \in Invoices \ loose :
    /\ request[r] # Idle
    /\ request[r].stage = "writing" /\ request[r].guard = "held"
    /\ request[r].inv \notin loose /\ j # request[r].inv
    /\ invoice[j].status \in Live /\ invoice[j].channel = request[r].channel
    => invoice[j].code # request[r].code

\* An invoice that was never selected twice at once is what its handler makes of it.
OneHandler ==
  \A r \in Requests : (request[r] # Idle /\ request[r].inv \notin doubled) =>
    /\ \A s \in Requests :
         (request[s] # Idle /\ request[s].inv = request[r].inv) => s = r
    /\ request[r].stage # "replying" => invoice[request[r].inv].channel = None
    /\ request[r].stage = "replying" =>
         /\ invoice[request[r].inv].channel = request[r].channel
         /\ invoice[request[r].inv].code = request[r].code

IInv == TypeOK /\ LockHeld /\ DrawnIsFree /\ OneHandler /\ CodesDiffer /\ ToldStands

-----------------------------------------------------------------------------
LEMMA InitIInv == Init => IInv
<1> SUFFICES ASSUME Init PROVE IInv
  OBVIOUS
<1> USE CheckoutAssumption DEF Init
<1>1. TypeOK
  BY DEF TypeOK, InvoiceRow, Live
<1>2. CodesDiffer /\ ToldStands
  BY DEF CodesDiffer, ToldStands, SameChannel
<1>3. LockHeld /\ DrawnIsFree /\ OneHandler
  BY DEF LockHeld, DrawnIsFree, OneHandler
<1>4. QED
  BY <1>1, <1>2, <1>3 DEF IInv

\* The fields of a handler in progress.
LEMMA BusyFields ==
  ASSUME NEW q \in Busy
  PROVE  /\ q.stage \in {"locking", "reading", "writing", "replying"}
         /\ q.inv \in Invoices /\ q.channel \in Channels
         /\ q.tries \in 0..(MaxRetries - 1) /\ q.code \in Nat
         /\ q.guard \in {"none", "held", "lapsed"}
BY DEF Busy, Idle

LEMMA AfterTryBusy ==
  ASSUME NEW q \in Busy
  PROVE  AfterTry(q) \in Busy
<1>1. q.tries + 1 < MaxRetries => q.tries + 1 \in 0..(MaxRetries - 1)
  BY BusyFields, CheckoutAssumption
<1>2. q.tries + 1 < MaxRetries => [q EXCEPT !.tries = q.tries + 1] \in Busy
  BY <1>1 DEF Busy
<1>3. [q EXCEPT !.stage = "reading"] \in Busy
  BY DEF Busy
<1>4. QED
  BY <1>2, <1>3 DEF AfterTry

\* What TypeOK says of a handler whose stage is known.
LEMMA InProgress ==
  ASSUME TypeOK, NEW r \in Requests, request[r].stage # "idle" \/ request[r] # Idle
  PROVE  request[r] \in Busy /\ request[r] # Idle
BY DEF TypeOK, Busy, Idle

LEMMA RequestSet ==
  ASSUME TypeOK, NEW r \in Requests, NEW q \in {Idle} \cup Busy, request' = [request EXCEPT ![r] = q]
  PROVE  request' \in [Requests -> {Idle} \cup Busy]
BY DEF TypeOK

LEMMA ReleasedTypes ==
  ASSUME TypeOK, NEW r \in Requests, request[r] # Idle
  PROVE  Released(r) \in [Channels -> Requests \cup {None}]
<1>1. request[r].channel \in Channels
  BY InProgress, BusyFields
<1>2. QED
  BY <1>1 DEF Released, TypeOK

LEMMA RequestTypes ==
  ASSUME TypeOK, NEW r \in Requests,
         \/ Handler(r) \/ RedisFails(r) \/ QueryFails(r) \/ Crash(r)
         \/ \E i \in Invoices, c \in Channels : SelectChannel(r, i, c)
  PROVE  TypeOK'
<1>1. CASE \E i \in Invoices, c \in Channels : SelectChannel(r, i, c)
  <2>1. PICK i \in Invoices, c \in Channels : SelectChannel(r, i, c)
    BY <1>1
  <2>2. 0 \in 0..(MaxRetries - 1)
    BY CheckoutAssumption
  <2>3. [stage |-> "locking", inv |-> i, channel |-> c, tries |-> 0, code |-> 0,
         guard |-> "none"] \in {Idle} \cup Busy
    BY <2>2 DEF Busy
  <2>4. request' \in [Requests -> {Idle} \cup Busy]
    BY <2>1, <2>3, RequestSet DEF SelectChannel
  <2>5. QED
    BY <2>1, <2>4 DEF SelectChannel, TypeOK
<1>2. CASE AcquireLock(r)
  <2>1. request[r] \in Busy
    BY <1>2, InProgress DEF AcquireLock
  <2>2. [request[r] EXCEPT !.stage = "reading", !.guard = "held"] \in Busy
    BY <2>1 DEF Busy
  <2>3. request' \in [Requests -> {Idle} \cup Busy]
    BY <1>2, <2>2, RequestSet DEF AcquireLock
  <2>4. QED
    BY <1>2, <2>3 DEF AcquireLock, TypeOK
<1>3. CASE RetryLock(r)
  <2>1. AfterTry(request[r]) \in Busy
    BY <1>3, InProgress, AfterTryBusy DEF RetryLock
  <2>2. request' \in [Requests -> {Idle} \cup Busy]
    BY <1>3, <2>1, RequestSet DEF RetryLock
  <2>3. QED
    BY <1>3, <2>2 DEF RetryLock, TypeOK
<1>4. CASE RedisFails(r)
  <2>1. request[r] \in Busy
    BY <1>4, InProgress DEF RedisFails
  <2>2. [request[r] EXCEPT !.stage = "reading"] \in Busy
    BY <2>1 DEF Busy
  <2>3. request' \in [Requests -> {Idle} \cup Busy]
    BY <1>4, <2>2, RequestSet DEF RedisFails
  <2>4. lock' \in [Channels -> Requests \cup {None}]
    BY <1>4, <2>1, BusyFields DEF RedisFails, TypeOK
  <2>5. QED
    BY <1>4, <2>3, <2>4 DEF RedisFails, TypeOK
<1>5. CASE DrawCode(r)
  <2>1. request[r] \in Busy
    BY <1>5, InProgress DEF DrawCode
  <2>2. PICK code \in Draw(request[r].inv, UsedCodes(request[r].inv, request[r].channel)) :
          request' = [request EXCEPT ![r].stage = "writing", ![r].code = code]
    BY <1>5 DEF DrawCode
  <2>3. code \in Nat
    BY <2>1, BusyFields, CheckoutAssumption DEF Draw
  <2>4. [request[r] EXCEPT !.stage = "writing", !.code = code] \in Busy
    BY <2>1, <2>3 DEF Busy
  <2>5. request' \in [Requests -> {Idle} \cup Busy]
    BY <2>2, <2>4, RequestSet
  <2>6. QED
    BY <1>5, <2>1, <2>5, BusyFields DEF DrawCode, TypeOK
<1>6. CASE WriteCode(r)
  <2>1. request[r] \in Busy
    BY <1>6, InProgress DEF WriteCode
  <2>2. [request[r] EXCEPT !.stage = "replying"] \in Busy
    BY <2>1 DEF Busy
  <2>3. request' \in [Requests -> {Idle} \cup Busy]
    BY <1>6, <2>2, RequestSet DEF WriteCode
  <2>4. invoice' \in [Invoices -> InvoiceRow]
    BY <1>6, <2>1, BusyFields DEF WriteCode, TypeOK, InvoiceRow
  <2>5. QED
    BY <1>6, <2>1, <2>3, <2>4, BusyFields DEF WriteCode, TypeOK
<1>7. CASE Reply(r)
  <2>1. request[r] # Idle /\ request[r] \in Busy
    BY <1>7, InProgress DEF Reply
  <2>2. request' \in [Requests -> {Idle} \cup Busy]
    BY <1>7, RequestSet DEF Reply
  <2>3. lock' \in [Channels -> Requests \cup {None}]
    BY <1>7, <2>1, ReleasedTypes DEF Reply, TypeOK
  <2>4. told' \in [Invoices -> [channel: Channels \cup {None}, code: Nat]]
    BY <1>7, <2>1, BusyFields DEF Reply, TypeOK
  <2>5. QED
    BY <1>7, <2>2, <2>3, <2>4 DEF Reply, TypeOK
<1>8. CASE QueryFails(r)
  <2>1. request[r] # Idle
    BY <1>8, InProgress DEF QueryFails
  <2>2. request' \in [Requests -> {Idle} \cup Busy]
    BY <1>8, RequestSet DEF QueryFails
  <2>3. lock' \in [Channels -> Requests \cup {None}]
    BY <1>8, <2>1, ReleasedTypes DEF QueryFails, TypeOK
  <2>4. QED
    BY <1>8, <2>2, <2>3 DEF QueryFails, TypeOK
<1>9. CASE Crash(r)
  <2>1. request' \in [Requests -> {Idle} \cup Busy]
    BY <1>9, RequestSet DEF Crash
  <2>2. QED
    BY <1>9, <2>1 DEF Crash, TypeOK
<1>10. QED
  BY <1>1, <1>2, <1>3, <1>4, <1>5, <1>6, <1>7, <1>8, <1>9 DEF Handler

LEMMA TypeStep == TypeOK /\ [Next]_vars => TypeOK'
<1> SUFFICES ASSUME TypeOK, [Next]_vars PROVE TypeOK'
  OBVIOUS
<1>1. ASSUME NEW c \in Channels, LockExpires(c) PROVE TypeOK'
  <2>1. ASSUME NEW r \in Requests PROVE request'[r] \in {Idle} \cup Busy
    <3>1. CASE /\ r = lock[c] /\ request[r] # Idle
               /\ request[r].channel = c /\ request[r].guard = "held"
      <4>1. request[r] \in Busy
        BY <3>1, InProgress
      <4>2. [request[r] EXCEPT !.guard = "lapsed"] \in Busy
        BY <4>1 DEF Busy
      <4>3. QED
        BY <1>1, <3>1, <4>2 DEF LockExpires, Busy
    <3>2. QED
      BY <1>1, <3>1 DEF LockExpires, TypeOK
  <2>2. request' = [r \in Requests |-> request'[r]]
    BY <1>1 DEF LockExpires
  <2>3. request' \in [Requests -> {Idle} \cup Busy]
    BY <2>1, <2>2
  <2>4. QED
    BY <1>1, <2>3 DEF LockExpires, TypeOK
<1>2. ASSUME NEW i \in Invoices,
             ShowChannel(i) \/ ConfirmRead(i) \/ ConfirmWrite(i) \/ Close(i)
      PROVE  TypeOK'
  BY <1>2 DEF ShowChannel, ConfirmRead, ConfirmWrite, Close, TypeOK, InvoiceRow, Live
<1>3. CASE UNCHANGED vars
  BY <1>3 DEF vars, TypeOK
<1>4. QED
  BY <1>1, <1>2, <1>3, RequestTypes DEF Next

-----------------------------------------------------------------------------
(* What the steps of a handler do to it.                                   *)

\* A step of r leaves the other handlers alone.
LEMMA OthersStay ==
  ASSUME TypeOK, NEW r \in Requests, NEW s \in Requests, s # r,
         \/ Handler(r) \/ RedisFails(r) \/ QueryFails(r) \/ Crash(r)
         \/ \E i \in Invoices, c \in Channels : SelectChannel(r, i, c)
  PROVE  request'[s] = request[s]
BY DEF TypeOK, Handler, AcquireLock, RetryLock, DrawCode, WriteCode, Reply, RedisFails,
       QueryFails, Crash, SelectChannel

\* A handler in progress keeps its invoice and its channel, and its guard but for SET NX.
LEMMA HandlerMoves ==
  ASSUME TypeOK, NEW r \in Requests, Handler(r) \/ RedisFails(r), ~Reply(r)
  PROVE  /\ request[r] # Idle /\ request[r] \in Busy /\ request'[r] # Idle
         /\ request'[r].inv = request[r].inv /\ request'[r].channel = request[r].channel
         /\ AcquireLock(r) => request[r].stage = "locking" /\ request'[r].stage = "reading"
         /\ RetryLock(r) \/ RedisFails(r) =>
              /\ request[r].stage = "locking" /\ request'[r].stage \in {"locking", "reading"}
              /\ request'[r].guard = request[r].guard
         /\ DrawCode(r) =>
              /\ request[r].stage = "reading" /\ request'[r].stage = "writing"
              /\ request'[r].guard = request[r].guard
         /\ WriteCode(r) =>
              /\ request[r].stage = "writing" /\ request'[r].stage = "replying"
              /\ request'[r].guard = request[r].guard /\ request'[r].code = request[r].code
<1>1. request[r] \in Busy /\ request[r] # Idle
  BY InProgress DEF Handler, AcquireLock, RetryLock, DrawCode, WriteCode, RedisFails
<1>2. request[r] \in [stage: {"locking", "reading", "writing", "replying"},
             inv: Invoices, channel: Channels, tries: 0..(MaxRetries - 1),
             code: Nat, guard: {"none", "held", "lapsed"}]
  BY <1>1 DEF Busy
<1>3. CASE AcquireLock(r)
  BY <1>1, <1>2, <1>3 DEF AcquireLock, TypeOK, Idle, RetryLock, DrawCode, WriteCode, RedisFails
<1>4. CASE RetryLock(r)
  BY <1>1, <1>2, <1>4 DEF AcquireLock, TypeOK, Idle, RetryLock, DrawCode, WriteCode, RedisFails,
                          AfterTry
<1>5. CASE DrawCode(r)
  <2>1. request[r].stage = "reading"
    BY <1>5 DEF DrawCode
  <2>2. PICK code : request' = [request EXCEPT ![r].stage = "writing", ![r].code = code]
    BY <1>5 DEF DrawCode
  <2>3. /\ request'[r].stage = "writing" /\ request'[r].guard = request[r].guard
        /\ request'[r].inv = request[r].inv /\ request'[r].channel = request[r].channel
    BY <1>1, <1>2, <2>2 DEF TypeOK
  <2>4. request'[r] # Idle
    BY <2>3 DEF Idle
  <2>5. ~ AcquireLock(r) /\ ~ RetryLock(r) /\ ~ WriteCode(r) /\ ~ RedisFails(r)
    BY <2>1 DEF AcquireLock, RetryLock, WriteCode, RedisFails
  <2> QED BY <1>1, <2>1, <2>3, <2>4, <2>5
<1>6. CASE WriteCode(r)
  <2>1. request[r].stage = "writing"
    BY <1>6 DEF WriteCode
  <2>2. request' = [request EXCEPT ![r].stage = "replying"]
    BY <1>6 DEF WriteCode
  <2>3. /\ request'[r].stage = "replying" /\ request'[r].guard = request[r].guard
        /\ request'[r].inv = request[r].inv /\ request'[r].channel = request[r].channel
        /\ request'[r].code = request[r].code
    BY <1>1, <1>2, <2>2 DEF TypeOK
  <2>4. request'[r] # Idle
    BY <2>3 DEF Idle
  <2>5. ~ AcquireLock(r) /\ ~ RetryLock(r) /\ ~ DrawCode(r) /\ ~ RedisFails(r)
    BY <2>1 DEF AcquireLock, RetryLock, DrawCode, RedisFails
  <2> QED BY <1>1, <2>1, <2>3, <2>4, <2>5
<1>7. CASE RedisFails(r)
  BY <1>1, <1>2, <1>7 DEF AcquireLock, TypeOK, Idle, RetryLock, DrawCode, WriteCode, RedisFails
<1>8. QED
  BY <1>3, <1>4, <1>5, <1>6, <1>7 DEF Handler

\* A lock that expires takes the guard of the handler it names, nothing else.
LEMMA ExpiryMoves ==
  ASSUME TypeOK, NEW c \in Channels, LockExpires(c), NEW r \in Requests
  PROVE  /\ request'[r] # Idle <=> request[r] # Idle
         /\ request[r] # Idle =>
              /\ request'[r].stage = request[r].stage /\ request'[r].code = request[r].code
              /\ request'[r].inv = request[r].inv
              /\ request'[r].channel = request[r].channel
              /\ request'[r].guard # request[r].guard =>
                   request'[r].guard = "lapsed" /\ request[r].guard = "held"
         /\ (request[r] # Idle /\ request'[r].guard = "held") =>
              ~(request[r].channel = c /\ lock[c] = r)
<1>1. CASE /\ r = lock[c] /\ request[r] # Idle
           /\ request[r].channel = c /\ request[r].guard = "held"
  <2>1. request[r] \in [stage: {"locking", "reading", "writing", "replying"},
             inv: Invoices, channel: Channels, tries: 0..(MaxRetries - 1),
             code: Nat, guard: {"none", "held", "lapsed"}]
    BY <1>1, InProgress DEF Busy
  <2>2. request'[r] = [request[r] EXCEPT !.guard = "lapsed"]
    BY <1>1 DEF LockExpires
  <2>3. QED
    BY <1>1, <2>1, <2>2 DEF Idle
<1>2. CASE ~(/\ r = lock[c] /\ request[r] # Idle
             /\ request[r].channel = c /\ request[r].guard = "held")
  <2>1. request'[r] = request[r]
    BY <1>2 DEF LockExpires
  <2>2. QED
    BY <1>2, <2>1
<1>3. QED
  BY <1>1, <1>2

\* A lock that is released named the handler that released it.
LEMMA ReleaseFrees ==
  ASSUME TypeOK, NEW r \in Requests, lock' \in {lock, Released(r)}, NEW c \in Channels,
         lock'[c] # lock[c]
  PROVE  lock[c] = r
BY DEF Released, TypeOK

LEMMA LockHeldStep == TypeOK /\ LockHeld /\ [Next]_vars => LockHeld'
<1> SUFFICES ASSUME TypeOK, LockHeld, [Next]_vars,
                    NEW s \in Requests, request'[s] # Idle
             PROVE  /\ request'[s].guard = "held" => lock'[request'[s].channel] = s
                    /\ request'[s].guard # "none" => request'[s].stage # "locking"
  BY DEF LockHeld
<1>0. request[s] # Idle => request[s].channel \in Channels
  BY InProgress, BusyFields
<1>1. ASSUME NEW r \in Requests, NEW i \in Invoices, NEW c \in Channels, SelectChannel(r, i, c)
      PROVE  /\ request'[s].guard = "held" => lock'[request'[s].channel] = s
             /\ request'[s].guard # "none" => request'[s].stage # "locking"
  <2>1. CASE s = r
    BY <1>1, <2>1 DEF SelectChannel, TypeOK
  <2>2. CASE s # r
    BY <1>1, <2>2, OthersStay DEF SelectChannel, LockHeld
  <2>3. QED
    BY <2>1, <2>2
<1>2. ASSUME NEW r \in Requests, AcquireLock(r)
      PROVE  /\ request'[s].guard = "held" => lock'[request'[s].channel] = s
             /\ request'[s].guard # "none" => request'[s].stage # "locking"
  <2>1. request[r].channel \in Channels
    BY <1>2, InProgress, BusyFields DEF AcquireLock
  <2>2. CASE s = r
    BY <1>2, <2>1, <2>2, HandlerMoves DEF Handler, AcquireLock, Reply, TypeOK
  <2>3. CASE s # r
    BY <1>2, <2>1, <2>3, <1>0, OthersStay, CheckoutAssumption DEF Handler, AcquireLock, LockHeld, TypeOK
  <2>4. QED
    BY <2>2, <2>3
<1>3. ASSUME NEW r \in Requests, RetryLock(r) \/ RedisFails(r)
      PROVE  /\ request'[s].guard = "held" => lock'[request'[s].channel] = s
             /\ request'[s].guard # "none" => request'[s].stage # "locking"
  <2>0. /\ request[r] # Idle /\ request[r].stage = "locking"
        /\ request'[r].guard = request[r].guard
        /\ request[r].channel \in Channels
    BY <1>3, HandlerMoves, BusyFields DEF Handler, RetryLock, RedisFails, Reply
  <2>1. CASE s = r
    BY <2>0, <2>1, BusyFields, InProgress DEF LockHeld
  <2>2. CASE s # r
    <3>1. request'[s] = request[s]
      BY <1>3, <2>2, OthersStay DEF Handler
    <3>2. \A c \in Channels : lock[c] # None => lock'[c] = lock[c]
      BY <1>3, <2>0 DEF RetryLock, RedisFails, TypeOK
    <3>3. QED
      BY <3>1, <3>2, <1>0, CheckoutAssumption DEF LockHeld
  <2>3. QED
    BY <2>1, <2>2
<1>4. ASSUME NEW r \in Requests, DrawCode(r) \/ WriteCode(r)
      PROVE  /\ request'[s].guard = "held" => lock'[request'[s].channel] = s
             /\ request'[s].guard # "none" => request'[s].stage # "locking"
  <2>0. lock' = lock
    BY <1>4 DEF DrawCode, WriteCode
  <2>1. CASE s = r
    BY <1>4, <2>0, <2>1, HandlerMoves DEF Handler, DrawCode, WriteCode, Reply, LockHeld
  <2>2. CASE s # r
    BY <1>4, <2>0, <2>2, OthersStay DEF Handler, LockHeld
  <2>3. QED
    BY <2>1, <2>2
<1>5. ASSUME NEW r \in Requests, Reply(r) \/ QueryFails(r) \/ Crash(r)
      PROVE  /\ request'[s].guard = "held" => lock'[request'[s].channel] = s
             /\ request'[s].guard # "none" => request'[s].stage # "locking"
  <2>1. s # r
    BY <1>5 DEF Reply, QueryFails, Crash, TypeOK
  <2>2. request'[s] = request[s]
    BY <1>5, <2>1, OthersStay DEF Handler
  <2>3. lock' \in {lock, Released(r)}
    BY <1>5 DEF Reply, QueryFails, Crash
  <2>4. QED
    BY <2>1, <2>2, <2>3, <1>0, ReleaseFrees DEF LockHeld
<1>6. ASSUME NEW c \in Channels, LockExpires(c)
      PROVE  /\ request'[s].guard = "held" => lock'[request'[s].channel] = s
             /\ request'[s].guard # "none" => request'[s].stage # "locking"
  <2>1. /\ request[s] # Idle
        /\ request'[s].stage = request[s].stage /\ request'[s].channel = request[s].channel
        /\ request'[s].guard # request[s].guard => request[s].guard = "held"
    BY <1>6, ExpiryMoves
  <2>2. request'[s].guard # "none" => request'[s].stage # "locking"
    BY <2>1 DEF LockHeld
  <2>3. ASSUME request'[s].guard = "held" PROVE lock'[request'[s].channel] = s
    <3>1. ~(request[s].channel = c /\ lock[c] = s)
      BY <1>6, <2>1, <2>3, ExpiryMoves
    <3>2. lock[request[s].channel] = s
      BY <2>1, <2>3 DEF LockHeld
    <3>3. QED
      BY <1>6, <2>1, <3>1, <3>2, <1>0 DEF LockExpires, TypeOK
  <2>4. QED
    BY <2>2, <2>3
<1>7. ASSUME UNCHANGED <<request, lock>>
      PROVE  /\ request'[s].guard = "held" => lock'[request'[s].channel] = s
             /\ request'[s].guard # "none" => request'[s].stage # "locking"
  BY <1>7 DEF LockHeld
<1>8. QED
  BY <1>1, <1>2, <1>3, <1>4, <1>5, <1>6, <1>7
     DEF Next, Handler, vars, ShowChannel, ConfirmRead, ConfirmWrite, Close

-----------------------------------------------------------------------------
(* Codes.                                                                  *)

\* Histories grow.
LEMMA LooseGrows == ASSUME [Next]_vars PROVE loose \subseteq loose'
BY DEF Next, Handler, AcquireLock, RetryLock, DrawCode, WriteCode, Reply, RedisFails, QueryFails,
       Crash, SelectChannel, LockExpires, ShowChannel, ConfirmRead, ConfirmWrite, Close, vars

\* The handler that protected i, if it protected i at all, drew a code that no live
\* invoice of the channel has; any other row stays as it is.
LEMMA WrittenRow ==
  ASSUME TypeOK, NEW r \in Requests, WriteCode(r), NEW j \in Invoices
  PROVE  /\ invoice'[j].status = invoice[j].status
         /\ j # request[r].inv => invoice'[j] = invoice[j]
         /\ j = request[r].inv =>
              /\ invoice'[j].channel = request[r].channel /\ invoice'[j].code = request[r].code
              /\ request[r].guard # "held" => j \in loose'
BY DEF WriteCode, TypeOK, InvoiceRow

\* A row that is live in the next state was live with the same code, or is loose,
\* unless a handler wrote it.
LEMMA RowKept ==
  ASSUME TypeOK, [Next]_vars, \A r \in Requests : ~WriteCode(r),
         NEW j \in Invoices \ loose', invoice'[j].status \in Live
  PROVE  /\ invoice[j].status \in Live /\ j \notin loose
         /\ invoice'[j].channel = invoice[j].channel /\ invoice'[j].code = invoice[j].code
<1>1. ASSUME NEW i \in Invoices, ConfirmWrite(i) \/ Close(i)
      PROVE  /\ invoice[j].status \in Live
             /\ invoice'[j].channel = invoice[j].channel /\ invoice'[j].code = invoice[j].code
  BY <1>1 DEF ConfirmWrite, Close, TypeOK, InvoiceRow, Live
<1>2. CASE invoice' = invoice
  BY <1>2, LooseGrows
<1>3. (\E i \in Invoices : ConfirmWrite(i) \/ Close(i)) \/ invoice' = invoice
  BY DEF Next, Handler, AcquireLock, RetryLock, DrawCode, Reply, RedisFails, QueryFails, Crash,
         SelectChannel, LockExpires, ShowChannel, ConfirmRead, vars
<1>4. QED
  BY <1>1, <1>2, <1>3, LooseGrows

LEMMA CodesStep == TypeOK /\ DrawnIsFree /\ CodesDiffer /\ [Next]_vars => CodesDiffer'
<1> SUFFICES ASSUME TypeOK, DrawnIsFree, CodesDiffer, [Next]_vars,
                    NEW i \in Invoices \ loose', NEW j \in Invoices \ loose', SameChannel(i, j)'
             PROVE  invoice'[i].code # invoice'[j].code
  BY DEF CodesDiffer
<1>0. i \notin loose /\ j \notin loose
  BY LooseGrows
<1>1. CASE \A r \in Requests : ~WriteCode(r)
  <2>1. ASSUME NEW k \in Invoices \ loose', invoice'[k].status \in Live
        PROVE  /\ invoice[k].status \in Live /\ invoice'[k].channel = invoice[k].channel
               /\ invoice'[k].code = invoice[k].code
    BY <1>1, <2>1, RowKept
  <2>2. QED
    BY <1>0, <2>1 DEF SameChannel, CodesDiffer
<1>2. ASSUME NEW r \in Requests, WriteCode(r) PROVE invoice'[i].code # invoice'[j].code
  <2>0. request[r] # Idle /\ request[r].stage = "writing"
    BY <1>2, InProgress DEF WriteCode
  <2>1. ASSUME NEW k \in Invoices \ loose, NEW l \in Invoices \ loose', k # l,
               l = request[r].inv, invoice'[k].status \in Live,
               invoice'[k].channel = invoice'[l].channel
        PROVE  invoice'[k].code # invoice'[l].code
    <3>1. request[r].guard = "held"
      BY <1>2, <2>1, WrittenRow
    <3>2. invoice'[k] = invoice[k] /\ invoice'[l].channel = request[r].channel
          /\ invoice'[l].code = request[r].code
      BY <1>2, <2>1, WrittenRow
    <3>3. l \notin loose
      BY <2>1, LooseGrows
    <3>4. QED
      BY <2>0, <2>1, <3>1, <3>2, <3>3 DEF DrawnIsFree
  <2>2. CASE i # request[r].inv /\ j # request[r].inv
    BY <1>0, <1>2, <2>2, WrittenRow DEF SameChannel, CodesDiffer
  <2>3. QED
    BY <1>0, <2>1, <2>2 DEF SameChannel
<1>3. QED
  BY <1>1, <1>2

LEMMA DrawnStep == TypeOK /\ LockHeld /\ DrawnIsFree /\ [Next]_vars => DrawnIsFree'
<1> SUFFICES ASSUME TypeOK, LockHeld, DrawnIsFree, [Next]_vars,
                    NEW s \in Requests, NEW j \in Invoices \ loose',
                    request'[s] # Idle, request'[s].stage = "writing",
                    request'[s].guard = "held", request'[s].inv \notin loose',
                    j # request'[s].inv, invoice'[j].status \in Live,
                    invoice'[j].channel = request'[s].channel
             PROVE  invoice'[j].code # request'[s].code
  BY DEF DrawnIsFree
<1>0. loose \subseteq loose'
  BY LooseGrows
<1>1. ASSUME request[s] # Idle, request[s].stage = "writing", request[s].guard = "held",
             request'[s].inv = request[s].inv, request'[s].channel = request[s].channel,
             request'[s].code = request[s].code, \A r \in Requests : ~WriteCode(r)
      PROVE  invoice'[j].code # request'[s].code
  BY <1>0, <1>1, RowKept DEF DrawnIsFree
<1>2. ASSUME NEW r \in Requests, WriteCode(r) PROVE invoice'[j].code # request'[s].code
  <2>1. s # r
    BY <1>2, HandlerMoves DEF Handler, WriteCode, Reply
  <2>2. request'[s] = request[s]
    BY <1>2, <2>1, OthersStay DEF Handler
  <2>3. CASE j = request[r].inv
    <3>1. request[r].guard = "held" /\ request[r].channel = request[s].channel
      BY <1>2, <2>2, <2>3, WrittenRow
    <3>2. request[r] # Idle
      BY <1>2, InProgress DEF WriteCode
    <3>3. QED
      BY <2>1, <2>2, <3>1, <3>2 DEF LockHeld
  <2>4. CASE j # request[r].inv
    BY <1>0, <1>2, <2>2, <2>4, WrittenRow DEF DrawnIsFree
  <2>5. QED
    BY <2>3, <2>4
<1>3. ASSUME NEW r \in Requests, DrawCode(r) PROVE invoice'[j].code # request'[s].code
  <2>0. \A q \in Requests : ~WriteCode(q)
    <3>1. request[r].stage = "reading" /\ request'[r].stage = "writing" /\ request[r] \in Busy
      BY <1>3, HandlerMoves DEF Handler, DrawCode, Reply
    <3>2. invoice' = invoice /\ \A q \in Requests : q # r => request'[q] = request[q]
      BY <1>3, OthersStay DEF Handler, DrawCode
    <3>3. ASSUME NEW q \in Requests, WriteCode(q) PROVE FALSE
      <4>1. request[q].stage = "writing" /\ request'[q].stage = "replying"
        BY <3>3, HandlerMoves DEF Handler, WriteCode, Reply
      <4>2. QED
        BY <3>1, <3>2, <4>1
    <3>4. QED
      BY <3>3
  <2>1. CASE s = r
    <3>1. /\ request[r] \in Busy /\ request[r].inv = request'[r].inv
          /\ request[r].channel = request'[r].channel
      BY <1>3, HandlerMoves DEF Handler, DrawCode, Reply
    <3>2. PICK code \in Draw(request[r].inv, UsedCodes(request[r].inv, request[r].channel)) :
            /\ request' = [request EXCEPT ![r].stage = "writing", ![r].code = code]
            /\ loose' = IF code \in UsedCodes(request[r].inv, request[r].channel)
                        THEN loose \cup {request[r].inv} ELSE loose
      BY <1>3 DEF DrawCode
    <3>3. request'[r].code = code
      BY <3>1, <3>2 DEF TypeOK, Busy
    <3>4. request[r].inv \notin loose'
      BY <2>1, <3>1
    <3>5. code \notin UsedCodes(request[r].inv, request[r].channel)
      BY <3>2, <3>4
    <3>6. invoice' = invoice
      BY <1>3 DEF DrawCode
    <3>7. invoice[j].code \in UsedCodes(request[r].inv, request[r].channel)
      BY <2>1, <3>1, <3>6 DEF UsedCodes
    <3>8. QED
      BY <2>1, <3>3, <3>5, <3>6, <3>7
  <2>2. CASE s # r
    BY <1>1, <1>3, <2>0, <2>2, OthersStay DEF Handler
  <2>3. QED
    BY <2>1, <2>2
<1>4. CASE \A r \in Requests : ~WriteCode(r) /\ ~DrawCode(r)
  <2>1. ASSUME NEW r \in Requests, AcquireLock(r) \/ RetryLock(r) \/ RedisFails(r)
        PROVE  request'[s] = request[s]
    <3>1. request'[r].stage # "writing"
      BY <2>1, HandlerMoves DEF Handler, Reply, AcquireLock, RetryLock, RedisFails
    <3>2. QED
      BY <2>1, <3>1, OthersStay DEF Handler
  <2>2. ASSUME NEW r \in Requests,
               \/ Reply(r) \/ QueryFails(r) \/ Crash(r)
               \/ \E i \in Invoices, c \in Channels : SelectChannel(r, i, c)
        PROVE  request'[s] = request[s]
    <3>1. request'[r].stage # "writing"
      BY <2>2 DEF Reply, QueryFails, Crash, SelectChannel, TypeOK, Idle
    <3>2. QED
      BY <2>2, <3>1, OthersStay DEF Handler
  <2>3. ASSUME NEW c \in Channels, LockExpires(c)
        PROVE  /\ request[s] # Idle /\ request[s].stage = "writing"
               /\ request[s].guard = "held" /\ request'[s].inv = request[s].inv
               /\ request'[s].channel = request[s].channel
               /\ request'[s].code = request[s].code
    BY <2>3, ExpiryMoves
  <2>4. CASE request'[s] = request[s]
    BY <1>1, <1>4, <2>4
  <2>5. CASE \E c \in Channels : LockExpires(c)
    BY <1>1, <1>4, <2>3, <2>5
  <2>6. request'[s] = request[s] \/ \E c \in Channels : LockExpires(c)
    BY <1>4, <2>1, <2>2
       DEF Next, Handler, vars, ShowChannel, ConfirmRead, ConfirmWrite, Close
  <2>7. QED
    BY <2>4, <2>5, <2>6
<1>5. QED
  BY <1>2, <1>3, <1>4

-----------------------------------------------------------------------------
(* What the customer was shown.                                            *)

LEMMA DoubledGrows == ASSUME [Next]_vars PROVE doubled \subseteq doubled'
BY DEF Next, Handler, AcquireLock, RetryLock, DrawCode, WriteCode, Reply, RedisFails, QueryFails,
       Crash, SelectChannel, LockExpires, ShowChannel, ConfirmRead, ConfirmWrite, Close, vars

Selects == \E r \in Requests, i \in Invoices, c \in Channels : SelectChannel(r, i, c)

\* Only a selection puts a handler to work, and a handler keeps its invoice; only a
\* write makes it reply.
LEMMA HandlerStays ==
  ASSUME TypeOK, [Next]_vars, ~Selects, NEW q \in Requests, request'[q] # Idle
  PROVE  /\ request[q] # Idle
         /\ request'[q].inv = request[q].inv /\ request'[q].channel = request[q].channel
         /\ ~WriteCode(q) =>
              /\ request'[q].stage = "replying" <=> request[q].stage = "replying"
              /\ request'[q].stage = "replying" => request'[q].code = request[q].code
<1> DEFINE Same == /\ request[q] # Idle
                   /\ request'[q].inv = request[q].inv
                   /\ request'[q].channel = request[q].channel
                   /\ ~WriteCode(q) =>
                        /\ request'[q].stage = "replying" <=> request[q].stage = "replying"
                        /\ request'[q].stage = "replying" => request'[q].code = request[q].code
<1>1. CASE request'[q] = request[q]
  BY <1>1
<1>2. ASSUME NEW r \in Requests, Handler(r) \/ RedisFails(r), ~Reply(r) PROVE Same
  <2>1. CASE q = r
    BY <1>2, <2>1, HandlerMoves DEF Handler
  <2>2. CASE q # r
    BY <1>1, <1>2, <2>2, OthersStay
  <2>3. QED
    BY <2>1, <2>2
<1>3. ASSUME NEW r \in Requests, Reply(r) \/ QueryFails(r) \/ Crash(r) PROVE Same
  <2>1. q # r
    BY <1>3 DEF Reply, QueryFails, Crash, TypeOK
  <2>2. request'[q] = request[q]
    BY <1>3, <2>1, OthersStay DEF Handler
  <2>3. QED
    BY <1>1, <2>2
<1>4. ASSUME NEW c \in Channels, LockExpires(c) PROVE Same
  BY <1>4, ExpiryMoves
<1>5. CASE UNCHANGED request
  BY <1>1, <1>5
<1>6. QED
  BY <1>2, <1>3, <1>4, <1>5
     DEF Next, Handler, Selects, vars, ShowChannel, ConfirmRead, ConfirmWrite, Close

\* Only a write changes the channel and the code of a row.
LEMMA RowStays ==
  ASSUME TypeOK, [Next]_vars, \A r \in Requests : ~WriteCode(r), NEW i \in Invoices
  PROVE  invoice'[i].channel = invoice[i].channel /\ invoice'[i].code = invoice[i].code
<1>1. ASSUME NEW k \in Invoices, ConfirmWrite(k) \/ Close(k)
      PROVE  invoice'[i].channel = invoice[i].channel /\ invoice'[i].code = invoice[i].code
  BY <1>1 DEF ConfirmWrite, Close, TypeOK, InvoiceRow
<1>2. (\E k \in Invoices : ConfirmWrite(k) \/ Close(k)) \/ invoice' = invoice
  BY DEF Next, Handler, AcquireLock, RetryLock, DrawCode, Reply, RedisFails, QueryFails, Crash,
         SelectChannel, LockExpires, ShowChannel, ConfirmRead, vars
<1>3. QED
  BY <1>1, <1>2

\* A selection of an invoice no other handler works on leaves it single.
LEMMA SelectStep ==
  ASSUME TypeOK, OneHandler, NEW r \in Requests, NEW i \in Invoices, NEW c \in Channels,
         SelectChannel(r, i, c)
  PROVE  OneHandler'
<1>1. request'[r].inv = i /\ request'[r].stage = "locking" /\ request[r] = Idle
  BY DEF SelectChannel, TypeOK
<1>2. \A q \in Requests \ {r} : request'[q] = request[q]
  BY OthersStay
<1>3. doubled \subseteq doubled' /\ invoice' = invoice /\ invoice[i].channel = None
  BY DEF SelectChannel, Selectable
<1>4. ASSUME i \notin doubled' PROVE \A q \in Requests \ {r} : request[q] # Idle => request[q].inv # i
  BY <1>4 DEF SelectChannel, Handling
<1>5. QED
  BY <1>1, <1>2, <1>3, <1>4 DEF OneHandler

LEMMA OneHandlerStep == TypeOK /\ OneHandler /\ [Next]_vars => OneHandler'
<1> SUFFICES ASSUME TypeOK, OneHandler, [Next]_vars PROVE OneHandler'
  OBVIOUS
<1>1. CASE Selects
  BY <1>1, SelectStep DEF Selects
<1>2. CASE ~Selects
  <2> SUFFICES ASSUME NEW s \in Requests, request'[s] # Idle, request'[s].inv \notin doubled'
               PROVE  /\ \A q \in Requests :
                           (request'[q] # Idle /\ request'[q].inv = request'[s].inv) => q = s
                      /\ request'[s].stage # "replying" => invoice'[request'[s].inv].channel = None
                      /\ request'[s].stage = "replying" =>
                           /\ invoice'[request'[s].inv].channel = request'[s].channel
                           /\ invoice'[request'[s].inv].code = request'[s].code
    BY DEF OneHandler
  <2>1. /\ request[s] # Idle /\ request[s].inv \notin doubled /\ request[s].inv \in Invoices
        /\ request'[s].inv = request[s].inv /\ request'[s].channel = request[s].channel
    BY <1>2, HandlerStays, DoubledGrows, InProgress, BusyFields
  <2>2. \A q \in Requests : (request'[q] # Idle /\ request'[q].inv = request'[s].inv) => q = s
    BY <1>2, <2>1, HandlerStays DEF OneHandler
  <2>3. CASE \A r \in Requests : ~WriteCode(r)
    BY <1>2, <2>1, <2>2, <2>3, HandlerStays, RowStays DEF OneHandler
  <2>4. CASE WriteCode(s)
    <3>1. request'[s].stage = "replying" /\ request'[s].code = request[s].code
      BY <2>4, HandlerMoves DEF Handler, WriteCode, Reply
    <3>2. QED
      BY <2>1, <2>2, <2>4, <3>1, WrittenRow
  <2>5. ASSUME NEW r \in Requests, r # s, WriteCode(r)
        PROVE  /\ request'[s].stage # "replying" => invoice'[request'[s].inv].channel = None
               /\ request'[s].stage = "replying" =>
                    /\ invoice'[request'[s].inv].channel = request'[s].channel
                    /\ invoice'[request'[s].inv].code = request'[s].code
    <3>1. request[r] # Idle
      BY <2>5, InProgress DEF WriteCode
    <3>2. request[r].inv # request[s].inv
      BY <2>1, <2>5, <3>1 DEF OneHandler
    <3>3. request'[s] = request[s]
      BY <2>5, OthersStay DEF Handler
    <3>4. invoice'[request[s].inv] = invoice[request[s].inv]
      BY <2>1, <2>5, <3>2, WrittenRow
    <3>5. QED
      BY <2>1, <3>3, <3>4 DEF OneHandler
  <2>6. QED
    BY <2>2, <2>3, <2>4, <2>5
<1>3. QED
  BY <1>1, <1>2

\* The answer of a handler shows what it wrote.
LEMMA ToldStep == TypeOK /\ OneHandler /\ ToldStands /\ [Next]_vars => ToldStands'
<1> SUFFICES ASSUME TypeOK, OneHandler, ToldStands, [Next]_vars,
                    NEW i \in Invoices, i \notin doubled', told'[i].channel # None
             PROVE  told'[i] = [channel |-> invoice'[i].channel, code |-> invoice'[i].code]
  BY DEF ToldStands
<1>0. i \notin doubled
  BY DoubledGrows
<1>1. ASSUME NEW r \in Requests, WriteCode(r)
      PROVE  told'[i] = [channel |-> invoice'[i].channel, code |-> invoice'[i].code]
  <2>1. request[r] # Idle /\ request[r].stage = "writing" /\ told' = told
    BY <1>1, InProgress DEF WriteCode
  <2>2. told[i] = [channel |-> invoice[i].channel, code |-> invoice[i].code]
    BY <1>0, <2>1 DEF ToldStands
  <2>3. request[r].inv # i
    BY <1>0, <2>1, <2>2 DEF OneHandler
  <2>4. QED
    BY <1>1, <2>1, <2>2, <2>3, WrittenRow
<1>2. CASE \A r \in Requests : ~WriteCode(r)
  <2>1. invoice'[i].channel = invoice[i].channel /\ invoice'[i].code = invoice[i].code
    BY <1>2, RowStays
  <2>2. CASE told'[i] = told[i]
    BY <1>0, <2>1, <2>2 DEF ToldStands
  <2>3. ASSUME NEW r \in Requests, Reply(r), told'[i] # told[i]
        PROVE  told'[i] = [channel |-> invoice[i].channel, code |-> invoice[i].code]
    <3>1. /\ request[r] # Idle /\ request[r].stage = "replying" /\ request[r].inv = i
          /\ told'[i] = [channel |-> request[r].channel, code |-> request[r].code]
      BY <2>3, InProgress DEF Reply, TypeOK
    <3>2. QED
      BY <1>0, <3>1 DEF OneHandler
  <2>4. ASSUME NEW k \in Invoices, ShowChannel(k), told'[i] # told[i]
        PROVE  told'[i] = [channel |-> invoice[i].channel, code |-> invoice[i].code]
    BY <2>4 DEF ShowChannel, TypeOK
  <2>5. \/ told' = told \/ (\E r \in Requests : Reply(r)) \/ \E k \in Invoices : ShowChannel(k)
    BY DEF Next, Handler, AcquireLock, RetryLock, DrawCode, WriteCode, RedisFails, QueryFails,
           Crash, SelectChannel, LockExpires, ConfirmRead, ConfirmWrite, Close, vars
  <2>6. QED
    BY <2>1, <2>2, <2>3, <2>4, <2>5
<1>3. QED
  BY <1>1, <1>2

-----------------------------------------------------------------------------
\* The strengthening holds in every reachable state: the basis of the theorems below.
THEOREM CheckoutInvariant == Spec => []IInv
<1>1. IInv /\ [Next]_vars => IInv'
  BY TypeStep, LockHeldStep, DrawnStep, CodesStep, OneHandlerStep, ToldStep DEF IInv
<1>2. QED
  BY <1>1, InitIInv, PTL DEF Spec

\* Rows, locks and requests keep their types, and no request tries more than
\* MaxRetries times for a lock (assignUniqueCodeWithRetry).
THEOREM CheckoutTypes == Spec => []TypeOK
BY CheckoutInvariant, PTL DEF IInv

\* The lock makes the codes of a channel differ, whatever crashes and expires, except
\* for the codes that are written without its protection.
THEOREM CheckoutCodesDiffer == Spec => []CodesDiffer
BY CheckoutInvariant, PTL DEF IInv

\* What the customer was shown stands, if selections of the invoice did not overlap.
THEOREM CheckoutToldStands == Spec => []ToldStands
BY CheckoutInvariant, PTL DEF IInv

\* Both: the code of an invoice identifies it, to the match worker and its customer.
THEOREM CheckoutCodesStand == Spec => []CodesStand
BY CheckoutInvariant, PTL DEF IInv, CodesStand

(***************************************************************************)
(* Channels of the clients' own.                                           *)
(***************************************************************************)
OwnRequest ==
  [at : {"idle", "patch", "choose"} \cup Own!Adding \cup Own!Deleting,
   by : Clients \cup {None}, on : Own!Ids \cup {None}, number : Numbers \cup {None},
   max : 0..MaxPlan, active : {"kept", "on", "off"}]

\* Who adds is known, and what is written by its id has one.
Knows(r) ==
  /\ r.at \in Own!Adding => r.by \in Clients /\ r.number \in Numbers
  /\ r.at \in {"patch", "choose"} \cup Own!Deleting => r.on \in Own!Ids

OwnTypes ==
  /\ Own!TypeOK
  /\ edits \in [Requests -> OwnRequest]
  /\ \A q \in Requests : Knows(edits[q])

\* Channels are added one after the other.
OneAdds ==
  "overlap" \notin crossed =>
    \A q, p \in Requests :
      edits[q].at \in Own!Adding /\ edits[p].at \in Own!Adding => q = p

\* The channels of a client in a table of channels.
HeldIn(rows, c) ==
  {i \in Own!Ids : rows[i].by # None /\ ~ rows[i].deleted /\ rows[i].by = c}

\* A request counts against no more than the plan, and adds where there is room.
RoomIsLeft ==
  crossed \cap {"overlap", "lowered"} = {} =>
    /\ \A q \in Requests :
         /\ edits[q].at \in Own!Adding => edits[q].max <= plan[edits[q].by]
         /\ edits[q].at = "add" => Cardinality(HeldIn(channel, edits[q].by)) < edits[q].max
    /\ \A c \in Clients : Cardinality(HeldIn(channel, c)) <= plan[c]

\* The number that is about to be added is still no one's.
NumberIsFree ==
  crossed \cap {"overlap", "renumbered"} = {} =>
    /\ \A q \in Requests :
         /\ edits[q].at = "patch" => edits[q].number = None
         /\ edits[q].at \in {"count", "add"} =>
              \A i \in Own!Held : channel[i].number # edits[q].number
    /\ \A i, j \in Own!Held : channel[i].number = channel[j].number => i = j

\* Who deletes a channel is alone with it, finds no invoice on it, and leaves none
\* behind that writes it.
DeletedRests ==
  "crossed" \notin crossed =>
    /\ \A q \in Requests : edits[q].at \in Own!Deleting =>
         \A p \in Requests : edits[p].on = edits[q].on => p = q
    /\ \A q \in Requests : edits[q].at = "delete" => waits[edits[q].on] = "none"
    /\ \A i \in Own!Ids : channel[i].deleted =>
         /\ ~ channel[i].active /\ waits[i] = "none"
         /\ \A q \in Requests : edits[q].on # i

OwnInv == OwnTypes /\ OneAdds /\ RoomIsLeft /\ NumberIsFree /\ DeletedRests

\* What a request is when it begins, field by field.
LEMMA OwnOn ==
  ASSUME NEW at, NEW i
  PROVE  [Own!Idle EXCEPT !.at = at, !.on = i]
         = [at |-> at, by |-> None, on |-> i, number |-> None, max |-> 0, active |-> "kept"]
<1> DEFINE f == [Own!Idle EXCEPT !.at = at]
<1>1. f = [at |-> at, by |-> None, on |-> None, number |-> None, max |-> 0, active |-> "kept"]
  BY DEF Own!Idle
<1>2. [Own!Idle EXCEPT !.at = at, !.on = i] = [f EXCEPT !.on = i]
  OBVIOUS
<1> HIDE DEF f
<1> QED BY <1>1, <1>2

LEMMA OwnPatching ==
  ASSUME NEW i, NEW a, NEW n
  PROVE  [Own!Idle EXCEPT !.at = "patch", !.on = i, !.active = a, !.number = n]
         = [at |-> "patch", by |-> None, on |-> i, number |-> n, max |-> 0, active |-> a]
<1> DEFINE f == [Own!Idle EXCEPT !.at = "patch", !.on = i]
           g == [f EXCEPT !.active = a]
<1>1. f = [at |-> "patch", by |-> None, on |-> i, number |-> None, max |-> 0, active |-> "kept"]
  BY OwnOn
<1>2. [Own!Idle EXCEPT !.at = "patch", !.on = i, !.active = a, !.number = n]
      = [g EXCEPT !.number = n]
  OBVIOUS
<1> HIDE DEF f
<1>3. g = [at |-> "patch", by |-> None, on |-> i, number |-> None, max |-> 0, active |-> a]
  BY <1>1
<1> HIDE DEF g
<1> QED BY <1>2, <1>3

\* The steps with which a request begins, with the record it leaves in its slot.
Posted(q, c, n) ==
  /\ plan[c] > 0 /\ edits[q] = Own!Idle
  /\ edits' = [edits EXCEPT ![q] =
       [at |-> "number", by |-> c, on |-> None, number |-> n, max |-> plan[c],
        active |-> "kept"]]
  /\ crossed' = crossed \cup
       (IF \E o \in Requests : edits[o].at \in Own!Adding THEN {"overlap"} ELSE {})
  /\ UNCHANGED <<plan, channel, waits>>

Started(q, at, i) ==
  /\ edits[q] = Own!Idle
  /\ edits' = [edits EXCEPT ![q] =
       [at |-> at, by |-> None, on |-> i, number |-> None, max |-> 0, active |-> "kept"]]
  /\ crossed' = crossed \cup (IF Own!Crosses(i, at = "invoices") THEN {"crossed"} ELSE {})
  /\ UNCHANGED <<plan, channel, waits>>

Patching(q, i, a, n) ==
  /\ i \in Own!Held /\ edits[q] = Own!Idle
  /\ edits' = [edits EXCEPT ![q] =
       [at |-> "patch", by |-> None, on |-> i, number |-> n, max |-> 0, active |-> a]]
  /\ crossed' = crossed \cup (IF Own!Crosses(i, FALSE) THEN {"crossed"} ELSE {})
       \cup (IF n # None THEN {"renumbered"} ELSE {})
  /\ UNCHANGED <<plan, channel, waits>>

LEMMA OwnPost ==
  ASSUME NEW q, NEW c, NEW n, Own!PostChannel(q, c, n)
  PROVE  Posted(q, c, n)
<1> DEFINE m == plan[c]
           f == [Own!Idle EXCEPT !.at = "number"]
           g == [f EXCEPT !.by = c]
           h == [g EXCEPT !.number = n]
           r == [Own!Idle EXCEPT !.at = "number", !.by = c, !.number = n, !.max = m]
<1>1. Own!Begin(q, r)
  BY DEF Own!PostChannel
<1>2. f = [at |-> "number", by |-> None, on |-> None, number |-> None,
           max |-> 0, active |-> "kept"]
  BY DEF Own!Idle
<1> HIDE DEF m
<1>3. r = [h EXCEPT !.max = m]
  OBVIOUS
<1> HIDE DEF f
<1>4. g = [at |-> "number", by |-> c, on |-> None, number |-> None,
           max |-> 0, active |-> "kept"]
  BY <1>2
<1> HIDE DEF g
<1>5. h = [at |-> "number", by |-> c, on |-> None, number |-> n,
           max |-> 0, active |-> "kept"]
  BY <1>4
<1> HIDE DEF h
<1>6. r = [at |-> "number", by |-> c, on |-> None, number |-> n, max |-> m,
           active |-> "kept"]
  BY <1>3, <1>5
<1> HIDE DEF r
<1>7. edits[q] = Own!Idle /\ edits' = [edits EXCEPT ![q] =
       [at |-> "number", by |-> c, on |-> None, number |-> n, max |-> plan[c],
        active |-> "kept"]]
  BY <1>1, <1>6 DEF Own!Begin, m
<1> QED BY <1>7 DEF Own!PostChannel, Posted

LEMMA OwnDelete ==
  ASSUME NEW q, NEW i, Own!DeleteChannel(q, i)
  PROVE  Started(q, "invoices", i) /\ i \in Own!Held
<1> DEFINE r == [Own!Idle EXCEPT !.at = "invoices", !.on = i]
<1>1. r = [at |-> "invoices", by |-> None, on |-> i, number |-> None, max |-> 0,
           active |-> "kept"]
  BY OwnOn
<1>2. Own!Begin(q, r)
  BY DEF Own!DeleteChannel
<1> HIDE DEF r
<1>3. edits[q] = Own!Idle /\ edits' = [edits EXCEPT ![q] =
       [at |-> "invoices", by |-> None, on |-> i, number |-> None, max |-> 0, active |-> "kept"]]
  BY <1>1, <1>2 DEF Own!Begin
<1> QED BY <1>3 DEF Own!DeleteChannel, Started, Own!Crosses

LEMMA OwnChoose ==
  ASSUME NEW q, NEW i, Own!ChooseChannel(q, i)
  PROVE  Started(q, "choose", i) /\ channel[i].active /\ waits[i] = "none"
<1> DEFINE r == [Own!Idle EXCEPT !.at = "choose", !.on = i]
<1>1. r = [at |-> "choose", by |-> None, on |-> i, number |-> None, max |-> 0,
           active |-> "kept"]
  BY OwnOn
<1>2. Own!Begin(q, r)
  BY DEF Own!ChooseChannel
<1> HIDE DEF r
<1>3. edits[q] = Own!Idle /\ edits' = [edits EXCEPT ![q] =
       [at |-> "choose", by |-> None, on |-> i, number |-> None, max |-> 0, active |-> "kept"]]
  BY <1>1, <1>2 DEF Own!Begin
<1> QED BY <1>3 DEF Own!ChooseChannel, Started, Own!Crosses

LEMMA OwnPatch ==
  ASSUME NEW q, NEW i, NEW a, NEW n, Own!PatchChannel(q, i, a, n)
  PROVE  Patching(q, i, a, n)
<1> DEFINE r == [Own!Idle EXCEPT !.at = "patch", !.on = i, !.active = a, !.number = n]
<1>1. r = [at |-> "patch", by |-> None, on |-> i, number |-> n, max |-> 0, active |-> a]
  BY OwnPatching
<1>2. Own!Begin(q, r)
  BY DEF Own!PatchChannel
<1> HIDE DEF r
<1>3. edits[q] = Own!Idle /\ edits' = [edits EXCEPT ![q] =
       [at |-> "patch", by |-> None, on |-> i, number |-> n, max |-> 0, active |-> a]]
  BY <1>1, <1>2 DEF Own!Begin
<1> QED BY <1>3 DEF Own!PatchChannel, Patching, Own!Crosses

\* The rows after a change and after a deletion.
LEMMA OwnUpdated ==
  ASSUME OwnTypes, NEW q \in Requests, Own!UpdatesChannel(q)
  PROVE  /\ Own!TypeOK'
         /\ \A j \in Own!Ids :
              /\ channel'[j].by = channel[j].by /\ channel'[j].deleted = channel[j].deleted
              /\ edits[q].number = None => channel'[j].number = channel[j].number
              /\ edits[q].on # j => channel'[j] = channel[j]
<1> DEFINE k == edits[q].on
           a == IF edits[q].active = "kept" THEN channel[k].active ELSE edits[q].active = "on"
           n == IF edits[q].number = None THEN channel[k].number ELSE edits[q].number
           row == [by |-> channel[k].by, number |-> n, active |-> a,
                   deleted |-> channel[k].deleted]
           Row == [by : Clients \cup {None}, number : Numbers \cup {None},
                   active : BOOLEAN, deleted : BOOLEAN]
<1>1. k \in Own!Ids
  BY DEF Own!UpdatesChannel, OwnTypes, Knows
<1>2. channel[k] \in Row /\ channel \in [Own!Ids -> Row]
  BY <1>1 DEF OwnTypes, Own!TypeOK
<1>3. a \in BOOLEAN
  BY <1>2
<1>4. n \in Numbers \cup {None}
  BY <1>2 DEF OwnTypes, OwnRequest
<1>5. channel' = [[channel EXCEPT ![k].active = a] EXCEPT ![k].number = n]
  BY <1>1, <1>2 DEF Own!UpdatesChannel
<1> HIDE DEF k, a, n
<1>6. channel' = [channel EXCEPT ![k] = row]
  <2>1. [channel[k] EXCEPT !.active = a]
        = [by |-> channel[k].by, number |-> channel[k].number, active |-> a,
           deleted |-> channel[k].deleted]
    BY <1>2
  <2> DEFINE f == [channel EXCEPT ![k].active = a]
             mid == [by |-> channel[k].by, number |-> channel[k].number, active |-> a,
                     deleted |-> channel[k].deleted]
  <2>2. f = [channel EXCEPT ![k] = mid]
    BY <2>1
  <2>3. f[k] = mid
    BY <2>2, <1>1, <1>2
  <2>4. channel' = [f EXCEPT ![k].number = n]
    BY <1>5
  <2> HIDE DEF f
  <2>5. channel' = [f EXCEPT ![k] = [mid EXCEPT !.number = n]]
    BY <2>3, <2>4
  <2>6. [mid EXCEPT !.number = n] = row
    OBVIOUS
  <2>7. channel' = [f EXCEPT ![k] = row]
    BY <2>5, <2>6
  <2> QED BY <2>7, <2>2, <1>1, <1>2
<1>7. row \in Row
  BY <1>2, <1>3, <1>4
<1> HIDE DEF row
<1>8. channel' \in [Own!Ids -> Row]
  BY <1>6, <1>7, <1>2
<1>9. Own!TypeOK'
  BY <1>8 DEF OwnTypes, Own!TypeOK, Own!UpdatesChannel
<1>10. ASSUME NEW j \in Own!Ids
       PROVE  /\ channel'[j].by = channel[j].by /\ channel'[j].deleted = channel[j].deleted
              /\ edits[q].number = None => channel'[j].number = channel[j].number
              /\ edits[q].on # j => channel'[j] = channel[j]
  BY <1>6, <1>1, <1>2 DEF row, n, k
<1> QED BY <1>9, <1>10

LEMMA OwnMarked ==
  ASSUME OwnTypes, NEW q \in Requests, Own!MarksDeleted(q)
  PROVE  /\ Own!TypeOK' /\ edits[q].on \in Own!Ids
         /\ \A j \in Own!Ids :
              /\ channel'[j].by = channel[j].by /\ channel'[j].number = channel[j].number
              /\ channel'[j].deleted = (channel[j].deleted \/ j = edits[q].on)
              /\ channel'[j].active = (channel[j].active /\ j # edits[q].on)
<1> DEFINE k == edits[q].on
           no == FALSE
           yes == TRUE
           row == [by |-> channel[k].by, number |-> channel[k].number, active |-> no,
                   deleted |-> yes]
           Row == [by : Clients \cup {None}, number : Numbers \cup {None},
                   active : BOOLEAN, deleted : BOOLEAN]
<1>1. k \in Own!Ids
  BY DEF Own!MarksDeleted, OwnTypes, Knows, Own!Deleting
<1>2. channel[k] \in Row /\ channel \in [Own!Ids -> Row]
  BY <1>1 DEF OwnTypes, Own!TypeOK
<1>3. channel' = [[channel EXCEPT ![k].active = no] EXCEPT ![k].deleted = yes]
  BY <1>1, <1>2 DEF Own!MarksDeleted
<1>9. no \in BOOLEAN /\ yes \in BOOLEAN /\ ~ no /\ yes
  OBVIOUS
<1> HIDE DEF k, no, yes
<1>4. channel' = [channel EXCEPT ![k] = row]
  <2>1. [channel[k] EXCEPT !.active = no]
        = [by |-> channel[k].by, number |-> channel[k].number, active |-> no,
           deleted |-> channel[k].deleted]
    BY <1>2
  <2> DEFINE f == [channel EXCEPT ![k].active = no]
             mid == [by |-> channel[k].by, number |-> channel[k].number, active |-> no,
                     deleted |-> channel[k].deleted]
  <2>2. f = [channel EXCEPT ![k] = mid]
    BY <2>1
  <2>3. f[k] = mid
    BY <2>2, <1>1, <1>2
  <2>4. channel' = [f EXCEPT ![k].deleted = yes]
    BY <1>3
  <2> HIDE DEF f
  <2>5. channel' = [f EXCEPT ![k] = [mid EXCEPT !.deleted = yes]]
    BY <2>3, <2>4
  <2>6. [mid EXCEPT !.deleted = yes] = row
    OBVIOUS
  <2>7. channel' = [f EXCEPT ![k] = row]
    BY <2>5, <2>6
  <2> QED BY <2>7, <2>2, <1>1, <1>2
<1>5. row \in Row
  BY <1>2, <1>9
<1>6. channel' \in [Own!Ids -> Row]
  BY <1>4, <1>5, <1>2
<1>7. Own!TypeOK'
  BY <1>6 DEF OwnTypes, Own!TypeOK, Own!MarksDeleted
<1>8. ASSUME NEW j \in Own!Ids
      PROVE  /\ channel'[j].by = channel[j].by /\ channel'[j].number = channel[j].number
             /\ channel'[j].deleted = (channel[j].deleted \/ j = k)
             /\ channel'[j].active = (channel[j].active /\ j # k)
  <2>1. channel[j] \in Row
    BY <1>2
  <2>2. CASE j = k
    BY <2>2, <1>4, <1>1, <1>2, <1>9
  <2>3. CASE j # k
    BY <2>1, <2>3, <1>4, <1>1, <1>2
  <2> QED BY <2>2, <2>3
<1> QED BY <1>1, <1>7, <1>8 DEF k

-----------------------------------------------------------------------------
(* How many channels a client holds.                                       *)

LEMMA OwnCardinality == \A S : Own!Cardinality(S) = Cardinality(S)
BY DEF Cardinality, Own!Cardinality

LEMMA HeldByIsHeldIn == \A c : Own!HeldBy(c) = HeldIn(channel, c)
BY DEF Own!HeldBy, Own!Held, HeldIn

LEMMA HeldFinite ==
  ASSUME NEW rows, NEW c
  PROVE  IsFiniteSet(HeldIn(rows, c)) /\ Cardinality(HeldIn(rows, c)) \in Nat
<1>1. IsFiniteSet(Own!Ids)
  BY OwnAssumption, FS_Interval DEF Own!Ids
<1>2. HeldIn(rows, c) \subseteq Own!Ids
  BY DEF HeldIn
<1>3. IsFiniteSet(HeldIn(rows, c))
  BY <1>1, <1>2, FS_Subset
<1> QED BY <1>3, FS_CardinalityType

LEMMA HeldSame ==
  ASSUME NEW rows, NEW new, NEW c,
         \A j \in Own!Ids : new[j].by = rows[j].by /\ new[j].deleted = rows[j].deleted
  PROVE  HeldIn(new, c) = HeldIn(rows, c)
BY DEF HeldIn

LEMMA HeldLess ==
  ASSUME NEW rows, NEW new, NEW c, HeldIn(new, c) \subseteq HeldIn(rows, c)
  PROVE  Cardinality(HeldIn(new, c)) <= Cardinality(HeldIn(rows, c))
BY HeldFinite, FS_Subset

LEMMA HeldMore ==
  ASSUME NEW rows, NEW new, NEW c, NEW i,
         HeldIn(new, c) \subseteq HeldIn(rows, c) \cup {i}
  PROVE  Cardinality(HeldIn(new, c)) <= Cardinality(HeldIn(rows, c)) + 1
<1> DEFINE S == HeldIn(rows, c)
<1>1. IsFiniteSet(S) /\ Cardinality(S) \in Nat
  BY HeldFinite
<1>2. IsFiniteSet(S \cup {i}) /\ Cardinality(S \cup {i}) <= Cardinality(S) + 1
  BY <1>1, FS_AddElement
<1>3. Cardinality(HeldIn(new, c)) <= Cardinality(S \cup {i})
  BY <1>2, FS_Subset
<1>4. Cardinality(S \cup {i}) \in Nat /\ Cardinality(HeldIn(new, c)) \in Nat
  BY <1>2, HeldFinite, FS_CardinalityType
<1> QED BY <1>1, <1>2, <1>3, <1>4

-----------------------------------------------------------------------------

\* Types, and what a request of each stage knows.
LEMMA OwnTypesStep ==
  OwnTypes /\ [Own!Next]_(Own!vars) => OwnTypes'
<1> SUFFICES ASSUME OwnTypes, [Own!Next]_(Own!vars)
             PROVE  OwnTypes'
  OBVIOUS
<1>1. ASSUME NEW q \in Requests, NEW c \in Clients, NEW n \in Numbers,
           Own!PostChannel(q, c, n)
    PROVE  OwnTypes'
  <2> DEFINE r == [at |-> "number", by |-> c, on |-> None, number |-> n,
                  max |-> plan[c], active |-> "kept"]
  <2>0. Posted(q, c, n)
    BY <1>1, OwnPost
  <2>1. r \in OwnRequest /\ Knows(r)
    BY <2>0, OwnAssumption DEF Posted, OwnTypes, Own!TypeOK, OwnRequest, Knows, Own!Ids,
      Own!Adding, Own!Deleting, Own!Held
  <2>2. edits' = [edits EXCEPT ![q] = r] /\ UNCHANGED <<plan, channel, waits>>
    BY <2>0 DEF Posted
  <2> HIDE DEF r
  <2> QED BY <2>1, <2>2 DEF OwnTypes, Own!TypeOK, Knows
<1>2. ASSUME NEW q \in Requests, NEW i \in Own!Ids,
           Own!AddsChannel(q, i)
    PROVE  OwnTypes'
  <2>1. Own!Idle \in OwnRequest /\ Knows(Own!Idle)
    BY OwnAssumption DEF Own!Idle, OwnRequest, Knows, Own!Adding, Own!Deleting
  <2>2. edits' = [edits EXCEPT ![q] = Own!Idle]
    BY <1>2 DEF Own!AddsChannel, Own!End
  <2>3. Own!TypeOK'
    <3>1. [by |-> edits[q].by, number |-> edits[q].number, active |-> TRUE, deleted |-> FALSE]
          \in [by : Clients \cup {None}, number : Numbers \cup {None},
              active : BOOLEAN, deleted : BOOLEAN]
      BY DEF OwnTypes, OwnRequest
    <3> QED BY <3>1, <1>2 DEF Own!AddsChannel, OwnTypes, Own!TypeOK
  <2> QED BY <2>1, <2>2, <2>3 DEF OwnTypes, Knows
<1>3. ASSUME NEW q \in Requests, NEW i \in Own!Ids,
           Own!DeleteChannel(q, i)
    PROVE  OwnTypes'
  <2> DEFINE r == [at |-> "invoices", by |-> None, on |-> i, number |-> None,
                  max |-> 0, active |-> "kept"]
  <2>0. Started(q, "invoices", i)
    BY <1>3, OwnDelete
  <2>1. r \in OwnRequest /\ Knows(r)
    BY <2>0, OwnAssumption DEF Started, OwnTypes, Own!TypeOK, OwnRequest, Knows, Own!Ids,
      Own!Adding, Own!Deleting, Own!Held
  <2>2. edits' = [edits EXCEPT ![q] = r] /\ UNCHANGED <<plan, channel, waits>>
    BY <2>0 DEF Started
  <2> HIDE DEF r
  <2> QED BY <2>1, <2>2 DEF OwnTypes, Own!TypeOK, Knows
<1>4. ASSUME NEW q \in Requests, NEW i \in Own!Ids,
           Own!ChooseChannel(q, i)
    PROVE  OwnTypes'
  <2> DEFINE r == [at |-> "choose", by |-> None, on |-> i, number |-> None,
                  max |-> 0, active |-> "kept"]
  <2>0. Started(q, "choose", i)
    BY <1>4, OwnChoose
  <2>1. r \in OwnRequest /\ Knows(r)
    BY <2>0, OwnAssumption DEF Started, OwnTypes, Own!TypeOK, OwnRequest, Knows, Own!Ids,
      Own!Adding, Own!Deleting, Own!Held
  <2>2. edits' = [edits EXCEPT ![q] = r] /\ UNCHANGED <<plan, channel, waits>>
    BY <2>0 DEF Started
  <2> HIDE DEF r
  <2> QED BY <2>1, <2>2 DEF OwnTypes, Own!TypeOK, Knows
<1>5. ASSUME NEW q \in Requests, NEW i \in Own!Ids,
           NEW a \in {"kept", "on", "off"}, NEW n \in Numbers \cup {None},
           Own!PatchChannel(q, i, a, n)
    PROVE  OwnTypes'
  <2> DEFINE r == [at |-> "patch", by |-> None, on |-> i, number |-> n,
                  max |-> 0, active |-> a]
  <2>0. Patching(q, i, a, n)
    BY <1>5, OwnPatch
  <2>1. r \in OwnRequest /\ Knows(r)
    BY <2>0, OwnAssumption DEF Patching, OwnTypes, Own!TypeOK, OwnRequest, Knows,
      Own!Ids, Own!Adding, Own!Deleting, Own!Held
  <2>2. edits' = [edits EXCEPT ![q] = r] /\ UNCHANGED <<plan, channel, waits>>
    BY <2>0 DEF Patching
  <2> HIDE DEF r
  <2> QED BY <2>1, <2>2 DEF OwnTypes, Own!TypeOK, Knows
<1>6. ASSUME NEW q \in Requests,
           Own!LooksForNumber(q)
    PROVE  OwnTypes'
  <2> DEFINE r == [edits[q] EXCEPT !.at = "count"]
  <2>1. Own!Idle \in OwnRequest /\ Knows(Own!Idle)
    BY OwnAssumption DEF Own!Idle, OwnRequest, Knows, Own!Adding, Own!Deleting
  <2>2. r \in OwnRequest /\ Knows(r)
    BY <1>6 DEF Own!LooksForNumber, OwnTypes, OwnRequest, Knows, Own!Adding, Own!Deleting
  <2> HIDE DEF r
  <2>3. edits' \in [Requests -> OwnRequest] /\ \A p \in Requests : edits'[p] \in {r, Own!Idle, edits[p]}
    BY <2>1, <2>2, <1>6 DEF Own!LooksForNumber, OwnTypes, r
  <2> QED BY <2>1, <2>2, <2>3, <1>6 DEF OwnTypes, Own!TypeOK, Knows, Own!LooksForNumber
<1>7. ASSUME NEW q \in Requests,
           Own!CountsChannels(q)
    PROVE  OwnTypes'
  <2> DEFINE r == [edits[q] EXCEPT !.at = "add"]
  <2>1. Own!Idle \in OwnRequest /\ Knows(Own!Idle)
    BY OwnAssumption DEF Own!Idle, OwnRequest, Knows, Own!Adding, Own!Deleting
  <2>2. r \in OwnRequest /\ Knows(r)
    BY <1>7 DEF Own!CountsChannels, OwnTypes, OwnRequest, Knows, Own!Adding, Own!Deleting
  <2> HIDE DEF r
  <2>3. edits' \in [Requests -> OwnRequest] /\ \A p \in Requests : edits'[p] \in {r, Own!Idle, edits[p]}
    BY <2>1, <2>2, <1>7 DEF Own!CountsChannels, OwnTypes, r
  <2> QED BY <2>1, <2>2, <2>3, <1>7 DEF OwnTypes, Own!TypeOK, Knows, Own!CountsChannels
<1>8. ASSUME NEW q \in Requests,
           Own!UpdatesChannel(q)
    PROVE  OwnTypes'
  <2>1. Own!Idle \in OwnRequest /\ Knows(Own!Idle)
    BY OwnAssumption DEF Own!Idle, OwnRequest, Knows, Own!Adding, Own!Deleting
  <2>2. edits' = [edits EXCEPT ![q] = Own!Idle]
    BY <1>8 DEF Own!UpdatesChannel, Own!End
  <2>3. Own!TypeOK'
    BY <1>8, OwnUpdated
  <2> QED BY <2>1, <2>2, <2>3 DEF OwnTypes, Knows
<1>9. ASSUME NEW q \in Requests,
           Own!CountsInvoices(q)
    PROVE  OwnTypes'
  <2> DEFINE r == [edits[q] EXCEPT !.at = "delete"]
  <2>1. Own!Idle \in OwnRequest /\ Knows(Own!Idle)
    BY OwnAssumption DEF Own!Idle, OwnRequest, Knows, Own!Adding, Own!Deleting
  <2>2. r \in OwnRequest /\ Knows(r)
    BY <1>9 DEF Own!CountsInvoices, OwnTypes, OwnRequest, Knows, Own!Adding, Own!Deleting
  <2> HIDE DEF r
  <2>3. edits' \in [Requests -> OwnRequest] /\ \A p \in Requests : edits'[p] \in {r, Own!Idle, edits[p]}
    BY <2>1, <2>2, <1>9 DEF Own!CountsInvoices, OwnTypes, r
  <2> QED BY <2>1, <2>2, <2>3, <1>9 DEF OwnTypes, Own!TypeOK, Knows, Own!CountsInvoices
<1>10. ASSUME NEW q \in Requests,
           Own!MarksDeleted(q)
    PROVE  OwnTypes'
  <2>1. Own!Idle \in OwnRequest /\ Knows(Own!Idle)
    BY OwnAssumption DEF Own!Idle, OwnRequest, Knows, Own!Adding, Own!Deleting
  <2>2. edits' = [edits EXCEPT ![q] = Own!Idle]
    BY <1>10 DEF Own!MarksDeleted, Own!End
  <2>3. Own!TypeOK'
    BY <1>10, OwnMarked
  <2> QED BY <2>1, <2>2, <2>3 DEF OwnTypes, Knows
<1>11. ASSUME NEW q \in Requests,
           Own!PutsInvoice(q)
    PROVE  OwnTypes'
  <2>1. Own!Idle \in OwnRequest /\ Knows(Own!Idle)
    BY OwnAssumption DEF Own!Idle, OwnRequest, Knows, Own!Adding, Own!Deleting
  <2>2. edits' = [edits EXCEPT ![q] = Own!Idle]
    BY <1>11 DEF Own!PutsInvoice, Own!End
  <2>3. Own!TypeOK'
    BY <1>11 DEF Own!PutsInvoice, OwnTypes, Own!TypeOK, Knows, Own!Statuses
  <2> QED BY <2>1, <2>2, <2>3 DEF OwnTypes, Knows
<1>12. ASSUME NEW q \in Requests,
           Own!RequestFails(q)
    PROVE  OwnTypes'
  <2>1. Own!Idle \in OwnRequest /\ Knows(Own!Idle)
    BY OwnAssumption DEF Own!Idle, OwnRequest, Knows, Own!Adding, Own!Deleting
  <2>2. edits' = [edits EXCEPT ![q] = Own!Idle]
    BY <1>12 DEF Own!RequestFails, Own!End
  <2>3. Own!TypeOK'
    BY <1>12 DEF Own!RequestFails, OwnTypes, Own!TypeOK
  <2> QED BY <2>1, <2>2, <2>3 DEF OwnTypes, Knows
<1>13. ASSUME NEW i \in Own!Ids,
           Own!InvoiceConfirmed(i)
    PROVE  OwnTypes'
  BY <1>13, OwnAssumption DEF Own!InvoiceConfirmed, OwnTypes, OwnRequest, Knows,
    Own!TypeOK, Own!Statuses, Own!Ids, Own!Idle, Own!Adding, Own!Deleting, Own!Held
<1>14. ASSUME NEW i \in Own!Ids,
           Own!InvoiceCloses(i)
    PROVE  OwnTypes'
  BY <1>14, OwnAssumption DEF Own!InvoiceCloses, OwnTypes, OwnRequest, Knows, Own!TypeOK,
    Own!Statuses, Own!Ids, Own!Idle, Own!Adding, Own!Deleting, Own!Held
<1>15. ASSUME NEW c \in Clients, NEW n \in 0 .. MaxPlan,
           Own!PlanChanges(c, n)
    PROVE  OwnTypes'
  BY <1>15, OwnAssumption DEF Own!PlanChanges, OwnTypes, OwnRequest, Knows, Own!TypeOK,
    Own!Statuses, Own!Ids, Own!Idle, Own!Adding, Own!Deleting, Own!Held
<1>16. CASE UNCHANGED Own!vars
  BY <1>16, OwnAssumption DEF Own!vars, OwnTypes, OwnRequest, Knows, Own!TypeOK,
    Own!Statuses, Own!Ids, Own!Idle, Own!Adding, Own!Deleting, Own!Held
<1> QED BY <1>1, <1>2, <1>3, <1>4, <1>5, <1>6, <1>7, <1>8, <1>9, <1>10, <1>11, <1>12,
  <1>13, <1>14, <1>15, <1>16
  DEF Own!Next

\* A second request to add is noted when it begins.
LEMMA OneAddsStep ==
  OwnTypes /\ OneAdds /\ [Own!Next]_(Own!vars) => OneAdds'
<1> SUFFICES ASSUME OwnTypes, OneAdds, [Own!Next]_(Own!vars)
             PROVE  OneAdds'
  OBVIOUS
<1>1. ASSUME NEW q \in Requests, NEW c \in Clients, NEW n \in Numbers,
           Own!PostChannel(q, c, n)
    PROVE  OneAdds'
  <2>1. Posted(q, c, n)
    BY <1>1, OwnPost
  <2> QED BY <2>1 DEF Posted, OneAdds, OwnTypes, OwnRequest, Own!Adding
<1>2. ASSUME NEW q \in Requests, NEW i \in Own!Ids,
           Own!AddsChannel(q, i)
    PROVE  OneAdds'
  BY <1>2, OwnAssumption DEF Own!AddsChannel, OneAdds, OwnTypes, OwnRequest, Own!Idle,
    Own!End, Own!Adding
<1>3. ASSUME NEW q \in Requests, NEW i \in Own!Ids,
           Own!DeleteChannel(q, i)
    PROVE  OneAdds'
  <2>1. Started(q, "invoices", i)
    BY <1>3, OwnDelete
  <2> QED BY <2>1 DEF Started, OneAdds, OwnTypes, OwnRequest, Own!Adding
<1>4. ASSUME NEW q \in Requests, NEW i \in Own!Ids,
           Own!ChooseChannel(q, i)
    PROVE  OneAdds'
  <2>1. Started(q, "choose", i)
    BY <1>4, OwnChoose
  <2> QED BY <2>1 DEF Started, OneAdds, OwnTypes, OwnRequest, Own!Adding
<1>5. ASSUME NEW q \in Requests, NEW i \in Own!Ids,
           NEW a \in {"kept", "on", "off"}, NEW n \in Numbers \cup {None},
           Own!PatchChannel(q, i, a, n)
    PROVE  OneAdds'
  <2>1. Patching(q, i, a, n)
    BY <1>5, OwnPatch
  <2> QED BY <2>1 DEF Patching, OneAdds, OwnTypes, OwnRequest, Own!Adding
<1>6. ASSUME NEW q \in Requests,
           Own!LooksForNumber(q)
    PROVE  OneAdds'
  BY <1>6, OwnAssumption DEF Own!LooksForNumber, OneAdds, OwnTypes, OwnRequest, Own!Idle,
    Own!Adding
<1>7. ASSUME NEW q \in Requests,
           Own!CountsChannels(q)
    PROVE  OneAdds'
  BY <1>7, OwnAssumption DEF Own!CountsChannels, OneAdds, OwnTypes, OwnRequest, Own!Idle,
    Own!Adding
<1>8. ASSUME NEW q \in Requests,
           Own!UpdatesChannel(q)
    PROVE  OneAdds'
  BY <1>8, OwnAssumption DEF Own!UpdatesChannel, OneAdds, OwnTypes, OwnRequest, Own!Idle,
    Own!End, Own!Adding
<1>9. ASSUME NEW q \in Requests,
           Own!CountsInvoices(q)
    PROVE  OneAdds'
  BY <1>9, OwnAssumption DEF Own!CountsInvoices, OneAdds, OwnTypes, OwnRequest, Own!Idle,
    Own!Adding
<1>10. ASSUME NEW q \in Requests,
           Own!MarksDeleted(q)
    PROVE  OneAdds'
  BY <1>10, OwnAssumption DEF Own!MarksDeleted, OneAdds, OwnTypes, OwnRequest, Own!Idle,
    Own!End, Own!Adding
<1>11. ASSUME NEW q \in Requests,
           Own!PutsInvoice(q)
    PROVE  OneAdds'
  BY <1>11, OwnAssumption DEF Own!PutsInvoice, OneAdds, OwnTypes, OwnRequest, Own!Idle,
    Own!End, Own!Adding
<1>12. ASSUME NEW q \in Requests,
           Own!RequestFails(q)
    PROVE  OneAdds'
  BY <1>12, OwnAssumption DEF Own!RequestFails, OneAdds, OwnTypes, OwnRequest, Own!Idle,
    Own!End, Own!Adding
<1>13. ASSUME NEW i \in Own!Ids,
           Own!InvoiceConfirmed(i)
    PROVE  OneAdds'
  BY <1>13, OwnAssumption DEF Own!InvoiceConfirmed, OneAdds, OwnTypes, OwnRequest,
    Own!Idle, Own!Adding
<1>14. ASSUME NEW i \in Own!Ids,
           Own!InvoiceCloses(i)
    PROVE  OneAdds'
  BY <1>14, OwnAssumption DEF Own!InvoiceCloses, OneAdds, OwnTypes, OwnRequest, Own!Idle,
    Own!Adding
<1>15. ASSUME NEW c \in Clients, NEW n \in 0 .. MaxPlan,
           Own!PlanChanges(c, n)
    PROVE  OneAdds'
  BY <1>15, OwnAssumption DEF Own!PlanChanges, OneAdds, OwnTypes, OwnRequest, Own!Idle,
    Own!Adding
<1>16. CASE UNCHANGED Own!vars
  BY <1>16, OwnAssumption DEF Own!vars, OneAdds, OwnTypes, OwnRequest,
    Own!Idle, Own!Begin, Own!End, Own!Adding
<1> QED BY <1>1, <1>2, <1>3, <1>4, <1>5, <1>6, <1>7, <1>8, <1>9, <1>10, <1>11, <1>12,
  <1>13, <1>14, <1>15, <1>16
  DEF Own!Next

\* A channel is added where there was room for it when it was counted.
LEMMA RoomStep ==
  OwnTypes /\ OneAdds /\ RoomIsLeft /\ [Own!Next]_(Own!vars) => RoomIsLeft'
<1> SUFFICES ASSUME OwnTypes, OneAdds, RoomIsLeft, [Own!Next]_(Own!vars)
             PROVE  RoomIsLeft'
  OBVIOUS
<1>1. ASSUME NEW q \in Requests, NEW c \in Clients, NEW n \in Numbers,
           Own!PostChannel(q, c, n)
    PROVE  RoomIsLeft'
  <2>1. Posted(q, c, n)
    BY <1>1, OwnPost
  <2> QED BY <2>1 DEF Posted, RoomIsLeft, OwnTypes, OwnRequest, Own!TypeOK, Own!Adding,
    Own!Deleting
<1>2. ASSUME NEW q \in Requests, NEW i \in Own!Ids,
           Own!AddsChannel(q, i)
    PROVE  RoomIsLeft'
  <2> SUFFICES ASSUME crossed \cap {"overlap", "lowered"} = {}
               PROVE  RoomIsLeft'
    BY <1>2 DEF Own!AddsChannel, RoomIsLeft
  <2> DEFINE b == edits[q].by
  <2>1. \A p \in Requests : edits'[p].at \notin Own!Adding
    BY <1>2 DEF Own!AddsChannel, Own!End, Own!Idle, OneAdds, Own!Adding, OwnTypes
  <2>2. b \in Clients /\ edits[q].max <= plan[b] /\ Cardinality(HeldIn(channel, b)) < edits[q].max
    BY <1>2 DEF Own!AddsChannel, Own!Adding, RoomIsLeft, OwnTypes, Knows
  <2>3. \A j \in Own!Ids : j # i => channel'[j] = channel[j]
    BY <1>2 DEF Own!AddsChannel, OwnTypes, Own!TypeOK
  <2>4. channel'[i].by = b
    BY <1>2 DEF Own!AddsChannel, OwnTypes, Own!TypeOK
  <2>5. edits[q].max \in Nat /\ plan \in [Clients -> 0..MaxPlan] /\ plan' = plan
    BY <1>2, OwnAssumption DEF Own!AddsChannel, OwnTypes, Own!TypeOK, OwnRequest
  <2>6. Cardinality(HeldIn(channel', b)) <= plan[b]
    <3>1. HeldIn(channel', b) \subseteq HeldIn(channel, b) \cup {i}
      BY <2>3 DEF HeldIn
    <3>2. Cardinality(HeldIn(channel', b)) <= Cardinality(HeldIn(channel, b)) + 1
      BY <3>1, HeldMore
    <3> QED BY <3>2, <2>2, <2>5, HeldFinite, OwnAssumption
  <2>7. ASSUME NEW c \in Clients, c # b
        PROVE  Cardinality(HeldIn(channel', c)) <= plan[c]
    <3>1. HeldIn(channel', c) \subseteq HeldIn(channel, c)
      BY <2>3, <2>4, <2>7 DEF HeldIn
    <3>2. Cardinality(HeldIn(channel', c)) <= Cardinality(HeldIn(channel, c))
      BY <3>1, HeldLess
    <3>3. Cardinality(HeldIn(channel, c)) <= plan[c]
      BY DEF RoomIsLeft
    <3> QED BY <3>2, <3>3, <2>5, HeldFinite, OwnAssumption
  <2> QED BY <2>1, <2>5, <2>6, <2>7 DEF RoomIsLeft, Own!Adding
<1>3. ASSUME NEW q \in Requests, NEW i \in Own!Ids,
           Own!DeleteChannel(q, i)
    PROVE  RoomIsLeft'
  <2>1. Started(q, "invoices", i)
    BY <1>3, OwnDelete
  <2> QED BY <2>1 DEF Started, RoomIsLeft, OwnTypes, OwnRequest, Own!TypeOK, Own!Adding,
    Own!Deleting
<1>4. ASSUME NEW q \in Requests, NEW i \in Own!Ids,
           Own!ChooseChannel(q, i)
    PROVE  RoomIsLeft'
  <2>1. Started(q, "choose", i)
    BY <1>4, OwnChoose
  <2> QED BY <2>1 DEF Started, RoomIsLeft, OwnTypes, OwnRequest, Own!TypeOK, Own!Adding,
    Own!Deleting
<1>5. ASSUME NEW q \in Requests, NEW i \in Own!Ids,
           NEW a \in {"kept", "on", "off"}, NEW n \in Numbers \cup {None},
           Own!PatchChannel(q, i, a, n)
    PROVE  RoomIsLeft'
  <2>1. Patching(q, i, a, n)
    BY <1>5, OwnPatch
  <2> QED BY <2>1 DEF Patching, RoomIsLeft, OwnTypes, OwnRequest, Own!TypeOK, Own!Adding,
    Own!Deleting
<1>6. ASSUME NEW q \in Requests,
           Own!LooksForNumber(q)
    PROVE  RoomIsLeft'
  BY <1>6, OwnAssumption, HeldFinite DEF Own!LooksForNumber, RoomIsLeft, OwnTypes,
    OwnRequest, Own!TypeOK, Own!Idle, Own!Adding
<1>7. ASSUME NEW q \in Requests,
           Own!CountsChannels(q)
    PROVE  RoomIsLeft'
  <2>1. \A c : Own!Cardinality(Own!HeldBy(c)) = Cardinality(HeldIn(channel, c))
    BY OwnCardinality, HeldByIsHeldIn
  <2>2. ~ Own!Full(q) => Cardinality(HeldIn(channel, edits[q].by)) < edits[q].max
    BY <2>1, HeldFinite, OwnAssumption DEF Own!Full, OwnTypes, OwnRequest
  <2> QED BY <2>2, <1>7 DEF Own!CountsChannels, RoomIsLeft, OwnTypes, OwnRequest,
    Own!Idle, Own!Adding
<1>8. ASSUME NEW q \in Requests,
           Own!UpdatesChannel(q)
    PROVE  RoomIsLeft'
  <2>1. \A p \in Requests :
          edits'[p].at \in Own!Adding => edits'[p] = edits[p]
    BY <1>8 DEF Own!UpdatesChannel, Own!End, Own!Idle, Own!Adding, OwnTypes
  <2>2. plan' = plan /\ crossed' = crossed
    BY <1>8 DEF Own!UpdatesChannel
  <2>3. \A c : Cardinality(HeldIn(channel', c)) <= Cardinality(HeldIn(channel, c))
    <3>1. \A j \in Own!Ids : /\ channel'[j].by = channel[j].by
                             /\ channel[j].deleted => channel'[j].deleted
      BY <1>8, OwnUpdated
    <3>2. \A c : HeldIn(channel', c) \subseteq HeldIn(channel, c)
      BY <3>1 DEF HeldIn
    <3> QED BY <3>2, HeldLess
  <2>4. plan \in [Clients -> 0..MaxPlan] /\ \A p \in Requests : edits[p].max \in Nat
    BY OwnAssumption DEF OwnTypes, Own!TypeOK, OwnRequest
  <2>5. \A c : Cardinality(HeldIn(channel', c)) \in Nat /\ Cardinality(HeldIn(channel, c)) \in Nat
    BY HeldFinite
  <2> QED BY <2>1, <2>2, <2>3, <2>4, <2>5, OwnAssumption DEF RoomIsLeft, Own!Adding
<1>9. ASSUME NEW q \in Requests,
           Own!CountsInvoices(q)
    PROVE  RoomIsLeft'
  BY <1>9, OwnAssumption, HeldFinite DEF Own!CountsInvoices, RoomIsLeft, OwnTypes,
    OwnRequest, Own!TypeOK, Own!Idle, Own!Adding
<1>10. ASSUME NEW q \in Requests,
           Own!MarksDeleted(q)
    PROVE  RoomIsLeft'
  <2>1. \A p \in Requests :
          edits'[p].at \in Own!Adding => edits'[p] = edits[p]
    BY <1>10 DEF Own!MarksDeleted, Own!End, Own!Idle, Own!Adding, OwnTypes
  <2>2. plan' = plan /\ crossed' = crossed
    BY <1>10 DEF Own!MarksDeleted
  <2>3. \A c : Cardinality(HeldIn(channel', c)) <= Cardinality(HeldIn(channel, c))
    <3>1. \A j \in Own!Ids : /\ channel'[j].by = channel[j].by
                             /\ channel[j].deleted => channel'[j].deleted
      BY <1>10, OwnMarked
    <3>2. \A c : HeldIn(channel', c) \subseteq HeldIn(channel, c)
      BY <3>1 DEF HeldIn
    <3> QED BY <3>2, HeldLess
  <2>4. plan \in [Clients -> 0..MaxPlan] /\ \A p \in Requests : edits[p].max \in Nat
    BY OwnAssumption DEF OwnTypes, Own!TypeOK, OwnRequest
  <2>5. \A c : Cardinality(HeldIn(channel', c)) \in Nat /\ Cardinality(HeldIn(channel, c)) \in Nat
    BY HeldFinite
  <2> QED BY <2>1, <2>2, <2>3, <2>4, <2>5, OwnAssumption DEF RoomIsLeft, Own!Adding
<1>11. ASSUME NEW q \in Requests,
           Own!PutsInvoice(q)
    PROVE  RoomIsLeft'
  BY <1>11, OwnAssumption, HeldFinite DEF Own!PutsInvoice, RoomIsLeft, OwnTypes,
    OwnRequest, Own!TypeOK, Own!Idle, Own!End, Own!Adding
<1>12. ASSUME NEW q \in Requests,
           Own!RequestFails(q)
    PROVE  RoomIsLeft'
  BY <1>12, OwnAssumption, HeldFinite DEF Own!RequestFails, RoomIsLeft, OwnTypes,
    OwnRequest, Own!TypeOK, Own!Idle, Own!End, Own!Adding
<1>13. ASSUME NEW i \in Own!Ids,
           Own!InvoiceConfirmed(i)
    PROVE  RoomIsLeft'
  BY <1>13, OwnAssumption, HeldFinite DEF Own!InvoiceConfirmed, RoomIsLeft, OwnTypes,
    OwnRequest, Own!TypeOK, Own!Idle, Own!Adding
<1>14. ASSUME NEW i \in Own!Ids,
           Own!InvoiceCloses(i)
    PROVE  RoomIsLeft'
  BY <1>14, OwnAssumption, HeldFinite DEF Own!InvoiceCloses, RoomIsLeft, OwnTypes,
    OwnRequest, Own!TypeOK, Own!Idle, Own!Adding
<1>15. ASSUME NEW c \in Clients, NEW n \in 0 .. MaxPlan,
           Own!PlanChanges(c, n)
    PROVE  RoomIsLeft'
  <2> SUFFICES ASSUME crossed' \cap {"overlap", "lowered"} = {}
               PROVE  RoomIsLeft'
    BY DEF RoomIsLeft
  <2>1. channel' = channel /\ edits' = edits /\ crossed \subseteq crossed'
    BY <1>15 DEF Own!PlanChanges
  <2>2. plan \in [Clients -> 0..MaxPlan] /\ plan' \in [Clients -> 0..MaxPlan]
    BY <1>15 DEF Own!PlanChanges, OwnTypes, Own!TypeOK
  <2>3. \A d \in Clients : plan[d] <= plan'[d]
    BY <1>15, <2>2, OwnAssumption DEF Own!PlanChanges
  <2>4. \A p \in Requests : edits[p].max \in Nat /\ (edits[p].at \in Own!Adding => edits[p].by \in Clients)
    BY OwnAssumption DEF OwnTypes, OwnRequest, Knows
  <2>5. \A d \in Clients : plan[d] \in Nat /\ plan'[d] \in Nat
    BY <2>2, OwnAssumption
  <2>6. RoomIsLeft /\ crossed \cap {"overlap", "lowered"} = {}
    BY <2>1
  <2>7. \A d \in Clients : Cardinality(HeldIn(channel, d)) <= plan'[d]
    BY <2>6, <2>3, <2>5, HeldFinite DEF RoomIsLeft
  <2>8. \A p \in Requests : edits[p].at \in Own!Adding => edits[p].max <= plan'[edits[p].by]
    BY <2>6, <2>3, <2>4, <2>5 DEF RoomIsLeft
  <2> QED BY <2>1, <2>6, <2>7, <2>8 DEF RoomIsLeft, Own!Adding
<1>16. CASE UNCHANGED Own!vars
  BY <1>16, OwnAssumption, HeldFinite DEF Own!vars, RoomIsLeft, OwnTypes, OwnRequest,
    Own!TypeOK,
    Own!Idle, Own!End, Own!Adding
<1> QED BY <1>1, <1>2, <1>3, <1>4, <1>5, <1>6, <1>7, <1>8, <1>9, <1>10, <1>11, <1>12,
  <1>13, <1>14, <1>15, <1>16
  DEF Own!Next

\* A number is added that no channel had when it was looked for.
LEMMA NumberStep ==
  OwnTypes /\ OneAdds /\ NumberIsFree /\ [Own!Next]_(Own!vars) => NumberIsFree'
<1> SUFFICES ASSUME OwnTypes, OneAdds, NumberIsFree, [Own!Next]_(Own!vars)
             PROVE  NumberIsFree'
  OBVIOUS
<1>1. ASSUME NEW q \in Requests, NEW c \in Clients, NEW n \in Numbers,
           Own!PostChannel(q, c, n)
    PROVE  NumberIsFree'
  <2>1. Posted(q, c, n)
    BY <1>1, OwnPost
  <2> QED BY <2>1 DEF Posted, NumberIsFree, OwnTypes, OwnRequest, Own!Adding, Own!Held
<1>2. ASSUME NEW q \in Requests, NEW i \in Own!Ids,
           Own!AddsChannel(q, i)
    PROVE  NumberIsFree'
  <2> SUFFICES ASSUME crossed \cap {"overlap", "renumbered"} = {}
               PROVE  NumberIsFree'
    BY <1>2 DEF Own!AddsChannel, NumberIsFree
  <2>1. \A p \in Requests : edits'[p].at \notin Own!Adding
    BY <1>2 DEF Own!AddsChannel, Own!End, Own!Idle, OneAdds, Own!Adding, OwnTypes
  <2>2. \A j \in Own!Held : channel[j].number # edits[q].number
    BY <1>2 DEF Own!AddsChannel, NumberIsFree
  <2>3. \A j \in Own!Ids : j # i => channel'[j] = channel[j]
    BY <1>2 DEF Own!AddsChannel, OwnTypes, Own!TypeOK
  <2>4. channel'[i].number = edits[q].number
    BY <1>2 DEF Own!AddsChannel, OwnTypes, Own!TypeOK
  <2>5. \A j, k \in Own!Held' : channel'[j].number = channel'[k].number => j = k
    BY <2>2, <2>3, <2>4 DEF NumberIsFree, Own!Held
  <2>6. \A p \in Requests : edits'[p].at = "patch" => edits'[p].number = None
    BY <1>2 DEF Own!AddsChannel, Own!End, Own!Idle, NumberIsFree, OwnTypes
  <2> QED BY <2>1, <2>5, <2>6 DEF NumberIsFree, Own!Adding
<1>3. ASSUME NEW q \in Requests, NEW i \in Own!Ids,
           Own!DeleteChannel(q, i)
    PROVE  NumberIsFree'
  <2>1. Started(q, "invoices", i)
    BY <1>3, OwnDelete
  <2> QED BY <2>1 DEF Started, NumberIsFree, OwnTypes, OwnRequest, Own!Adding, Own!Held
<1>4. ASSUME NEW q \in Requests, NEW i \in Own!Ids,
           Own!ChooseChannel(q, i)
    PROVE  NumberIsFree'
  <2>1. Started(q, "choose", i)
    BY <1>4, OwnChoose
  <2> QED BY <2>1 DEF Started, NumberIsFree, OwnTypes, OwnRequest, Own!Adding, Own!Held
<1>5. ASSUME NEW q \in Requests, NEW i \in Own!Ids,
           NEW a \in {"kept", "on", "off"}, NEW n \in Numbers \cup {None},
           Own!PatchChannel(q, i, a, n)
    PROVE  NumberIsFree'
  <2>1. Patching(q, i, a, n)
    BY <1>5, OwnPatch
  <2> QED BY <2>1 DEF Patching, NumberIsFree, OwnTypes, OwnRequest, Own!Adding, Own!Held
<1>6. ASSUME NEW q \in Requests,
           Own!LooksForNumber(q)
    PROVE  NumberIsFree'
  BY <1>6 DEF Own!LooksForNumber, NumberIsFree, OwnTypes, OwnRequest, Own!Idle, Own!Held
<1>7. ASSUME NEW q \in Requests,
           Own!CountsChannels(q)
    PROVE  NumberIsFree'
  BY <1>7 DEF Own!CountsChannels, NumberIsFree, OwnTypes, OwnRequest, Own!Idle, Own!Held
<1>8. ASSUME NEW q \in Requests,
           Own!UpdatesChannel(q)
    PROVE  NumberIsFree'
  <2> SUFFICES ASSUME crossed \cap {"overlap", "renumbered"} = {}
               PROVE  NumberIsFree'
    BY <1>8 DEF Own!UpdatesChannel, NumberIsFree
  <2>1. \A p \in Requests : edits'[p] = edits[p] \/ edits'[p] = Own!Idle
    BY <1>8 DEF Own!UpdatesChannel, Own!End, OwnTypes
  <2>2. \A j \in Own!Ids : /\ channel'[j].by = channel[j].by
                           /\ channel[j].deleted => channel'[j].deleted
                           /\ channel'[j].number = channel[j].number
    BY <1>8, OwnUpdated DEF Own!UpdatesChannel, NumberIsFree
  <2>3. Own!Held' \subseteq Own!Held
    BY <2>2 DEF Own!Held
  <2>4. Own!Held \subseteq Own!Ids
    BY DEF Own!Held
  <2>5. \A j, k \in Own!Held' : channel'[j].number = channel'[k].number => j = k
    BY <2>2, <2>3, <2>4 DEF NumberIsFree
  <2>6. \A p \in Requests :
          /\ edits'[p].at = "patch" => edits'[p].number = None
          /\ edits'[p].at \in {"count", "add"} =>
               \A j \in Own!Held' : channel'[j].number # edits'[p].number
    BY <2>1, <2>2, <2>3, <2>4 DEF NumberIsFree, Own!Idle
  <2> QED BY <2>5, <2>6 DEF NumberIsFree, Own!Held
<1>9. ASSUME NEW q \in Requests,
           Own!CountsInvoices(q)
    PROVE  NumberIsFree'
  BY <1>9 DEF Own!CountsInvoices, NumberIsFree, OwnTypes, OwnRequest, Own!Idle, Own!Held
<1>10. ASSUME NEW q \in Requests,
           Own!MarksDeleted(q)
    PROVE  NumberIsFree'
  <2> SUFFICES ASSUME crossed \cap {"overlap", "renumbered"} = {}
               PROVE  NumberIsFree'
    BY <1>10 DEF Own!MarksDeleted, NumberIsFree
  <2>1. \A p \in Requests : edits'[p] = edits[p] \/ edits'[p] = Own!Idle
    BY <1>10 DEF Own!MarksDeleted, Own!End, OwnTypes
  <2>2. \A j \in Own!Ids : /\ channel'[j].by = channel[j].by
                           /\ channel[j].deleted => channel'[j].deleted
                           /\ channel'[j].number = channel[j].number
    BY <1>10, OwnMarked DEF Own!MarksDeleted, NumberIsFree
  <2>3. Own!Held' \subseteq Own!Held
    BY <2>2 DEF Own!Held
  <2>4. Own!Held \subseteq Own!Ids
    BY DEF Own!Held
  <2>5. \A j, k \in Own!Held' : channel'[j].number = channel'[k].number => j = k
    BY <2>2, <2>3, <2>4 DEF NumberIsFree
  <2>6. \A p \in Requests :
          /\ edits'[p].at = "patch" => edits'[p].number = None
          /\ edits'[p].at \in {"count", "add"} =>
               \A j \in Own!Held' : channel'[j].number # edits'[p].number
    BY <2>1, <2>2, <2>3, <2>4 DEF NumberIsFree, Own!Idle
  <2> QED BY <2>5, <2>6 DEF NumberIsFree, Own!Held
<1>11. ASSUME NEW q \in Requests,
           Own!PutsInvoice(q)
    PROVE  NumberIsFree'
  BY <1>11 DEF Own!PutsInvoice, NumberIsFree, OwnTypes, OwnRequest, Own!Idle, Own!End,
    Own!Held
<1>12. ASSUME NEW q \in Requests,
           Own!RequestFails(q)
    PROVE  NumberIsFree'
  BY <1>12 DEF Own!RequestFails, NumberIsFree, OwnTypes, OwnRequest, Own!Idle, Own!End,
    Own!Held
<1>13. ASSUME NEW i \in Own!Ids,
           Own!InvoiceConfirmed(i)
    PROVE  NumberIsFree'
  BY <1>13 DEF Own!InvoiceConfirmed, NumberIsFree, OwnTypes, OwnRequest, Own!Idle, Own!Held
<1>14. ASSUME NEW i \in Own!Ids,
           Own!InvoiceCloses(i)
    PROVE  NumberIsFree'
  BY <1>14 DEF Own!InvoiceCloses, NumberIsFree, OwnTypes, OwnRequest, Own!Idle, Own!Held
<1>15. ASSUME NEW c \in Clients, NEW n \in 0 .. MaxPlan,
           Own!PlanChanges(c, n)
    PROVE  NumberIsFree'
  BY <1>15 DEF Own!PlanChanges, NumberIsFree, OwnTypes, OwnRequest, Own!Idle, Own!Held
<1>16. CASE UNCHANGED Own!vars
  BY <1>16 DEF Own!vars, NumberIsFree, OwnTypes, OwnRequest,
    Own!Idle, Own!End, Own!Held
<1> QED BY <1>1, <1>2, <1>3, <1>4, <1>5, <1>6, <1>7, <1>8, <1>9, <1>10, <1>11, <1>12,
  <1>13, <1>14, <1>15, <1>16
  DEF Own!Next

\* Who deletes a channel is alone with it, or that is noted.
LEMMA DeletedStep ==
  OwnTypes /\ DeletedRests /\ [Own!Next]_(Own!vars) => DeletedRests'
<1> SUFFICES ASSUME OwnTypes, DeletedRests, [Own!Next]_(Own!vars)
             PROVE  DeletedRests'
  OBVIOUS
<1>1. ASSUME NEW q \in Requests, NEW c \in Clients, NEW n \in Numbers,
           Own!PostChannel(q, c, n)
    PROVE  DeletedRests'
  <2>1. Posted(q, c, n)
    BY <1>1, OwnPost
  <2> QED BY <2>1, OwnAssumption DEF Posted, DeletedRests, OwnTypes, OwnRequest, Knows,
      Own!TypeOK, Own!Adding, Own!Deleting, Own!Held, Own!Crosses, Own!Idle
<1>2. ASSUME NEW q \in Requests, NEW i \in Own!Ids,
           Own!AddsChannel(q, i)
    PROVE  DeletedRests'
  BY <1>2, OwnAssumption DEF Own!AddsChannel, DeletedRests, OwnTypes, OwnRequest, Knows,
    Own!TypeOK, Own!Idle, Own!End, Own!Ids, Own!Adding, Own!Deleting, Own!Statuses
<1>3. ASSUME NEW q \in Requests, NEW i \in Own!Ids,
           Own!DeleteChannel(q, i)
    PROVE  DeletedRests'
  <2>1. Started(q, "invoices", i) /\ i \in Own!Held
    BY <1>3, OwnDelete
  <2> QED BY <2>1, OwnAssumption DEF Started, DeletedRests, OwnTypes, OwnRequest, Knows,
      Own!TypeOK, Own!Adding, Own!Deleting, Own!Held, Own!Crosses, Own!Idle
<1>4. ASSUME NEW q \in Requests, NEW i \in Own!Ids,
           Own!ChooseChannel(q, i)
    PROVE  DeletedRests'
  <2>1. Started(q, "choose", i) /\ channel[i].active /\ waits[i] = "none"
    BY <1>4, OwnChoose
  <2> QED BY <2>1, OwnAssumption DEF Started, DeletedRests, OwnTypes, OwnRequest, Knows,
      Own!TypeOK, Own!Adding, Own!Deleting, Own!Held, Own!Crosses, Own!Idle
<1>5. ASSUME NEW q \in Requests, NEW i \in Own!Ids,
           NEW a \in {"kept", "on", "off"}, NEW n \in Numbers \cup {None},
           Own!PatchChannel(q, i, a, n)
    PROVE  DeletedRests'
  <2>1. Patching(q, i, a, n)
    BY <1>5, OwnPatch
  <2> QED BY <2>1, OwnAssumption DEF Patching, DeletedRests, OwnTypes, OwnRequest, Knows,
      Own!TypeOK, Own!Adding, Own!Deleting, Own!Held, Own!Crosses, Own!Idle
<1>6. ASSUME NEW q \in Requests,
           Own!LooksForNumber(q)
    PROVE  DeletedRests'
  BY <1>6, OwnAssumption DEF Own!LooksForNumber, DeletedRests, OwnTypes, OwnRequest,
    Knows, Own!TypeOK, Own!Idle, Own!Ids, Own!Adding, Own!Deleting, Own!Statuses
<1>7. ASSUME NEW q \in Requests,
           Own!CountsChannels(q)
    PROVE  DeletedRests'
  BY <1>7, OwnAssumption DEF Own!CountsChannels, DeletedRests, OwnTypes, OwnRequest,
    Knows, Own!TypeOK, Own!Idle, Own!Ids, Own!Adding, Own!Deleting, Own!Statuses
<1>8. ASSUME NEW q \in Requests,
           Own!UpdatesChannel(q)
    PROVE  DeletedRests'
  <2> SUFFICES ASSUME "crossed" \notin crossed
               PROVE  DeletedRests'
    BY <1>8 DEF Own!UpdatesChannel, DeletedRests
  <2>1. \A p \in Requests : edits'[p] = IF p = q THEN Own!Idle ELSE edits[p]
    BY <1>8 DEF Own!UpdatesChannel, Own!End, OwnTypes
  <2>2. waits' = waits /\ edits[q].at \in {"patch", "delete"} /\ edits[q].on \in Own!Ids
    BY <1>8 DEF Own!UpdatesChannel, OwnTypes, Knows, Own!Deleting
  <2>3. Own!Idle.on \notin Own!Ids /\ Own!Idle.at = "idle"
    BY OwnAssumption DEF Own!Idle, Own!Ids
  <2>4. \A p \in Requests : edits'[p].at \in Own!Deleting =>
          \A s \in Requests : edits'[s].on = edits'[p].on => s = p
    BY <2>1, <2>3 DEF DeletedRests, OwnTypes, Knows, Own!Deleting
  <2>5. \A p \in Requests : edits'[p].at = "delete" => waits'[edits'[p].on] = "none"
    BY <2>1, <2>2, <2>3 DEF DeletedRests
  <2>6. ASSUME NEW j \in Own!Ids, channel'[j].deleted
        PROVE  /\ ~ channel'[j].active /\ waits'[j] = "none"
               /\ \A p \in Requests : edits'[p].on # j
    <3>1. channel[j].deleted
      BY <2>6, <1>8, OwnUpdated
    <3>2. edits[q].on # j
      BY <3>1 DEF DeletedRests
    <3>3. channel'[j] = channel[j]
      BY <3>2, <1>8, OwnUpdated
    <3> QED BY <3>1, <3>3, <2>1, <2>2, <2>3 DEF DeletedRests
  <2> QED BY <2>4, <2>5, <2>6 DEF DeletedRests, Own!Ids, Own!Deleting
<1>9. ASSUME NEW q \in Requests,
           Own!CountsInvoices(q)
    PROVE  DeletedRests'
  BY <1>9, OwnAssumption DEF Own!CountsInvoices, DeletedRests, OwnTypes, OwnRequest,
    Knows, Own!TypeOK, Own!Idle, Own!Ids, Own!Adding, Own!Deleting, Own!Awaited,
    Own!Statuses
<1>10. ASSUME NEW q \in Requests,
           Own!MarksDeleted(q)
    PROVE  DeletedRests'
  <2> SUFFICES ASSUME "crossed" \notin crossed
               PROVE  DeletedRests'
    BY <1>10 DEF Own!MarksDeleted, DeletedRests
  <2>1. \A p \in Requests : edits'[p] = IF p = q THEN Own!Idle ELSE edits[p]
    BY <1>10 DEF Own!MarksDeleted, Own!End, OwnTypes
  <2>2. waits' = waits /\ edits[q].at \in {"patch", "delete"} /\ edits[q].on \in Own!Ids
    BY <1>10 DEF Own!MarksDeleted, OwnTypes, Knows, Own!Deleting
  <2>3. Own!Idle.on \notin Own!Ids /\ Own!Idle.at = "idle"
    BY OwnAssumption DEF Own!Idle, Own!Ids
  <2>4. \A p \in Requests : edits'[p].at \in Own!Deleting =>
          \A s \in Requests : edits'[s].on = edits'[p].on => s = p
    BY <2>1, <2>3 DEF DeletedRests, OwnTypes, Knows, Own!Deleting
  <2>5. \A p \in Requests : edits'[p].at = "delete" => waits'[edits'[p].on] = "none"
    BY <2>1, <2>2, <2>3 DEF DeletedRests
  <2>6. ASSUME NEW j \in Own!Ids, channel'[j].deleted
        PROVE  /\ ~ channel'[j].active /\ waits'[j] = "none"
               /\ \A p \in Requests : edits'[p].on # j
    <3>1. /\ channel'[j].deleted = (channel[j].deleted \/ j = edits[q].on)
          /\ channel'[j].active = (channel[j].active /\ j # edits[q].on)
          /\ channel'[j].deleted \in BOOLEAN /\ channel'[j].active \in BOOLEAN
          /\ channel[j].deleted \in BOOLEAN /\ channel[j].active \in BOOLEAN
      BY <1>10, OwnMarked DEF Own!TypeOK, OwnTypes
    <3>2. edits[q].at = "delete"
      BY <1>10 DEF Own!MarksDeleted
    <3>3. CASE j = edits[q].on
      BY <3>1, <3>2, <3>3, <2>1, <2>2, <2>3 DEF DeletedRests, Own!Deleting
    <3>4. CASE channel[j].deleted
      BY <3>1, <3>4, <2>1, <2>2, <2>3 DEF DeletedRests
    <3> QED BY <3>1, <3>3, <3>4, <2>6
  <2> QED BY <2>4, <2>5, <2>6 DEF DeletedRests, Own!Ids, Own!Deleting
<1>11. ASSUME NEW q \in Requests,
           Own!PutsInvoice(q)
    PROVE  DeletedRests'
  BY <1>11, OwnAssumption DEF Own!PutsInvoice, DeletedRests, OwnTypes, OwnRequest, Knows,
    Own!TypeOK, Own!Idle, Own!End, Own!Ids, Own!Adding, Own!Deleting, Own!Statuses
<1>12. ASSUME NEW q \in Requests,
           Own!RequestFails(q)
    PROVE  DeletedRests'
  BY <1>12, OwnAssumption DEF Own!RequestFails, DeletedRests, OwnTypes, OwnRequest,
    Knows, Own!TypeOK, Own!Idle, Own!End, Own!Ids, Own!Adding, Own!Deleting, Own!Statuses
<1>13. ASSUME NEW i \in Own!Ids,
           Own!InvoiceConfirmed(i)
    PROVE  DeletedRests'
  BY <1>13, OwnAssumption DEF Own!InvoiceConfirmed, DeletedRests, OwnTypes, OwnRequest,
    Knows, Own!TypeOK, Own!Idle, Own!Ids, Own!Adding, Own!Deleting, Own!Statuses
<1>14. ASSUME NEW i \in Own!Ids,
           Own!InvoiceCloses(i)
    PROVE  DeletedRests'
  BY <1>14, OwnAssumption DEF Own!InvoiceCloses, DeletedRests, OwnTypes, OwnRequest,
    Knows, Own!TypeOK, Own!Idle, Own!Ids, Own!Adding, Own!Deleting, Own!Statuses
<1>15. ASSUME NEW c \in Clients, NEW n \in 0 .. MaxPlan,
           Own!PlanChanges(c, n)
    PROVE  DeletedRests'
  BY <1>15, OwnAssumption DEF Own!PlanChanges, DeletedRests, OwnTypes, OwnRequest, Knows,
    Own!TypeOK, Own!Idle, Own!Ids, Own!Adding, Own!Deleting, Own!Statuses
<1>16. CASE UNCHANGED Own!vars
  BY <1>16, OwnAssumption DEF Own!vars, DeletedRests, OwnTypes, OwnRequest, Knows,
    Own!TypeOK, Own!Idle, Own!Ids, Own!Adding, Own!Deleting, Own!Statuses
<1> QED BY <1>1, <1>2, <1>3, <1>4, <1>5, <1>6, <1>7, <1>8, <1>9, <1>10, <1>11, <1>12,
  <1>13, <1>14, <1>15, <1>16
  DEF Own!Next

LEMMA OwnInit == Own!Init => OwnInv
<1> SUFFICES ASSUME Own!Init
             PROVE  OwnInv
  OBVIOUS
<1>1. OwnTypes
  BY OwnAssumption DEF Own!Init, OwnTypes, OwnRequest, Knows, Own!TypeOK, Own!Statuses,
    Own!Unused, Own!Idle, Own!Adding, Own!Deleting
<1>2. \A q \in Requests : edits[q] = Own!Idle
  BY DEF Own!Init
<1>3. \A i \in Own!Ids : channel[i] = Own!Unused
  BY DEF Own!Init
<1>4. \A c : HeldIn(channel, c) = {}
  BY <1>3 DEF HeldIn, Own!Unused
<1>5. OneAdds /\ NumberIsFree
  BY <1>2, <1>3 DEF OneAdds, NumberIsFree, Own!Idle, Own!Adding, Own!Held, Own!Unused
<1>6. RoomIsLeft
  <2>1. \A c : Cardinality(HeldIn(channel, c)) = 0
    BY <1>4, FS_EmptySet
  <2>2. \A c \in Clients : plan[c] \in Nat
    BY <1>1, OwnAssumption DEF OwnTypes, Own!TypeOK
  <2>3. \A q \in Requests : edits[q].at = "idle"
    BY <1>2 DEF Own!Idle
  <2> QED BY <2>1, <2>2, <2>3 DEF RoomIsLeft, Own!Adding
<1>7. DeletedRests
  BY <1>2, <1>3 DEF DeletedRests, Own!Idle, Own!Deleting, Own!Unused
<1> QED BY <1>1, <1>5, <1>6, <1>7 DEF OwnInv

LEMMA OwnInvHolds == OwnInv => Own!ChannelsHold
<1> SUFFICES ASSUME OwnInv
             PROVE  Own!ChannelsHold
  OBVIOUS
<1>1. \A c : Own!Cardinality(Own!HeldBy(c)) = Cardinality(HeldIn(channel, c))
  BY OwnCardinality, HeldByIsHeldIn
<1>2. crossed \cap {"overlap", "lowered"} = {} =>
        \A c \in Clients : Own!Cardinality(Own!HeldBy(c)) <= plan[c]
  BY <1>1 DEF OwnInv, RoomIsLeft
<1> QED BY <1>2 DEF OwnInv, NumberIsFree, DeletedRests, Own!ChannelsHold

\* Clients hold the channels their plans allow, no account is held twice and no
\* invoice waits on a deleted channel, but for the overlaps ChannelsHold excuses:
\* channels.js, for any clients, numbers, plans and requests at once.
THEOREM OwnChannelsHold == Own!Spec => []ChannelsHold
<1>1. Own!Init => OwnInv
  BY OwnInit
<1>2. OwnInv /\ [Own!Next]_(Own!vars) => OwnInv'
  BY OwnTypesStep, OneAddsStep, RoomStep, NumberStep, DeletedStep DEF OwnInv
<1>3. OwnInv => ChannelsHold
  BY OwnInvHolds DEF ChannelsHold
<1> QED BY <1>1, <1>2, <1>3, PTL DEF Own!Spec

(***************************************************************************)
(* The tabs of a browser.                                                  *)
(***************************************************************************)
TabRow ==
  [open : BOOLEAN, viewing : BOOLEAN, token : People \cup {Client, NoOne},
   fresh : BOOLEAN, user : People \cup {Client, NoOne}]

TabCall ==
  [pc : {"idle", "sent", "refreshing", "again"}, op : {"data", "me", "restore", "in", "out"},
   with : People \cup {Client, NoOne}, fresh : BOOLEAN, cookie : People \cup {Client, NoOne}]

TabTypes ==
  /\ cookie \in People \cup {Client, NoOne}
  /\ tab \in [Tabs -> TabRow] /\ fetch \in [Tabs -> TabCall] /\ auth \in [Tabs -> TabCall]

\* The tab shows whom it holds a token of, and the cookie is no one else's; so is the
\* one it is about to show, and the cookie it is exchanging.
OneAccount(t) ==
  /\ tab[t].user # NoOne => tab[t].token = tab[t].user /\ cookie \in {NoOne, tab[t].user}
  /\ fetch[t].pc \in {"sent", "again"} /\ fetch[t].op = "me" /\ fetch[t].with # NoOne =>
       fetch[t].with = tab[t].token /\ cookie \in {NoOne, fetch[t].with}
  /\ fetch[t].pc = "refreshing" /\ tab[t].user # NoOne => fetch[t].cookie \in {NoOne, tab[t].user}

\* Nothing is asked for while the session is restored, nor a user while one signs in.
OneAsks(t) ==
  /\ auth[t].pc = "sent" /\ auth[t].op = "restore" => fetch[t].pc = "idle"
  /\ auth[t].pc = "sent" /\ auth[t].op = "in" =>
       tab[t].user = NoOne /\ (fetch[t].pc = "idle" \/ fetch[t].op # "me")

\* A closed tab does nothing.
TabFine(t) ==
  /\ ~ tab[t].open => tab[t].user = NoOne /\ fetch[t].pc = "idle" /\ auth[t].pc = "idle"
  /\ t \notin touched /\ ~ tab[t].viewing => OneAccount(t) /\ OneAsks(t)

TabInv == TabTypes /\ \A t \in Tabs : TabFine(t)

\* A tab in which nothing happens stays fine: if the cookie changes hands, it is noted.
LEMMA TabOthers ==
  ASSUME TabInv, NEW t \in Tabs,
         \A u \in Tabs \ {t} :
           /\ tab'[u] = tab[u] /\ fetch'[u] = fetch[u] /\ auth'[u] = auth[u]
           /\ u \in touched => u \in touched'
           /\ cookie' \in {NoOne, cookie} \/ u \in touched' \/ ~ tab[u].open \/ tab[u].viewing
  PROVE  \A u \in Tabs \ {t} : TabFine(u)'
<1> SUFFICES ASSUME NEW u \in Tabs \ {t}
             PROVE  TabFine(u)'
  OBVIOUS
<1>1. TabFine(u)
  BY DEF TabInv
<1>2. CASE cookie' \in {NoOne, cookie}
  BY <1>1, <1>2 DEF TabFine, OneAccount, OneAsks
<1>3. CASE u \in touched' \/ ~ tab[u].open \/ tab[u].viewing
  BY <1>1, <1>3 DEF TabFine, OneAccount, OneAsks
<1> QED BY <1>2, <1>3

\* What becomes of a tab is a tab, and of a request a request.
LEMMA TabRows ==
  ASSUME TabTypes, NEW t \in Tabs, NEW a \in People \cup {Client, NoOne}
  PROVE  /\ Browser!Closed \in TabRow /\ Browser!Idle \in TabCall
         /\ Browser!Holding(t, a) \in TabRow /\ [Browser!Holding(t, a) EXCEPT !.user = a] \in TabRow
         /\ Browser!SignedOut(t) \in TabRow
         /\ [Browser!SignedOut(t) EXCEPT !.viewing = FALSE] \in TabRow
         /\ [tab[t] EXCEPT !.user = a] \in TabRow /\ [tab[t] EXCEPT !.fresh = FALSE] \in TabRow
<1>1. tab[t] \in TabRow
  BY DEF TabTypes
<1>2. \A r \in TabRow : [r EXCEPT !.user = a] \in TabRow
  BY DEF TabRow
<1>3. \A r \in TabRow : [r EXCEPT !.viewing = FALSE] \in TabRow
  BY DEF TabRow
<1>4. \A r \in TabRow : [r EXCEPT !.fresh = FALSE] \in TabRow
  BY DEF TabRow
<1>5. Browser!Holding(t, a) \in TabRow
  BY <1>1 DEF TabRow, Browser!Holding
<1>6. Browser!SignedOut(t) \in TabRow
  BY <1>1 DEF TabRow, Browser!SignedOut
<1>7. Browser!Closed \in TabRow
  BY DEF TabRow, Browser!Closed
<1>8. Browser!Idle \in TabCall
  BY DEF TabCall, Browser!Idle
<1> QED BY <1>1, <1>2, <1>3, <1>4, <1>5, <1>6, <1>7, <1>8

\* Each step leaves every tab with one account.
LEMMA TabStep == TabInv /\ [Browser!Next]_(Browser!vars) => TabInv'
<1> SUFFICES ASSUME TabInv, [Browser!Next]_(Browser!vars)
             PROVE  TabInv'
  OBVIOUS
<1> USE DEF TabInv
<1>1. ASSUME NEW t \in Tabs, Browser!Opens(t)
    PROVE  TabInv'
  <2>1. TabTypes'
    BY <1>1, BrowserAssumption DEF Browser!Opens, TabTypes, TabRow, TabCall,
      Browser!Closed, Browser!Idle, Browser!Viewing, Browser!Loads
  <2>2. \A u \in Tabs \ {t} :
           /\ tab'[u] = tab[u] /\ fetch'[u] = fetch[u] /\ auth'[u] = auth[u]
           /\ u \in touched => u \in touched'
           /\ cookie' \in {NoOne, cookie} \/ u \in touched' \/ ~ tab[u].open \/ tab[u].viewing
    BY <1>1 DEF Browser!Opens, TabTypes, Browser!Closed, Browser!Idle, Browser!Viewing,
      Browser!Loads
  <2>3. TabFine(t)'
    BY <1>1, BrowserAssumption DEF Browser!Opens, TabFine, OneAccount, OneAsks, TabTypes,
      TabRow, TabCall, Browser!Closed, Browser!Idle, Browser!Viewing, Browser!Loads
  <2> QED BY <2>1, <2>2, <2>3, TabOthers DEF TabInv
<1>2. ASSUME NEW t \in Tabs, Browser!OpensAsClient(t)
    PROVE  TabInv'
  <2>1. TabTypes'
    BY <1>2, BrowserAssumption DEF Browser!OpensAsClient, TabTypes, TabRow, TabCall,
      Browser!Closed, Browser!Idle, Browser!Viewing, Browser!Loads
  <2>2. \A u \in Tabs \ {t} :
           /\ tab'[u] = tab[u] /\ fetch'[u] = fetch[u] /\ auth'[u] = auth[u]
           /\ u \in touched => u \in touched'
           /\ cookie' \in {NoOne, cookie} \/ u \in touched' \/ ~ tab[u].open \/ tab[u].viewing
    BY <1>2 DEF Browser!OpensAsClient, TabTypes, Browser!Closed, Browser!Idle,
      Browser!Viewing, Browser!Loads
  <2>3. TabFine(t)'
    BY <1>2, BrowserAssumption DEF Browser!OpensAsClient, TabFine, OneAccount, OneAsks,
      TabTypes, TabRow, TabCall, Browser!Closed, Browser!Idle, Browser!Viewing,
      Browser!Loads
  <2> QED BY <2>1, <2>2, <2>3, TabOthers DEF TabInv
<1>3. ASSUME NEW t \in Tabs, Browser!ExitsClient(t)
    PROVE  TabInv'
  <2>1. CASE Browser!Loads(t, FALSE)
    <3>1. TabTypes'
      <4>1. tab' \in [Tabs -> TabRow]
        BY <2>1, <1>3, TabRows DEF Browser!Loads, Browser!Closed, TabRow, TabTypes
      <4>2. fetch' \in [Tabs -> TabCall]
        BY <2>1, <1>3, TabRows DEF Browser!ExitsClient, TabTypes, TabCall, Browser!Idle,
          Browser!Loads
      <4>3. auth' \in [Tabs -> TabCall]
        BY <2>1, <1>3, TabRows DEF Browser!ExitsClient, TabTypes, TabCall, Browser!Idle,
          Browser!Loads
      <4>4. cookie' \in People \cup {Client, NoOne}
        BY <2>1, <1>3 DEF Browser!ExitsClient, TabTypes, TabCall, Browser!Loads
      <4> QED BY <4>1, <4>2, <4>3, <4>4 DEF TabTypes
    <3>2. \A u \in Tabs \ {t} :
             /\ tab'[u] = tab[u] /\ fetch'[u] = fetch[u] /\ auth'[u] = auth[u]
             /\ u \in touched => u \in touched'
             /\ cookie' \in {NoOne, cookie} \/ u \in touched' \/ ~ tab[u].open \/ tab[u].viewing
      BY <2>1, <1>3 DEF Browser!ExitsClient, TabTypes, Browser!Closed, Browser!Idle,
        Browser!Set, Browser!Viewing, Browser!Loads
    <3>3. TabFine(t)'
      BY <2>1, <1>3, BrowserAssumption DEF Browser!ExitsClient, TabFine, OneAccount,
        OneAsks, TabTypes, TabRow, TabCall, Browser!Closed, Browser!Idle, Browser!Set,
        Browser!Viewing, Browser!Loads
    <3> QED BY <3>1, <3>2, <3>3, TabOthers DEF TabInv
  <2>2. CASE /\ Browser!Set(t, Browser!Closed) /\ fetch' = [fetch EXCEPT ![t] = Browser!Idle]
         /\ auth' = [auth EXCEPT ![t] = Browser!Idle] /\ touched' = touched \ {t}
         /\ UNCHANGED <<cookie, hasSession>>
    <3>1. TabTypes'
      <4>1. tab' \in [Tabs -> TabRow]
        BY <2>2, <1>3, TabRows DEF Browser!ExitsClient, TabTypes, Browser!Set, Browser!Loads
      <4>2. fetch' \in [Tabs -> TabCall]
        BY <2>2, <1>3, TabRows DEF Browser!ExitsClient, TabTypes, TabCall, Browser!Idle,
          Browser!Loads
      <4>3. auth' \in [Tabs -> TabCall]
        BY <2>2, <1>3, TabRows DEF Browser!ExitsClient, TabTypes, TabCall, Browser!Idle,
          Browser!Loads
      <4>4. cookie' \in People \cup {Client, NoOne}
        BY <2>2, <1>3 DEF Browser!ExitsClient, TabTypes, TabCall, Browser!Loads
      <4> QED BY <4>1, <4>2, <4>3, <4>4 DEF TabTypes
    <3>2. \A u \in Tabs \ {t} :
             /\ tab'[u] = tab[u] /\ fetch'[u] = fetch[u] /\ auth'[u] = auth[u]
             /\ u \in touched => u \in touched'
             /\ cookie' \in {NoOne, cookie} \/ u \in touched' \/ ~ tab[u].open \/ tab[u].viewing
      BY <2>2, <1>3 DEF Browser!ExitsClient, TabTypes, Browser!Closed, Browser!Idle,
        Browser!Set, Browser!Viewing, Browser!Loads
    <3>3. TabFine(t)'
      BY <2>2, <1>3, BrowserAssumption DEF Browser!ExitsClient, TabFine, OneAccount,
        OneAsks, TabTypes, TabRow, TabCall, Browser!Closed, Browser!Idle, Browser!Set,
        Browser!Viewing, Browser!Loads
    <3> QED BY <3>1, <3>2, <3>3, TabOthers DEF TabInv
  <2> QED BY <2>1, <2>2, <1>3 DEF Browser!ExitsClient
<1>4. ASSUME NEW t \in Tabs, Browser!Restored(t)
    PROVE  TabInv'
  <2>1. CASE auth[t].cookie # NoOne /\ Browser!CookieBecomes(t, auth[t].cookie)
        /\ Browser!Set(t, [Browser!Holding(t, auth[t].cookie) EXCEPT !.user = auth[t].cookie])
    <3>1. TabTypes'
      <4>1. tab' \in [Tabs -> TabRow]
        <5> DEFINE c == auth[t].cookie
        <5>1. c \in People \cup {Client, NoOne}
          BY DEF TabTypes, TabCall
        <5>2. [Browser!Holding(t, c) EXCEPT !.user = c] \in TabRow
          BY <5>1, TabRows
        <5> QED BY <5>2, <2>1 DEF TabTypes, Browser!Set
      <4>2. fetch' \in [Tabs -> TabCall]
        BY <2>1, <1>4, TabRows DEF Browser!Restored, TabTypes, TabCall, Browser!Idle
      <4>3. auth' \in [Tabs -> TabCall]
        BY <2>1, <1>4, TabRows DEF Browser!Restored, TabTypes, TabCall, Browser!Idle
      <4>4. cookie' \in People \cup {Client, NoOne}
        BY <2>1, <1>4 DEF Browser!Restored, TabTypes, TabCall, Browser!CookieBecomes
      <4> QED BY <4>1, <4>2, <4>3, <4>4 DEF TabTypes
    <3>2. \A u \in Tabs \ {t} :
             /\ tab'[u] = tab[u] /\ fetch'[u] = fetch[u] /\ auth'[u] = auth[u]
             /\ u \in touched => u \in touched'
             /\ cookie' \in {NoOne, cookie} \/ u \in touched' \/ ~ tab[u].open \/ tab[u].viewing
      BY <2>1, <1>4 DEF Browser!Restored, TabTypes, Browser!Idle, Browser!Set,
        Browser!Viewing, Browser!Holding, Browser!SignedOut, Browser!CookieBecomes,
        Browser!Others
    <3>3. TabFine(t)'
      BY <2>1, <1>4, BrowserAssumption DEF Browser!Restored, TabFine, OneAccount,
        OneAsks, TabTypes, TabRow, TabCall, Browser!Idle, Browser!Set, Browser!Viewing,
        Browser!Holding, Browser!SignedOut, Browser!CookieBecomes, Browser!Others
    <3> QED BY <3>1, <3>2, <3>3, TabOthers DEF TabInv
  <2>2. CASE Browser!Set(t, Browser!SignedOut(t)) /\ UNCHANGED <<cookie, touched>>
    <3>1. TabTypes'
      <4>1. tab' \in [Tabs -> TabRow]
        BY <2>2, <1>4, TabRows DEF Browser!Restored, TabTypes, Browser!Set
      <4>2. fetch' \in [Tabs -> TabCall]
        BY <2>2, <1>4, TabRows DEF Browser!Restored, TabTypes, TabCall, Browser!Idle
      <4>3. auth' \in [Tabs -> TabCall]
        BY <2>2, <1>4, TabRows DEF Browser!Restored, TabTypes, TabCall, Browser!Idle
      <4>4. cookie' \in People \cup {Client, NoOne}
        BY <2>2, <1>4 DEF Browser!Restored, TabTypes, TabCall, Browser!CookieBecomes
      <4> QED BY <4>1, <4>2, <4>3, <4>4 DEF TabTypes
    <3>2. \A u \in Tabs \ {t} :
             /\ tab'[u] = tab[u] /\ fetch'[u] = fetch[u] /\ auth'[u] = auth[u]
             /\ u \in touched => u \in touched'
             /\ cookie' \in {NoOne, cookie} \/ u \in touched' \/ ~ tab[u].open \/ tab[u].viewing
      BY <2>2, <1>4 DEF Browser!Restored, TabTypes, Browser!Idle, Browser!Set,
        Browser!Viewing, Browser!Holding, Browser!SignedOut, Browser!CookieBecomes,
        Browser!Others
    <3>3. TabFine(t)'
      BY <2>2, <1>4, BrowserAssumption DEF Browser!Restored, TabFine, OneAccount,
        OneAsks, TabTypes, TabRow, TabCall, Browser!Idle, Browser!Set, Browser!Viewing,
        Browser!Holding, Browser!SignedOut, Browser!CookieBecomes, Browser!Others
    <3> QED BY <3>1, <3>2, <3>3, TabOthers DEF TabInv
  <2> QED BY <2>1, <2>2, <1>4 DEF Browser!Restored
<1>5. ASSUME NEW t \in Tabs, Browser!SignedIn(t)
    PROVE  TabInv'
  <2>1. TabTypes'
    <3>1. tab' \in [Tabs -> TabRow]
      <4> DEFINE c == auth[t].with
      <4>1. c \in People \cup {Client, NoOne}
        BY DEF TabTypes, TabCall
      <4>2. Browser!Holding(t, c) \in TabRow
        BY <4>1, TabRows
      <4> QED BY <4>2, <1>5 DEF Browser!SignedIn, TabTypes, Browser!Set
    <3>2. fetch' \in [Tabs -> TabCall]
      BY <1>5, TabRows DEF Browser!SignedIn, TabTypes, TabCall, Browser!Idle
    <3>3. auth' \in [Tabs -> TabCall]
      BY <1>5, TabRows DEF Browser!SignedIn, TabTypes, TabCall, Browser!Idle
    <3>4. cookie' \in People \cup {Client, NoOne}
      BY <1>5 DEF Browser!SignedIn, TabTypes, TabCall
    <3> QED BY <3>1, <3>2, <3>3, <3>4 DEF TabTypes
  <2>2. \A u \in Tabs \ {t} :
           /\ tab'[u] = tab[u] /\ fetch'[u] = fetch[u] /\ auth'[u] = auth[u]
           /\ u \in touched => u \in touched'
           /\ cookie' \in {NoOne, cookie} \/ u \in touched' \/ ~ tab[u].open \/ tab[u].viewing
    BY <1>5 DEF Browser!SignedIn, TabTypes, Browser!Idle, Browser!Set, Browser!Viewing,
      Browser!Holding, Browser!Others
  <2>3. TabFine(t)'
    BY <1>5, BrowserAssumption DEF Browser!SignedIn, TabFine, OneAccount, OneAsks,
      TabTypes, TabRow, TabCall, Browser!Idle, Browser!Set, Browser!Viewing,
      Browser!Holding, Browser!Others
  <2> QED BY <2>1, <2>2, <2>3, TabOthers DEF TabInv
<1>6. ASSUME NEW t \in Tabs, Browser!SignInRefused(t)
    PROVE  TabInv'
  <2>1. TabTypes'
    BY <1>6, BrowserAssumption DEF Browser!SignInRefused, TabTypes, TabRow, TabCall,
      Browser!Idle, Browser!Viewing
  <2>2. \A u \in Tabs \ {t} :
           /\ tab'[u] = tab[u] /\ fetch'[u] = fetch[u] /\ auth'[u] = auth[u]
           /\ u \in touched => u \in touched'
           /\ cookie' \in {NoOne, cookie} \/ u \in touched' \/ ~ tab[u].open \/ tab[u].viewing
    BY <1>6 DEF Browser!SignInRefused, TabTypes, Browser!Idle, Browser!Viewing
  <2>3. TabFine(t)'
    BY <1>6, BrowserAssumption DEF Browser!SignInRefused, TabFine, OneAccount, OneAsks,
      TabTypes, TabRow, TabCall, Browser!Idle, Browser!Viewing
  <2> QED BY <2>1, <2>2, <2>3, TabOthers DEF TabInv
<1>7. ASSUME NEW t \in Tabs, Browser!SendsSignOut(t)
    PROVE  TabInv'
  <2>1. TabTypes'
    BY <1>7, BrowserAssumption DEF Browser!SendsSignOut, TabTypes, TabRow, TabCall,
      Browser!Idle, Browser!Viewing
  <2>2. \A u \in Tabs \ {t} :
           /\ tab'[u] = tab[u] /\ fetch'[u] = fetch[u] /\ auth'[u] = auth[u]
           /\ u \in touched => u \in touched'
           /\ cookie' \in {NoOne, cookie} \/ u \in touched' \/ ~ tab[u].open \/ tab[u].viewing
    BY <1>7 DEF Browser!SendsSignOut, TabTypes, Browser!Idle, Browser!Viewing
  <2>3. TabFine(t)'
    BY <1>7, BrowserAssumption DEF Browser!SendsSignOut, TabFine, OneAccount, OneAsks,
      TabTypes, TabRow, TabCall, Browser!Idle, Browser!Viewing
  <2> QED BY <2>1, <2>2, <2>3, TabOthers DEF TabInv
<1>8. ASSUME NEW t \in Tabs, Browser!SignsOut(t)
    PROVE  TabInv'
  <2>1. TabTypes'
    <3>1. tab' \in [Tabs -> TabRow]
      BY <1>8, TabRows DEF Browser!SignsOut, TabTypes, Browser!Set
    <3>2. fetch' \in [Tabs -> TabCall]
      BY <1>8, TabRows DEF Browser!SignsOut, TabTypes, TabCall, Browser!Idle
    <3>3. auth' \in [Tabs -> TabCall]
      BY <1>8, TabRows DEF Browser!SignsOut, TabTypes, TabCall, Browser!Idle
    <3>4. cookie' \in People \cup {Client, NoOne}
      BY <1>8 DEF Browser!SignsOut, TabTypes, TabCall
    <3> QED BY <3>1, <3>2, <3>3, <3>4 DEF TabTypes
  <2>2. \A u \in Tabs \ {t} :
           /\ tab'[u] = tab[u] /\ fetch'[u] = fetch[u] /\ auth'[u] = auth[u]
           /\ u \in touched => u \in touched'
           /\ cookie' \in {NoOne, cookie} \/ u \in touched' \/ ~ tab[u].open \/ tab[u].viewing
    BY <1>8 DEF Browser!SignsOut, TabTypes, Browser!Idle, Browser!Set, Browser!Viewing,
      Browser!SignedOut, Browser!Others
  <2>3. TabFine(t)'
    BY <1>8, BrowserAssumption DEF Browser!SignsOut, TabFine, OneAccount, OneAsks,
      TabTypes, TabRow, TabCall, Browser!Idle, Browser!Set, Browser!Viewing,
      Browser!SignedOut, Browser!Others
  <2> QED BY <2>1, <2>2, <2>3, TabOthers DEF TabInv
<1>9. ASSUME NEW t \in Tabs, NEW a \in People, Browser!SendsSignIn(t, a)
    PROVE  TabInv'
  <2>1. TabTypes'
    BY <1>9, BrowserAssumption DEF Browser!SendsSignIn, TabTypes, TabRow, TabCall,
      Browser!Idle, Browser!Viewing, Browser!MaySignIn
  <2>2. \A u \in Tabs \ {t} :
           /\ tab'[u] = tab[u] /\ fetch'[u] = fetch[u] /\ auth'[u] = auth[u]
           /\ u \in touched => u \in touched'
           /\ cookie' \in {NoOne, cookie} \/ u \in touched' \/ ~ tab[u].open \/ tab[u].viewing
    BY <1>9 DEF Browser!SendsSignIn, TabTypes, Browser!Idle, Browser!Viewing,
      Browser!MaySignIn
  <2>3. TabFine(t)'
    BY <1>9, BrowserAssumption DEF Browser!SendsSignIn, TabFine, OneAccount, OneAsks,
      TabTypes, TabRow, TabCall, Browser!Idle, Browser!Viewing, Browser!MaySignIn
  <2> QED BY <2>1, <2>2, <2>3, TabOthers DEF TabInv
<1>10. ASSUME NEW t \in Tabs, NEW op \in {"data", "me"}, Browser!Asks(t, op)
    PROVE  TabInv'
  <2>1. TabTypes'
    BY <1>10, BrowserAssumption DEF Browser!Asks, TabTypes, TabRow, TabCall,
      Browser!Idle, Browser!Viewing, Browser!Sent, Browser!Ask
  <2>2. \A u \in Tabs \ {t} :
           /\ tab'[u] = tab[u] /\ fetch'[u] = fetch[u] /\ auth'[u] = auth[u]
           /\ u \in touched => u \in touched'
           /\ cookie' \in {NoOne, cookie} \/ u \in touched' \/ ~ tab[u].open \/ tab[u].viewing
    BY <1>10 DEF Browser!Asks, TabTypes, Browser!Idle, Browser!Viewing, Browser!Sent,
      Browser!Ask
  <2>3. TabFine(t)'
    BY <1>10, BrowserAssumption DEF Browser!Asks, TabFine, OneAccount, OneAsks, TabTypes,
      TabRow, TabCall, Browser!Idle, Browser!Viewing, Browser!Sent, Browser!Ask
  <2> QED BY <2>1, <2>2, <2>3, TabOthers DEF TabInv
<1>11. ASSUME NEW t \in Tabs, Browser!Answered(t)
    PROVE  TabInv'
  <2>1. TabTypes'
    <3>1. tab' \in [Tabs -> TabRow]
      <4> DEFINE a == IF fetch[t].op = "me" THEN fetch[t].with ELSE tab[t].user
      <4>1. a \in People \cup {Client, NoOne}
        BY DEF TabTypes, TabCall, TabRow
      <4>2. [tab[t] EXCEPT !.user = a] \in TabRow
        BY <4>1, TabRows
      <4> QED BY <4>2, <1>11 DEF Browser!Answered, TabTypes, Browser!Set
    <3>2. fetch' \in [Tabs -> TabCall]
      BY <1>11, TabRows DEF Browser!Answered, TabTypes, TabCall, Browser!Idle
    <3>3. auth' \in [Tabs -> TabCall]
      BY <1>11, TabRows DEF Browser!Answered, TabTypes, TabCall, Browser!Idle
    <3>4. cookie' \in People \cup {Client, NoOne}
      BY <1>11 DEF Browser!Answered, TabTypes, TabCall
    <3> QED BY <3>1, <3>2, <3>3, <3>4 DEF TabTypes
  <2>2. \A u \in Tabs \ {t} :
           /\ tab'[u] = tab[u] /\ fetch'[u] = fetch[u] /\ auth'[u] = auth[u]
           /\ u \in touched => u \in touched'
           /\ cookie' \in {NoOne, cookie} \/ u \in touched' \/ ~ tab[u].open \/ tab[u].viewing
    BY <1>11 DEF Browser!Answered, TabTypes, Browser!Idle, Browser!Set, Browser!Viewing
  <2>3. TabFine(t)'
    BY <1>11, BrowserAssumption DEF Browser!Answered, TabFine, OneAccount, OneAsks,
      TabTypes, TabRow, TabCall, Browser!Idle, Browser!Set, Browser!Viewing
  <2> QED BY <2>1, <2>2, <2>3, TabOthers DEF TabInv
<1>12. ASSUME NEW t \in Tabs, Browser!Refused(t)
    PROVE  TabInv'
  <2>1. TabTypes'
    <3>1. tab' \in [Tabs -> TabRow]
      BY <1>12, TabRows DEF Browser!Refused, TabTypes
    <3>2. fetch' \in [Tabs -> TabCall]
      BY <1>12, TabRows DEF Browser!Refused, TabTypes, TabCall, Browser!Idle
    <3>3. auth' \in [Tabs -> TabCall]
      BY <1>12, TabRows DEF Browser!Refused, TabTypes, TabCall, Browser!Idle
    <3>4. cookie' \in People \cup {Client, NoOne}
      BY <1>12 DEF Browser!Refused, TabTypes, TabCall
    <3> QED BY <3>1, <3>2, <3>3, <3>4 DEF TabTypes
  <2>2. \A u \in Tabs \ {t} :
           /\ tab'[u] = tab[u] /\ fetch'[u] = fetch[u] /\ auth'[u] = auth[u]
           /\ u \in touched => u \in touched'
           /\ cookie' \in {NoOne, cookie} \/ u \in touched' \/ ~ tab[u].open \/ tab[u].viewing
    BY <1>12 DEF Browser!Refused, TabTypes, Browser!Idle, Browser!Viewing
  <2>3. TabFine(t)'
    BY <1>12, BrowserAssumption DEF Browser!Refused, TabFine, OneAccount, OneAsks,
      TabTypes, TabRow, TabCall, Browser!Idle, Browser!Viewing
  <2> QED BY <2>1, <2>2, <2>3, TabOthers DEF TabInv
<1>13. ASSUME NEW t \in Tabs, Browser!Fails(t)
    PROVE  TabInv'
  <2>1. CASE Browser!Forgets(t)
    <3>1. TabTypes'
      <4>1. tab' \in [Tabs -> TabRow]
        BY <2>1, <1>13, TabRows DEF Browser!Fails, TabTypes, Browser!Set
      <4>2. fetch' \in [Tabs -> TabCall]
        BY <2>1, <1>13, TabRows DEF Browser!Fails, TabTypes, TabCall, Browser!Idle
      <4>3. auth' \in [Tabs -> TabCall]
        BY <2>1, <1>13, TabRows DEF Browser!Fails, TabTypes, TabCall, Browser!Idle
      <4>4. cookie' \in People \cup {Client, NoOne}
        BY <2>1, <1>13 DEF Browser!Fails, TabTypes, TabCall
      <4> QED BY <4>1, <4>2, <4>3, <4>4 DEF TabTypes
    <3>2. \A u \in Tabs \ {t} :
             /\ tab'[u] = tab[u] /\ fetch'[u] = fetch[u] /\ auth'[u] = auth[u]
             /\ u \in touched => u \in touched'
             /\ cookie' \in {NoOne, cookie} \/ u \in touched' \/ ~ tab[u].open \/ tab[u].viewing
      BY <2>1, <1>13 DEF Browser!Fails, TabTypes, Browser!Idle, Browser!Set,
        Browser!Viewing, Browser!SignedOut, Browser!Forgets
    <3>3. TabFine(t)'
      <4>1. tab'[t].user = NoOne /\ tab'[t].open = tab[t].open
        BY <2>1, <1>13 DEF Browser!Fails, Browser!Set, Browser!SignedOut, TabTypes, TabRow
      <4>2. fetch'[t].pc = "idle" /\ auth' = auth /\ fetch[t].pc # "idle"
        BY <2>1, <1>13 DEF Browser!Fails, Browser!Idle, TabTypes
      <4> QED BY <4>1, <4>2 DEF TabFine, OneAccount, OneAsks
    <3> QED BY <3>1, <3>2, <3>3, TabOthers DEF TabInv
  <2>2. CASE ~ Browser!Forgets(t)
    <3>1. TabTypes'
      <4>1. tab' \in [Tabs -> TabRow]
        BY <2>2, <1>13, TabRows DEF Browser!Fails, TabTypes, Browser!Set
      <4>2. fetch' \in [Tabs -> TabCall]
        BY <2>2, <1>13, TabRows DEF Browser!Fails, TabTypes, TabCall, Browser!Idle
      <4>3. auth' \in [Tabs -> TabCall]
        BY <2>2, <1>13, TabRows DEF Browser!Fails, TabTypes, TabCall, Browser!Idle
      <4>4. cookie' \in People \cup {Client, NoOne}
        BY <2>2, <1>13 DEF Browser!Fails, TabTypes, TabCall
      <4> QED BY <4>1, <4>2, <4>3, <4>4 DEF TabTypes
    <3>2. \A u \in Tabs \ {t} :
             /\ tab'[u] = tab[u] /\ fetch'[u] = fetch[u] /\ auth'[u] = auth[u]
             /\ u \in touched => u \in touched'
             /\ cookie' \in {NoOne, cookie} \/ u \in touched' \/ ~ tab[u].open \/ tab[u].viewing
      BY <2>2, <1>13 DEF Browser!Fails, TabTypes, Browser!Idle, Browser!Set,
        Browser!Viewing, Browser!SignedOut, Browser!Forgets
    <3>3. TabFine(t)'
      BY <2>2, <1>13, BrowserAssumption DEF Browser!Fails, TabFine, OneAccount, OneAsks,
        TabTypes, TabRow, TabCall, Browser!Idle, Browser!Set, Browser!Viewing,
        Browser!SignedOut, Browser!Forgets
    <3> QED BY <3>1, <3>2, <3>3, TabOthers DEF TabInv
  <2> QED BY <2>1, <2>2, <1>13 DEF Browser!Fails
<1>14. ASSUME NEW t \in Tabs, Browser!Refreshed(t)
    PROVE  TabInv'
  <2>1. TabTypes'
    <3>1. tab' \in [Tabs -> TabRow]
      <4> DEFINE c == fetch[t].cookie
      <4>1. c \in People \cup {Client, NoOne}
        BY DEF TabTypes, TabCall
      <4>2. Browser!Holding(t, c) \in TabRow
        BY <4>1, TabRows
      <4> QED BY <4>2, <1>14 DEF Browser!Refreshed, TabTypes, Browser!Set
    <3>2. fetch' \in [Tabs -> TabCall]
      BY <1>14, TabRows DEF Browser!Refreshed, TabTypes, TabCall, Browser!Idle
    <3>3. auth' \in [Tabs -> TabCall]
      BY <1>14, TabRows DEF Browser!Refreshed, TabTypes, TabCall, Browser!Idle
    <3>4. cookie' \in People \cup {Client, NoOne}
      BY <1>14 DEF Browser!Refreshed, TabTypes, TabCall, Browser!CookieBecomes
    <3> QED BY <3>1, <3>2, <3>3, <3>4 DEF TabTypes
  <2>2. \A u \in Tabs \ {t} :
           /\ tab'[u] = tab[u] /\ fetch'[u] = fetch[u] /\ auth'[u] = auth[u]
           /\ u \in touched => u \in touched'
           /\ cookie' \in {NoOne, cookie} \/ u \in touched' \/ ~ tab[u].open \/ tab[u].viewing
    BY <1>14 DEF Browser!Refreshed, TabTypes, Browser!Idle, Browser!Set, Browser!Viewing,
      Browser!Holding, Browser!CookieBecomes, Browser!Others
  <2>3. TabFine(t)'
    BY <1>14, BrowserAssumption DEF Browser!Refreshed, TabFine, OneAccount, OneAsks,
      TabTypes, TabRow, TabCall, Browser!Idle, Browser!Set, Browser!Viewing,
      Browser!Holding, Browser!CookieBecomes, Browser!Others
  <2> QED BY <2>1, <2>2, <2>3, TabOthers DEF TabInv
<1>15. ASSUME NEW t \in Tabs, Browser!NotRefreshed(t)
    PROVE  TabInv'
  <2>1. TabTypes'
    <3>1. tab' \in [Tabs -> TabRow]
      BY <1>15, TabRows DEF Browser!NotRefreshed, TabTypes, Browser!Set
    <3>2. fetch' \in [Tabs -> TabCall]
      BY <1>15, TabRows DEF Browser!NotRefreshed, TabTypes, TabCall, Browser!Idle
    <3>3. auth' \in [Tabs -> TabCall]
      BY <1>15, TabRows DEF Browser!NotRefreshed, TabTypes, TabCall, Browser!Idle
    <3>4. cookie' \in People \cup {Client, NoOne}
      BY <1>15 DEF Browser!NotRefreshed, TabTypes, TabCall
    <3> QED BY <3>1, <3>2, <3>3, <3>4 DEF TabTypes
  <2>2. \A u \in Tabs \ {t} :
           /\ tab'[u] = tab[u] /\ fetch'[u] = fetch[u] /\ auth'[u] = auth[u]
           /\ u \in touched => u \in touched'
           /\ cookie' \in {NoOne, cookie} \/ u \in touched' \/ ~ tab[u].open \/ tab[u].viewing
    BY <1>15 DEF Browser!NotRefreshed, TabTypes, Browser!Idle, Browser!Set,
      Browser!Viewing, Browser!SignedOut, Browser!Forgets
  <2>3. TabFine(t)'
    BY <1>15, BrowserAssumption DEF Browser!NotRefreshed, TabFine, OneAccount, OneAsks,
      TabTypes, TabRow, TabCall, Browser!Idle, Browser!Set, Browser!Viewing,
      Browser!SignedOut, Browser!Forgets
  <2> QED BY <2>1, <2>2, <2>3, TabOthers DEF TabInv
<1>16. ASSUME NEW t \in Tabs, Browser!TokenExpires(t)
    PROVE  TabInv'
  <2>1. TabTypes'
    <3>1. tab' \in [Tabs -> TabRow]
      BY <1>16, TabRows DEF Browser!TokenExpires, TabTypes, Browser!Set
    <3>2. fetch' \in [Tabs -> TabCall]
      BY <1>16, TabRows DEF Browser!TokenExpires, TabTypes, TabCall, Browser!Idle
    <3>3. auth' \in [Tabs -> TabCall]
      BY <1>16, TabRows DEF Browser!TokenExpires, TabTypes, TabCall, Browser!Idle
    <3>4. cookie' \in People \cup {Client, NoOne}
      BY <1>16 DEF Browser!TokenExpires, TabTypes, TabCall
    <3> QED BY <3>1, <3>2, <3>3, <3>4 DEF TabTypes
  <2>2. \A u \in Tabs \ {t} :
           /\ tab'[u] = tab[u] /\ fetch'[u] = fetch[u] /\ auth'[u] = auth[u]
           /\ u \in touched => u \in touched'
           /\ cookie' \in {NoOne, cookie} \/ u \in touched' \/ ~ tab[u].open \/ tab[u].viewing
    BY <1>16 DEF Browser!TokenExpires, TabTypes, Browser!Idle, Browser!Set, Browser!Viewing
  <2>3. TabFine(t)'
    BY <1>16, BrowserAssumption DEF Browser!TokenExpires, TabFine, OneAccount, OneAsks,
      TabTypes, TabRow, TabCall, Browser!Idle, Browser!Set, Browser!Viewing
  <2> QED BY <2>1, <2>2, <2>3, TabOthers DEF TabInv
<1>17. CASE Browser!CookieExpires
  <2>1. TabTypes'
    BY <1>17 DEF Browser!CookieExpires, TabTypes
  <2>2. \A t \in Tabs : TabFine(t)'
    BY <1>17 DEF Browser!CookieExpires, TabFine, OneAccount, OneAsks
  <2> QED BY <2>1, <2>2
<1>18. CASE UNCHANGED Browser!vars
  <2>1. TabTypes'
    BY <1>18 DEF Browser!vars, TabTypes
  <2>2. \A t \in Tabs : TabFine(t)'
    BY <1>18 DEF Browser!vars, TabFine, OneAccount, OneAsks
  <2> QED BY <2>1, <2>2
<1> QED BY <1>1, <1>2, <1>3, <1>4, <1>5, <1>6, <1>7, <1>8, <1>9, <1>10, <1>11, <1>12,
  <1>13, <1>14, <1>15, <1>16, <1>17, <1>18 DEF Browser!Next

\* A tab acts for the account it shows, but where the cookie changed hands under it or
\* two of its sessions overlap: api.js and auth.js of the frontend, for any tabs,
\* accounts and sign-ins.
THEOREM TabsActAsShown == Browser!Spec => []ActsAsShown
<1>1. Browser!Init => TabInv
  BY BrowserAssumption DEF Browser!Init, TabInv, TabTypes, TabRow, TabCall, TabFine,
    OneAccount,
    OneAsks, Browser!Closed, Browser!Idle
<1>2. TabInv /\ [Browser!Next]_(Browser!vars) => TabInv'
  BY TabStep
<1>3. TabInv => ActsAsShown
  BY DEF TabInv, TabTypes, TabFine, OneAccount, ActsAsShown, Browser!ActsAsShown,
    Browser!Viewing
<1> QED BY <1>1, <1>2, <1>3, PTL DEF Browser!Spec

(***************************************************************************)
(* The page a customer pays on.                                            *)
(***************************************************************************)
BillRow ==
  [status : {"pending", "user_confirmed"} \cup Pay!Final, chosen : BOOLEAN, until : Nat]

PageRow ==
  [at : {"closed", "loading", "shown", "error", "left"},
   status : {"none", "pending", "user_confirmed"} \cup Pay!Final,
   chosen : BOOLEAN, until : Nat, modal : BOOLEAN]

PageCall ==
  [at : {"idle", "sent", "writing", "chosen", "done", "refused"}, until : Nat, alone : BOOLEAN]

PageStream ==
  [at : {"off", "asked", "read", "open", "ended"}, until : Nat, deaf : BOOLEAN]

PageTypes ==
  /\ now \in Nat /\ bill \in BillRow /\ page \in PageRow
  /\ choosing \in PageCall /\ saying \in PageCall /\ stream \in PageStream
  /\ published \subseteq Pay!Told /\ was \subseteq Pay!Final
  /\ event \in {"none"} \cup Pay!Final

\* What is published, on its way or shown has happened; an event ends its stream, and
\* the end of its time comes as an event only to a page that missed something.
OnlyWhatWas ==
  /\ bill.status \in Pay!Final => bill.status \in was
  /\ published \subseteq was
  /\ event \in Pay!Told => event \in was
  /\ event # "none" => stream.at = "ended"
  /\ page.at = "loading" => stream.at = "off"
  /\ event = "expired" => excuse # {}
  /\ page.status \in Pay!Told => page.status \in was
  /\ page.at = "loading" /\ page.status \in Pay!Final => page.status \in was

\* Once a method is chosen the deadline can only become that of a choice read before,
\* which is earlier: no page that knows of a choice takes the invoice to be over too soon.
DeadlineKnown ==
  /\ page.chosen => bill.chosen /\ bill.until <= page.until
  /\ choosing.at = "chosen" => bill.chosen /\ bill.until <= choosing.until
  /\ choosing.at = "writing" =>
       /\ choosing.until <= now + Window
       /\ bill.chosen => choosing.until <= bill.until
  /\ (event = "expired" \/ page.status = "expired") /\ "outdated" \notin excuse =>
       "expired" \in was \/ now >= bill.until

\* A page that missed nothing has been told of an end, or is still to be told of it.
EndIsComing ==
  page.at = "shown" /\ excuse = {} =>
    \/ page.status \in was \/ event \in was \/ stream.at = "asked"
    \/ /\ stream.at \in {"read", "open"}
       /\ bill.status \in Pay!Told /\ was = {bill.status} => bill.status \in published

PageInv == PageTypes /\ OnlyWhatWas /\ DeadlineKnown /\ EndIsComing

\* Types.
LEMMA PageTypesStep ==
  PageTypes /\ [Pay!Next]_(Pay!vars) => PageTypes'
<1> SUFFICES ASSUME PageTypes, [Pay!Next]_(Pay!vars)
             PROVE  PageTypes'
  OBVIOUS
<1>1. ASSUME NEW s \in Pay!Told, Pay!Settled(s)
      PROVE  PageTypes'
  BY <1>1, PageAssumption DEF Pay!Settled, PageTypes, BillRow, PageRow, PageCall,
    PageStream, Pay!Final, Pay!Told, Pay!Becomes
<1>2. ASSUME NEW s \in Pay!Told, Pay!Publishes(s)
      PROVE  PageTypes'
  BY <1>2, PageAssumption DEF Pay!Publishes, PageTypes, BillRow, PageRow, PageCall,
    PageStream, Pay!Final, Pay!Told, Pay!Listening, Pay!Waiting
<1>3. ASSUME NEW s \in Pay!Told, Pay!NotPublished(s)
      PROVE  PageTypes'
  BY <1>3, PageAssumption DEF Pay!NotPublished, PageTypes, BillRow, PageRow, PageCall,
    PageStream, Pay!Final, Pay!Told, Pay!Excused
<1>4. CASE Pay!Lapses
  BY <1>4, PageAssumption DEF Pay!Lapses, PageTypes, BillRow, PageRow, PageCall,
    PageStream, Pay!Final, Pay!Told, Pay!Becomes
<1>5. CASE Pay!ChosenElsewhere
  <2>1. now' \in Nat /\ bill' \in BillRow
    <3>1. now + Window \in Nat /\ now' = now
      BY <1>5, PageAssumption DEF Pay!ChosenElsewhere, PageTypes
    <3>2. bill' = [bill EXCEPT !.chosen = TRUE, !.until = now + Window]
      BY <1>5 DEF Pay!ChosenElsewhere, Pay!Extended
    <3>3. \A n \in Nat : [bill EXCEPT !.chosen = TRUE, !.until = n] \in BillRow
      BY DEF PageTypes, BillRow
    <3> QED BY <3>1, <3>2, <3>3 DEF PageTypes
  <2>2. page' \in PageRow
    BY <1>5, PageAssumption DEF Pay!ChosenElsewhere, PageTypes, PageRow, BillRow, PageCall,
      Pay!Final, Pay!Told, Pay!Open, Pay!TooLate, Pay!Extended
  <2>3. choosing' \in PageCall
    BY <1>5, PageAssumption DEF Pay!ChosenElsewhere, PageTypes, PageCall, BillRow,
      Pay!Final, Pay!Told, Pay!Open, Pay!TooLate, Pay!Extended
  <2>4. saying' \in PageCall
    BY <1>5, PageAssumption DEF Pay!ChosenElsewhere, PageTypes, PageCall, BillRow,
      Pay!Final, Pay!Told, Pay!Open, Pay!TooLate, Pay!Extended
  <2>5. stream' \in PageStream
    BY <1>5, PageAssumption DEF Pay!ChosenElsewhere, PageTypes, PageStream, BillRow,
      Pay!Final, Pay!Told, Pay!Open, Pay!TooLate, Pay!Extended
  <2>6. published' \subseteq Pay!Told /\ was' \subseteq Pay!Final /\ event' \in {"none"} \cup Pay!Final
    BY <1>5 DEF Pay!ChosenElsewhere, PageTypes, Pay!Final, Pay!Told, Pay!Open, Pay!TooLate,
      Pay!Extended
  <2> QED BY <2>1, <2>2, <2>3, <2>4, <2>5, <2>6 DEF PageTypes
<1>6. CASE Pay!Ticks
  BY <1>6, PageAssumption DEF Pay!Ticks, PageTypes, BillRow, PageRow, PageCall,
    PageStream, Pay!Final, Pay!Told
<1>7. CASE Pay!Loads
  BY <1>7, PageAssumption DEF Pay!Loads, PageTypes, BillRow, PageRow, PageCall,
    PageStream, Pay!Final, Pay!Told, Pay!Off, Pay!Idle, Pay!Left
<1>8. CASE Pay!Loaded
  <2>1. now' \in Nat /\ bill' \in BillRow
    BY <1>8, PageAssumption DEF Pay!Loaded, PageTypes, BillRow, PageCall, Pay!Final,
      Pay!Told, Pay!Off
  <2>2. page' \in PageRow
    BY <1>8, PageAssumption DEF Pay!Loaded, PageTypes, PageRow, BillRow, PageCall,
      Pay!Final, Pay!Told, Pay!Off
  <2>3. choosing' \in PageCall
    BY <1>8, PageAssumption DEF Pay!Loaded, PageTypes, PageCall, BillRow, Pay!Final,
      Pay!Told, Pay!Off
  <2>4. saying' \in PageCall
    BY <1>8, PageAssumption DEF Pay!Loaded, PageTypes, PageCall, BillRow, Pay!Final,
      Pay!Told, Pay!Off
  <2>5. stream' \in PageStream
    BY <1>8, PageAssumption DEF Pay!Loaded, PageTypes, PageStream, BillRow, Pay!Final,
      Pay!Told, Pay!Off
  <2>6. published' \subseteq Pay!Told /\ was' \subseteq Pay!Final /\ event' \in {"none"} \cup Pay!Final
    BY <1>8 DEF Pay!Loaded, PageTypes, Pay!Final, Pay!Told, Pay!Off
  <2> QED BY <2>1, <2>2, <2>3, <2>4, <2>5, <2>6 DEF PageTypes
<1>9. CASE Pay!LoadFails
  BY <1>9, PageAssumption DEF Pay!LoadFails, PageTypes, BillRow, PageRow, PageCall,
    PageStream, Pay!Final, Pay!Told
<1>10. CASE Pay!Redirects
  BY <1>10, PageAssumption DEF Pay!Redirects, PageTypes, BillRow, PageRow, PageCall,
    PageStream, Pay!Final, Pay!Told, Pay!Off, Pay!Idle, Pay!Left, Pay!Screen
<1>11. CASE Pay!Connects
  <2>1. now' \in Nat /\ bill' \in BillRow
    BY <1>11, PageAssumption DEF Pay!Connects, PageTypes, BillRow, PageCall, Pay!Final,
      Pay!Told, Pay!Off, Pay!Excused
  <2>2. page' \in PageRow
    BY <1>11, PageAssumption DEF Pay!Connects, PageTypes, PageRow, BillRow, PageCall,
      Pay!Final, Pay!Told, Pay!Off, Pay!Excused
  <2>3. choosing' \in PageCall
    BY <1>11, PageAssumption DEF Pay!Connects, PageTypes, PageCall, BillRow, Pay!Final,
      Pay!Told, Pay!Off, Pay!Excused
  <2>4. saying' \in PageCall
    BY <1>11, PageAssumption DEF Pay!Connects, PageTypes, PageCall, BillRow, Pay!Final,
      Pay!Told, Pay!Off, Pay!Excused
  <2>5. stream' \in PageStream
    <3>1. Pay!Off \in PageStream
      BY DEF PageStream, Pay!Off
    <3>2. [Pay!Off EXCEPT !.at = "read", !.until = bill.until] \in PageStream
      BY DEF PageStream, Pay!Off, PageTypes, BillRow
    <3> QED BY <1>11, <3>1, <3>2 DEF Pay!Connects
  <2>6. published' \subseteq Pay!Told /\ was' \subseteq Pay!Final /\ event' \in {"none"} \cup Pay!Final
    BY <1>11 DEF Pay!Connects, PageTypes, Pay!Final, Pay!Told, Pay!Off, Pay!Excused
  <2> QED BY <2>1, <2>2, <2>3, <2>4, <2>5, <2>6 DEF PageTypes
<1>12. CASE Pay!Subscribes
  <2>1. now' \in Nat /\ bill' \in BillRow
    BY <1>12, PageAssumption DEF Pay!Subscribes, PageTypes, BillRow, PageCall, Pay!Final,
      Pay!Told
  <2>2. page' \in PageRow
    BY <1>12, PageAssumption DEF Pay!Subscribes, PageTypes, PageRow, BillRow, PageCall,
      Pay!Final, Pay!Told
  <2>3. choosing' \in PageCall
    BY <1>12, PageAssumption DEF Pay!Subscribes, PageTypes, PageCall, BillRow, Pay!Final,
      Pay!Told
  <2>4. saying' \in PageCall
    BY <1>12, PageAssumption DEF Pay!Subscribes, PageTypes, PageCall, BillRow, Pay!Final,
      Pay!Told
  <2>5. stream' \in PageStream
    BY <1>12, PageAssumption DEF Pay!Subscribes, PageTypes, PageStream, BillRow, Pay!Final,
      Pay!Told
  <2>6. published' \subseteq Pay!Told /\ was' \subseteq Pay!Final /\ event' \in {"none"} \cup Pay!Final
    BY <1>12 DEF Pay!Subscribes, PageTypes, Pay!Final, Pay!Told
  <2> QED BY <2>1, <2>2, <2>3, <2>4, <2>5, <2>6 DEF PageTypes
<1>13. CASE Pay!RedisDrops
  <2>1. now' \in Nat /\ bill' \in BillRow
    BY <1>13, PageAssumption DEF Pay!RedisDrops, PageTypes, BillRow, PageCall, Pay!Final,
      Pay!Told
  <2>2. page' \in PageRow
    BY <1>13, PageAssumption DEF Pay!RedisDrops, PageTypes, PageRow, BillRow, PageCall,
      Pay!Final, Pay!Told
  <2>3. choosing' \in PageCall
    BY <1>13, PageAssumption DEF Pay!RedisDrops, PageTypes, PageCall, BillRow, Pay!Final,
      Pay!Told
  <2>4. saying' \in PageCall
    BY <1>13, PageAssumption DEF Pay!RedisDrops, PageTypes, PageCall, BillRow, Pay!Final,
      Pay!Told
  <2>5. stream' \in PageStream
    BY <1>13, PageAssumption DEF Pay!RedisDrops, PageTypes, PageStream, BillRow, Pay!Final,
      Pay!Told
  <2>6. published' \subseteq Pay!Told /\ was' \subseteq Pay!Final /\ event' \in {"none"} \cup Pay!Final
    BY <1>13 DEF Pay!RedisDrops, PageTypes, Pay!Final, Pay!Told
  <2> QED BY <2>1, <2>2, <2>3, <2>4, <2>5, <2>6 DEF PageTypes
<1>14. CASE Pay!Breaks
  <2>1. now' \in Nat /\ bill' \in BillRow
    BY <1>14, PageAssumption DEF Pay!Breaks, PageTypes, BillRow, PageCall, Pay!Final,
      Pay!Told, Pay!Off
  <2>2. page' \in PageRow
    BY <1>14, PageAssumption DEF Pay!Breaks, PageTypes, PageRow, BillRow, PageCall,
      Pay!Final, Pay!Told, Pay!Off
  <2>3. choosing' \in PageCall
    BY <1>14, PageAssumption DEF Pay!Breaks, PageTypes, PageCall, BillRow, Pay!Final,
      Pay!Told, Pay!Off
  <2>4. saying' \in PageCall
    BY <1>14, PageAssumption DEF Pay!Breaks, PageTypes, PageCall, BillRow, Pay!Final,
      Pay!Told, Pay!Off
  <2>5. stream' \in PageStream
    BY <1>14, PageAssumption DEF Pay!Breaks, PageTypes, PageStream, BillRow, Pay!Final,
      Pay!Told, Pay!Off
  <2>6. published' \subseteq Pay!Told /\ was' \subseteq Pay!Final /\ event' \in {"none"} \cup Pay!Final
    BY <1>14 DEF Pay!Breaks, PageTypes, Pay!Final, Pay!Told, Pay!Off
  <2> QED BY <2>1, <2>2, <2>3, <2>4, <2>5, <2>6 DEF PageTypes
<1>15. CASE Pay!Closes
  BY <1>15, PageAssumption DEF Pay!Closes, PageTypes, BillRow, PageRow, PageCall,
    PageStream, Pay!Final, Pay!Told, Pay!Off, Pay!Excused
<1>16. CASE Pay!TimesOut
  BY <1>16, PageAssumption DEF Pay!TimesOut, PageTypes, BillRow, PageRow, PageCall,
    PageStream, Pay!Final, Pay!Told
<1>17. CASE Pay!Hears
  BY <1>17, PageAssumption DEF Pay!Hears, PageTypes, BillRow, PageRow, PageCall,
    PageStream, Pay!Final, Pay!Told, Pay!Off
<1>18. CASE Pay!Chooses
  <2>1. now' \in Nat /\ bill' \in BillRow
    BY <1>18, PageAssumption DEF Pay!Chooses, PageTypes, BillRow, PageCall, Pay!Final,
      Pay!Told, Pay!Idle, Pay!Screen
  <2>2. page' \in PageRow
    BY <1>18, PageAssumption DEF Pay!Chooses, PageTypes, PageRow, BillRow, PageCall,
      Pay!Final, Pay!Told, Pay!Idle, Pay!Screen
  <2>3. choosing' \in PageCall
    BY <1>18, PageAssumption DEF Pay!Chooses, PageTypes, PageCall, BillRow, Pay!Final,
      Pay!Told, Pay!Idle, Pay!Screen
  <2>4. saying' \in PageCall
    BY <1>18, PageAssumption DEF Pay!Chooses, PageTypes, PageCall, BillRow, Pay!Final,
      Pay!Told, Pay!Idle, Pay!Screen
  <2>5. stream' \in PageStream
    BY <1>18, PageAssumption DEF Pay!Chooses, PageTypes, PageStream, BillRow, Pay!Final,
      Pay!Told, Pay!Idle, Pay!Screen
  <2>6. published' \subseteq Pay!Told /\ was' \subseteq Pay!Final /\ event' \in {"none"} \cup Pay!Final
    BY <1>18 DEF Pay!Chooses, PageTypes, Pay!Final, Pay!Told, Pay!Idle, Pay!Screen
  <2> QED BY <2>1, <2>2, <2>3, <2>4, <2>5, <2>6 DEF PageTypes
<1>19. CASE Pay!ChoiceRead
  <2>1. now' \in Nat /\ bill' \in BillRow
    BY <1>19, PageAssumption DEF Pay!ChoiceRead, PageTypes, BillRow, PageCall, Pay!Final,
      Pay!Told, Pay!Idle, Pay!Open
  <2>2. page' \in PageRow
    BY <1>19, PageAssumption DEF Pay!ChoiceRead, PageTypes, PageRow, BillRow, PageCall,
      Pay!Final, Pay!Told, Pay!Idle, Pay!Open
  <2>3. choosing' \in PageCall
    <3>1. [Pay!Idle EXCEPT !.at = "refused"] \in PageCall
      BY DEF PageCall, Pay!Idle
    <3>2. [Pay!Idle EXCEPT !.at = "chosen", !.until = bill.until] \in PageCall
      BY DEF PageCall, Pay!Idle, PageTypes, BillRow
    <3>3. \A n \in Nat : [Pay!Idle EXCEPT !.at = "writing", !.until = n] \in PageCall
      BY DEF PageCall, Pay!Idle
    <3>4. now + Window \in Nat
      BY PageAssumption DEF PageTypes
    <3>5. [Pay!Idle EXCEPT !.at = "writing", !.until = now + Window] \in PageCall
      BY <3>3, <3>4
    <3> QED BY <1>19, <3>1, <3>2, <3>5 DEF Pay!ChoiceRead
  <2>4. saying' \in PageCall
    BY <1>19, PageAssumption DEF Pay!ChoiceRead, PageTypes, PageCall, BillRow, Pay!Final,
      Pay!Told, Pay!Idle, Pay!Open
  <2>5. stream' \in PageStream
    BY <1>19, PageAssumption DEF Pay!ChoiceRead, PageTypes, PageStream, BillRow, Pay!Final,
      Pay!Told, Pay!Idle, Pay!Open
  <2>6. published' \subseteq Pay!Told /\ was' \subseteq Pay!Final /\ event' \in {"none"} \cup Pay!Final
    BY <1>19 DEF Pay!ChoiceRead, PageTypes, Pay!Final, Pay!Told, Pay!Idle, Pay!Open
  <2> QED BY <2>1, <2>2, <2>3, <2>4, <2>5, <2>6 DEF PageTypes
<1>20. CASE Pay!ChoiceWritten
  <2>1. now' \in Nat /\ bill' \in BillRow
    BY <1>20, PageAssumption DEF Pay!ChoiceWritten, PageTypes, BillRow, PageCall, Pay!Final,
      Pay!Told, Pay!Idle, Pay!TooLate, Pay!Extended
  <2>2. page' \in PageRow
    BY <1>20, PageAssumption DEF Pay!ChoiceWritten, PageTypes, PageRow, BillRow, PageCall,
      Pay!Final, Pay!Told, Pay!Idle, Pay!TooLate, Pay!Extended
  <2>3. choosing' \in PageCall
    BY <1>20, PageAssumption DEF Pay!ChoiceWritten, PageTypes, PageCall, BillRow, Pay!Final,
      Pay!Told, Pay!Idle, Pay!TooLate, Pay!Extended
  <2>4. saying' \in PageCall
    BY <1>20, PageAssumption DEF Pay!ChoiceWritten, PageTypes, PageCall, BillRow, Pay!Final,
      Pay!Told, Pay!Idle, Pay!TooLate, Pay!Extended
  <2>5. stream' \in PageStream
    BY <1>20, PageAssumption DEF Pay!ChoiceWritten, PageTypes, PageStream, BillRow,
      Pay!Final, Pay!Told, Pay!Idle, Pay!TooLate, Pay!Extended
  <2>6. published' \subseteq Pay!Told /\ was' \subseteq Pay!Final /\ event' \in {"none"} \cup Pay!Final
    BY <1>20 DEF Pay!ChoiceWritten, PageTypes, Pay!Final, Pay!Told, Pay!Idle, Pay!TooLate,
      Pay!Extended
  <2> QED BY <2>1, <2>2, <2>3, <2>4, <2>5, <2>6 DEF PageTypes
<1>21. CASE Pay!ChoiceAnswered
  <2>1. now' \in Nat /\ bill' \in BillRow
    BY <1>21, PageAssumption DEF Pay!ChoiceAnswered, PageTypes, BillRow, PageCall,
      Pay!Final, Pay!Told, Pay!Idle, Pay!Chosen
  <2>2. page' \in PageRow
    BY <1>21, PageAssumption DEF Pay!ChoiceAnswered, PageTypes, PageRow, BillRow, PageCall,
      Pay!Final, Pay!Told, Pay!Idle, Pay!Chosen
  <2>3. choosing' \in PageCall
    BY <1>21, PageAssumption DEF Pay!ChoiceAnswered, PageTypes, PageCall, BillRow,
      Pay!Final, Pay!Told, Pay!Idle, Pay!Chosen
  <2>4. saying' \in PageCall
    BY <1>21, PageAssumption DEF Pay!ChoiceAnswered, PageTypes, PageCall, BillRow,
      Pay!Final, Pay!Told, Pay!Idle, Pay!Chosen
  <2>5. stream' \in PageStream
    BY <1>21, PageAssumption DEF Pay!ChoiceAnswered, PageTypes, PageStream, BillRow,
      Pay!Final, Pay!Told, Pay!Idle, Pay!Chosen
  <2>6. published' \subseteq Pay!Told /\ was' \subseteq Pay!Final /\ event' \in {"none"} \cup Pay!Final
    BY <1>21 DEF Pay!ChoiceAnswered, PageTypes, Pay!Final, Pay!Told, Pay!Idle, Pay!Chosen
  <2> QED BY <2>1, <2>2, <2>3, <2>4, <2>5, <2>6 DEF PageTypes
<1>22. CASE Pay!ChoiceLost
  <2>1. now' \in Nat /\ bill' \in BillRow
    BY <1>22, PageAssumption DEF Pay!ChoiceLost, PageTypes, BillRow, PageCall, Pay!Final,
      Pay!Told, Pay!Idle, Pay!Left
  <2>2. page' \in PageRow
    BY <1>22, PageAssumption DEF Pay!ChoiceLost, PageTypes, PageRow, BillRow, PageCall,
      Pay!Final, Pay!Told, Pay!Idle, Pay!Left
  <2>3. choosing' \in PageCall
    <3>1. \A r \in PageCall : Pay!Left(r) \in PageCall
      BY DEF PageCall, Pay!Left, Pay!Idle
    <3>2. Pay!Idle \in PageCall
      BY DEF PageCall, Pay!Idle
    <3> QED BY <1>22, <3>1, <3>2 DEF Pay!ChoiceLost, PageTypes
  <2>4. saying' \in PageCall
    BY <1>22, PageAssumption DEF Pay!ChoiceLost, PageTypes, PageCall, BillRow, Pay!Final,
      Pay!Told, Pay!Idle, Pay!Left
  <2>5. stream' \in PageStream
    BY <1>22, PageAssumption DEF Pay!ChoiceLost, PageTypes, PageStream, BillRow, Pay!Final,
      Pay!Told, Pay!Idle, Pay!Left
  <2>6. published' \subseteq Pay!Told /\ was' \subseteq Pay!Final /\ event' \in {"none"} \cup Pay!Final
    BY <1>22 DEF Pay!ChoiceLost, PageTypes, Pay!Final, Pay!Told, Pay!Idle, Pay!Left
  <2> QED BY <2>1, <2>2, <2>3, <2>4, <2>5, <2>6 DEF PageTypes
<1>23. CASE Pay!CountsDown
  BY <1>23, PageAssumption DEF Pay!CountsDown, PageTypes, BillRow, PageRow, PageCall,
    PageStream, Pay!Final, Pay!Told, Pay!Screen
<1>24. CASE Pay!OpensModal
  <2>1. now' \in Nat /\ bill' \in BillRow
    BY <1>24, PageAssumption DEF Pay!OpensModal, PageTypes, BillRow, PageCall, Pay!Final,
      Pay!Told, Pay!Screen
  <2>2. page' \in PageRow
    BY <1>24, PageAssumption DEF Pay!OpensModal, PageTypes, PageRow, BillRow, PageCall,
      Pay!Final, Pay!Told, Pay!Screen
  <2>3. choosing' \in PageCall
    BY <1>24, PageAssumption DEF Pay!OpensModal, PageTypes, PageCall, BillRow, Pay!Final,
      Pay!Told, Pay!Screen
  <2>4. saying' \in PageCall
    BY <1>24, PageAssumption DEF Pay!OpensModal, PageTypes, PageCall, BillRow, Pay!Final,
      Pay!Told, Pay!Screen
  <2>5. stream' \in PageStream
    BY <1>24, PageAssumption DEF Pay!OpensModal, PageTypes, PageStream, BillRow, Pay!Final,
      Pay!Told, Pay!Screen
  <2>6. published' \subseteq Pay!Told /\ was' \subseteq Pay!Final /\ event' \in {"none"} \cup Pay!Final
    BY <1>24 DEF Pay!OpensModal, PageTypes, Pay!Final, Pay!Told, Pay!Screen
  <2> QED BY <2>1, <2>2, <2>3, <2>4, <2>5, <2>6 DEF PageTypes
<1>25. CASE Pay!ClosesModal
  <2>1. now' \in Nat /\ bill' \in BillRow
    BY <1>25, PageAssumption DEF Pay!ClosesModal, PageTypes, BillRow, PageCall, Pay!Final,
      Pay!Told, Pay!Screen
  <2>2. page' \in PageRow
    BY <1>25, PageAssumption DEF Pay!ClosesModal, PageTypes, PageRow, BillRow, PageCall,
      Pay!Final, Pay!Told, Pay!Screen
  <2>3. choosing' \in PageCall
    BY <1>25, PageAssumption DEF Pay!ClosesModal, PageTypes, PageCall, BillRow, Pay!Final,
      Pay!Told, Pay!Screen
  <2>4. saying' \in PageCall
    BY <1>25, PageAssumption DEF Pay!ClosesModal, PageTypes, PageCall, BillRow, Pay!Final,
      Pay!Told, Pay!Screen
  <2>5. stream' \in PageStream
    BY <1>25, PageAssumption DEF Pay!ClosesModal, PageTypes, PageStream, BillRow, Pay!Final,
      Pay!Told, Pay!Screen
  <2>6. published' \subseteq Pay!Told /\ was' \subseteq Pay!Final /\ event' \in {"none"} \cup Pay!Final
    BY <1>25 DEF Pay!ClosesModal, PageTypes, Pay!Final, Pay!Told, Pay!Screen
  <2> QED BY <2>1, <2>2, <2>3, <2>4, <2>5, <2>6 DEF PageTypes
<1>26. CASE Pay!Confirms
  <2>1. now' \in Nat /\ bill' \in BillRow
    BY <1>26, PageAssumption DEF Pay!Confirms, PageTypes, BillRow, PageCall, Pay!Final,
      Pay!Told, Pay!Idle, Pay!Screen
  <2>2. page' \in PageRow
    BY <1>26, PageAssumption DEF Pay!Confirms, PageTypes, PageRow, BillRow, PageCall,
      Pay!Final, Pay!Told, Pay!Idle, Pay!Screen
  <2>3. choosing' \in PageCall
    BY <1>26, PageAssumption DEF Pay!Confirms, PageTypes, PageCall, BillRow, Pay!Final,
      Pay!Told, Pay!Idle, Pay!Screen
  <2>4. saying' \in PageCall
    BY <1>26, PageAssumption DEF Pay!Confirms, PageTypes, PageCall, BillRow, Pay!Final,
      Pay!Told, Pay!Idle, Pay!Screen
  <2>5. stream' \in PageStream
    BY <1>26, PageAssumption DEF Pay!Confirms, PageTypes, PageStream, BillRow, Pay!Final,
      Pay!Told, Pay!Idle, Pay!Screen
  <2>6. published' \subseteq Pay!Told /\ was' \subseteq Pay!Final /\ event' \in {"none"} \cup Pay!Final
    BY <1>26 DEF Pay!Confirms, PageTypes, Pay!Final, Pay!Told, Pay!Idle, Pay!Screen
  <2> QED BY <2>1, <2>2, <2>3, <2>4, <2>5, <2>6 DEF PageTypes
<1>27. CASE Pay!ConfirmRead
  <2>1. now' \in Nat /\ bill' \in BillRow
    BY <1>27, PageAssumption DEF Pay!ConfirmRead, PageTypes, BillRow, PageCall, Pay!Final,
      Pay!Told, Pay!Idle, Pay!Open
  <2>2. page' \in PageRow
    BY <1>27, PageAssumption DEF Pay!ConfirmRead, PageTypes, PageRow, BillRow, PageCall,
      Pay!Final, Pay!Told, Pay!Idle, Pay!Open
  <2>3. choosing' \in PageCall
    BY <1>27, PageAssumption DEF Pay!ConfirmRead, PageTypes, PageCall, BillRow, Pay!Final,
      Pay!Told, Pay!Idle, Pay!Open
  <2>4. saying' \in PageCall
    BY <1>27, PageAssumption DEF Pay!ConfirmRead, PageTypes, PageCall, BillRow, Pay!Final,
      Pay!Told, Pay!Idle, Pay!Open
  <2>5. stream' \in PageStream
    BY <1>27, PageAssumption DEF Pay!ConfirmRead, PageTypes, PageStream, BillRow, Pay!Final,
      Pay!Told, Pay!Idle, Pay!Open
  <2>6. published' \subseteq Pay!Told /\ was' \subseteq Pay!Final /\ event' \in {"none"} \cup Pay!Final
    BY <1>27 DEF Pay!ConfirmRead, PageTypes, Pay!Final, Pay!Told, Pay!Idle, Pay!Open
  <2> QED BY <2>1, <2>2, <2>3, <2>4, <2>5, <2>6 DEF PageTypes
<1>28. CASE Pay!ConfirmWritten
  BY <1>28, PageAssumption DEF Pay!ConfirmWritten, PageTypes, BillRow, PageRow, PageCall,
    PageStream, Pay!Final, Pay!Told, Pay!Idle
<1>29. CASE Pay!ConfirmAnswered
  BY <1>29, PageAssumption DEF Pay!ConfirmAnswered, PageTypes, BillRow, PageRow,
    PageCall, PageStream, Pay!Final, Pay!Told, Pay!Idle, Pay!Confirmed
<1>30. CASE Pay!ConfirmLost
  <2>1. now' \in Nat /\ bill' \in BillRow
    BY <1>30, PageAssumption DEF Pay!ConfirmLost, PageTypes, BillRow, PageCall, Pay!Final,
      Pay!Told, Pay!Idle, Pay!Left
  <2>2. page' \in PageRow
    BY <1>30, PageAssumption DEF Pay!ConfirmLost, PageTypes, PageRow, BillRow, PageCall,
      Pay!Final, Pay!Told, Pay!Idle, Pay!Left
  <2>3. choosing' \in PageCall
    BY <1>30, PageAssumption DEF Pay!ConfirmLost, PageTypes, PageCall, BillRow, Pay!Final,
      Pay!Told, Pay!Idle, Pay!Left
  <2>4. saying' \in PageCall
    <3>1. \A r \in PageCall : Pay!Left(r) \in PageCall
      BY DEF PageCall, Pay!Left, Pay!Idle
    <3>2. Pay!Idle \in PageCall
      BY DEF PageCall, Pay!Idle
    <3> QED BY <1>30, <3>1, <3>2 DEF Pay!ConfirmLost, PageTypes
  <2>5. stream' \in PageStream
    BY <1>30, PageAssumption DEF Pay!ConfirmLost, PageTypes, PageStream, BillRow, Pay!Final,
      Pay!Told, Pay!Idle, Pay!Left
  <2>6. published' \subseteq Pay!Told /\ was' \subseteq Pay!Final /\ event' \in {"none"} \cup Pay!Final
    BY <1>30 DEF Pay!ConfirmLost, PageTypes, Pay!Final, Pay!Told, Pay!Idle, Pay!Left
  <2> QED BY <2>1, <2>2, <2>3, <2>4, <2>5, <2>6 DEF PageTypes
<1>31. CASE UNCHANGED Pay!vars
  BY <1>31 DEF Pay!vars, PageTypes, BillRow, PageRow, PageCall, PageStream, Pay!Final,
    Pay!Told
<1> QED BY <1>1, <1>2, <1>3, <1>4, <1>5, <1>6, <1>7, <1>8, <1>9, <1>10, <1>11, <1>12,
  <1>13, <1>14, <1>15, <1>16, <1>17, <1>18, <1>19, <1>20, <1>21, <1>22, <1>23, <1>24,
  <1>25, <1>26, <1>27, <1>28, <1>29, <1>30, <1>31 DEF Pay!Next

\* Nothing is told that was not so.
LEMMA OnlyWhatWasStep ==
  PageTypes /\ OnlyWhatWas /\ [Pay!Next]_(Pay!vars) => OnlyWhatWas'
<1> SUFFICES ASSUME PageTypes, OnlyWhatWas, [Pay!Next]_(Pay!vars)
             PROVE  OnlyWhatWas'
  OBVIOUS
<1>1. ASSUME NEW s \in Pay!Told, Pay!Settled(s)
      PROVE  OnlyWhatWas'
  BY <1>1, PageAssumption DEF Pay!Settled, PageTypes, OnlyWhatWas, BillRow, PageRow,
    PageCall, PageStream, Pay!Final, Pay!Told, Pay!Becomes
<1>2. ASSUME NEW s \in Pay!Told, Pay!Publishes(s)
      PROVE  OnlyWhatWas'
  BY <1>2, PageAssumption DEF Pay!Publishes, PageTypes, OnlyWhatWas, BillRow, PageRow,
    PageCall, PageStream, Pay!Final, Pay!Told, Pay!Listening, Pay!Waiting
<1>3. ASSUME NEW s \in Pay!Told, Pay!NotPublished(s)
      PROVE  OnlyWhatWas'
  BY <1>3, PageAssumption DEF Pay!NotPublished, PageTypes, OnlyWhatWas, BillRow, PageRow,
    PageCall, PageStream, Pay!Final, Pay!Told, Pay!Excused
<1>4. CASE Pay!Lapses
  BY <1>4, PageAssumption DEF Pay!Lapses, PageTypes, OnlyWhatWas, BillRow, PageRow,
    PageCall, PageStream, Pay!Final, Pay!Told, Pay!Becomes
<1>5. CASE Pay!ChosenElsewhere
  BY <1>5, PageAssumption DEF Pay!ChosenElsewhere, PageTypes, OnlyWhatWas, BillRow,
    PageRow, PageCall, PageStream, Pay!Final, Pay!Told, Pay!Open, Pay!TooLate,
    Pay!Extended
<1>6. CASE Pay!Ticks
  BY <1>6, PageAssumption DEF Pay!Ticks, PageTypes, OnlyWhatWas, BillRow, PageRow,
    PageCall, PageStream, Pay!Final, Pay!Told
<1>7. CASE Pay!Loads
  BY <1>7, PageAssumption DEF Pay!Loads, PageTypes, OnlyWhatWas, BillRow, PageRow,
    PageCall, PageStream, Pay!Final, Pay!Told, Pay!Off, Pay!Idle, Pay!Left
<1>8. CASE Pay!Loaded
  BY <1>8, PageAssumption DEF Pay!Loaded, PageTypes, OnlyWhatWas, BillRow, PageRow,
    PageCall, PageStream, Pay!Final, Pay!Told, Pay!Off
<1>9. CASE Pay!LoadFails
  BY <1>9, PageAssumption DEF Pay!LoadFails, PageTypes, OnlyWhatWas, BillRow, PageRow,
    PageCall, PageStream, Pay!Final, Pay!Told
<1>10. CASE Pay!Redirects
  BY <1>10, PageAssumption DEF Pay!Redirects, PageTypes, OnlyWhatWas, BillRow, PageRow,
    PageCall, PageStream, Pay!Final, Pay!Told, Pay!Off, Pay!Idle, Pay!Left, Pay!Screen
<1>11. CASE Pay!Connects
  BY <1>11, PageAssumption DEF Pay!Connects, PageTypes, OnlyWhatWas, BillRow, PageRow,
    PageCall, PageStream, Pay!Final, Pay!Told, Pay!Off, Pay!Excused
<1>12. CASE Pay!Subscribes
  BY <1>12, PageAssumption DEF Pay!Subscribes, PageTypes, OnlyWhatWas, BillRow, PageRow,
    PageCall, PageStream, Pay!Final, Pay!Told
<1>13. CASE Pay!RedisDrops
  BY <1>13, PageAssumption DEF Pay!RedisDrops, PageTypes, OnlyWhatWas, BillRow, PageRow,
    PageCall, PageStream, Pay!Final, Pay!Told
<1>14. CASE Pay!Breaks
  BY <1>14, PageAssumption DEF Pay!Breaks, PageTypes, OnlyWhatWas, BillRow, PageRow,
    PageCall, PageStream, Pay!Final, Pay!Told, Pay!Off
<1>15. CASE Pay!Closes
  BY <1>15, PageAssumption DEF Pay!Closes, PageTypes, OnlyWhatWas, BillRow, PageRow,
    PageCall, PageStream, Pay!Final, Pay!Told, Pay!Off, Pay!Excused
<1>16. CASE Pay!TimesOut
  BY <1>16, PageAssumption DEF Pay!TimesOut, PageTypes, OnlyWhatWas, BillRow, PageRow,
    PageCall, PageStream, Pay!Final, Pay!Told
<1>17. CASE Pay!Hears
  BY <1>17, PageAssumption DEF Pay!Hears, PageTypes, OnlyWhatWas, BillRow, PageRow,
    PageCall, PageStream, Pay!Final, Pay!Told, Pay!Off
<1>18. CASE Pay!Chooses
  BY <1>18, PageAssumption DEF Pay!Chooses, PageTypes, OnlyWhatWas, BillRow, PageRow,
    PageCall, PageStream, Pay!Final, Pay!Told, Pay!Idle, Pay!Screen
<1>19. CASE Pay!ChoiceRead
  BY <1>19, PageAssumption DEF Pay!ChoiceRead, PageTypes, OnlyWhatWas, BillRow, PageRow,
    PageCall, PageStream, Pay!Final, Pay!Told, Pay!Idle, Pay!Open
<1>20. CASE Pay!ChoiceWritten
  BY <1>20, PageAssumption DEF Pay!ChoiceWritten, PageTypes, OnlyWhatWas, BillRow,
    PageRow, PageCall, PageStream, Pay!Final, Pay!Told, Pay!Idle, Pay!TooLate,
    Pay!Extended
<1>21. CASE Pay!ChoiceAnswered
  BY <1>21, PageAssumption DEF Pay!ChoiceAnswered, PageTypes, OnlyWhatWas, BillRow,
    PageRow, PageCall, PageStream, Pay!Final, Pay!Told, Pay!Idle, Pay!Chosen
<1>22. CASE Pay!ChoiceLost
  BY <1>22, PageAssumption DEF Pay!ChoiceLost, PageTypes, OnlyWhatWas, BillRow, PageRow,
    PageCall, PageStream, Pay!Final, Pay!Told, Pay!Idle, Pay!Left
<1>23. CASE Pay!CountsDown
  BY <1>23, PageAssumption DEF Pay!CountsDown, PageTypes, OnlyWhatWas, BillRow, PageRow,
    PageCall, PageStream, Pay!Final, Pay!Told, Pay!Screen
<1>24. CASE Pay!OpensModal
  BY <1>24, PageAssumption DEF Pay!OpensModal, PageTypes, OnlyWhatWas, BillRow, PageRow,
    PageCall, PageStream, Pay!Final, Pay!Told, Pay!Screen
<1>25. CASE Pay!ClosesModal
  BY <1>25, PageAssumption DEF Pay!ClosesModal, PageTypes, OnlyWhatWas, BillRow, PageRow,
    PageCall, PageStream, Pay!Final, Pay!Told, Pay!Screen
<1>26. CASE Pay!Confirms
  BY <1>26, PageAssumption DEF Pay!Confirms, PageTypes, OnlyWhatWas, BillRow, PageRow,
    PageCall, PageStream, Pay!Final, Pay!Told, Pay!Idle, Pay!Screen
<1>27. CASE Pay!ConfirmRead
  BY <1>27, PageAssumption DEF Pay!ConfirmRead, PageTypes, OnlyWhatWas, BillRow, PageRow,
    PageCall, PageStream, Pay!Final, Pay!Told, Pay!Idle, Pay!Open
<1>28. CASE Pay!ConfirmWritten
  BY <1>28, PageAssumption DEF Pay!ConfirmWritten, PageTypes, OnlyWhatWas, BillRow,
    PageRow, PageCall, PageStream, Pay!Final, Pay!Told, Pay!Idle
<1>29. CASE Pay!ConfirmAnswered
  BY <1>29, PageAssumption DEF Pay!ConfirmAnswered, PageTypes, OnlyWhatWas, BillRow,
    PageRow, PageCall, PageStream, Pay!Final, Pay!Told, Pay!Idle, Pay!Confirmed
<1>30. CASE Pay!ConfirmLost
  BY <1>30, PageAssumption DEF Pay!ConfirmLost, PageTypes, OnlyWhatWas, BillRow, PageRow,
    PageCall, PageStream, Pay!Final, Pay!Told, Pay!Idle, Pay!Left
<1>31. CASE UNCHANGED Pay!vars
  BY <1>31 DEF Pay!vars, PageTypes, OnlyWhatWas, BillRow, PageRow, PageCall, PageStream,
    Pay!Final, Pay!Told
<1> QED BY <1>1, <1>2, <1>3, <1>4, <1>5, <1>6, <1>7, <1>8, <1>9, <1>10, <1>11, <1>12,
  <1>13, <1>14, <1>15, <1>16, <1>17, <1>18, <1>19, <1>20, <1>21, <1>22, <1>23, <1>24,
  <1>25, <1>26, <1>27, <1>28, <1>29, <1>30, <1>31 DEF Pay!Next

\* A deadline a page holds is not before the invoice's own.
LEMMA DeadlineStep ==
  PageTypes /\ OnlyWhatWas /\ DeadlineKnown /\ [Pay!Next]_(Pay!vars) => DeadlineKnown'
<1> SUFFICES ASSUME PageTypes, OnlyWhatWas, DeadlineKnown, [Pay!Next]_(Pay!vars)
             PROVE  DeadlineKnown'
  OBVIOUS
<1>1. ASSUME NEW s \in Pay!Told, Pay!Settled(s)
      PROVE  DeadlineKnown'
  BY <1>1, PageAssumption DEF Pay!Settled, PageTypes, OnlyWhatWas, DeadlineKnown,
    BillRow, PageRow, PageCall, PageStream, Pay!Final, Pay!Told, Pay!Becomes
<1>2. ASSUME NEW s \in Pay!Told, Pay!Publishes(s)
      PROVE  DeadlineKnown'
  BY <1>2, PageAssumption DEF Pay!Publishes, PageTypes, OnlyWhatWas, DeadlineKnown,
    BillRow, PageRow, PageCall, PageStream, Pay!Final, Pay!Told, Pay!Listening,
    Pay!Waiting
<1>3. ASSUME NEW s \in Pay!Told, Pay!NotPublished(s)
      PROVE  DeadlineKnown'
  BY <1>3, PageAssumption DEF Pay!NotPublished, PageTypes, OnlyWhatWas, DeadlineKnown,
    BillRow, PageRow, PageCall, PageStream, Pay!Final, Pay!Told, Pay!Excused
<1>4. CASE Pay!Lapses
  BY <1>4, PageAssumption DEF Pay!Lapses, PageTypes, OnlyWhatWas, DeadlineKnown, BillRow,
    PageRow, PageCall, PageStream, Pay!Final, Pay!Told, Pay!Becomes
<1>5. CASE Pay!ChosenElsewhere
  BY <1>5, PageAssumption DEF Pay!ChosenElsewhere, PageTypes, OnlyWhatWas, DeadlineKnown,
    BillRow, PageRow, PageCall, PageStream, Pay!Final, Pay!Told, Pay!Open, Pay!TooLate,
    Pay!Extended
<1>6. CASE Pay!Ticks
  BY <1>6, PageAssumption DEF Pay!Ticks, PageTypes, OnlyWhatWas, DeadlineKnown, BillRow,
    PageRow, PageCall, PageStream, Pay!Final, Pay!Told
<1>7. CASE Pay!Loads
  BY <1>7, PageAssumption DEF Pay!Loads, PageTypes, OnlyWhatWas, DeadlineKnown, BillRow,
    PageRow, PageCall, PageStream, Pay!Final, Pay!Told, Pay!Off, Pay!Idle, Pay!Left
<1>8. CASE Pay!Loaded
  BY <1>8, PageAssumption DEF Pay!Loaded, PageTypes, OnlyWhatWas, DeadlineKnown, BillRow,
    PageRow, PageCall, PageStream, Pay!Final, Pay!Told, Pay!Off
<1>9. CASE Pay!LoadFails
  BY <1>9, PageAssumption DEF Pay!LoadFails, PageTypes, OnlyWhatWas, DeadlineKnown,
    BillRow, PageRow, PageCall, PageStream, Pay!Final, Pay!Told
<1>10. CASE Pay!Redirects
  BY <1>10, PageAssumption DEF Pay!Redirects, PageTypes, OnlyWhatWas, DeadlineKnown,
    BillRow, PageRow, PageCall, PageStream, Pay!Final, Pay!Told, Pay!Off, Pay!Idle,
    Pay!Left, Pay!Screen
<1>11. CASE Pay!Connects
  BY <1>11, PageAssumption DEF Pay!Connects, PageTypes, OnlyWhatWas, DeadlineKnown,
    BillRow, PageRow, PageCall, PageStream, Pay!Final, Pay!Told, Pay!Off, Pay!Excused
<1>12. CASE Pay!Subscribes
  BY <1>12, PageAssumption DEF Pay!Subscribes, PageTypes, OnlyWhatWas, DeadlineKnown,
    BillRow, PageRow, PageCall, PageStream, Pay!Final, Pay!Told
<1>13. CASE Pay!RedisDrops
  BY <1>13, PageAssumption DEF Pay!RedisDrops, PageTypes, OnlyWhatWas, DeadlineKnown,
    BillRow, PageRow, PageCall, PageStream, Pay!Final, Pay!Told
<1>14. CASE Pay!Breaks
  BY <1>14, PageAssumption DEF Pay!Breaks, PageTypes, OnlyWhatWas, DeadlineKnown,
    BillRow, PageRow, PageCall, PageStream, Pay!Final, Pay!Told, Pay!Off
<1>15. CASE Pay!Closes
  BY <1>15, PageAssumption DEF Pay!Closes, PageTypes, OnlyWhatWas, DeadlineKnown,
    BillRow, PageRow, PageCall, PageStream, Pay!Final, Pay!Told, Pay!Off, Pay!Excused
<1>16. CASE Pay!TimesOut
  BY <1>16, PageAssumption DEF Pay!TimesOut, PageTypes, OnlyWhatWas, DeadlineKnown,
    BillRow, PageRow, PageCall, PageStream, Pay!Final, Pay!Told
<1>17. CASE Pay!Hears
  BY <1>17, PageAssumption DEF Pay!Hears, PageTypes, OnlyWhatWas, DeadlineKnown, BillRow,
    PageRow, PageCall, PageStream, Pay!Final, Pay!Told, Pay!Off
<1>18. CASE Pay!Chooses
  BY <1>18, PageAssumption DEF Pay!Chooses, PageTypes, OnlyWhatWas, DeadlineKnown,
    BillRow, PageRow, PageCall, PageStream, Pay!Final, Pay!Told, Pay!Idle, Pay!Screen
<1>19. CASE Pay!ChoiceRead
  BY <1>19, PageAssumption DEF Pay!ChoiceRead, PageTypes, OnlyWhatWas, DeadlineKnown,
    BillRow, PageRow, PageCall, PageStream, Pay!Final, Pay!Told, Pay!Idle, Pay!Open
<1>20. CASE Pay!ChoiceWritten
  BY <1>20, PageAssumption DEF Pay!ChoiceWritten, PageTypes, OnlyWhatWas, DeadlineKnown,
    BillRow, PageRow, PageCall, PageStream, Pay!Final, Pay!Told, Pay!Idle, Pay!TooLate,
    Pay!Extended
<1>21. CASE Pay!ChoiceAnswered
  BY <1>21, PageAssumption DEF Pay!ChoiceAnswered, PageTypes, OnlyWhatWas, DeadlineKnown,
    BillRow, PageRow, PageCall, PageStream, Pay!Final, Pay!Told, Pay!Idle, Pay!Chosen
<1>22. CASE Pay!ChoiceLost
  BY <1>22, PageAssumption DEF Pay!ChoiceLost, PageTypes, OnlyWhatWas, DeadlineKnown,
    BillRow, PageRow, PageCall, PageStream, Pay!Final, Pay!Told, Pay!Idle, Pay!Left
<1>23. CASE Pay!CountsDown
  BY <1>23, PageAssumption DEF Pay!CountsDown, PageTypes, OnlyWhatWas, DeadlineKnown,
    BillRow, PageRow, PageCall, PageStream, Pay!Final, Pay!Told, Pay!Screen
<1>24. CASE Pay!OpensModal
  BY <1>24, PageAssumption DEF Pay!OpensModal, PageTypes, OnlyWhatWas, DeadlineKnown,
    BillRow, PageRow, PageCall, PageStream, Pay!Final, Pay!Told, Pay!Screen
<1>25. CASE Pay!ClosesModal
  BY <1>25, PageAssumption DEF Pay!ClosesModal, PageTypes, OnlyWhatWas, DeadlineKnown,
    BillRow, PageRow, PageCall, PageStream, Pay!Final, Pay!Told, Pay!Screen
<1>26. CASE Pay!Confirms
  BY <1>26, PageAssumption DEF Pay!Confirms, PageTypes, OnlyWhatWas, DeadlineKnown,
    BillRow, PageRow, PageCall, PageStream, Pay!Final, Pay!Told, Pay!Idle, Pay!Screen
<1>27. CASE Pay!ConfirmRead
  BY <1>27, PageAssumption DEF Pay!ConfirmRead, PageTypes, OnlyWhatWas, DeadlineKnown,
    BillRow, PageRow, PageCall, PageStream, Pay!Final, Pay!Told, Pay!Idle, Pay!Open
<1>28. CASE Pay!ConfirmWritten
  BY <1>28, PageAssumption DEF Pay!ConfirmWritten, PageTypes, OnlyWhatWas, DeadlineKnown,
    BillRow, PageRow, PageCall, PageStream, Pay!Final, Pay!Told, Pay!Idle
<1>29. CASE Pay!ConfirmAnswered
  BY <1>29, PageAssumption DEF Pay!ConfirmAnswered, PageTypes, OnlyWhatWas,
    DeadlineKnown, BillRow, PageRow, PageCall, PageStream, Pay!Final, Pay!Told, Pay!Idle,
    Pay!Confirmed
<1>30. CASE Pay!ConfirmLost
  BY <1>30, PageAssumption DEF Pay!ConfirmLost, PageTypes, OnlyWhatWas, DeadlineKnown,
    BillRow, PageRow, PageCall, PageStream, Pay!Final, Pay!Told, Pay!Idle, Pay!Left
<1>31. CASE UNCHANGED Pay!vars
  BY <1>31 DEF Pay!vars, PageTypes, OnlyWhatWas, DeadlineKnown, BillRow, PageRow,
    PageCall, PageStream, Pay!Final, Pay!Told
<1> QED BY <1>1, <1>2, <1>3, <1>4, <1>5, <1>6, <1>7, <1>8, <1>9, <1>10, <1>11, <1>12,
  <1>13, <1>14, <1>15, <1>16, <1>17, <1>18, <1>19, <1>20, <1>21, <1>22, <1>23, <1>24,
  <1>25, <1>26, <1>27, <1>28, <1>29, <1>30, <1>31 DEF Pay!Next

\* An end is told, or noted as missed.
LEMMA EndIsComingStep ==
  PageTypes /\ OnlyWhatWas /\ EndIsComing /\ [Pay!Next]_(Pay!vars) => EndIsComing'
<1> SUFFICES ASSUME PageTypes, OnlyWhatWas, EndIsComing, [Pay!Next]_(Pay!vars)
             PROVE  EndIsComing'
  OBVIOUS
<1>1. ASSUME NEW s \in Pay!Told, Pay!Settled(s)
      PROVE  EndIsComing'
  BY <1>1, PageAssumption DEF Pay!Settled, PageTypes, OnlyWhatWas, EndIsComing, BillRow,
    PageRow, PageCall, PageStream, Pay!Final, Pay!Told, Pay!Becomes
<1>2. ASSUME NEW s \in Pay!Told, Pay!Publishes(s)
      PROVE  EndIsComing'
  BY <1>2, PageAssumption DEF Pay!Publishes, PageTypes, OnlyWhatWas, EndIsComing,
    BillRow, PageRow, PageCall, PageStream, Pay!Final, Pay!Told, Pay!Listening,
    Pay!Waiting
<1>3. ASSUME NEW s \in Pay!Told, Pay!NotPublished(s)
      PROVE  EndIsComing'
  BY <1>3, PageAssumption DEF Pay!NotPublished, PageTypes, OnlyWhatWas, EndIsComing,
    BillRow, PageRow, PageCall, PageStream, Pay!Final, Pay!Told, Pay!Excused
<1>4. CASE Pay!Lapses
  BY <1>4, PageAssumption DEF Pay!Lapses, PageTypes, OnlyWhatWas, EndIsComing, BillRow,
    PageRow, PageCall, PageStream, Pay!Final, Pay!Told, Pay!Becomes
<1>5. CASE Pay!ChosenElsewhere
  BY <1>5, PageAssumption DEF Pay!ChosenElsewhere, PageTypes, OnlyWhatWas, EndIsComing,
    BillRow, PageRow, PageCall, PageStream, Pay!Final, Pay!Told, Pay!Open, Pay!TooLate,
    Pay!Extended
<1>6. CASE Pay!Ticks
  BY <1>6, PageAssumption DEF Pay!Ticks, PageTypes, OnlyWhatWas, EndIsComing, BillRow,
    PageRow, PageCall, PageStream, Pay!Final, Pay!Told
<1>7. CASE Pay!Loads
  BY <1>7, PageAssumption DEF Pay!Loads, PageTypes, OnlyWhatWas, EndIsComing, BillRow,
    PageRow, PageCall, PageStream, Pay!Final, Pay!Told, Pay!Off, Pay!Idle, Pay!Left
<1>8. CASE Pay!Loaded
  BY <1>8, PageAssumption DEF Pay!Loaded, PageTypes, OnlyWhatWas, EndIsComing, BillRow,
    PageRow, PageCall, PageStream, Pay!Final, Pay!Told, Pay!Off
<1>9. CASE Pay!LoadFails
  BY <1>9, PageAssumption DEF Pay!LoadFails, PageTypes, OnlyWhatWas, EndIsComing,
    BillRow, PageRow, PageCall, PageStream, Pay!Final, Pay!Told
<1>10. CASE Pay!Redirects
  BY <1>10, PageAssumption DEF Pay!Redirects, PageTypes, OnlyWhatWas, EndIsComing,
    BillRow, PageRow, PageCall, PageStream, Pay!Final, Pay!Told, Pay!Off, Pay!Idle,
    Pay!Left, Pay!Screen
<1>11. CASE Pay!Connects
  BY <1>11, PageAssumption DEF Pay!Connects, PageTypes, OnlyWhatWas, EndIsComing,
    BillRow, PageRow, PageCall, PageStream, Pay!Final, Pay!Told, Pay!Off, Pay!Excused
<1>12. CASE Pay!Subscribes
  BY <1>12, PageAssumption DEF Pay!Subscribes, PageTypes, OnlyWhatWas, EndIsComing,
    BillRow, PageRow, PageCall, PageStream, Pay!Final, Pay!Told
<1>13. CASE Pay!RedisDrops
  BY <1>13, PageAssumption DEF Pay!RedisDrops, PageTypes, OnlyWhatWas, EndIsComing,
    BillRow, PageRow, PageCall, PageStream, Pay!Final, Pay!Told
<1>14. CASE Pay!Breaks
  BY <1>14, PageAssumption DEF Pay!Breaks, PageTypes, OnlyWhatWas, EndIsComing, BillRow,
    PageRow, PageCall, PageStream, Pay!Final, Pay!Told, Pay!Off
<1>15. CASE Pay!Closes
  BY <1>15, PageAssumption DEF Pay!Closes, PageTypes, OnlyWhatWas, EndIsComing, BillRow,
    PageRow, PageCall, PageStream, Pay!Final, Pay!Told, Pay!Off, Pay!Excused
<1>16. CASE Pay!TimesOut
  BY <1>16, PageAssumption DEF Pay!TimesOut, PageTypes, OnlyWhatWas, EndIsComing,
    BillRow, PageRow, PageCall, PageStream, Pay!Final, Pay!Told
<1>17. CASE Pay!Hears
  BY <1>17, PageAssumption DEF Pay!Hears, PageTypes, OnlyWhatWas, EndIsComing, BillRow,
    PageRow, PageCall, PageStream, Pay!Final, Pay!Told, Pay!Off
<1>18. CASE Pay!Chooses
  BY <1>18, PageAssumption DEF Pay!Chooses, PageTypes, OnlyWhatWas, EndIsComing, BillRow,
    PageRow, PageCall, PageStream, Pay!Final, Pay!Told, Pay!Idle, Pay!Screen
<1>19. CASE Pay!ChoiceRead
  BY <1>19, PageAssumption DEF Pay!ChoiceRead, PageTypes, OnlyWhatWas, EndIsComing,
    BillRow, PageRow, PageCall, PageStream, Pay!Final, Pay!Told, Pay!Idle, Pay!Open
<1>20. CASE Pay!ChoiceWritten
  BY <1>20, PageAssumption DEF Pay!ChoiceWritten, PageTypes, OnlyWhatWas, EndIsComing,
    BillRow, PageRow, PageCall, PageStream, Pay!Final, Pay!Told, Pay!Idle, Pay!TooLate,
    Pay!Extended
<1>21. CASE Pay!ChoiceAnswered
  BY <1>21, PageAssumption DEF Pay!ChoiceAnswered, PageTypes, OnlyWhatWas, EndIsComing,
    BillRow, PageRow, PageCall, PageStream, Pay!Final, Pay!Told, Pay!Idle, Pay!Chosen
<1>22. CASE Pay!ChoiceLost
  BY <1>22, PageAssumption DEF Pay!ChoiceLost, PageTypes, OnlyWhatWas, EndIsComing,
    BillRow, PageRow, PageCall, PageStream, Pay!Final, Pay!Told, Pay!Idle, Pay!Left
<1>23. CASE Pay!CountsDown
  BY <1>23, PageAssumption DEF Pay!CountsDown, PageTypes, OnlyWhatWas, EndIsComing,
    BillRow, PageRow, PageCall, PageStream, Pay!Final, Pay!Told, Pay!Screen
<1>24. CASE Pay!OpensModal
  BY <1>24, PageAssumption DEF Pay!OpensModal, PageTypes, OnlyWhatWas, EndIsComing,
    BillRow, PageRow, PageCall, PageStream, Pay!Final, Pay!Told, Pay!Screen
<1>25. CASE Pay!ClosesModal
  BY <1>25, PageAssumption DEF Pay!ClosesModal, PageTypes, OnlyWhatWas, EndIsComing,
    BillRow, PageRow, PageCall, PageStream, Pay!Final, Pay!Told, Pay!Screen
<1>26. CASE Pay!Confirms
  BY <1>26, PageAssumption DEF Pay!Confirms, PageTypes, OnlyWhatWas, EndIsComing,
    BillRow, PageRow, PageCall, PageStream, Pay!Final, Pay!Told, Pay!Idle, Pay!Screen
<1>27. CASE Pay!ConfirmRead
  BY <1>27, PageAssumption DEF Pay!ConfirmRead, PageTypes, OnlyWhatWas, EndIsComing,
    BillRow, PageRow, PageCall, PageStream, Pay!Final, Pay!Told, Pay!Idle, Pay!Open
<1>28. CASE Pay!ConfirmWritten
  BY <1>28, PageAssumption DEF Pay!ConfirmWritten, PageTypes, OnlyWhatWas, EndIsComing,
    BillRow, PageRow, PageCall, PageStream, Pay!Final, Pay!Told, Pay!Idle
<1>29. CASE Pay!ConfirmAnswered
  BY <1>29, PageAssumption DEF Pay!ConfirmAnswered, PageTypes, OnlyWhatWas, EndIsComing,
    BillRow, PageRow, PageCall, PageStream, Pay!Final, Pay!Told, Pay!Idle, Pay!Confirmed
<1>30. CASE Pay!ConfirmLost
  BY <1>30, PageAssumption DEF Pay!ConfirmLost, PageTypes, OnlyWhatWas, EndIsComing,
    BillRow, PageRow, PageCall, PageStream, Pay!Final, Pay!Told, Pay!Idle, Pay!Left
<1>31. CASE UNCHANGED Pay!vars
  BY <1>31 DEF Pay!vars, PageTypes, OnlyWhatWas, EndIsComing, BillRow, PageRow, PageCall,
    PageStream, Pay!Final, Pay!Told
<1> QED BY <1>1, <1>2, <1>3, <1>4, <1>5, <1>6, <1>7, <1>8, <1>9, <1>10, <1>11, <1>12,
  <1>13, <1>14, <1>15, <1>16, <1>17, <1>18, <1>19, <1>20, <1>21, <1>22, <1>23, <1>24,
  <1>25, <1>26, <1>27, <1>28, <1>29, <1>30, <1>31 DEF Pay!Next

\* A customer is shown no end the invoice did not have, and a page that missed nothing
\* shows the end it had: page.js and pay.js, for any deadlines and length of window.
THEOREM PageTellsTruth == Pay!Spec => []PageTells
<1>1. Pay!Init => PageInv
  BY PageAssumption DEF Pay!Init, PageInv, PageTypes, BillRow, PageRow, PageCall, PageStream, OnlyWhatWas, DeadlineKnown, EndIsComing,
    Pay!Final, Pay!Told, Pay!Blank, Pay!Idle, Pay!Off
<1>2. PageInv /\ [Pay!Next]_(Pay!vars) => PageInv'
  BY PageTypesStep, OnlyWhatWasStep, DeadlineStep, EndIsComingStep DEF PageInv
<1>3. PageInv => PageTells
  BY DEF PageInv, PageTypes, BillRow, OnlyWhatWas, DeadlineKnown, EndIsComing, PageTells, Pay!PageTells,
    Pay!ShownIsTrue, Pay!EndIsShown, Pay!Final, Pay!Told
<1> QED BY <1>1, <1>2, <1>3, PTL DEF Pay!Spec

====
