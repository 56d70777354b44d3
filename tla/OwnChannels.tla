---------------------------- MODULE OwnChannels -----------------------------
(***************************************************************************)
(* The channels clients add for themselves: how many their plan allows, that *)
(* no account is added twice, and that none goes while an invoice waits on   *)
(* it.                                                                       *)
(*                                                                           *)
(* Each request reads before it writes, and nothing holds the rows between.  *)
(* The plan is read with the client, when the request is authenticated.  The *)
(* payment page asks for an active channel, not for one that is not deleted. *)
(* Credentials, QRIS data but the account's number, and the state row that   *)
(* Channels models are left out; so is the kind of a channel.                *)
(***************************************************************************)
EXTENDS Naturals, FiniteSets

CONSTANTS
  Clients,  \* clients
  MaxIds,   \* bound: channels ever added
  Numbers,  \* accounts at the bank
  Requests, \* requests that can be in progress at once
  None,     \* no client, channel or number
  MaxPlan   \* bound: maxChannels of the largest plan

VARIABLES
  plan,    \* maxChannels of each client's plan, 0 for one without own channels
  channel, \* payment_channels
  waits,   \* status of the invoice that waits on each channel, or "none"
  request, \* requests in progress
  excuse   \* what nothing guards against (history)

vars == <<plan, channel, waits, request, excuse>>

Ids == 1 .. MaxIds

Unused == [by |-> None, number |-> None, active |-> FALSE, deleted |-> FALSE]

Idle == [at |-> "idle", by |-> None, on |-> None, number |-> None, max |-> 0, active |-> "kept"]

Init ==
  /\ plan = [c \in Clients |-> MaxPlan]
  /\ channel = [i \in Ids |-> Unused]
  /\ waits = [i \in Ids |-> "none"]
  /\ request = [q \in Requests |-> Idle]
  /\ excuse = {}

-----------------------------------------------------------------------------
Held == {i \in Ids : channel[i].by # None /\ ~ channel[i].deleted}

HeldBy(c) == {i \in Held : channel[i].by = c}

Adding == {"number", "count", "add"}

Deleting == {"invoices", "delete"}

\* Requests that write the same row by its id, one of them a deletion.
Crosses(on, deletes) ==
  \E q \in Requests : request[q].on = on /\ (deletes \/ request[q].at \in Deleting)

Begin(q, r) == request[q] = Idle /\ request' = [request EXCEPT ![q] = r]

End(q) == request' = [request EXCEPT ![q] = Idle]

\* POST /channels of a client whose plan has own channels.
PostChannel(q, c, n) ==
  /\ plan[c] > 0
  /\ Begin(q, [Idle EXCEPT !.at = "number", !.by = c, !.number = n, !.max = plan[c]])
  /\ excuse' = excuse \cup
       (IF \E o \in Requests : request[o].at \in Adding THEN {"overlap"} ELSE {})
  /\ UNCHANGED <<plan, channel, waits>>

LooksForNumber(q) ==
  /\ request[q].at = "number"
  /\ request' = [request EXCEPT ![q] =
       IF \E i \in Held : channel[i].number = request[q].number
       THEN Idle ELSE [@ EXCEPT !.at = "count"]]
  /\ UNCHANGED <<plan, channel, waits, excuse>>

\* Mutant: the channel itself is forgotten.
Full_Before(q) == Cardinality(HeldBy(request[q].by)) > request[q].max

Full(q) == Cardinality(HeldBy(request[q].by)) >= request[q].max

CountsChannels(q) ==
  /\ request[q].at = "count"
  /\ request' = [request EXCEPT ![q] = IF Full(q) THEN Idle ELSE [@ EXCEPT !.at = "add"]]
  /\ UNCHANGED <<plan, channel, waits, excuse>>

AddsChannel(q, i) ==
  /\ request[q].at = "add"
  /\ channel[i] = Unused /\ \A j \in Ids : j < i => channel[j] # Unused
  /\ channel' = [channel EXCEPT ![i] =
       [by |-> request[q].by, number |-> request[q].number, active |-> TRUE, deleted |-> FALSE]]
  /\ End(q)
  /\ UNCHANGED <<plan, waits, excuse>>

\* PATCH /channels/:id finds the row, then updates it by its id: paused, resumed (or
\* given new credentials), with the number of another QRIS code, which is compared
\* with nothing, or both.
PatchChannel(q, i, active, n) ==
  /\ i \in Held /\ (active = "kept" => n # None)
  /\ Begin(q, [Idle EXCEPT !.at = "patch", !.on = i, !.active = active, !.number = n])
  /\ excuse' = excuse \cup (IF Crosses(i, FALSE) THEN {"crossed"} ELSE {})
       \cup (IF n # None THEN {"renumbered"} ELSE {})
  /\ UNCHANGED <<plan, channel, waits>>

UpdatesChannel(q) ==
  /\ request[q].at = "patch"
  /\ LET r == request[q]
     IN  channel' = [channel EXCEPT
           ![r.on].active = IF r.active = "kept" THEN @ ELSE r.active = "on",
           ![r.on].number = IF r.number = None THEN @ ELSE r.number]
  /\ End(q)
  /\ UNCHANGED <<plan, waits, excuse>>

\* DELETE /channels/:id: the open invoices are counted, then the scraper has six
\* seconds to close its browser.
DeleteChannel(q, i) ==
  /\ i \in Held
  /\ Begin(q, [Idle EXCEPT !.at = "invoices", !.on = i])
  /\ excuse' = excuse \cup (IF Crosses(i, TRUE) THEN {"crossed"} ELSE {})
  /\ UNCHANGED <<plan, channel, waits>>

\* Mutant: an invoice the customer says is paid does not count.
Awaited_Pending(i) == waits[i] = "pending"

Awaited(i) == waits[i] \in {"pending", "user_confirmed"}

CountsInvoices(q) ==
  /\ request[q].at = "invoices"
  /\ request' = [request EXCEPT ![q] =
       IF Awaited(request[q].on) THEN Idle ELSE [@ EXCEPT !.at = "delete"]]
  /\ UNCHANGED <<plan, channel, waits, excuse>>

MarksDeleted(q) ==
  /\ request[q].at = "delete"
  /\ channel' = [channel EXCEPT ![request[q].on].active = FALSE, ![request[q].on].deleted = TRUE]
  /\ End(q)
  /\ UNCHANGED <<plan, waits, excuse>>

\* The payment page: a channel is chosen, and the invoice put on it later.
ChooseChannel(q, i) ==
  /\ channel[i].active /\ waits[i] = "none"
  /\ Begin(q, [Idle EXCEPT !.at = "choose", !.on = i])
  /\ excuse' = excuse \cup (IF Crosses(i, FALSE) THEN {"crossed"} ELSE {})
  /\ UNCHANGED <<plan, channel, waits>>

PutsInvoice(q) ==
  /\ request[q].at = "choose"
  /\ waits' = [waits EXCEPT ![request[q].on] = "pending"]
  /\ End(q)
  /\ UNCHANGED <<plan, channel, excuse>>

RequestFails(q) ==
  /\ request[q] # Idle /\ End(q)
  /\ UNCHANGED <<plan, channel, waits, excuse>>

\* The customer says so; then it is paid, cancelled or expired.
InvoiceConfirmed(i) ==
  /\ waits[i] = "pending"
  /\ waits' = [waits EXCEPT ![i] = "user_confirmed"]
  /\ UNCHANGED <<plan, channel, request, excuse>>

InvoiceCloses(i) ==
  /\ waits[i] # "none"
  /\ waits' = [waits EXCEPT ![i] = "none"]
  /\ UNCHANGED <<plan, channel, request, excuse>>

\* The client subscribes to another plan, or the month is over.
PlanChanges(c, n) ==
  /\ plan[c] # n
  /\ plan' = [plan EXCEPT ![c] = n]
  /\ excuse' = excuse \cup (IF n < plan[c] THEN {"lowered"} ELSE {})
  /\ UNCHANGED <<channel, waits, request>>

Next ==
  \/ \E q \in Requests :
       \/ \E c \in Clients, n \in Numbers : PostChannel(q, c, n)
       \/ \E i \in Ids :
            \/ AddsChannel(q, i) \/ DeleteChannel(q, i) \/ ChooseChannel(q, i)
            \/ \E active \in {"kept", "on", "off"}, n \in Numbers \cup {None} :
                 PatchChannel(q, i, active, n)
       \/ LooksForNumber(q) \/ CountsChannels(q) \/ UpdatesChannel(q)
       \/ CountsInvoices(q) \/ MarksDeleted(q) \/ PutsInvoice(q) \/ RequestFails(q)
  \/ \E i \in Ids : InvoiceConfirmed(i) \/ InvoiceCloses(i)
  \/ \E c \in Clients, n \in 0 .. MaxPlan : PlanChanges(c, n)

Spec == Init /\ [][Next]_vars

-----------------------------------------------------------------------------
(* Properties.                                                             *)

Statuses == {"none", "pending", "user_confirmed"}

TypeOK ==
  /\ plan \in [Clients -> 0 .. MaxPlan] /\ waits \in [Ids -> Statuses]
  /\ channel \in [Ids -> [by : Clients \cup {None}, number : Numbers \cup {None},
                          active : BOOLEAN, deleted : BOOLEAN]]

\* A client holds the channels its plan allows, and no account is held twice, in
\* whatever order channels are added, changed and deleted; excused are channels added
\* at once, a plan made smaller, and a number that came with a new QRIS code.  No
\* invoice waits on a channel that is deleted, where the scraper never looks; excused
\* are a choice or a change of a channel that was under way when it was deleted.
ChannelsHold ==
  /\ excuse \cap {"overlap", "lowered"} = {} =>
       \A c \in Clients : Cardinality(HeldBy(c)) <= plan[c]
  /\ excuse \cap {"overlap", "renumbered"} = {} =>
       \A i, j \in Held : channel[i].number = channel[j].number => i = j
  /\ "crossed" \notin excuse => \A i \in Ids : waits[i] # "none" => ~ channel[i].deleted
=============================================================================
