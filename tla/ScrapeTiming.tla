---------------------------- MODULE ScrapeTiming ----------------------------
(***************************************************************************)
(* How soon the bank is read again once a customer says "I have paid".      *)
(*                                                                         *)
(* One row of channel_states says when a channel is due.  The API writes it *)
(* when a method is chosen, a payment confirmed or an invoice cancelled, the *)
(* worker when the bank asks to be left alone, and the scheduler, every five *)
(* seconds, from counts of invoices it made before.  Nobody compares what it *)
(* overwrites.                                                             *)
(*                                                                         *)
(* Time is counted in ticks of the shortest interval.  Handlers, a poll that *)
(* gets through and a worker for every job are quicker than that.  Commands, *)
(* the circuit breaker and what a merchant does to the channel are left to  *)
(* Scraping, and the priority on display is left out.                       *)
(***************************************************************************)
EXTENDS Naturals, FiniteSets

CONSTANTS
  Invoices,          \* invoices paid on this channel
  High, Medium, Low, \* the intervals of the priorities, in ticks
  HighTimeout,       \* how long a confirmation asks for the shortest interval
  BackOffs,          \* how long a bank may ask to wait
  MaxJobs            \* bound: scrape jobs of the channel

VARIABLES
  next,     \* ticks until nextScrapeAt; 0 is due
  bills,    \* rows of the invoices, with the ticks since their confirmation and
            \* the ticks without a scrape since then, or since the time was put right
  poll,     \* the scheduler's poll
  polled,   \* a poll has got through in this tick
  waiting,  \* scrape jobs nobody has taken
  scraping, \* scrapes under way
  pushing,  \* handlers that have yet to write "due now"
  cancels,  \* handlers that cancel, between their steps
  excuse    \* why nextScrapeAt is later than the confirmed ones need (history)

vars == <<next, bills, poll, polled, waiting, scraping, pushing, cancels, excuse>>

AtRest == [at |-> "rest", due |-> FALSE, confirmed |-> {}, pending |-> FALSE, old |-> FALSE]

Init ==
  /\ next = 0
  /\ bills = [i \in Invoices |-> [status |-> "none", age |-> 0, wait |-> 0]]
  /\ poll = AtRest /\ polled = FALSE
  /\ waiting = 0 /\ scraping = 0
  /\ pushing = {} /\ cancels = {}
  /\ excuse = {}

With(s) == {i \in Invoices : bills[i].status = s}

Writes(n, es) == next' = n /\ excuse' = es
Unwaited == [i \in Invoices |-> [bills[i] EXCEPT !.wait = 0]]
Becomes(i, s) == bills' = [bills EXCEPT ![i] = [status |-> s, age |-> 0, wait |-> 0]]

(***************************************************************************)
(* The API                                                                 *)
(***************************************************************************)

\* The handler has written the invoice, and will write the channel.
Selects(i) ==
  /\ bills[i].status = "none"
  /\ Becomes(i, "pending") /\ pushing' = pushing \cup {<<i, "select">>}
  /\ UNCHANGED <<next, poll, polled, waiting, scraping, cancels, excuse>>

Confirms(i) ==
  /\ bills[i].status = "pending"
  /\ Becomes(i, "confirmed") /\ pushing' = pushing \cup {<<i, "confirm">>}
  /\ UNCHANGED <<next, poll, polled, waiting, scraping, cancels, excuse>>

Pushes ==
  /\ \E h \in pushing : pushing' = pushing \ {h}
  /\ Writes(0, {})
  /\ bills' = IF excuse = {} THEN bills ELSE Unwaited
  /\ UNCHANGED <<poll, polled, waiting, scraping, cancels>>

\* The process, or the write.
HandlerDies ==
  /\ \E h \in pushing : pushing' = pushing \ {h}
  /\ excuse' = excuse \cup {"half"}
  /\ UNCHANGED <<next, bills, poll, polled, waiting, scraping, cancels>>

Cancels(i) ==
  /\ bills[i].status = "pending"
  /\ Becomes(i, "closed") /\ cancels' = cancels \cup {[of |-> i, at |-> "cancelled"]}
  /\ UNCHANGED <<next, poll, polled, waiting, scraping, pushing, excuse>>

\* It counts those still pending, and not those confirmed.
CancelCounts ==
  /\ \E h \in cancels :
       /\ h.at = "cancelled"
       /\ cancels' = (cancels \ {h}) \cup
            (IF With("pending") = {} THEN {[h EXCEPT !.at = "last"]} ELSE {})
  /\ UNCHANGED <<next, bills, poll, polled, waiting, scraping, pushing, excuse>>

CancelPostpones ==
  /\ \E h \in cancels : h.at = "last" /\ cancels' = cancels \ {h}
  /\ Writes(Medium, {"postponed"})
  /\ UNCHANGED <<bills, poll, polled, waiting, scraping, pushing>>

CancelDies ==
  /\ \E h \in cancels : cancels' = cancels \ {h}
  /\ UNCHANGED <<next, bills, poll, polled, waiting, scraping, pushing, excuse>>

\* Paid, expired, or failed.
Closes(i) ==
  /\ bills[i].status \in {"pending", "confirmed"}
  /\ Becomes(i, "closed")
  /\ UNCHANGED <<next, poll, polled, waiting, scraping, pushing, cancels, excuse>>

(***************************************************************************)
(* The scheduler                                                           *)
(***************************************************************************)

\* The channels, with what each row says now.
PollReads ==
  /\ poll.at = "rest"
  /\ poll' = [AtRest EXCEPT !.at = "read", !.due = (next = 0)]
  /\ UNCHANGED <<next, bills, polled, waiting, scraping, pushing, cancels, excuse>>

PollCountsConfirmed ==
  /\ poll.at = "read"
  /\ poll' = [poll EXCEPT !.at = "confirmed", !.confirmed = With("confirmed")]
  /\ UNCHANGED <<next, bills, polled, waiting, scraping, pushing, cancels, excuse>>

PollCountsPending ==
  /\ poll.at = "confirmed"
  /\ poll' = [poll EXCEPT !.at = IF poll.confirmed = {} THEN "counted" ELSE "pending",
                          !.pending = (With("pending") # {})]
  /\ UNCHANGED <<next, bills, polled, waiting, scraping, pushing, cancels, excuse>>

\* The oldest confirmation speaks for all.
PollChecksOldest ==
  /\ poll.at = "pending"
  /\ poll' = [poll EXCEPT !.at = "counted",
                !.old = \E i \in With("confirmed") : bills[i].age > HighTimeout]
  /\ UNCHANGED <<next, bills, polled, waiting, scraping, pushing, cancels, excuse>>

\* Mutant: with another invoice still pending, the confirmed one counts as pending.
Interval_PendingFirst ==
  IF poll.pending \/ poll.old THEN Medium ELSE IF poll.confirmed # {} THEN High ELSE Low

\* getScrapeInterval of the priority.
Interval ==
  IF poll.confirmed # {} /\ ~ poll.old THEN High
  ELSE IF poll.confirmed # {} \/ poll.pending THEN Medium
  ELSE Low

\* A scrape under way is seen, a job with a priority that waits is not.
PollSkips ==
  /\ poll.at = "counted" /\ (~ poll.due \/ scraping > 0)
  /\ poll' = AtRest /\ polled' = TRUE
  /\ UNCHANGED <<next, bills, waiting, scraping, pushing, cancels, excuse>>

PollListsJobs ==
  /\ poll.at = "counted" /\ poll.due /\ scraping = 0
  /\ poll' = [poll EXCEPT !.at = "free"]
  /\ UNCHANGED <<next, bills, polled, waiting, scraping, pushing, cancels, excuse>>

PollSetsNext ==
  /\ poll.at = "free"
  /\ Writes(Interval,
            (IF With("confirmed") \subseteq poll.confirmed THEN {} ELSE {"stale"})
              \cup (IF poll.old THEN {"old"} ELSE {}))
  /\ bills' = IF excuse = {} THEN bills ELSE Unwaited
  /\ poll' = [poll EXCEPT !.at = "set"]
  /\ UNCHANGED <<polled, waiting, scraping, pushing, cancels>>

PollAddsJob ==
  /\ poll.at = "set" /\ waiting + scraping < MaxJobs
  /\ waiting' = waiting + 1
  /\ poll' = AtRest /\ polled' = TRUE
  /\ UNCHANGED <<next, bills, scraping, pushing, cancels, excuse>>

\* A query, or Redis.  The next poll is five seconds away, and a row already set
\* has no job.
PollFails ==
  /\ poll.at # "rest"
  /\ poll' = AtRest
  /\ excuse' = excuse \cup (IF poll.at = "set" THEN {"failed"} ELSE {})
  /\ UNCHANGED <<next, bills, polled, waiting, scraping, pushing, cancels>>

(***************************************************************************)
(* The worker                                                              *)
(***************************************************************************)
ScrapeBegins ==
  /\ waiting > 0
  /\ waiting' = waiting - 1 /\ scraping' = scraping + 1
  /\ bills' = Unwaited
  /\ UNCHANGED <<next, poll, polled, pushing, cancels, excuse>>

\* The one retry of a job waits five seconds, and then like any job.
ScrapeFails ==
  /\ scraping > 0 /\ scraping' = scraping - 1 /\ waiting' = waiting + 1
  /\ UNCHANGED <<next, bills, poll, polled, pushing, cancels, excuse>>

ScrapeEnds ==
  /\ scraping > 0 /\ scraping' = scraping - 1
  /\ UNCHANGED <<next, bills, poll, polled, waiting, pushing, cancels, excuse>>

\* Too many requests, or a session the bank still holds.
BankAsksToWait ==
  /\ scraping > 0 /\ scraping' = scraping - 1
  /\ \E n \in BackOffs : Writes(n, {"asked"})
  /\ UNCHANGED <<bills, poll, polled, waiting, pushing, cancels>>

\* The process: every channel is due, if that can be written, and jobs that had
\* stalled are run again.
Restarts ==
  /\ poll' = AtRest /\ scraping' = 0 /\ waiting' = waiting + scraping
  /\ \/ Writes(0, {}) /\ bills' = IF excuse = {} THEN bills ELSE Unwaited
     \/ /\ excuse' = excuse \cup (IF poll.at = "set" THEN {"failed"} ELSE {})
        /\ UNCHANGED <<next, bills>>
  /\ UNCHANGED <<polled, pushing, cancels>>

(***************************************************************************)
(* Time                                                                    *)
(***************************************************************************)
Later(b) ==
  IF b.status # "confirmed" THEN b
  ELSE [b EXCEPT !.age = IF b.age > HighTimeout THEN b.age ELSE b.age + 1,
                 !.wait = IF scraping > 0 \/ b.wait > High THEN b.wait ELSE b.wait + 1]

Tick ==
  /\ polled /\ poll.at = "rest" /\ waiting = 0 /\ pushing = {} /\ cancels = {}
  /\ polled' = FALSE
  /\ next' = IF next = 0 THEN 0 ELSE next - 1
  /\ bills' = [i \in Invoices |-> Later(bills[i])]
  /\ UNCHANGED <<poll, waiting, scraping, pushing, cancels, excuse>>

-----------------------------------------------------------------------------
Poll ==
  \/ PollReads \/ PollCountsConfirmed \/ PollCountsPending \/ PollChecksOldest
  \/ PollSkips \/ PollListsJobs \/ PollSetsNext \/ PollAddsJob \/ PollFails

Next ==
  \/ \E i \in Invoices : Selects(i) \/ Confirms(i) \/ Cancels(i) \/ Closes(i)
  \/ Pushes \/ HandlerDies \/ CancelCounts \/ CancelPostpones \/ CancelDies
  \/ Poll \/ ScrapeBegins \/ ScrapeFails \/ ScrapeEnds \/ BankAsksToWait
  \/ Restarts \/ Tick

Spec == Init /\ [][Next]_vars

-----------------------------------------------------------------------------
(* Properties.                                                             *)

TypeOK ==
  /\ next \in 0 .. Low \cup BackOffs
  /\ bills \in [Invoices -> [status: {"none", "pending", "confirmed", "closed"},
                             age: 0 .. HighTimeout + 1, wait: 0 .. High + 1]]
  /\ poll.at \in {"rest", "read", "confirmed", "pending", "counted", "free", "set"}
  /\ waiting + scraping <= MaxJobs

\* Those who confirmed and may expect to be seen within the shortest interval.
Prompted == {i \in With("confirmed") : bills[i].age <= HighTimeout}

\* A confirmed payment waits no longer than the shortest interval for a scrape,
\* through duplicate jobs, slow scrapes, and whatever else is chosen, confirmed and
\* closed on its channel: unless the time was set by a poll that had counted before
\* the confirmation, one that found an older confirmation timed out or that failed to
\* add its job, by a handler that died half-way, by a cancellation, or by the bank.
PromptIsKept == excuse = {} => \A i \in Prompted : bills[i].wait <= High

-----------------------------------------------------------------------------
(* What the sources say and the program does not do.                       *)

\* A cancellation of one invoice does not keep another that is confirmed waiting.
ConfirmedIsPrompt ==
  excuse \subseteq {"postponed"} => \A i \in Prompted : bills[i].wait <= High
=============================================================================
