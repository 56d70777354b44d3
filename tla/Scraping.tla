------------------------------ MODULE Scraping ------------------------------
(***************************************************************************)
(* How one channel is scraped: the scheduler's poll, the jobs of the queue *)
(* "scrape", the worker that runs them, and the circuit breaker.           *)
(*                                                                         *)
(* The scheduler reads all channels at the start of a poll, and decides by *)
(* that copy later.  A job is queued with a priority, so that it waits as  *)
(* "prioritized", a state the scheduler's search for earlier jobs does not *)
(* list.  The worker runs several jobs at once.                            *)
(*                                                                         *)
(* The scraper of the bank is one step, with the outcomes it can return;   *)
(* the mutations it finds are the business of Matching.  "session" is what *)
(* keeps a login between scrapes: a browser of the pool, or a token in     *)
(* Redis.  Priorities and intervals are left out: a channel may be due at  *)
(* any time.                                                               *)
(***************************************************************************)
EXTENDS Channels

CONSTANTS
  Jobs,       \* jobs of the channel that can be in the queue at once
  Threshold,  \* CIRCUIT_BREAKER.ERROR_THRESHOLD
  MaxFaults   \* bound: failed polls and restarts of the scraper

ASSUME ScrapingAssumption ==
  /\ Threshold \in Nat \ {0} /\ MaxFaults \in Nat

VARIABLES
  poll,     \* the scheduler, within its loop over the channels
  job,      \* jobs of the channel
  session,  \* version of the credentials the kept session is logged in with, 0 for none
  faults,   \* failed polls and restarts so far
  piled,    \* a job was added although another waited (history)
  excused   \* the session of old credentials may live on, see Excuse (history)

vars == <<channelVars, poll, job, session, faults, piled, excused>>

Attempts == 2

\* Within the worker's handler, with nothing in hand.
Steps == {"asked", "probe", "allowed", "backoff", "found", "verdict", "opening", "destroying"}

NoHand == [none |-> TRUE]

\* What a step has in hand: credentials, the kind of an error, or what to record of it.
Job == [attempt: 1..Attempts, at: Steps, hand: {NoHand}]
  \cup [attempt: 1..Attempts, at: {"none", "waiting", "delayed", "stalled"}, hand: {NoHand}]
  \cup [attempt: 1..Attempts, at: {"ready"}, hand: Versions]
  \cup [attempt: 1..Attempts, at: {"failing"}, hand: BOOLEAN]
  \cup [attempt: 1..Attempts, at: {"recording"},
        hand: [fatal: BOOLEAN, opens: BOOLEAN, errors: Nat]]

\* What the poll read of the channel: to be scraped, or paused, in cooldown or not due.
Snapshot == {"wanted", "not"}

Poll == [at: {"rest"}]
  \cup [at: {"command"}, snap: Snapshot]
  \cup [at: {"checks", "adding", "added"}]
  \cup [at: {"deleting", "acting"}, got: Commands \ {"none"}]

Rest == [at |-> "rest"]

Unused == [attempt |-> 1, at |-> "none", hand |-> NoHand]

TypeOK ==
  /\ row \in Row /\ state \in State /\ cmd \in Commands
  /\ request \in [Requests -> Request] /\ made \in Nat
  /\ verdicts \in Nat
  /\ poll \in Poll /\ job \in [Jobs -> Job]
  /\ session \in Versions \cup {0} /\ faults \in Nat
  /\ piled \in BOOLEAN /\ excused \in BOOLEAN

Init ==
  /\ ChannelInit
  /\ poll = Rest
  /\ job = [j \in Jobs |-> Unused]
  /\ session = 0 /\ faults = 0 /\ piled = FALSE /\ excused = FALSE

Held == UNCHANGED <<made, request>>

-----------------------------------------------------------------------------
(* The scheduler.                                                          *)

\* paymentChannel.findMany with the state of each, active or not.
PollReads ==
  /\ poll = Rest /\ ~row.deleted
  /\ poll' = [at |-> "command",
              snap |-> IF /\ row.active
                          /\ state.circuit = "open" => state.cooled
                          /\ state.due
                       THEN "wanted" ELSE "not"]
  /\ UNCHANGED <<channelVars, job, session, faults, piled>>

\* consumeCommand: get, then del.
GetsCommand ==
  /\ poll.at = "command"
  /\ poll' = IF cmd # "none" THEN [at |-> "deleting", got |-> cmd]
             ELSE IF poll.snap = "wanted" THEN [at |-> "checks"] ELSE Rest
  /\ UNCHANGED <<channelVars, job, session, faults, piled>>

DeletesCommand ==
  /\ poll.at = "deleting"
  /\ poll' = [poll EXCEPT !.at = "acting"]
  /\ cmd' = "none"
  /\ Held /\ UNCHANGED <<row, state, verdicts, job, session, faults, piled>>

\* Both end the session; a test login has a session of its own, and is for
\* active channels only.  Nothing else is done for the channel in this poll.
ActsOnCommand ==
  /\ poll.at = "acting"
  /\ session' = IF poll.got \in Logouts THEN 0 ELSE session
  /\ poll' = Rest
  /\ UNCHANGED <<channelVars, job, faults, piled>>

\* getJobs(['waiting', 'active', 'delayed']): a stalled job is still active.
Listed == {j \in Jobs : job[j].at \notin {"none", "waiting"}}

LooksForJobs ==
  /\ poll.at = "checks"
  /\ IF Listed = {}
     THEN /\ poll' = [poll EXCEPT !.at = "adding"]
          /\ piled' = (piled \/ \E j \in Jobs : job[j].at = "waiting")
     ELSE poll' = Rest /\ piled' = piled
  /\ UNCHANGED <<channelVars, job, session, faults>>

\* The upsert also makes the state of a channel that has none.
SchedulesNext ==
  /\ poll.at = "adding"
  /\ state' = [state EXCEPT !.exists = TRUE, !.due = FALSE]
  /\ poll' = [poll EXCEPT !.at = "added"]
  /\ Held /\ UNCHANGED <<row, cmd, verdicts, job, session, faults, piled>>

AddsJob ==
  /\ poll.at = "added"
  /\ \E j \in Jobs : job[j] = Unused
  /\ job' = [job EXCEPT ![CHOOSE j \in Jobs : job[j] = Unused].at = "waiting"]
  /\ poll' = Rest
  /\ UNCHANGED <<channelVars, session, faults, piled>>

\* The database or Redis fails: the poll ends.
PollFails ==
  /\ poll # Rest
  /\ faults < MaxFaults /\ faults' = faults + 1
  /\ poll' = Rest
  /\ Held /\ UNCHANGED <<row, state, cmd, verdicts, job, session, piled>>

-----------------------------------------------------------------------------
(* The queue.                                                              *)

At(j, step) == job[j].at = step

Active(j) == job[j].at \in Steps \cup {"ready", "failing", "recording"}

Move(j, step, hand) == job' = [job EXCEPT ![j].at = step, ![j].hand = hand]

Go(j, step) == Move(j, step, NoHand)

Completed(j) == job' = [job EXCEPT ![j] = Unused]

\* Thrown: one more attempt, five seconds later.
Thrown(j) ==
  job' = [job EXCEPT ![j] =
            IF @.attempt < Attempts
            THEN [@ EXCEPT !.at = "delayed", !.hand = NoHand, !.attempt = job[j].attempt + 1]
            ELSE Unused]

RestOfJob == UNCHANGED <<poll, faults, piled>>

Backed(j) ==
  /\ At(j, "delayed") /\ Go(j, "waiting")
  /\ RestOfJob /\ UNCHANGED <<channelVars, session>>

TakeJob(j) ==
  /\ At(j, "waiting")
  /\ Go(j, "asked")
  /\ RestOfJob /\ UNCHANGED <<channelVars, session>>

\* Run again, or failed when it has stalled too often.
StallDetected(j) ==
  /\ At(j, "stalled")
  /\ Go(j, "waiting") \/ Completed(j)
  /\ RestOfJob /\ UNCHANGED <<channelVars, session>>

-----------------------------------------------------------------------------
(* The worker and the circuit breaker.                                     *)

\* Mutant: an open circuit is never tried again.
MayProbe_Never == FALSE

MayProbe == state.cooled

\* canScrape reads the state.
CanScrape(j) ==
  /\ At(j, "asked")
  /\ \/ state.circuit # "open" /\ Go(j, "allowed")
     \/ state.circuit = "open" /\ MayProbe /\ Go(j, "probe")
     \/ state.circuit = "open" /\ ~MayProbe /\ Completed(j)
  /\ RestOfJob /\ UNCHANGED <<channelVars, session>>

HalfOpens(j) ==
  /\ At(j, "probe")
  /\ \/ state.exists /\ state' = [state EXCEPT !.circuit = "half_open"] /\ Go(j, "allowed")
     \/ ~state.exists /\ UNCHANGED state /\ Thrown(j)
  /\ Held /\ RestOfJob /\ UNCHANGED <<row, cmd, verdicts, session>>

\* The row, and its credentials, decrypted or not.
ReadsChannel(j) ==
  /\ At(j, "allowed")
  /\ \/ ~row.active /\ Completed(j)
     \/ /\ row.active
        /\ Move(j, "ready", row.creds) \/ Move(j, "failing", TRUE)
  /\ RestOfJob /\ UNCHANGED <<channelVars, session>>

\* The account the scraper works with: the one logged in, or the one it logs in.
Account(j) == IF session # 0 THEN session ELSE job[j].hand

ScrapeSucceeds(j) ==
  /\ At(j, "ready") /\ Account(j) \in Right
  /\ session' = Account(j)
  /\ Go(j, "found")
  /\ RestOfJob /\ UNCHANGED channelVars

\* An expired session, a page that does not load, an unknown page: logged, no more.
SoftError(j) ==
  /\ At(j, "ready")
  /\ session' \in {0, session}
  /\ Completed(j)
  /\ RestOfJob /\ UNCHANGED channelVars

\* A lockout or a rate limit: the next scrape is put off.
AskedToWait(j) ==
  /\ At(j, "ready")
  /\ session' \in {0, session}
  /\ Go(j, "backoff")
  /\ RestOfJob /\ UNCHANGED channelVars

PutsOff(j) ==
  /\ At(j, "backoff")
  /\ IF state.exists THEN state' = [state EXCEPT !.due = FALSE] /\ Completed(j)
                     ELSE state' = state /\ Move(j, "failing", FALSE)
  /\ Held /\ RestOfJob /\ UNCHANGED <<row, cmd, verdicts, session>>

\* CREDENTIAL_ERROR.  Of more than two, two are counted.
WrongPassword(j) ==
  /\ At(j, "ready") /\ session = 0 /\ job[j].hand \notin Right
  /\ verdicts' = IF verdicts < 2 THEN verdicts + 1 ELSE verdicts
  /\ Go(j, "verdict")
  /\ RestOfJob /\ Held /\ UNCHANGED <<row, state, cmd, session>>

\* Mutant: a wrong password is an error like others, and the job is run again.
Deactivates_Throw(j) == At(j, "verdict") /\ Thrown(j) /\ RestOfJob /\ UNCHANGED <<channelVars, session>>

Deactivates(j) ==
  /\ At(j, "verdict")
  /\ row' = [row EXCEPT !.active = FALSE]
  /\ Go(j, "opening")
  /\ Held /\ RestOfJob /\ UNCHANGED <<state, cmd, verdicts, session>>

\* The circuit opens without circuitOpenedAt, and nextScrapeAt becomes null.
OpensForGood(j) ==
  /\ At(j, "opening")
  /\ IF state.exists
     THEN state' = [state EXCEPT !.circuit = "open", !.due = TRUE] /\ Go(j, "destroying")
     ELSE state' = state /\ Move(j, "failing", FALSE)
  /\ Held /\ RestOfJob /\ UNCHANGED <<row, cmd, verdicts, session>>

DestroysSession(j) ==
  /\ At(j, "destroying")
  /\ session' = 0
  /\ Completed(j)
  /\ RestOfJob /\ UNCHANGED channelVars

\* Mutant: the errors are not forgotten.
RecordSuccess_Keep(j) ==
  /\ At(j, "found")
  /\ IF state.exists THEN /\ state' = [state EXCEPT !.circuit = "closed"]
                          /\ Completed(j) \/ Move(j, "failing", FALSE)
                     ELSE state' = state /\ Move(j, "failing", FALSE)
  /\ Held /\ RestOfJob /\ UNCHANGED <<row, cmd, verdicts, session>>

\* The log of the scrape may still fail, and counts as an error.
RecordSuccess(j) ==
  /\ At(j, "found")
  /\ IF state.exists THEN /\ state' = [state EXCEPT !.circuit = "closed", !.errors = 0]
                          /\ Completed(j) \/ Move(j, "failing", FALSE)
                     ELSE state' = state /\ Move(j, "failing", FALSE)
  /\ Held /\ RestOfJob /\ UNCHANGED <<row, cmd, verdicts, session>>

\* The scraper throws, or a write of the handler fails; classifyError reads the message.
Throws(j) ==
  /\ job[j].at \in {"ready", "backoff", "found", "verdict", "opening"}
  /\ \E fatal \in BOOLEAN : Move(j, "failing", fatal)
  /\ session' \in {0, session}
  /\ verdicts' = IF At(j, "verdict") THEN 0 ELSE verdicts
  /\ Held /\ RestOfJob /\ UNCHANGED <<row, state, cmd>>

\* Errors beyond the threshold are alike.
OneMore(n) == IF n < Threshold THEN n + 1 ELSE n

\* recordError reads, ...
ReadsErrors(j) ==
  /\ At(j, "failing")
  /\ Move(j, "recording", [fatal |-> job[j].hand, errors |-> OneMore(state.errors),
                           opens |-> \/ job[j].hand
                                     \/ OneMore(state.errors) >= Threshold
                                     \/ state.circuit = "half_open"])
  /\ RestOfJob /\ UNCHANGED <<channelVars, session>>

\* ... and writes; a fatal error also ends the session.
RecordError(j) ==
  /\ At(j, "recording")
  /\ state' = IF ~state.exists THEN state
              ELSE IF job[j].hand.opens
              THEN [state EXCEPT !.errors = job[j].hand.errors, !.circuit = "open", !.cooled = FALSE]
              ELSE [state EXCEPT !.errors = job[j].hand.errors]
  /\ session' = IF job[j].hand.fatal /\ state.exists THEN 0 ELSE session
  /\ Thrown(j)
  /\ Held /\ RestOfJob /\ UNCHANGED <<row, cmd, verdicts>>

-----------------------------------------------------------------------------
\* The scraper dies.  At its start the schedule is reset and the waiting jobs
\* are removed, if the database and Redis let it.
Restart ==
  /\ faults < MaxFaults /\ faults' = faults + 1
  /\ poll' = Rest
  /\ \E drained \in BOOLEAN :
       job' = [j \in Jobs |->
                 CASE Active(j) -> [job[j] EXCEPT !.at = "stalled", !.hand = NoHand]
                   [] job[j].at = "waiting" /\ drained /\ row.active -> Unused
                   [] OTHER -> job[j]]
  /\ state' \in {state, [state EXCEPT !.due = state.due \/ row.active]}
  /\ session' \in {0, session}
  /\ verdicts' = IF \E j \in Jobs : At(j, "verdict") THEN 0 ELSE verdicts
  /\ Held /\ UNCHANGED <<row, cmd, piled>>

\* The session is about to be ended.
LogoutPending == cmd \in Logouts \/ (poll.at \in {"deleting", "acting"} /\ poll.got \in Logouts)

\* A job works with what it read while the credentials are being replaced.
Crossing ==
  /\ \E q \in Requests : request[q] # Free /\ request[q].todo[Len(request[q].todo)] = "replace"
  /\ \E j \in Jobs : Active(j)

\* The command to log out is lost: overwritten by a test login, expired, deleted
\* unread, or read and not acted on.
Losing == LogoutPending /\ ~LogoutPending' /\ session' # 0

Excuse ==
  excused' = ( /\ excused \/ Crossing' \/ Losing
               /\ session' # 0 \/ \E j \in Jobs : Active(j)' )

Scheduler ==
  \/ PollReads \/ GetsCommand \/ DeletesCommand \/ ActsOnCommand
  \/ LooksForJobs \/ SchedulesNext \/ AddsJob

\* What the queue and the worker do with a job, whatever the bank answers.
Progress(j) ==
  \/ Backed(j) \/ TakeJob(j) \/ StallDetected(j)
  \/ CanScrape(j) \/ HalfOpens(j) \/ ReadsChannel(j)
  \/ ScrapeSucceeds(j) \/ SoftError(j) \/ AskedToWait(j) \/ PutsOff(j)
  \/ WrongPassword(j) \/ Deactivates(j) \/ OpensForGood(j) \/ DestroysSession(j)
  \/ RecordSuccess(j) \/ Throws(j) \/ ReadsErrors(j) \/ RecordError(j)

RestOfScraper == UNCHANGED <<poll, job, session, faults, piled>>

\* Time passes: a cooldown ends, and the next scrape is due.
Time == (CoolsDown \/ BecomesDue) /\ RestOfScraper

Next ==
  /\ \/ ChannelNext /\ RestOfScraper
     \/ Scheduler \/ PollFails
     \/ \E j \in Jobs : Progress(j)
     \/ Restart
  /\ Excuse

Spec == Init /\ [][Next]_vars

\* The scheduler polls, BullMQ serves its jobs, and time passes.  No request,
\* failure or restart is due, and nothing is said of what the bank answers.
Fairness ==
  /\ WF_vars(Scheduler /\ Excuse)
  /\ \A j \in Jobs : WF_vars(Progress(j) /\ Excuse)
  /\ WF_vars(Time /\ Excuse)

FairSpec == Spec /\ Fairness

-----------------------------------------------------------------------------
\* A session lives on with replaced credentials only while the command that
\* ends it is pending, or when a scrape overlapped the replacement or the
\* command was lost.
SessionMatchesCredentials == session \in {0, row.creds} \/ LogoutPending \/ excused

\* The breaker never counts to the threshold with its circuit closed, however the
\* reads and writes of several jobs and resets interleave.
ClosedBelowThreshold == state.circuit = "closed" => state.errors < Threshold

\* The bank refuses a password once: the channel is switched off, and no further
\* job enters it, unless jobs had piled up, or the scraper died or its database
\* failed before the channel was off.
WrongPasswordTriedOnce == verdicts <= 1 \/ piled

\* The breaker stops what it is there to stop: errors that repeat, and a wrong password.
BreakerHolds == ClosedBelowThreshold /\ WrongPasswordTriedOnce

Attempted == \E j \in Jobs : job[j].at \in {"ready", "failing"}

\* An active channel is scraped again: no error, open circuit, lost job or
\* restart keeps it from the bank for good.
ActiveIsScraped == row.active ~> (Attempted \/ ~row.active)
=============================================================================
