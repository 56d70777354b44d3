------------------------------ MODULE Webhooks ------------------------------
(***************************************************************************)
(* The delivery of one event of one invoice to the endpoints of a client,  *)
(* by the worker of the queue "webhook", while the client edits endpoints. *)
(*                                                                         *)
(* One job serves all endpoints, in the order the database returns them;   *)
(* one that fails ends the attempt, and the next attempt begins with all   *)
(* of them again.  Only the last attempt goes on after a failure.          *)
(*                                                                         *)
(* Addresses, secrets, signatures and payloads are left out: an endpoint   *)
(* is known by its row, its address is safe or not at each look (it is     *)
(* resolved anew), and a secret that cannot be decrypted is a call that    *)
(* fails.  A test call changes nothing here.                               *)
(***************************************************************************)
EXTENDS Integers, FiniteSets

CONSTANTS
  Endpoints,   \* rows of webhook_endpoints of the client, present or not
  MaxAttempts, \* WEBHOOK.MAX_ATTEMPTS, and the attempts of a job
  MaxStalls,   \* maxStalledCount
  MaxRequests, \* bound: requests of the client
  MaxFaults    \* bound: failures of the database, and deaths of the worker

VARIABLES
  endpoint, \* what each row says: absent, deaf (inactive, or not for this event), or listening
  logs,     \* webhook_logs: the results each endpoint has rows of
  job,      \* the job
  request,  \* the request of the client in progress
  made,     \* requests so far
  faults,   \* failures so far
  steady,   \* endpoints that have listened since the job was made (history)
  tried,    \* endpoints that were called or found unsafe (history)
  told,     \* endpoints that answered well (history)
  missing,  \* endpoints of which a log is missing: not written, or wiped (history)
  lost      \* the job failed for another reason than its endpoints (history)

client == <<endpoint, request, made>>
history == <<steady, tried, told, missing, lost>>
vars == <<client, logs, job, faults, history>>

Results == {"ok", "refused", "error", "unsafe"}

Answers == {"ok", "refused"}

NoOne == "no one"

Job == [at: {"waiting", "asked", "delivering", "blocking", "sending", "caught", "delayed",
             "stalled", "completed", "failed", "cleared"},
        attempt: Nat, stalls: Nat, left: SUBSET Endpoints, to: Endpoints \cup {NoOne}]
  \cup [at: {"logging"}, attempt: Nat, stalls: Nat, left: SUBSET Endpoints,
        to: Endpoints, answer: Answers]

Idle == [does |-> "nothing"]

Request == {Idle}
  \cup [does: {"create", "wipe", "remove"}, of: Endpoints]
  \cup [does: {"patch"}, of: Endpoints, to: {"deaf", "listening"}]

TypeOK ==
  /\ endpoint \in [Endpoints -> {"absent", "deaf", "listening"}]
  /\ logs \in [Endpoints -> SUBSET Results]
  /\ job \in Job /\ request \in Request
  /\ made \in Nat /\ faults \in Nat
  /\ steady \subseteq Endpoints /\ tried \subseteq Endpoints
  /\ told \subseteq Endpoints /\ missing \subseteq Endpoints
  /\ lost \in BOOLEAN

\* The match worker has queued the job.
Init ==
  /\ endpoint \in [Endpoints -> {"absent", "deaf", "listening"}]
  /\ logs = [e \in Endpoints |-> {}]
  /\ job = [at |-> "waiting", attempt |-> 1, stalls |-> 0, left |-> {}, to |-> NoOne]
  /\ request = Idle /\ made = 0 /\ faults = 0
  /\ steady = {e \in Endpoints : endpoint[e] = "listening"}
  /\ tried = {} /\ told = {} /\ missing = {} /\ lost = FALSE

-----------------------------------------------------------------------------
(* The job.                                                                *)

Go(at) ==
  job' = [at |-> at, attempt |-> job.attempt, stalls |-> job.stalls,
          left |-> job.left, to |-> job.to]

\* Between endpoints.
Deliver(left) ==
  job' = [at |-> "delivering", attempt |-> job.attempt, stalls |-> job.stalls,
          left |-> left, to |-> NoOne]

Ends(at) ==
  job' = [at |-> at, attempt |-> job.attempt, stalls |-> job.stalls, left |-> {}, to |-> NoOne]

\* The handler throws: the next attempt, after the delay of backoffStrategy, or the end.
Thrown ==
  IF job.attempt < MaxAttempts
  THEN job' = [at |-> "delayed", attempt |-> job.attempt + 1, stalls |-> job.stalls,
               left |-> {}, to |-> NoOne]
  ELSE Ends("failed")

TakeJob ==
  /\ job.at = "waiting"
  /\ Go("asked")
  /\ UNCHANGED <<client, logs, faults, history>>

BackoffEnds ==
  /\ job.at = "delayed"
  /\ Go("waiting")
  /\ UNCHANGED <<client, logs, faults, history>>

\* The active endpoints of the client that subscribe to the event.
ReadsEndpoints ==
  /\ job.at = "asked"
  /\ LET listening == {e \in Endpoints : endpoint[e] = "listening"}
     IN  IF listening = {} THEN Ends("completed") ELSE Deliver(listening)
  /\ UNCHANGED <<client, logs, faults, history>>

\* Reading the invoice or the endpoints fails, outside of the handler's try.
ReadFails ==
  /\ job.at = "asked"
  /\ faults < MaxFaults /\ faults' = faults + 1
  /\ Thrown
  /\ lost' = (job.attempt = MaxAttempts)
  /\ UNCHANGED <<client, logs, steady, tried, told, missing>>

ChecksUrl ==
  /\ job.at = "delivering" /\ job.left # {}
  /\ \E e \in job.left, at \in {"sending", "blocking"} :
       job' = [job EXCEPT !.at = at, !.to = e, !.left = @ \ {e}]
  /\ UNCHANGED <<client, logs, faults, history>>

Exists(e) == endpoint[e] # "absent"

\* Mutant: one row for each endpoint, overwritten by the next attempt.
Written_Over(result) ==
  /\ Exists(job.to)
  /\ logs' = [logs EXCEPT ![job.to] = {result}]

\* webhookLog.create: the row needs its endpoint.
Written(result) ==
  /\ Exists(job.to)
  /\ logs' = [logs EXCEPT ![job.to] = @ \cup {result}]

NotWritten ==
  /\ \/ ~Exists(job.to) /\ faults' = faults
     \/ faults < MaxFaults /\ faults' = faults + 1
  /\ missing' = missing \cup {job.to}
  /\ UNCHANGED logs

Blocks ==
  /\ job.at = "blocking"
  /\ tried' = tried \cup {job.to}
  /\ \/ Written("unsafe") /\ Deliver(job.left) /\ UNCHANGED <<faults, missing>>
     \/ NotWritten /\ Go("caught")
  /\ UNCHANGED <<client, steady, told, lost>>

\* fetch, at most ten seconds.
Answered ==
  /\ job.at = "sending"
  /\ tried' = tried \cup {job.to}
  /\ \E a \in Answers :
       /\ told' = IF a = "ok" THEN told \cup {job.to} ELSE told
       /\ job' = [at |-> "logging", attempt |-> job.attempt, stalls |-> job.stalls,
                  left |-> job.left, to |-> job.to, answer |-> a]
  /\ UNCHANGED <<client, logs, faults, steady, missing, lost>>

\* No answer: the network, the time limit, or a secret that cannot be read.
NoAnswer ==
  /\ job.at = "sending"
  /\ tried' = tried \cup {job.to}
  /\ Go("caught")
  /\ UNCHANGED <<client, logs, faults, steady, told, missing, lost>>

\* The delivery is logged; a refusal is then thrown, unless this is the last attempt.
LogsDelivery ==
  /\ job.at = "logging"
  /\ \/ /\ Written(job.answer) /\ UNCHANGED <<faults, missing>>
        /\ IF job.answer = "ok" \/ job.attempt = MaxAttempts
           THEN Deliver(job.left) ELSE Go("caught")
     \/ NotWritten /\ Go("caught")
  /\ UNCHANGED <<client, steady, tried, told, lost>>

\* Mutant: the last attempt ends with a failure too.
CatchesError_Throw ==
  /\ job.at = "caught"
  /\ \/ Written("error") /\ UNCHANGED <<faults, missing>>
     \/ NotWritten
  /\ Thrown
  /\ UNCHANGED <<client, steady, tried, told, lost>>

\* Logged, written or not, also after a refusal that was logged already.
CatchesError ==
  /\ job.at = "caught"
  /\ \/ Written("error") /\ UNCHANGED <<faults, missing>>
     \/ NotWritten
  /\ IF job.attempt < MaxAttempts THEN Thrown ELSE Deliver(job.left)
  /\ UNCHANGED <<client, steady, tried, told, lost>>

Completes ==
  /\ job.at = "delivering" /\ job.left = {}
  /\ Ends("completed")
  /\ UNCHANGED <<client, logs, faults, history>>

Active == job.at \in {"asked", "delivering", "blocking", "sending", "logging", "caught"}

\* The scraper dies; an answer it had no time to log is not logged.
WorkerDies ==
  /\ Active
  /\ faults < MaxFaults /\ faults' = faults + 1
  /\ Ends("stalled")
  /\ missing' = IF job.at \in {"logging", "caught"} THEN missing \cup {job.to} ELSE missing
  /\ UNCHANGED <<client, logs, steady, tried, told, lost>>

\* Found within 30 s, and run again as the same attempt.
StallDetected ==
  /\ job.at = "stalled"
  /\ IF job.stalls < MaxStalls
     THEN job' = [job EXCEPT !.at = "waiting", !.stalls = @ + 1] /\ lost' = lost
     ELSE Ends("failed") /\ lost' = TRUE
  /\ UNCHANGED <<client, logs, faults, steady, tried, told, missing>>

\* POST /admin/queue-health/webhook/clear-failed
ClearFailed ==
  /\ job.at = "failed"
  /\ Ends("cleared")
  /\ UNCHANGED <<client, logs, faults, history>>

-----------------------------------------------------------------------------
(* The client's requests: each reads the endpoint, then writes.            *)

Ask(r) == request = Idle /\ made < MaxRequests /\ made' = made + 1 /\ request' = r

Held == UNCHANGED <<job, faults, tried, told, lost>>

\* POST, with a safe address that is new to the client.
AsksToCreate(e) ==
  /\ ~Exists(e)
  /\ Ask([does |-> "create", of |-> e])
  /\ Held /\ UNCHANGED <<endpoint, logs, steady, missing>>

Creates ==
  /\ request.does = "create"
  /\ \E s \in {"deaf", "listening"} : endpoint' = [endpoint EXCEPT ![request.of] = s]
  /\ request' = Idle
  /\ Held /\ UNCHANGED <<made, logs, steady, missing>>

AsksToPatch(e) ==
  /\ Exists(e)
  /\ \E s \in {"deaf", "listening"} : Ask([does |-> "patch", of |-> e, to |-> s])
  /\ Held /\ UNCHANGED <<endpoint, logs, steady, missing>>

Patches ==
  /\ request.does = "patch"
  /\ endpoint' = [endpoint EXCEPT ![request.of] = request.to]
  /\ steady' = IF request.to = "deaf" THEN steady \ {request.of} ELSE steady
  /\ request' = Idle
  /\ Held /\ UNCHANGED <<made, logs, missing>>

AsksToDelete(e) ==
  /\ Exists(e)
  /\ Ask([does |-> "wipe", of |-> e])
  /\ Held /\ UNCHANGED <<endpoint, logs, steady, missing>>

\* The logs first, ...
WipesLogs ==
  /\ request.does = "wipe"
  /\ logs' = [logs EXCEPT ![request.of] = {}]
  /\ missing' = missing \cup {request.of}
  /\ request' = [request EXCEPT !.does = "remove"]
  /\ Held /\ UNCHANGED <<made, endpoint, steady>>

\* ... then the endpoint, if no log was written in between.
Deletes ==
  /\ request.does = "remove"
  /\ IF logs[request.of] = {}
     THEN /\ endpoint' = [endpoint EXCEPT ![request.of] = "absent"]
          /\ steady' = steady \ {request.of}
     ELSE UNCHANGED <<endpoint, steady>>
  /\ request' = Idle
  /\ Held /\ UNCHANGED <<made, logs, missing>>

Worker ==
  \/ TakeJob \/ BackoffEnds \/ ReadsEndpoints
  \/ ChecksUrl \/ Blocks \/ Answered \/ NoAnswer \/ LogsDelivery \/ CatchesError
  \/ Completes \/ StallDetected

Client ==
  \/ \E e \in Endpoints : AsksToCreate(e) \/ AsksToPatch(e) \/ AsksToDelete(e)
  \/ Creates \/ Patches \/ WipesLogs \/ Deletes

Next == Worker \/ ReadFails \/ WorkerDies \/ ClearFailed \/ Client

\* BullMQ serves the job, its delays end, and its lost locks are found.
Fairness == WF_vars(Worker)

Spec == Init /\ [][Next]_vars /\ Fairness

-----------------------------------------------------------------------------
\* Every endpoint that listens all the while is called or found unsafe, however
\* the others fail and whenever the worker dies: no endpoint keeps another from
\* the event for good.  (webhookWorker.js: the loop over the endpoints)
ListenersAreServed ==
  \A e \in Endpoints : e \in steady ~> (e \in tried \/ e \notin steady \/ lost)

\* An endpoint that answered well has a log that says so, unless the worker died
\* or the database failed before the log, or a request to delete the endpoint
\* wiped its logs.
DeliveryIsLogged ==
  \A e \in told \ missing :
    job.at # "logging" \/ job.to # e => "ok" \in logs[e]
=============================================================================
