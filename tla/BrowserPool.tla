---------------------------- MODULE BrowserPool ----------------------------
(***************************************************************************)
(* The browsers of the scraper, one per channel, kept open between scrapes.*)
(*                                                                         *)
(* The pool is a Map in one JavaScript process: what runs between two      *)
(* awaits is atomic, what an await separates is not.  Its callers overlap: *)
(* the scrape worker, the scheduler (commands, test logins), the HTTP      *)
(* server (scrape-now, pre-deploy) and the hourly cleanup.                 *)
(*                                                                         *)
(* lastUsed is the order of "recent", its last member used most recently.  *)
(* Cookies are read and dropped (saveCookies), and restored by nobody.     *)
(***************************************************************************)
EXTENDS Naturals, FiniteSets, Sequences

CONSTANTS
  Channels,    \* channels with a browser: BCA and QRIS BCA
  Tests,       \* ids of test logins, each a session of its own
  Calls,       \* calls that can be in progress at once
  MaxBrowsers, \* capacity of the pool
  MaxLaunches  \* bound: browsers ever launched, numbered in their order

VARIABLES
  pool,       \* browser of each id, 0 for none
  running,    \* browsers launched and not closed
  recent,     \* browsers of the pool, least recently used first
  call,       \* calls in progress
  deploy,     \* how far POST /pre-deploy has come
  polling,    \* the scheduler is within a poll
  owner,      \* id each browser was launched for, in their order (history)
  overlapped, \* ids two calls launched or destroyed a browser of at once (history)
  late        \* a call went on after pre-deploy listed the sessions (history)

vars == <<pool, running, recent, call, deploy, polling, owner, overlapped, late>>

Ids == Channels \cup Tests

Browsers == 1..MaxLaunches

\* The keys of the Map.
Listed == {c \in Ids : pool[c] # 0}

Size == Cardinality(Listed)

NoId == "none"

Idle == [op |-> "idle"]

\* op: who called; at: the await it is in; browser: the one it deals with;
\* victim: the id it destroys, and "after", what it does then.
Call == {Idle} \cup
  [op: {"scrape", "now", "test", "clean", "sweep", "deploy"},
   at: {"check", "closing", "room", "launch", "set", "using", "next"},
   id: Ids \cup {NoId}, browser: Browsers \cup {0}, victim: Ids \cup {NoId},
   after: {"room", "launch", "end", "next"}, todo: SUBSET Ids]

TypeOK ==
  /\ pool \in [Ids -> Browsers \cup {0}]
  /\ running \subseteq Browsers
  /\ recent \in Seq(Browsers)
  /\ call \in [Calls -> Call]
  /\ deploy \in {"no", "closing", "listed", "answered"}
  /\ polling \in BOOLEAN
  /\ owner \in Seq(Ids) /\ Len(owner) <= MaxLaunches
  /\ overlapped \subseteq Ids
  /\ late \in BOOLEAN

Init ==
  /\ pool = [c \in Ids |-> 0]
  /\ running = {} /\ recent = <<>>
  /\ call = [k \in Calls |-> Idle]
  /\ deploy = "no" /\ polling = TRUE
  /\ owner = <<>>
  /\ overlapped = {} /\ late = FALSE

-----------------------------------------------------------------------------
(* Who overlaps whom.                                                      *)

\* A call between its look at the size and its entry in the pool.
MakingRoom(r) ==
  r # Idle /\ ( \/ r.at \in {"room", "launch", "set"}
                \/ r.at = "closing" /\ r.after = "launch" )

\* Ids whose entry a call is about to write.
Touches(r) ==
  IF r = Idle THEN {}
  ELSE {c \in {r.id} : MakingRoom(r) \/ (r.at = "closing" /\ r.after = "room")}
         \cup {c \in {r.victim} : r.at = "closing"}

\* Call k goes on as r.
GoOn(k, r) ==
  /\ call' = [call EXCEPT ![k] = r]
  /\ overlapped' = overlapped
       \cup {c \in Touches(r) : \E j \in Calls \ {k} : c \in Touches(call[j])}
  /\ late' = (late \/ (deploy \in {"listed", "answered"} /\ r # Idle /\ r.op \notin {"scrape", "deploy"}))

End(k) == GoOn(k, Idle)

Same == UNCHANGED <<pool, running, recent, owner>>

Untouched == UNCHANGED <<deploy, polling>>

Begin(op, c) == [op |-> op, at |-> "room", id |-> c, browser |-> 0, victim |-> c,
                 after |-> "end", todo |-> {}]

-----------------------------------------------------------------------------
(* destroySession, and what its callers do next.                           *)

Destroy(r, c, after) ==
  [r EXCEPT !.at = "closing", !.browser = pool[c], !.victim = c, !.after = after]

Then(r, after) == IF after = "end" THEN Idle ELSE [r EXCEPT !.at = after, !.browser = 0]

\* Nothing is awaited when the pool has no such session.
DestroyOrSkip(r, c, after) ==
  IF pool[c] = 0 THEN Then(r, after) ELSE Destroy(r, c, after)

AtCapacity == Size >= MaxBrowsers

Oldest == {c \in Listed : \A i \in DOMAIN recent :
             recent[i] = pool[c] => \A d \in Ids : \A j \in 1..(i - 1) : recent[j] # pool[d]}

\* getSession looks at the size, evicts or not, and launches.
MakesRoom(k, r) ==
  IF AtCapacity THEN \E c \in Oldest : GoOn(k, Destroy(r, c, "launch"))
                ELSE GoOn(k, [r EXCEPT !.at = "launch"])

\* The browser is closed; the entry goes by its id, whatever it is by then.
Closed(k) ==
  LET r == call[k]
  IN  /\ r # Idle /\ r.at = "closing"
      /\ running' = running \ {r.browser}
      /\ recent' = SelectSeq(recent, LAMBDA b : b # pool[r.victim])
      /\ pool' = [pool EXCEPT ![r.victim] = 0]
      /\ GoOn(k, Then(r, r.after))
      /\ Untouched /\ UNCHANGED owner

-----------------------------------------------------------------------------
(* getSession.                                                             *)

\* stopScheduler lets the poll in progress end; a closed worker takes no job.
MayCall(op) ==
  CASE op = "scrape" -> deploy = "no"
    [] op \in {"test", "clean"} -> polling
    [] OTHER -> TRUE

GetSession(k, op, c) ==
  /\ call[k] = Idle /\ MayCall(op)
  /\ IF op = "test" THEN c \in Tests /\ \A b \in DOMAIN owner : owner[b] # c ELSE c \in Channels
  /\ IF pool[c] = 0
     THEN MakesRoom(k, Begin(op, c))
     ELSE GoOn(k, [Begin(op, c) EXCEPT !.at = "check", !.browser = pool[c]])
  /\ Same /\ Untouched

StillAlive(k) ==
  LET r == call[k]
  IN  /\ r # Idle /\ r.at = "check"
      /\ r.browser \in running
      /\ recent' = IF pool[r.id] = r.browser
                   THEN Append(SelectSeq(recent, LAMBDA b : b # r.browser), r.browser)
                   ELSE recent
      /\ GoOn(k, [r EXCEPT !.at = "using"])
      /\ Untouched /\ UNCHANGED <<pool, running, owner>>

\* Mutant: a dead session is forgotten, and its browser not closed.
FoundDead_Forget(k) ==
  LET r == call[k]
  IN  /\ r # Idle /\ r.at = "check"
      /\ GoOn(k, [r EXCEPT !.at = "room", !.browser = 0])
      /\ Same /\ Untouched

FoundDead(k) ==
  LET r == call[k]
  IN  /\ r # Idle /\ r.at = "check"
      /\ IF pool[r.id] = 0 THEN MakesRoom(k, [r EXCEPT !.browser = 0])
                           ELSE GoOn(k, Destroy(r, r.id, "room"))
      /\ Same /\ Untouched

LookAtSize(k) ==
  /\ call[k] # Idle /\ call[k].at = "room"
  /\ MakesRoom(k, call[k])
  /\ Same /\ Untouched

Launch(k) ==
  LET r == call[k]
  IN  /\ r # Idle /\ r.at = "launch"
      /\ Len(owner) < MaxLaunches
      /\ owner' = Append(owner, r.id)
      /\ running' = running \cup {Len(owner')}
      /\ GoOn(k, [r EXCEPT !.at = "set", !.browser = Len(owner')])
      /\ Untouched /\ UNCHANGED <<pool, recent>>

\* The context and the page are made, and the session is entered.
SetSession(k) ==
  LET r == call[k]
  IN  /\ r # Idle /\ r.at = "set"
      /\ pool' = [pool EXCEPT ![r.id] = r.browser]
      /\ recent' = Append(SelectSeq(recent, LAMBDA b : b # pool[r.id]), r.browser)
      /\ GoOn(k, [r EXCEPT !.at = "using"])
      /\ Untouched /\ UNCHANGED <<running, owner>>

LaunchFails(k) == call[k] # Idle /\ call[k].at = "launch" /\ End(k) /\ Same /\ Untouched

\* newContext or newPage fails, as they do when the browser has died.
SetUpFails(k) ==
  /\ call[k] # Idle /\ call[k].at = "set"
  /\ running' = running \ {call[k].browser}
  /\ End(k)
  /\ Untouched /\ UNCHANGED <<pool, recent, owner>>

-----------------------------------------------------------------------------
(* The session in use, and the commands of the scheduler.                  *)

\* A wrong password or a fatal error, and every test login, ends in destroySession.
EndUse(k) ==
  LET r == call[k]
  IN  /\ r # Idle /\ r.at = "using"
      /\ \/ r.op # "test" /\ End(k)
         \/ r.op # "now" /\ GoOn(k, DestroyOrSkip(r, r.id, "end"))
      /\ Same /\ Untouched

CleanBrowser(k, c) ==
  /\ call[k] = Idle /\ MayCall("clean") /\ pool[c] # 0
  /\ GoOn(k, Destroy(Begin("clean", c), c, "end"))
  /\ Same /\ Untouched

-----------------------------------------------------------------------------
(* Cleanup, shutdown and crashes.                                          *)

\* A scrape is over long before its session is an hour old.
InUse(b) == \E k \in Calls : call[k] # Idle /\ call[k].at = "using" /\ call[k].browser = b

StartCleanup(k) ==
  /\ call[k] = Idle /\ deploy \in {"no", "closing"}
  /\ \A j \in Calls : call[j] # Idle => call[j].op # "sweep"
  /\ Listed # {}
  /\ GoOn(k, [Begin("sweep", NoId) EXCEPT !.at = "next", !.todo = Listed])
  /\ Same /\ Untouched

\* The next session of the Map, stale or not.
SweepNext(k) ==
  LET r == call[k]
  IN  /\ r # Idle /\ r.op = "sweep" /\ r.at = "next"
      /\ \/ r.todo = {} /\ End(k)
         \/ \E c \in r.todo :
              LET rest == [r EXCEPT !.todo = @ \ {c}]
              IN  \/ GoOn(k, rest)
                  \/ pool[c] # 0 /\ ~InUse(pool[c]) /\ GoOn(k, Destroy(rest, c, "next"))
      /\ Same /\ Untouched

\* POST /pre-deploy: stopScheduler, and no further job.
PreDeploy(k) ==
  /\ deploy = "no" /\ call[k] = Idle
  /\ deploy' = "closing"
  /\ UNCHANGED <<pool, running, recent, call, polling, owner, overlapped, late>>

PollEnds ==
  /\ polling /\ deploy # "no"
  /\ \A k \in Calls : call[k] # Idle => call[k].op \notin {"test", "clean"}
  /\ polling' = FALSE
  /\ UNCHANGED <<pool, running, recent, call, deploy, owner, overlapped, late>>

\* Mutant: the sessions are listed while a job still runs.
WorkersClosed_AtOnce == deploy = "closing"

\* worker.close() waits for the jobs in progress.
WorkersClosed ==
  /\ deploy = "closing"
  /\ \A k \in Calls : call[k] # Idle => call[k].op # "scrape"

\* browserPool.shutdown lists its sessions; the cleanup timer is stopped.
ListSessions(k) ==
  /\ call[k] = Idle
  /\ WorkersClosed
  /\ deploy' = "listed"
  /\ call' = [call EXCEPT ![k] = [Begin("deploy", NoId) EXCEPT !.at = "next", !.todo = Listed]]
  /\ late' = (polling \/ \E j \in Calls : call[j] # Idle /\ call[j].op # "scrape")
  /\ Same /\ UNCHANGED <<polling, overlapped>>

ShutdownNext(k) ==
  LET r == call[k]
  IN  /\ r # Idle /\ r.op = "deploy" /\ r.at = "next"
      /\ \/ r.todo = {} /\ deploy' = "answered" /\ End(k)
         \/ /\ \E c \in r.todo :
                 GoOn(k, DestroyOrSkip([r EXCEPT !.todo = @ \ {c}], c, "next"))
            /\ deploy' = deploy
      /\ Same /\ UNCHANGED polling

-----------------------------------------------------------------------------
Next ==
  \/ \E k \in Calls :
       \/ \E op \in {"scrape", "now", "test"}, c \in Ids : GetSession(k, op, c)
       \/ StillAlive(k) \/ FoundDead(k) \/ LookAtSize(k)
       \/ Launch(k) \/ SetSession(k) \/ LaunchFails(k) \/ SetUpFails(k)
       \/ EndUse(k) \/ Closed(k)
       \/ \E c \in Channels : CleanBrowser(k, c)
       \/ StartCleanup(k) \/ SweepNext(k)
       \/ PreDeploy(k) \/ ListSessions(k) \/ ShutdownNext(k)
  \/ PollEnds

Spec == Init /\ [][Next]_vars

-----------------------------------------------------------------------------
\* Nobody will ever close it: it is neither in the pool nor in the hands of a call.
Orphan(b) ==
  /\ b \in running
  /\ \A c \in Ids : pool[c] # b
  /\ \A k \in Calls : call[k] # Idle => call[k].browser # b

\* A running browser that nobody will close was left by two calls that wrote
\* the entry of one channel at once, or by a browser that gave no page.
OrphansExplained ==
  \A b \in Browsers : Orphan(b) => owner[b] \in overlapped

\* Once pre-deploy has answered "All sessions logged out", no session is left,
\* unless a poll, a scrape-now or a cleanup was still going on.
DeployedLoggedOut == deploy = "answered" => late \/ \A c \in Ids : pool[c] = 0

\* What the pool no longer knows of is explained, before and after a deployment.
PoolExplained == OrphansExplained /\ DeployedLoggedOut
=============================================================================
