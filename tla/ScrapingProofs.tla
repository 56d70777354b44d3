--------------------------- MODULE ScrapingProofs ---------------------------
(***************************************************************************)
(* What is proved of the scraper.                                          *)
(*                                                                         *)
(* Of Scraping, for any number of jobs, requests, failures, credentials    *)
(* and any threshold: the circuit breaker holds, and the kept session is   *)
(* of the channel's credentials or is about to be ended.  A replacement    *)
(* writes the command to log out before the credentials, so that a session *)
(* is gone or about to be ended when they change; and a job works with the *)
(* credentials of the row, unless it overlaps a replacement.               *)
(*                                                                         *)
(* Of the parts of MCBanks, each by itself: the session of a bank kept in  *)
(* Redis, the pool of browsers, the page of a BCA account.                 *)
(***************************************************************************)
EXTENDS Scraping, MCBanks, SequenceTheorems, TLAPS

-----------------------------------------------------------------------------
(* Types.                                                                  *)

\* A request in progress has something left to write.
Unfinished == \A q \in Requests : request[q] # Free => request[q].todo # <<>>

Types == TypeOK /\ Unfinished

LEMMA TypesInit == Init => Types
<1>. SUFFICES ASSUME Init PROVE Types
  OBVIOUS
<1>. USE DEF Init, ChannelInit
<1>1. row \in Row /\ state \in State /\ cmd \in Commands
  BY DEF Row, State, Fresh, Commands
<1>2. request \in [Requests -> Request] /\ Unfinished
  BY ChannelAssumption DEF Request, Free, Unfinished
<1>3. made \in Nat /\ verdicts \in Nat /\ session \in Versions \cup {0} /\ faults \in Nat
  OBVIOUS
<1>4. poll \in Poll /\ job \in [Jobs -> Job]
  BY DEF Poll, Rest, Job, Unused, Attempts
<1>5. piled \in BOOLEAN /\ excused \in BOOLEAN
  BY Zenon
<1>6. QED
  BY <1>1, <1>2, <1>3, <1>4, <1>5 DEF Types, TypeOK

\* Every handler writes something, and nothing unknown.
LEMMA HandlersWrite == \A h \in Handlers : h \in Seq(Writes) /\ h # <<>>
<1>. USE DEF Writes
<1>1. ForceLogout \in Seq(Writes) /\ ForceLogout # <<>>
  BY DEF ForceLogout
<1>2. CleanBrowser \in Seq(Writes) /\ CleanBrowser # <<>>
  BY DEF CleanBrowser
<1>3. TestConnection \in Seq(Writes) /\ TestConnection # <<>>
  BY DEF TestConnection
<1>4. Pause \in Seq(Writes) /\ Pause # <<>>
  BY DEF Pause
<1>5. Resume \in Seq(Writes) /\ Resume # <<>>
  BY DEF Resume
<1>6. ReplaceCredentials \in Seq(Writes) /\ ReplaceCredentials # <<>>
  BY DEF ReplaceCredentials
<1>7. DeleteChannel \in Seq(Writes) /\ DeleteChannel # <<>>
  BY DEF DeleteChannel
<1>8. ASSUME NEW h \in AdminPatches PROVE h \in Seq(Writes) /\ h # <<>>
  <2>1. CASE h = <<"switch_on">>
    BY <2>1
  <2>2. CASE h = <<"switch_off">>
    BY <2>2
  <2>3. CASE h = <<"close">>
    BY <2>3
  <2>4. QED
    BY <2>1, <2>2, <2>3 DEF AdminPatches
<1>9. QED
  BY <1>1, <1>2, <1>3, <1>4, <1>5, <1>6, <1>7, <1>8 DEF Handlers

LEMMA WriteTypes ==
  ASSUME Types, NEW q \in Requests, Write(q)
  PROVE  /\ row' \in Row /\ state' \in State /\ cmd' \in Commands
         /\ request' \in [Requests -> Request] /\ Unfinished'
         /\ made' \in Nat /\ verdicts' \in Nat
<1>1. request[q] \in Request /\ request[q].todo \in Seq(Writes) /\ request[q].todo # <<>>
  BY DEF Types, TypeOK, Unfinished, Write, Request
<1>2. PICK w \in Writes : w = Head(request[q].todo)
  BY <1>1
<1>3. row' \in Row
  BY <1>1, <1>2 DEF Write, RowAfter, Types, TypeOK, Row, Request
<1>4. state' \in State
  BY <1>2 DEF Write, StateAfter, Reset, NoState, Fresh, Types, TypeOK, State
<1>5. cmd' \in Commands
  BY <1>2 DEF Write, CmdAfter, Types, TypeOK, Commands, Logouts
<1>6. request' \in [Requests -> Request] /\ Unfinished'
  <2>0. request' = [request EXCEPT ![q] =
                      IF Len(@.todo) = 1 THEN Free ELSE [@ EXCEPT !.todo = Tail(request[q].todo)]]
    BY DEF Write
  <2>1. CASE Len(request[q].todo) = 1
    <3>1. request' = [request EXCEPT ![q] = Free]
      BY <2>0, <2>1
    <3>2. Free \in Request
      BY ChannelAssumption DEF Free, Request
    <3>3. QED
      BY <3>1, <3>2 DEF Types, TypeOK, Unfinished
  <2>2. CASE Len(request[q].todo) # 1
    <3>1. request' = [request EXCEPT ![q] = [request[q] EXCEPT !.todo = Tail(request[q].todo)]]
      BY <2>0, <2>2
    <3>2. Tail(request[q].todo) \in Seq(Writes) /\ Tail(request[q].todo) # <<>>
      <4>1. /\ Tail(request[q].todo) \in Seq(Writes)
            /\ Len(Tail(request[q].todo)) = Len(request[q].todo) - 1
        BY <1>1, HeadTailProperties
      <4>2. Len(request[q].todo) \in Nat /\ Len(request[q].todo) # 0
        BY <1>1, EmptySeq
      <4>3. Len(Tail(request[q].todo)) # 0
        BY <2>2, <4>1, <4>2
      <4>4. QED
        BY <4>1, <4>3, EmptySeq
    <3>3. [request[q] EXCEPT !.todo = Tail(request[q].todo)] \in Request
      BY <1>1, <3>2 DEF Request
    <3>4. QED
      BY <1>1, <3>1, <3>2, <3>3 DEF Types, TypeOK, Unfinished, Request
  <2>3. QED
    BY <2>1, <2>2
<1>7. made' \in Nat /\ verdicts' \in Nat
  BY DEF Write, Types, TypeOK
<1>8. QED
  BY <1>3, <1>4, <1>5, <1>6, <1>7

LEMMA ChannelTypes ==
  ASSUME Types, ChannelNext
  PROVE  /\ row' \in Row /\ state' \in State /\ cmd' \in Commands
         /\ request' \in [Requests -> Request] /\ Unfinished'
         /\ made' \in Nat /\ verdicts' \in Nat
<1>1. ASSUME NEW q \in Requests, NEW h \in Handlers, NEW v \in Versions, Receive(q, h, v)
      PROVE  /\ request' \in [Requests -> Request] /\ Unfinished' /\ made' \in Nat
             /\ UNCHANGED <<row, state, cmd, verdicts>>
  <2>1. [todo |-> h, creds |-> v] \in Request /\ h # <<>>
    BY HandlersWrite DEF Request
  <2>2. request' = [request EXCEPT ![q] = [todo |-> h, creds |-> v]] /\ made' = made + 1
    BY <1>1 DEF Receive
  <2>3. QED
    BY <1>1, <2>1, <2>2 DEF Receive, Types, TypeOK, Unfinished
<1>2. ASSUME NEW q \in Requests, RequestFails(q)
      PROVE  /\ request' \in [Requests -> Request] /\ Unfinished'
             /\ UNCHANGED <<row, state, cmd, made, verdicts>>
  <2>1. Free \in Request
    BY ChannelAssumption DEF Free, Request
  <2>2. QED
    BY <1>2, <2>1 DEF RequestFails, Types, TypeOK, Unfinished
<1>3. CASE CommandExpires
  BY <1>3 DEF CommandExpires, Types, TypeOK, Unfinished, Commands
<1>4. CASE CoolsDown \/ BecomesDue
  <2>1. state' \in State
    BY <1>4 DEF CoolsDown, BecomesDue, Types, TypeOK, State
  <2>2. QED
    BY <1>4, <2>1 DEF CoolsDown, BecomesDue, Types, TypeOK, Unfinished
<1>5. QED
  BY <1>1, <1>2, <1>3, <1>4, WriteTypes DEF ChannelNext, Types, TypeOK

-----------------------------------------------------------------------------
(* Types of the scraper.                                                   *)

LEMMA JobTypes ==
  ASSUME Types, NEW j \in Jobs
  PROVE  /\ job[j] \in Job
         /\ job[j].attempt \in 1 .. Attempts
         /\ job[j].at = "ready" => job[j].hand \in Versions
         /\ job[j].at = "failing" => job[j].hand \in BOOLEAN
         /\ job[j].at = "recording" =>
              job[j].hand \in [fatal: BOOLEAN, opens: BOOLEAN, errors: Nat]
<1>1. job[j] \in Job
  BY DEF Types, TypeOK
<1>2. QED
  BY <1>1 DEF Job, Steps

\* A job that moves on keeps its attempt.
LEMMA MoveTypes ==
  ASSUME Types, NEW j \in Jobs, NEW step, NEW hand, Move(j, step, hand),
         \A attempt \in 1 .. Attempts : [attempt |-> attempt, at |-> step, hand |-> hand] \in Job
  PROVE  /\ job' \in [Jobs -> Job]
         /\ job'[j].at = step /\ job'[j].hand = hand
         /\ \A k \in Jobs \ {j} : job'[k] = job[k]
<1>1. job[j] \in Job
  BY DEF Types, TypeOK
<1>2. job[j] = [attempt |-> job[j].attempt, at |-> job[j].at, hand |-> job[j].hand]
  BY <1>1 DEF Job
<1>3. /\ job' = [k \in Jobs |-> job'[k]]
      /\ job'[j] = [attempt |-> job[j].attempt, at |-> step, hand |-> hand]
      /\ \A k \in Jobs \ {j} : job'[k] = job[k]
  <2>1. DOMAIN job = Jobs /\ DOMAIN job[j] = {"attempt", "at", "hand"}
    BY <1>2 DEF Types, TypeOK
  <2>2. job' = [job EXCEPT ![j].at = step, ![j].hand = hand]
    BY DEF Move
  <2>3. job' = [k \in Jobs |-> job'[k]] /\ \A k \in Jobs \ {j} : job'[k] = job[k]
    BY <2>1, <2>2
  <2>4. job'[j] = [attempt |-> job[j].attempt, at |-> step, hand |-> hand]
    BY <2>1, <2>2
  <2>5. QED
    BY <2>3, <2>4
<1>4. [attempt |-> job[j].attempt, at |-> step, hand |-> hand] \in Job
  BY JobTypes
<1>5. QED
  BY <1>3, <1>4 DEF Types, TypeOK

LEMMA GoTypes ==
  ASSUME Types, NEW j \in Jobs,
         NEW step \in Steps \cup {"waiting", "delayed", "stalled"}, Go(j, step)
  PROVE  /\ job' \in [Jobs -> Job]
         /\ job'[j].at = step
         /\ \A k \in Jobs \ {j} : job'[k] = job[k]
<1>1. \A attempt \in 1 .. Attempts : [attempt |-> attempt, at |-> step, hand |-> NoHand] \in Job
  BY DEF Job
<1>2. QED
  BY <1>1, MoveTypes DEF Go

LEMMA CompletedTypes ==
  ASSUME Types, NEW j \in Jobs, Completed(j)
  PROVE  /\ job' \in [Jobs -> Job]
         /\ job'[j].at = "none"
         /\ \A k \in Jobs \ {j} : job'[k] = job[k]
<1>1. Unused \in Job
  BY DEF Unused, Job, Attempts
<1>2. QED
  BY <1>1 DEF Completed, Unused, Types, TypeOK

LEMMA Retried ==
  ASSUME NEW A, NEW B, NEW C, NEW r \in [attempt: A, at: B, hand: C], NEW n \in 1 .. Attempts
  PROVE  [r EXCEPT !.at = "delayed", !.hand = NoHand, !.attempt = n]
           \in [attempt: 1 .. Attempts, at: {"delayed"}, hand: {NoHand}]
OBVIOUS

LEMMA ThrownTypes ==
  ASSUME Types, NEW j \in Jobs, Thrown(j)
  PROVE  /\ job' \in [Jobs -> Job]
         /\ job'[j].at \in {"none", "delayed"}
         /\ \A k \in Jobs \ {j} : job'[k] = job[k]
<1>1. job[j] \in Job /\ job[j].attempt \in 1 .. Attempts
  BY JobTypes
<1>2. CASE job[j].attempt < Attempts
  <2>1. job[j] \in [attempt: {job[j].attempt}, at: {job[j].at}, hand: {job[j].hand}]
    BY <1>1 DEF Job
  <2>2. job[j].attempt + 1 \in 1 .. Attempts
    BY <1>1, <1>2 DEF Attempts
  <2>3. [job[j] EXCEPT !.at = "delayed", !.hand = NoHand, !.attempt = job[j].attempt + 1]
          \in [attempt: 1 .. Attempts, at: {"delayed"}, hand: {NoHand}]
    BY <2>1, <2>2, Retried
  <2>4. job' = [job EXCEPT ![j] = [job[j] EXCEPT !.at = "delayed", !.hand = NoHand,
                                                 !.attempt = job[j].attempt + 1]]
    BY <1>2 DEF Thrown
  <2>5. [attempt: 1 .. Attempts, at: {"delayed"}, hand: {NoHand}] \subseteq Job
    BY DEF Job
  <2>6. QED
    BY <2>3, <2>4, <2>5 DEF Types, TypeOK
<1>3. CASE ~(job[j].attempt < Attempts)
  <2>1. Completed(j)
    BY <1>3 DEF Thrown, Completed
  <2>2. QED
    BY <2>1, CompletedTypes
<1>4. QED
  BY <1>2, <1>3

\* What a step of the scraper leaves of the types, but for "excused".
ChannelKept ==
  /\ row' \in Row /\ state' \in State /\ cmd' \in Commands
  /\ request' \in [Requests -> Request] /\ Unfinished' /\ made' \in Nat /\ verdicts' \in Nat

ScraperKept ==
  /\ poll' \in Poll /\ job' \in [Jobs -> Job] /\ session' \in Versions \cup {0}
  /\ faults' \in Nat /\ piled' \in BOOLEAN

LEMMA ChannelRests ==
  ASSUME Types, UNCHANGED <<request, made>>,
         row' = row \/ row' \in Row, state' = state \/ state' \in State,
         cmd' = cmd \/ cmd' \in Commands, verdicts' = verdicts \/ verdicts' \in Nat
  PROVE  ChannelKept
BY DEF ChannelKept, Types, TypeOK, Unfinished

LEMMA ScraperRests ==
  ASSUME Types, UNCHANGED <<poll, faults, piled>>, job' = job \/ job' \in [Jobs -> Job],
         session' = session \/ session' \in Versions \cup {0}
  PROVE  ScraperKept
BY DEF ScraperKept, Types, TypeOK

LEMMA SchedulerTypes ==
  ASSUME Types, Scheduler \/ PollFails
  PROVE  ChannelKept /\ ScraperKept
<1>. USE DEF Types, TypeOK, Poll, Rest
<1>1. CASE PollReads \/ GetsCommand
  <2>1. poll' \in Poll
    <3>1. CASE PollReads
      BY <3>1, Zenon DEF PollReads, Snapshot
    <3>2. CASE GetsCommand
      BY <3>2 DEF GetsCommand
    <3>3. QED
      BY <1>1, <3>1, <3>2
  <2>2. QED
    BY <1>1, <2>1 DEF PollReads, GetsCommand, channelVars, ChannelKept, ScraperKept, Unfinished
<1>2. CASE DeletesCommand
  BY <1>2 DEF DeletesCommand, Held, Commands, ChannelKept, ScraperKept, Unfinished
<1>3. CASE ActsOnCommand
  BY <1>3 DEF ActsOnCommand, channelVars, ChannelKept, ScraperKept, Unfinished
<1>4. CASE LooksForJobs
  <2>1. piled' \in BOOLEAN
    BY <1>4, Zenon DEF LooksForJobs
  <2>2. poll' \in Poll
    BY <1>4 DEF LooksForJobs
  <2>3. QED
    BY <1>4, <2>1, <2>2 DEF LooksForJobs, channelVars, ChannelKept, ScraperKept, Unfinished
<1>5. CASE SchedulesNext
  <2>1. state' \in State
    BY <1>5 DEF SchedulesNext, State
  <2>2. poll' \in Poll
    BY <1>5 DEF SchedulesNext
  <2>3. QED
    BY <1>5, <2>1, <2>2 DEF SchedulesNext, Held, ChannelKept, ScraperKept, Unfinished
<1>6. CASE AddsJob
  <2>1. PICK j \in Jobs : job[j] = Unused /\ job' = [job EXCEPT ![j].at = "waiting"]
    BY <1>6 DEF AddsJob
  <2>2. [Unused EXCEPT !.at = "waiting"] \in [attempt: 1 .. Attempts, at: {"waiting"}, hand: {NoHand}]
    BY DEF Unused, Attempts
  <2>3. job' \in [Jobs -> Job]
    BY <2>1, <2>2 DEF Job
  <2>4. QED
    BY <1>6, <2>3 DEF AddsJob, channelVars, ChannelKept, ScraperKept, Unfinished
<1>7. CASE PollFails
  BY <1>7 DEF PollFails, Held, ChannelKept, ScraperKept, Unfinished
<1>8. QED
  BY <1>1, <1>2, <1>3, <1>4, <1>5, <1>6, <1>7 DEF Scheduler

\* What a step of one job leaves alone.
OnlyJob(j) ==
  /\ job' \in [Jobs -> Job] /\ \A k \in Jobs \ {j} : job'[k] = job[k]
  /\ job[j].at # "none" /\ UNCHANGED <<poll, faults, piled, request, made>>

LEMMA QueueTypes ==
  ASSUME Types, NEW j \in Jobs, Backed(j) \/ TakeJob(j) \/ StallDetected(j)
  PROVE  /\ OnlyJob(j) /\ UNCHANGED <<channelVars, session>>
         /\ job'[j].at \in {"waiting", "asked", "none"}
<1>1. CASE Backed(j) \/ TakeJob(j)
  BY <1>1, GoTypes DEF Backed, TakeJob, At, Steps, OnlyJob, RestOfJob, channelVars
<1>2. CASE StallDetected(j)
  BY <1>2, GoTypes, CompletedTypes DEF StallDetected, At, OnlyJob, RestOfJob, channelVars
<1>3. QED
  BY <1>1, <1>2

LEMMA CircuitTypes ==
  ASSUME Types, NEW j \in Jobs, CanScrape(j) \/ HalfOpens(j)
  PROVE  /\ OnlyJob(j) /\ UNCHANGED <<row, cmd, verdicts, session>>
         /\ job'[j].at \in {"allowed", "probe", "none", "delayed"}
         /\ state' = state \/ state' = [state EXCEPT !.circuit = "half_open"]
<1>1. CASE CanScrape(j)
  <2>1. Go(j, "allowed") \/ Go(j, "probe") \/ Completed(j)
    BY <1>1 DEF CanScrape
  <2>2. QED
    BY <1>1, <2>1, GoTypes, CompletedTypes DEF CanScrape, At, Steps, OnlyJob, RestOfJob, channelVars
<1>2. CASE HalfOpens(j)
  <2>1. Go(j, "allowed") \/ Thrown(j)
    BY <1>2 DEF HalfOpens
  <2>2. QED
    BY <1>2, <2>1, GoTypes, ThrownTypes DEF HalfOpens, At, Steps, OnlyJob, RestOfJob, Held
<1>3. QED
  BY <1>1, <1>2

LEMMA ReadsTypes ==
  ASSUME Types, NEW j \in Jobs, ReadsChannel(j)
  PROVE  /\ OnlyJob(j) /\ UNCHANGED <<channelVars, session>>
         /\ job'[j].at \in {"none", "ready", "failing"}
         /\ job'[j].at = "ready" => row.active
         /\ At(j, "allowed")
<1>1. CASE Completed(j)
  BY <1>1, CompletedTypes DEF ReadsChannel, At, OnlyJob, RestOfJob, channelVars
<1>2. CASE Move(j, "ready", row.creds) /\ row.active
  <2>1. \A attempt \in 1 .. Attempts :
          [attempt |-> attempt, at |-> "ready", hand |-> row.creds] \in Job
    BY DEF Job, Types, TypeOK, Row
  <2>2. QED
    BY <1>2, <2>1, MoveTypes DEF ReadsChannel, At, OnlyJob, RestOfJob, channelVars
<1>3. CASE Move(j, "failing", TRUE)
  <2>1. \A attempt \in 1 .. Attempts : [attempt |-> attempt, at |-> "failing", hand |-> TRUE] \in Job
    BY DEF Job
  <2>2. QED
    BY <1>3, <2>1, MoveTypes DEF ReadsChannel, At, OnlyJob, RestOfJob, channelVars
<1>4. QED
  BY <1>1, <1>2, <1>3 DEF ReadsChannel

LEMMA FailsTypes ==
  ASSUME Types, NEW j \in Jobs, NEW fatal \in BOOLEAN, Move(j, "failing", fatal)
  PROVE  /\ job' \in [Jobs -> Job] /\ job'[j].at = "failing"
         /\ \A k \in Jobs \ {j} : job'[k] = job[k]
<1>1. \A attempt \in 1 .. Attempts : [attempt |-> attempt, at |-> "failing", hand |-> fatal] \in Job
  BY DEF Job
<1>2. QED
  BY <1>1, MoveTypes

LEMMA OutcomeTypes ==
  ASSUME Types, NEW j \in Jobs, ScrapeSucceeds(j) \/ SoftError(j) \/ AskedToWait(j)
  PROVE  /\ OnlyJob(j) /\ UNCHANGED channelVars /\ session' \in Versions \cup {0}
         /\ job'[j].at \in {"found", "none", "backoff"}
         /\ At(j, "ready")
<1>1. CASE ScrapeSucceeds(j)
  <2>1. session' \in Versions \cup {0}
    BY <1>1, ChannelAssumption DEF ScrapeSucceeds
  <2>2. QED
    BY <1>1, <2>1, GoTypes DEF ScrapeSucceeds, At, Steps, OnlyJob, RestOfJob, channelVars
<1>2. CASE SoftError(j)
  BY <1>2, CompletedTypes DEF SoftError, At, OnlyJob, RestOfJob, channelVars, Types, TypeOK
<1>3. CASE AskedToWait(j)
  BY <1>3, GoTypes DEF AskedToWait, At, Steps, OnlyJob, RestOfJob, channelVars, Types, TypeOK
<1>4. QED
  BY <1>1, <1>2, <1>3

LEMMA VerdictTypes ==
  ASSUME Types, NEW j \in Jobs, WrongPassword(j)
  PROVE  /\ OnlyJob(j) /\ UNCHANGED <<row, state, cmd, session>>
         /\ At(j, "ready") /\ job'[j].at = "verdict"
         /\ verdicts' \in Nat /\ (verdicts = 0 => verdicts' = 1)
<1>1. Go(j, "verdict") /\ At(j, "ready")
  BY DEF WrongPassword
<1>2. QED
  BY <1>1, GoTypes DEF WrongPassword, At, Steps, OnlyJob, RestOfJob, Held, Types, TypeOK

LEMMA EndingTypes ==
  ASSUME Types, NEW j \in Jobs, Deactivates(j) \/ DestroysSession(j)
  PROVE  /\ OnlyJob(j) /\ UNCHANGED <<state, cmd, verdicts>>
         /\ row' \in Row /\ session' \in Versions \cup {0}
         /\ \/ At(j, "verdict") /\ job'[j].at = "opening" /\ ~row'.active
            \/ At(j, "destroying") /\ job'[j].at = "none" /\ row' = row
<1>1. CASE Deactivates(j)
  <2>1. row' \in Row /\ ~row'.active
    BY <1>1 DEF Deactivates, Types, TypeOK, Row
  <2>2. QED
    BY <1>1, <2>1, GoTypes DEF Deactivates, At, Steps, OnlyJob, RestOfJob, Held, Types, TypeOK
<1>2. CASE DestroysSession(j)
  BY <1>2, CompletedTypes DEF DestroysSession, At, OnlyJob, RestOfJob, channelVars, Types, TypeOK
<1>3. QED
  BY <1>1, <1>2

LEMMA OpeningTypes ==
  ASSUME Types, NEW j \in Jobs, PutsOff(j) \/ OpensForGood(j)
  PROVE  /\ OnlyJob(j) /\ UNCHANGED <<row, cmd, verdicts, session>>
         /\ job[j].at \in {"backoff", "opening"} /\ job'[j].at \in {"none", "destroying", "failing"}
         /\ state' \in State
         /\ state'.circuit = "closed" => state.circuit = "closed" /\ state'.errors = state.errors
<1>1. state' \in State /\ (state'.circuit = "closed" => state.circuit = "closed" /\ state'.errors = state.errors)
  BY DEF PutsOff, OpensForGood, Types, TypeOK, State
<1>2. Completed(j) \/ Go(j, "destroying") \/ Move(j, "failing", FALSE)
  BY DEF PutsOff, OpensForGood
<1>3. QED
  BY <1>1, <1>2, GoTypes, CompletedTypes, FailsTypes
     DEF PutsOff, OpensForGood, At, Steps, OnlyJob, RestOfJob, Held

LEMMA SuccessTypes ==
  ASSUME Types, NEW j \in Jobs, RecordSuccess(j)
  PROVE  /\ OnlyJob(j) /\ UNCHANGED <<row, cmd, verdicts, session>>
         /\ At(j, "found") /\ job'[j].at \in {"none", "failing"}
         /\ state' \in State /\ (state' = state \/ state'.errors = 0)
<1>1. state' \in State /\ (state' = state \/ state'.errors = 0)
  <2>1. state \in State
    BY DEF Types, TypeOK
  <2>2. state' = state \/ state' = [state EXCEPT !.circuit = "closed", !.errors = 0]
    BY DEF RecordSuccess
  <2>3. CASE state' = [state EXCEPT !.circuit = "closed", !.errors = 0]
    <3>1. state' \in State
      BY <2>1, <2>3 DEF State
    <3>2. state'.errors = 0
      BY <2>1, <2>3 DEF State
    <3>3. QED
      BY <3>1, <3>2
  <2>4. QED
    BY <2>1, <2>2, <2>3
<1>2. Completed(j) \/ Move(j, "failing", FALSE)
  BY DEF RecordSuccess
<1>3. QED
  BY <1>1, <1>2, CompletedTypes, FailsTypes DEF RecordSuccess, At, OnlyJob, RestOfJob, Held

LEMMA ThrowsTypes ==
  ASSUME Types, NEW j \in Jobs, Throws(j)
  PROVE  /\ OnlyJob(j) /\ UNCHANGED <<row, state, cmd>> /\ session' \in Versions \cup {0}
         /\ job[j].at # "none" /\ job'[j].at = "failing"
         /\ verdicts' = IF At(j, "verdict") THEN 0 ELSE verdicts
<1>1. PICK fatal \in BOOLEAN : Move(j, "failing", fatal)
  BY DEF Throws
<1>2. QED
  BY <1>1, FailsTypes DEF Throws, OnlyJob, RestOfJob, Held, Types, TypeOK

\* What is about to be recorded: below the threshold, or opening the circuit.
LEMMA ReadsErrorsTypes ==
  ASSUME Types, NEW j \in Jobs, ReadsErrors(j)
  PROVE  /\ OnlyJob(j) /\ UNCHANGED <<channelVars, session>>
         /\ At(j, "failing") /\ job'[j].at = "recording"
         /\ job'[j].hand.opens \/ job'[j].hand.errors < Threshold
<1>. DEFINE hand == [fatal |-> job[j].hand, errors |-> OneMore(state.errors),
                     opens |-> \/ job[j].hand \/ OneMore(state.errors) >= Threshold
                               \/ state.circuit = "half_open"]
<1>1. Move(j, "recording", hand) /\ At(j, "failing")
  BY DEF ReadsErrors
<1>2. job[j].hand \in BOOLEAN
  BY <1>1, JobTypes DEF At
<1>3. OneMore(state.errors) \in Nat /\ Threshold \in Nat
  BY ScrapingAssumption DEF OneMore, Types, TypeOK, State
<1>4. hand.opens \in BOOLEAN
  BY <1>2, Zenon
<1>5. hand \in [fatal: BOOLEAN, opens: BOOLEAN, errors: Nat]
  BY <1>2, <1>3, <1>4
<1>6. hand.opens \/ hand.errors < Threshold
  <2>1. OneMore(state.errors) >= Threshold \/ OneMore(state.errors) < Threshold
    BY <1>3
  <2>2. CASE OneMore(state.errors) >= Threshold
    BY <2>2, Zenon
  <2>3. CASE OneMore(state.errors) < Threshold
    BY <2>3, Zenon
  <2>4. QED
    BY <2>1, <2>2, <2>3
<1>. HIDE DEF hand
<1>7. \A attempt \in 1 .. Attempts : [attempt |-> attempt, at |-> "recording", hand |-> hand] \in Job
  BY <1>5 DEF Job
<1>8. job' \in [Jobs -> Job] /\ job'[j].at = "recording" /\ job'[j].hand = hand
      /\ \A k \in Jobs \ {j} : job'[k] = job[k]
  BY <1>1, <1>7, MoveTypes
<1>9. QED
  BY <1>1, <1>6, <1>8 DEF ReadsErrors, At, OnlyJob, RestOfJob, channelVars

LEMMA RecordErrorTypes ==
  ASSUME Types, NEW j \in Jobs, RecordError(j)
  PROVE  /\ OnlyJob(j) /\ UNCHANGED <<row, cmd, verdicts>> /\ session' \in Versions \cup {0}
         /\ At(j, "recording") /\ job'[j].at \in {"none", "delayed"}
         /\ state' \in State
         /\ \/ state' = state \/ state'.circuit = "open"
            \/ ~job[j].hand.opens /\ state'.errors = job[j].hand.errors
<1>1. job[j].hand \in [fatal: BOOLEAN, opens: BOOLEAN, errors: Nat]
  BY JobTypes DEF RecordError, At
<1>2. /\ state' \in State
      /\ \/ state' = state \/ state'.circuit = "open"
         \/ ~job[j].hand.opens /\ state'.errors = job[j].hand.errors
  BY <1>1 DEF RecordError, Types, TypeOK, State
<1>3. session' \in Versions \cup {0}
  BY DEF RecordError, Types, TypeOK
<1>4. Thrown(j)
  BY DEF RecordError
<1>5. QED
  BY <1>2, <1>3, <1>4, ThrownTypes DEF RecordError, At, OnlyJob, RestOfJob, Held

LEMMA ProgressTypes ==
  ASSUME Types, NEW j \in Jobs, Progress(j)
  PROVE  OnlyJob(j) /\ ChannelKept /\ ScraperKept
<1>1. OnlyJob(j)
  BY QueueTypes, CircuitTypes, ReadsTypes, OutcomeTypes, VerdictTypes, EndingTypes, OpeningTypes,
     SuccessTypes, ThrowsTypes, ReadsErrorsTypes, RecordErrorTypes DEF Progress
<1>2. session' = session \/ session' \in Versions \cup {0}
  BY QueueTypes, CircuitTypes, ReadsTypes, OutcomeTypes, VerdictTypes, EndingTypes, OpeningTypes,
     SuccessTypes, ThrowsTypes, ReadsErrorsTypes, RecordErrorTypes DEF Progress
<1>3. /\ row' = row \/ row' \in Row
      /\ cmd' = cmd
  BY QueueTypes, CircuitTypes, ReadsTypes, OutcomeTypes, VerdictTypes, EndingTypes, OpeningTypes,
     SuccessTypes, ThrowsTypes, ReadsErrorsTypes, RecordErrorTypes DEF Progress, channelVars
<1>4. state' = state \/ state' \in State
  <2>1. [state EXCEPT !.circuit = "half_open"] \in State
    BY DEF Types, TypeOK, State
  <2>2. QED
    BY <2>1, QueueTypes, CircuitTypes, ReadsTypes, OutcomeTypes, VerdictTypes, EndingTypes,
       OpeningTypes, SuccessTypes, ThrowsTypes, ReadsErrorsTypes, RecordErrorTypes
       DEF Progress, channelVars
<1>5. verdicts' = verdicts \/ verdicts' \in Nat
  BY QueueTypes, CircuitTypes, ReadsTypes, OutcomeTypes, VerdictTypes, EndingTypes,
     OpeningTypes, SuccessTypes, ThrowsTypes, ReadsErrorsTypes, RecordErrorTypes
     DEF Progress, channelVars
<1>6. QED
  BY <1>1, <1>2, <1>3, <1>4, <1>5, ChannelRests, ScraperRests DEF OnlyJob

\* After a restart a job is stalled, gone or where it was, if not in a handler.
LEMMA RestartTypes ==
  ASSUME Types, Restart
  PROVE  /\ ChannelKept /\ ScraperKept /\ poll' = Rest /\ UNCHANGED <<row, piled>>
         /\ \A j \in Jobs : /\ job'[j].at \in {"none", "waiting", "delayed", "stalled"}
                            /\ job[j].at = "none" => job'[j].at = "none"
         /\ verdicts' = IF \E j \in Jobs : At(j, "verdict") THEN 0 ELSE verdicts
         /\ state'.circuit = state.circuit /\ state'.errors = state.errors
<1>1. PICK drained \in BOOLEAN :
        job' = [j \in Jobs |->
                  CASE Active(j) -> [job[j] EXCEPT !.at = "stalled", !.hand = NoHand]
                    [] job[j].at = "waiting" /\ drained /\ row.active -> Unused
                    [] OTHER -> job[j]]
  BY DEF Restart
<1>2. ASSUME NEW j \in Jobs
      PROVE  /\ job'[j] \in Job /\ job'[j].at \in {"none", "waiting", "delayed", "stalled"}
             /\ job[j].at = "none" => job'[j].at = "none"
  <2>1. job[j] \in Job /\ job[j].attempt \in 1 .. Attempts
    BY JobTypes
  <2>2. CASE Active(j)
    <3>1. job[j] \in [attempt: {job[j].attempt}, at: {job[j].at}, hand: {job[j].hand}]
      BY <2>1 DEF Job
    <3>2. [job[j] EXCEPT !.at = "stalled", !.hand = NoHand]
            \in [attempt: 1 .. Attempts, at: {"stalled"}, hand: {NoHand}]
      BY <2>1, <3>1
    <3>3. [attempt: 1 .. Attempts, at: {"stalled"}, hand: {NoHand}] \subseteq Job
      BY DEF Job
    <3>4. job'[j] = [job[j] EXCEPT !.at = "stalled", !.hand = NoHand]
      <4>1. job[j].at # "waiting"
        BY <2>2 DEF Active, Steps
      <4>2. QED
        BY <1>1, <2>2, <4>1
    <3>5. job[j].at # "none"
      BY <2>2 DEF Active, Steps
    <3>6. QED
      BY <3>2, <3>3, <3>4, <3>5
  <2>3. CASE ~Active(j)
    <3>1. Unused \in Job /\ Unused.at = "none"
      BY DEF Unused, Job, Attempts
    <3>2. job'[j] = Unused \/ job'[j] = job[j]
      BY <1>1, <2>3
    <3>3. job[j].at \in {"none", "waiting", "delayed", "stalled"}
      BY <2>1, <2>3 DEF Active, Job
    <3>4. QED
      BY <2>1, <3>1, <3>2, <3>3
  <2>4. QED
    BY <2>2, <2>3
<1>3. job' \in [Jobs -> Job]
  BY <1>1, <1>2
<1>4. state' \in State /\ state'.circuit = state.circuit /\ state'.errors = state.errors
  <2>1. state.due \/ row.active \in BOOLEAN
    BY DEF Types, TypeOK, State, Row
  <2>2. (state.due \/ row.active) \in BOOLEAN
    BY Zenon
  <2>3. QED
    BY <2>2 DEF Restart, Types, TypeOK, State
<1>5. poll' \in Poll /\ poll' = Rest
  BY DEF Restart, Poll, Rest
<1>6. session' \in Versions \cup {0} /\ faults' \in Nat /\ piled' = piled /\ row' = row
  <2>1. piled' = piled /\ row' = row
    BY DEF Restart
  <2>2. faults' = faults + 1 /\ (session' = 0 \/ session' = session)
    BY DEF Restart
  <2>3. QED
    BY <2>1, <2>2 DEF Types, TypeOK
<1>7. verdicts' = IF \E j \in Jobs : At(j, "verdict") THEN 0 ELSE verdicts
  BY DEF Restart
<1>8. ChannelKept
  <2>1. UNCHANGED <<row, cmd, made, request>>
    BY DEF Restart, Held
  <2>2. verdicts' \in Nat
    BY <1>7 DEF Types, TypeOK
  <2>3. QED
    BY <1>4, <2>1, <2>2, ChannelRests
<1>9. ScraperKept
  BY <1>3, <1>5, <1>6 DEF ScraperKept, Types, TypeOK
<1>10. QED
  BY <1>2, <1>4, <1>5, <1>6, <1>7, <1>8, <1>9

LEMMA TypesStep == Types /\ [Next]_vars => Types'
<1>. SUFFICES ASSUME Types, [Next]_vars PROVE Types'
  OBVIOUS
<1>1. CASE UNCHANGED vars
  BY <1>1 DEF vars, channelVars, Types, TypeOK, Unfinished
<1>2. CASE Next
  <2>1. excused' \in BOOLEAN
    BY <1>2, Zenon DEF Next, Excuse
  <2>2. ChannelKept /\ ScraperKept
    <3>1. CASE ChannelNext /\ RestOfScraper
      BY <3>1, ChannelTypes DEF RestOfScraper, ChannelKept, ScraperKept, Types, TypeOK
    <3>2. QED
      BY <1>2, <3>1, SchedulerTypes, ProgressTypes, RestartTypes DEF Next
  <2>3. QED
    BY <2>1, <2>2 DEF ChannelKept, ScraperKept, Types, TypeOK
<1>3. QED
  BY <1>1, <1>2

\* Channel, requests, jobs and what they have in hand keep their types
\* (channels.js, scheduler.js, scrapeWorker.js, circuitBreaker.js).
THEOREM ScrapingTypes == Spec => []TypeOK
<1>1. Types => TypeOK
  BY DEF Types
<1>2. QED
  BY <1>1, TypesInit, TypesStep, PTL DEF Spec

-----------------------------------------------------------------------------
(* The circuit is closed below the threshold.                              *)

\* What is about to be written keeps below the threshold or opens the circuit:
\* recordError decides by what it read, and the row may have been reset since.
CountInv ==
  /\ ClosedBelowThreshold
  /\ \A j \in Jobs : At(j, "recording") => job[j].hand.opens \/ job[j].hand.errors < Threshold

LEMMA CountInit == Init => CountInv
BY ScrapingAssumption
   DEF Init, ChannelInit, Fresh, Unused, CountInv, ClosedBelowThreshold, At

LEMMA ChannelCount ==
  ASSUME Types, ChannelNext
  PROVE  state'.errors = 0 \/ (state'.circuit = state.circuit /\ state'.errors = state.errors)
<1>0. state \in State
  BY DEF Types, TypeOK
<1>1. ASSUME NEW q \in Requests, Write(q)
      PROVE state'.errors = 0 \/ (state'.circuit = state.circuit /\ state'.errors = state.errors)
  <2>1. PICK w : state' = StateAfter(w)
    BY <1>1 DEF Write
  <2>2. QED
    BY <1>0, <2>1 DEF StateAfter, Reset, NoState, Fresh, State
<1>2. CASE CoolsDown \/ BecomesDue
  BY <1>0, <1>2 DEF CoolsDown, BecomesDue, State
<1>3. QED
  BY <1>1, <1>2 DEF ChannelNext, Receive, RequestFails, CommandExpires

LEMMA ProgressCount ==
  ASSUME Types, CountInv, NEW j \in Jobs, Progress(j)
  PROVE  CountInv'
<1>1. OnlyJob(j)
  BY ProgressTypes
<1>2. job'[j].at = "recording" => job'[j].hand.opens \/ job'[j].hand.errors < Threshold
  BY QueueTypes, CircuitTypes, ReadsTypes, OutcomeTypes, VerdictTypes, EndingTypes, OpeningTypes,
     SuccessTypes, ThrowsTypes, ReadsErrorsTypes, RecordErrorTypes DEF Progress
<1>3. \/ state' = state \/ state'.circuit # "closed" \/ state'.errors = 0
      \/ state.circuit = "closed" /\ state'.errors = state.errors
      \/ At(j, "recording") /\ ~job[j].hand.opens /\ state'.errors = job[j].hand.errors
  <2>1. [state EXCEPT !.circuit = "half_open"].circuit = "half_open"
    BY DEF Types, TypeOK, State
  <2>2. QED
    BY <2>1, QueueTypes, CircuitTypes, ReadsTypes, OutcomeTypes, VerdictTypes, EndingTypes,
       OpeningTypes, SuccessTypes, ThrowsTypes, ReadsErrorsTypes, RecordErrorTypes
       DEF Progress, channelVars
<1>4. ClosedBelowThreshold'
  <2>1. ASSUME state'.circuit = "closed" PROVE state'.errors < Threshold
    <3>1. CASE state'.errors = 0
      BY <3>1, ScrapingAssumption
    <3>2. CASE state' = state \/ (state.circuit = "closed" /\ state'.errors = state.errors)
      BY <2>1, <3>2 DEF CountInv, ClosedBelowThreshold
    <3>3. CASE At(j, "recording") /\ ~job[j].hand.opens /\ state'.errors = job[j].hand.errors
      BY <3>3 DEF CountInv
    <3>4. QED
      BY <1>3, <2>1, <3>1, <3>2, <3>3
  <2>2. QED
    BY <2>1 DEF ClosedBelowThreshold
<1>5. \A k \in Jobs : job'[k].at = "recording" => job'[k].hand.opens \/ job'[k].hand.errors < Threshold
  BY <1>1, <1>2 DEF OnlyJob, CountInv, At
<1>6. QED
  BY <1>4, <1>5 DEF CountInv, At

LEMMA SchedulerMoves ==
  ASSUME Types, Scheduler \/ PollFails
  PROVE  /\ UNCHANGED <<row, verdicts>>
         /\ state'.circuit = state.circuit /\ state'.errors = state.errors
         /\ \/ job' = job
            \/ /\ poll.at = "added" /\ poll' = Rest
               /\ \E j \in Jobs : /\ job'[j].at = "waiting"
                                  /\ \A k \in Jobs \ {j} : job'[k] = job[k]
<1>0. state \in State
  BY DEF Types, TypeOK
<1>1. CASE SchedulesNext
  BY <1>0, <1>1 DEF SchedulesNext, Held, State
<1>2. CASE AddsJob
  <2>1. PICK j \in Jobs : job[j] = Unused /\ job' = [job EXCEPT ![j].at = "waiting"]
    BY <1>2 DEF AddsJob
  <2>2. job'[j].at = "waiting" /\ \A k \in Jobs \ {j} : job'[k] = job[k]
    BY <2>1 DEF Unused, Types, TypeOK
  <2>3. QED
    BY <1>2, <2>2 DEF AddsJob, channelVars
<1>3. QED
  BY <1>1, <1>2 DEF Scheduler, PollReads, GetsCommand, DeletesCommand, ActsOnCommand, LooksForJobs,
     PollFails, Held, channelVars

LEMMA CountStep == Types /\ CountInv /\ [Next]_vars => CountInv'
<1>. SUFFICES ASSUME Types, CountInv, [Next]_vars PROVE CountInv'
  OBVIOUS
<1>1. CASE UNCHANGED vars
  BY <1>1 DEF vars, channelVars, CountInv, ClosedBelowThreshold, At
<1>2. CASE ChannelNext /\ RestOfScraper
  BY <1>2, ChannelCount, ScrapingAssumption DEF RestOfScraper, CountInv, ClosedBelowThreshold, At
<1>3. CASE Scheduler \/ PollFails
  BY <1>3, SchedulerMoves DEF CountInv, ClosedBelowThreshold, At
<1>4. CASE Restart
  <2>1. state'.circuit = state.circuit /\ state'.errors = state.errors
    BY <1>4, RestartTypes
  <2>2. \A j \in Jobs : job'[j].at # "recording"
    <3>1. \A j \in Jobs : /\ job'[j].at \in {"none", "waiting", "delayed", "stalled"}
                          /\ job[j].at = "none" => job'[j].at = "none"
      BY <1>4, RestartTypes, Zenon
    <3>2. QED
      BY <3>1
  <2>3. QED
    BY <2>1, <2>2 DEF CountInv, ClosedBelowThreshold, At
<1>5. QED
  BY <1>1, <1>2, <1>3, <1>4, ProgressCount DEF Next

-----------------------------------------------------------------------------
(* A wrong password is tried once.                                         *)

\* Unless jobs piled up there is one job, and none while the scheduler adds one;
\* a wrong password has been heard at most once, and then its job is about to
\* switch the channel off, or the channel is off and no job is at the bank.
OneJob ==
  /\ \A j, k \in Jobs : job[j].at # "none" /\ job[k].at # "none" => j = k
  /\ poll.at \in {"adding", "added"} => \A j \in Jobs : job[j].at = "none"

HeardOnce ==
  \/ verdicts = 0
  \/ /\ verdicts = 1
     /\ \/ \E j \in Jobs : At(j, "verdict")
        \/ ~row.active /\ \A j \in Jobs : ~At(j, "ready")

OnceInv == ~piled => OneJob /\ HeardOnce

LEMMA OnceInit == Init => OnceInv
BY DEF Init, ChannelInit, Unused, Rest, OnceInv, OneJob, HeardOnce

LEMMA ChannelHeard ==
  ASSUME Types, ChannelNext
  PROVE  verdicts' = 0 \/ (verdicts' = verdicts /\ (row'.active => row.active))
<1>1. ASSUME NEW q \in Requests, Write(q)
      PROVE verdicts' = 0 \/ (verdicts' = verdicts /\ (row'.active => row.active))
  <2>1. PICK w : /\ row' = RowAfter(w, request[q].creds)
                 /\ verdicts' = IF w \in {"resume", "replace", "switch_on"} THEN 0 ELSE verdicts
    BY <1>1 DEF Write
  <2>2. CASE w \in {"resume", "replace", "switch_on"}
    BY <2>1, <2>2
  <2>3. CASE w \notin {"resume", "replace", "switch_on"}
    <3>1. row'.active => row.active
      BY <2>1, <2>3 DEF RowAfter, Types, TypeOK, Row
    <3>2. QED
      BY <2>1, <2>3, <3>1
  <2>4. QED
    BY <2>2, <2>3
<1>2. QED
  BY <1>1 DEF ChannelNext, Receive, RequestFails, CommandExpires, CoolsDown, BecomesDue

LEMMA ProgressHeard ==
  ASSUME Types, NEW j \in Jobs, Progress(j)
  PROVE  \/ /\ At(j, "ready") /\ job'[j].at = "verdict"
            /\ row' = row /\ (verdicts = 0 => verdicts' = 1)
         \/ verdicts' = 0
         \/ /\ verdicts' = verdicts /\ (row' = row \/ ~row'.active)
            /\ At(j, "verdict") => ~row'.active
            /\ job'[j].at = "ready" => row.active /\ ~At(j, "verdict")
<1>. USE DEF At, channelVars
<1>1. CASE Backed(j) \/ TakeJob(j) \/ StallDetected(j)
  BY <1>1, QueueTypes DEF Backed, TakeJob, StallDetected
<1>2. CASE CanScrape(j) \/ HalfOpens(j)
  BY <1>2, CircuitTypes DEF CanScrape, HalfOpens
<1>3. CASE ReadsChannel(j)
  BY <1>3, ReadsTypes
<1>4. CASE ScrapeSucceeds(j) \/ SoftError(j) \/ AskedToWait(j)
  BY <1>4, OutcomeTypes
<1>5. CASE WrongPassword(j)
  BY <1>5, VerdictTypes
<1>6. CASE Deactivates(j) \/ DestroysSession(j)
  BY <1>6, EndingTypes
<1>7. CASE PutsOff(j) \/ OpensForGood(j)
  BY <1>7, OpeningTypes
<1>8. CASE RecordSuccess(j)
  BY <1>8, SuccessTypes
<1>9. CASE Throws(j)
  BY <1>9, ThrowsTypes
<1>10. CASE ReadsErrors(j)
  BY <1>10, ReadsErrorsTypes
<1>11. CASE RecordError(j)
  BY <1>11, RecordErrorTypes
<1>12. QED
  BY <1>1, <1>2, <1>3, <1>4, <1>5, <1>6, <1>7, <1>8, <1>9, <1>10, <1>11 DEF Progress

LEMMA OnceProgress ==
  ASSUME Types, OnceInv, NEW j \in Jobs, Progress(j)
  PROVE  OnceInv'
<1>. SUFFICES ASSUME ~piled' PROVE OneJob' /\ HeardOnce'
  BY DEF OnceInv
<1>1. OnlyJob(j)
  BY ProgressTypes
<1>2. OneJob /\ HeardOnce
  BY <1>1 DEF OnlyJob, OnceInv
<1>3. \A k \in Jobs \ {j} : job[k].at = "none" /\ job'[k].at = "none"
  BY <1>1, <1>2 DEF OnlyJob, OneJob
<1>4. OneJob'
  BY <1>1, <1>2, <1>3 DEF OnlyJob, OneJob
<1>5. HeardOnce'
  <2>1. CASE verdicts = 0
    BY <1>1, <1>3, <2>1, ProgressHeard DEF OnlyJob, HeardOnce, At
  <2>2. CASE verdicts = 1 /\ At(j, "verdict")
    <3>1. verdicts' = 0 \/ (verdicts' = 1 /\ ~row'.active /\ job'[j].at # "ready")
      BY <2>2, ProgressHeard DEF At
    <3>2. QED
      BY <1>3, <3>1 DEF HeardOnce, At
  <2>3. CASE verdicts = 1 /\ ~At(j, "verdict")
    <3>1. ~row.active /\ ~At(j, "ready")
      BY <1>2, <1>3, <2>3 DEF HeardOnce, At
    <3>2. verdicts' = 0 \/ (verdicts' = 1 /\ ~row'.active /\ job'[j].at # "ready")
      BY <2>3, <3>1, ProgressHeard DEF At
    <3>3. QED
      BY <1>3, <3>2 DEF HeardOnce, At
  <2>4. QED
    BY <1>2, <2>1, <2>2, <2>3 DEF HeardOnce
<1>6. QED
  BY <1>4, <1>5

LEMMA OnceScheduler ==
  ASSUME Types, OnceInv, Scheduler \/ PollFails
  PROVE  OnceInv'
<1>. SUFFICES ASSUME ~piled' PROVE OneJob' /\ HeardOnce'
  BY DEF OnceInv
<1>1. piled => piled'
  BY DEF Scheduler, PollReads, GetsCommand, DeletesCommand, ActsOnCommand, LooksForJobs,
     SchedulesNext, AddsJob, PollFails
<1>2. OneJob /\ HeardOnce
  BY <1>1 DEF OnceInv
<1>3. CASE job' # job
  <2>1. poll.at = "added" /\ poll' = Rest
    BY <1>3, SchedulerMoves
  <2>2. PICK j \in Jobs : job'[j].at = "waiting" /\ \A k \in Jobs \ {j} : job'[k] = job[k]
    BY <1>3, SchedulerMoves
  <2>3. \A k \in Jobs \ {j} : job'[k].at = "none"
    BY <1>2, <2>1, <2>2 DEF OneJob
  <2>4. OneJob'
    BY <2>1, <2>3 DEF OneJob, Rest
  <2>5. HeardOnce'
    BY <1>2, <2>1, <2>2, <2>3, SchedulerMoves DEF HeardOnce, OneJob, At
  <2>6. QED
    BY <2>4, <2>5
<1>4. CASE job' = job
  <2>1. HeardOnce'
    BY <1>2, <1>4, SchedulerMoves DEF HeardOnce, At
  <2>2. poll'.at \in {"adding", "added"} => \A j \in Jobs : job[j].at = "none"
    <3>1. CASE LooksForJobs
      <4>1. CASE Listed = {}
        <5>1. ~ \E j \in Jobs : job[j].at = "waiting"
          BY <3>1, <4>1, Zenon DEF LooksForJobs
        <5>2. QED
          BY <4>1, <5>1 DEF Listed
      <4>2. CASE Listed # {}
        BY <3>1, <4>2 DEF LooksForJobs, Rest
      <4>3. QED
        BY <4>1, <4>2
    <3>2. CASE SchedulesNext
      BY <1>2, <3>2 DEF SchedulesNext, OneJob
    <3>3. CASE PollReads \/ ActsOnCommand \/ AddsJob \/ PollFails
      BY <3>3 DEF PollReads, ActsOnCommand, AddsJob, PollFails, Rest
    <3>4. CASE GetsCommand
      BY <3>4 DEF GetsCommand, Rest
    <3>5. CASE DeletesCommand
      BY <3>5 DEF DeletesCommand, Types, TypeOK, Poll, Rest
    <3>6. QED
      BY <3>1, <3>2, <3>3, <3>4, <3>5 DEF Scheduler
  <2>3. QED
    BY <1>2, <1>4, <2>1, <2>2 DEF OneJob
<1>5. QED
  BY <1>3, <1>4

LEMMA OnceStep == Types /\ OnceInv /\ [Next]_vars => OnceInv'
<1>. SUFFICES ASSUME Types, OnceInv, [Next]_vars PROVE OnceInv'
  OBVIOUS
<1>1. CASE UNCHANGED vars
  BY <1>1 DEF vars, channelVars, OnceInv, OneJob, HeardOnce, At
<1>2. CASE ChannelNext /\ RestOfScraper
  <2>1. UNCHANGED <<poll, job, piled>>
    BY <1>2 DEF RestOfScraper
  <2>2. QED
    BY <1>2, <2>1, ChannelHeard DEF OnceInv, OneJob, HeardOnce, At
<1>3. CASE Restart
  <2>1. /\ UNCHANGED <<row, piled>> /\ poll' = Rest
        /\ verdicts' = IF \E j \in Jobs : At(j, "verdict") THEN 0 ELSE verdicts
    BY <1>3, RestartTypes, Zenon
  <2>2. \A j \in Jobs : /\ job'[j].at \in {"none", "waiting", "delayed", "stalled"}
                        /\ job[j].at = "none" => job'[j].at = "none"
    BY <1>3, RestartTypes, Zenon
  <2>3. ASSUME OneJob PROVE OneJob'
    <3>1. ASSUME NEW j \in Jobs, NEW k \in Jobs, job'[j].at # "none", job'[k].at # "none"
          PROVE  j = k
      <4>1. job[j].at # "none" /\ job[k].at # "none"
        BY <2>2, <3>1
      <4>2. QED
        BY <2>3, <4>1 DEF OneJob
    <3>2. poll'.at = "rest"
      BY <2>1 DEF Rest
    <3>3. QED
      BY <3>1, <3>2 DEF OneJob
  <2>4. ASSUME HeardOnce PROVE HeardOnce'
    <3>1. CASE \E j \in Jobs : At(j, "verdict")
      BY <2>1, <3>1 DEF HeardOnce
    <3>2. CASE ~ \E j \in Jobs : At(j, "verdict")
      <4>1. verdicts' = verdicts /\ row' = row
        BY <2>1, <3>2
      <4>2. \A j \in Jobs : job'[j].at # "ready"
        BY <2>2
      <4>3. QED
        BY <2>4, <3>2, <4>1, <4>2 DEF HeardOnce, At
    <3>3. QED
      BY <3>1, <3>2
  <2>5. QED
    BY <2>1, <2>3, <2>4 DEF OnceInv
<1>4. QED
  BY <1>1, <1>2, <1>3, OnceScheduler, OnceProgress DEF Next

\* The breaker stops what it is there to stop: whatever reads and writes of
\* circuitBreaker.js cross each other, with any number of jobs, requests and
\* restarts, a closed circuit has fewer errors than the threshold; and a wrong
\* password is tried once (scrapeWorker.js), unless jobs had piled up.
THEOREM ScrapingBreakerHolds == Spec => []BreakerHolds
<1>1. CountInv /\ OnceInv => BreakerHolds
  <2>. SUFFICES ASSUME CountInv, OnceInv PROVE BreakerHolds
    OBVIOUS
  <2>1. WrongPasswordTriedOnce
    BY DEF OnceInv, HeardOnce, WrongPasswordTriedOnce
  <2>2. QED
    BY <2>1 DEF CountInv, BreakerHolds
<1>2. QED
  BY <1>1, TypesInit, TypesStep, CountInit, CountStep, OnceInit, OnceStep, PTL DEF Spec

-----------------------------------------------------------------------------
(* The session is of the channel's credentials.                            *)

\* What is left to write of a replacement, from its start to its last write.
Replacing == {ReplaceCredentials, <<"clean_browser", "replace">>, <<"replace">>}

ReplacesNothing(todo) == \A i \in 1 .. Len(todo) : todo[i] # "replace"

Shaped == \A q \in Requests :
  request[q].todo \in Replacing \/ ReplacesNothing(request[q].todo)

\* The session is of the credentials of the row, or about to be ended; so is what
\* a job works with; and the command to log out precedes the new credentials.
Matches ==
  /\ session \in {0, row.creds} \/ LogoutPending
  /\ \A j \in Jobs : At(j, "ready") => job[j].hand = row.creds
  /\ \A q \in Requests : request[q].todo = <<"replace">> => session = 0 \/ LogoutPending

MatchInv == Shaped /\ (Crossing => excused) /\ (excused \/ Matches)

LEMMA MatchInit == Init => MatchInv
<1>. SUFFICES ASSUME Init PROVE MatchInv
  OBVIOUS
<1>1. \A q \in Requests : request[q] = Free /\ ReplacesNothing(request[q].todo)
  BY DEF Init, ChannelInit, Free, ReplacesNothing
<1>2. \A j \in Jobs : ~Active(j) /\ ~At(j, "ready")
  BY DEF Init, Unused, Active, At, Steps
<1>3. \A q \in Requests : request[q].todo # <<"replace">>
  BY <1>1 DEF Free
<1>4. QED
  BY <1>1, <1>2, <1>3 DEF Init, MatchInv, Shaped, Crossing, Matches

LEMMA HandlersShaped == \A h \in Handlers :
  (h \in Replacing \/ ReplacesNothing(h)) /\ h # <<"replace">>
<1>. USE DEF ReplacesNothing
<1>1. ReplacesNothing(ForceLogout) /\ ForceLogout # <<"replace">>
  BY DEF ForceLogout
<1>2. ReplacesNothing(CleanBrowser) /\ CleanBrowser # <<"replace">>
  BY DEF CleanBrowser
<1>3. ReplacesNothing(TestConnection) /\ TestConnection # <<"replace">>
  BY DEF TestConnection
<1>4. ReplacesNothing(Pause) /\ Pause # <<"replace">>
  BY DEF Pause
<1>5. ReplacesNothing(Resume) /\ Resume # <<"replace">>
  BY DEF Resume
<1>6. ReplaceCredentials \in Replacing /\ ReplaceCredentials # <<"replace">>
  BY DEF ReplaceCredentials, Replacing
<1>7. ReplacesNothing(DeleteChannel) /\ DeleteChannel # <<"replace">>
  BY DEF DeleteChannel
<1>8. ASSUME NEW h \in AdminPatches PROVE ReplacesNothing(h) /\ h # <<"replace">>
  <2>1. CASE h = <<"switch_on">>
    BY <2>1
  <2>2. CASE h = <<"switch_off">>
    BY <2>2
  <2>3. CASE h = <<"close">>
    BY <2>3
  <2>4. QED
    BY <2>1, <2>2, <2>3 DEF AdminPatches
<1>9. QED
  BY <1>1, <1>2, <1>3, <1>4, <1>5, <1>6, <1>7, <1>8 DEF Handlers

\* A write of a request: the last of a replacement changes the credentials, and the
\* command to log out is the one before it.
LEMMA WriteMatch ==
  ASSUME Types, Shaped, NEW q \in Requests, Write(q)
  PROVE  /\ \/ row'.creds = row.creds
            \/ request[q].todo = <<"replace">> /\ cmd' = cmd
         /\ request'[q].todo = <<"replace">> => cmd' = "clean_browser"
         /\ request'[q].todo \in Replacing \/ ReplacesNothing(request'[q].todo)
         /\ \A p \in Requests \ {q} : request'[p] = request[p]
<1>1. request[q] \in Request /\ request[q].todo \in Seq(Writes) /\ request[q].todo # <<>>
  BY DEF Types, TypeOK, Unfinished, Write, Request
<1>2. PICK todo \in Seq(Writes) : todo = request[q].todo
  BY <1>1
<1>3. todo # <<>> /\ Len(todo) \in Nat /\ Len(todo) >= 1 /\ Head(todo) = todo[1]
  BY <1>1, <1>2
<1>4. /\ row' = RowAfter(Head(todo), request[q].creds)
      /\ cmd' = CmdAfter(Head(todo))
  BY <1>2 DEF Write
<1>5. row \in Row
  BY DEF Types, TypeOK
<1>6. Head(todo) # "replace" => row'.creds = row.creds
  BY <1>4, <1>5 DEF RowAfter, Row
<1>7. /\ Len(todo) = 1 => request'[q].todo = <<>>
      /\ Len(todo) # 1 => request'[q].todo = Tail(todo)
      /\ \A p \in Requests \ {q} : request'[p] = request[p]
  <2>1. DOMAIN request = Requests
    BY DEF Types, TypeOK
  <2>2. request' = [request EXCEPT ![q] =
                      IF Len(@.todo) = 1 THEN Free ELSE [@ EXCEPT !.todo = Tail(request[q].todo)]]
    BY DEF Write
  <2>3. CASE Len(todo) = 1
    <3>1. request' = [request EXCEPT ![q] = Free]
      BY <1>2, <2>2, <2>3
    <3>2. QED
      BY <2>1, <2>3, <3>1 DEF Free
  <2>4. CASE Len(todo) # 1
    <3>1. request' = [request EXCEPT ![q] = [request[q] EXCEPT !.todo = Tail(todo)]]
      BY <1>2, <2>2, <2>4
    <3>2. [request[q] EXCEPT !.todo = Tail(todo)].todo = Tail(todo)
      BY <1>1 DEF Request
    <3>3. QED
      BY <2>1, <2>4, <3>1, <3>2
  <2>5. QED
    BY <2>3, <2>4
<1>8. CASE todo = ReplaceCredentials
  <2>1. Head(todo) = "reset" /\ Tail(todo) = <<"clean_browser", "replace">> /\ Len(todo) = 3
    BY <1>8 DEF ReplaceCredentials
  <2>2. Tail(todo) # <<"replace">> /\ Tail(todo) \in Replacing
    <3>1. Len(Tail(todo)) = 2 /\ Len(<<"replace">>) = 1
      BY <2>1
    <3>2. Tail(todo) \in Replacing
      BY <2>1, Zenon DEF Replacing
    <3>3. ASSUME Tail(todo) = <<"replace">> PROVE FALSE
      <4>1. Len(Tail(todo)) = Len(<<"replace">>)
        BY <3>3, Zenon
      <4>2. 2 = 1
        BY <3>1, <4>1, Zenon
      <4>3. QED
        BY <4>2
    <3>4. QED
      BY <3>2, <3>3, Zenon
  <2>3. row'.creds = row.creds /\ request'[q].todo = Tail(todo)
    BY <1>6, <1>7, <2>1
  <2>4. QED
    BY <1>7, <2>2, <2>3
<1>9. CASE todo = <<"clean_browser", "replace">>
  <2>1. Head(todo) = "clean_browser" /\ Tail(todo) = <<"replace">> /\ Len(todo) = 2
    BY <1>9
  <2>2. cmd' = "clean_browser"
    BY <1>4, <2>1 DEF CmdAfter, Logouts
  <2>3. Tail(todo) \in Replacing
    BY <2>1, Zenon DEF Replacing
  <2>4. row'.creds = row.creds /\ request'[q].todo = Tail(todo)
    BY <1>6, <1>7, <2>1
  <2>5. QED
    BY <1>7, <2>2, <2>3, <2>4
<1>10. CASE todo = <<"replace">>
  <2>1. Head(todo) = "replace" /\ Len(todo) = 1
    BY <1>10
  <2>2. cmd' = cmd
    BY <1>4, <2>1 DEF CmdAfter, Logouts
  <2>3. <<>> # <<"replace">> /\ ReplacesNothing(<<>>)
    BY DEF ReplacesNothing
  <2>4. QED
    BY <1>2, <1>7, <1>10, <2>1, <2>2, <2>3
<1>11. CASE ReplacesNothing(todo)
  <2>1. Head(todo) # "replace"
    BY <1>3, <1>11 DEF ReplacesNothing
  <2>2. <<>> # <<"replace">> /\ ReplacesNothing(<<>>)
    BY DEF ReplacesNothing
  <2>3. ASSUME Len(todo) # 1
        PROVE  ReplacesNothing(Tail(todo)) /\ Tail(todo) # <<"replace">>
    <3>1. Len(Tail(todo)) = Len(todo) - 1 /\ \A i \in 1 .. Len(Tail(todo)) : Tail(todo)[i] = todo[i + 1]
      BY <1>3
    <3>2. ReplacesNothing(Tail(todo))
      BY <1>3, <1>11, <3>1 DEF ReplacesNothing
    <3>3. Tail(todo)[1] # "replace"
      BY <1>3, <2>3, <3>1, <3>2 DEF ReplacesNothing
    <3>4. ASSUME Tail(todo) = <<"replace">> PROVE FALSE
      <4>1. <<"replace">>[1] = "replace"
        OBVIOUS
      <4>2. QED
        BY <3>3, <3>4, <4>1
    <3>5. QED
      BY <3>2, <3>4
  <2>4. QED
    BY <1>6, <1>7, <2>1, <2>2, <2>3
<1>12. QED
  BY <1>2, <1>8, <1>9, <1>10, <1>11 DEF Shaped, Replacing

\* What is not excused is trivial, or was neither excused nor spoilt.
LEMMA NotExcused ==
  ASSUME Excuse, ~excused'
  PROVE  \/ session' = 0 /\ \A j \in Jobs : ~Active(j)'
         \/ ~excused /\ ~Crossing' /\ ~Losing
BY DEF Excuse

LEMMA CrossingExcused == Excuse => (Crossing' => excused')
BY DEF Excuse, Crossing

LEMMA NothingLeft ==
  ASSUME session' = 0, \A j \in Jobs : ~Active(j)'
  PROVE  Matches'
<1>1. \A j \in Jobs : ~At(j, "ready")'
  BY DEF Active, At
<1>2. QED
  BY <1>1 DEF Matches

\* A step that brings neither credentials nor a session.
LEMMA MatchKept ==
  ASSUME Matches, ~Losing, row'.creds = row.creds, session' \in {0, session},
         \A j \in Jobs : At(j, "ready")' => At(j, "ready") /\ job'[j].hand = job[j].hand,
         \A q \in Requests : request'[q].todo = <<"replace">> =>
           request[q].todo = <<"replace">> \/ cmd' \in Logouts
  PROVE  Matches'
<1>1. session' = 0 \/ (session' = session /\ (LogoutPending => LogoutPending'))
  BY DEF Losing
<1>2. cmd' \in Logouts => LogoutPending'
  BY DEF LogoutPending
<1>3. session' \in {0, row'.creds} \/ LogoutPending'
  BY <1>1 DEF Matches
<1>4. \A j \in Jobs : At(j, "ready")' => job'[j].hand = row'.creds
  BY DEF Matches
<1>5. \A q \in Requests : request'[q].todo = <<"replace">> => session' = 0 \/ LogoutPending'
  BY <1>1, <1>2 DEF Matches
<1>6. QED
  BY <1>3, <1>4, <1>5 DEF Matches

LEMMA ChannelMatch ==
  ASSUME Types, Shaped, ChannelNext, RestOfScraper
  PROVE  /\ Shaped'
         /\ (Crossing => excused) /\ Matches /\ ~excused /\ ~Losing => Matches'
<1>0. UNCHANGED <<poll, job, session>>
  BY DEF RestOfScraper
<1>00. \A j \in Jobs : At(j, "ready")' => At(j, "ready") /\ job'[j].hand = job[j].hand
  BY <1>0 DEF At
<1>1. ASSUME NEW q \in Requests, Write(q)
      PROVE  /\ Shaped'
             /\ (Crossing => excused) /\ Matches /\ ~excused /\ ~Losing => Matches'
  <2>1. Shaped'
    BY <1>1, WriteMatch DEF Shaped
  <2>2. ASSUME Crossing => excused, Matches, ~excused, ~Losing PROVE Matches'
    <3>1. CASE row'.creds = row.creds
      <4>1. \A p \in Requests : request'[p].todo = <<"replace">> =>
              request[p].todo = <<"replace">> \/ cmd' \in Logouts
        BY <1>1, WriteMatch DEF Logouts
      <4>2. QED
        BY <1>0, <1>00, <2>2, <3>1, <4>1, MatchKept
    <3>2. CASE request[q].todo = <<"replace">> /\ cmd' = cmd
      <4>1. session = 0 \/ LogoutPending
        BY <2>2, <3>2 DEF Matches
      <4>2. session' = 0 \/ LogoutPending'
        BY <1>0, <3>2, <4>1 DEF LogoutPending
      <4>3. \A j \in Jobs : ~Active(j)
        <5>1. request[q].todo[Len(request[q].todo)] = "replace"
          BY <3>2
        <5>2. QED
          BY <1>1, <2>2, <5>1 DEF Crossing, Write
      <4>4. \A j \in Jobs : ~At(j, "ready")'
        BY <1>00, <4>3 DEF Active, At
      <4>5. QED
        BY <4>2, <4>4 DEF Matches
    <3>3. QED
      BY <1>1, <3>1, <3>2, WriteMatch
  <2>3. QED
    BY <2>1, <2>2
<1>2. ASSUME NEW q \in Requests, NEW h \in Handlers, NEW v \in Versions, Receive(q, h, v)
      PROVE  Shaped' /\ (Matches /\ ~Losing => Matches')
  <2>1. /\ request'[q].todo = h
        /\ \A p \in Requests \ {q} : request'[p] = request[p]
        /\ row' = row
    BY <1>2 DEF Receive, Types, TypeOK
  <2>2. Shaped'
    BY <2>1, HandlersShaped DEF Shaped
  <2>3. ASSUME Matches, ~Losing PROVE Matches'
    <3>1. \A p \in Requests : request'[p].todo = <<"replace">> =>
            request[p].todo = <<"replace">> \/ cmd' \in Logouts
      BY <2>1, HandlersShaped
    <3>2. QED
      BY <1>0, <1>00, <2>1, <2>3, <3>1, MatchKept
  <2>4. QED
    BY <2>2, <2>3
<1>3. ASSUME NEW q \in Requests, RequestFails(q)
      PROVE  Shaped' /\ (Matches /\ ~Losing => Matches')
  <2>1. /\ request'[q].todo = <<>>
        /\ \A p \in Requests \ {q} : request'[p] = request[p]
        /\ row' = row
    BY <1>3 DEF RequestFails, Types, TypeOK, Free
  <2>2. <<>> # <<"replace">> /\ ReplacesNothing(<<>>)
    BY DEF ReplacesNothing
  <2>3. Shaped'
    BY <2>1, <2>2 DEF Shaped
  <2>4. ASSUME Matches, ~Losing PROVE Matches'
    <3>1. \A p \in Requests : request'[p].todo = <<"replace">> =>
            request[p].todo = <<"replace">> \/ cmd' \in Logouts
      BY <2>1, <2>2
    <3>2. QED
      BY <1>0, <1>00, <2>1, <2>4, <3>1, MatchKept
  <2>5. QED
    BY <2>3, <2>4
<1>4. ASSUME CommandExpires \/ CoolsDown \/ BecomesDue
      PROVE  Shaped' /\ (Matches /\ ~Losing => Matches')
  <2>1. request' = request /\ row' = row
    BY <1>4 DEF CommandExpires, CoolsDown, BecomesDue
  <2>2. QED
    BY <1>0, <1>00, <2>1, MatchKept DEF Shaped
<1>5. QED
  BY <1>1, <1>2, <1>3, <1>4 DEF ChannelNext

\* A scrape that succeeds logs in with what the job read, or keeps the session.
LEMMA ProgressMatch ==
  ASSUME Types, Crossing => excused, ~excused, Matches, ~Losing, NEW j \in Jobs, Progress(j)
  PROVE  Matches'
<1>1. OnlyJob(j)
  BY ProgressTypes
<1>2. request' = request /\ poll' = poll /\ \A k \in Jobs \ {j} : job'[k] = job[k]
  BY <1>1 DEF OnlyJob
<1>3. CASE ReadsChannel(j)
  <2>1. row' = row /\ session' = session
    BY <1>3 DEF ReadsChannel, channelVars
  <2>2. At(j, "ready")' => job'[j].hand = row'.creds
    <3>1. CASE Completed(j)
      BY <3>1, CompletedTypes DEF At
    <3>2. CASE Move(j, "ready", row.creds)
      <4>1. row.creds \in Versions
        BY DEF Types, TypeOK, Row
      <4>2. \A attempt \in 1 .. Attempts : [attempt |-> attempt, at |-> "ready", hand |-> row.creds] \in Job
        BY <4>1 DEF Job
      <4>3. QED
        BY <2>1, <3>2, <4>2, MoveTypes
    <3>3. CASE Move(j, "failing", TRUE)
      BY <3>3, FailsTypes DEF At
    <3>4. QED
      BY <1>3, <3>1, <3>2, <3>3 DEF ReadsChannel
  <2>3. LogoutPending => LogoutPending' \/ session' = 0
    BY DEF Losing
  <2>4. \A k \in Jobs : At(k, "ready")' => job'[k].hand = row'.creds
    BY <1>2, <2>1, <2>2 DEF Matches, At
  <2>5. QED
    BY <1>2, <2>1, <2>3, <2>4 DEF Matches
<1>4. CASE ScrapeSucceeds(j)
  <2>1. /\ UNCHANGED channelVars /\ At(j, "ready") /\ session' = Account(j)
        /\ ~At(j, "ready")'
    BY <1>4, OutcomeTypes DEF ScrapeSucceeds, At
  <2>2. row' = row /\ cmd' = cmd /\ (LogoutPending => LogoutPending')
    BY <1>2, <2>1 DEF channelVars, LogoutPending
  <2>3. \A q \in Requests : request[q].todo # <<"replace">>
    <3>1. Active(j)
      BY <2>1 DEF Active, At
    <3>2. ASSUME NEW q \in Requests, request[q].todo = <<"replace">> PROVE FALSE
      <4>1. request[q].todo[Len(request[q].todo)] = "replace" /\ request[q] # Free
        BY <3>2 DEF Free
      <4>2. QED
        BY <3>1, <4>1 DEF Crossing
    <3>3. QED
      BY <3>2
  <2>4. session' \in {0, row'.creds} \/ LogoutPending'
    BY <2>1, <2>2 DEF Account, Matches
  <2>5. \A k \in Jobs : At(k, "ready")' => job'[k].hand = row'.creds
    BY <1>2, <2>1, <2>2 DEF Matches, At
  <2>6. QED
    BY <1>2, <2>3, <2>4, <2>5 DEF Matches
<1>5. CASE ~ReadsChannel(j) /\ ~ScrapeSucceeds(j)
  <2>1. row'.creds = row.creds
    <3>1. CASE Deactivates(j)
      BY <3>1 DEF Deactivates, Types, TypeOK, Row
    <3>2. CASE ~Deactivates(j)
      BY <1>5, <3>2, QueueTypes, CircuitTypes, OutcomeTypes, VerdictTypes, OpeningTypes,
         SuccessTypes, ThrowsTypes, ReadsErrorsTypes, RecordErrorTypes
         DEF Progress, channelVars, DestroysSession
    <3>3. QED
      BY <3>1, <3>2
  <2>2. session' \in {0, session}
    <3>1. CASE RecordError(j)
      BY <3>1 DEF RecordError
    <3>2. CASE SoftError(j) \/ AskedToWait(j) \/ Throws(j) \/ Deactivates(j) \/ DestroysSession(j)
      BY <3>2 DEF SoftError, AskedToWait, Throws, Deactivates, DestroysSession
    <3>3. CASE ~RecordError(j) /\ ~(SoftError(j) \/ AskedToWait(j) \/ Throws(j)
                 \/ Deactivates(j) \/ DestroysSession(j))
      BY <1>5, <3>3, QueueTypes, CircuitTypes, VerdictTypes, OpeningTypes,
         SuccessTypes, ReadsErrorsTypes DEF Progress
    <3>4. QED
      BY <3>1, <3>2, <3>3
  <2>3. ~At(j, "ready")'
    BY <1>5, QueueTypes, CircuitTypes, OutcomeTypes, VerdictTypes, EndingTypes, OpeningTypes,
       SuccessTypes, ThrowsTypes, ReadsErrorsTypes, RecordErrorTypes DEF Progress, At
  <2>4. \A k \in Jobs : At(k, "ready")' => At(k, "ready") /\ job'[k].hand = job[k].hand
    BY <1>2, <2>3 DEF At
  <2>5. QED
    BY <1>2, <2>1, <2>2, <2>4, MatchKept
<1>6. QED
  BY <1>3, <1>4, <1>5

LEMMA SchedulerMatch ==
  ASSUME Types, Matches, ~Losing, Scheduler \/ PollFails
  PROVE  Matches'
<1>1. row' = row
  BY SchedulerMoves
<1>2. request' = request /\ session' \in {0, session}
  BY DEF Scheduler, PollReads, GetsCommand, DeletesCommand, ActsOnCommand, LooksForJobs,
         SchedulesNext, AddsJob, PollFails, Held, channelVars
<1>3. \A j \in Jobs : At(j, "ready")' => At(j, "ready") /\ job'[j].hand = job[j].hand
  BY SchedulerMoves DEF At
<1>4. QED
  BY <1>1, <1>2, <1>3, MatchKept

LEMMA RestartMatch ==
  ASSUME Types, Matches, ~Losing, Restart
  PROVE  Matches'
<1>1. row' = row /\ request' = request /\ session' \in {0, session}
  BY DEF Restart, Held
<1>2. \A j \in Jobs : ~At(j, "ready")'
  BY RestartTypes DEF At
<1>3. QED
  BY <1>1, <1>2, MatchKept

LEMMA MatchStep == Types /\ MatchInv /\ [Next]_vars => MatchInv'
<1>. SUFFICES ASSUME Types, MatchInv, [Next]_vars PROVE MatchInv'
  OBVIOUS
<1>1. CASE UNCHANGED vars
  BY <1>1 DEF vars, channelVars, MatchInv, Shaped, Crossing, Matches, LogoutPending, At, Active
<1>2. CASE Next
  <2>1. Excuse
    BY <1>2 DEF Next
  <2>2. Shaped'
    <3>1. CASE ChannelNext /\ RestOfScraper
      BY <3>1, ChannelMatch DEF MatchInv
    <3>2. CASE Scheduler \/ PollFails
      <4>1. request' = request
        BY <3>2 DEF Scheduler, PollReads, GetsCommand, DeletesCommand, ActsOnCommand, LooksForJobs,
           SchedulesNext, AddsJob, PollFails, Held, channelVars
      <4>2. QED
        BY <4>1 DEF MatchInv, Shaped
    <3>3. CASE Restart
      BY <3>3 DEF MatchInv, Shaped, Restart, Held
    <3>4. ASSUME NEW j \in Jobs, Progress(j) PROVE Shaped'
      <4>1. request' = request
        BY <3>4, ProgressTypes DEF OnlyJob
      <4>2. QED
        BY <4>1 DEF MatchInv, Shaped
    <3>5. QED
      BY <1>2, <3>1, <3>2, <3>3, <3>4 DEF Next
  <2>3. Crossing' => excused'
    BY <2>1, CrossingExcused
  <2>4. ASSUME ~excused' PROVE Matches'
    <3>1. CASE session' = 0 /\ \A j \in Jobs : ~Active(j)'
      BY <3>1, NothingLeft
    <3>2. CASE ~excused /\ ~Crossing' /\ ~Losing
      <4>1. Matches /\ (Crossing => excused) /\ Shaped
        BY <3>2 DEF MatchInv
      <4>2. CASE ChannelNext /\ RestOfScraper
        BY <3>2, <4>1, <4>2, ChannelMatch
      <4>3. CASE Scheduler \/ PollFails
        BY <3>2, <4>1, <4>3, SchedulerMatch
      <4>4. ASSUME NEW j \in Jobs, Progress(j) PROVE Matches'
        BY <3>2, <4>1, <4>4, ProgressMatch
      <4>5. CASE Restart
        BY <3>2, <4>1, <4>5, RestartMatch
      <4>6. QED
        BY <1>2, <4>2, <4>3, <4>4, <4>5 DEF Next
    <3>3. QED
      BY <2>1, <2>4, <3>1, <3>2, NotExcused
  <2>5. QED
    BY <2>2, <2>3, <2>4 DEF MatchInv
<1>3. QED
  BY <1>1, <1>2

\* A kept session is logged in with the credentials of the channel, or the command
\* that ends it is pending, unless a scrape overlapped the replacement or the
\* command was lost (scraper/index.js, channels.js, browserPool.js), with any number of
\* jobs, requests, versions of the credentials and failures.
THEOREM ScrapingSession == Spec => []SessionMatchesCredentials
<1>1. MatchInv => SessionMatchesCredentials
  BY DEF MatchInv, Matches, SessionMatchesCredentials
<1>2. QED
  BY <1>1, TypesInit, TypesStep, MatchInit, MatchStep, PTL DEF Spec

-----------------------------------------------------------------------------
(* The session of a bank that is kept in Redis (BankSession).              *)

\* Where a scrape of GoPay or BRI may be, and one of QRIS BCA.
ApiSteps == {"idle", "load", "validate", "login", "config", "saves", "fetch"}
PageSteps == {"idle", "home", "restore", "checks", "form", "dates"}

KeptRow(n) == [token : 0 .. n, merchant : BOOLEAN]
RunRow(steps, n) ==
  [pc : steps, key : {"channel", "test"}, try : Nat, config : Nat, token : 0 .. n,
   merchant : BOOLEAN, again : BOOLEAN]

StepsOf(k) == IF k \in Bank!Api THEN ApiSteps ELSE PageSteps

BankTypes ==
  /\ kind \in Kinds
  /\ issued \in Seq(Nat) /\ page \in 0 .. Len(issued)
  /\ kept \in [{"channel", "test"} -> KeptRow(Len(issued)) \cup {NoSession}]
  /\ run \in [Runs -> RunRow(StepsOf(kind), Len(issued))]
  /\ dead \subseteq 0 .. Len(issued) /\ told \subseteq dead \cup {0}
  /\ config \in Nat /\ command \in BOOLEAN /\ jobsPiled \in BOOLEAN /\ keptLate \in BOOLEAN

\* A scrape holds a token at some steps, and none when it is idle; what is kept is one.
HandsFull ==
  /\ \A r \in Runs :
       /\ run[r].pc \in {"validate", "config", "saves", "fetch"} => run[r].token # 0
       /\ run[r].pc = "idle" => run[r].token = 0
  /\ \A k \in Bank!Keys : kept[k] # NoSession => kept[k].token # 0

\* QRIS BCA has no key for test logins, one scrape at a time, and its token in the page.
PageIsOne ==
  kind \notin Bank!Api =>
    /\ kept["test"] = NoSession
    /\ \A r \in Runs : run[r].key = "channel" /\ run[r].token = 0

\* Unless a scrape was under way when the session was ended, whoever works for the
\* channel does so with its credentials.
OfConfig ==
  kind \in Bank!Api /\ ~ command /\ ~ keptLate =>
    /\ kept["channel"] # NoSession => issued[kept["channel"].token] = config
    /\ \A r \in Runs : run[r].pc # "idle" /\ run[r].key = "channel" =>
         /\ run[r].config = config
         /\ run[r].token # 0 => issued[run[r].token] = config

\* The channel and its test logins have no token in common.
KeysApart ==
  \A k, m \in Bank!Keys : k # m =>
    /\ kept[k] # NoSession /\ kept[m] # NoSession => kept[k].token # kept[m].token
    /\ \A r \in Runs : run[r].key = k /\ run[r].token # 0 =>
         /\ kept[m] # NoSession => kept[m].token # run[r].token
         /\ \A q \in Runs : run[q].key = m => run[q].token # run[r].token

\* What the bank has refused is kept no longer, nor about to be kept: while scrapes of
\* a key do not overlap, nobody else has it in hand.
RefusedGone ==
  ~ jobsPiled =>
    /\ \A k \in Bank!Keys : kept[k] # NoSession => kept[k].token \notin told
    /\ \A r \in Runs : run[r].pc = "saves" => run[r].token \notin told
    /\ \A q, r \in Runs :
         run[q].pc # "idle" /\ run[r].pc # "idle" /\ run[q].key = run[r].key => q = r

KeptInv == BankTypes /\ HandsFull /\ PageIsOne /\ OfConfig /\ KeysApart /\ RefusedGone

\* z is scrape x, further on.
Moved(z, x, steps, n, p, t) ==
  /\ z \in RunRow(steps, n) /\ z.pc = p /\ z.token = t
  /\ z.key = x.key /\ z.config = x.config

LEMMA RowTo ==
  ASSUME NEW steps, NEW n, NEW x \in RunRow(steps, n), NEW p \in steps
  PROVE  Moved([x EXCEPT !.pc = p], x, steps, n, p, x.token)
BY DEF Moved, RunRow

LEMMA RowAgain ==
  ASSUME NEW steps, NEW n, NEW x \in RunRow(steps, n), NEW p \in steps
  PROVE  Moved([x EXCEPT !.try = @ + 1, !.pc = p, !.again = FALSE], x, steps, n, p, x.token)
<1> DEFINE no == FALSE
           y == x.try + 1
           one == [x EXCEPT !.try = y]
           two == [one EXCEPT !.pc = p]
<1>1. /\ [x EXCEPT !.try = @ + 1, !.pc = p, !.again = FALSE] = [two EXCEPT !.again = no]
      /\ y \in Nat /\ no \in BOOLEAN
  BY DEF RunRow
<1> HIDE DEF no, y
<1>2. Moved(one, x, steps, n, x.pc, x.token)
  BY <1>1 DEF Moved, RunRow
<1> HIDE DEF one
<1>3. Moved(two, x, steps, n, p, x.token)
  BY <1>2 DEF Moved, RunRow
<1> HIDE DEF two
<1> QED
  BY <1>1, <1>3 DEF Moved, RunRow

LEMMA RowTakes ==
  ASSUME NEW steps, NEW n, NEW x \in RunRow(steps, n), NEW p \in steps, NEW t \in 0 .. n,
         NEW b \in BOOLEAN
  PROVE  Moved([x EXCEPT !.token = t, !.merchant = b, !.pc = p], x, steps, n, p, t)
<1> DEFINE one == [x EXCEPT !.token = t]
           two == [one EXCEPT !.merchant = b]
<1>1. [x EXCEPT !.token = t, !.merchant = b, !.pc = p] = [two EXCEPT !.pc = p]
  BY DEF RunRow
<1>2. Moved(one, x, steps, n, x.pc, t)
  BY DEF Moved, RunRow
<1> HIDE DEF one
<1>3. Moved(two, x, steps, n, x.pc, t)
  BY <1>2 DEF Moved, RunRow
<1> HIDE DEF two
<1> QED
  BY <1>1, <1>3 DEF Moved, RunRow

LEMMA RowLearns ==
  ASSUME NEW steps, NEW n, NEW x \in RunRow(steps, n), NEW p \in steps
  PROVE  Moved([x EXCEPT !.merchant = TRUE, !.pc = p], x, steps, n, p, x.token)
<1> DEFINE yes == TRUE
           one == [x EXCEPT !.merchant = yes]
<1>1. [x EXCEPT !.merchant = TRUE, !.pc = p] = [one EXCEPT !.pc = p] /\ yes \in BOOLEAN
  BY DEF RunRow
<1> HIDE DEF yes
<1>2. Moved(one, x, steps, n, x.pc, x.token)
  BY <1>1 DEF Moved, RunRow
<1> HIDE DEF one
<1> QED
  BY <1>1, <1>2 DEF Moved, RunRow

LEMMA RowNew ==
  ASSUME NEW steps, NEW n \in Nat, NEW x \in RunRow(steps, n), NEW p \in steps
  PROVE  Moved([x EXCEPT !.token = n + 1, !.pc = p], x, steps, n + 1, p, n + 1)
<1> DEFINE t == n + 1
           one == [x EXCEPT !.token = t]
<1>1. t \in 0 .. t /\ 0 .. n \subseteq 0 .. t
  OBVIOUS
<1> HIDE DEF t
<1>2. Moved(one, x, steps, t, x.pc, t)
  BY <1>1 DEF Moved, RunRow
<1>3. [x EXCEPT !.token = t, !.pc = p] = [one EXCEPT !.pc = p]
  BY DEF RunRow
<1> HIDE DEF one
<1>4. Moved([one EXCEPT !.pc = p], x, steps, t, p, t)
  BY <1>2 DEF Moved, RunRow
<1> QED
  BY <1>3, <1>4 DEF t

LEMMA RowHurries ==
  ASSUME NEW steps, NEW n, NEW x \in RunRow(steps, n), NEW p \in steps
  PROVE  Moved([[x EXCEPT !.pc = p] EXCEPT !.again = TRUE], x, steps, n, p, x.token)
<1> DEFINE yes == TRUE
           one == [x EXCEPT !.pc = p]
<1>1. [one EXCEPT !.again = TRUE] = [one EXCEPT !.again = yes] /\ yes \in BOOLEAN
  OBVIOUS
<1> HIDE DEF yes
<1>2. Moved(one, x, steps, n, p, x.token)
  BY RowTo
<1> HIDE DEF one
<1>3. Moved([one EXCEPT !.again = yes], x, steps, n, p, x.token)
  BY <1>1, <1>2 DEF Moved, RunRow
<1> QED
  BY <1>1, <1>3 DEF one

LEMMA RowIdle ==
  ASSUME NEW k, NEW n \in Nat
  PROVE  /\ Bank!Idle \in RunRow(StepsOf(k), n) /\ Bank!Idle.pc = "idle"
         /\ Bank!Idle.key = "channel" /\ Bank!Idle.token = 0
<1> DEFINE no == FALSE
<1>1. Bank!Idle = [pc |-> "idle", key |-> "channel", try |-> 0, config |-> 0, token |-> 0,
                   merchant |-> no, again |-> no] /\ no \in BOOLEAN
  BY DEF Bank!Idle
<1> HIDE DEF no
<1>2. "idle" \in StepsOf(k)
  BY DEF StepsOf, ApiSteps, PageSteps
<1> QED
  BY <1>1, <1>2 DEF RunRow

LEMMA RowGrows ==
  ASSUME NEW steps, NEW n \in Nat, NEW x \in RunRow(steps, n)
  PROVE  x \in RunRow(steps, n + 1)
BY DEF RunRow

\* What scrape r finds.
LEMMA AtWork ==
  ASSUME KeptInv, NEW r \in Runs
  PROVE  /\ Len(issued) \in Nat /\ issued \in Seq(Nat) /\ page \in 0 .. Len(issued)
         /\ run[r] \in RunRow(StepsOf(kind), Len(issued))
         /\ run[r].key \in {"channel", "test"} /\ run[r].token \in 0 .. Len(issued)
         /\ run[r].pc \in StepsOf(kind) /\ run[r].merchant \in BOOLEAN /\ run[r].config \in Nat
         /\ kept = [kept EXCEPT ![run[r].key] = kept[run[r].key]]
         /\ kept[run[r].key] \in KeptRow(Len(issued)) \cup {NoSession}
         /\ kept[run[r].key] # NoSession =>
              kept[run[r].key].token \in 1 .. Len(issued) /\ kept[run[r].key].merchant \in BOOLEAN
         /\ told \subseteq dead \cup {0} /\ dead \subseteq 0 .. Len(issued)
         /\ kind \in {"gopay", "bri", "qris_bca"}
         /\ run[r].pc # "idle" => (kind \in Bank!Api <=> run[r].pc \in ApiSteps)
<1>1. /\ run[r] \in RunRow(StepsOf(kind), Len(issued)) /\ Len(issued) \in Nat
      /\ run[r].key \in {"channel", "test"} /\ run[r].pc \in StepsOf(kind)
  BY DEF KeptInv, BankTypes, RunRow
<1>2. run[r].pc # "idle" => (kind \in Bank!Api <=> run[r].pc \in ApiSteps)
  BY <1>1 DEF StepsOf, ApiSteps, PageSteps
<1>3. kept[run[r].key] # NoSession =>
        kept[run[r].key].token \in 1 .. Len(issued) /\ kept[run[r].key].merchant \in BOOLEAN
  BY <1>1 DEF KeptInv, BankTypes, HandsFull, KeptRow, Bank!Keys
<1> QED
  BY <1>1, <1>2, <1>3, BankAssumption DEF KeptInv, BankTypes, RunRow

\* A kept session, or none.
LEMMA SessionRow ==
  ASSUME NEW n \in Nat, NEW t \in 1 .. n, NEW b \in BOOLEAN
  PROVE  /\ Bank!Session(t, b) \in KeptRow(n) /\ Bank!Session(t, b).token = t
         /\ Bank!Session(t, b) # NoSession
<1>1. Bank!Session(t, b) \in [token : Nat, merchant : BOOLEAN]
  BY DEF Bank!Session
<1> QED
  BY <1>1, BankAssumption DEF Bank!Session, KeptRow

LEMMA NewSession ==
  ASSUME NEW n \in Nat, NEW b \in BOOLEAN
  PROVE  /\ Bank!Session(n + 1, b) \in KeptRow(n + 1) /\ Bank!Session(n + 1, b).token = n + 1
         /\ Bank!Session(n + 1, b) # NoSession
<1> DEFINE m == n + 1
<1>1. m \in Nat /\ m \in 1 .. m
  OBVIOUS
<1> HIDE DEF m
<1>2. /\ Bank!Session(m, b) \in KeptRow(m) /\ Bank!Session(m, b).token = m
      /\ Bank!Session(m, b) # NoSession
  BY <1>1, SessionRow
<1> QED
  BY <1>2 DEF m

\* A token that scrape r may hold or keep: none, its own, that of its key, or a new one.
Own(r, t) ==
  \/ t = 0 \/ t > Len(issued) \/ t = run[r].token
  \/ kept[run[r].key] # NoSession /\ t = kept[run[r].key].token

\* What a step of scrape r has to see to: s is what becomes of it, v of what is kept.
Worked(r, s, v) ==
  /\ run' = [run EXCEPT ![r] = s] /\ kept' = [kept EXCEPT ![run[r].key] = v]
  /\ UNCHANGED <<kind, config, command, dead, jobsPiled, keptLate>>
  /\ page' \in 0 .. Len(issued')
  /\ issued' \in Seq(Nat) /\ Len(issued) <= Len(issued')
  /\ \A t \in 1 .. Len(issued) : issued'[t] = issued[t]
  /\ s \in RunRow(StepsOf(kind), Len(issued')) /\ Own(r, s.token)
  /\ s.pc # "idle" => s.key = run[r].key /\ s.config = run[r].config
  /\ s.pc = "idle" => s.key = "channel" /\ s.token = 0
  /\ s.pc \in {"validate", "config", "saves", "fetch"} => s.token # 0
  /\ v \in KeptRow(Len(issued')) \cup {NoSession}
  /\ v # NoSession => v.token # 0 /\ Own(r, v.token)
  /\ kind \in Bank!Api => \A t \in Len(issued) + 1 .. Len(issued') : issued'[t] = run[r].config
  /\ kind \notin Bank!Api => s.token = 0
  /\ told' \subseteq dead \cup {0} /\ told \subseteq told'
  /\ \A t \in told' \ told : kind \in Bank!Api => Own(r, t)
  /\ ~ jobsPiled =>
       /\ v # NoSession => v.token \notin told'
       /\ s.pc = "saves" => s.token \notin told'

LEMMA ScrapeKeeps ==
  ASSUME KeptInv, NEW r \in Runs, NEW s, NEW v, run[r].pc # "idle", Worked(r, s, v)
  PROVE  KeptInv'
<1> DEFINE n == Len(issued)
           m == Len(issued')
           K == run[r].key
<1>1. /\ n \in Nat /\ m \in Nat /\ n <= m
      /\ K \in {"channel", "test"} /\ run[r] \in RunRow(StepsOf(kind), n)
      /\ Bank!Keys = {"channel", "test"}
  BY DEF KeptInv, BankTypes, RunRow, Bank!Keys, Worked
<1>2. /\ \A q \in Runs : run'[q] = IF q = r THEN s ELSE run[q]
      /\ \A k \in {"channel", "test"} : kept'[k] = IF k = K THEN v ELSE kept[k]
  BY <1>1 DEF KeptInv, BankTypes, Worked
<1>3. /\ \A q \in Runs : /\ run[q] \in RunRow(StepsOf(kind), n)
                         /\ run[q].token \in 0 .. n /\ run[q].key \in {"channel", "test"}
      /\ \A k \in {"channel", "test"} :
           /\ kept[k] \in KeptRow(n) \cup {NoSession}
           /\ kept[k] # NoSession => kept[k].token \in 1 .. n
  <2>1. \A k \in {"channel", "test"} :
          /\ kept[k] \in KeptRow(n) \cup {NoSession}
          /\ kept[k] # NoSession => kept[k].token \in 1 .. n
    BY <1>1 DEF KeptInv, BankTypes, HandsFull, KeptRow
  <2> QED
    BY <2>1 DEF KeptInv, BankTypes, RunRow
<1>4. BankTypes'
  <2>1. RunRow(StepsOf(kind), n) \subseteq RunRow(StepsOf(kind), m)
    BY <1>1 DEF RunRow
  <2>2. KeptRow(n) \subseteq KeptRow(m)
    BY <1>1 DEF KeptRow
  <2>3. run' \in [Runs -> RunRow(StepsOf(kind), m)]
    BY <2>1, <1>3 DEF Worked, KeptInv, BankTypes
  <2>4. kept' \in [{"channel", "test"} -> KeptRow(m) \cup {NoSession}]
    BY <2>2, <1>3, <1>1 DEF Worked, KeptInv, BankTypes
  <2>5. dead \subseteq 0 .. m
    BY <1>1 DEF KeptInv, BankTypes
  <2> QED
    BY <2>3, <2>4, <2>5 DEF Worked, KeptInv, BankTypes
<1>5. HandsFull'
  BY <1>1, <1>2 DEF Worked, KeptInv, HandsFull
<1>6. PageIsOne'
  BY <1>1, <1>2 DEF Worked, KeptInv, PageIsOne
<1>7. OfConfig'
  <2> SUFFICES ASSUME kind \in Bank!Api, ~ command, ~ keptLate
               PROVE  /\ kept'["channel"] # NoSession => issued'[kept'["channel"].token] = config
                      /\ \A q \in Runs : run'[q].pc # "idle" /\ run'[q].key = "channel" =>
                           /\ run'[q].config = config
                           /\ run'[q].token # 0 => issued'[run'[q].token] = config
    BY DEF Worked, OfConfig
  <2>1. ASSUME NEW t \in 1 .. m, Own(r, t), K = "channel"
        PROVE  run[r].config = config /\ issued'[t] = config
    BY <1>1, <1>3, <2>1 DEF Own, Worked, KeptInv, OfConfig
  <2>2. kept'["channel"] # NoSession => issued'[kept'["channel"].token] = config
    <3>1. CASE K = "channel"
      BY <1>1, <1>2, <2>1, <3>1 DEF Worked, KeptRow
    <3>2. CASE K # "channel"
      BY <1>1, <1>2, <1>3, <3>2 DEF Worked, KeptInv, OfConfig
    <3> QED BY <3>1, <3>2
  <2>3. ASSUME NEW q \in Runs, run'[q].pc # "idle", run'[q].key = "channel"
        PROVE  /\ run'[q].config = config
               /\ run'[q].token # 0 => issued'[run'[q].token] = config
    <3>1. CASE q = r
      <4>1. run'[q] = s /\ K = "channel" /\ s.config = run[r].config /\ run[r].config = config
        BY <1>2, <2>3, <3>1 DEF Worked, KeptInv, OfConfig
      <4>2. s.token # 0 => s.token \in 1 .. m
        BY <1>1 DEF Worked, RunRow
      <4> QED BY <4>1, <4>2, <2>1 DEF Worked
    <3>2. CASE q # r
      BY <1>1, <1>2, <1>3, <2>3, <3>2 DEF Worked, KeptInv, OfConfig
    <3> QED BY <3>1, <3>2
  <2> QED BY <2>2, <2>3
\* What r may hold is nobody's of the other key.
<1>8. ASSUME NEW t \in 1 .. m, Own(r, t), NEW k \in {"channel", "test"}, k # K
      PROVE  /\ kept[k] # NoSession => kept[k].token # t
             /\ \A q \in Runs : run[q].key = k => run[q].token # t
  BY <1>1, <1>3, <1>8 DEF Own, KeptInv, KeysApart
<1>9. /\ s.token \in 0 .. m
      /\ v # NoSession => v.token \in 1 .. m
  BY <1>1 DEF Worked, RunRow, KeptRow
<1>10. KeysApart'
  <2> SUFFICES ASSUME NEW k \in {"channel", "test"}, NEW l \in {"channel", "test"}, k # l
               PROVE  /\ kept'[k] # NoSession /\ kept'[l] # NoSession => kept'[k].token # kept'[l].token
                      /\ \A q \in Runs : run'[q].key = k /\ run'[q].token # 0 =>
                           /\ kept'[l] # NoSession => kept'[l].token # run'[q].token
                           /\ \A p \in Runs : run'[p].key = l => run'[p].token # run'[q].token
    BY <1>1 DEF KeysApart
  <2>1. kept'[k] # NoSession /\ kept'[l] # NoSession => kept'[k].token # kept'[l].token
    BY <1>1, <1>2, <1>8, <1>9 DEF Worked, KeptInv, KeysApart
  <2>2. ASSUME NEW q \in Runs, run'[q].key = k, run'[q].token # 0
        PROVE  kept'[l] # NoSession => kept'[l].token # run'[q].token
    <3>1. CASE q = r
      BY <1>1, <1>2, <1>8, <1>9, <2>2, <3>1 DEF Worked
    <3>2. CASE q # r
      BY <1>1, <1>2, <1>3, <1>8, <1>9, <2>2, <3>2 DEF Worked, KeptInv, KeysApart
    <3> QED BY <3>1, <3>2
  <2>3. ASSUME NEW q \in Runs, run'[q].key = k, run'[q].token # 0, NEW p \in Runs, run'[p].key = l
        PROVE  run'[p].token # run'[q].token
    <3>1. CASE q = r
      BY <1>1, <1>2, <1>8, <1>9, <2>3, <3>1 DEF Worked
    <3>2. CASE q # r /\ p = r
      BY <1>1, <1>2, <1>3, <1>8, <1>9, <2>3, <3>2 DEF Worked
    <3>3. CASE q # r /\ p # r
      BY <1>1, <1>2, <2>3, <3>3 DEF KeptInv, KeysApart
    <3> QED BY <3>1, <3>2, <3>3
  <2> QED BY <2>1, <2>2, <2>3
<1>11. RefusedGone'
  <2> SUFFICES ASSUME ~ jobsPiled
               PROVE  /\ \A k \in {"channel", "test"} :
                           kept'[k] # NoSession => kept'[k].token \notin told'
                      /\ \A q \in Runs : run'[q].pc = "saves" => run'[q].token \notin told'
                      /\ \A p, q \in Runs :
                           run'[p].pc # "idle" /\ run'[q].pc # "idle" /\ run'[p].key = run'[q].key
                           => p = q
    BY <1>1 DEF Worked, RefusedGone
  <2>1. \A t \in told' : t \in 0 .. n
    BY DEF Worked, KeptInv, BankTypes
  <2>2. ASSUME NEW k \in {"channel", "test"}, kept'[k] # NoSession
        PROVE  kept'[k].token \notin told'
    <3>1. CASE k = K
      BY <1>2, <2>2, <3>1 DEF Worked
    <3>2. CASE k # K
      <4>1. kept'[k] = kept[k] /\ kept[k].token \in 1 .. n /\ kept[k].token \notin told
        BY <1>1, <1>2, <1>3, <2>2, <3>2 DEF KeptInv, RefusedGone
      <4>2. CASE kind \in Bank!Api
        <5>1. ASSUME kept[k].token \in told' \ told PROVE FALSE
          <6>1. Own(r, kept[k].token) /\ kept[k].token \in 1 .. m
            BY <1>1, <4>1, <4>2, <5>1 DEF Worked
          <6> QED BY <1>8, <2>2, <3>2, <4>1, <6>1
        <5> QED BY <4>1, <5>1
      <4>3. CASE kind \notin Bank!Api
        BY <1>1, <2>2, <3>2, <4>1, <4>3 DEF KeptInv, PageIsOne
      <4> QED BY <4>2, <4>3
    <3> QED BY <3>1, <3>2
  <2>3. ASSUME NEW q \in Runs, run'[q].pc = "saves"
        PROVE  run'[q].token \notin told'
    <3>1. CASE q = r
      BY <1>2, <2>3, <3>1 DEF Worked
    <3>2. CASE q # r
      <4>1. run'[q] = run[q] /\ run[q].token \in 1 .. n /\ run[q].token \notin told /\ run[q].key # K
        BY <1>1, <1>2, <1>3, <2>3, <3>2 DEF KeptInv, RefusedGone, HandsFull
      <4>2. kind \in Bank!Api
        BY <4>1 DEF KeptInv, PageIsOne
      <4>3. ASSUME run[q].token \in told' \ told PROVE FALSE
        <5>1. Own(r, run[q].token) /\ run[q].token \in 1 .. m
          BY <1>1, <4>1, <4>2, <4>3 DEF Worked
        <5> QED BY <1>3, <1>8, <4>1, <5>1
      <4> QED BY <4>1, <4>3
    <3> QED BY <3>1, <3>2
  <2>4. ASSUME NEW p \in Runs, NEW q \in Runs, run'[p].pc # "idle", run'[q].pc # "idle",
               run'[p].key = run'[q].key
        PROVE  p = q
    BY <1>2, <2>4 DEF Worked, KeptInv, RefusedGone
  <2> QED BY <2>2, <2>3, <2>4
<1> QED
  BY <1>4, <1>5, <1>6, <1>7, <1>10, <1>11 DEF KeptInv

LEMMA LoadsKeptKeeps ==
  ASSUME KeptInv, NEW r \in Runs, Bank!LoadsKept(r)
  PROVE  KeptInv'
<1> DEFINE n == Len(issued)
           x == run[r]
           old == kept[x.key]
<1>1. /\ n \in Nat /\ issued \in Seq(Nat) /\ page \in 0 .. n
      /\ x \in RunRow(StepsOf(kind), n) /\ x.key \in Bank!Keys /\ x.token \in 0 .. n
      /\ x.merchant \in BOOLEAN
      /\ kept = [kept EXCEPT ![x.key] = old] /\ old \in KeptRow(n) \cup {NoSession}
      /\ old # NoSession => old.token \in 1 .. n /\ old.merchant \in BOOLEAN
      /\ told \subseteq dead \cup {0} /\ dead \subseteq 0 .. n /\ n + 1 \notin told
  BY AtWork DEF Bank!Keys
<1>2. kind \in {"gopay", "bri"} /\ kind \in Bank!Api /\ StepsOf(kind) = ApiSteps
  BY AtWork DEF Bank!LoadsKept, StepsOf, ApiSteps, PageSteps, Bank!Api, KeptInv, PageIsOne
<1>3. /\ x.pc \in {"validate", "config", "saves", "fetch"} => x.token \in 1 .. n
      /\ ~ jobsPiled => (x.pc = "saves" => x.token \notin told)
      /\ ~ jobsPiled => (old # NoSession => old.token \notin told)
  BY <1>1 DEF KeptInv, HandsFull, RefusedGone
<1>4. CASE old = NoSession
  <2> DEFINE s == Bank!To(r, "login")
             v == old
  <2>1. Moved(s, x, StepsOf(kind), n, "login", x.token)
    BY <1>1, <1>2, RowTo DEF Bank!To, ApiSteps, PageSteps
  <2> HIDE DEF s
  <2>3. run' = [run EXCEPT ![r] = s] /\ kept' = [kept EXCEPT ![x.key] = v]
    BY <1>1, <1>4 DEF Bank!LoadsKept, Bank!Goes, s
  <2>5. UNCHANGED <<kind, config, command, dead, jobsPiled, keptLate, issued>> /\ page' \in 0 .. n
    BY <1>1, <1>4 DEF Bank!channel, Bank!history, Bank!LoadsKept, Bank!Goes
  <2>6. /\ told \subseteq told' /\ told' \subseteq dead \cup {0}
        /\ \A t \in told' \ told : kind \in Bank!Api => t = x.token
        /\ ~ jobsPiled /\ v # NoSession => v.token \notin told'
        /\ ~ jobsPiled /\ s.pc = "saves" => s.token \notin told'
    BY <1>1, <1>2, <1>3, <1>4, <2>1 DEF Moved, Bank!channel, Bank!history, Bank!LoadsKept,
       Bank!Goes
  <2>7. /\ s \in RunRow(StepsOf(kind), n) /\ Own(r, s.token) /\ (v # NoSession => Own(r, v.token) /\ v.token # 0)
        /\ (s.pc # "idle" => s.key = x.key /\ s.config = x.config)
        /\ (s.pc = "idle" => s.key = "channel" /\ s.token = 0)
        /\ (s.pc \in {"validate", "config", "saves", "fetch"} => s.token # 0)
        /\ v \in KeptRow(n) \cup {NoSession} /\ (kind \notin Bank!Api => s.token = 0)
    BY <1>1, <1>2, <1>3, <1>4, <2>1 DEF Own, Moved
  <2>8. Worked(r, s, v)
    BY <1>1, <2>3, <2>5, <2>6, <2>7 DEF Worked, Own
  <2>9. x.pc # "idle"
    BY DEF Bank!LoadsKept
  <2> QED
    BY <2>8, <2>9, ScrapeKeeps
<1>5. CASE old # NoSession
  <2> DEFINE s == [x EXCEPT !.token = old.token, !.merchant = old.merchant,
                           !.pc = IF kind = "bri" THEN "saves"
                                  ELSE IF old.merchant THEN "fetch" ELSE "validate"]
             v == old
  <2>1. Moved(s, x, StepsOf(kind), n, IF kind = "bri" THEN "saves" ELSE IF old.merchant THEN "fetch" ELSE "validate", old.token)
    <3> DEFINE p == IF kind = "bri" THEN "saves" ELSE IF old.merchant THEN "fetch" ELSE "validate"
    <3>1. p \in StepsOf(kind) /\ old.token \in 0 .. n
      BY <1>1, <1>2, <1>5 DEF ApiSteps
    <3> HIDE DEF p
    <3>2. Moved([x EXCEPT !.token = old.token, !.merchant = old.merchant, !.pc = p], x,
                StepsOf(kind), n, p, old.token)
      BY <1>1, <1>5, <3>1, RowTakes
    <3> QED BY <3>2 DEF p
  <2> HIDE DEF s
  <2>3. run' = [run EXCEPT ![r] = s] /\ kept' = [kept EXCEPT ![x.key] = v]
    BY <1>1, <1>5 DEF Bank!LoadsKept, Bank!Goes, s
  <2>5. UNCHANGED <<kind, config, command, dead, jobsPiled, keptLate, issued>> /\ page' \in 0 .. n
    BY <1>1, <1>5 DEF Bank!channel, Bank!history, Bank!LoadsKept, Bank!Goes
  <2>6. /\ told \subseteq told' /\ told' \subseteq dead \cup {0}
        /\ \A t \in told' \ told : kind \in Bank!Api => t = x.token
        /\ ~ jobsPiled /\ v # NoSession => v.token \notin told'
        /\ ~ jobsPiled /\ s.pc = "saves" => s.token \notin told'
    BY <1>1, <1>2, <1>3, <1>5, <2>1 DEF Moved, Bank!channel, Bank!history, Bank!LoadsKept,
       Bank!Goes
  <2>7. /\ s \in RunRow(StepsOf(kind), n) /\ Own(r, s.token) /\ (v # NoSession => Own(r, v.token) /\ v.token # 0)
        /\ (s.pc # "idle" => s.key = x.key /\ s.config = x.config)
        /\ (s.pc = "idle" => s.key = "channel" /\ s.token = 0)
        /\ (s.pc \in {"validate", "config", "saves", "fetch"} => s.token # 0)
        /\ v \in KeptRow(n) \cup {NoSession} /\ (kind \notin Bank!Api => s.token = 0)
    BY <1>1, <1>2, <1>3, <1>5, <2>1 DEF Own, Moved
  <2>8. Worked(r, s, v)
    BY <1>1, <2>3, <2>5, <2>6, <2>7 DEF Worked, Own
  <2>9. x.pc # "idle"
    BY DEF Bank!LoadsKept
  <2> QED
    BY <2>8, <2>9, ScrapeKeeps
<1> QED
  BY <1>1, <1>2, <1>4, <1>5 DEF Bank!LoadsKept, Bank!Goes

LEMMA ValidatesKeeps ==
  ASSUME KeptInv, NEW r \in Runs, Bank!Validates(r)
  PROVE  KeptInv'
<1> DEFINE n == Len(issued)
           x == run[r]
           old == kept[x.key]
<1>1. /\ n \in Nat /\ issued \in Seq(Nat) /\ page \in 0 .. n
      /\ x \in RunRow(StepsOf(kind), n) /\ x.key \in Bank!Keys /\ x.token \in 0 .. n
      /\ x.merchant \in BOOLEAN
      /\ kept = [kept EXCEPT ![x.key] = old] /\ old \in KeptRow(n) \cup {NoSession}
      /\ old # NoSession => old.token \in 1 .. n /\ old.merchant \in BOOLEAN
      /\ told \subseteq dead \cup {0} /\ dead \subseteq 0 .. n /\ n + 1 \notin told
  BY AtWork DEF Bank!Keys
<1>2. kind \in {"gopay", "bri"} /\ kind \in Bank!Api /\ StepsOf(kind) = ApiSteps
  BY AtWork DEF Bank!Validates, StepsOf, ApiSteps, PageSteps, Bank!Api, KeptInv, PageIsOne
<1>3. /\ x.pc \in {"validate", "config", "saves", "fetch"} => x.token \in 1 .. n
      /\ x.token \in 1 .. n
      /\ ~ jobsPiled => (x.pc = "saves" => x.token \notin told)
      /\ ~ jobsPiled => (old # NoSession => old.token \notin told)
  BY <1>1 DEF KeptInv, HandsFull, RefusedGone, Bank!Validates
<1>4. CASE Bank!Alive(x.token)
  <2> DEFINE s == Bank!To(r, "fetch")
             v == Bank!Session(x.token, TRUE)
  <2>1. Moved(s, x, StepsOf(kind), n, "fetch", x.token)
    BY <1>1, <1>2, RowTo DEF Bank!To, ApiSteps, PageSteps
  <2>2. v \in KeptRow(n) /\ v.token = x.token /\ v # NoSession
    BY <1>1, <1>3, SessionRow DEF Bank!Validates
  <2> HIDE DEF s, v
  <2>3. run' = [run EXCEPT ![r] = s] /\ kept' = [kept EXCEPT ![x.key] = v]
    BY <1>1, <1>4 DEF Bank!Validates, Bank!Goes, Bank!Keeps, Bank!Refused, s, v
  <2>5. UNCHANGED <<kind, config, command, dead, jobsPiled, keptLate, issued>> /\ page' \in 0 .. n
    BY <1>1, <1>4 DEF Bank!channel, Bank!history, Bank!Validates, Bank!Goes, Bank!Keeps,
       Bank!Refused, Bank!Alive
  <2>6. /\ told \subseteq told' /\ told' \subseteq dead \cup {0}
        /\ \A t \in told' \ told : kind \in Bank!Api => t = x.token
        /\ ~ jobsPiled /\ v # NoSession => v.token \notin told'
        /\ ~ jobsPiled /\ s.pc = "saves" => s.token \notin told'
    BY <1>1, <1>2, <1>3, <1>4, <2>1, <2>2 DEF Moved, Bank!channel, Bank!history, Bank!Validates,
       Bank!Goes, Bank!Keeps, Bank!Refused, Bank!Alive
  <2>7. /\ s \in RunRow(StepsOf(kind), n) /\ Own(r, s.token) /\ (v # NoSession => Own(r, v.token) /\ v.token # 0)
        /\ (s.pc # "idle" => s.key = x.key /\ s.config = x.config)
        /\ (s.pc = "idle" => s.key = "channel" /\ s.token = 0)
        /\ (s.pc \in {"validate", "config", "saves", "fetch"} => s.token # 0)
        /\ v \in KeptRow(n) \cup {NoSession} /\ (kind \notin Bank!Api => s.token = 0)
    BY <1>1, <1>2, <1>3, <1>4, <2>1, <2>2 DEF Own, Moved
  <2>8. Worked(r, s, v)
    BY <1>1, <2>3, <2>5, <2>6, <2>7 DEF Worked, Own
  <2>9. x.pc # "idle"
    BY DEF Bank!Validates
  <2> QED
    BY <2>8, <2>9, ScrapeKeeps
<1>5. CASE ~ Bank!Alive(x.token)
  <2> DEFINE s == Bank!To(r, "login")
             v == NoSession
  <2>1. Moved(s, x, StepsOf(kind), n, "login", x.token)
    BY <1>1, <1>2, RowTo DEF Bank!To, ApiSteps, PageSteps
  <2> HIDE DEF s
  <2>3. run' = [run EXCEPT ![r] = s] /\ kept' = [kept EXCEPT ![x.key] = v]
    BY <1>1, <1>5 DEF Bank!Validates, Bank!Goes, Bank!Keeps, Bank!Refused, s
  <2>5. UNCHANGED <<kind, config, command, dead, jobsPiled, keptLate, issued>> /\ page' \in 0 .. n
    BY <1>1, <1>5 DEF Bank!channel, Bank!history, Bank!Validates, Bank!Goes, Bank!Keeps,
       Bank!Refused, Bank!Alive
  <2>6. /\ told \subseteq told' /\ told' \subseteq dead \cup {0}
        /\ \A t \in told' \ told : kind \in Bank!Api => t = x.token
        /\ ~ jobsPiled /\ v # NoSession => v.token \notin told'
        /\ ~ jobsPiled /\ s.pc = "saves" => s.token \notin told'
    BY <1>1, <1>2, <1>3, <1>5, <2>1 DEF Moved, Bank!channel, Bank!history, Bank!Validates,
       Bank!Goes, Bank!Keeps, Bank!Refused, Bank!Alive
  <2>7. /\ s \in RunRow(StepsOf(kind), n) /\ Own(r, s.token) /\ (v # NoSession => Own(r, v.token) /\ v.token # 0)
        /\ (s.pc # "idle" => s.key = x.key /\ s.config = x.config)
        /\ (s.pc = "idle" => s.key = "channel" /\ s.token = 0)
        /\ (s.pc \in {"validate", "config", "saves", "fetch"} => s.token # 0)
        /\ v \in KeptRow(n) \cup {NoSession} /\ (kind \notin Bank!Api => s.token = 0)
    BY <1>1, <1>2, <1>3, <1>5, <2>1 DEF Own, Moved
  <2>8. Worked(r, s, v)
    BY <1>1, <2>3, <2>5, <2>6, <2>7 DEF Worked, Own
  <2>9. x.pc # "idle"
    BY DEF Bank!Validates
  <2> QED
    BY <2>8, <2>9, ScrapeKeeps
<1> QED
  BY <1>1, <1>2, <1>4, <1>5 DEF Bank!Validates, Bank!Goes, Bank!Keeps, Bank!Refused

LEMMA LogsInKeeps ==
  ASSUME KeptInv, NEW r \in Runs, Bank!LogsIn(r)
  PROVE  KeptInv'
<1> DEFINE n == Len(issued)
           x == run[r]
           old == kept[x.key]
<1>1. /\ n \in Nat /\ issued \in Seq(Nat) /\ page \in 0 .. n
      /\ x \in RunRow(StepsOf(kind), n) /\ x.key \in Bank!Keys /\ x.token \in 0 .. n
      /\ x.merchant \in BOOLEAN
      /\ kept = [kept EXCEPT ![x.key] = old] /\ old \in KeptRow(n) \cup {NoSession}
      /\ old # NoSession => old.token \in 1 .. n /\ old.merchant \in BOOLEAN
      /\ told \subseteq dead \cup {0} /\ dead \subseteq 0 .. n /\ n + 1 \notin told
  BY AtWork DEF Bank!Keys
<1>2. kind \in {"gopay", "bri"} /\ kind \in Bank!Api /\ StepsOf(kind) = ApiSteps
  BY AtWork DEF Bank!LogsIn, StepsOf, ApiSteps, PageSteps, Bank!Api, KeptInv, PageIsOne
<1>3. /\ x.pc \in {"validate", "config", "saves", "fetch"} => x.token \in 1 .. n
      /\ ~ jobsPiled => (x.pc = "saves" => x.token \notin told)
      /\ ~ jobsPiled => (old # NoSession => old.token \notin told)
  BY <1>1 DEF KeptInv, HandsFull, RefusedGone
<1>4. CASE kind = "gopay" /\ x.again
  <2> DEFINE s == Bank!Again(r, "load")
             v == Bank!Session(n + 1, FALSE)
  <2>1. Moved(s, x, StepsOf(kind), n + 1, "load", x.token)
    <3>1. Moved(s, x, StepsOf(kind), n, "load", x.token)
      BY <1>1, <1>2, RowAgain DEF Bank!Again, ApiSteps
    <3> HIDE DEF s
    <3> QED BY <1>1, <3>1, RowGrows DEF Moved
  <2>2. v \in KeptRow(n + 1) /\ v.token = n + 1 /\ v # NoSession
    BY <1>1, NewSession
  <2> HIDE DEF s, v
  <2>3. run' = [run EXCEPT ![r] = s] /\ kept' = [kept EXCEPT ![x.key] = v]
    BY <1>1, <1>4 DEF Bank!LogsIn, Bank!Goes, Bank!Keeps, s, v, Bank!New
  <2>4. /\ issued' \in Seq(Nat) /\ Len(issued') = n + 1
        /\ \A t \in 1 .. n : issued'[t] = issued[t]
        /\ issued'[n + 1] = x.config
    BY <1>1, AtWork DEF Bank!LogsIn, Bank!Goes, Bank!Keeps, Bank!New
  <2>5. UNCHANGED <<kind, config, command, dead, jobsPiled, keptLate>> /\ page' \in 0 .. n + 1
    BY <1>1, <1>4 DEF Bank!channel, Bank!history, Bank!LogsIn, Bank!Goes, Bank!Keeps, Bank!New
  <2>6. /\ told \subseteq told' /\ told' \subseteq dead \cup {0}
        /\ \A t \in told' \ told : kind \in Bank!Api => t = x.token
        /\ ~ jobsPiled /\ v # NoSession => v.token \notin told'
        /\ ~ jobsPiled /\ s.pc = "saves" => s.token \notin told'
    BY <1>1, <1>2, <1>3, <1>4, <2>1, <2>2 DEF Moved, Bank!channel, Bank!history, Bank!LogsIn,
       Bank!Goes, Bank!Keeps
  <2>7. /\ s \in RunRow(StepsOf(kind), n + 1) /\ Own(r, s.token) /\ (v # NoSession => Own(r, v.token) /\ v.token # 0)
        /\ (s.pc # "idle" => s.key = x.key /\ s.config = x.config)
        /\ (s.pc = "idle" => s.key = "channel" /\ s.token = 0)
        /\ (s.pc \in {"validate", "config", "saves", "fetch"} => s.token # 0)
        /\ v \in KeptRow(n + 1) \cup {NoSession} /\ (kind \notin Bank!Api => s.token = 0)
    BY <1>1, <1>2, <1>3, <1>4, <2>1, <2>2 DEF Own, Moved
  <2>8. Worked(r, s, v)
    BY <1>1, <2>3, <2>4, <2>5, <2>6, <2>7 DEF Worked, Own
  <2>9. x.pc # "idle"
    BY DEF Bank!LogsIn
  <2> QED
    BY <2>8, <2>9, ScrapeKeeps
<1>5. CASE kind = "gopay" /\ ~ x.again
  <2> DEFINE s == [x EXCEPT !.token = Bank!New, !.pc = "config"]
             v == Bank!Session(n + 1, FALSE)
  <2>1. Moved(s, x, StepsOf(kind), n + 1, "config", n + 1)
    BY <1>1, <1>2, RowNew DEF Bank!New, ApiSteps
  <2>2. v \in KeptRow(n + 1) /\ v.token = n + 1 /\ v # NoSession
    BY <1>1, NewSession
  <2> HIDE DEF s, v
  <2>3. run' = [run EXCEPT ![r] = s] /\ kept' = [kept EXCEPT ![x.key] = v]
    BY <1>1, <1>5 DEF Bank!LogsIn, Bank!Goes, Bank!Keeps, s, v, Bank!New
  <2>4. /\ issued' \in Seq(Nat) /\ Len(issued') = n + 1
        /\ \A t \in 1 .. n : issued'[t] = issued[t]
        /\ issued'[n + 1] = x.config
    BY <1>1, AtWork DEF Bank!LogsIn, Bank!Goes, Bank!Keeps, Bank!New
  <2>5. UNCHANGED <<kind, config, command, dead, jobsPiled, keptLate>> /\ page' \in 0 .. n + 1
    BY <1>1, <1>5 DEF Bank!channel, Bank!history, Bank!LogsIn, Bank!Goes, Bank!Keeps, Bank!New
  <2>6. /\ told \subseteq told' /\ told' \subseteq dead \cup {0}
        /\ \A t \in told' \ told : kind \in Bank!Api => t = x.token
        /\ ~ jobsPiled /\ v # NoSession => v.token \notin told'
        /\ ~ jobsPiled /\ s.pc = "saves" => s.token \notin told'
    BY <1>1, <1>2, <1>3, <1>5, <2>1, <2>2 DEF Moved, Bank!channel, Bank!history, Bank!LogsIn,
       Bank!Goes, Bank!Keeps
  <2>7. /\ s \in RunRow(StepsOf(kind), n + 1) /\ Own(r, s.token) /\ (v # NoSession => Own(r, v.token) /\ v.token # 0)
        /\ (s.pc # "idle" => s.key = x.key /\ s.config = x.config)
        /\ (s.pc = "idle" => s.key = "channel" /\ s.token = 0)
        /\ (s.pc \in {"validate", "config", "saves", "fetch"} => s.token # 0)
        /\ v \in KeptRow(n + 1) \cup {NoSession} /\ (kind \notin Bank!Api => s.token = 0)
    BY <1>1, <1>2, <1>3, <1>5, <2>1, <2>2 DEF Own, Moved
  <2>8. Worked(r, s, v)
    BY <1>1, <2>3, <2>4, <2>5, <2>6, <2>7 DEF Worked, Own
  <2>9. x.pc # "idle"
    BY DEF Bank!LogsIn
  <2> QED
    BY <2>8, <2>9, ScrapeKeeps
<1>6. CASE kind # "gopay" /\ x.again
  <2> DEFINE s == Bank!Again(r, "load")
             v == old
  <2>1. Moved(s, x, StepsOf(kind), n + 1, "load", x.token)
    <3>1. Moved(s, x, StepsOf(kind), n, "load", x.token)
      BY <1>1, <1>2, RowAgain DEF Bank!Again, ApiSteps
    <3> HIDE DEF s
    <3> QED BY <1>1, <3>1, RowGrows DEF Moved
  <2>2. v \in KeptRow(n + 1) \cup {NoSession} /\ v = old
    BY <1>1 DEF KeptRow
  <2> HIDE DEF s, v
  <2>3. run' = [run EXCEPT ![r] = s] /\ kept' = [kept EXCEPT ![x.key] = v]
    BY <1>1, <1>6 DEF Bank!LogsIn, Bank!Goes, Bank!Keeps, s, v, Bank!New
  <2>4. /\ issued' \in Seq(Nat) /\ Len(issued') = n + 1
        /\ \A t \in 1 .. n : issued'[t] = issued[t]
        /\ issued'[n + 1] = x.config
    BY <1>1, AtWork DEF Bank!LogsIn, Bank!Goes, Bank!Keeps, Bank!New
  <2>5. UNCHANGED <<kind, config, command, dead, jobsPiled, keptLate>> /\ page' \in 0 .. n + 1
    BY <1>1, <1>6 DEF Bank!channel, Bank!history, Bank!LogsIn, Bank!Goes, Bank!Keeps, Bank!New
  <2>6. /\ told \subseteq told' /\ told' \subseteq dead \cup {0}
        /\ \A t \in told' \ told : kind \in Bank!Api => t = x.token
        /\ ~ jobsPiled /\ v # NoSession => v.token \notin told'
        /\ ~ jobsPiled /\ s.pc = "saves" => s.token \notin told'
    BY <1>1, <1>2, <1>3, <1>6, <2>1, <2>2 DEF Moved, Bank!channel, Bank!history, Bank!LogsIn,
       Bank!Goes, Bank!Keeps
  <2>7. /\ s \in RunRow(StepsOf(kind), n + 1) /\ Own(r, s.token) /\ (v # NoSession => Own(r, v.token) /\ v.token # 0)
        /\ (s.pc # "idle" => s.key = x.key /\ s.config = x.config)
        /\ (s.pc = "idle" => s.key = "channel" /\ s.token = 0)
        /\ (s.pc \in {"validate", "config", "saves", "fetch"} => s.token # 0)
        /\ v \in KeptRow(n + 1) \cup {NoSession} /\ (kind \notin Bank!Api => s.token = 0)
    BY <1>1, <1>2, <1>3, <1>6, <2>1, <2>2 DEF Own, Moved
  <2>8. Worked(r, s, v)
    BY <1>1, <2>3, <2>4, <2>5, <2>6, <2>7 DEF Worked, Own
  <2>9. x.pc # "idle"
    BY DEF Bank!LogsIn
  <2> QED
    BY <2>8, <2>9, ScrapeKeeps
<1>7. CASE kind # "gopay" /\ ~ x.again
  <2> DEFINE s == [x EXCEPT !.token = Bank!New, !.pc = "config"]
             v == old
  <2>1. Moved(s, x, StepsOf(kind), n + 1, "config", n + 1)
    BY <1>1, <1>2, RowNew DEF Bank!New, ApiSteps
  <2>2. v \in KeptRow(n + 1) \cup {NoSession} /\ v = old
    BY <1>1 DEF KeptRow
  <2> HIDE DEF s, v
  <2>3. run' = [run EXCEPT ![r] = s] /\ kept' = [kept EXCEPT ![x.key] = v]
    BY <1>1, <1>7 DEF Bank!LogsIn, Bank!Goes, Bank!Keeps, s, v, Bank!New
  <2>4. /\ issued' \in Seq(Nat) /\ Len(issued') = n + 1
        /\ \A t \in 1 .. n : issued'[t] = issued[t]
        /\ issued'[n + 1] = x.config
    BY <1>1, AtWork DEF Bank!LogsIn, Bank!Goes, Bank!Keeps, Bank!New
  <2>5. UNCHANGED <<kind, config, command, dead, jobsPiled, keptLate>> /\ page' \in 0 .. n + 1
    BY <1>1, <1>7 DEF Bank!channel, Bank!history, Bank!LogsIn, Bank!Goes, Bank!Keeps, Bank!New
  <2>6. /\ told \subseteq told' /\ told' \subseteq dead \cup {0}
        /\ \A t \in told' \ told : kind \in Bank!Api => t = x.token
        /\ ~ jobsPiled /\ v # NoSession => v.token \notin told'
        /\ ~ jobsPiled /\ s.pc = "saves" => s.token \notin told'
    BY <1>1, <1>2, <1>3, <1>7, <2>1, <2>2 DEF Moved, Bank!channel, Bank!history, Bank!LogsIn,
       Bank!Goes, Bank!Keeps
  <2>7. /\ s \in RunRow(StepsOf(kind), n + 1) /\ Own(r, s.token) /\ (v # NoSession => Own(r, v.token) /\ v.token # 0)
        /\ (s.pc # "idle" => s.key = x.key /\ s.config = x.config)
        /\ (s.pc = "idle" => s.key = "channel" /\ s.token = 0)
        /\ (s.pc \in {"validate", "config", "saves", "fetch"} => s.token # 0)
        /\ v \in KeptRow(n + 1) \cup {NoSession} /\ (kind \notin Bank!Api => s.token = 0)
    BY <1>1, <1>2, <1>3, <1>7, <2>1, <2>2 DEF Own, Moved
  <2>8. Worked(r, s, v)
    BY <1>1, <2>3, <2>4, <2>5, <2>6, <2>7 DEF Worked, Own
  <2>9. x.pc # "idle"
    BY DEF Bank!LogsIn
  <2> QED
    BY <2>8, <2>9, ScrapeKeeps
<1> QED
  BY <1>1, <1>2, <1>4, <1>5, <1>6, <1>7 DEF Bank!LogsIn, Bank!Goes, Bank!Keeps

LEMMA LoginRefusedKeeps ==
  ASSUME KeptInv, NEW r \in Runs, Bank!LoginRefused(r)
  PROVE  KeptInv'
<1> DEFINE n == Len(issued)
           x == run[r]
           old == kept[x.key]
<1>1. /\ n \in Nat /\ issued \in Seq(Nat) /\ page \in 0 .. n
      /\ x \in RunRow(StepsOf(kind), n) /\ x.key \in Bank!Keys /\ x.token \in 0 .. n
      /\ x.merchant \in BOOLEAN
      /\ kept = [kept EXCEPT ![x.key] = old] /\ old \in KeptRow(n) \cup {NoSession}
      /\ old # NoSession => old.token \in 1 .. n /\ old.merchant \in BOOLEAN
      /\ told \subseteq dead \cup {0} /\ dead \subseteq 0 .. n /\ n + 1 \notin told
  BY AtWork DEF Bank!Keys
<1>2. kind \in {"gopay", "bri"} /\ kind \in Bank!Api /\ StepsOf(kind) = ApiSteps
  BY AtWork DEF Bank!LoginRefused, StepsOf, ApiSteps, PageSteps, Bank!Api, KeptInv, PageIsOne
<1>3. /\ x.pc \in {"validate", "config", "saves", "fetch"} => x.token \in 1 .. n
      /\ ~ jobsPiled => (x.pc = "saves" => x.token \notin told)
      /\ ~ jobsPiled => (old # NoSession => old.token \notin told)
  BY <1>1 DEF KeptInv, HandsFull, RefusedGone
<1>4. CASE TRUE
  <2> DEFINE s == Bank!Idle
             v == old
  <2>1. s \in RunRow(StepsOf(kind), n) /\ s.pc = "idle" /\ s.key = "channel" /\ s.token = 0
    BY <1>1, RowIdle
  <2> HIDE DEF s
  <2>3. run' = [run EXCEPT ![r] = s] /\ kept' = [kept EXCEPT ![x.key] = v]
    BY <1>1, <1>4 DEF Bank!LoginRefused, Bank!Goes, Bank!Ends, s
  <2>5. UNCHANGED <<kind, config, command, dead, jobsPiled, keptLate, issued>> /\ page' \in 0 .. n
    BY <1>1, <1>4 DEF Bank!channel, Bank!history, Bank!LoginRefused, Bank!Goes, Bank!Ends
  <2>6. /\ told \subseteq told' /\ told' \subseteq dead \cup {0}
        /\ \A t \in told' \ told : kind \in Bank!Api => t = x.token
        /\ ~ jobsPiled /\ v # NoSession => v.token \notin told'
        /\ ~ jobsPiled /\ s.pc = "saves" => s.token \notin told'
    BY <1>1, <1>2, <1>3, <1>4, <2>1 DEF Moved, Bank!channel, Bank!history, Bank!LoginRefused,
       Bank!Goes, Bank!Ends
  <2>7. /\ s \in RunRow(StepsOf(kind), n) /\ Own(r, s.token) /\ (v # NoSession => Own(r, v.token) /\ v.token # 0)
        /\ (s.pc # "idle" => s.key = x.key /\ s.config = x.config)
        /\ (s.pc = "idle" => s.key = "channel" /\ s.token = 0)
        /\ (s.pc \in {"validate", "config", "saves", "fetch"} => s.token # 0)
        /\ v \in KeptRow(n) \cup {NoSession} /\ (kind \notin Bank!Api => s.token = 0)
    BY <1>1, <1>2, <1>3, <1>4, <2>1 DEF Own, Moved
  <2>8. Worked(r, s, v)
    BY <1>1, <2>3, <2>5, <2>6, <2>7 DEF Worked, Own
  <2>9. x.pc # "idle"
    BY DEF Bank!LoginRefused
  <2> QED
    BY <2>8, <2>9, ScrapeKeeps
<1> QED
  BY <1>1, <1>2, <1>4 DEF Bank!LoginRefused, Bank!Goes, Bank!Ends

LEMMA LearnsMerchantKeeps ==
  ASSUME KeptInv, NEW r \in Runs, Bank!LearnsMerchant(r)
  PROVE  KeptInv'
<1> DEFINE n == Len(issued)
           x == run[r]
           old == kept[x.key]
<1>1. /\ n \in Nat /\ issued \in Seq(Nat) /\ page \in 0 .. n
      /\ x \in RunRow(StepsOf(kind), n) /\ x.key \in Bank!Keys /\ x.token \in 0 .. n
      /\ x.merchant \in BOOLEAN
      /\ kept = [kept EXCEPT ![x.key] = old] /\ old \in KeptRow(n) \cup {NoSession}
      /\ old # NoSession => old.token \in 1 .. n /\ old.merchant \in BOOLEAN
      /\ told \subseteq dead \cup {0} /\ dead \subseteq 0 .. n /\ n + 1 \notin told
  BY AtWork DEF Bank!Keys
<1>2. kind \in {"gopay", "bri"} /\ kind \in Bank!Api /\ StepsOf(kind) = ApiSteps
  BY AtWork DEF Bank!LearnsMerchant, StepsOf, ApiSteps, PageSteps, Bank!Api, KeptInv, PageIsOne
<1>3. /\ x.pc \in {"validate", "config", "saves", "fetch"} => x.token \in 1 .. n
      /\ x.token \in 1 .. n
      /\ ~ jobsPiled => (x.pc = "saves" => x.token \notin told)
      /\ ~ jobsPiled => (old # NoSession => old.token \notin told)
  BY <1>1 DEF KeptInv, HandsFull, RefusedGone, Bank!LearnsMerchant
<1>4. CASE /\ Bank!Alive(x.token) /\ kind = "bri"
           /\ Bank!Goes(r, [x EXCEPT !.merchant = TRUE, !.pc = "saves"])
  <2> DEFINE s == [x EXCEPT !.merchant = TRUE, !.pc = "saves"]
             v == old
  <2>1. Moved(s, x, StepsOf(kind), n, "saves", x.token)
    BY <1>1, <1>2, RowLearns DEF ApiSteps
  <2> HIDE DEF s
  <2>3. run' = [run EXCEPT ![r] = s] /\ kept' = [kept EXCEPT ![x.key] = v]
    BY <1>1, <1>4 DEF Bank!LearnsMerchant, Bank!Goes, Bank!Keeps, Bank!Refused, Bank!Ends, s
  <2>5. UNCHANGED <<kind, config, command, dead, jobsPiled, keptLate, issued>> /\ page' \in 0 .. n
    BY <1>1, <1>4 DEF Bank!channel, Bank!history, Bank!LearnsMerchant, Bank!Goes, Bank!Keeps,
       Bank!Refused, Bank!Ends, Bank!Alive
  <2>6. /\ told \subseteq told' /\ told' \subseteq dead \cup {0}
        /\ \A t \in told' \ told : kind \in Bank!Api => t = x.token
        /\ ~ jobsPiled /\ v # NoSession => v.token \notin told'
        /\ ~ jobsPiled /\ s.pc = "saves" => s.token \notin told'
    BY <1>1, <1>2, <1>3, <1>4, <2>1 DEF Moved, Bank!channel, Bank!history, Bank!LearnsMerchant,
       Bank!Goes, Bank!Keeps, Bank!Refused, Bank!Ends, Bank!Alive
  <2>7. /\ s \in RunRow(StepsOf(kind), n) /\ Own(r, s.token) /\ (v # NoSession => Own(r, v.token) /\ v.token # 0)
        /\ (s.pc # "idle" => s.key = x.key /\ s.config = x.config)
        /\ (s.pc = "idle" => s.key = "channel" /\ s.token = 0)
        /\ (s.pc \in {"validate", "config", "saves", "fetch"} => s.token # 0)
        /\ v \in KeptRow(n) \cup {NoSession} /\ (kind \notin Bank!Api => s.token = 0)
    BY <1>1, <1>2, <1>3, <1>4, <2>1 DEF Own, Moved
  <2>8. Worked(r, s, v)
    BY <1>1, <2>3, <2>5, <2>6, <2>7 DEF Worked, Own
  <2>9. x.pc # "idle"
    BY DEF Bank!LearnsMerchant
  <2> QED
    BY <2>8, <2>9, ScrapeKeeps
<1>5. CASE /\ Bank!Alive(x.token) /\ kind = "gopay"
           /\ Bank!Goes(r, [x EXCEPT !.merchant = TRUE, !.pc = "fetch"])
  <2> DEFINE s == [x EXCEPT !.merchant = TRUE, !.pc = "fetch"]
             v == Bank!Session(x.token, TRUE)
  <2>1. Moved(s, x, StepsOf(kind), n, "fetch", x.token)
    BY <1>1, <1>2, RowLearns DEF ApiSteps
  <2>2. v \in KeptRow(n) /\ v.token = x.token /\ v # NoSession
    BY <1>1, <1>3, SessionRow DEF Bank!LearnsMerchant
  <2> HIDE DEF s, v
  <2>3. run' = [run EXCEPT ![r] = s] /\ kept' = [kept EXCEPT ![x.key] = v]
    BY <1>1, <1>5 DEF Bank!LearnsMerchant, Bank!Goes, Bank!Keeps, Bank!Refused, Bank!Ends, s, v
  <2>5. UNCHANGED <<kind, config, command, dead, jobsPiled, keptLate, issued>> /\ page' \in 0 .. n
    BY <1>1, <1>5 DEF Bank!channel, Bank!history, Bank!LearnsMerchant, Bank!Goes, Bank!Keeps,
       Bank!Refused, Bank!Ends, Bank!Alive
  <2>6. /\ told \subseteq told' /\ told' \subseteq dead \cup {0}
        /\ \A t \in told' \ told : kind \in Bank!Api => t = x.token
        /\ ~ jobsPiled /\ v # NoSession => v.token \notin told'
        /\ ~ jobsPiled /\ s.pc = "saves" => s.token \notin told'
    BY <1>1, <1>2, <1>3, <1>5, <2>1, <2>2 DEF Moved, Bank!channel, Bank!history,
       Bank!LearnsMerchant, Bank!Goes, Bank!Keeps, Bank!Refused, Bank!Ends, Bank!Alive
  <2>7. /\ s \in RunRow(StepsOf(kind), n) /\ Own(r, s.token) /\ (v # NoSession => Own(r, v.token) /\ v.token # 0)
        /\ (s.pc # "idle" => s.key = x.key /\ s.config = x.config)
        /\ (s.pc = "idle" => s.key = "channel" /\ s.token = 0)
        /\ (s.pc \in {"validate", "config", "saves", "fetch"} => s.token # 0)
        /\ v \in KeptRow(n) \cup {NoSession} /\ (kind \notin Bank!Api => s.token = 0)
    BY <1>1, <1>2, <1>3, <1>5, <2>1, <2>2 DEF Own, Moved
  <2>8. Worked(r, s, v)
    BY <1>1, <2>3, <2>5, <2>6, <2>7 DEF Worked, Own
  <2>9. x.pc # "idle"
    BY DEF Bank!LearnsMerchant
  <2> QED
    BY <2>8, <2>9, ScrapeKeeps
<1>6. CASE Bank!Alive(x.token) /\ kind = "bri" /\ Bank!Goes(r, Bank!To(r, "saves"))
  <2> DEFINE s == Bank!To(r, "saves")
             v == old
  <2>1. Moved(s, x, StepsOf(kind), n, "saves", x.token)
    BY <1>1, <1>2, RowTo DEF Bank!To, ApiSteps, PageSteps
  <2> HIDE DEF s
  <2>3. run' = [run EXCEPT ![r] = s] /\ kept' = [kept EXCEPT ![x.key] = v]
    BY <1>1, <1>6 DEF Bank!LearnsMerchant, Bank!Goes, Bank!Keeps, Bank!Refused, Bank!Ends, s
  <2>5. UNCHANGED <<kind, config, command, dead, jobsPiled, keptLate, issued>> /\ page' \in 0 .. n
    BY <1>1, <1>6 DEF Bank!channel, Bank!history, Bank!LearnsMerchant, Bank!Goes, Bank!Keeps,
       Bank!Refused, Bank!Ends, Bank!Alive
  <2>6. /\ told \subseteq told' /\ told' \subseteq dead \cup {0}
        /\ \A t \in told' \ told : kind \in Bank!Api => t = x.token
        /\ ~ jobsPiled /\ v # NoSession => v.token \notin told'
        /\ ~ jobsPiled /\ s.pc = "saves" => s.token \notin told'
    BY <1>1, <1>2, <1>3, <1>6, <2>1 DEF Moved, Bank!channel, Bank!history, Bank!LearnsMerchant,
       Bank!Goes, Bank!Keeps, Bank!Refused, Bank!Ends, Bank!Alive
  <2>7. /\ s \in RunRow(StepsOf(kind), n) /\ Own(r, s.token) /\ (v # NoSession => Own(r, v.token) /\ v.token # 0)
        /\ (s.pc # "idle" => s.key = x.key /\ s.config = x.config)
        /\ (s.pc = "idle" => s.key = "channel" /\ s.token = 0)
        /\ (s.pc \in {"validate", "config", "saves", "fetch"} => s.token # 0)
        /\ v \in KeptRow(n) \cup {NoSession} /\ (kind \notin Bank!Api => s.token = 0)
    BY <1>1, <1>2, <1>3, <1>6, <2>1 DEF Own, Moved
  <2>8. Worked(r, s, v)
    BY <1>1, <2>3, <2>5, <2>6, <2>7 DEF Worked, Own
  <2>9. x.pc # "idle"
    BY DEF Bank!LearnsMerchant
  <2> QED
    BY <2>8, <2>9, ScrapeKeeps
<1>7. CASE ~ Bank!Alive(x.token) /\ kind = "bri"
  <2> DEFINE s == Bank!Idle
             v == NoSession
  <2>1. s \in RunRow(StepsOf(kind), n) /\ s.pc = "idle" /\ s.key = "channel" /\ s.token = 0
    BY <1>1, RowIdle
  <2> HIDE DEF s
  <2>3. run' = [run EXCEPT ![r] = s] /\ kept' = [kept EXCEPT ![x.key] = v]
    BY <1>1, <1>7 DEF Bank!LearnsMerchant, Bank!Goes, Bank!Keeps, Bank!Refused, Bank!Ends, s
  <2>5. UNCHANGED <<kind, config, command, dead, jobsPiled, keptLate, issued>> /\ page' \in 0 .. n
    BY <1>1, <1>7 DEF Bank!channel, Bank!history, Bank!LearnsMerchant, Bank!Goes, Bank!Keeps,
       Bank!Refused, Bank!Ends, Bank!Alive
  <2>6. /\ told \subseteq told' /\ told' \subseteq dead \cup {0}
        /\ \A t \in told' \ told : kind \in Bank!Api => t = x.token
        /\ ~ jobsPiled /\ v # NoSession => v.token \notin told'
        /\ ~ jobsPiled /\ s.pc = "saves" => s.token \notin told'
    BY <1>1, <1>2, <1>3, <1>7, <2>1 DEF Moved, Bank!channel, Bank!history, Bank!LearnsMerchant,
       Bank!Goes, Bank!Keeps, Bank!Refused, Bank!Ends, Bank!Alive
  <2>7. /\ s \in RunRow(StepsOf(kind), n) /\ Own(r, s.token) /\ (v # NoSession => Own(r, v.token) /\ v.token # 0)
        /\ (s.pc # "idle" => s.key = x.key /\ s.config = x.config)
        /\ (s.pc = "idle" => s.key = "channel" /\ s.token = 0)
        /\ (s.pc \in {"validate", "config", "saves", "fetch"} => s.token # 0)
        /\ v \in KeptRow(n) \cup {NoSession} /\ (kind \notin Bank!Api => s.token = 0)
    BY <1>1, <1>2, <1>3, <1>7, <2>1 DEF Own, Moved
  <2>8. Worked(r, s, v)
    BY <1>1, <2>3, <2>5, <2>6, <2>7 DEF Worked, Own
  <2>9. x.pc # "idle"
    BY DEF Bank!LearnsMerchant
  <2> QED
    BY <2>8, <2>9, ScrapeKeeps
<1>8. CASE ~ Bank!Alive(x.token) /\ kind = "gopay"
  <2> DEFINE s == Bank!Idle
             v == old
  <2>1. s \in RunRow(StepsOf(kind), n) /\ s.pc = "idle" /\ s.key = "channel" /\ s.token = 0
    BY <1>1, RowIdle
  <2> HIDE DEF s
  <2>3. run' = [run EXCEPT ![r] = s] /\ kept' = [kept EXCEPT ![x.key] = v]
    BY <1>1, <1>8 DEF Bank!LearnsMerchant, Bank!Goes, Bank!Keeps, Bank!Refused, Bank!Ends, s
  <2>5. UNCHANGED <<kind, config, command, dead, jobsPiled, keptLate, issued>> /\ page' \in 0 .. n
    BY <1>1, <1>8 DEF Bank!channel, Bank!history, Bank!LearnsMerchant, Bank!Goes, Bank!Keeps,
       Bank!Refused, Bank!Ends, Bank!Alive
  <2>6. /\ told \subseteq told' /\ told' \subseteq dead \cup {0}
        /\ \A t \in told' \ told : kind \in Bank!Api => t = x.token
        /\ ~ jobsPiled /\ v # NoSession => v.token \notin told'
        /\ ~ jobsPiled /\ s.pc = "saves" => s.token \notin told'
    BY <1>1, <1>2, <1>3, <1>8, <2>1 DEF Moved, Bank!channel, Bank!history, Bank!LearnsMerchant,
       Bank!Goes, Bank!Keeps, Bank!Refused, Bank!Ends, Bank!Alive
  <2>7. /\ s \in RunRow(StepsOf(kind), n) /\ Own(r, s.token) /\ (v # NoSession => Own(r, v.token) /\ v.token # 0)
        /\ (s.pc # "idle" => s.key = x.key /\ s.config = x.config)
        /\ (s.pc = "idle" => s.key = "channel" /\ s.token = 0)
        /\ (s.pc \in {"validate", "config", "saves", "fetch"} => s.token # 0)
        /\ v \in KeptRow(n) \cup {NoSession} /\ (kind \notin Bank!Api => s.token = 0)
    BY <1>1, <1>2, <1>3, <1>8, <2>1 DEF Own, Moved
  <2>8. Worked(r, s, v)
    BY <1>1, <2>3, <2>5, <2>6, <2>7 DEF Worked, Own
  <2>9. x.pc # "idle"
    BY DEF Bank!LearnsMerchant
  <2> QED
    BY <2>8, <2>9, ScrapeKeeps
<1> QED
  BY <1>1, <1>2, <1>4, <1>5, <1>6, <1>7, <1>8 DEF Bank!LearnsMerchant, Bank!Goes, Bank!Keeps,
     Bank!Refused, Bank!Ends

LEMMA SavesSessionKeeps ==
  ASSUME KeptInv, NEW r \in Runs, Bank!SavesSession(r)
  PROVE  KeptInv'
<1> DEFINE n == Len(issued)
           x == run[r]
           old == kept[x.key]
<1>1. /\ n \in Nat /\ issued \in Seq(Nat) /\ page \in 0 .. n
      /\ x \in RunRow(StepsOf(kind), n) /\ x.key \in Bank!Keys /\ x.token \in 0 .. n
      /\ x.merchant \in BOOLEAN
      /\ kept = [kept EXCEPT ![x.key] = old] /\ old \in KeptRow(n) \cup {NoSession}
      /\ old # NoSession => old.token \in 1 .. n /\ old.merchant \in BOOLEAN
      /\ told \subseteq dead \cup {0} /\ dead \subseteq 0 .. n /\ n + 1 \notin told
  BY AtWork DEF Bank!Keys
<1>2. kind \in {"gopay", "bri"} /\ kind \in Bank!Api /\ StepsOf(kind) = ApiSteps
  BY AtWork DEF Bank!SavesSession, StepsOf, ApiSteps, PageSteps, Bank!Api, KeptInv, PageIsOne
<1>3. /\ x.pc \in {"validate", "config", "saves", "fetch"} => x.token \in 1 .. n
      /\ x.token \in 1 .. n
      /\ ~ jobsPiled => (x.pc = "saves" => x.token \notin told)
      /\ ~ jobsPiled => (old # NoSession => old.token \notin told)
  BY <1>1 DEF KeptInv, HandsFull, RefusedGone, Bank!SavesSession
<1>4. CASE x.merchant
  <2> DEFINE s == Bank!To(r, "fetch")
             v == Bank!Session(x.token, x.merchant)
  <2>1. Moved(s, x, StepsOf(kind), n, "fetch", x.token)
    BY <1>1, <1>2, RowTo DEF Bank!To, ApiSteps, PageSteps
  <2>2. v \in KeptRow(n) /\ v.token = x.token /\ v # NoSession
    BY <1>1, <1>3, SessionRow DEF Bank!SavesSession
  <2> HIDE DEF s, v
  <2>3. run' = [run EXCEPT ![r] = s] /\ kept' = [kept EXCEPT ![x.key] = v]
    BY <1>1, <1>4 DEF Bank!SavesSession, Bank!Goes, Bank!Keeps, Bank!Ends, s, v
  <2>5. UNCHANGED <<kind, config, command, dead, jobsPiled, keptLate, issued>> /\ page' \in 0 .. n
    BY <1>1, <1>4 DEF Bank!channel, Bank!history, Bank!SavesSession, Bank!Goes, Bank!Keeps,
       Bank!Ends
  <2>6. /\ told \subseteq told' /\ told' \subseteq dead \cup {0}
        /\ \A t \in told' \ told : kind \in Bank!Api => t = x.token
        /\ ~ jobsPiled /\ v # NoSession => v.token \notin told'
        /\ ~ jobsPiled /\ s.pc = "saves" => s.token \notin told'
    BY <1>1, <1>2, <1>3, <1>4, <2>1, <2>2 DEF Moved, Bank!channel, Bank!history,
       Bank!SavesSession, Bank!Goes, Bank!Keeps, Bank!Ends
  <2>7. /\ s \in RunRow(StepsOf(kind), n) /\ Own(r, s.token) /\ (v # NoSession => Own(r, v.token) /\ v.token # 0)
        /\ (s.pc # "idle" => s.key = x.key /\ s.config = x.config)
        /\ (s.pc = "idle" => s.key = "channel" /\ s.token = 0)
        /\ (s.pc \in {"validate", "config", "saves", "fetch"} => s.token # 0)
        /\ v \in KeptRow(n) \cup {NoSession} /\ (kind \notin Bank!Api => s.token = 0)
    BY <1>1, <1>2, <1>3, <1>4, <2>1, <2>2 DEF Own, Moved
  <2>8. Worked(r, s, v)
    BY <1>1, <2>3, <2>5, <2>6, <2>7 DEF Worked, Own
  <2>9. x.pc # "idle"
    BY DEF Bank!SavesSession
  <2> QED
    BY <2>8, <2>9, ScrapeKeeps
<1>5. CASE ~ x.merchant
  <2> DEFINE s == Bank!Idle
             v == Bank!Session(x.token, x.merchant)
  <2>1. s \in RunRow(StepsOf(kind), n) /\ s.pc = "idle" /\ s.key = "channel" /\ s.token = 0
    BY <1>1, RowIdle
  <2>2. v \in KeptRow(n) /\ v.token = x.token /\ v # NoSession
    BY <1>1, <1>3, SessionRow DEF Bank!SavesSession
  <2> HIDE DEF s, v
  <2>3. run' = [run EXCEPT ![r] = s] /\ kept' = [kept EXCEPT ![x.key] = v]
    BY <1>1, <1>5 DEF Bank!SavesSession, Bank!Goes, Bank!Keeps, Bank!Ends, s, v
  <2>5. UNCHANGED <<kind, config, command, dead, jobsPiled, keptLate, issued>> /\ page' \in 0 .. n
    BY <1>1, <1>5 DEF Bank!channel, Bank!history, Bank!SavesSession, Bank!Goes, Bank!Keeps,
       Bank!Ends
  <2>6. /\ told \subseteq told' /\ told' \subseteq dead \cup {0}
        /\ \A t \in told' \ told : kind \in Bank!Api => t = x.token
        /\ ~ jobsPiled /\ v # NoSession => v.token \notin told'
        /\ ~ jobsPiled /\ s.pc = "saves" => s.token \notin told'
    BY <1>1, <1>2, <1>3, <1>5, <2>1, <2>2 DEF Moved, Bank!channel, Bank!history,
       Bank!SavesSession, Bank!Goes, Bank!Keeps, Bank!Ends
  <2>7. /\ s \in RunRow(StepsOf(kind), n) /\ Own(r, s.token) /\ (v # NoSession => Own(r, v.token) /\ v.token # 0)
        /\ (s.pc # "idle" => s.key = x.key /\ s.config = x.config)
        /\ (s.pc = "idle" => s.key = "channel" /\ s.token = 0)
        /\ (s.pc \in {"validate", "config", "saves", "fetch"} => s.token # 0)
        /\ v \in KeptRow(n) \cup {NoSession} /\ (kind \notin Bank!Api => s.token = 0)
    BY <1>1, <1>2, <1>3, <1>5, <2>1, <2>2 DEF Own, Moved
  <2>8. Worked(r, s, v)
    BY <1>1, <2>3, <2>5, <2>6, <2>7 DEF Worked, Own
  <2>9. x.pc # "idle"
    BY DEF Bank!SavesSession
  <2> QED
    BY <2>8, <2>9, ScrapeKeeps
<1> QED
  BY <1>1, <1>2, <1>4, <1>5 DEF Bank!SavesSession, Bank!Goes, Bank!Keeps, Bank!Ends

LEMMA FetchesKeeps ==
  ASSUME KeptInv, NEW r \in Runs, Bank!Fetches(r)
  PROVE  KeptInv'
<1> DEFINE n == Len(issued)
           x == run[r]
           old == kept[x.key]
<1>1. /\ n \in Nat /\ issued \in Seq(Nat) /\ page \in 0 .. n
      /\ x \in RunRow(StepsOf(kind), n) /\ x.key \in Bank!Keys /\ x.token \in 0 .. n
      /\ x.merchant \in BOOLEAN
      /\ kept = [kept EXCEPT ![x.key] = old] /\ old \in KeptRow(n) \cup {NoSession}
      /\ old # NoSession => old.token \in 1 .. n /\ old.merchant \in BOOLEAN
      /\ told \subseteq dead \cup {0} /\ dead \subseteq 0 .. n /\ n + 1 \notin told
  BY AtWork DEF Bank!Keys
<1>2. kind \in {"gopay", "bri"} /\ kind \in Bank!Api /\ StepsOf(kind) = ApiSteps
  BY AtWork DEF Bank!Fetches, StepsOf, ApiSteps, PageSteps, Bank!Api, KeptInv, PageIsOne
<1>3. /\ x.pc \in {"validate", "config", "saves", "fetch"} => x.token \in 1 .. n
      /\ ~ jobsPiled => (x.pc = "saves" => x.token \notin told)
      /\ ~ jobsPiled => (old # NoSession => old.token \notin told)
  BY <1>1 DEF KeptInv, HandsFull, RefusedGone
<1>4. CASE Bank!Alive(x.token) \/ ~ Bank!MoreTries(r)
  <2> DEFINE s == Bank!Idle
             v == old
  <2>1. s \in RunRow(StepsOf(kind), n) /\ s.pc = "idle" /\ s.key = "channel" /\ s.token = 0
    BY <1>1, RowIdle
  <2> HIDE DEF s
  <2>3. run' = [run EXCEPT ![r] = s] /\ kept' = [kept EXCEPT ![x.key] = v]
    BY <1>1, <1>4 DEF Bank!Fetches, Bank!Goes, Bank!Ends, Bank!Dropped, Bank!Refused, s
  <2>5. UNCHANGED <<kind, config, command, dead, jobsPiled, keptLate, issued>> /\ page' \in 0 .. n
    BY <1>1, <1>4 DEF Bank!channel, Bank!history, Bank!Fetches, Bank!Goes, Bank!Ends,
       Bank!Dropped, Bank!Refused, Bank!Alive
  <2>6. /\ told \subseteq told' /\ told' \subseteq dead \cup {0}
        /\ \A t \in told' \ told : kind \in Bank!Api => t = x.token
        /\ ~ jobsPiled /\ v # NoSession => v.token \notin told'
        /\ ~ jobsPiled /\ s.pc = "saves" => s.token \notin told'
    BY <1>1, <1>2, <1>3, <1>4, <2>1 DEF Moved, Bank!channel, Bank!history, Bank!Fetches,
       Bank!Goes, Bank!Ends, Bank!Dropped, Bank!Refused, Bank!Alive
  <2>7. /\ s \in RunRow(StepsOf(kind), n) /\ Own(r, s.token) /\ (v # NoSession => Own(r, v.token) /\ v.token # 0)
        /\ (s.pc # "idle" => s.key = x.key /\ s.config = x.config)
        /\ (s.pc = "idle" => s.key = "channel" /\ s.token = 0)
        /\ (s.pc \in {"validate", "config", "saves", "fetch"} => s.token # 0)
        /\ v \in KeptRow(n) \cup {NoSession} /\ (kind \notin Bank!Api => s.token = 0)
    BY <1>1, <1>2, <1>3, <1>4, <2>1 DEF Own, Moved
  <2>8. Worked(r, s, v)
    BY <1>1, <2>3, <2>5, <2>6, <2>7 DEF Worked, Own
  <2>9. x.pc # "idle"
    BY DEF Bank!Fetches
  <2> QED
    BY <2>8, <2>9, ScrapeKeeps
<1>5. CASE ~ Bank!Alive(x.token) /\ Bank!MoreTries(r) /\ kind = "gopay"
  <2> DEFINE s == [Bank!To(r, "login") EXCEPT !.again = TRUE]
             v == NoSession
  <2>1. Moved(s, x, StepsOf(kind), n, "login", x.token)
    BY <1>1, <1>2, RowHurries DEF Bank!To, ApiSteps
  <2> HIDE DEF s
  <2>3. run' = [run EXCEPT ![r] = s] /\ kept' = [kept EXCEPT ![x.key] = v]
    BY <1>1, <1>5 DEF Bank!Fetches, Bank!Goes, Bank!Ends, Bank!Dropped, Bank!Refused, s
  <2>5. UNCHANGED <<kind, config, command, dead, jobsPiled, keptLate, issued>> /\ page' \in 0 .. n
    BY <1>1, <1>5 DEF Bank!channel, Bank!history, Bank!Fetches, Bank!Goes, Bank!Ends,
       Bank!Dropped, Bank!Refused, Bank!Alive
  <2>6. /\ told \subseteq told' /\ told' \subseteq dead \cup {0}
        /\ \A t \in told' \ told : kind \in Bank!Api => t = x.token
        /\ ~ jobsPiled /\ v # NoSession => v.token \notin told'
        /\ ~ jobsPiled /\ s.pc = "saves" => s.token \notin told'
    BY <1>1, <1>2, <1>3, <1>5, <2>1 DEF Moved, Bank!channel, Bank!history, Bank!Fetches,
       Bank!Goes, Bank!Ends, Bank!Dropped, Bank!Refused, Bank!Alive
  <2>7. /\ s \in RunRow(StepsOf(kind), n) /\ Own(r, s.token) /\ (v # NoSession => Own(r, v.token) /\ v.token # 0)
        /\ (s.pc # "idle" => s.key = x.key /\ s.config = x.config)
        /\ (s.pc = "idle" => s.key = "channel" /\ s.token = 0)
        /\ (s.pc \in {"validate", "config", "saves", "fetch"} => s.token # 0)
        /\ v \in KeptRow(n) \cup {NoSession} /\ (kind \notin Bank!Api => s.token = 0)
    BY <1>1, <1>2, <1>3, <1>5, <2>1 DEF Own, Moved
  <2>8. Worked(r, s, v)
    BY <1>1, <2>3, <2>5, <2>6, <2>7 DEF Worked, Own
  <2>9. x.pc # "idle"
    BY DEF Bank!Fetches
  <2> QED
    BY <2>8, <2>9, ScrapeKeeps
<1>6. CASE ~ Bank!Alive(x.token) /\ Bank!MoreTries(r) /\ kind = "bri"
  <2> DEFINE s == Bank!Again(r, "load")
             v == NoSession
  <2>1. Moved(s, x, StepsOf(kind), n, "load", x.token)
    BY <1>1, <1>2, RowAgain DEF Bank!Again, ApiSteps
  <2> HIDE DEF s
  <2>3. run' = [run EXCEPT ![r] = s] /\ kept' = [kept EXCEPT ![x.key] = v]
    BY <1>1, <1>6 DEF Bank!Fetches, Bank!Goes, Bank!Ends, Bank!Dropped, Bank!Refused, s
  <2>5. UNCHANGED <<kind, config, command, dead, jobsPiled, keptLate, issued>> /\ page' \in 0 .. n
    BY <1>1, <1>6 DEF Bank!channel, Bank!history, Bank!Fetches, Bank!Goes, Bank!Ends,
       Bank!Dropped, Bank!Refused, Bank!Alive
  <2>6. /\ told \subseteq told' /\ told' \subseteq dead \cup {0}
        /\ \A t \in told' \ told : kind \in Bank!Api => t = x.token
        /\ ~ jobsPiled /\ v # NoSession => v.token \notin told'
        /\ ~ jobsPiled /\ s.pc = "saves" => s.token \notin told'
    BY <1>1, <1>2, <1>3, <1>6, <2>1 DEF Moved, Bank!channel, Bank!history, Bank!Fetches,
       Bank!Goes, Bank!Ends, Bank!Dropped, Bank!Refused, Bank!Alive
  <2>7. /\ s \in RunRow(StepsOf(kind), n) /\ Own(r, s.token) /\ (v # NoSession => Own(r, v.token) /\ v.token # 0)
        /\ (s.pc # "idle" => s.key = x.key /\ s.config = x.config)
        /\ (s.pc = "idle" => s.key = "channel" /\ s.token = 0)
        /\ (s.pc \in {"validate", "config", "saves", "fetch"} => s.token # 0)
        /\ v \in KeptRow(n) \cup {NoSession} /\ (kind \notin Bank!Api => s.token = 0)
    BY <1>1, <1>2, <1>3, <1>6, <2>1 DEF Own, Moved
  <2>8. Worked(r, s, v)
    BY <1>1, <2>3, <2>5, <2>6, <2>7 DEF Worked, Own
  <2>9. x.pc # "idle"
    BY DEF Bank!Fetches
  <2> QED
    BY <2>8, <2>9, ScrapeKeeps
<1> QED
  BY <1>1, <1>2, <1>4, <1>5, <1>6 DEF Bank!Fetches, Bank!Goes, Bank!Ends, Bank!Dropped,
     Bank!Refused

LEMMA ThrowsKeeps ==
  ASSUME KeptInv, NEW r \in Runs, Bank!Throws(r)
  PROVE  KeptInv'
<1> DEFINE n == Len(issued)
           x == run[r]
           old == kept[x.key]
<1>1. /\ n \in Nat /\ issued \in Seq(Nat) /\ page \in 0 .. n
      /\ x \in RunRow(StepsOf(kind), n) /\ x.key \in Bank!Keys /\ x.token \in 0 .. n
      /\ x.merchant \in BOOLEAN
      /\ kept = [kept EXCEPT ![x.key] = old] /\ old \in KeptRow(n) \cup {NoSession}
      /\ old # NoSession => old.token \in 1 .. n /\ old.merchant \in BOOLEAN
      /\ told \subseteq dead \cup {0} /\ dead \subseteq 0 .. n /\ n + 1 \notin told
  BY AtWork DEF Bank!Keys
<1>2. kind \in {"gopay", "bri"} /\ kind \in Bank!Api /\ StepsOf(kind) = ApiSteps
  BY AtWork DEF Bank!Throws, StepsOf, ApiSteps, PageSteps, Bank!Api, KeptInv, PageIsOne
<1>3. /\ x.pc \in {"validate", "config", "saves", "fetch"} => x.token \in 1 .. n
      /\ ~ jobsPiled => (x.pc = "saves" => x.token \notin told)
      /\ ~ jobsPiled => (old # NoSession => old.token \notin told)
  BY <1>1 DEF KeptInv, HandsFull, RefusedGone
<1>4. CASE ~ Bank!MoreTries(r)
  <2> DEFINE s == Bank!Idle
             v == old
  <2>1. s \in RunRow(StepsOf(kind), n) /\ s.pc = "idle" /\ s.key = "channel" /\ s.token = 0
    BY <1>1, RowIdle
  <2> HIDE DEF s
  <2>3. run' = [run EXCEPT ![r] = s] /\ kept' = [kept EXCEPT ![x.key] = v]
    BY <1>1, <1>4 DEF Bank!Throws, Bank!Goes, Bank!Ends, Bank!Retries, s
  <2>5. UNCHANGED <<kind, config, command, dead, jobsPiled, keptLate, issued>> /\ page' \in 0 .. n
    BY <1>1, <1>4 DEF Bank!channel, Bank!history, Bank!Throws, Bank!Goes, Bank!Ends, Bank!Retries
  <2>6. /\ told \subseteq told' /\ told' \subseteq dead \cup {0}
        /\ \A t \in told' \ told : kind \in Bank!Api => t = x.token
        /\ ~ jobsPiled /\ v # NoSession => v.token \notin told'
        /\ ~ jobsPiled /\ s.pc = "saves" => s.token \notin told'
    BY <1>1, <1>2, <1>3, <1>4, <2>1 DEF Moved, Bank!channel, Bank!history, Bank!Throws,
       Bank!Goes, Bank!Ends, Bank!Retries
  <2>7. /\ s \in RunRow(StepsOf(kind), n) /\ Own(r, s.token) /\ (v # NoSession => Own(r, v.token) /\ v.token # 0)
        /\ (s.pc # "idle" => s.key = x.key /\ s.config = x.config)
        /\ (s.pc = "idle" => s.key = "channel" /\ s.token = 0)
        /\ (s.pc \in {"validate", "config", "saves", "fetch"} => s.token # 0)
        /\ v \in KeptRow(n) \cup {NoSession} /\ (kind \notin Bank!Api => s.token = 0)
    BY <1>1, <1>2, <1>3, <1>4, <2>1 DEF Own, Moved
  <2>8. Worked(r, s, v)
    BY <1>1, <2>3, <2>5, <2>6, <2>7 DEF Worked, Own
  <2>9. x.pc # "idle"
    BY DEF Bank!Throws
  <2> QED
    BY <2>8, <2>9, ScrapeKeeps
<1>5. CASE Bank!MoreTries(r)
  <2> DEFINE s == Bank!Again(r, "load")
             v == old
  <2>1. Moved(s, x, StepsOf(kind), n, "load", x.token)
    BY <1>1, <1>2, RowAgain DEF Bank!Again, ApiSteps
  <2> HIDE DEF s
  <2>3. run' = [run EXCEPT ![r] = s] /\ kept' = [kept EXCEPT ![x.key] = v]
    BY <1>1, <1>5 DEF Bank!Throws, Bank!Goes, Bank!Ends, Bank!Retries, s
  <2>5. UNCHANGED <<kind, config, command, dead, jobsPiled, keptLate, issued>> /\ page' \in 0 .. n
    BY <1>1, <1>5 DEF Bank!channel, Bank!history, Bank!Throws, Bank!Goes, Bank!Ends, Bank!Retries
  <2>6. /\ told \subseteq told' /\ told' \subseteq dead \cup {0}
        /\ \A t \in told' \ told : kind \in Bank!Api => t = x.token
        /\ ~ jobsPiled /\ v # NoSession => v.token \notin told'
        /\ ~ jobsPiled /\ s.pc = "saves" => s.token \notin told'
    BY <1>1, <1>2, <1>3, <1>5, <2>1 DEF Moved, Bank!channel, Bank!history, Bank!Throws,
       Bank!Goes, Bank!Ends, Bank!Retries
  <2>7. /\ s \in RunRow(StepsOf(kind), n) /\ Own(r, s.token) /\ (v # NoSession => Own(r, v.token) /\ v.token # 0)
        /\ (s.pc # "idle" => s.key = x.key /\ s.config = x.config)
        /\ (s.pc = "idle" => s.key = "channel" /\ s.token = 0)
        /\ (s.pc \in {"validate", "config", "saves", "fetch"} => s.token # 0)
        /\ v \in KeptRow(n) \cup {NoSession} /\ (kind \notin Bank!Api => s.token = 0)
    BY <1>1, <1>2, <1>3, <1>5, <2>1 DEF Own, Moved
  <2>8. Worked(r, s, v)
    BY <1>1, <2>3, <2>5, <2>6, <2>7 DEF Worked, Own
  <2>9. x.pc # "idle"
    BY DEF Bank!Throws
  <2> QED
    BY <2>8, <2>9, ScrapeKeeps
<1> QED
  BY <1>1, <1>2, <1>4, <1>5 DEF Bank!Throws, Bank!Goes, Bank!Ends, Bank!Retries

LEMMA RestoresKeeps ==
  ASSUME KeptInv, NEW r \in Runs, Bank!Restores(r)
  PROVE  KeptInv'
<1> DEFINE n == Len(issued)
           x == run[r]
           old == kept[x.key]
<1>1. /\ n \in Nat /\ issued \in Seq(Nat) /\ page \in 0 .. n
      /\ x \in RunRow(StepsOf(kind), n) /\ x.key \in Bank!Keys /\ x.token \in 0 .. n
      /\ x.merchant \in BOOLEAN
      /\ kept = [kept EXCEPT ![x.key] = old] /\ old \in KeptRow(n) \cup {NoSession}
      /\ old # NoSession => old.token \in 1 .. n /\ old.merchant \in BOOLEAN
      /\ told \subseteq dead \cup {0} /\ dead \subseteq 0 .. n /\ n + 1 \notin told
  BY AtWork DEF Bank!Keys
<1>2. kind \notin Bank!Api /\ kind = "qris_bca" /\ StepsOf(kind) = PageSteps /\ x.token = 0 /\ x.key = "channel" /\ old = kept["channel"]
  BY AtWork DEF Bank!Restores, StepsOf, ApiSteps, PageSteps, Bank!Api, KeptInv, PageIsOne
<1>3. /\ x.pc \in {"validate", "config", "saves", "fetch"} => x.token \in 1 .. n
      /\ ~ jobsPiled => (x.pc = "saves" => x.token \notin told)
      /\ ~ jobsPiled => (old # NoSession => old.token \notin told)
  BY <1>1 DEF KeptInv, HandsFull, RefusedGone
<1>4. CASE Bank!Goes(r, Bank!To(r, "checks")) /\ UNCHANGED <<kept, page, told>>
  <2> DEFINE s == Bank!To(r, "checks")
             v == old
  <2>1. Moved(s, x, StepsOf(kind), n, "checks", x.token)
    BY <1>1, <1>2, RowTo DEF Bank!To, ApiSteps, PageSteps
  <2> HIDE DEF s
  <2>3. run' = [run EXCEPT ![r] = s] /\ kept' = [kept EXCEPT ![x.key] = v]
    BY <1>1, <1>4 DEF Bank!Restores, Bank!Goes, Bank!Keeps, Bank!Entered, s
  <2>5. UNCHANGED <<kind, config, command, dead, jobsPiled, keptLate, issued>> /\ page' \in 0 .. n
    BY <1>1, <1>4 DEF Bank!channel, Bank!history, Bank!Restores, Bank!Goes, Bank!Keeps,
       Bank!Entered
  <2>6. /\ told \subseteq told' /\ told' \subseteq dead \cup {0}
        /\ \A t \in told' \ told : kind \in Bank!Api => t = x.token
        /\ ~ jobsPiled /\ v # NoSession => v.token \notin told'
        /\ ~ jobsPiled /\ s.pc = "saves" => s.token \notin told'
    BY <1>1, <1>2, <1>3, <1>4, <2>1 DEF Moved, Bank!channel, Bank!history, Bank!Restores,
       Bank!Goes, Bank!Keeps, Bank!Entered
  <2>7. /\ s \in RunRow(StepsOf(kind), n) /\ Own(r, s.token) /\ (v # NoSession => Own(r, v.token) /\ v.token # 0)
        /\ (s.pc # "idle" => s.key = x.key /\ s.config = x.config)
        /\ (s.pc = "idle" => s.key = "channel" /\ s.token = 0)
        /\ (s.pc \in {"validate", "config", "saves", "fetch"} => s.token # 0)
        /\ v \in KeptRow(n) \cup {NoSession} /\ (kind \notin Bank!Api => s.token = 0)
    BY <1>1, <1>2, <1>3, <1>4, <2>1 DEF Own, Moved
  <2>8. Worked(r, s, v)
    BY <1>1, <2>3, <2>5, <2>6, <2>7 DEF Worked, Own
  <2>9. x.pc # "idle"
    BY DEF Bank!Restores
  <2> QED
    BY <2>8, <2>9, ScrapeKeeps
<1>5. CASE /\ old # NoSession /\ page' = old.token /\ Bank!Keeps(r, NoSession)
           /\ Bank!Goes(r, Bank!To(r, "checks"))
           /\ told' = IF Bank!Alive(old.token) THEN told ELSE told \cup {old.token}
  <2> DEFINE s == Bank!To(r, "checks")
             v == NoSession
  <2>1. Moved(s, x, StepsOf(kind), n, "checks", x.token)
    BY <1>1, <1>2, RowTo DEF Bank!To, ApiSteps, PageSteps
  <2> HIDE DEF s
  <2>3. run' = [run EXCEPT ![r] = s] /\ kept' = [kept EXCEPT ![x.key] = v]
    BY <1>1, <1>5 DEF Bank!Restores, Bank!Goes, Bank!Keeps, Bank!Entered, s
  <2>5. UNCHANGED <<kind, config, command, dead, jobsPiled, keptLate, issued>> /\ page' \in 0 .. n
    BY <1>1, <1>5 DEF Bank!channel, Bank!history, Bank!Restores, Bank!Goes, Bank!Keeps,
       Bank!Entered, Bank!Alive
  <2>6. /\ told \subseteq told' /\ told' \subseteq dead \cup {0}
        /\ \A t \in told' \ told : kind \in Bank!Api => t = x.token
        /\ ~ jobsPiled /\ v # NoSession => v.token \notin told'
        /\ ~ jobsPiled /\ s.pc = "saves" => s.token \notin told'
    BY <1>1, <1>2, <1>3, <1>5, <2>1 DEF Moved, Bank!channel, Bank!history, Bank!Restores,
       Bank!Goes, Bank!Keeps, Bank!Entered, Bank!Alive
  <2>7. /\ s \in RunRow(StepsOf(kind), n) /\ Own(r, s.token) /\ (v # NoSession => Own(r, v.token) /\ v.token # 0)
        /\ (s.pc # "idle" => s.key = x.key /\ s.config = x.config)
        /\ (s.pc = "idle" => s.key = "channel" /\ s.token = 0)
        /\ (s.pc \in {"validate", "config", "saves", "fetch"} => s.token # 0)
        /\ v \in KeptRow(n) \cup {NoSession} /\ (kind \notin Bank!Api => s.token = 0)
    BY <1>1, <1>2, <1>3, <1>5, <2>1 DEF Own, Moved
  <2>8. Worked(r, s, v)
    BY <1>1, <2>3, <2>5, <2>6, <2>7 DEF Worked, Own
  <2>9. x.pc # "idle"
    BY DEF Bank!Restores
  <2> QED
    BY <2>8, <2>9, ScrapeKeeps
<1>6. CASE /\ old # NoSession /\ page' = old.token /\ Bank!Entered(r) /\ x.again
           /\ UNCHANGED <<kept, told>>
  <2> DEFINE s == Bank!Again(r, "home")
             v == old
  <2>1. Moved(s, x, StepsOf(kind), n, "home", x.token)
    BY <1>1, <1>2, RowAgain DEF Bank!Again, PageSteps
  <2> HIDE DEF s
  <2>3. run' = [run EXCEPT ![r] = s] /\ kept' = [kept EXCEPT ![x.key] = v]
    BY <1>1, <1>6 DEF Bank!Restores, Bank!Goes, Bank!Keeps, Bank!Entered, s
  <2>5. UNCHANGED <<kind, config, command, dead, jobsPiled, keptLate, issued>> /\ page' \in 0 .. n
    BY <1>1, <1>6 DEF Bank!channel, Bank!history, Bank!Restores, Bank!Goes, Bank!Keeps,
       Bank!Entered
  <2>6. /\ told \subseteq told' /\ told' \subseteq dead \cup {0}
        /\ \A t \in told' \ told : kind \in Bank!Api => t = x.token
        /\ ~ jobsPiled /\ v # NoSession => v.token \notin told'
        /\ ~ jobsPiled /\ s.pc = "saves" => s.token \notin told'
    BY <1>1, <1>2, <1>3, <1>6, <2>1 DEF Moved, Bank!channel, Bank!history, Bank!Restores,
       Bank!Goes, Bank!Keeps, Bank!Entered
  <2>7. /\ s \in RunRow(StepsOf(kind), n) /\ Own(r, s.token) /\ (v # NoSession => Own(r, v.token) /\ v.token # 0)
        /\ (s.pc # "idle" => s.key = x.key /\ s.config = x.config)
        /\ (s.pc = "idle" => s.key = "channel" /\ s.token = 0)
        /\ (s.pc \in {"validate", "config", "saves", "fetch"} => s.token # 0)
        /\ v \in KeptRow(n) \cup {NoSession} /\ (kind \notin Bank!Api => s.token = 0)
    BY <1>1, <1>2, <1>3, <1>6, <2>1 DEF Own, Moved
  <2>8. Worked(r, s, v)
    BY <1>1, <2>3, <2>5, <2>6, <2>7 DEF Worked, Own
  <2>9. x.pc # "idle"
    BY DEF Bank!Restores
  <2> QED
    BY <2>8, <2>9, ScrapeKeeps
<1>7. CASE /\ old # NoSession /\ page' = old.token /\ Bank!Entered(r) /\ ~ x.again
           /\ UNCHANGED <<kept, told>>
  <2> DEFINE s == Bank!To(r, "home")
             v == old
  <2>1. Moved(s, x, StepsOf(kind), n, "home", x.token)
    BY <1>1, <1>2, RowTo DEF Bank!To, ApiSteps, PageSteps
  <2> HIDE DEF s
  <2>3. run' = [run EXCEPT ![r] = s] /\ kept' = [kept EXCEPT ![x.key] = v]
    BY <1>1, <1>7 DEF Bank!Restores, Bank!Goes, Bank!Keeps, Bank!Entered, s
  <2>5. UNCHANGED <<kind, config, command, dead, jobsPiled, keptLate, issued>> /\ page' \in 0 .. n
    BY <1>1, <1>7 DEF Bank!channel, Bank!history, Bank!Restores, Bank!Goes, Bank!Keeps,
       Bank!Entered
  <2>6. /\ told \subseteq told' /\ told' \subseteq dead \cup {0}
        /\ \A t \in told' \ told : kind \in Bank!Api => t = x.token
        /\ ~ jobsPiled /\ v # NoSession => v.token \notin told'
        /\ ~ jobsPiled /\ s.pc = "saves" => s.token \notin told'
    BY <1>1, <1>2, <1>3, <1>7, <2>1 DEF Moved, Bank!channel, Bank!history, Bank!Restores,
       Bank!Goes, Bank!Keeps, Bank!Entered
  <2>7. /\ s \in RunRow(StepsOf(kind), n) /\ Own(r, s.token) /\ (v # NoSession => Own(r, v.token) /\ v.token # 0)
        /\ (s.pc # "idle" => s.key = x.key /\ s.config = x.config)
        /\ (s.pc = "idle" => s.key = "channel" /\ s.token = 0)
        /\ (s.pc \in {"validate", "config", "saves", "fetch"} => s.token # 0)
        /\ v \in KeptRow(n) \cup {NoSession} /\ (kind \notin Bank!Api => s.token = 0)
    BY <1>1, <1>2, <1>3, <1>7, <2>1 DEF Own, Moved
  <2>8. Worked(r, s, v)
    BY <1>1, <2>3, <2>5, <2>6, <2>7 DEF Worked, Own
  <2>9. x.pc # "idle"
    BY DEF Bank!Restores
  <2> QED
    BY <2>8, <2>9, ScrapeKeeps
<1> QED
  BY <1>1, <1>2, <1>4, <1>5, <1>6, <1>7 DEF Bank!Restores, Bank!Goes, Bank!Keeps, Bank!Entered

LEMMA ChecksHomeKeeps ==
  ASSUME KeptInv, NEW r \in Runs, Bank!ChecksHome(r)
  PROVE  KeptInv'
<1> DEFINE n == Len(issued)
           x == run[r]
           old == kept[x.key]
<1>1. /\ n \in Nat /\ issued \in Seq(Nat) /\ page \in 0 .. n
      /\ x \in RunRow(StepsOf(kind), n) /\ x.key \in Bank!Keys /\ x.token \in 0 .. n
      /\ x.merchant \in BOOLEAN
      /\ kept = [kept EXCEPT ![x.key] = old] /\ old \in KeptRow(n) \cup {NoSession}
      /\ old # NoSession => old.token \in 1 .. n /\ old.merchant \in BOOLEAN
      /\ told \subseteq dead \cup {0} /\ dead \subseteq 0 .. n /\ n + 1 \notin told
  BY AtWork DEF Bank!Keys
<1>2. kind \notin Bank!Api /\ kind = "qris_bca" /\ StepsOf(kind) = PageSteps /\ x.token = 0 /\ x.key = "channel" /\ old = kept["channel"]
  BY AtWork DEF Bank!ChecksHome, StepsOf, ApiSteps, PageSteps, Bank!Api, KeptInv, PageIsOne
<1>3. /\ x.pc \in {"validate", "config", "saves", "fetch"} => x.token \in 1 .. n
      /\ ~ jobsPiled => (x.pc = "saves" => x.token \notin told)
      /\ ~ jobsPiled => (old # NoSession => old.token \notin told)
  BY <1>1 DEF KeptInv, HandsFull, RefusedGone
<1>4. CASE Bank!Goes(r, Bank!To(r, "form"))
  <2> DEFINE s == Bank!To(r, "form")
             v == old
  <2>1. Moved(s, x, StepsOf(kind), n, "form", x.token)
    BY <1>1, <1>2, RowTo DEF Bank!To, ApiSteps, PageSteps
  <2> HIDE DEF s
  <2>3. run' = [run EXCEPT ![r] = s] /\ kept' = [kept EXCEPT ![x.key] = v]
    BY <1>1, <1>4 DEF Bank!ChecksHome, Bank!Goes, Bank!Entered, s
  <2>5. UNCHANGED <<kind, config, command, dead, jobsPiled, keptLate, issued>> /\ page' \in 0 .. n
    BY <1>1, <1>4 DEF Bank!channel, Bank!history, Bank!ChecksHome, Bank!Goes, Bank!Entered
  <2>6. /\ told \subseteq told' /\ told' \subseteq dead \cup {0}
        /\ \A t \in told' \ told : kind \in Bank!Api => t = x.token
        /\ ~ jobsPiled /\ v # NoSession => v.token \notin told'
        /\ ~ jobsPiled /\ s.pc = "saves" => s.token \notin told'
    BY <1>1, <1>2, <1>3, <1>4, <2>1 DEF Moved, Bank!channel, Bank!history, Bank!ChecksHome,
       Bank!Goes, Bank!Entered
  <2>7. /\ s \in RunRow(StepsOf(kind), n) /\ Own(r, s.token) /\ (v # NoSession => Own(r, v.token) /\ v.token # 0)
        /\ (s.pc # "idle" => s.key = x.key /\ s.config = x.config)
        /\ (s.pc = "idle" => s.key = "channel" /\ s.token = 0)
        /\ (s.pc \in {"validate", "config", "saves", "fetch"} => s.token # 0)
        /\ v \in KeptRow(n) \cup {NoSession} /\ (kind \notin Bank!Api => s.token = 0)
    BY <1>1, <1>2, <1>3, <1>4, <2>1 DEF Own, Moved
  <2>8. Worked(r, s, v)
    BY <1>1, <2>3, <2>5, <2>6, <2>7 DEF Worked, Own
  <2>9. x.pc # "idle"
    BY DEF Bank!ChecksHome
  <2> QED
    BY <2>8, <2>9, ScrapeKeeps
<1>5. CASE Bank!Entered(r) /\ x.again
  <2> DEFINE s == Bank!Again(r, "home")
             v == old
  <2>1. Moved(s, x, StepsOf(kind), n, "home", x.token)
    BY <1>1, <1>2, RowAgain DEF Bank!Again, PageSteps
  <2> HIDE DEF s
  <2>3. run' = [run EXCEPT ![r] = s] /\ kept' = [kept EXCEPT ![x.key] = v]
    BY <1>1, <1>5 DEF Bank!ChecksHome, Bank!Goes, Bank!Entered, s
  <2>5. UNCHANGED <<kind, config, command, dead, jobsPiled, keptLate, issued>> /\ page' \in 0 .. n
    BY <1>1, <1>5 DEF Bank!channel, Bank!history, Bank!ChecksHome, Bank!Goes, Bank!Entered
  <2>6. /\ told \subseteq told' /\ told' \subseteq dead \cup {0}
        /\ \A t \in told' \ told : kind \in Bank!Api => t = x.token
        /\ ~ jobsPiled /\ v # NoSession => v.token \notin told'
        /\ ~ jobsPiled /\ s.pc = "saves" => s.token \notin told'
    BY <1>1, <1>2, <1>3, <1>5, <2>1 DEF Moved, Bank!channel, Bank!history, Bank!ChecksHome,
       Bank!Goes, Bank!Entered
  <2>7. /\ s \in RunRow(StepsOf(kind), n) /\ Own(r, s.token) /\ (v # NoSession => Own(r, v.token) /\ v.token # 0)
        /\ (s.pc # "idle" => s.key = x.key /\ s.config = x.config)
        /\ (s.pc = "idle" => s.key = "channel" /\ s.token = 0)
        /\ (s.pc \in {"validate", "config", "saves", "fetch"} => s.token # 0)
        /\ v \in KeptRow(n) \cup {NoSession} /\ (kind \notin Bank!Api => s.token = 0)
    BY <1>1, <1>2, <1>3, <1>5, <2>1 DEF Own, Moved
  <2>8. Worked(r, s, v)
    BY <1>1, <2>3, <2>5, <2>6, <2>7 DEF Worked, Own
  <2>9. x.pc # "idle"
    BY DEF Bank!ChecksHome
  <2> QED
    BY <2>8, <2>9, ScrapeKeeps
<1>6. CASE Bank!Entered(r) /\ ~ x.again
  <2> DEFINE s == Bank!To(r, "home")
             v == old
  <2>1. Moved(s, x, StepsOf(kind), n, "home", x.token)
    BY <1>1, <1>2, RowTo DEF Bank!To, ApiSteps, PageSteps
  <2> HIDE DEF s
  <2>3. run' = [run EXCEPT ![r] = s] /\ kept' = [kept EXCEPT ![x.key] = v]
    BY <1>1, <1>6 DEF Bank!ChecksHome, Bank!Goes, Bank!Entered, s
  <2>5. UNCHANGED <<kind, config, command, dead, jobsPiled, keptLate, issued>> /\ page' \in 0 .. n
    BY <1>1, <1>6 DEF Bank!channel, Bank!history, Bank!ChecksHome, Bank!Goes, Bank!Entered
  <2>6. /\ told \subseteq told' /\ told' \subseteq dead \cup {0}
        /\ \A t \in told' \ told : kind \in Bank!Api => t = x.token
        /\ ~ jobsPiled /\ v # NoSession => v.token \notin told'
        /\ ~ jobsPiled /\ s.pc = "saves" => s.token \notin told'
    BY <1>1, <1>2, <1>3, <1>6, <2>1 DEF Moved, Bank!channel, Bank!history, Bank!ChecksHome,
       Bank!Goes, Bank!Entered
  <2>7. /\ s \in RunRow(StepsOf(kind), n) /\ Own(r, s.token) /\ (v # NoSession => Own(r, v.token) /\ v.token # 0)
        /\ (s.pc # "idle" => s.key = x.key /\ s.config = x.config)
        /\ (s.pc = "idle" => s.key = "channel" /\ s.token = 0)
        /\ (s.pc \in {"validate", "config", "saves", "fetch"} => s.token # 0)
        /\ v \in KeptRow(n) \cup {NoSession} /\ (kind \notin Bank!Api => s.token = 0)
    BY <1>1, <1>2, <1>3, <1>6, <2>1 DEF Own, Moved
  <2>8. Worked(r, s, v)
    BY <1>1, <2>3, <2>5, <2>6, <2>7 DEF Worked, Own
  <2>9. x.pc # "idle"
    BY DEF Bank!ChecksHome
  <2> QED
    BY <2>8, <2>9, ScrapeKeeps
<1> QED
  BY <1>1, <1>2, <1>4, <1>5, <1>6 DEF Bank!ChecksHome, Bank!Goes, Bank!Entered

LEMMA TypesPasswordKeeps ==
  ASSUME KeptInv, NEW r \in Runs, Bank!TypesPassword(r)
  PROVE  KeptInv'
<1> DEFINE n == Len(issued)
           x == run[r]
           old == kept[x.key]
<1>1. /\ n \in Nat /\ issued \in Seq(Nat) /\ page \in 0 .. n
      /\ x \in RunRow(StepsOf(kind), n) /\ x.key \in Bank!Keys /\ x.token \in 0 .. n
      /\ x.merchant \in BOOLEAN
      /\ kept = [kept EXCEPT ![x.key] = old] /\ old \in KeptRow(n) \cup {NoSession}
      /\ old # NoSession => old.token \in 1 .. n /\ old.merchant \in BOOLEAN
      /\ told \subseteq dead \cup {0} /\ dead \subseteq 0 .. n /\ n + 1 \notin told
  BY AtWork DEF Bank!Keys
<1>2. kind \notin Bank!Api /\ kind = "qris_bca" /\ StepsOf(kind) = PageSteps /\ x.token = 0 /\ x.key = "channel" /\ old = kept["channel"]
  BY AtWork DEF Bank!TypesPassword, StepsOf, ApiSteps, PageSteps, Bank!Api, KeptInv, PageIsOne
<1>3. /\ x.pc \in {"validate", "config", "saves", "fetch"} => x.token \in 1 .. n
      /\ ~ jobsPiled => (x.pc = "saves" => x.token \notin told)
      /\ ~ jobsPiled => (old # NoSession => old.token \notin told)
  BY <1>1 DEF KeptInv, HandsFull, RefusedGone
<1>4. CASE x.again
  <2> DEFINE s == Bank!Again(r, "home")
             v == Bank!Session(n + 1, TRUE)
  <2>1. Moved(s, x, StepsOf(kind), n + 1, "home", x.token)
    <3>1. Moved(s, x, StepsOf(kind), n, "home", x.token)
      BY <1>1, <1>2, RowAgain DEF Bank!Again, Bank!To, PageSteps
    <3> HIDE DEF s
    <3> QED BY <1>1, <3>1, RowGrows DEF Moved
  <2>2. v \in KeptRow(n + 1) /\ v.token = n + 1 /\ v # NoSession
    BY <1>1, NewSession
  <2> HIDE DEF s, v
  <2>3. run' = [run EXCEPT ![r] = s] /\ kept' = [kept EXCEPT ![x.key] = v]
    BY <1>1, <1>4 DEF Bank!TypesPassword, Bank!Goes, Bank!Keeps, Bank!Entered, s, v, Bank!New
  <2>4. /\ issued' \in Seq(Nat) /\ Len(issued') = n + 1
        /\ \A t \in 1 .. n : issued'[t] = issued[t]
        /\ issued'[n + 1] = x.config
    BY <1>1, AtWork DEF Bank!TypesPassword, Bank!Goes, Bank!Keeps, Bank!Entered, Bank!New
  <2>5. UNCHANGED <<kind, config, command, dead, jobsPiled, keptLate>> /\ page' \in 0 .. n + 1
    BY <1>1, <1>4 DEF Bank!channel, Bank!history, Bank!TypesPassword, Bank!Goes, Bank!Keeps,
       Bank!Entered, Bank!New
  <2>6. /\ told \subseteq told' /\ told' \subseteq dead \cup {0}
        /\ \A t \in told' \ told : kind \in Bank!Api => t = x.token
        /\ ~ jobsPiled /\ v # NoSession => v.token \notin told'
        /\ ~ jobsPiled /\ s.pc = "saves" => s.token \notin told'
    BY <1>1, <1>2, <1>3, <1>4, <2>1, <2>2 DEF Moved, Bank!channel, Bank!history,
       Bank!TypesPassword, Bank!Goes, Bank!Keeps, Bank!Entered, Bank!New
  <2>7. /\ s \in RunRow(StepsOf(kind), n + 1) /\ Own(r, s.token) /\ (v # NoSession => Own(r, v.token) /\ v.token # 0)
        /\ (s.pc # "idle" => s.key = x.key /\ s.config = x.config)
        /\ (s.pc = "idle" => s.key = "channel" /\ s.token = 0)
        /\ (s.pc \in {"validate", "config", "saves", "fetch"} => s.token # 0)
        /\ v \in KeptRow(n + 1) \cup {NoSession} /\ (kind \notin Bank!Api => s.token = 0)
    BY <1>1, <1>2, <1>3, <1>4, <2>1, <2>2 DEF Own, Moved
  <2>8. Worked(r, s, v)
    BY <1>1, <2>3, <2>4, <2>5, <2>6, <2>7 DEF Worked, Own
  <2>9. x.pc # "idle"
    BY DEF Bank!TypesPassword
  <2> QED
    BY <2>8, <2>9, ScrapeKeeps
<1>5. CASE ~ x.again
  <2> DEFINE s == Bank!To(r, "home")
             v == Bank!Session(n + 1, TRUE)
  <2>1. Moved(s, x, StepsOf(kind), n + 1, "home", x.token)
    <3>1. Moved(s, x, StepsOf(kind), n, "home", x.token)
      BY <1>1, <1>2, RowTo DEF Bank!Again, Bank!To, PageSteps
    <3> HIDE DEF s
    <3> QED BY <1>1, <3>1, RowGrows DEF Moved
  <2>2. v \in KeptRow(n + 1) /\ v.token = n + 1 /\ v # NoSession
    BY <1>1, NewSession
  <2> HIDE DEF s, v
  <2>3. run' = [run EXCEPT ![r] = s] /\ kept' = [kept EXCEPT ![x.key] = v]
    BY <1>1, <1>5 DEF Bank!TypesPassword, Bank!Goes, Bank!Keeps, Bank!Entered, s, v, Bank!New
  <2>4. /\ issued' \in Seq(Nat) /\ Len(issued') = n + 1
        /\ \A t \in 1 .. n : issued'[t] = issued[t]
        /\ issued'[n + 1] = x.config
    BY <1>1, AtWork DEF Bank!TypesPassword, Bank!Goes, Bank!Keeps, Bank!Entered, Bank!New
  <2>5. UNCHANGED <<kind, config, command, dead, jobsPiled, keptLate>> /\ page' \in 0 .. n + 1
    BY <1>1, <1>5 DEF Bank!channel, Bank!history, Bank!TypesPassword, Bank!Goes, Bank!Keeps,
       Bank!Entered, Bank!New
  <2>6. /\ told \subseteq told' /\ told' \subseteq dead \cup {0}
        /\ \A t \in told' \ told : kind \in Bank!Api => t = x.token
        /\ ~ jobsPiled /\ v # NoSession => v.token \notin told'
        /\ ~ jobsPiled /\ s.pc = "saves" => s.token \notin told'
    BY <1>1, <1>2, <1>3, <1>5, <2>1, <2>2 DEF Moved, Bank!channel, Bank!history,
       Bank!TypesPassword, Bank!Goes, Bank!Keeps, Bank!Entered, Bank!New
  <2>7. /\ s \in RunRow(StepsOf(kind), n + 1) /\ Own(r, s.token) /\ (v # NoSession => Own(r, v.token) /\ v.token # 0)
        /\ (s.pc # "idle" => s.key = x.key /\ s.config = x.config)
        /\ (s.pc = "idle" => s.key = "channel" /\ s.token = 0)
        /\ (s.pc \in {"validate", "config", "saves", "fetch"} => s.token # 0)
        /\ v \in KeptRow(n + 1) \cup {NoSession} /\ (kind \notin Bank!Api => s.token = 0)
    BY <1>1, <1>2, <1>3, <1>5, <2>1, <2>2 DEF Own, Moved
  <2>8. Worked(r, s, v)
    BY <1>1, <2>3, <2>4, <2>5, <2>6, <2>7 DEF Worked, Own
  <2>9. x.pc # "idle"
    BY DEF Bank!TypesPassword
  <2> QED
    BY <2>8, <2>9, ScrapeKeeps
<1> QED
  BY <1>1, <1>2, <1>4, <1>5 DEF Bank!TypesPassword, Bank!Goes, Bank!Keeps, Bank!Entered

LEMMA TypingFailsKeeps ==
  ASSUME KeptInv, NEW r \in Runs, Bank!TypingFails(r)
  PROVE  KeptInv'
<1> DEFINE n == Len(issued)
           x == run[r]
           old == kept[x.key]
<1>1. /\ n \in Nat /\ issued \in Seq(Nat) /\ page \in 0 .. n
      /\ x \in RunRow(StepsOf(kind), n) /\ x.key \in Bank!Keys /\ x.token \in 0 .. n
      /\ x.merchant \in BOOLEAN
      /\ kept = [kept EXCEPT ![x.key] = old] /\ old \in KeptRow(n) \cup {NoSession}
      /\ old # NoSession => old.token \in 1 .. n /\ old.merchant \in BOOLEAN
      /\ told \subseteq dead \cup {0} /\ dead \subseteq 0 .. n /\ n + 1 \notin told
  BY AtWork DEF Bank!Keys
<1>2. kind \notin Bank!Api /\ kind = "qris_bca" /\ StepsOf(kind) = PageSteps /\ x.token = 0 /\ x.key = "channel" /\ old = kept["channel"]
  BY AtWork DEF Bank!TypingFails, StepsOf, ApiSteps, PageSteps, Bank!Api, KeptInv, PageIsOne
<1>3. /\ x.pc \in {"validate", "config", "saves", "fetch"} => x.token \in 1 .. n
      /\ ~ jobsPiled => (x.pc = "saves" => x.token \notin told)
      /\ ~ jobsPiled => (old # NoSession => old.token \notin told)
  BY <1>1 DEF KeptInv, HandsFull, RefusedGone
<1>4. CASE kept' = kept
  <2> DEFINE s == Bank!Idle
             v == old
  <2>1. s \in RunRow(StepsOf(kind), n) /\ s.pc = "idle" /\ s.key = "channel" /\ s.token = 0
    BY <1>1, RowIdle
  <2> HIDE DEF s
  <2>3. run' = [run EXCEPT ![r] = s] /\ kept' = [kept EXCEPT ![x.key] = v]
    BY <1>1, <1>4 DEF Bank!TypingFails, Bank!Goes, Bank!Keeps, Bank!Leaves, Bank!Ends, s
  <2>5. UNCHANGED <<kind, config, command, dead, jobsPiled, keptLate, issued>> /\ page' \in 0 .. n
    BY <1>1, <1>4 DEF Bank!channel, Bank!history, Bank!TypingFails, Bank!Goes, Bank!Keeps,
       Bank!Leaves, Bank!Ends
  <2>6. /\ told \subseteq told' /\ told' \subseteq dead \cup {0}
        /\ \A t \in told' \ told : kind \in Bank!Api => t = x.token
        /\ ~ jobsPiled /\ v # NoSession => v.token \notin told'
        /\ ~ jobsPiled /\ s.pc = "saves" => s.token \notin told'
    BY <1>1, <1>2, <1>3, <1>4, <2>1 DEF Moved, Bank!channel, Bank!history, Bank!TypingFails,
       Bank!Goes, Bank!Keeps, Bank!Leaves, Bank!Ends
  <2>7. /\ s \in RunRow(StepsOf(kind), n) /\ Own(r, s.token) /\ (v # NoSession => Own(r, v.token) /\ v.token # 0)
        /\ (s.pc # "idle" => s.key = x.key /\ s.config = x.config)
        /\ (s.pc = "idle" => s.key = "channel" /\ s.token = 0)
        /\ (s.pc \in {"validate", "config", "saves", "fetch"} => s.token # 0)
        /\ v \in KeptRow(n) \cup {NoSession} /\ (kind \notin Bank!Api => s.token = 0)
    BY <1>1, <1>2, <1>3, <1>4, <2>1 DEF Own, Moved
  <2>8. Worked(r, s, v)
    BY <1>1, <2>3, <2>5, <2>6, <2>7 DEF Worked, Own
  <2>9. x.pc # "idle"
    BY DEF Bank!TypingFails
  <2> QED
    BY <2>8, <2>9, ScrapeKeeps
<1>5. CASE kept' # kept
  <2> DEFINE s == Bank!Idle
             v == NoSession
  <2>1. s \in RunRow(StepsOf(kind), n) /\ s.pc = "idle" /\ s.key = "channel" /\ s.token = 0
    BY <1>1, RowIdle
  <2> HIDE DEF s
  <2>3. run' = [run EXCEPT ![r] = s] /\ kept' = [kept EXCEPT ![x.key] = v]
    BY <1>1, <1>5 DEF Bank!TypingFails, Bank!Goes, Bank!Keeps, Bank!Leaves, Bank!Ends, s
  <2>5. UNCHANGED <<kind, config, command, dead, jobsPiled, keptLate, issued>> /\ page' \in 0 .. n
    BY <1>1, <1>5 DEF Bank!channel, Bank!history, Bank!TypingFails, Bank!Goes, Bank!Keeps,
       Bank!Leaves, Bank!Ends
  <2>6. /\ told \subseteq told' /\ told' \subseteq dead \cup {0}
        /\ \A t \in told' \ told : kind \in Bank!Api => t = x.token
        /\ ~ jobsPiled /\ v # NoSession => v.token \notin told'
        /\ ~ jobsPiled /\ s.pc = "saves" => s.token \notin told'
    BY <1>1, <1>2, <1>3, <1>5, <2>1 DEF Moved, Bank!channel, Bank!history, Bank!TypingFails,
       Bank!Goes, Bank!Keeps, Bank!Leaves, Bank!Ends
  <2>7. /\ s \in RunRow(StepsOf(kind), n) /\ Own(r, s.token) /\ (v # NoSession => Own(r, v.token) /\ v.token # 0)
        /\ (s.pc # "idle" => s.key = x.key /\ s.config = x.config)
        /\ (s.pc = "idle" => s.key = "channel" /\ s.token = 0)
        /\ (s.pc \in {"validate", "config", "saves", "fetch"} => s.token # 0)
        /\ v \in KeptRow(n) \cup {NoSession} /\ (kind \notin Bank!Api => s.token = 0)
    BY <1>1, <1>2, <1>3, <1>5, <2>1 DEF Own, Moved
  <2>8. Worked(r, s, v)
    BY <1>1, <2>3, <2>5, <2>6, <2>7 DEF Worked, Own
  <2>9. x.pc # "idle"
    BY DEF Bank!TypingFails
  <2> QED
    BY <2>8, <2>9, ScrapeKeeps
<1> QED
  BY <1>1, <1>2, <1>4, <1>5 DEF Bank!TypingFails, Bank!Goes, Bank!Keeps, Bank!Leaves, Bank!Ends

LEMMA SeesHomeKeeps ==
  ASSUME KeptInv, NEW r \in Runs, Bank!SeesHome(r)
  PROVE  KeptInv'
<1> DEFINE n == Len(issued)
           x == run[r]
           old == kept[x.key]
<1>1. /\ n \in Nat /\ issued \in Seq(Nat) /\ page \in 0 .. n
      /\ x \in RunRow(StepsOf(kind), n) /\ x.key \in Bank!Keys /\ x.token \in 0 .. n
      /\ x.merchant \in BOOLEAN
      /\ kept = [kept EXCEPT ![x.key] = old] /\ old \in KeptRow(n) \cup {NoSession}
      /\ old # NoSession => old.token \in 1 .. n /\ old.merchant \in BOOLEAN
      /\ told \subseteq dead \cup {0} /\ dead \subseteq 0 .. n /\ n + 1 \notin told
  BY AtWork DEF Bank!Keys
<1>2. kind \notin Bank!Api /\ kind = "qris_bca" /\ StepsOf(kind) = PageSteps /\ x.token = 0 /\ x.key = "channel" /\ old = kept["channel"]
  BY AtWork DEF Bank!SeesHome, StepsOf, ApiSteps, PageSteps, Bank!Api, KeptInv, PageIsOne
<1>3. /\ x.pc \in {"validate", "config", "saves", "fetch"} => x.token \in 1 .. n
      /\ ~ jobsPiled => (x.pc = "saves" => x.token \notin told)
      /\ ~ jobsPiled => (old # NoSession => old.token \notin told)
  BY <1>1 DEF KeptInv, HandsFull, RefusedGone
<1>4. CASE Bank!Goes(r, Bank!To(r, "dates"))
  <2> DEFINE s == Bank!To(r, "dates")
             v == old
  <2>1. Moved(s, x, StepsOf(kind), n, "dates", x.token)
    BY <1>1, <1>2, RowTo DEF Bank!To, ApiSteps, PageSteps
  <2> HIDE DEF s
  <2>3. run' = [run EXCEPT ![r] = s] /\ kept' = [kept EXCEPT ![x.key] = v]
    BY <1>1, <1>4 DEF Bank!SeesHome, Bank!Goes, Bank!Leaves, Bank!Ends, s
  <2>5. UNCHANGED <<kind, config, command, dead, jobsPiled, keptLate, issued>> /\ page' \in 0 .. n
    BY <1>1, <1>4 DEF Bank!channel, Bank!history, Bank!SeesHome, Bank!Goes, Bank!Leaves, Bank!Ends
  <2>6. /\ told \subseteq told' /\ told' \subseteq dead \cup {0}
        /\ \A t \in told' \ told : kind \in Bank!Api => t = x.token
        /\ ~ jobsPiled /\ v # NoSession => v.token \notin told'
        /\ ~ jobsPiled /\ s.pc = "saves" => s.token \notin told'
    BY <1>1, <1>2, <1>3, <1>4, <2>1 DEF Moved, Bank!channel, Bank!history, Bank!SeesHome,
       Bank!Goes, Bank!Leaves, Bank!Ends
  <2>7. /\ s \in RunRow(StepsOf(kind), n) /\ Own(r, s.token) /\ (v # NoSession => Own(r, v.token) /\ v.token # 0)
        /\ (s.pc # "idle" => s.key = x.key /\ s.config = x.config)
        /\ (s.pc = "idle" => s.key = "channel" /\ s.token = 0)
        /\ (s.pc \in {"validate", "config", "saves", "fetch"} => s.token # 0)
        /\ v \in KeptRow(n) \cup {NoSession} /\ (kind \notin Bank!Api => s.token = 0)
    BY <1>1, <1>2, <1>3, <1>4, <2>1 DEF Own, Moved
  <2>8. Worked(r, s, v)
    BY <1>1, <2>3, <2>5, <2>6, <2>7 DEF Worked, Own
  <2>9. x.pc # "idle"
    BY DEF Bank!SeesHome
  <2> QED
    BY <2>8, <2>9, ScrapeKeeps
<1>5. CASE Bank!Goes(r, Bank!Again(r, "restore"))
  <2> DEFINE s == Bank!Again(r, "restore")
             v == old
  <2>1. Moved(s, x, StepsOf(kind), n, "restore", x.token)
    BY <1>1, <1>2, RowAgain DEF Bank!Again, PageSteps
  <2> HIDE DEF s
  <2>3. run' = [run EXCEPT ![r] = s] /\ kept' = [kept EXCEPT ![x.key] = v]
    BY <1>1, <1>5 DEF Bank!SeesHome, Bank!Goes, Bank!Leaves, Bank!Ends, s
  <2>5. UNCHANGED <<kind, config, command, dead, jobsPiled, keptLate, issued>> /\ page' \in 0 .. n
    BY <1>1, <1>5 DEF Bank!channel, Bank!history, Bank!SeesHome, Bank!Goes, Bank!Leaves, Bank!Ends
  <2>6. /\ told \subseteq told' /\ told' \subseteq dead \cup {0}
        /\ \A t \in told' \ told : kind \in Bank!Api => t = x.token
        /\ ~ jobsPiled /\ v # NoSession => v.token \notin told'
        /\ ~ jobsPiled /\ s.pc = "saves" => s.token \notin told'
    BY <1>1, <1>2, <1>3, <1>5, <2>1 DEF Moved, Bank!channel, Bank!history, Bank!SeesHome,
       Bank!Goes, Bank!Leaves, Bank!Ends
  <2>7. /\ s \in RunRow(StepsOf(kind), n) /\ Own(r, s.token) /\ (v # NoSession => Own(r, v.token) /\ v.token # 0)
        /\ (s.pc # "idle" => s.key = x.key /\ s.config = x.config)
        /\ (s.pc = "idle" => s.key = "channel" /\ s.token = 0)
        /\ (s.pc \in {"validate", "config", "saves", "fetch"} => s.token # 0)
        /\ v \in KeptRow(n) \cup {NoSession} /\ (kind \notin Bank!Api => s.token = 0)
    BY <1>1, <1>2, <1>3, <1>5, <2>1 DEF Own, Moved
  <2>8. Worked(r, s, v)
    BY <1>1, <2>3, <2>5, <2>6, <2>7 DEF Worked, Own
  <2>9. x.pc # "idle"
    BY DEF Bank!SeesHome
  <2> QED
    BY <2>8, <2>9, ScrapeKeeps
<1>6. CASE Bank!Leaves(r, FALSE)
  <2> DEFINE s == Bank!Idle
             v == old
  <2>1. s \in RunRow(StepsOf(kind), n) /\ s.pc = "idle" /\ s.key = "channel" /\ s.token = 0
    BY <1>1, RowIdle
  <2> HIDE DEF s
  <2>3. run' = [run EXCEPT ![r] = s] /\ kept' = [kept EXCEPT ![x.key] = v]
    BY <1>1, <1>6 DEF Bank!SeesHome, Bank!Goes, Bank!Leaves, Bank!Ends, s
  <2>5. UNCHANGED <<kind, config, command, dead, jobsPiled, keptLate, issued>> /\ page' \in 0 .. n
    BY <1>1, <1>6 DEF Bank!channel, Bank!history, Bank!SeesHome, Bank!Goes, Bank!Leaves, Bank!Ends
  <2>6. /\ told \subseteq told' /\ told' \subseteq dead \cup {0}
        /\ \A t \in told' \ told : kind \in Bank!Api => t = x.token
        /\ ~ jobsPiled /\ v # NoSession => v.token \notin told'
        /\ ~ jobsPiled /\ s.pc = "saves" => s.token \notin told'
    BY <1>1, <1>2, <1>3, <1>6, <2>1 DEF Moved, Bank!channel, Bank!history, Bank!SeesHome,
       Bank!Goes, Bank!Leaves, Bank!Ends
  <2>7. /\ s \in RunRow(StepsOf(kind), n) /\ Own(r, s.token) /\ (v # NoSession => Own(r, v.token) /\ v.token # 0)
        /\ (s.pc # "idle" => s.key = x.key /\ s.config = x.config)
        /\ (s.pc = "idle" => s.key = "channel" /\ s.token = 0)
        /\ (s.pc \in {"validate", "config", "saves", "fetch"} => s.token # 0)
        /\ v \in KeptRow(n) \cup {NoSession} /\ (kind \notin Bank!Api => s.token = 0)
    BY <1>1, <1>2, <1>3, <1>6, <2>1 DEF Own, Moved
  <2>8. Worked(r, s, v)
    BY <1>1, <2>3, <2>5, <2>6, <2>7 DEF Worked, Own
  <2>9. x.pc # "idle"
    BY DEF Bank!SeesHome
  <2> QED
    BY <2>8, <2>9, ScrapeKeeps
<1> QED
  BY <1>1, <1>2, <1>4, <1>5, <1>6 DEF Bank!SeesHome, Bank!Goes, Bank!Leaves, Bank!Ends

LEMMA PageRefreshesKeeps ==
  ASSUME KeptInv, NEW r \in Runs, Bank!PageRefreshes(r)
  PROVE  KeptInv'
<1>1. /\ Len(issued) \in Nat /\ issued \in Seq(Nat) /\ page \in 1 .. Len(issued)
      /\ kind \notin Bank!Api /\ told \subseteq dead \cup {0} /\ dead \subseteq 0 .. Len(issued)
      /\ run[r].key = "channel"
  BY AtWork DEF Bank!PageRefreshes, Bank!Alive, ApiSteps, KeptInv, PageIsOne
<1> DEFINE n == Len(issued)
           v == Bank!Session(n + 1, TRUE)
<1>2. v \in KeptRow(n + 1) /\ v.token = n + 1 /\ v # NoSession
  BY <1>1, NewSession
<1>3. kept' = [kept EXCEPT !["channel"] = v] \/ kept' = kept
  BY <1>1 DEF Bank!PageRefreshes, Bank!Keeps, Bank!New
<1> HIDE DEF v
<1>4. /\ issued' \in Seq(Nat) /\ Len(issued') = n + 1 /\ issued[page] \in Nat
      /\ page' = n + 1 /\ UNCHANGED <<kind, config, command, run, told, jobsPiled, keptLate>>
      /\ dead \subseteq dead' /\ dead' \subseteq 0 .. n
  BY <1>1 DEF Bank!PageRefreshes, Bank!New, Bank!channel, Bank!history
<1>5. /\ kept["channel"] \in KeptRow(n) \cup {NoSession} /\ kept["test"] = NoSession
      /\ kept \in [{"channel", "test"} -> KeptRow(n) \cup {NoSession}]
      /\ KeptRow(n) \subseteq KeptRow(n + 1)
  BY <1>1 DEF KeptInv, BankTypes, PageIsOne, KeptRow
<1>6. kept'["test"] = NoSession /\ kept'["channel"] \in {kept["channel"], v}
  BY <1>3, <1>5
<1>7. BankTypes'
  <2>1. kept' \in [{"channel", "test"} -> KeptRow(n + 1) \cup {NoSession}]
    BY <1>2, <1>3, <1>5
  <2>2. run' \in [Runs -> RunRow(StepsOf(kind), n + 1)]
    BY <1>1, <1>4, RowGrows DEF KeptInv, BankTypes
  <2> QED
    BY <1>1, <1>4, <2>1, <2>2 DEF KeptInv, BankTypes
<1>8. HandsFull'
  BY <1>1, <1>2, <1>4, <1>6 DEF KeptInv, HandsFull, Bank!Keys
<1>9. PageIsOne' /\ OfConfig' /\ KeysApart'
  BY <1>1, <1>4, <1>6 DEF KeptInv, PageIsOne, OfConfig, KeysApart, Bank!Keys
<1>10. RefusedGone'
  BY <1>1, <1>2, <1>4, <1>6 DEF KeptInv, RefusedGone, Bank!Keys
<1> QED
  BY <1>7, <1>8, <1>9, <1>10 DEF KeptInv

LEMMA ClicksTodayKeeps ==
  ASSUME KeptInv, NEW r \in Runs, Bank!ClicksToday(r)
  PROVE  KeptInv'
<1> DEFINE n == Len(issued)
           x == run[r]
           old == kept[x.key]
<1>1. /\ n \in Nat /\ issued \in Seq(Nat) /\ page \in 0 .. n
      /\ x \in RunRow(StepsOf(kind), n) /\ x.key \in Bank!Keys /\ x.token \in 0 .. n
      /\ x.merchant \in BOOLEAN
      /\ kept = [kept EXCEPT ![x.key] = old] /\ old \in KeptRow(n) \cup {NoSession}
      /\ old # NoSession => old.token \in 1 .. n /\ old.merchant \in BOOLEAN
      /\ told \subseteq dead \cup {0} /\ dead \subseteq 0 .. n /\ n + 1 \notin told
  BY AtWork DEF Bank!Keys
<1>2. kind \notin Bank!Api /\ kind = "qris_bca" /\ StepsOf(kind) = PageSteps /\ x.token = 0 /\ x.key = "channel" /\ old = kept["channel"]
  BY AtWork DEF Bank!ClicksToday, StepsOf, ApiSteps, PageSteps, Bank!Api, KeptInv, PageIsOne
<1>3. /\ x.pc \in {"validate", "config", "saves", "fetch"} => x.token \in 1 .. n
      /\ ~ jobsPiled => (x.pc = "saves" => x.token \notin told)
      /\ ~ jobsPiled => (old # NoSession => old.token \notin told)
  BY <1>1 DEF KeptInv, HandsFull, RefusedGone
<1>4. CASE Bank!Ends(r) /\ kept' = kept /\ told' = told
  <2> DEFINE s == Bank!Idle
             v == old
  <2>1. s \in RunRow(StepsOf(kind), n) /\ s.pc = "idle" /\ s.key = "channel" /\ s.token = 0
    BY <1>1, RowIdle
  <2> HIDE DEF s
  <2>3. run' = [run EXCEPT ![r] = s] /\ kept' = [kept EXCEPT ![x.key] = v]
    BY <1>1, <1>4 DEF Bank!ClicksToday, Bank!Goes, Bank!Keeps, Bank!Leaves, Bank!Ends,
       Bank!RowsRead, Bank!RowsUnreadable, Bank!GrantExpired, s
  <2>5. UNCHANGED <<kind, config, command, dead, jobsPiled, keptLate, issued>> /\ page' \in 0 .. n
    BY <1>1, <1>4 DEF Bank!channel, Bank!history, Bank!ClicksToday, Bank!Goes, Bank!Keeps,
       Bank!Leaves, Bank!Ends, Bank!RowsRead, Bank!RowsUnreadable, Bank!GrantExpired
  <2>6. /\ told \subseteq told' /\ told' \subseteq dead \cup {0}
        /\ \A t \in told' \ told : kind \in Bank!Api => t = x.token
        /\ ~ jobsPiled /\ v # NoSession => v.token \notin told'
        /\ ~ jobsPiled /\ s.pc = "saves" => s.token \notin told'
    BY <1>1, <1>2, <1>3, <1>4, <2>1 DEF Moved, Bank!channel, Bank!history, Bank!ClicksToday,
       Bank!Goes, Bank!Keeps, Bank!Leaves, Bank!Ends, Bank!RowsRead, Bank!RowsUnreadable,
       Bank!GrantExpired
  <2>7. /\ s \in RunRow(StepsOf(kind), n) /\ Own(r, s.token) /\ (v # NoSession => Own(r, v.token) /\ v.token # 0)
        /\ (s.pc # "idle" => s.key = x.key /\ s.config = x.config)
        /\ (s.pc = "idle" => s.key = "channel" /\ s.token = 0)
        /\ (s.pc \in {"validate", "config", "saves", "fetch"} => s.token # 0)
        /\ v \in KeptRow(n) \cup {NoSession} /\ (kind \notin Bank!Api => s.token = 0)
    BY <1>1, <1>2, <1>3, <1>4, <2>1 DEF Own, Moved
  <2>8. Worked(r, s, v)
    BY <1>1, <2>3, <2>5, <2>6, <2>7 DEF Worked, Own
  <2>9. x.pc # "idle"
    BY DEF Bank!ClicksToday
  <2> QED
    BY <2>8, <2>9, ScrapeKeeps
<1>5. CASE Bank!Goes(r, Bank!Again(r, "home")) /\ kept' = kept /\ told' = told
  <2> DEFINE s == Bank!Again(r, "home")
             v == old
  <2>1. Moved(s, x, StepsOf(kind), n, "home", x.token)
    BY <1>1, <1>2, RowAgain DEF Bank!Again, PageSteps
  <2> HIDE DEF s
  <2>3. run' = [run EXCEPT ![r] = s] /\ kept' = [kept EXCEPT ![x.key] = v]
    BY <1>1, <1>5 DEF Bank!ClicksToday, Bank!Goes, Bank!Keeps, Bank!Leaves, Bank!Ends,
       Bank!RowsRead, Bank!RowsUnreadable, Bank!GrantExpired, s
  <2>5. UNCHANGED <<kind, config, command, dead, jobsPiled, keptLate, issued>> /\ page' \in 0 .. n
    BY <1>1, <1>5 DEF Bank!channel, Bank!history, Bank!ClicksToday, Bank!Goes, Bank!Keeps,
       Bank!Leaves, Bank!Ends, Bank!RowsRead, Bank!RowsUnreadable, Bank!GrantExpired
  <2>6. /\ told \subseteq told' /\ told' \subseteq dead \cup {0}
        /\ \A t \in told' \ told : kind \in Bank!Api => t = x.token
        /\ ~ jobsPiled /\ v # NoSession => v.token \notin told'
        /\ ~ jobsPiled /\ s.pc = "saves" => s.token \notin told'
    BY <1>1, <1>2, <1>3, <1>5, <2>1 DEF Moved, Bank!channel, Bank!history, Bank!ClicksToday,
       Bank!Goes, Bank!Keeps, Bank!Leaves, Bank!Ends, Bank!RowsRead, Bank!RowsUnreadable,
       Bank!GrantExpired
  <2>7. /\ s \in RunRow(StepsOf(kind), n) /\ Own(r, s.token) /\ (v # NoSession => Own(r, v.token) /\ v.token # 0)
        /\ (s.pc # "idle" => s.key = x.key /\ s.config = x.config)
        /\ (s.pc = "idle" => s.key = "channel" /\ s.token = 0)
        /\ (s.pc \in {"validate", "config", "saves", "fetch"} => s.token # 0)
        /\ v \in KeptRow(n) \cup {NoSession} /\ (kind \notin Bank!Api => s.token = 0)
    BY <1>1, <1>2, <1>3, <1>5, <2>1 DEF Own, Moved
  <2>8. Worked(r, s, v)
    BY <1>1, <2>3, <2>5, <2>6, <2>7 DEF Worked, Own
  <2>9. x.pc # "idle"
    BY DEF Bank!ClicksToday
  <2> QED
    BY <2>8, <2>9, ScrapeKeeps
<1>6. CASE /\ ~ Bank!Alive(page) /\ Bank!Keeps(r, NoSession) /\ told' = told \cup {page}
           /\ Bank!Goes(r, [Bank!To(r, "restore") EXCEPT !.again = TRUE])
  <2> DEFINE s == [Bank!To(r, "restore") EXCEPT !.again = TRUE]
             v == NoSession
  <2>1. Moved(s, x, StepsOf(kind), n, "restore", x.token)
    BY <1>1, <1>2, RowHurries DEF Bank!To, PageSteps
  <2> HIDE DEF s
  <2>3. run' = [run EXCEPT ![r] = s] /\ kept' = [kept EXCEPT ![x.key] = v]
    BY <1>1, <1>6 DEF Bank!ClicksToday, Bank!Goes, Bank!Keeps, Bank!Leaves, Bank!Ends,
       Bank!RowsRead, Bank!RowsUnreadable, Bank!GrantExpired, s
  <2>5. UNCHANGED <<kind, config, command, dead, jobsPiled, keptLate, issued>> /\ page' \in 0 .. n
    BY <1>1, <1>6 DEF Bank!channel, Bank!history, Bank!ClicksToday, Bank!Goes, Bank!Keeps,
       Bank!Leaves, Bank!Ends, Bank!RowsRead, Bank!RowsUnreadable, Bank!GrantExpired, Bank!Alive
  <2>6. /\ told \subseteq told' /\ told' \subseteq dead \cup {0}
        /\ \A t \in told' \ told : kind \in Bank!Api => t = x.token
        /\ ~ jobsPiled /\ v # NoSession => v.token \notin told'
        /\ ~ jobsPiled /\ s.pc = "saves" => s.token \notin told'
    BY <1>1, <1>2, <1>3, <1>6, <2>1 DEF Moved, Bank!channel, Bank!history, Bank!ClicksToday,
       Bank!Goes, Bank!Keeps, Bank!Leaves, Bank!Ends, Bank!RowsRead, Bank!RowsUnreadable,
       Bank!GrantExpired, Bank!Alive
  <2>7. /\ s \in RunRow(StepsOf(kind), n) /\ Own(r, s.token) /\ (v # NoSession => Own(r, v.token) /\ v.token # 0)
        /\ (s.pc # "idle" => s.key = x.key /\ s.config = x.config)
        /\ (s.pc = "idle" => s.key = "channel" /\ s.token = 0)
        /\ (s.pc \in {"validate", "config", "saves", "fetch"} => s.token # 0)
        /\ v \in KeptRow(n) \cup {NoSession} /\ (kind \notin Bank!Api => s.token = 0)
    BY <1>1, <1>2, <1>3, <1>6, <2>1 DEF Own, Moved
  <2>8. Worked(r, s, v)
    BY <1>1, <2>3, <2>5, <2>6, <2>7 DEF Worked, Own
  <2>9. x.pc # "idle"
    BY DEF Bank!ClicksToday
  <2> QED
    BY <2>8, <2>9, ScrapeKeeps
<1>7. CASE /\ ~ Bank!Alive(page) /\ Bank!Keeps(r, NoSession) /\ told' = told \cup {page}
           /\ Bank!Ends(r)
  <2> DEFINE s == Bank!Idle
             v == NoSession
  <2>1. s \in RunRow(StepsOf(kind), n) /\ s.pc = "idle" /\ s.key = "channel" /\ s.token = 0
    BY <1>1, RowIdle
  <2> HIDE DEF s
  <2>3. run' = [run EXCEPT ![r] = s] /\ kept' = [kept EXCEPT ![x.key] = v]
    BY <1>1, <1>7 DEF Bank!ClicksToday, Bank!Goes, Bank!Keeps, Bank!Leaves, Bank!Ends,
       Bank!RowsRead, Bank!RowsUnreadable, Bank!GrantExpired, s
  <2>5. UNCHANGED <<kind, config, command, dead, jobsPiled, keptLate, issued>> /\ page' \in 0 .. n
    BY <1>1, <1>7 DEF Bank!channel, Bank!history, Bank!ClicksToday, Bank!Goes, Bank!Keeps,
       Bank!Leaves, Bank!Ends, Bank!RowsRead, Bank!RowsUnreadable, Bank!GrantExpired, Bank!Alive
  <2>6. /\ told \subseteq told' /\ told' \subseteq dead \cup {0}
        /\ \A t \in told' \ told : kind \in Bank!Api => t = x.token
        /\ ~ jobsPiled /\ v # NoSession => v.token \notin told'
        /\ ~ jobsPiled /\ s.pc = "saves" => s.token \notin told'
    BY <1>1, <1>2, <1>3, <1>7, <2>1 DEF Moved, Bank!channel, Bank!history, Bank!ClicksToday,
       Bank!Goes, Bank!Keeps, Bank!Leaves, Bank!Ends, Bank!RowsRead, Bank!RowsUnreadable,
       Bank!GrantExpired, Bank!Alive
  <2>7. /\ s \in RunRow(StepsOf(kind), n) /\ Own(r, s.token) /\ (v # NoSession => Own(r, v.token) /\ v.token # 0)
        /\ (s.pc # "idle" => s.key = x.key /\ s.config = x.config)
        /\ (s.pc = "idle" => s.key = "channel" /\ s.token = 0)
        /\ (s.pc \in {"validate", "config", "saves", "fetch"} => s.token # 0)
        /\ v \in KeptRow(n) \cup {NoSession} /\ (kind \notin Bank!Api => s.token = 0)
    BY <1>1, <1>2, <1>3, <1>7, <2>1 DEF Own, Moved
  <2>8. Worked(r, s, v)
    BY <1>1, <2>3, <2>5, <2>6, <2>7 DEF Worked, Own
  <2>9. x.pc # "idle"
    BY DEF Bank!ClicksToday
  <2> QED
    BY <2>8, <2>9, ScrapeKeeps
<1> QED
  BY <1>1, <1>2, <1>4, <1>5, <1>6, <1>7 DEF Bank!ClicksToday, Bank!Goes, Bank!Keeps, Bank!Leaves,
     Bank!Ends, Bank!RowsRead, Bank!RowsUnreadable, Bank!GrantExpired

-----------------------------------------------------------------------------
(* The owner, the scheduler and the bank.                                  *)

LEMMA BeginsKeeps ==
  ASSUME KeptInv, NEW r \in Runs, NEW k \in {"channel", "test"}, Bank!Begins(r, k)
  PROVE  KeptInv'
<1> DEFINE n == Len(issued)
           p == IF kind \in Bank!Api THEN "load" ELSE IF loggedIn THEN "home" ELSE "restore"
           y == [Bank!Idle EXCEPT !.key = k, !.config = config, !.pc = p]
<1>1. n \in Nat /\ config \in Nat /\ p \in StepsOf(kind) /\ p # "saves" /\ p # "idle"
      /\ p \notin {"validate", "config", "saves", "fetch"}
  BY DEF KeptInv, BankTypes, StepsOf, ApiSteps, PageSteps
<1>2. run' = [run EXCEPT ![r] = y] /\ run[r].pc = "idle"
      /\ UNCHANGED <<kind, config, command, kept, page, issued, dead, told, keptLate>>
  BY DEF Bank!Begins, Bank!Goes, Bank!channel
<1>3. jobsPiled' \in BOOLEAN /\ (~ jobsPiled' => ~ jobsPiled /\ Bank!Active(k) = {})
  BY DEF Bank!Begins, KeptInv, BankTypes
<1>4. kind \notin Bank!Api => k = "channel"
  BY BankAssumption DEF Bank!Begins, Bank!Api, KeptInv, BankTypes
<1> HIDE DEF p
<1>5. y \in RunRow(StepsOf(kind), n) /\ y.pc = p /\ y.token = 0 /\ y.key = k /\ y.config = config
  <2> DEFINE x == Bank!Idle
             one == [x EXCEPT !.key = k]
             two == [one EXCEPT !.config = config]
  <2>1. y = [two EXCEPT !.pc = p]
    BY DEF Bank!Idle
  <2>2. x \in RunRow(StepsOf(kind), n) /\ x.token = 0
    BY <1>1, RowIdle
  <2> HIDE DEF x, y
  <2>3. one \in RunRow(StepsOf(kind), n) /\ one.token = 0 /\ one.key = k
    BY <2>2 DEF RunRow
  <2> HIDE DEF one
  <2>4. two \in RunRow(StepsOf(kind), n) /\ two.token = 0 /\ two.key = k /\ two.config = config
    BY <1>1, <2>3 DEF RunRow
  <2> HIDE DEF two
  <2> QED
    BY <1>1, <2>1, <2>4 DEF RunRow
<1> HIDE DEF y
<1>6. \A q \in Runs : run'[q] = IF q = r THEN y ELSE run[q]
  BY <1>2 DEF KeptInv, BankTypes
<1>7. BankTypes'
  BY <1>2, <1>3, <1>5 DEF KeptInv, BankTypes
<1>8. HandsFull' /\ PageIsOne' /\ OfConfig'
  BY <1>1, <1>2, <1>4, <1>5, <1>6 DEF KeptInv, HandsFull, PageIsOne, OfConfig
<1>9. KeysApart'
  BY <1>2, <1>5, <1>6 DEF KeptInv, KeysApart
<1>10. RefusedGone'
  <2>1. ASSUME ~ jobsPiled', NEW q \in Runs, NEW z \in Runs, run'[q].pc # "idle", run'[z].pc # "idle",
               run'[q].key = run'[z].key
        PROVE  q = z
    <3>1. \A u \in Runs : ~ (run[u].pc # "idle" /\ run[u].key = k)
      BY <1>3, <2>1 DEF Bank!Active
    <3> QED
      BY <1>2, <1>3, <1>5, <1>6, <2>1, <3>1 DEF KeptInv, RefusedGone
  <2> QED
    BY <1>1, <1>2, <1>3, <1>5, <1>6, <2>1 DEF KeptInv, RefusedGone
<1> QED
  BY <1>7, <1>8, <1>9, <1>10 DEF KeptInv

LEMMA ReplacesCredentialsKeeps ==
  ASSUME KeptInv, Bank!ReplacesCredentials
  PROVE  KeptInv'
<1>1. config' = 2 /\ command' = TRUE
      /\ UNCHANGED <<kind, kept, page, issued, dead, run, told, jobsPiled, keptLate>>
  BY DEF Bank!ReplacesCredentials, Bank!history
<1>2. BankTypes'
  BY <1>1 DEF KeptInv, BankTypes
<1> QED
  BY <1>1, <1>2 DEF KeptInv, HandsFull, PageIsOne, OfConfig, KeysApart, RefusedGone

LEMMA LogsOutKeeps ==
  ASSUME KeptInv, Bank!LogsOut
  PROVE  KeptInv'
<1> DEFINE n == Len(issued)
<1>1. /\ n \in Nat /\ command' = FALSE /\ 0 \in 0 .. n
      /\ UNCHANGED <<kind, config, issued, dead, told, jobsPiled>>
  BY DEF Bank!LogsOut, KeptInv, BankTypes
<1>2. CASE kind \in Bank!Api
  <2>1. /\ kept' = [kept EXCEPT !["channel"] = NoSession] /\ UNCHANGED <<page, run>>
        /\ keptLate' = (keptLate \/ Bank!Active("channel") # {})
    BY <1>2 DEF Bank!LogsOut, Bank!LoggedOut
  <2>2. kept'["channel"] = NoSession /\ kept'["test"] = kept["test"]
    BY <2>1 DEF KeptInv, BankTypes
  <2>3. BankTypes'
    BY <1>1, <2>1 DEF KeptInv, BankTypes, Bank!Active
  <2>4. HandsFull' /\ PageIsOne' /\ RefusedGone'
    BY <1>1, <2>1, <2>2 DEF KeptInv, HandsFull, PageIsOne, RefusedGone, Bank!Keys
  <2>5. KeysApart'
    BY <1>1, <2>1, <2>2 DEF KeptInv, KeysApart, Bank!Keys
  <2>6. OfConfig'
    BY <1>1, <2>1, <2>2 DEF OfConfig, Bank!Active
  <2> QED
    BY <2>3, <2>4, <2>5, <2>6 DEF KeptInv
<1>3. CASE kind \notin Bank!Api
  <2>1. page' = 0 /\ run' = [r \in Runs |-> Bank!Idle] /\ UNCHANGED <<kept, keptLate>>
    BY <1>3 DEF Bank!LogsOut
  <2>2. run' \in [Runs -> RunRow(StepsOf(kind), n)]
        /\ \A r \in Runs : run'[r].pc = "idle" /\ run'[r].key = "channel" /\ run'[r].token = 0
    BY <1>1, <2>1, RowIdle
  <2>3. BankTypes'
    BY <1>1, <2>1, <2>2 DEF KeptInv, BankTypes
  <2>4. HandsFull' /\ PageIsOne' /\ RefusedGone' /\ OfConfig'
    BY <1>1, <1>3, <2>1, <2>2 DEF KeptInv, HandsFull, PageIsOne, RefusedGone, OfConfig, Bank!Keys
  <2>5. KeysApart'
    BY <1>1, <2>1, <2>2 DEF KeptInv, KeysApart, Bank!Keys
  <2> QED
    BY <2>3, <2>4, <2>5 DEF KeptInv
<1> QED
  BY <1>2, <1>3

LEMMA ScraperRestartsKeeps ==
  ASSUME KeptInv, Bank!ScraperRestarts
  PROVE  KeptInv'
<1> DEFINE n == Len(issued)
<1>1. /\ n \in Nat /\ page' = 0 /\ run' = [r \in Runs |-> Bank!Idle] /\ 0 \in 0 .. n
      /\ UNCHANGED <<kind, config, command, kept, issued, dead, told, jobsPiled, keptLate>>
  BY DEF Bank!ScraperRestarts, Bank!channel, Bank!history, KeptInv, BankTypes
<1>2. run' \in [Runs -> RunRow(StepsOf(kind), n)]
      /\ \A r \in Runs : run'[r].pc = "idle" /\ run'[r].key = "channel" /\ run'[r].token = 0
  BY <1>1, RowIdle
<1>3. BankTypes'
  BY <1>1, <1>2 DEF KeptInv, BankTypes
<1>4. HandsFull' /\ PageIsOne' /\ RefusedGone' /\ OfConfig'
  BY <1>1, <1>2 DEF KeptInv, HandsFull, PageIsOne, RefusedGone, OfConfig, Bank!Keys
<1>5. KeysApart'
  BY <1>1, <1>2 DEF KeptInv, KeysApart, Bank!Keys
<1> QED
  BY <1>3, <1>4, <1>5 DEF KeptInv

LEMMA KeptExpiresKeeps ==
  ASSUME KeptInv, NEW k \in {"channel", "test"}, Bank!KeptExpires(k)
  PROVE  KeptInv'
<1>1. kept' = [kept EXCEPT ![k] = NoSession]
      /\ UNCHANGED <<kind, config, command, page, issued, dead, run, told, jobsPiled, keptLate>>
  BY DEF Bank!KeptExpires, Bank!channel, Bank!history
<1>2. \A m \in {"channel", "test"} : kept'[m] = kept[m] \/ kept'[m] = NoSession
  BY <1>1 DEF KeptInv, BankTypes
<1>3. BankTypes'
  BY <1>1 DEF KeptInv, BankTypes
<1>4. HandsFull' /\ PageIsOne' /\ RefusedGone'
  BY <1>1, <1>2 DEF KeptInv, HandsFull, PageIsOne, RefusedGone, Bank!Keys
<1>5. OfConfig'
  BY <1>1, <1>2 DEF KeptInv, OfConfig
<1>6. KeysApart'
  BY <1>1, <1>2 DEF KeptInv, KeysApart, Bank!Keys
<1> QED
  BY <1>3, <1>4, <1>5, <1>6 DEF KeptInv

LEMMA BankExpiresKeeps ==
  ASSUME KeptInv, NEW t \in 1 .. Len(issued), Bank!BankExpires(t)
  PROVE  KeptInv'
<1>1. dead' = dead \cup {t}
      /\ UNCHANGED <<kind, config, command, kept, page, issued, run, told, jobsPiled, keptLate>>
  BY DEF Bank!BankExpires, Bank!channel, Bank!history
<1>2. BankTypes'
  BY <1>1 DEF KeptInv, BankTypes
<1> QED
  BY <1>1, <1>2 DEF KeptInv, HandsFull, PageIsOne, OfConfig, KeysApart, RefusedGone

LEMMA KeptInit == Bank!Init => KeptInv
<1> SUFFICES ASSUME Bank!Init PROVE KeptInv
  OBVIOUS
<1>1. /\ issued = <<>> /\ Len(issued) = 0 /\ issued \in Seq(Nat) /\ page = 0 /\ config = 1
      /\ dead = {} /\ told = {} /\ kind \in Kinds
      /\ kept = [k \in {"channel", "test"} |-> NoSession] /\ run = [r \in Runs |-> Bank!Idle]
      /\ command = FALSE /\ jobsPiled = FALSE /\ keptLate = FALSE
  BY DEF Bank!Init, Bank!Keys
<1>2. run \in [Runs -> RunRow(StepsOf(kind), 0)]
      /\ \A r \in Runs : run[r].pc = "idle" /\ run[r].key = "channel" /\ run[r].token = 0
  BY <1>1, RowIdle
<1>3. BankTypes
  <2>1. page \in 0 .. 0 /\ config \in Nat /\ dead \subseteq 0 .. 0 /\ told \subseteq dead \cup {0}
    BY <1>1
  <2>2. command \in BOOLEAN /\ jobsPiled \in BOOLEAN /\ keptLate \in BOOLEAN
    BY <1>1
  <2>3. kept \in [{"channel", "test"} -> KeptRow(0) \cup {NoSession}]
    BY <1>1
  <2> QED
    BY <1>1, <1>2, <2>1, <2>2, <2>3 DEF BankTypes
<1>4. HandsFull /\ PageIsOne /\ RefusedGone /\ OfConfig /\ KeysApart
  BY <1>1, <1>2 DEF HandsFull, PageIsOne, RefusedGone, OfConfig, KeysApart, Bank!Keys
<1> QED
  BY <1>3, <1>4 DEF KeptInv

LEMMA KeptStep == KeptInv /\ [Bank!Next]_(Bank!vars) => KeptInv'
<1> SUFFICES ASSUME KeptInv, [Bank!Next]_(Bank!vars) PROVE KeptInv'
  OBVIOUS
<1>1. CASE UNCHANGED Bank!vars
  BY <1>1 DEF Bank!vars, KeptInv, BankTypes, HandsFull, PageIsOne, OfConfig, KeysApart, RefusedGone
<1>2. ASSUME NEW r \in Runs, NEW k \in Bank!Keys, Bank!Begins(r, k) PROVE KeptInv'
  BY <1>2, BeginsKeeps DEF Bank!Keys
<1>3. ASSUME NEW r \in Runs,
             \/ Bank!LoadsKept(r) \/ Bank!Validates(r) \/ Bank!LogsIn(r) \/ Bank!LoginRefused(r)
             \/ Bank!LearnsMerchant(r) \/ Bank!SavesSession(r) \/ Bank!Fetches(r) \/ Bank!Throws(r)
      PROVE  KeptInv'
  BY <1>3, LoadsKeptKeeps, ValidatesKeeps, LogsInKeeps, LoginRefusedKeeps, LearnsMerchantKeeps,
     SavesSessionKeeps, FetchesKeeps, ThrowsKeeps
<1>4. ASSUME NEW r \in Runs,
             \/ Bank!Restores(r) \/ Bank!ChecksHome(r) \/ Bank!TypesPassword(r)
             \/ Bank!TypingFails(r) \/ Bank!SeesHome(r) \/ Bank!PageRefreshes(r)
             \/ Bank!ClicksToday(r)
      PROVE  KeptInv'
  BY <1>4, RestoresKeeps, ChecksHomeKeeps, TypesPasswordKeeps, TypingFailsKeeps, SeesHomeKeeps,
     PageRefreshesKeeps, ClicksTodayKeeps
<1>5. ASSUME NEW k \in Bank!Keys, Bank!KeptExpires(k) PROVE KeptInv'
  BY <1>5, KeptExpiresKeeps DEF Bank!Keys
<1>6. ASSUME NEW t \in (1 .. Len(issued)) \ dead, Bank!BankExpires(t) PROVE KeptInv'
  BY <1>6, BankExpiresKeeps
<1> QED
  BY <1>1, <1>2, <1>3, <1>4, <1>5, <1>6, ReplacesCredentialsKeeps, LogsOutKeeps,
     ScraperRestartsKeeps DEF Bank!Next

\* The session that waits in Redis for the next scrape is of the credentials the channel
\* has now, once its old one has been ended with no scrape under way, and is not one the
\* bank has already refused to a scrape, as long as scrapes of a key do not overlap.
THEOREM BankSessionKept == Bank!Spec => []KeptIsGood
<1>1. KeptInv => KeptIsGood
  <2> SUFFICES ASSUME KeptInv PROVE KeptIsGood
    OBVIOUS
  <2>1. Bank!TokenIsOfConfig
    BY DEF KeptInv, OfConfig, Bank!TokenIsOfConfig
  <2>2. Bank!RefusedNotKept
    BY DEF KeptInv, RefusedGone, Bank!RefusedNotKept
  <2> QED
    BY <2>1, <2>2 DEF KeptIsGood, Bank!KeptIsGood
<1> QED
  BY KeptInit, KeptStep, <1>1, PTL DEF Bank!Spec

-----------------------------------------------------------------------------
(* The pool of browsers (BrowserPool).                                     *)

NoCall == Pool!Idle

\* The state of a call in progress.
CallRow ==
  [op : {"scrape", "now", "test", "clean", "sweep", "deploy"},
   at : {"check", "closing", "room", "launch", "set", "using", "next"},
   id : Pool!Ids \cup {"none"}, browser : Nat, victim : Pool!Ids \cup {"none"},
   after : {"room", "launch", "end", "next"}, todo : SUBSET Pool!Ids]

\* What a call has in its hands at the await it is in; l: who browsers were launched for.
Fits(r, l) ==
  /\ r \in CallRow
  /\ r.at = "set" => r.browser \in 1 .. Len(l) /\ l[r.browser] = r.id
  /\ r.at = "closing" => r.victim \in Pool!Ids
  /\ r.at = "closing" /\ r.after = "room" => r.victim = r.id
  /\ r.op \in {"sweep", "deploy"} => r.at = "next" \/ (r.at = "closing" /\ r.after = "next")
  /\ r.op \notin {"sweep", "deploy"} =>
       r.id \in Pool!Ids /\ r.at # "next" /\ (r.at = "closing" => r.after # "next")

PoolTypes ==
  /\ pool \in [Pool!Ids -> Nat] /\ launched \in Seq(Pool!Ids) /\ running \subseteq 1 .. Len(launched)
  /\ call \in [Calls -> CallRow \cup {NoCall}]
  /\ \A k \in Calls : call[k] # NoCall => Fits(call[k], launched)

\* One call at a time is at the entry of an id that is not overlapped ...
OneTouches ==
  \A c \in Pool!Ids : c \notin overlapped =>
    \A j, k \in Calls : c \in Pool!Touches(call[j]) /\ c \in Pool!Touches(call[k]) => j = k

\* ... so that it finds the entry as it has left it.
LeftAs(r) ==
  /\ Pool!MakingRoom(r) /\ r.id \notin overlapped => pool[r.id] = 0
  /\ r.at = "closing" /\ r.victim \notin overlapped => pool[r.victim] = r.browser

EntryStays == \A k \in Calls : call[k] # NoCall => LeftAs(call[k])

\* A running browser is in the pool, or about to be entered.
Known ==
  \A b \in running : launched[b] \notin overlapped =>
    \/ pool[launched[b]] = b
    \/ \E k \in Calls : call[k] # NoCall /\ call[k].at = "set" /\ call[k].browser = b

\* A deployment that nothing interferes with is alone, and has listed what is left.
LastCall(k) ==
  /\ call[k] # NoCall /\ call[k].op = "deploy"
  /\ \A j \in Calls : j # k => call[j] = NoCall
  /\ \A c \in Pool!Ids : pool[c] # 0 =>
       c \in call[k].todo \/ (call[k].at = "closing" /\ c = call[k].victim)

DeployAlone ==
  /\ deploy \notin {"listed", "answered"} =>
       \A k \in Calls : call[k] # NoCall => call[k].op # "deploy"
  /\ deploy \in {"listed", "answered"} => late \/ ~ polling
  /\ deploy = "listed" => late \/ \E k \in Calls : LastCall(k)
  /\ deploy = "answered" =>
       late \/ ((\A k \in Calls : call[k] = NoCall) /\ \A c \in Pool!Ids : pool[c] = 0)

PoolInv == PoolTypes /\ OneTouches /\ EntryStays /\ Known /\ DeployAlone

-----------------------------------------------------------------------------

\* What is at the await of a call in progress.
LEMMA CallAt ==
  ASSUME PoolInv, NEW k \in Calls, call[k] # NoCall
  PROVE  /\ call[k] \in CallRow /\ Fits(call[k], launched) /\ LeftAs(call[k])
         /\ call[k].op \in {"scrape", "now", "test", "clean", "sweep", "deploy"}
         /\ call[k].browser \in Nat
         /\ call[k].at \notin {"next", "closing"} =>
              call[k].id \in Pool!Ids /\ call[k].op \notin {"sweep", "deploy"}
         /\ pool \in [Pool!Ids -> Nat]
BY DEF PoolInv, PoolTypes, EntryStays, Fits, CallRow

LEMMA RowIsACall == \A r \in CallRow : r # NoCall
<1>1. ASSUME NEW r \in CallRow PROVE r # NoCall
  <2>1. r.op # "idle"
    BY DEF CallRow
  <2>2. NoCall.op = "idle"
    BY DEF NoCall, Pool!Idle
  <2> QED BY <2>1, <2>2
<1> QED BY <1>1

\* The entry a call is at is one of the pool.
LEMMA TouchesIds ==
  ASSUME NEW r \in CallRow, NEW l, Fits(r, l), NEW c \in Pool!Touches(r)
  PROVE  c \in Pool!Ids
BY DEF Fits, CallRow, Pool!Touches, Pool!MakingRoom

LEMMA GoesAlone ==
  ASSUME PoolInv, NEW k \in Calls, NEW r, Pool!GoOn(k, r)
  PROVE  /\ \A j \in Calls : call'[j] = IF j = k THEN r ELSE call[j]
         /\ overlapped \subseteq overlapped' /\ OneTouches'
         /\ late => late'
         /\ deploy \in {"listed", "answered"} /\ r # NoCall /\ r.op \notin {"scrape", "deploy"} => late'
<1>1. \A j \in Calls : call'[j] = IF j = k THEN r ELSE call[j]
  BY DEF PoolInv, PoolTypes, Pool!GoOn
<1>2. overlapped \subseteq overlapped'
  BY DEF Pool!GoOn
<1>3. ASSUME NEW c, c \notin overlapped', c \in Pool!Touches(r), NEW j \in Calls, j # k
      PROVE  c \notin Pool!Touches(call[j])
  BY <1>3 DEF Pool!GoOn
<1>4. OneTouches'
  <2> SUFFICES ASSUME NEW c \in Pool!Ids, c \notin overlapped', NEW i \in Calls, NEW j \in Calls,
                      c \in Pool!Touches(call'[i]), c \in Pool!Touches(call'[j])
               PROVE  i = j
    BY DEF OneTouches, Pool!Touches, Pool!MakingRoom
  <2> QED
    BY <1>1, <1>2, <1>3 DEF PoolInv, OneTouches
<1> QED
  BY <1>1, <1>2, <1>4 DEF Pool!GoOn, NoCall

\* A call goes on as r, and the entries and the browsers stay as they are.
Quiet(k, r) ==
  /\ Pool!GoOn(k, r) /\ UNCHANGED <<pool, running, launched, deploy, polling>>
  /\ call[k] # NoCall => call[k].at # "set" /\ call[k].op # "deploy"
  /\ call[k] = NoCall => r # NoCall /\ (r.op = "scrape" => deploy = "no")
  /\ r # NoCall => r.op # "deploy" /\ Fits(r, launched)
  /\ r # NoCall /\ Pool!MakingRoom(r) /\ r.id \notin overlapped => pool[r.id] = 0
  /\ r # NoCall /\ r.at = "closing" => pool[r.victim] = r.browser

LEMMA QuietKeeps ==
  ASSUME PoolInv, NEW k \in Calls, NEW r, Quiet(k, r)
  PROVE  PoolInv'
<1>1. /\ \A j \in Calls : call'[j] = IF j = k THEN r ELSE call[j]
      /\ overlapped \subseteq overlapped' /\ OneTouches'
      /\ late => late'
      /\ deploy \in {"listed", "answered"} /\ r # NoCall /\ r.op \notin {"scrape", "deploy"} => late'
  BY GoesAlone DEF Quiet
<1>2. PoolTypes'
  <2>1. r \in CallRow \cup {NoCall}
    BY DEF Quiet, Fits
  <2>2. call' \in [Calls -> CallRow \cup {NoCall}]
    BY <2>1 DEF Quiet, Pool!GoOn, PoolInv, PoolTypes
  <2> QED
    BY <1>1, <2>2 DEF PoolInv, PoolTypes, Quiet
<1>3. EntryStays'
  BY <1>1 DEF PoolInv, EntryStays, LeftAs, Quiet, Pool!MakingRoom
<1>4. Known'
  BY <1>1 DEF PoolInv, Known, Quiet
<1>5. DeployAlone'
  <2> SUFFICES ASSUME deploy \in {"listed", "answered"} PROVE late'
    BY <1>1 DEF PoolInv, DeployAlone, Quiet
  <2>1. CASE late
    BY <1>1, <2>1
  <2>2. CASE ~ late /\ call[k] = NoCall
    BY <1>1, <2>2 DEF Quiet
  <2>3. CASE ~ late /\ call[k] # NoCall
    BY <2>3 DEF PoolInv, DeployAlone, LastCall, Quiet
  <2> QED
    BY <2>1, <2>2, <2>3
<1> QED
  BY <1>1, <1>2, <1>3, <1>4, <1>5 DEF PoolInv

\* To close a session, or to look for room: x is what becomes of r.
LEMMA DestroyFits ==
  ASSUME NEW r \in CallRow, NEW c \in Pool!Ids, NEW a \in {"room", "launch", "end", "next"},
         pool \in [Pool!Ids -> Nat]
  PROVE  LET x == Pool!Destroy(r, c, a) IN
           /\ x \in CallRow /\ x.at = "closing" /\ x.victim = c /\ x.after = a
           /\ x.browser = pool[c] /\ x.op = r.op /\ x.id = r.id /\ x.todo = r.todo
BY DEF CallRow, Pool!Destroy

LEMMA ThenFits ==
  ASSUME NEW r \in CallRow, NEW a \in {"room", "launch", "next"}
  PROVE  LET x == Pool!Then(r, a) IN
           /\ x \in CallRow /\ x.at = a /\ x.victim = r.victim /\ x.after = r.after
           /\ x.op = r.op /\ x.id = r.id /\ x.todo = r.todo
BY DEF CallRow, Pool!Then

LEMMA BeginFits ==
  ASSUME NEW op \in {"scrape", "now", "test", "clean", "sweep", "deploy"},
         NEW c \in Pool!Ids \cup {"none"}
  PROVE  LET x == Pool!Begin(op, c) IN
           /\ x \in CallRow /\ x.at = "room" /\ x.victim = c /\ x.after = "end"
           /\ x.browser = 0 /\ x.op = op /\ x.id = c /\ x.todo = {}
BY DEF CallRow, Pool!Begin

\* From the look at the size to the launch, or to the eviction of another.
LEMMA MakesRoomKeeps ==
  ASSUME PoolInv, NEW k \in Calls, NEW r \in CallRow, Pool!MakesRoom(k, r),
         UNCHANGED <<pool, running, launched, deploy, polling>>,
         call[k] # NoCall => call[k].at # "set" /\ call[k].op # "deploy",
         call[k] = NoCall => (r.op = "scrape" => deploy = "no"),
         r.op \notin {"sweep", "deploy"}, r.id \in Pool!Ids,
         r.id \notin overlapped => pool[r.id] = 0
  PROVE  PoolInv'
<1>1. pool \in [Pool!Ids -> Nat]
  BY DEF PoolInv, PoolTypes
<1>2. ASSUME NEW c \in Pool!Oldest, Pool!GoOn(k, Pool!Destroy(r, c, "launch"))
      PROVE  PoolInv'
  <2> DEFINE x == Pool!Destroy(r, c, "launch")
  <2>1. c \in Pool!Ids
    BY DEF Pool!Oldest, Pool!Listed
  <2>2. /\ x \in CallRow /\ x.at = "closing" /\ x.victim = c /\ x.after = "launch"
        /\ x.browser = pool[c] /\ x.op = r.op /\ x.id = r.id
    BY <1>1, <2>1, DestroyFits
  <2> HIDE DEF x
  <2>3. Quiet(k, x)
    BY <1>2, <2>1, <2>2, RowIsACall DEF Quiet, Fits, x
  <2> QED
    BY <2>3, QuietKeeps
<1>3. ASSUME Pool!GoOn(k, [r EXCEPT !.at = "launch"])
      PROVE  PoolInv'
  <2> DEFINE x == [r EXCEPT !.at = "launch"]
  <2>1. x \in CallRow /\ x.at = "launch" /\ x.op = r.op /\ x.id = r.id
    BY DEF CallRow
  <2> HIDE DEF x
  <2>2. Quiet(k, x)
    BY <1>3, <2>1, RowIsACall DEF Quiet, Fits, x
  <2> QED
    BY <2>2, QuietKeeps
<1> QED
  BY <1>2, <1>3 DEF Pool!MakesRoom

-----------------------------------------------------------------------------
(* What leaves the entries alone.                                          *)

LEMMA GetSessionKeeps ==
  ASSUME PoolInv, NEW k \in Calls, NEW op \in {"scrape", "now", "test"}, NEW c \in Pool!Ids,
         Pool!GetSession(k, op, c)
  PROVE  PoolInv'
<1> DEFINE r == Pool!Begin(op, c)
           x == [r EXCEPT !.at = "check", !.browser = pool[c]]
<1>1. /\ call[k] = NoCall /\ UNCHANGED <<pool, running, launched, deploy, polling>>
      /\ pool[c] \in Nat /\ (op = "scrape" => deploy = "no")
      /\ r \in CallRow /\ r.at = "room" /\ r.op = op /\ r.id = c
  BY BeginFits DEF Pool!GetSession, Pool!MayCall, Pool!Same, Pool!Untouched, NoCall, PoolInv, PoolTypes
<1>2. \/ pool[c] = 0 /\ Pool!MakesRoom(k, r)
      \/ Pool!GoOn(k, x)
  BY DEF Pool!GetSession
<1> HIDE DEF r
<1>3. x \in CallRow /\ x.at = "check" /\ x.op = op /\ x.id = c
  BY <1>1 DEF CallRow
<1> HIDE DEF x
<1>4. CASE pool[c] = 0 /\ Pool!MakesRoom(k, r)
  BY <1>1, <1>4, MakesRoomKeeps
<1>5. CASE Pool!GoOn(k, x)
  <2>1. Quiet(k, x)
    BY <1>1, <1>3, <1>5, RowIsACall DEF Quiet, Fits, Pool!MakingRoom
  <2> QED
    BY <2>1, QuietKeeps
<1> QED
  BY <1>2, <1>4, <1>5

LEMMA StillAliveKeeps ==
  ASSUME PoolInv, NEW k \in Calls, Pool!StillAlive(k)
  PROVE  PoolInv'
<1> DEFINE r == call[k]
           x == [r EXCEPT !.at = "using"]
<1>1. /\ r # NoCall /\ r.at = "check" /\ Pool!GoOn(k, x)
      /\ UNCHANGED <<pool, running, launched, deploy, polling>>
  BY DEF Pool!StillAlive, Pool!Untouched, NoCall
<1>2. /\ r \in CallRow /\ r.id \in Pool!Ids /\ r.op \notin {"sweep", "deploy"}
  BY <1>1, CallAt
<1>3. x \in CallRow /\ x.at = "using" /\ x.op = r.op /\ x.id = r.id
  BY <1>2 DEF CallRow
<1> HIDE DEF x
<1>4. Quiet(k, x)
  BY <1>1, <1>2, <1>3, RowIsACall DEF Quiet, Fits, Pool!MakingRoom
<1> QED
  BY <1>4, QuietKeeps

LEMMA FoundDeadKeeps ==
  ASSUME PoolInv, NEW k \in Calls, Pool!FoundDead(k)
  PROVE  PoolInv'
<1> DEFINE r == call[k]
           x == [r EXCEPT !.browser = 0]
           d == Pool!Destroy(r, r.id, "room")
<1>1. /\ r # NoCall /\ r.at = "check" /\ UNCHANGED <<pool, running, launched, deploy, polling>>
  BY DEF Pool!FoundDead, Pool!Same, Pool!Untouched, NoCall
<1>2. \/ pool[r.id] = 0 /\ Pool!MakesRoom(k, x)
      \/ Pool!GoOn(k, d)
  BY DEF Pool!FoundDead
<1>3. /\ r \in CallRow /\ r.id \in Pool!Ids /\ r.op \notin {"sweep", "deploy"}
      /\ pool \in [Pool!Ids -> Nat]
  BY <1>1, CallAt
<1>4. x \in CallRow /\ x.op = r.op /\ x.id = r.id
  BY <1>3 DEF CallRow
<1>5. /\ d \in CallRow /\ d.at = "closing" /\ d.victim = r.id /\ d.after = "room"
      /\ d.browser = pool[r.id] /\ d.op = r.op /\ d.id = r.id
  BY <1>3, DestroyFits
<1> HIDE DEF x, d
<1>6. CASE pool[r.id] = 0 /\ Pool!MakesRoom(k, x)
  BY <1>1, <1>3, <1>4, <1>6, MakesRoomKeeps
<1>7. CASE Pool!GoOn(k, d)
  <2>1. Quiet(k, d)
    BY <1>1, <1>3, <1>5, <1>7, RowIsACall DEF Quiet, Fits, Pool!MakingRoom
  <2> QED
    BY <2>1, QuietKeeps
<1> QED
  BY <1>2, <1>6, <1>7

LEMMA LookAtSizeKeeps ==
  ASSUME PoolInv, NEW k \in Calls, Pool!LookAtSize(k)
  PROVE  PoolInv'
<1>1. /\ call[k] # NoCall /\ call[k].at = "room" /\ Pool!MakesRoom(k, call[k])
      /\ UNCHANGED <<pool, running, launched, deploy, polling>>
  BY DEF Pool!LookAtSize, Pool!Same, Pool!Untouched, NoCall
<1>2. /\ call[k] \in CallRow /\ call[k].id \in Pool!Ids /\ call[k].op \notin {"sweep", "deploy"}
      /\ call[k].id \notin overlapped => pool[call[k].id] = 0
  BY <1>1, CallAt DEF LeftAs, Pool!MakingRoom, NoCall
<1> QED
  BY <1>1, <1>2, MakesRoomKeeps

LEMMA EndsQuiet ==
  ASSUME PoolInv, NEW k \in Calls, Pool!End(k), call[k] # NoCall,
         call[k].at # "set", call[k].op # "deploy",
         UNCHANGED <<pool, running, launched, deploy, polling>>
  PROVE  PoolInv'
<1>1. Quiet(k, NoCall)
  BY DEF Quiet, Pool!End, NoCall
<1> QED
  BY <1>1, QuietKeeps

LEMMA LaunchFailsKeeps ==
  ASSUME PoolInv, NEW k \in Calls, Pool!LaunchFails(k)
  PROVE  PoolInv'
<1>1. /\ call[k] # NoCall /\ call[k].at = "launch" /\ Pool!End(k)
      /\ UNCHANGED <<pool, running, launched, deploy, polling>>
  BY DEF Pool!LaunchFails, Pool!Same, Pool!Untouched, NoCall
<1> QED
  BY <1>1, CallAt, EndsQuiet

LEMMA EndUseKeeps ==
  ASSUME PoolInv, NEW k \in Calls, Pool!EndUse(k)
  PROVE  PoolInv'
<1> DEFINE r == call[k]
           d == Pool!Destroy(r, r.id, "end")
<1>1. /\ r # NoCall /\ r.at = "using" /\ UNCHANGED <<pool, running, launched, deploy, polling>>
      /\ Pool!End(k) \/ Pool!GoOn(k, d)
  BY DEF Pool!EndUse, Pool!Same, Pool!Untouched, NoCall, Pool!DestroyOrSkip, Pool!Then, Pool!End
<1>2. /\ r \in CallRow /\ r.id \in Pool!Ids /\ r.op \notin {"sweep", "deploy"}
      /\ pool \in [Pool!Ids -> Nat]
  BY <1>1, CallAt
<1>3. /\ d \in CallRow /\ d.at = "closing" /\ d.victim = r.id /\ d.after = "end"
      /\ d.browser = pool[r.id] /\ d.op = r.op /\ d.id = r.id
  BY <1>2, DestroyFits
<1> HIDE DEF d
<1>4. CASE Pool!End(k)
  BY <1>1, <1>2, <1>4, EndsQuiet
<1>5. CASE Pool!GoOn(k, d)
  <2>1. Quiet(k, d)
    BY <1>1, <1>2, <1>3, <1>5, RowIsACall DEF Quiet, Fits, Pool!MakingRoom
  <2> QED
    BY <2>1, QuietKeeps
<1> QED
  BY <1>1, <1>4, <1>5

LEMMA CleanBrowserKeeps ==
  ASSUME PoolInv, NEW k \in Calls, NEW c \in Browsed, Pool!CleanBrowser(k, c)
  PROVE  PoolInv'
<1> DEFINE r == Pool!Begin("clean", c)
           d == Pool!Destroy(r, c, "end")
<1>1. /\ call[k] = NoCall /\ UNCHANGED <<pool, running, launched, deploy, polling>>
      /\ c \in Pool!Ids /\ pool \in [Pool!Ids -> Nat] /\ Pool!GoOn(k, d)
  BY DEF Pool!CleanBrowser, Pool!Same, Pool!Untouched, NoCall, PoolInv, PoolTypes, Pool!Ids
<1>2. r \in CallRow /\ r.op = "clean" /\ r.id = c
  BY <1>1, BeginFits
<1> HIDE DEF r
<1>3. /\ d \in CallRow /\ d.at = "closing" /\ d.victim = c /\ d.after = "end"
      /\ d.browser = pool[c] /\ d.op = "clean" /\ d.id = c
  BY <1>1, <1>2, DestroyFits
<1> HIDE DEF d
<1>4. Quiet(k, d)
  BY <1>1, <1>3, RowIsACall DEF Quiet, Fits, Pool!MakingRoom
<1> QED
  BY <1>4, QuietKeeps

LEMMA StartCleanupKeeps ==
  ASSUME PoolInv, NEW k \in Calls, Pool!StartCleanup(k)
  PROVE  PoolInv'
<1> DEFINE r == Pool!Begin("sweep", "none")
           x == [r EXCEPT !.at = "next", !.todo = Pool!Listed]
<1>1. /\ call[k] = NoCall /\ UNCHANGED <<pool, running, launched, deploy, polling>>
      /\ Pool!GoOn(k, x)
  BY DEF Pool!StartCleanup, Pool!Same, Pool!Untouched, NoCall, Pool!NoId
<1>2. r \in CallRow /\ r.op = "sweep"
  BY BeginFits
<1> HIDE DEF r
<1>3. x \in CallRow /\ x.at = "next" /\ x.op = "sweep"
  BY <1>2 DEF CallRow, Pool!Listed
<1> HIDE DEF x
<1>4. Quiet(k, x)
  BY <1>1, <1>3, RowIsACall DEF Quiet, Fits, Pool!MakingRoom
<1> QED
  BY <1>4, QuietKeeps

LEMMA SweepNextKeeps ==
  ASSUME PoolInv, NEW k \in Calls, Pool!SweepNext(k)
  PROVE  PoolInv'
<1> DEFINE r == call[k]
<1>1. /\ r # NoCall /\ r.at = "next" /\ r.op = "sweep"
      /\ UNCHANGED <<pool, running, launched, deploy, polling>>
  BY DEF Pool!SweepNext, Pool!Same, Pool!Untouched, NoCall
<1>2. r \in CallRow /\ pool \in [Pool!Ids -> Nat]
  BY <1>1, CallAt
<1>3. CASE Pool!End(k)
  BY <1>1, <1>3, EndsQuiet
<1>4. ASSUME NEW c \in r.todo, Pool!GoOn(k, [r EXCEPT !.todo = @ \ {c}])
      PROVE  PoolInv'
  <2> DEFINE x == [r EXCEPT !.todo = @ \ {c}]
  <2>1. x \in CallRow /\ x.at = "next" /\ x.op = "sweep"
    BY <1>1, <1>2 DEF CallRow
  <2> HIDE DEF x
  <2>2. Quiet(k, x)
    BY <1>1, <1>4, <2>1, RowIsACall DEF Quiet, Fits, Pool!MakingRoom, x
  <2> QED
    BY <2>2, QuietKeeps
<1>5. ASSUME NEW c \in r.todo, Pool!GoOn(k, Pool!Destroy([r EXCEPT !.todo = @ \ {c}], c, "next"))
      PROVE  PoolInv'
  <2> DEFINE x == [r EXCEPT !.todo = @ \ {c}]
             d == Pool!Destroy(x, c, "next")
  <2>1. x \in CallRow /\ x.op = "sweep" /\ c \in Pool!Ids
    BY <1>1, <1>2 DEF CallRow
  <2> HIDE DEF x
  <2>2. /\ d \in CallRow /\ d.at = "closing" /\ d.victim = c /\ d.after = "next"
        /\ d.browser = pool[c] /\ d.op = "sweep"
    BY <1>2, <2>1, DestroyFits
  <2> HIDE DEF d
  <2>3. Quiet(k, d)
    BY <1>1, <1>5, <2>1, <2>2, RowIsACall DEF Quiet, Fits, Pool!MakingRoom, x, d
  <2> QED
    BY <2>3, QuietKeeps
<1> QED
  BY <1>3, <1>4, <1>5 DEF Pool!SweepNext

-----------------------------------------------------------------------------
(* What writes an entry, starts a browser or closes one.                   *)

LEMMA LaunchKeeps ==
  ASSUME PoolInv, NEW k \in Calls, Pool!Launch(k)
  PROVE  PoolInv'
<1> DEFINE n == Len(launched)
           r == call[k]
           x == [r EXCEPT !.at = "set", !.browser = Len(launched')]
<1>1. /\ r # NoCall /\ r.at = "launch" /\ UNCHANGED <<pool, deploy, polling>>
      /\ launched' = Append(launched, r.id) /\ running' = running \cup {Len(launched')}
      /\ Pool!GoOn(k, x)
  BY DEF Pool!Launch, Pool!Untouched, NoCall
<1>2. /\ r \in CallRow /\ r.id \in Pool!Ids /\ r.op \notin {"sweep", "deploy"}
      /\ r.id \notin overlapped => pool[r.id] = 0
  BY <1>1, CallAt DEF LeftAs, Pool!MakingRoom, NoCall
<1>3. /\ n \in Nat /\ launched' \in Seq(Pool!Ids) /\ Len(launched') = n + 1
      /\ launched'[n + 1] = r.id /\ \A b \in 1 .. n : launched'[b] = launched[b]
  BY <1>1, <1>2 DEF PoolInv, PoolTypes
<1>4. x \in CallRow /\ x.at = "set" /\ x.op = r.op /\ x.id = r.id /\ x.browser = n + 1
  <2> DEFINE b == n + 1
  <2>1. x = [[r EXCEPT !.at = "set"] EXCEPT !.browser = b] /\ b \in Nat
    BY <1>2, <1>3 DEF CallRow
  <2> HIDE DEF b, x
  <2>2. x \in CallRow /\ x.at = "set" /\ x.op = r.op /\ x.id = r.id /\ x.browser = b
    BY <1>2, <2>1 DEF CallRow
  <2> QED
    BY <2>2 DEF b
<1> HIDE DEF x
<1>5. /\ \A j \in Calls : call'[j] = IF j = k THEN x ELSE call[j]
      /\ overlapped \subseteq overlapped' /\ OneTouches'
      /\ late => late'
      /\ deploy \in {"listed", "answered"} /\ x # NoCall /\ x.op \notin {"scrape", "deploy"} => late'
  BY <1>1, GoesAlone
<1>6. x # NoCall
  BY <1>4, RowIsACall
<1>7. PoolTypes'
  <2>1. call' \in [Calls -> CallRow \cup {NoCall}]
    BY <1>1, <1>4 DEF Pool!GoOn, PoolInv, PoolTypes
  <2>2. Fits(x, launched')
    BY <1>2, <1>3, <1>4 DEF Fits
  <2>3. ASSUME NEW j \in Calls, call'[j] # NoCall PROVE Fits(call'[j], launched')
    <3>1. CASE j = k
      BY <1>5, <2>2, <3>1
    <3>2. CASE j # k
      <4>1. call'[j] = call[j] /\ Fits(call[j], launched)
        BY <1>5, <2>3, <3>2 DEF PoolInv, PoolTypes
      <4>2. call[j].at = "set" =>
              call[j].browser \in 1 .. Len(launched') /\ launched'[call[j].browser] = call[j].id
        <5> SUFFICES ASSUME call[j].at = "set"
                     PROVE  call[j].browser \in 1 .. n + 1 /\ launched'[call[j].browser] = call[j].id
          BY <1>3
        <5>1. call[j].browser \in 1 .. n /\ launched[call[j].browser] = call[j].id
          BY <4>1 DEF Fits
        <5>2. launched'[call[j].browser] = launched[call[j].browser]
          BY <1>3, <5>1
        <5> QED
          BY <1>3, <5>1, <5>2
      <4> QED
        BY <4>1, <4>2 DEF Fits
    <3> QED BY <3>1, <3>2
  <2>4. running' \subseteq 1 .. Len(launched') /\ pool' \in [Pool!Ids -> Nat]
    <3>1. running \subseteq 1 .. n /\ pool \in [Pool!Ids -> Nat]
      BY DEF PoolInv, PoolTypes
    <3>2. 1 .. n \subseteq 1 .. n + 1 /\ n + 1 \in 1 .. n + 1
      BY <1>3
    <3>3. running' = running \cup {n + 1} /\ pool' = pool
      BY <1>1, <1>3
    <3> QED
      BY <1>3, <3>1, <3>2, <3>3
  <2> QED
    BY <1>3, <2>1, <2>3, <2>4 DEF PoolTypes
<1>8. EntryStays'
  <2>1. x.id \notin overlapped' => pool[x.id] = 0
    BY <1>2, <1>4, <1>5
  <2> QED
    BY <1>1, <1>4, <1>5, <2>1 DEF PoolInv, EntryStays, LeftAs, Pool!MakingRoom
<1>9. Known'
  <2> SUFFICES ASSUME NEW b \in running', launched'[b] \notin overlapped'
               PROVE  \/ pool[launched'[b]] = b
                      \/ \E j \in Calls : call'[j] # NoCall /\ call'[j].at = "set" /\ call'[j].browser = b
    BY <1>1 DEF Known
  <2>1. CASE b = n + 1
    BY <1>4, <1>5, <1>6, <2>1
  <2>2. CASE b \in running
    <3>1. launched'[b] = launched[b]
      BY <1>3, <2>2 DEF PoolInv, PoolTypes
    <3> QED
      BY <1>1, <1>5, <2>2, <3>1 DEF PoolInv, Known
  <2> QED
    BY <1>1, <1>3, <2>1, <2>2
<1>10. DeployAlone'
  BY <1>1, <1>2, <1>4, <1>5 DEF PoolInv, DeployAlone, LastCall
<1> QED
  BY <1>5, <1>7, <1>8, <1>9, <1>10 DEF PoolInv

LEMMA SetSessionKeeps ==
  ASSUME PoolInv, NEW k \in Calls, Pool!SetSession(k)
  PROVE  PoolInv'
<1> DEFINE r == call[k]
           x == [r EXCEPT !.at = "using"]
<1>1. /\ r # NoCall /\ r.at = "set" /\ UNCHANGED <<running, launched, deploy, polling>>
      /\ pool' = [pool EXCEPT ![r.id] = r.browser] /\ Pool!GoOn(k, x)
  BY DEF Pool!SetSession, Pool!Untouched, NoCall
<1>2. /\ r \in CallRow /\ r.id \in Pool!Ids /\ r.op \notin {"sweep", "deploy"}
      /\ r.browser \in 1 .. Len(launched) /\ launched[r.browser] = r.id
      /\ r.id \notin overlapped => pool[r.id] = 0
  BY <1>1, CallAt DEF LeftAs, Fits, Pool!MakingRoom, NoCall
<1>3. x \in CallRow /\ x.at = "using" /\ x.op = r.op /\ x.id = r.id
  BY <1>2 DEF CallRow
<1> HIDE DEF x
<1>4. /\ \A j \in Calls : call'[j] = IF j = k THEN x ELSE call[j]
      /\ overlapped \subseteq overlapped' /\ OneTouches'
      /\ late => late'
  BY <1>1, GoesAlone
<1>5. \A c \in Pool!Ids : pool'[c] = IF c = r.id THEN r.browser ELSE pool[c]
  BY <1>1 DEF PoolInv, PoolTypes
<1>6. PoolTypes'
  <2>1. call' \in [Calls -> CallRow \cup {NoCall}]
    BY <1>1, <1>3 DEF Pool!GoOn, PoolInv, PoolTypes
  <2>2. Fits(x, launched)
    BY <1>2, <1>3 DEF Fits
  <2>3. pool' \in [Pool!Ids -> Nat]
    BY <1>1, <1>2 DEF PoolInv, PoolTypes
  <2> QED
    BY <1>1, <1>4, <2>1, <2>2, <2>3 DEF PoolInv, PoolTypes
\* Nobody else is at the entry.
<1>7. ASSUME NEW j \in Calls, j # k, r.id \notin overlapped, r.id \in Pool!Touches(call[j])
      PROVE  FALSE
  <2>1. r.id \in Pool!Touches(r)
    BY <1>1 DEF Pool!Touches, Pool!MakingRoom, NoCall
  <2> QED
    BY <1>2, <1>7, <2>1 DEF PoolInv, OneTouches
<1>8. EntryStays'
  <2> SUFFICES ASSUME NEW j \in Calls, call'[j] # NoCall PROVE LeftAs(call[j])'
    BY DEF EntryStays
  <2>1. CASE j = k
    BY <1>3, <1>4, <2>1 DEF LeftAs, Pool!MakingRoom
  <2>2. CASE j # k
    <3>1. call'[j] = call[j] /\ LeftAs(call[j]) /\ Fits(call[j], launched)
      BY <1>4, <2>2, CallAt
    <3>2. /\ Pool!MakingRoom(call[j]) => call[j].id \in Pool!Touches(call[j])
          /\ call[j].at = "closing" => call[j].victim \in Pool!Touches(call[j])
      BY <1>4, <2>2 DEF Pool!Touches, NoCall
    <3>3. /\ Pool!MakingRoom(call[j]) /\ call[j].id \notin overlapped => call[j].id # r.id
          /\ call[j].at = "closing" /\ call[j].victim \notin overlapped => call[j].victim # r.id
      BY <1>7, <2>2, <3>2
    <3>4. /\ Pool!MakingRoom(call[j]) => call[j].id \in Pool!Ids
          /\ call[j].at = "closing" => call[j].victim \in Pool!Ids
      BY <3>1 DEF Fits, Pool!MakingRoom
    <3> QED
      BY <1>4, <1>5, <2>2, <3>1, <3>3, <3>4 DEF LeftAs, Pool!MakingRoom
  <2> QED
    BY <2>1, <2>2
<1>9. Known'
  <2> SUFFICES ASSUME NEW b \in running, launched[b] \notin overlapped'
               PROVE  \/ pool'[launched[b]] = b
                      \/ \E j \in Calls : call'[j] # NoCall /\ call'[j].at = "set" /\ call'[j].browser = b
    BY <1>1 DEF Known
  <2>1. b \in 1 .. Len(launched) /\ launched[b] \in Pool!Ids /\ launched[b] \notin overlapped
    BY <1>4 DEF PoolInv, PoolTypes
  <2>2. CASE pool[launched[b]] = b
    BY <1>2, <1>5, <2>1, <2>2
  <2>3. ASSUME NEW j \in Calls, call[j] # NoCall, call[j].at = "set", call[j].browser = b
        PROVE  \/ pool'[launched[b]] = b
               \/ \E i \in Calls : call'[i] # NoCall /\ call'[i].at = "set" /\ call'[i].browser = b
    <3>1. CASE j = k
      BY <1>2, <1>5, <2>3, <3>1
    <3>2. CASE j # k
      BY <1>4, <2>3, <3>2
    <3> QED BY <3>1, <3>2
  <2> QED
    BY <2>1, <2>2, <2>3 DEF PoolInv, Known
<1>10. DeployAlone'
  BY <1>1, <1>2, <1>3, <1>4 DEF PoolInv, DeployAlone, LastCall
<1> QED
  BY <1>4, <1>6, <1>8, <1>9, <1>10 DEF PoolInv

LEMMA SetUpFailsKeeps ==
  ASSUME PoolInv, NEW k \in Calls, Pool!SetUpFails(k)
  PROVE  PoolInv'
<1> DEFINE r == call[k]
<1>1. /\ r # NoCall /\ r.at = "set" /\ UNCHANGED <<pool, launched, deploy, polling>>
      /\ running' = running \ {r.browser} /\ Pool!GoOn(k, NoCall)
  BY DEF Pool!SetUpFails, Pool!Untouched, Pool!End, NoCall
<1>2. r.op \notin {"sweep", "deploy"}
  BY <1>1, CallAt
<1>3. /\ \A j \in Calls : call'[j] = IF j = k THEN NoCall ELSE call[j]
      /\ overlapped \subseteq overlapped' /\ OneTouches'
      /\ late => late'
  BY <1>1, GoesAlone
<1>4. PoolTypes'
  <2>1. call' \in [Calls -> CallRow \cup {NoCall}]
    BY <1>1 DEF Pool!GoOn, PoolInv, PoolTypes
  <2> QED
    BY <1>1, <1>3, <2>1 DEF PoolInv, PoolTypes
<1>5. EntryStays'
  BY <1>1, <1>3 DEF PoolInv, EntryStays, LeftAs, Pool!MakingRoom
<1>6. Known'
  BY <1>1, <1>3 DEF PoolInv, Known
<1>7. DeployAlone'
  BY <1>1, <1>2, <1>3 DEF PoolInv, DeployAlone, LastCall
<1> QED
  BY <1>3, <1>4, <1>5, <1>6, <1>7 DEF PoolInv

LEMMA ClosedKeeps ==
  ASSUME PoolInv, NEW k \in Calls, Pool!Closed(k)
  PROVE  PoolInv'
<1> DEFINE r == call[k]
           x == Pool!Then(r, r.after)
<1>1. /\ r # NoCall /\ r.at = "closing" /\ UNCHANGED <<launched, deploy, polling>>
      /\ running' = running \ {r.browser} /\ pool' = [pool EXCEPT ![r.victim] = 0]
      /\ Pool!GoOn(k, x)
  BY DEF Pool!Closed, Pool!Untouched, NoCall
<1>2. /\ r \in CallRow /\ Fits(r, launched) /\ r.victim \in Pool!Ids
      /\ r.victim \notin overlapped => pool[r.victim] = r.browser
      /\ Pool!MakingRoom(r) /\ r.id \notin overlapped => pool[r.id] = 0
      /\ r.after \in {"room", "launch", "end", "next"}
  BY <1>1, CallAt DEF LeftAs, Fits, CallRow
<1>3. /\ x # NoCall => /\ x \in CallRow /\ x.at = r.after /\ r.after # "end" /\ x.op = r.op
                       /\ x.id = r.id /\ x.todo = r.todo
      /\ r.after = "next" => x # NoCall
  <2>1. CASE r.after = "end"
    BY <2>1 DEF Pool!Then, NoCall
  <2>2. CASE r.after # "end"
    BY <1>2, <2>2, ThenFits, RowIsACall
  <2> QED BY <2>1, <2>2
<1> HIDE DEF x
<1>4. /\ \A j \in Calls : call'[j] = IF j = k THEN x ELSE call[j]
      /\ overlapped \subseteq overlapped' /\ OneTouches'
      /\ late => late'
      /\ deploy \in {"listed", "answered"} /\ x # NoCall /\ x.op \notin {"scrape", "deploy"} => late'
  BY <1>1, GoesAlone
<1>5. \A c \in Pool!Ids : pool'[c] = IF c = r.victim THEN 0 ELSE pool[c]
  BY <1>1 DEF PoolInv, PoolTypes
<1>6. PoolTypes'
  <2>1. call' \in [Calls -> CallRow \cup {NoCall}]
    BY <1>1, <1>3 DEF Pool!GoOn, PoolInv, PoolTypes
  <2>2. x # NoCall => Fits(x, launched)
    BY <1>1, <1>2, <1>3 DEF Fits
  <2>3. pool' \in [Pool!Ids -> Nat]
    BY <1>1, <1>2 DEF PoolInv, PoolTypes
  <2> QED
    BY <1>1, <1>4, <2>1, <2>2, <2>3 DEF PoolInv, PoolTypes
<1>7. EntryStays'
  <2> SUFFICES ASSUME NEW j \in Calls, call'[j] # NoCall PROVE LeftAs(call[j])'
    BY DEF EntryStays
  <2>1. CASE j = k
    <3>1. call'[j] = x /\ x # NoCall /\ x.at # "closing" /\ x.id = r.id
      BY <1>2, <1>3, <1>4, <2>1
    <3>2. ASSUME Pool!MakingRoom(x), x.id \notin overlapped' PROVE pool'[x.id] = 0
      <4>1. CASE x.at = "room"
        BY <1>1, <1>2, <1>3, <1>5, <3>1, <4>1 DEF Fits
      <4>2. CASE x.at = "launch"
        <5>1. Pool!MakingRoom(r) /\ r.id \in Pool!Ids
          BY <1>1, <1>2, <1>3, <3>1, <4>2 DEF Pool!MakingRoom, Fits, NoCall
        <5> QED
          BY <1>2, <1>4, <1>5, <3>1, <3>2, <5>1
      <4> QED
        BY <1>2, <1>3, <3>1, <3>2, <4>1, <4>2 DEF Pool!MakingRoom
    <3> QED
      BY <3>1, <3>2 DEF LeftAs, Pool!MakingRoom
  <2>2. CASE j # k
    <3>1. call'[j] = call[j] /\ LeftAs(call[j]) /\ Fits(call[j], launched)
      BY <1>4, <2>2, CallAt
    <3>2. /\ Pool!MakingRoom(call[j]) => call[j].id \in Pool!Ids
          /\ call[j].at = "closing" => call[j].victim \in Pool!Ids
      BY <3>1 DEF Fits, Pool!MakingRoom
    \* Nobody else is at the entry of the session that was closed.
    <3>3. ASSUME call[j].at = "closing", call[j].victim \notin overlapped PROVE call[j].victim # r.victim
      <4>1. call[j].victim \in Pool!Touches(call[j]) /\ r.victim \in Pool!Touches(r)
        BY <1>1, <1>4, <2>2, <3>3 DEF Pool!Touches, NoCall
      <4> QED
        BY <1>2, <2>2, <3>3, <4>1 DEF PoolInv, OneTouches
    <3> QED
      BY <1>4, <1>5, <3>1, <3>2, <3>3 DEF LeftAs, Pool!MakingRoom
  <2> QED
    BY <2>1, <2>2
<1>8. Known'
  <2> SUFFICES ASSUME NEW b \in running, b # r.browser, launched[b] \notin overlapped'
               PROVE  \/ pool'[launched[b]] = b
                      \/ \E j \in Calls : call'[j] # NoCall /\ call'[j].at = "set" /\ call'[j].browser = b
    BY <1>1 DEF Known
  <2>1. b \in 1 .. Len(launched) /\ launched[b] \in Pool!Ids /\ launched[b] \notin overlapped
    BY <1>4 DEF PoolInv, PoolTypes
  <2>2. CASE pool[launched[b]] = b
    BY <1>2, <1>5, <2>1, <2>2
  <2>3. ASSUME NEW j \in Calls, call[j] # NoCall, call[j].at = "set", call[j].browser = b
        PROVE  call'[j] # NoCall /\ call'[j].at = "set" /\ call'[j].browser = b
    BY <1>1, <1>4, <2>3
  <2> QED
    BY <2>1, <2>2, <2>3 DEF PoolInv, Known
<1>9. DeployAlone'
  <2> SUFFICES ASSUME deploy \in {"listed", "answered"}, ~ late'
               PROVE  deploy = "listed" /\ ~ polling /\ \E j \in Calls : LastCall(j)'
    BY <1>1, <1>3, <1>4 DEF PoolInv, DeployAlone
  <2>1. deploy = "listed" /\ ~ polling /\ LastCall(k)
    BY <1>1, <1>4 DEF PoolInv, DeployAlone, LastCall
  <2>2. r.after = "next" /\ x # NoCall /\ x.op = "deploy" /\ x.todo = r.todo
    BY <1>1, <1>2, <1>3, <2>1 DEF LastCall, Fits
  <2>3. LastCall(k)'
    BY <1>1, <1>4, <1>5, <2>1, <2>2 DEF LastCall
  <2> QED
    BY <2>1, <2>3
<1> QED
  BY <1>4, <1>6, <1>7, <1>8, <1>9 DEF PoolInv

-----------------------------------------------------------------------------
(* The deployment.                                                         *)

LEMMA PreDeployKeeps ==
  ASSUME PoolInv, NEW k \in Calls, Pool!PreDeploy(k)
  PROVE  PoolInv'
<1>1. deploy = "no" /\ deploy' = "closing"
      /\ UNCHANGED <<pool, running, recent, call, polling, launched, overlapped, late>>
  BY DEF Pool!PreDeploy
<1> QED
  BY <1>1 DEF PoolInv, PoolTypes, OneTouches, EntryStays, LeftAs, Known, DeployAlone, LastCall,
     Pool!MakingRoom, Pool!Touches

LEMMA PollEndsKeeps ==
  ASSUME PoolInv, Pool!PollEnds
  PROVE  PoolInv'
<1>1. polling' = FALSE /\ UNCHANGED <<pool, running, recent, call, deploy, launched, overlapped, late>>
  BY DEF Pool!PollEnds
<1> QED
  BY <1>1 DEF PoolInv, PoolTypes, OneTouches, EntryStays, LeftAs, Known, DeployAlone, LastCall,
     Pool!MakingRoom, Pool!Touches

LEMMA ListSessionsKeeps ==
  ASSUME PoolInv, NEW k \in Calls, Pool!ListSessions(k)
  PROVE  PoolInv'
<1> DEFINE r == Pool!Begin("deploy", "none")
           x == [r EXCEPT !.at = "next", !.todo = Pool!Listed]
<1>1. /\ call[k] = NoCall /\ deploy' = "listed" /\ call' = [call EXCEPT ![k] = x]
      /\ UNCHANGED <<pool, running, launched, polling, overlapped>>
      /\ \A j \in Calls : call[j] # NoCall => call[j].op # "scrape"
      /\ late' = (polling \/ \E j \in Calls : call[j] # NoCall /\ call[j].op # "scrape")
  BY DEF Pool!ListSessions, Pool!WorkersClosed, Pool!Same, NoCall, Pool!NoId
<1>2. r \in CallRow /\ r.op = "deploy"
  BY BeginFits
<1> HIDE DEF r
<1>3. x \in CallRow /\ x.at = "next" /\ x.op = "deploy" /\ x.todo = Pool!Listed /\ x # NoCall
  <2>1. x \in CallRow /\ x.at = "next" /\ x.op = "deploy" /\ x.todo = Pool!Listed
    BY <1>2 DEF CallRow, Pool!Listed
  <2> QED
    BY <2>1, RowIsACall
<1> HIDE DEF x
<1>4. \A j \in Calls : call'[j] = IF j = k THEN x ELSE call[j]
  BY <1>1 DEF PoolInv, PoolTypes
<1>5. Pool!Touches(x) = {} /\ ~ Pool!MakingRoom(x)
  BY <1>3 DEF Pool!Touches, Pool!MakingRoom
<1>6. PoolTypes'
  <2>1. call' \in [Calls -> CallRow \cup {NoCall}]
    BY <1>1, <1>3 DEF PoolInv, PoolTypes
  <2>2. Fits(x, launched)
    BY <1>3 DEF Fits
  <2> QED
    BY <1>1, <1>4, <2>1, <2>2 DEF PoolInv, PoolTypes
<1>7. OneTouches'
  <2> SUFFICES ASSUME NEW c \in Pool!Ids, c \notin overlapped, NEW i \in Calls, NEW j \in Calls,
                      c \in Pool!Touches(call'[i]), c \in Pool!Touches(call'[j])
               PROVE  i = j
    BY <1>1 DEF OneTouches, Pool!Touches, Pool!MakingRoom
  <2> QED
    BY <1>4, <1>5 DEF PoolInv, OneTouches
<1>8. EntryStays'
  <2> SUFFICES ASSUME NEW j \in Calls, call'[j] # NoCall PROVE LeftAs(call[j])'
    BY DEF EntryStays
  <2>1. CASE j = k
    BY <1>3, <1>4, <1>5, <2>1 DEF LeftAs, Pool!MakingRoom
  <2>2. CASE j # k
    BY <1>1, <1>4, <2>2 DEF PoolInv, EntryStays, LeftAs, Pool!MakingRoom
  <2> QED BY <2>1, <2>2
<1>9. Known'
  BY <1>1, <1>4 DEF PoolInv, Known
<1>10. DeployAlone'
  <2> SUFFICES ASSUME ~ late' PROVE ~ polling /\ LastCall(k)'
    BY <1>1 DEF DeployAlone
  <2>1. ~ polling /\ \A j \in Calls : call[j] = NoCall
    BY <1>1
  <2>2. \A c \in Pool!Ids : pool'[c] # 0 => c \in x.todo
    BY <1>1, <1>3 DEF Pool!Listed
  <2> QED
    BY <1>3, <1>4, <2>1, <2>2 DEF LastCall
<1> QED
  BY <1>6, <1>7, <1>8, <1>9, <1>10 DEF PoolInv

\* The next step of the shutdown changes no entry.
LEMMA ShutdownGoesOn ==
  ASSUME PoolInv, NEW k \in Calls, NEW x, Pool!GoOn(k, x), UNCHANGED <<pool, running, launched, polling>>,
         call[k] # NoCall, call[k].op = "deploy", call[k].at = "next",
         \/ x = NoCall /\ call[k].todo = {} /\ deploy' = "answered"
         \/ /\ x \in CallRow /\ Fits(x, launched) /\ x.op = "deploy" /\ deploy' = deploy
            /\ ~ Pool!MakingRoom(x) /\ (x.at = "closing" => pool[x.victim] = x.browser)
            /\ \A c \in call[k].todo : pool[c] # 0 => c \in x.todo \/ (x.at = "closing" /\ c = x.victim)
  PROVE  PoolInv'
<1>1. /\ \A j \in Calls : call'[j] = IF j = k THEN x ELSE call[j]
      /\ overlapped \subseteq overlapped' /\ OneTouches'
      /\ late => late'
  BY GoesAlone
<1>2. x \in CallRow => x # NoCall
  BY RowIsACall
<1>3. PoolTypes'
  <2>1. call' \in [Calls -> CallRow \cup {NoCall}]
    BY DEF Pool!GoOn, PoolInv, PoolTypes
  <2> QED
    BY <1>1, <2>1 DEF PoolInv, PoolTypes
<1>4. EntryStays'
  <2> SUFFICES ASSUME NEW j \in Calls, call'[j] # NoCall PROVE LeftAs(call[j])'
    BY DEF EntryStays
  <2>1. CASE j = k
    BY <1>1, <2>1 DEF LeftAs, Pool!MakingRoom
  <2>2. CASE j # k
    BY <1>1, <2>2 DEF PoolInv, EntryStays, LeftAs, Pool!MakingRoom
  <2> QED BY <2>1, <2>2
<1>5. Known'
  BY <1>1 DEF PoolInv, Known
<1>6. DeployAlone'
  <2> SUFFICES ASSUME ~ late', deploy' \in {"listed", "answered"}
               PROVE  /\ ~ polling
                      /\ deploy' = "listed" => LastCall(k)'
                      /\ deploy' = "answered" =>
                           (\A j \in Calls : call'[j] = NoCall) /\ \A c \in Pool!Ids : pool[c] = 0
    BY <1>1, <1>2 DEF PoolInv, DeployAlone
  <2>1. CASE x = NoCall /\ call[k].todo = {} /\ deploy' = "answered"
    BY <1>1, <2>1 DEF PoolInv, DeployAlone, LastCall
  <2>2. CASE x # NoCall /\ deploy' = deploy
    BY <1>1, <2>2 DEF PoolInv, DeployAlone, LastCall
  <2> QED BY <1>2, <2>1, <2>2
<1> QED
  BY <1>1, <1>3, <1>4, <1>5, <1>6 DEF PoolInv

LEMMA ShutdownNextKeeps ==
  ASSUME PoolInv, NEW k \in Calls, Pool!ShutdownNext(k)
  PROVE  PoolInv'
<1> DEFINE r == call[k]
<1>1. /\ r # NoCall /\ r.at = "next" /\ r.op = "deploy"
      /\ UNCHANGED <<pool, running, launched, polling>>
  BY DEF Pool!ShutdownNext, Pool!Same, NoCall
<1>2. r \in CallRow /\ pool \in [Pool!Ids -> Nat]
  BY <1>1, CallAt
<1>3. CASE r.todo = {} /\ deploy' = "answered" /\ Pool!End(k)
  BY <1>1, <1>3, ShutdownGoesOn DEF Pool!End, NoCall
<1>4. ASSUME NEW c \in r.todo, deploy' = deploy,
             Pool!GoOn(k, Pool!DestroyOrSkip([r EXCEPT !.todo = @ \ {c}], c, "next"))
      PROVE  PoolInv'
  <2> DEFINE y == [r EXCEPT !.todo = @ \ {c}]
             x == Pool!DestroyOrSkip(y, c, "next")
  <2>1. y \in CallRow /\ y.op = "deploy" /\ y.todo = r.todo \ {c} /\ c \in Pool!Ids
    BY <1>1, <1>2 DEF CallRow
  <2>2. x = IF pool[c] = 0 THEN Pool!Then(y, "next") ELSE Pool!Destroy(y, c, "next")
    BY DEF Pool!DestroyOrSkip
  <2>3. Pool!GoOn(k, x)
    BY <1>4
  <2> HIDE DEF y, x
  <2>4. CASE pool[c] = 0
    <3>1. /\ x \in CallRow /\ x.at = "next" /\ x.op = "deploy" /\ x.todo = y.todo
      BY <2>1, <2>2, <2>4, ThenFits
    <3>2. Fits(x, launched) /\ ~ Pool!MakingRoom(x)
      BY <3>1 DEF Fits, Pool!MakingRoom
    <3> QED
      BY <1>1, <1>4, <2>1, <2>3, <2>4, <3>1, <3>2, ShutdownGoesOn
  <2>5. CASE pool[c] # 0
    <3>1. /\ x \in CallRow /\ x.at = "closing" /\ x.op = "deploy" /\ x.todo = y.todo
          /\ x.victim = c /\ x.after = "next" /\ x.browser = pool[c]
      <4> DEFINE d == Pool!Destroy(y, c, "next")
      <4>1. /\ d \in CallRow /\ d.at = "closing" /\ d.op = y.op /\ d.todo = y.todo
            /\ d.victim = c /\ d.after = "next" /\ d.browser = pool[c]
        BY <1>2, <2>1 DEF Pool!Destroy, CallRow
      <4>2. x = d
        BY <2>2, <2>5
      <4> HIDE DEF d
      <4> QED
        BY <2>1, <4>1, <4>2
    <3>2. Fits(x, launched) /\ ~ Pool!MakingRoom(x)
      BY <2>1, <3>1 DEF Fits, Pool!MakingRoom
    <3> QED
      BY <1>1, <1>4, <2>1, <2>3, <3>1, <3>2, ShutdownGoesOn
  <2> QED
    BY <2>4, <2>5
<1> QED
  BY <1>3, <1>4 DEF Pool!ShutdownNext

-----------------------------------------------------------------------------

LEMMA PoolInit == Pool!Init => PoolInv
<1> SUFFICES ASSUME Pool!Init PROVE PoolInv
  OBVIOUS
<1>1. /\ pool = [c \in Pool!Ids |-> 0] /\ running = {} /\ launched = <<>> /\ deploy = "no"
      /\ call = [k \in Calls |-> NoCall]
  BY DEF Pool!Init, NoCall
<1>2. \A k \in Calls : call[k] = NoCall
  BY <1>1
<1>3. PoolTypes
  BY <1>1, <1>2 DEF PoolTypes
<1>4. OneTouches
  BY <1>2 DEF OneTouches, Pool!Touches, NoCall
<1> QED
  BY <1>1, <1>2, <1>3, <1>4 DEF PoolInv, EntryStays, Known, DeployAlone

LEMMA PoolStep == PoolInv /\ [Pool!Next]_(Pool!vars) => PoolInv'
<1> SUFFICES ASSUME PoolInv, [Pool!Next]_(Pool!vars) PROVE PoolInv'
  OBVIOUS
<1>1. CASE UNCHANGED Pool!vars
  BY <1>1 DEF Pool!vars, PoolInv, PoolTypes, OneTouches, EntryStays, LeftAs, Known, DeployAlone,
     LastCall, Pool!MakingRoom, Pool!Touches
<1>2. ASSUME NEW k \in Calls, NEW op \in {"scrape", "now", "test"}, NEW c \in Pool!Ids,
             Pool!GetSession(k, op, c)
      PROVE  PoolInv'
  BY <1>2, GetSessionKeeps
<1>3. ASSUME NEW k \in Calls,
             \/ Pool!StillAlive(k) \/ Pool!FoundDead(k) \/ Pool!LookAtSize(k) \/ Pool!LaunchFails(k)
             \/ Pool!EndUse(k) \/ Pool!StartCleanup(k) \/ Pool!SweepNext(k)
      PROVE  PoolInv'
  BY <1>3, StillAliveKeeps, FoundDeadKeeps, LookAtSizeKeeps, LaunchFailsKeeps, EndUseKeeps,
     StartCleanupKeeps, SweepNextKeeps
<1>4. ASSUME NEW k \in Calls,
             \/ Pool!Launch(k) \/ Pool!SetSession(k) \/ Pool!SetUpFails(k) \/ Pool!Closed(k)
             \/ Pool!PreDeploy(k) \/ Pool!ListSessions(k) \/ Pool!ShutdownNext(k)
      PROVE  PoolInv'
  BY <1>4, LaunchKeeps, SetSessionKeeps, SetUpFailsKeeps, ClosedKeeps, PreDeployKeeps,
     ListSessionsKeeps, ShutdownNextKeeps
<1>5. ASSUME NEW k \in Calls, NEW c \in Browsed, Pool!CleanBrowser(k, c)
      PROVE  PoolInv'
  BY <1>5, CleanBrowserKeeps
<1> QED
  BY <1>1, <1>2, <1>3, <1>4, <1>5, PollEndsKeeps DEF Pool!Next

\* A running browser that nobody will ever close was left by two calls that wrote the
\* entry of one id at once; and once the deployment hook has answered that all sessions are
\* logged out, none is left, unless a poll, a scrape-now or a cleanup went on beside it.
THEOREM PoolIsExplained == Pool!Spec => []PoolExplained
<1>1. PoolInv => PoolExplained
  <2> SUFFICES ASSUME PoolInv PROVE PoolExplained
    OBVIOUS
  <2>1. Pool!OrphansExplained
    <3> SUFFICES ASSUME NEW b \in Pool!Browsers, Pool!Orphan(b) PROVE launched[b] \in overlapped
      BY DEF Pool!OrphansExplained
    <3>1. b \in running /\ launched[b] \in Pool!Ids
      BY DEF Pool!Orphan, PoolInv, PoolTypes
    <3> QED
      BY <3>1 DEF Pool!Orphan, PoolInv, Known, NoCall
  <2>2. Pool!DeployedLoggedOut
    BY DEF Pool!DeployedLoggedOut, PoolInv, DeployAlone
  <2> QED
    BY <2>1, <2>2 DEF PoolExplained, Pool!PoolExplained
<1> QED
  BY PoolInit, PoolStep, <1>1, PTL DEF Pool!Spec

-----------------------------------------------------------------------------
(* The page of a BCA account (KlikBca).                                    *)

ScrapeRow ==
  [pc : {"idle", "start", "type", "retry", "menu", "link", "popup"}, attempt : Nat, try : Nat,
   was : BOOLEAN, hurt : BOOLEAN, again : BOOLEAN, rows : BOOLEAN]

BcaTypes ==
  /\ right \in BOOLEAN /\ open \in BOOLEAN /\ flag \in BOOLEAN /\ missed \in BOOLEAN /\ over \in BOOLEAN
  /\ mainPage \in {"form", "frames", "menu"}
  /\ dialog \in {"none", "way", "heard", "late"}
  /\ scrape \in ScrapeRow

\* Who may type has no session, as far as anyone can know.
MayType == scrape.pc \in {"type", "retry"} => ~ open \/ missed

\* A session that is open, and that nothing went wrong with, shows in the page of
\* whoever counts as logged in.
SessionShows ==
  open /\ ~ missed =>
    \/ mainPage # "form"
    \/ scrape.pc \in {"type", "retry"}
    \/ scrape.pc = "idle" /\ ~ flag
    \/ scrape.pc = "start" /\ ~ scrape.was

HeardEnds == dialog = "heard" => scrape.pc = "idle"

\* Whoever logs in although the pool said it was logged in has found the session expired.
AgainOrHurt ==
  /\ scrape.pc \in {"type", "retry"} /\ scrape.was => scrape.hurt \/ scrape.again
  /\ scrape.pc = "link" /\ mainPage # "menu" => scrape.hurt \/ scrape.again

ScrapeInv ==
  BcaTypes /\ MayType /\ SessionShows /\ HeardEnds /\ AgainOrHurt /\ ScrapeExplained


\* The next try to log in, and the next attempt.
LEMMA NextTry ==
  ASSUME NEW s \in ScrapeRow, NEW r, r = [s EXCEPT !.pc = "type", !.try = @ + 1]
  PROVE  r \in ScrapeRow /\ r.pc = "type" /\ r.again = s.again /\ r.was = s.was /\ r.hurt = s.hurt
<1> DEFINE n == s.try + 1
<1>1. r = [[s EXCEPT !.pc = "type"] EXCEPT !.try = n] /\ n \in Nat
  BY DEF ScrapeRow
<1> HIDE DEF n
<1> QED
  BY <1>1 DEF ScrapeRow

LEMMA NextAttempt ==
  ASSUME NEW s \in ScrapeRow, NEW r,
         r = [s EXCEPT !.pc = "start", !.attempt = @ + 1, !.try = 1, !.was = FALSE, !.again = FALSE]
  PROVE  r \in ScrapeRow /\ r.pc = "start" /\ ~ r.was
<1> DEFINE no == FALSE
           n == s.attempt + 1
           one == [[s EXCEPT !.pc = "start"] EXCEPT !.attempt = n]
           two == [one EXCEPT !.try = 1]
<1>1. r = [[two EXCEPT !.was = no] EXCEPT !.again = no] /\ n \in Nat /\ no \in BOOLEAN /\ ~ no
  BY DEF ScrapeRow
<1> HIDE DEF no, n
<1>2. one \in ScrapeRow /\ one.pc = "start"
  BY <1>1 DEF ScrapeRow
<1> HIDE DEF one
<1>3. two \in ScrapeRow /\ two.pc = "start"
  BY <1>2 DEF ScrapeRow
<1> HIDE DEF two
<1> QED
  BY <1>1, <1>3 DEF ScrapeRow

LEMMA ScrapeInit == Bca!Init => ScrapeInv
<1> SUFFICES ASSUME Bca!Init PROVE ScrapeInv
  OBVIOUS
<1> DEFINE no == FALSE
           yes == TRUE
<1>1. no \in BOOLEAN /\ yes \in BOOLEAN
  OBVIOUS
<1>2. scrape = [pc |-> "idle", attempt |-> 1, try |-> 1, was |-> no, hurt |-> no, again |-> no,
                rows |-> yes]
  BY DEF Bca!Init, Bca!Idle
<1>3. yes
  OBVIOUS
<1> HIDE DEF no, yes
<1>4. scrape \in ScrapeRow
  BY <1>1, <1>2 DEF ScrapeRow
<1>5. scrape.pc = "idle" /\ scrape.rows
  BY <1>2, <1>3
<1> QED
  BY <1>4, <1>5
  DEF Bca!Init, ScrapeInv, BcaTypes, MayType, SessionShows, HeardEnds, AgainOrHurt,
      ScrapeExplained, Bca!ScrapeExplained, Bca!PasswordWithCause, Bca!EmptyIsExplained, Bca!At

LEMMA ScrapeStep == ScrapeInv /\ [Bca!Next]_(Bca!vars) => ScrapeInv'
<1> SUFFICES ASSUME ScrapeInv, [Bca!Next]_(Bca!vars) PROVE ScrapeInv'
  OBVIOUS
<1> USE DEF ScrapeInv, BcaTypes, MayType, SessionShows, HeardEnds, AgainOrHurt, ScrapeExplained,
            Bca!ScrapeExplained, Bca!PasswordWithCause, Bca!EmptyIsExplained, Bca!At, Bca!To,
            Bca!HurtTo, Bca!Returns, Bca!Errs, Bca!Hurt, Bca!Empty, Bca!Read, ScrapeRow
<1>1. CASE Bca!Begins
  BY <1>1 DEF Bca!Begins, Bca!Idle
<1>2. CASE Bca!Shutdown
  BY <1>2 DEF Bca!Shutdown
<1>3. CASE Bca!LogsOutFirst
  BY <1>3 DEF Bca!LogsOutFirst, Bca!MustLogOut, Bca!LogOut
<1>4. CASE Bca!ChecksSession
  <2> DEFINE s == [scrape EXCEPT !.pc = "type", !.again = TRUE]
  <2>1. /\ s.pc = "type" /\ s.again /\ s.was = scrape.was /\ s.hurt = scrape.hurt
        /\ s \in ScrapeRow
    <3> DEFINE yes == TRUE
    <3>1. s = [[scrape EXCEPT !.pc = "type"] EXCEPT !.again = yes] /\ yes \in BOOLEAN /\ yes
      BY DEF ScrapeRow
    <3> HIDE DEF s, yes
    <3> QED
      BY <3>1 DEF ScrapeRow
  <2>2. CASE scrape' = s /\ (mainPage = "form" \/ ~ open) /\ mainPage' = "form" /\ missed' = missed
    <3> HIDE DEF s
    <3> QED
      BY <1>4, <2>1, <2>2 DEF Bca!ChecksSession
  <2>3. CASE mainPage # "form" /\ open /\ mainPage' = "menu" /\ Bca!To("link") /\ UNCHANGED missed
    BY <1>4, <2>3 DEF Bca!ChecksSession, ScrapeRow
  <2>4. CASE mainPage # "form" /\ missed' = TRUE /\ UNCHANGED mainPage /\ Bca!HurtTo("type")
    BY <1>4, <2>4 DEF Bca!ChecksSession, ScrapeRow
  <2> QED
    BY <1>4, <2>2, <2>3, <2>4 DEF Bca!ChecksSession
<1>5. CASE Bca!LetIn
  BY <1>5 DEF Bca!LetIn, Bca!Typing, Bca!AfterLogin
<1>6. CASE Bca!Refused
  BY <1>6 DEF Bca!Refused, Bca!Typing, Bca!HeardDialog
<1>7. CASE Bca!NoAnswer
  BY <1>7 DEF Bca!NoAnswer, Bca!Typing
<1>8. CASE Bca!LoginPageFails
  BY <1>8 DEF Bca!LoginPageFails
<1>9. CASE Bca!HearsLate
  BY <1>9 DEF Bca!HearsLate, Bca!MaxLogins
<1>10. CASE Bca!TriesAgain
  <2> DEFINE s == [scrape EXCEPT !.pc = "type", !.try = @ + 1]
  <2>1. /\ s.pc = "type" /\ s.again = scrape.again /\ s.was = scrape.was /\ s.hurt = scrape.hurt
        /\ s \in ScrapeRow
    BY NextTry
  <2>2. CASE scrape' = s /\ UNCHANGED flag
    <3> HIDE DEF s
    <3> QED
      BY <1>10, <2>1, <2>2 DEF Bca!TriesAgain
  <2>3. CASE Bca!Errs
    BY <1>10, <2>3 DEF Bca!TriesAgain
  <2> QED
    BY <1>10, <2>2, <2>3 DEF Bca!TriesAgain
<1>11. CASE Bca!OpensMenu
  BY <1>11 DEF Bca!OpensMenu
<1>12. CASE Bca!FollowsLink
  BY <1>12 DEF Bca!FollowsLink
<1>13. CASE Bca!ReadsStatement
  BY <1>13 DEF Bca!ReadsStatement
<1>14. CASE Bca!SessionGone
  <2> DEFINE s == [scrape EXCEPT !.pc = "start", !.attempt = @ + 1, !.try = 1,
                                 !.was = FALSE, !.again = FALSE]
  <2>1. s.pc = "start" /\ ~ s.was /\ s \in ScrapeRow
    BY NextAttempt
  <2>2. CASE scrape' = s /\ UNCHANGED flag
    <3> HIDE DEF s
    <3> QED
      BY <1>14, <2>1, <2>2 DEF Bca!SessionGone, Bca!LogOut
  <2>3. CASE Bca!Returns(FALSE, Bca!Hurt)
    BY <1>14, <2>3 DEF Bca!SessionGone, Bca!LogOut, ScrapeRow
  <2> QED
    BY <1>14, <2>2, <2>3 DEF Bca!SessionGone
<1>15. CASE Bca!SessionExpires
  BY <1>15 DEF Bca!SessionExpires
<1>16. CASE Bca!BrowserReplaced
  BY <1>16 DEF Bca!BrowserReplaced
<1>17. CASE UNCHANGED Bca!vars
  BY <1>17 DEF Bca!vars
<1>18. QED
  BY <1>1, <1>2, <1>3, <1>4, <1>5, <1>6, <1>7, <1>8, <1>9, <1>10, <1>11, <1>12, <1>13, <1>14, <1>15, <1>16, <1>17 DEF Bca!Next

\* A scrape of KlikBCA does not type the password again after a dialog that came in time,
\* nor while the account's session is open, unless a log-out, a check or an answer had
\* failed; and only one that met a failure, or found the session expired and logged in
\* again, ends without the statement.
THEOREM BcaScrapeExplained == Bca!Spec => []ScrapeExplained
<1>1. ScrapeInv => ScrapeExplained
  BY DEF ScrapeInv
<1> QED
  BY ScrapeInit, ScrapeStep, <1>1, PTL DEF Bca!Spec
=============================================================================
