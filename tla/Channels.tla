------------------------------ MODULE Channels ------------------------------
(***************************************************************************)
(* One payment channel as the API keeps it: its row, the state row of the  *)
(* scraper's circuit breaker, and the command left for the scraper under   *)
(* one Redis key.                                                          *)
(*                                                                         *)
(* A request is a series of writes, to the database and to Redis, with     *)
(* anything in between; none depends on what was read.  The credentials    *)
(* are a version number: those in Right are the bank's.  Names, numbers    *)
(* and QRIS data of the channel are left out.                              *)
(***************************************************************************)
EXTENDS Integers, Sequences

CONSTANTS
  Versions,   \* versions of the credentials, from 1
  Right,      \* those the bank accepts
  Requests,   \* requests that can be in progress at once
  MaxRequests \* bound: requests ever made

ASSUME ChannelAssumption ==
  /\ Versions \subseteq Nat \ {0} /\ 1 \in Versions /\ Right \subseteq Versions
  /\ MaxRequests \in Nat

VARIABLES
  row,     \* the channel
  state,   \* its state row; "cooled": circuitOpenedAt is null or 15 minutes old
  cmd,     \* the command under pg:cmd
  request, \* requests in progress: the writes they have yet to make
  made,    \* requests ever made
  verdicts \* wrong passwords found and heard since the channel was last switched on (history)

channelVars == <<row, state, cmd, request, made, verdicts>>

Logouts == {"force_logout", "clean_browser"}

Commands == Logouts \cup {"none", "test_login"}

Row == [active: BOOLEAN, deleted: BOOLEAN, creds: Versions]

State == [exists: BOOLEAN, circuit: {"closed", "open", "half_open"}, cooled: BOOLEAN,
          errors: Nat, due: BOOLEAN]

Fresh == [exists |-> TRUE, circuit |-> "closed", cooled |-> TRUE, errors |-> 0, due |-> TRUE]

NoState == [Fresh EXCEPT !.exists = FALSE]

Writes == {"reset", "renew", "due", "force_logout", "clean_browser", "test_login", "pause", "resume",
           "replace", "delete", "forget", "clear", "switch_on", "switch_off", "close"}

Request == [todo: Seq(Writes), creds: Versions]

Free == [todo |-> <<>>, creds |-> 1]

\* POST /channels has made the row and its state.
ChannelInit ==
  /\ \E v \in Versions : row = [active |-> TRUE, deleted |-> FALSE, creds |-> v]
  /\ state = Fresh
  /\ cmd = "none"
  /\ request = [q \in Requests |-> Free]
  /\ made = 0 /\ verdicts = 0

-----------------------------------------------------------------------------
(* The handlers, by the writes they make in their order.                   *)

ForceLogout == <<"force_logout">>

CleanBrowser == <<"clean_browser", "renew">>

TestConnection == <<"test_login">>

Pause == <<"force_logout", "pause">>

Resume == <<"due", "resume">>

\* Mutant: the session of the old credentials is left alone.
ReplaceCredentials_Keep == <<"reset", "replace">>

ReplaceCredentials == <<"reset", "clean_browser", "replace">>

\* No invoice is open, and six seconds pass between the command and the rest.
DeleteChannel == <<"clean_browser", "delete", "forget", "clear">>

\* PATCH /admin/channels/:id, one transaction; resetting the circuit needs a state row.
AdminPatches == {<<"switch_on">>, <<"switch_off">>, <<"close">>}

Handlers == {ForceLogout, CleanBrowser, TestConnection, Pause, Resume,
             ReplaceCredentials, DeleteChannel} \cup AdminPatches

Receive(q, h, v) ==
  /\ made < MaxRequests /\ made' = made + 1
  /\ request[q] = Free /\ h \in Handlers
  /\ ~row.deleted
  /\ h # ReplaceCredentials => v = row.creds
  /\ h = <<"close">> => state.exists
  /\ request' = [request EXCEPT ![q] = [todo |-> h, creds |-> v]]
  /\ UNCHANGED <<row, state, cmd, verdicts>>

-----------------------------------------------------------------------------
(* The writes.                                                             *)

RowAfter(w, v) ==
  CASE w \in {"pause", "switch_off"} -> [row EXCEPT !.active = FALSE]
    [] w \in {"resume", "switch_on"} -> [row EXCEPT !.active = TRUE]
    [] w = "replace" -> [row EXCEPT !.active = TRUE, !.creds = v]
    [] w = "delete" -> [row EXCEPT !.active = FALSE, !.deleted = TRUE]
    [] OTHER -> row

Reset == [state EXCEPT !.circuit = "closed", !.errors = 0, !.due = TRUE]

\* An update finds no row where the state was deleted; an upsert makes one.
StateAfter(w) ==
  CASE w = "reset" -> Reset
    [] w = "renew" -> [Reset EXCEPT !.exists = TRUE]
    [] w = "due" -> [state EXCEPT !.due = TRUE]
    [] w = "close" -> [state EXCEPT !.circuit = "closed", !.errors = 0, !.cooled = TRUE]
    [] w = "forget" -> NoState
    [] OTHER -> state

CmdAfter(w) ==
  CASE w \in Logouts \cup {"test_login"} -> w
    [] w = "clear" -> "none"
    [] OTHER -> cmd

Write(q) ==
  /\ request[q] # Free
  /\ LET w == Head(request[q].todo)
     IN  /\ row' = RowAfter(w, request[q].creds)
         /\ state' = StateAfter(w)
         /\ cmd' = CmdAfter(w)
         /\ verdicts' = IF w \in {"resume", "replace", "switch_on"} THEN 0 ELSE verdicts
  /\ request' = [request EXCEPT ![q] =
                   IF Len(@.todo) = 1 THEN Free
                                 ELSE [@ EXCEPT !.todo = Tail(request[q].todo)]]
  /\ UNCHANGED made

\* The database or Redis fails, or the API dies.
RequestFails(q) ==
  /\ request[q] # Free
  /\ request' = [request EXCEPT ![q] = Free]
  /\ UNCHANGED <<row, state, cmd, made, verdicts>>

\* The key has a time to live of 30 to 300 seconds.
CommandExpires ==
  /\ cmd # "none"
  /\ cmd' = "none"
  /\ UNCHANGED <<row, state, request, made, verdicts>>

CoolsDown ==
  /\ ~state.cooled
  /\ state' = [state EXCEPT !.cooled = TRUE]
  /\ UNCHANGED <<row, cmd, request, made, verdicts>>

BecomesDue ==
  /\ ~state.due
  /\ state' = [state EXCEPT !.due = TRUE]
  /\ UNCHANGED <<row, cmd, request, made, verdicts>>

ChannelNext ==
  \/ \E q \in Requests :
       \/ \E h \in Handlers, v \in Versions : Receive(q, h, v)
       \/ Write(q) \/ RequestFails(q)
  \/ CommandExpires \/ CoolsDown \/ BecomesDue
=============================================================================
