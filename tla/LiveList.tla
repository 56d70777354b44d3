------------------------------ MODULE LiveList -----------------------------
(***************************************************************************)
(* A list of the merchant's dashboard that follows what happens: the          *)
(* invoices, the newest five of the overview, or the balance.  The layout      *)
(* holds the stream of events and tells the page at hand of each; the page     *)
(* reads its rows again.                                                      *)
(*                                                                         *)
(* Rows are the changes they show.  Changes are committed first and published  *)
(* then, to those who listen at that moment.                                  *)
(***************************************************************************)
EXTENDS Naturals, FiniteSets

CONSTANTS
  Pages,     \* of "invoices", "overview" and "balance", those checked
  Changes,   \* what happens to the merchant's invoices, or its balance
  Views,     \* filters and page numbers of the invoices
  FirstView, \* no filter, page one
  MaxLoads   \* bound: reads under way

VARIABLES
  kind,        \* the page
  committed,   \* changes in the database
  unpublished, \* and those not published yet
  stream,      \* the EventSource of the layout, with the API's end
  events,      \* events on their way
  list,        \* what the page shows: the rows, and the view they are of
  loads,       \* its reads under way
  excuse       \* why it may be wrong since it was opened (history)

vars == <<kind, committed, unpublished, stream, events, list, loads, excuse>>

NewStream == [at |-> "asked", first |-> TRUE, good |-> TRUE]
NoList == [open |-> FALSE, view |-> FirstView, of |-> FirstView, rows |-> {}]

Init ==
  /\ kind \in Pages
  /\ committed = {} /\ unpublished = {}
  /\ stream = NewStream /\ events = {}
  /\ list = NoList /\ loads = {} /\ excuse = {}

Excused(es) == excuse' = excuse \cup es
If(cond, e) == IF cond THEN {e} ELSE {}

(***************************************************************************)
(* The page                                                                *)
(***************************************************************************)
FreeNumbers == {n \in 1 .. MaxLoads : \A l \in loads : l.n # n}

Loads(v) ==
  \E n \in FreeNumbers :
    /\ \A k \in FreeNumbers : n <= k
    /\ loads' = loads \cup {[n |-> n, view |-> v, at |-> "asked", rows |-> {}]}

Opens ==
  /\ ~ list.open /\ list' = [NoList EXCEPT !.open = TRUE] /\ Loads(FirstView)
  /\ excuse' = {}
  /\ UNCHANGED <<kind, committed, unpublished, stream, events>>

\* Its reads answer to nobody.
Leaves ==
  /\ list.open /\ list' = NoList /\ loads' = {}
  /\ UNCHANGED <<kind, committed, unpublished, stream, events, excuse>>

\* Another filter, or page.
Chooses(v) ==
  /\ kind = "invoices" /\ list.open /\ v # list.view
  /\ list' = [list EXCEPT !.view = v] /\ Loads(v)
  /\ UNCHANGED <<kind, committed, unpublished, stream, events, excuse>>

Reads(l) ==
  /\ l \in loads /\ l.at = "asked"
  /\ loads' = (loads \ {l}) \cup {[l EXCEPT !.at = "read", !.rows = committed]}
  /\ UNCHANGED <<kind, committed, unpublished, stream, events, list, excuse>>

\* Whatever has been shown or chosen meanwhile.
Answered(l) ==
  /\ l \in loads /\ l.at = "read" /\ loads' = loads \ {l}
  /\ list' = [list EXCEPT !.of = l.view, !.rows = l.rows]
  /\ Excused(If(~ list.rows \subseteq l.rows, "overtaken") \cup If(l.view # list.view, "otherView"))
  /\ UNCHANGED <<kind, committed, unpublished, stream, events>>

LoadFails(l) ==
  /\ l \in loads /\ loads' = loads \ {l} /\ Excused({"failed"})
  /\ UNCHANGED <<kind, committed, unpublished, stream, events, list>>

\* The handler is that of the first render: it loads the first view.  The balance
\* listens to its event alone.
Told(event) ==
  IF ~ list.open \/ (kind = "balance" /\ event = "reload") THEN UNCHANGED loads
  ELSE Loads(FirstView)

\* The merchant's tab is looked at again.
BecomesVisible ==
  /\ Told("reload")
  /\ UNCHANGED <<kind, committed, unpublished, stream, events, list, excuse>>

(***************************************************************************)
(* The stream                                                              *)
(***************************************************************************)
Listening == stream.at = "on"

MayHaveMissed_Never == FALSE
MayHaveMissed == ~ stream.first

\* The headers are sent before the API subscribes.  Opened again, the page is told
\* to read again.
StreamOpens ==
  /\ stream.at = "asked" /\ stream.good
  /\ stream' = [stream EXCEPT !.at = "open", !.first = FALSE]
  /\ IF MayHaveMissed THEN Told("reload") ELSE UNCHANGED loads
  /\ UNCHANGED <<kind, committed, unpublished, events, list, excuse>>

Subscribes ==
  /\ stream.at = "open" /\ stream' = [stream EXCEPT !.at = "on"]
  /\ UNCHANGED <<kind, committed, unpublished, events, list, loads, excuse>>

\* The browser connects again by itself.
Drops ==
  /\ stream.at \in {"open", "on"} /\ stream' = [stream EXCEPT !.at = "asked"]
  /\ events' = {}
  /\ Excused(If(kind = "balance" /\ events # {}, "missed"))
  /\ UNCHANGED <<kind, committed, unpublished, list, loads>>

\* An answer that is not a stream ends it.
StreamRefused ==
  /\ stream.at = "asked" /\ ~ stream.good /\ stream' = [stream EXCEPT !.at = "ended"]
  /\ UNCHANGED <<kind, committed, unpublished, events, list, loads, excuse>>

TokenExpires ==
  /\ stream.good /\ stream' = [stream EXCEPT !.good = FALSE]
  /\ UNCHANGED <<kind, committed, unpublished, events, list, loads, excuse>>

\* A new token starts a new stream, for which the first opening is no reconnection,
\* even if the stream before it was waiting for one.
TokenRenewed ==
  /\ ~ stream.good /\ stream' = NewStream /\ events' = {}
  /\ Excused(If(events # {} \/ (~ Listening /\ ~ stream.first), "missed"))
  /\ UNCHANGED <<kind, committed, unpublished, list, loads>>

(***************************************************************************)
(* What happens                                                            *)
(***************************************************************************)
Commits(c) ==
  /\ c \notin committed
  /\ committed' = committed \cup {c} /\ unpublished' = unpublished \cup {c}
  /\ UNCHANGED <<kind, stream, events, list, loads, excuse>>

\* Missed for good, unless the stream is about to be opened again.
Publishes(c) ==
  /\ c \in unpublished /\ unpublished' = unpublished \ {c}
  /\ IF Listening THEN events' = events \cup {c} /\ UNCHANGED excuse
     ELSE /\ UNCHANGED events
          /\ Excused(If(stream.at # "asked" \/ stream.first \/ kind = "balance", "missed"))
  /\ UNCHANGED <<kind, committed, stream, list, loads>>

Hears(c) ==
  /\ c \in events /\ events' = events \ {c}
  /\ Told("change")
  /\ UNCHANGED <<kind, committed, unpublished, stream, list, excuse>>

Next ==
  \/ Opens \/ Leaves \/ BecomesVisible
  \/ \E v \in Views : Chooses(v)
  \/ \E l \in loads : Reads(l) \/ Answered(l) \/ LoadFails(l)
  \/ StreamOpens \/ Subscribes \/ Drops \/ StreamRefused \/ TokenExpires \/ TokenRenewed
  \/ \E c \in Changes : Commits(c) \/ Publishes(c) \/ Hears(c)

Spec == Init /\ [][Next]_vars

(***************************************************************************)
(* Properties                                                              *)
(***************************************************************************)

\* Nothing is under way, and the page listens.
Quiet == list.open /\ loads = {} /\ events = {} /\ unpublished = {} /\ Listening

\* 'Reconnect: mungkin ada event yang terlewat, refresh data' (layout.js:122): a list
\* that listens shows what has happened, unless an event was published between two
\* streams or before the API had subscribed, a read failed, or an answer was
\* overtaken.
ListIsFresh ==
  Quiet /\ excuse \cap {"missed", "failed", "overtaken"} = {} => list.rows = committed

\* The rows are of the chosen filter, unless an event brought those of the first view
\* or a read of a view chosen before came late.
RowsAreOfView == Quiet /\ excuse \cap {"failed", "otherView"} = {} => list.of = list.view

ListTells == ListIsFresh /\ RowsAreOfView

=============================================================================
