------------------------------ MODULE MCPages ------------------------------
(***************************************************************************)
(* What people ask of the API at once: how an invoice gets the code its      *)
(* customer pays with, the page the customer pays on, the tabs that share a  *)
(* session, and the channels a client adds and deletes.  They meet in rows   *)
(* of the database only, which each module models as far as it sees them, so *)
(* each moves while the others rest.                                         *)
(***************************************************************************)
EXTENDS Checkout, TLC

CONSTANTS
  MaxCode,   \* codes 1..MaxCode, the same tier for every invoice
  Link, Window, MaxTime,
  Tabs, People, Admin, Client, NoOne, MaxSignIns,
  Clients, MaxIds, Numbers, MaxPlan

ASSUME BrowserAssumption == Admin \in People /\ NoOne \notin People \cup {Client}

ASSUME PageAssumption == Link \in Nat /\ Window \in Nat

ASSUME OwnAssumption ==
  /\ MaxIds \in Nat /\ MaxPlan \in Nat
  /\ None \notin Clients \cup Numbers \cup 1..MaxIds

MCCodes == [i \in Invoices |-> 1..MaxCode]

EqualAmounts == [i \in Invoices |-> 10]

VARIABLES
  now, bill, published, page, choosing, saying, stream, event, was, excuse,
  cookie, hasSession, tab, fetch, auth, signIns, touched,
  plan, channel, waits, edits, crossed

payVars ==
  <<now, bill, published, page, choosing, saying, stream, event, was, excuse>>
tabVars == <<cookie, hasSession, tab, fetch, auth, signIns, touched>>
ownVars == <<plan, channel, waits, edits, crossed>>

Pay == INSTANCE PaymentPage WITH invoice <- bill, confirming <- saying
Browser == INSTANCE BrowserSession WITH page <- fetch, crossed <- touched
Own == INSTANCE OwnChannels WITH request <- edits, excuse <- crossed

MCInit == Init /\ Pay!Init /\ Browser!Init /\ Own!Init

\* Nothing is claimed of tabs once "touched" excuses them, and little of channels once
\* two things do.
MCNext ==
  \/ /\ Pay!Init /\ Browser!Init /\ Own!Init
     /\ Next /\ UNCHANGED <<payVars, tabVars, ownVars>>
  \/ /\ Init /\ Browser!Init /\ Own!Init
     /\ Pay!Next /\ UNCHANGED <<vars, tabVars, ownVars>>
  \/ /\ Init /\ Pay!Init /\ Own!Init
     /\ touched = {} /\ Browser!Next /\ UNCHANGED <<vars, payVars, ownVars>>
  \/ /\ Init /\ Pay!Init /\ Browser!Init
     /\ Own!Next /\ Cardinality(crossed') <= 1 /\ UNCHANGED <<vars, payVars, tabVars>>

MCSpec == MCInit /\ [][MCNext]_<<vars, payVars, tabVars, ownVars>>

PageTells == Pay!PageTells
ActsAsShown == Browser!ActsAsShown
ChannelsHold == Own!ChannelsHold

\* Invoices are interchangeable, and so are requests.
Symmetry == Permutations(Invoices) \cup Permutations(Requests)
=============================================================================
