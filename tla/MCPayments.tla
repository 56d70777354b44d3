----------------------------- MODULE MCPayments -----------------------------
(***************************************************************************)
(* A payment on its way from the bank to the merchant's screen, in three    *)
(* parts that meet in rows only, each moving while the others rest: how soon *)
(* the bank is read, how a mutation becomes a payment when anything may fail, *)
(* and how the dashboard learns of it.                                      *)
(***************************************************************************)
EXTENDS Matching, TLC

CONSTANTS
  High, Medium, Low, HighTimeout, BackOffs, MaxJobs,
  Pages, Changes, Views, FirstView, MaxLoads

ASSUME TimingAssumption ==
  /\ High \in Nat \ {0} /\ Medium \in Nat /\ Low \in Nat
  /\ HighTimeout \in Nat /\ BackOffs \subseteq Nat

VARIABLES
  next, bills, poll, polled, waiting, scraping, pushing, cancels, excuse,
  kind, committed, unpublished, stream, events, list, loads, why

timingVars == <<next, bills, poll, polled, waiting, scraping, pushing, cancels, excuse>>
listVars == <<kind, committed, unpublished, stream, events, list, loads, why>>

Timing == INSTANCE ScrapeTiming
Lists == INSTANCE LiveList WITH excuse <- why

ListRests == Lists!Init /\ kind = "invoices"

MCInit == Init /\ Timing!Init /\ Lists!Init

MCNext ==
  \/ /\ Timing!Init /\ ListRests
     /\ Next /\ UNCHANGED <<timingVars, listVars>>
  \/ /\ Init /\ ListRests
     /\ Timing!Next /\ UNCHANGED <<vars, listVars>>
  \/ /\ Init /\ Timing!Init
     /\ Lists!Next /\ UNCHANGED <<vars, timingVars>>

MCSpec == MCInit /\ [][MCNext]_<<vars, timingVars, listVars>>

PromptIsKept == Timing!PromptIsKept
ListTells == Lists!ListTells

\* Mutations, charges and changes are each interchangeable.
Symmetry == Permutations(Mutations) \cup Permutations(Charges) \cup Permutations(Changes)
=============================================================================
