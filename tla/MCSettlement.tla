---------------------------- MODULE MCSettlement ----------------------------
(***************************************************************************)
(* What follows from a client's plan, side by side: when its credits are    *)
(* settled, and which invoices it may make.  The two share no state.        *)
(***************************************************************************)
EXTENDS Settlement, TLC

CONSTANTS
  a, b,            \* two clients
  Invoices, Requests, MinAmount, MaxAmount, MonthLimit, MaxPending

ASSUME LimitsAssumption ==
  /\ MinAmount \in Nat \ {0} /\ MaxAmount \in Nat /\ MonthLimit \in Nat /\ MaxPending \in Nat \ {0}
  /\ MinAmount <= MaxAmount /\ MaxAmount <= MonthLimit
  /\ IsFiniteSet(Invoices) /\ IsFiniteSet(Requests)

VARIABLES open, paid, request

sales == <<open, paid, request>>
all == <<vars, sales>>

Free == INSTANCE Invoicing

\* The first client owns every credit but one.
MCOwner == LET other == CHOOSE e \in Credits : TRUE
           IN  [e \in Credits |-> IF e = other THEN b ELSE a]

Settling(action) == Free!Init /\ action /\ UNCHANGED sales
Resting == Init /\ pro = [c \in Clients |-> FALSE]

MCInit == Init /\ Free!Init

MCNext == Settling(Next) \/ (Resting /\ Free!Next /\ UNCHANGED vars)

MCSpec ==
  /\ MCInit /\ [][MCNext]_all
  /\ \A w \in Workers :
       /\ WF_all(Settling(Tick(w)))
       /\ \A e \in Credits : SF_all(Settling(SettleEntry(w, e)))

LimitsHold == Free!LimitsHold
=============================================================================
