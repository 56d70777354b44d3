------------------------------ MODULE MCPlans -------------------------------
(***************************************************************************)
(* A client's subscription and the delivery of an event to its endpoints,   *)
(* side by side.  They share no state: each moves while the other rests; a   *)
(* client without endpoints rests in Webhooks.                              *)
(*                                                                          *)
(* Once two series of writes to the subscriptions have crossed, only the    *)
(* scheduler goes on: the invariants say nothing of what follows.           *)
(***************************************************************************)
EXTENDS Billing

CONSTANTS Endpoints, MaxAttempts, MaxStalls, MaxEdits, MaxMishaps

ASSUME DeliveryAssumption ==
  /\ MaxAttempts \in Nat \ {0}
  /\ MaxStalls \in Nat /\ MaxEdits \in Nat /\ MaxMishaps \in Nat

VARIABLES endpoint, logs, delivery, edit, made, mishaps, steady, tried, told, missing, lost

hooks == <<endpoint, logs, delivery, edit, made, mishaps, steady, tried, told, missing, lost>>
all == <<vars, hooks>>

Hooks == INSTANCE Webhooks WITH MaxRequests <- MaxEdits, MaxFaults <- MaxMishaps,
                                job <- delivery, request <- edit, faults <- mishaps

Sweeping == <<clock, invoice, request, owed>>' = <<clock, invoice, request, owed>>

Subscribing == Next /\ (crossed => Sweeping)

NoEndpoint == Hooks!Init /\ endpoint = [e \in Endpoints |-> "absent"]

MCInit == Init /\ Hooks!Init

MCNext ==
  \/ NoEndpoint /\ Subscribing /\ UNCHANGED hooks
  \/ Init /\ Hooks!Next /\ UNCHANGED vars

MCSpec ==
  /\ MCInit /\ [][MCNext]_all
  /\ WF_all(NoEndpoint /\ SweepStep /\ Cross /\ UNCHANGED hooks)
  /\ WF_all(Init /\ Hooks!Worker /\ UNCHANGED vars)

DeliveryIsLogged == Hooks!DeliveryIsLogged
ListenersAreServed == Hooks!ListenersAreServed
=============================================================================
