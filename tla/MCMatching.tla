----------------------------- MODULE MCMatching -----------------------------
(***************************************************************************)
(* Matching while nothing fails but the activation of a subscription, and   *)
(* nobody matches by hand: what holds then does not depend on luck.  The     *)
(* rest of the steps are checked in MCPayments.                             *)
(***************************************************************************)
EXTENDS Matching

Undisturbed ==
  \/ \E i \in Invoices :
       \/ \E c \in Channels : SelectRead(i, c)
       \/ ConfirmRead(i)
       \/ CancelRead(i)
  \/ \E call \in calls : StatusWrite(call) \/ \E charge \in Charges : SelectWrite(call, charge)
  \/ Scheduler
  \/ \E t \in Mutations : Scraper(t) \/ MatchStep(t) \/ ActivationFails(t)

MCSpec ==
  /\ Init /\ [][Undisturbed]_vars
  /\ \A t \in Mutations : WF_vars(AddMatchJob(t)) /\ WF_vars(MatchStep(t))
=============================================================================
