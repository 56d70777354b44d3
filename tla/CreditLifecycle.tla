--------------------------- MODULE CreditLifecycle ---------------------------
(***************************************************************************)
(* What a merchant is promised of the money of a paid invoice: it is       *)
(* credited once, either held for two days and then released, or released  *)
(* at once, and once released it stays released.                           *)
(***************************************************************************)
CONSTANT Credits          \* the credits of paid invoices

VARIABLE place            \* where the money of each credit is

Places == {"nowhere", "held", "released"}

Init == place = [e \in Credits |-> "nowhere"]

\* A paid invoice is credited, held or directly released.
Credit(e) ==
  /\ place[e] = "nowhere"
  /\ \E p \in {"held", "released"} : place' = [place EXCEPT ![e] = p]

\* Held money is released.
Release(e) ==
  /\ place[e] = "held"
  /\ place' = [place EXCEPT ![e] = "released"]

Next == \E e \in Credits : Credit(e) \/ Release(e)

Spec == Init /\ [][Next]_place
=============================================================================
