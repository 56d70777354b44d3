---------------------------- MODULE PlansProofs -----------------------------
(***************************************************************************)
(* What is proved of Billing, and of Webhooks (Hooks), for any number of   *)
(* invoices, requests, months, endpoints and attempts.                     *)
(*                                                                         *)
(*  - Paid months add up.  While no two series of writes have met, one is   *)
(*    under way at most; between them one row is active, and is of what    *)
(*    was paid, and within one the invariant says how far it has come.     *)
(*  - A delivery is logged.  What was answered well and is not counted as   *)
(*    missing has its log, or is the answer in hand.                       *)
(***************************************************************************)
EXTENDS MCPlans, FiniteSetTheorems, SequenceTheorems, WellFoundedInduction, TLAPS

-----------------------------------------------------------------------------
(* The table of subscriptions.                                             *)

ActiveOf(r) == {k \in DOMAIN r : Active(r[k])}

LEMMA EndedRows ==
  ASSUME rows \in Seq(Subscription), NEW status \in {"expired", "cancelled"}
  PROVE  /\ Ended(status) \in Seq(Subscription) /\ Len(Ended(status)) = Len(rows)
         /\ ActiveOf(Ended(status)) = {}
<1>1. \A k \in DOMAIN rows : rows[k] \in Subscription
  OBVIOUS
<1>2. ASSUME NEW k \in DOMAIN rows
      PROVE  Ended(status)[k] \in Subscription /\ ~Active(Ended(status)[k])
  <2>1. rows[k] \in Subscription
    BY <1>1
  <2>2. CASE Active(rows[k])
    <3>1. Ended(status)[k] = [rows[k] EXCEPT !.status = status]
      BY <2>2 DEF Ended
    <3>2. QED
      BY <2>1, <3>1 DEF Subscription, Active
  <2>3. CASE ~Active(rows[k])
    BY <2>1, <2>3 DEF Ended
  <2>4. QED
    BY <2>2, <2>3
<1>3. DOMAIN Ended(status) = 1 .. Len(rows) /\ DOMAIN rows = 1 .. Len(rows) /\ Len(rows) \in Nat
  BY DEF Ended
<1>4. Ended(status) = [k \in 1 .. Len(rows) |-> Ended(status)[k]]
  BY <1>3 DEF Ended
<1>5. Ended(status) \in Seq(Subscription) /\ Len(Ended(status)) = Len(rows)
  BY <1>2, <1>3, <1>4
<1>6. QED
  BY <1>2, <1>3, <1>5 DEF ActiveOf

LEMMA AppendedRow ==
  ASSUME NEW r \in Seq(Subscription), NEW plan \in Plans, NEW end \in Nat
  PROVE  /\ Append(r, Row(plan, end)) \in Seq(Subscription)
         /\ Len(Append(r, Row(plan, end))) = Len(r) + 1
         /\ Append(r, Row(plan, end))[Len(r) + 1] = Row(plan, end)
         /\ ActiveOf(r) = {} => ActiveOf(Append(r, Row(plan, end))) = {Len(r) + 1}
<1>1. Row(plan, end) \in Subscription /\ Active(Row(plan, end))
  BY DEF Row, Subscription, Active
<1>2. PICK s \in Subscription : s = Row(plan, end)
  BY <1>1
<1>3. Len(r) \in Nat /\ DOMAIN r = 1 .. Len(r)
  OBVIOUS
<1>4. /\ Append(r, s) \in Seq(Subscription) /\ Len(Append(r, s)) = Len(r) + 1
      /\ Append(r, s)[Len(r) + 1] = s
      /\ \A k \in 1 .. Len(r) : Append(r, s)[k] = r[k]
      /\ DOMAIN Append(r, s) = 1 .. Len(r) + 1
  OBVIOUS
<1>5. ASSUME ActiveOf(r) = {} PROVE ActiveOf(Append(r, s)) = {Len(r) + 1}
  <2>1. \A k \in 1 .. Len(r) : ~Active(r[k])
    BY <1>3, <1>5 DEF ActiveOf
  <2>2. ASSUME NEW k PROVE k \in ActiveOf(Append(r, s)) <=> k = Len(r) + 1
    <3>1. k \in ActiveOf(Append(r, s)) <=> k \in 1 .. Len(r) + 1 /\ Active(Append(r, s)[k])
      BY <1>4 DEF ActiveOf
    <3>2. k \in 1 .. Len(r) + 1 <=> k \in 1 .. Len(r) \/ k = Len(r) + 1
      BY <1>3
    <3>3. QED
      BY <1>1, <1>2, <1>4, <2>1, <3>1, <3>2
  <2>3. QED
    BY <2>2
<1>6. QED
  BY <1>2, <1>4, <1>5

-----------------------------------------------------------------------------
(* Types.                                                                  *)

Sweeps ==
  /\ sweep.at = "expiring" => sweep.overdue # {}
  /\ sweep.at \in {"freeing", "stopping"} => sweep.left # 0

Types == TypeOK /\ Len(rows) <= MaxRows /\ Sweeps

LEMMA TypesInit == Init => Types
<1>. SUFFICES ASSUME Init PROVE Types
  OBVIOUS
<1>1. rows \in Seq(Subscription) /\ Len(rows) <= MaxRows
  <2>1. Row("free", Never) \in Subscription
    BY DEF Row, Subscription, Plans, Never
  <2>2. PICK s \in Subscription : s = Row("free", Never)
    BY <2>1
  <2>3. rows = <<s>>
    BY <2>2 DEF Init
  <2>4. QED
    BY <2>3, BillingAssumption
<1>2. At("none") \in Invoice /\ sweep \in Sweep
  BY DEF Init, At, Invoice, Sweep
<1>3. invoice \in [Invoices -> Invoice]
  BY <1>2 DEF Init
<1>4. request \in [Requests -> {"none", "downgrading", "invoicing"}]
  BY DEF Init
<1>5. Sweeps
  BY DEF Init, At, Sweeps
<1>6. clock \in Nat /\ channels \in BOOLEAN /\ crossed \in BOOLEAN /\ faults \in Nat /\ owed \in Nat
  BY DEF Init
<1>7. QED
  BY <1>1, <1>2, <1>3, <1>4, <1>5, <1>6 DEF Types, TypeOK

\* What a step keeps, but for "crossed".
Kept ==
  /\ clock' \in Nat /\ rows' \in Seq(Subscription) /\ Len(rows') <= MaxRows
  /\ invoice' \in [Invoices -> Invoice]
  /\ request' \in [Requests -> {"none", "downgrading", "invoicing"}]
  /\ sweep' \in Sweep /\ Sweeps'
  /\ channels' \in BOOLEAN /\ faults' \in Nat /\ owed' \in Nat

LEMMA RowAdded ==
  ASSUME NEW r \in Seq(Subscription), Len(r) < MaxRows, NEW plan \in Plans, NEW end \in Nat
  PROVE  Append(r, Row(plan, end)) \in Seq(Subscription) /\ Len(Append(r, Row(plan, end))) <= MaxRows
<1>1. Len(r) \in Nat /\ MaxRows \in Nat
  BY BillingAssumption
<1>2. QED
  BY <1>1, AppendedRow

\* A step of the client that leaves subscriptions and invoices alone, or not.
LEMMA ClientKeeps ==
  ASSUME Types,
         \/ \E r \in Requests :
              Downgrade(r) \/ FreePlan(r) \/ AsksForInvoice(r) \/ MakesInvoice(r) \/ RequestFails(r)
         \/ OpensChannel
         \/ Tick
  PROVE  Kept
<1>. USE DEF Types, TypeOK, Kept, Sweeps
<1>1. ASSUME NEW r \in Requests, Downgrade(r) PROVE Kept
  <2>1. Ended("expired") \in Seq(Subscription) /\ Len(Ended("expired")) = Len(rows)
    BY EndedRows
  <2>2. QED
    BY <1>1, <2>1 DEF Downgrade
<1>2. ASSUME NEW r \in Requests, FreePlan(r) PROVE Kept
  <2>1. rows' \in Seq(Subscription) /\ Len(rows') <= MaxRows
    BY <1>2, RowAdded DEF FreePlan, Room, Plans, Never
  <2>2. QED
    BY <1>2, <2>1 DEF FreePlan
<1>3. ASSUME NEW r \in Requests, AsksForInvoice(r) PROVE Kept
  BY <1>3 DEF AsksForInvoice
<1>4. ASSUME NEW r \in Requests, MakesInvoice(r) PROVE Kept
  <2>1. At("open") \in Invoice
    BY DEF At, Invoice
  <2>2. QED
    BY <1>4, <2>1 DEF MakesInvoice
<1>5. ASSUME NEW r \in Requests, RequestFails(r) PROVE Kept
  BY <1>5 DEF RequestFails
<1>6. CASE OpensChannel
  BY <1>6 DEF OpensChannel
<1>7. CASE Tick
  BY <1>7 DEF Tick
<1>8. QED
  BY <1>1, <1>2, <1>3, <1>4, <1>5, <1>6, <1>7

\* A set of numbers that is bounded, and not empty, has a greatest one.
LEMMA Greatest ==
  ASSUME NEW S \in SUBSET Nat, S # {}, NEW n \in Nat, \A k \in S : k <= n
  PROVE  \E k \in S : \A l \in S : l <= k
<1> DEFINE Bounds == {u \in Nat : \A k \in S : k <= u}
<1>1. Bounds \subseteq Nat /\ Bounds # {}
  OBVIOUS
<1>2. PICK b \in Bounds : \A u \in Bounds : ~(<<u, b>> \in OpToRel(<, Nat))
  <2> DEFINE R == OpToRel(<, Nat)
  <2>1. IsWellFoundedOn(R, Nat)
    BY NatLessThanWellFounded
  <2>. HIDE DEF Bounds, R
  <2>2. \E b \in Bounds : \A u \in Bounds : ~(<<u, b>> \in R)
    BY <1>1, <2>1, WFMin
  <2>3. QED
    BY <2>2 DEF R
<1>3. \A u \in Bounds : ~(u < b)
  BY <1>1, <1>2 DEF OpToRel
<1>4. CASE b \in S
  BY <1>4
<1>5. CASE b \notin S
  <2>1. \A k \in S : k <= b - 1
    BY <1>5
  <2>2. b - 1 \in Nat
    <3>1. PICK k \in S : k <= b - 1
      BY <2>1
    <3>2. b \in Nat /\ k \in Nat
      BY <1>1
    <3>3. QED
      BY <3>1, <3>2
  <2>3. b - 1 \in Bounds
    BY <2>1, <2>2
  <2>4. QED
    BY <1>3, <2>3
<1>6. QED
  BY <1>4, <1>5

LEMMA BaseTypes ==
  ASSUME rows \in Seq(Subscription), NEW now \in Nat
  PROVE  Base(now) \in Nat
<1>1. ASSUME ActiveRows # {}
      PROVE  Existing \in ActiveRows
  <2>1. /\ ActiveRows \in SUBSET Nat /\ Len(rows) \in Nat
        /\ \A k \in ActiveRows : k <= Len(rows)
    BY DEF ActiveRows
  <2>2. \E k \in ActiveRows : \A l \in ActiveRows : l <= k
    BY <1>1, <2>1, Greatest
  <2>3. QED
    BY <2>2 DEF Existing
<1>2. CASE ActiveRows # {}
  <2>1. rows[Existing] \in Subscription
    BY <1>1, <1>2 DEF ActiveRows
  <2>2. QED
    BY <2>1 DEF Base, Subscription
<1>3. CASE ActiveRows = {}
  BY <1>3 DEF Base
<1>4. QED
  BY <1>2, <1>3

LEMMA InvoiceKeeps ==
  ASSUME Types, NEW i \in Invoices, InvoicePaid(i) \/ InvoiceExpires(i) \/ Grant(i) \/ GrantFails(i)
  PROVE  Kept
<1>. USE DEF Types, TypeOK, Kept, Sweeps
<1>0. invoice[i] \in Invoice /\ At("closed") \in Invoice
  BY DEF Invoice, At
<1>1. CASE InvoicePaid(i)
  <2>1. [at |-> "paid", now |-> clock] \in Invoice
    BY DEF Invoice
  <2>2. owed' \in Nat
    BY <1>1 DEF InvoicePaid, MaxOf
  <2>3. QED
    BY <1>1, <2>1, <2>2 DEF InvoicePaid
<1>2. CASE InvoiceExpires(i)
  BY <1>0, <1>2 DEF InvoiceExpires
<1>3. CASE ReadsExisting(i)
  <2>1. invoice[i].now \in Nat
    BY <1>0, <1>3 DEF ReadsExisting, Invoice
  <2>2. Base(invoice[i].now) \in Nat
    BY <2>1, BaseTypes
  <2>3. [at |-> "expiring", base |-> Base(invoice[i].now)] \in Invoice
    BY <2>2 DEF Invoice
  <2>4. QED
    BY <1>3, <2>3 DEF ReadsExisting
<1>4. CASE EndsExisting(i)
  <2>1. Ended("expired") \in Seq(Subscription) /\ Len(Ended("expired")) = Len(rows)
    BY EndedRows
  <2>2. invoice[i] \in [at: {"expiring", "granting"}, base: Nat]
    BY <1>0, <1>4 DEF EndsExisting, Invoice
  <2>3. [invoice[i] EXCEPT !.at = "granting"] \in Invoice
    BY <2>2 DEF Invoice
  <2>4. invoice' = [invoice EXCEPT ![i] = [invoice[i] EXCEPT !.at = "granting"]]
    BY <1>4 DEF EndsExisting
  <2>5. invoice' \in [Invoices -> Invoice]
    BY <2>3, <2>4
  <2>6. QED
    BY <1>4, <2>1, <2>5 DEF EndsExisting
<1>5. CASE GrantsMonth(i)
  <2>1. invoice[i].base \in Nat
    BY <1>0, <1>5 DEF GrantsMonth, Invoice
  <2>2. rows' \in Seq(Subscription) /\ Len(rows') <= MaxRows
    BY <1>5, <2>1, RowAdded DEF GrantsMonth, Room, Plans
  <2>3. QED
    BY <1>0, <1>5, <2>2 DEF GrantsMonth
<1>6. CASE GrantFails(i)
  BY <1>0, <1>6 DEF GrantFails
<1>7. QED
  BY <1>1, <1>2, <1>3, <1>4, <1>5, <1>6 DEF Grant

LEMMA SweepRows ==
  ASSUME rows \in Seq(Subscription), NEW overdue,
         rows' = [k \in DOMAIN rows |-> IF k \in overdue THEN [rows[k] EXCEPT !.status = "expired"]
                                                         ELSE rows[k]]
  PROVE  /\ rows' \in Seq(Subscription) /\ Len(rows') = Len(rows)
         /\ ActiveRows \subseteq overdue => ActiveRows' = {}
<1>1. DOMAIN rows = 1 .. Len(rows) /\ Len(rows) \in Nat
  OBVIOUS
<1>2. ASSUME NEW k \in DOMAIN rows
      PROVE  /\ rows'[k] \in Subscription
             /\ k \in overdue => ~Active(rows'[k])
             /\ k \notin overdue => rows'[k] = rows[k]
  <2>1. rows[k] \in Subscription
    OBVIOUS
  <2>2. CASE k \in overdue
    <3>1. rows'[k] = [rows[k] EXCEPT !.status = "expired"]
      BY <2>2
    <3>2. QED
      BY <2>1, <2>2, <3>1 DEF Subscription, Active
  <2>3. CASE k \notin overdue
    BY <2>1, <2>3
  <2>4. QED
    BY <2>2, <2>3
<1>3. rows' = [k \in 1 .. Len(rows) |-> rows'[k]] /\ DOMAIN rows' = DOMAIN rows
  BY <1>1
<1>4. rows' \in Seq(Subscription) /\ Len(rows') = Len(rows)
  BY <1>1, <1>2, <1>3
<1>5. ASSUME ActiveRows \subseteq overdue PROVE ActiveRows' = {}
  BY <1>2, <1>3, <1>5 DEF ActiveRows
<1>6. QED
  BY <1>4, <1>5

LEMMA OverdueTypes ==
  ASSUME Types
  PROVE  Overdue \subseteq 1 .. MaxRows /\ IsFiniteSet(Overdue)
<1>1. Len(rows) \in Nat /\ MaxRows \in Nat /\ DOMAIN rows = 1 .. Len(rows)
  BY BillingAssumption DEF Types, TypeOK
<1>2. Overdue \subseteq 1 .. MaxRows
  BY <1>1 DEF Overdue, ActiveRows, Types
<1>3. IsFiniteSet(1 .. MaxRows)
  BY <1>1, FS_Interval
<1>4. QED
  BY <1>2, <1>3, FS_Subset

LEMMA SweepKeeps ==
  ASSUME Types, SweepStep \/ SweepFails
  PROVE  Kept
<1>. USE DEF Types, TypeOK, Kept
<1>1. CASE SweepReads
  <2>1. Overdue \in SUBSET (1 .. MaxRows)
    BY OverdueTypes
  <2>2. sweep' \in Sweep /\ Sweeps'
    BY <1>1, <2>1 DEF SweepReads, Sweep, Sweeps
  <2>3. QED
    BY <1>1, <2>2 DEF SweepReads
<1>2. CASE SweepExpires
  <2>1. sweep.overdue \in SUBSET (1 .. MaxRows) /\ sweep.overdue # {}
    BY <1>2 DEF SweepExpires, Sweep, Sweeps
  <2>2. MaxRows \in Nat
    BY BillingAssumption
  <2>3. IsFiniteSet(sweep.overdue)
    <3>1. IsFiniteSet(1 .. MaxRows)
      BY <2>2, FS_Interval
    <3>2. QED
      BY <2>1, <3>1, FS_Subset
  <2>4. Cardinality(sweep.overdue) \in Nat /\ Cardinality(sweep.overdue) # 0
    BY <2>1, <2>3, FS_CardinalityType, FS_EmptySet
  <2>5. sweep' = [at |-> "freeing", left |-> Cardinality(sweep.overdue)]
    BY <1>2 DEF SweepExpires
  <2>6. sweep' \in Sweep /\ Sweeps'
    BY <2>4, <2>5 DEF Sweep, Sweeps
  <2>7. rows' \in Seq(Subscription) /\ Len(rows') = Len(rows)
    BY <1>2, SweepRows DEF SweepExpires
  <2>8. QED
    BY <1>2, <2>6, <2>7 DEF SweepExpires
<1>3. CASE SweepFrees
  <2>1. sweep \in [at: {"freeing", "stopping"}, left: Nat] /\ sweep.left # 0
    BY <1>3 DEF SweepFrees, Sweep, Sweeps
  <2>2. sweep' = [sweep EXCEPT !.at = "stopping"]
    BY <1>3 DEF SweepFrees
  <2>3. sweep' \in Sweep /\ Sweeps'
    BY <2>1, <2>2 DEF Sweep, Sweeps
  <2>4. rows' \in Seq(Subscription) /\ Len(rows') <= MaxRows
    BY <1>3, RowAdded DEF SweepFrees, Room, Plans, Never
  <2>5. QED
    BY <1>3, <2>3, <2>4 DEF SweepFrees
<1>4. CASE SweepStops
  <2>1. sweep.left \in Nat /\ sweep.left # 0
    BY <1>4 DEF SweepStops, Sweep, Sweeps
  <2>2. sweep' \in Sweep /\ Sweeps'
    <3>1. CASE sweep.left = 1
      BY <1>4, <3>1 DEF SweepStops, Sweep, Sweeps, At
    <3>2. CASE sweep.left # 1
      <4>1. sweep' = [at |-> "freeing", left |-> sweep.left - 1]
        BY <1>4, <3>2 DEF SweepStops
      <4>2. sweep.left - 1 \in Nat /\ sweep.left - 1 # 0
        BY <2>1, <3>2
      <4>3. QED
        BY <4>1, <4>2 DEF Sweep, Sweeps
    <3>3. QED
      BY <3>1, <3>2
  <2>3. QED
    BY <1>4, <2>2 DEF SweepStops
<1>5. CASE SweepFails
  BY <1>5 DEF SweepFails, Sweep, Sweeps, At
<1>6. QED
  BY <1>1, <1>2, <1>3, <1>4, <1>5 DEF SweepStep

LEMMA AdminKeeps ==
  ASSUME Types, AdminSetsPlan
  PROVE  Kept
<1>1. PICK plan \in Plans :
        /\ rows' = Append(Ended("cancelled"), Row(plan, clock + Year))
        /\ owed' = IF plan = "subscription" THEN clock + Year ELSE 0
  BY DEF AdminSetsPlan
<1>2. Ended("cancelled") \in Seq(Subscription) /\ Len(Ended("cancelled")) = Len(rows)
  BY EndedRows DEF Types, TypeOK
<1>3. clock + Year \in Nat
  BY DEF Types, TypeOK, Year
<1>4. rows' \in Seq(Subscription) /\ Len(rows') <= MaxRows
  BY <1>1, <1>2, <1>3, RowAdded DEF AdminSetsPlan, Room
<1>5. owed' \in Nat
  BY <1>1, <1>3
<1>6. QED
  BY <1>4, <1>5 DEF AdminSetsPlan, Kept, Types, TypeOK, Sweeps

LEMMA TypesStep == Types /\ [Next]_vars => Types'
<1>. SUFFICES ASSUME Types, [Next]_vars PROVE Types'
  OBVIOUS
<1>1. CASE UNCHANGED vars
  BY <1>1 DEF vars, Types, TypeOK, Sweeps
<1>2. CASE Next
  <2>1. crossed' \in BOOLEAN
    BY <1>2, Zenon DEF Next, Series, AdminSetsPlan, Cross
  <2>2. Kept
    BY <1>2, ClientKeeps, InvoiceKeeps, SweepKeeps, AdminKeeps DEF Next, Series
  <2>3. QED
    BY <2>1, <2>2 DEF Kept, Types, TypeOK
<1>3. QED
  BY <1>1, <1>2

-----------------------------------------------------------------------------
(* The series of reads and writes, one at a time.                          *)

OneActive == \E k \in ActiveRows : ActiveRows = {k}

\* The one active row is of what was paid, or what was paid is over.
Settled ==
  \E k \in ActiveRows :
    /\ ActiveRows = {k}
    /\ rows[k].plan = "subscription" => rows[k].end = owed
    /\ rows[k].plan # "subscription" => owed <= clock

\* One series at a time.
Apart ==
  /\ \A i, j \in Granting : i = j
  /\ \A r, s \in Downgrading : r = s
  /\ Granting = {} \/ Downgrading = {}
  /\ sweep.at = "rest" \/ (Granting = {} /\ Downgrading = {})

\* A grant goes on from what the client had when it paid.
GrantAdds(i) ==
  /\ invoice[i].at = "paid" => OneActive /\ owed = Base(invoice[i].now) + 1
  /\ invoice[i].at = "expiring" => OneActive /\ owed = invoice[i].base + 1
  /\ invoice[i].at = "granting" => ActiveRows = {} /\ owed = invoice[i].base + 1

SweepEnds ==
  /\ sweep.at = "expiring" => Settled /\ owed <= clock /\ sweep.overdue = ActiveRows
  /\ sweep.at = "freeing" => ActiveRows = {} /\ owed <= clock /\ sweep.left = 1
  /\ sweep.at = "stopping" => Settled /\ owed <= clock /\ sweep.left = 1

AtRest == Granting = {} /\ Downgrading = {} /\ sweep.at = "rest"

Agrees ==
  /\ \A i \in Granting : GrantAdds(i)
  /\ \A r \in Downgrading : ActiveRows = {} /\ owed = 0
  /\ SweepEnds
  /\ AtRest => Settled

AgreeInv == crossed \/ (Apart /\ Agrees)

LEMMA AgreeInit == Init => AgreeInv
<1>. SUFFICES ASSUME Init PROVE AgreeInv
  OBVIOUS
<1>1. Granting = {} /\ Downgrading = {} /\ sweep.at = "rest"
  BY DEF Init, Granting, Downgrading, At
<1>2. ActiveRows = {1} /\ rows[1].plan = "free" /\ owed <= clock
  BY DEF Init, ActiveRows, Active, Row
<1>3. Settled
  BY <1>2 DEF Settled
<1>4. QED
  BY <1>1, <1>3 DEF AgreeInv, Apart, Agrees, SweepEnds

\* Two elements of a finite set make its size two at least.
LEMMA OneElement ==
  ASSUME NEW S, IsFiniteSet(S), Cardinality(S) <= 1
  PROVE  Cardinality(S) \in Nat /\ \A x, y \in S : x = y
<1>1. Cardinality(S) \in Nat
  BY FS_CardinalityType
<1>2. CASE Cardinality(S) = 0
  BY <1>1, <1>2, FS_EmptySet
<1>3. CASE Cardinality(S) = 1
  <2>1. \E x : S = {x}
    BY <1>3, FS_Singleton
  <2>2. QED
    BY <1>1, <2>1
<1>4. QED
  BY <1>1, <1>2, <1>3

BusyCounts ==
  /\ Busy \in Nat
  /\ Busy <= 1 => Apart
  /\ Busy <= 0 => AtRest

LEMMA BusyApart == BusyCounts
<1>1. IsFiniteSet(Granting) /\ IsFiniteSet(Downgrading)
  <2>1. Granting \subseteq Invoices /\ Downgrading \subseteq Requests
    BY DEF Granting, Downgrading
  <2>2. QED
    BY <2>1, BillingAssumption, FS_Subset
<1>2. Cardinality(Granting) \in Nat /\ Cardinality(Downgrading) \in Nat
  BY <1>1, FS_CardinalityType
<1>3. /\ Cardinality(Granting) = 0 => Granting = {}
      /\ Cardinality(Downgrading) = 0 => Downgrading = {}
  BY <1>1, FS_EmptySet
<1>4. ASSUME Busy <= 1 PROVE Apart
  <2>1. /\ Cardinality(Granting) <= 1 /\ Cardinality(Downgrading) <= 1
        /\ Cardinality(Granting) = 0 \/ Cardinality(Downgrading) = 0
        /\ sweep.at = "rest" \/ (Cardinality(Granting) = 0 /\ Cardinality(Downgrading) = 0)
    BY <1>2, <1>4 DEF Busy
  <2>2. (\A i, j \in Granting : i = j) /\ (\A r, s \in Downgrading : r = s)
    BY <1>1, <2>1, OneElement
  <2>3. QED
    BY <1>3, <2>1, <2>2 DEF Apart
<1>5. ASSUME Busy <= 0 PROVE AtRest
  <2>1. Cardinality(Granting) = 0 /\ Cardinality(Downgrading) = 0 /\ sweep.at = "rest"
    BY <1>2, <1>5 DEF Busy
  <2>2. QED
    BY <1>3, <2>1 DEF AtRest
<1>6. Busy \in Nat
  BY <1>2 DEF Busy
<1>7. QED
  BY <1>4, <1>5, <1>6 DEF BusyCounts

LEMMA BusyApartNext == BusyCounts'
BY BusyApart, PTL

\* Not crossed: no failure, and one series at most afterwards.
LEMMA NotCrossed ==
  ASSUME Series, ~crossed'
  PROVE  ~crossed /\ faults' = faults /\ Apart'
<1>1. Cross
  BY DEF Series
<1>2. ~crossed /\ faults' = faults /\ ~(Busy' > 1)
  BY <1>1 DEF Cross
<1>3. Busy' \in Nat /\ (Busy' <= 1 => Apart')
  BY BusyApartNext DEF BusyCounts
<1>4. Busy' <= 1
  <2>1. PICK n \in Nat : n = Busy'
    BY <1>3
  <2>2. ~(n > 1)
    BY <1>2, <2>1, Zenon
  <2>3. n <= 1
    BY <2>2
  <2>4. QED
    BY <2>1, <2>3, Zenon
<1>5. QED
  BY <1>2, <1>3, <1>4

\* What is not changed, or what time alone changes.
LEMMA RowsKept ==
  ASSUME Types, UNCHANGED <<rows, owed>>, clock' = clock \/ clock' = clock + 1
  PROVE  /\ ActiveRows' = ActiveRows
         /\ OneActive => OneActive'
         /\ Settled => Settled'
         /\ owed <= clock => owed' <= clock'
         /\ \A now \in Nat : Base(now)' = Base(now)
<1>1. ActiveRows' = ActiveRows
  BY DEF ActiveRows
<1>2. owed <= clock => owed' <= clock'
  BY DEF Types, TypeOK
<1>3. OneActive => OneActive'
  BY <1>1 DEF OneActive
<1>4. Settled => Settled'
  BY <1>1, <1>2 DEF Settled
<1>5. \A now \in Nat : Base(now)' = Base(now)
  BY <1>1 DEF Base, Existing
<1>6. QED
  BY <1>1, <1>2, <1>3, <1>4, <1>5

LEMMA GrantTypes ==
  ASSUME Types, NEW i \in Invoices
  PROVE  /\ invoice[i].at = "paid" => invoice[i].now \in Nat
         /\ invoice[i].at \in {"expiring", "granting"} => invoice[i].base \in Nat
<1>1. invoice[i] \in Invoice
  BY DEF Types, TypeOK
<1>2. QED
  BY <1>1 DEF Invoice

LEMMA AgreesKept ==
  ASSUME Types, Agrees, UNCHANGED <<rows, owed, sweep>>, clock' = clock \/ clock' = clock + 1,
         Granting' = Granting, Downgrading' = Downgrading,
         \A i \in Granting : invoice'[i] = invoice[i]
  PROVE  Agrees'
<1>1. ASSUME NEW i \in Granting PROVE GrantAdds(i)'
  <2>1. i \in Invoices /\ invoice'[i] = invoice[i] /\ GrantAdds(i)
    BY DEF Agrees, Granting
  <2>2. invoice[i].at = "paid" => Base(invoice[i].now)' = Base(invoice[i].now)
    BY <2>1, GrantTypes, RowsKept
  <2>3. QED
    BY <2>1, <2>2, RowsKept DEF GrantAdds, Base, Existing
<1>2. SweepEnds'
  BY RowsKept DEF Agrees, SweepEnds
<1>3. AtRest' => Settled'
  BY RowsKept DEF Agrees, AtRest
<1>4. \A r \in Downgrading : ActiveRows' = {} /\ owed' = 0
  BY RowsKept DEF Agrees
<1>5. QED
  BY <1>1, <1>2, <1>3, <1>4 DEF Agrees

\* After a row is added to none active.
LEMMA SettledByRow ==
  ASSUME NEW r \in Seq(Subscription), ActiveOf(r) = {}, NEW plan \in Plans, NEW end \in Nat,
         rows' = Append(r, Row(plan, end)),
         plan = "subscription" => end = owed', plan # "subscription" => owed' <= clock'
  PROVE  Settled'
<1>1. /\ rows'[Len(r) + 1] = Row(plan, end)
      /\ ActiveOf(rows') = {Len(r) + 1}
  BY AppendedRow
<1>2. ActiveRows' = {Len(r) + 1}
  BY <1>1 DEF ActiveRows, ActiveOf
<1>3. rows'[Len(r) + 1].plan = plan /\ rows'[Len(r) + 1].end = end
  BY <1>1 DEF Row
<1>4. QED
  BY <1>2, <1>3 DEF Settled

LEMMA ClientAgrees ==
  ASSUME Types, Apart, Agrees, Apart', faults' = faults, NEW r \in Requests,
         Downgrade(r) \/ FreePlan(r) \/ AsksForInvoice(r) \/ MakesInvoice(r) \/ RequestFails(r)
  PROVE  Agrees'
<1>0. request \in [Requests -> {"none", "downgrading", "invoicing"}] /\ rows \in Seq(Subscription)
  BY DEF Types, TypeOK
<1>1. CASE Downgrade(r)
  <2>1. r \in Downgrading'
    BY <1>0, <1>1 DEF Downgrade, Downgrading
  <2>2. Granting' = {} /\ sweep'.at = "rest"
    BY <2>1 DEF Apart
  <2>3. ActiveRows' = {} /\ owed' = 0
    <3>1. rows' = Ended("expired") /\ owed' = 0
      BY <1>1 DEF Downgrade
    <3>2. ActiveOf(rows') = {}
      BY <1>0, <3>1, EndedRows
    <3>3. QED
      BY <3>1, <3>2 DEF ActiveRows, ActiveOf
  <2>4. ~AtRest'
    BY <2>1 DEF AtRest
  <2>5. QED
    BY <2>2, <2>3, <2>4 DEF Agrees, SweepEnds
<1>2. CASE FreePlan(r)
  <2>1. r \in Downgrading
    BY <1>2 DEF FreePlan, Downgrading
  <2>2. /\ Granting = {} /\ sweep.at = "rest" /\ Downgrading = {r}
        /\ ActiveRows = {} /\ owed = 0
    BY <2>1 DEF Apart, Agrees
  <2>3. /\ UNCHANGED <<invoice, sweep, owed, clock>> /\ rows' = Append(rows, Row("free", Never))
        /\ request' = [request EXCEPT ![r] = "none"]
    BY <1>2 DEF FreePlan
  <2>4. Granting' = {} /\ Downgrading' = {} /\ sweep'.at = "rest"
    BY <1>0, <2>2, <2>3 DEF Granting, Downgrading
  <2>5. Settled'
    <3>1. ActiveOf(rows) = {}
      BY <2>2 DEF ActiveRows, ActiveOf
    <3>2. owed' <= clock'
      BY <2>2, <2>3 DEF Types, TypeOK
    <3>3. "free" \in Plans /\ Never \in Nat
      BY DEF Plans, Never
    <3>4. QED
      BY <1>0, <2>3, <3>1, <3>2, <3>3, SettledByRow
  <2>6. QED
    BY <2>4, <2>5 DEF Agrees, SweepEnds
<1>3. CASE AsksForInvoice(r)
  <2>1. UNCHANGED <<rows, owed, sweep, clock, invoice>>
        /\ request' = [request EXCEPT ![r] = "invoicing"] /\ request[r] = "none"
    BY <1>3 DEF AsksForInvoice
  <2>2. Granting' = Granting /\ Downgrading' = Downgrading
    BY <1>0, <2>1 DEF Granting, Downgrading
  <2>3. QED
    BY <2>1, <2>2, AgreesKept
<1>4. CASE MakesInvoice(r)
  <2>1. PICK i \in Invoices : invoice[i] = At("none") /\ invoice' = [invoice EXCEPT ![i] = At("open")]
    BY <1>4 DEF MakesInvoice
  <2>2. UNCHANGED <<rows, owed, sweep, clock>>
        /\ request' = [request EXCEPT ![r] = "none"] /\ request[r] = "invoicing"
    BY <1>4 DEF MakesInvoice
  <2>3. Granting' = Granting /\ Downgrading' = Downgrading /\ \A j \in Granting : invoice'[j] = invoice[j]
    BY <1>0, <2>1, <2>2 DEF Granting, Downgrading, At, Types, TypeOK
  <2>4. QED
    BY <2>2, <2>3, AgreesKept
<1>5. CASE RequestFails(r)
  BY <1>5 DEF RequestFails, Types, TypeOK
<1>6. QED
  BY <1>1, <1>2, <1>3, <1>4, <1>5

LEMMA InvoiceAgrees ==
  ASSUME Types, Apart, Agrees, Apart', faults' = faults, NEW i \in Invoices,
         InvoicePaid(i) \/ InvoiceExpires(i) \/ Grant(i) \/ GrantFails(i)
  PROVE  Agrees'
<1>0. invoice \in [Invoices -> Invoice] /\ rows \in Seq(Subscription) /\ clock \in Nat /\ owed \in Nat
  BY DEF Types, TypeOK
<1>1. ASSUME i \in Granting, request' = request, sweep' = sweep,
             \A j \in Invoices \ {i} : invoice'[j] = invoice[j]
      PROVE  /\ Downgrading' = {} /\ sweep'.at = "rest"
             /\ GrantAdds(i) /\ \A j \in Granting' : j = i
  <2>1. Downgrading = {} /\ sweep.at = "rest" /\ \A j \in Granting : j = i
    BY <1>1 DEF Apart
  <2>2. \A j \in Granting' : j = i
    BY <1>1, <2>1 DEF Granting
  <2>3. QED
    BY <1>1, <2>1, <2>2 DEF Agrees, Downgrading
<1>2. CASE InvoicePaid(i)
  <2>1. /\ UNCHANGED <<rows, sweep, clock, request>> /\ owed' = MaxOf(owed, clock) + 1
        /\ invoice' = [invoice EXCEPT ![i] = [at |-> "paid", now |-> clock]]
        /\ invoice[i].at = "open"
    BY <1>2 DEF InvoicePaid, At
  <2>2. /\ invoice'[i] = [at |-> "paid", now |-> clock]
        /\ \A j \in Invoices \ {i} : invoice'[j] = invoice[j]
    BY <1>0, <2>1
  <2>3. i \in Granting' /\ i \notin Granting
    BY <2>1, <2>2 DEF Granting
  <2>4. Downgrading' = {} /\ sweep'.at = "rest" /\ \A j \in Granting' : j = i
    BY <2>3 DEF Apart
  <2>5. Granting = {}
    BY <2>2, <2>3, <2>4 DEF Granting
  <2>6. Settled
    BY <2>1, <2>4, <2>5 DEF Agrees, AtRest, Downgrading
  <2>7. OneActive' /\ Base(clock)' = MaxOf(owed, clock)
    <3>1. PICK k \in ActiveRows :
            /\ ActiveRows = {k}
            /\ rows[k].plan = "subscription" => rows[k].end = owed
            /\ rows[k].plan # "subscription" => owed <= clock
      BY <2>6 DEF Settled
    <3>2. k <= k /\ Existing = k
      <4>1. k \in Nat
        BY <1>0 DEF ActiveRows
      <4>2. QED
        BY <3>1, <4>1 DEF Existing
    <3>3. Base(clock) = MaxOf(owed, clock)
      BY <1>0, <3>1, <3>2 DEF Base, MaxOf
    <3>4. ActiveRows' = ActiveRows
      BY <2>1 DEF ActiveRows
    <3>5. OneActive'
      BY <3>1, <3>4 DEF OneActive
    <3>6. Base(clock)' = Base(clock)
      BY <2>1, <3>4 DEF Base, Existing
    <3>7. QED
      BY <3>3, <3>5, <3>6
  <2>8. GrantAdds(i)'
    <3>1. invoice'[i].at = "paid" /\ invoice'[i].now = clock
      BY <2>2
    <3>2. Base(invoice[i].now)' = MaxOf(owed, clock)
      BY <2>1, <2>7, <3>1 DEF Base
    <3>3. QED
      BY <2>1, <2>7, <3>1, <3>2 DEF GrantAdds
  <2>9. ~AtRest'
    BY <2>3 DEF AtRest
  <2>10. \A j \in Granting' : GrantAdds(j)'
    BY <2>4, <2>8
  <2>11. QED
    BY <2>4, <2>9, <2>10 DEF Agrees, SweepEnds
<1>3. CASE InvoiceExpires(i)
  <2>1. /\ UNCHANGED <<rows, owed, sweep, clock, request>>
        /\ invoice' = [invoice EXCEPT ![i] = At("closed")] /\ invoice[i].at = "open"
    BY <1>3 DEF InvoiceExpires, At
  <2>2. Granting' = Granting /\ Downgrading' = Downgrading /\ \A j \in Granting : invoice'[j] = invoice[j]
    BY <1>0, <2>1 DEF Granting, Downgrading, At
  <2>3. QED
    BY <2>1, <2>2, AgreesKept
<1>4. CASE ReadsExisting(i)
  <2>1. /\ UNCHANGED <<rows, owed, sweep, clock, request>> /\ invoice[i].at = "paid"
        /\ invoice' = [invoice EXCEPT ![i] = [at |-> "expiring", base |-> Base(invoice[i].now)]]
    BY <1>4 DEF ReadsExisting
  <2>2. /\ invoice'[i] = [at |-> "expiring", base |-> Base(invoice[i].now)]
        /\ \A j \in Invoices \ {i} : invoice'[j] = invoice[j]
    BY <1>0, <2>1
  <2>3. i \in Granting /\ i \in Granting'
    BY <2>1, <2>2 DEF Granting
  <2>4. /\ Downgrading' = {} /\ sweep'.at = "rest" /\ GrantAdds(i) /\ \A j \in Granting' : j = i
    BY <1>1, <2>1, <2>2, <2>3
  <2>5. OneActive /\ owed = Base(invoice[i].now) + 1
    BY <2>1, <2>4 DEF GrantAdds
  <2>6. OneActive'
    BY <2>1, <2>5 DEF OneActive, ActiveRows
  <2>7. GrantAdds(i)'
    BY <2>1, <2>2, <2>5, <2>6 DEF GrantAdds
  <2>8. (\A j \in Granting' : GrantAdds(j)') /\ ~AtRest'
    BY <2>3, <2>4, <2>7 DEF AtRest
  <2>9. QED
    BY <2>4, <2>8 DEF Agrees, SweepEnds
<1>5. CASE EndsExisting(i)
  <2>1. /\ UNCHANGED <<owed, sweep, clock, request>> /\ invoice[i].at = "expiring"
        /\ invoice' = [invoice EXCEPT ![i].at = "granting"] /\ rows' = Ended("expired")
    BY <1>5 DEF EndsExisting
  <2>2. /\ invoice'[i].at = "granting" /\ invoice'[i].base = invoice[i].base
        /\ \A j \in Invoices \ {i} : invoice'[j] = invoice[j]
    <3>1. invoice[i] \in [at: {"expiring", "granting"}, base: Nat]
      BY <1>0, <2>1 DEF Invoice
    <3>2. /\ invoice'[i] = [invoice[i] EXCEPT !.at = "granting"]
          /\ \A j \in Invoices \ {i} : invoice'[j] = invoice[j]
      BY <1>0, <2>1
    <3>3. QED
      BY <3>1, <3>2
  <2>3. i \in Granting /\ i \in Granting'
    BY <2>1, <2>2 DEF Granting
  <2>4. /\ Downgrading' = {} /\ sweep'.at = "rest" /\ GrantAdds(i) /\ \A j \in Granting' : j = i
    BY <1>1, <2>1, <2>2, <2>3
  <2>5. owed = invoice[i].base + 1
    BY <2>1, <2>4 DEF GrantAdds
  <2>6. ActiveRows' = {}
    <3>1. ActiveOf(rows') = {}
      BY <1>0, <2>1, EndedRows
    <3>2. QED
      BY <3>1 DEF ActiveRows, ActiveOf
  <2>7. GrantAdds(i)'
    BY <2>1, <2>2, <2>5, <2>6 DEF GrantAdds
  <2>8. (\A j \in Granting' : GrantAdds(j)') /\ ~AtRest'
    BY <2>3, <2>4, <2>7 DEF AtRest
  <2>9. QED
    BY <2>4, <2>8 DEF Agrees, SweepEnds
<1>6. CASE GrantsMonth(i)
  <2>1. /\ UNCHANGED <<owed, sweep, clock, request>> /\ invoice[i].at = "granting"
        /\ invoice' = [invoice EXCEPT ![i] = At("closed")]
        /\ rows' = Append(rows, Row("subscription", invoice[i].base + 1))
    BY <1>6 DEF GrantsMonth
  <2>2. /\ invoice'[i].at = "closed"
        /\ \A j \in Invoices \ {i} : invoice'[j] = invoice[j]
    BY <1>0, <2>1 DEF At
  <2>3. i \in Granting /\ i \notin Granting'
    BY <2>1, <2>2 DEF Granting
  <2>4. /\ Downgrading' = {} /\ sweep'.at = "rest" /\ GrantAdds(i) /\ \A j \in Granting' : j = i
    BY <1>1, <2>1, <2>2, <2>3
  <2>5. ActiveRows = {} /\ owed = invoice[i].base + 1 /\ invoice[i].base \in Nat
    BY <2>1, <2>4, GrantTypes DEF GrantAdds
  <2>6. Settled'
    <3>1. ActiveOf(rows) = {}
      BY <2>5 DEF ActiveRows, ActiveOf
    <3>2. "subscription" \in Plans /\ invoice[i].base + 1 \in Nat /\ owed' = invoice[i].base + 1
      BY <2>1, <2>5 DEF Plans
    <3>3. QED
      BY <1>0, <2>1, <3>1, <3>2, SettledByRow
  <2>7. Granting' = {}
    BY <2>3, <2>4
  <2>8. QED
    BY <2>4, <2>6, <2>7 DEF Agrees, SweepEnds
<1>7. CASE GrantFails(i)
  BY <1>7 DEF GrantFails, Types, TypeOK
<1>8. QED
  BY <1>2, <1>3, <1>4, <1>5, <1>6, <1>7 DEF Grant

LEMMA SweepAgrees ==
  ASSUME Types, Apart, Agrees, Apart', faults' = faults, SweepStep \/ SweepFails
  PROVE  Agrees'
<1>0. /\ rows \in Seq(Subscription) /\ clock \in Nat /\ owed \in Nat
      /\ UNCHANGED <<invoice, request, clock, owed>>
  BY DEF Types, TypeOK, SweepStep, SweepReads, SweepExpires, SweepFrees, SweepStops, SweepFails
<1>1. Granting' = Granting /\ Downgrading' = Downgrading
  BY <1>0 DEF Granting, Downgrading
<1>2. Granting = {} /\ Downgrading = {}
  <2>1. CASE sweep.at # "rest"
    BY <2>1 DEF Apart
  <2>2. CASE sweep.at = "rest"
    <3>1. sweep'.at # "rest"
      BY <2>2 DEF SweepStep, SweepReads, SweepExpires, SweepFrees, SweepStops, SweepFails
    <3>2. QED
      BY <1>1, <3>1 DEF Apart
  <2>3. QED
    BY <2>1, <2>2
<1>3. CASE SweepReads
  <2>1. /\ sweep.at = "rest" /\ Overdue # {} /\ rows' = rows
        /\ sweep' = [at |-> "expiring", overdue |-> Overdue]
    BY <1>3 DEF SweepReads, At
  <2>2. Settled
    BY <1>2, <2>1 DEF Agrees, AtRest
  <2>3. Overdue = ActiveRows /\ owed <= clock
    BY <2>1, <2>2 DEF Overdue, Settled
  <2>4. Settled' /\ ActiveRows' = ActiveRows
    BY <1>0, <2>1, <2>2, RowsKept
  <2>5. QED
    BY <1>0, <1>1, <1>2, <2>1, <2>3, <2>4 DEF Agrees, SweepEnds, AtRest
<1>4. CASE SweepExpires
  <2>1. /\ Settled /\ owed <= clock /\ sweep.overdue = ActiveRows
        /\ sweep' = [at |-> "freeing", left |-> Cardinality(ActiveRows)]
    BY <1>4 DEF SweepExpires, Agrees, SweepEnds
  <2>2. Cardinality(ActiveRows) = 1
    BY <2>1, FS_Singleton DEF Settled
  <2>3. ActiveRows' = {}
    BY <1>0, <1>4, <2>1, SweepRows DEF SweepExpires
  <2>4. QED
    BY <1>0, <1>1, <1>2, <2>1, <2>2, <2>3 DEF Agrees, SweepEnds, AtRest
<1>5. CASE SweepFrees
  <2>1. ActiveRows = {} /\ owed <= clock /\ sweep.left = 1 /\ rows' = Append(rows, Row("free", Never))
    BY <1>5 DEF SweepFrees, Agrees, SweepEnds
  <2>2. sweep'.at = "stopping" /\ sweep'.left = 1
    <3>1. sweep \in [at: {"freeing", "stopping"}, left: Nat]
      BY <1>5 DEF SweepFrees, Types, TypeOK, Sweep
    <3>2. QED
      BY <1>5, <2>1, <3>1 DEF SweepFrees
  <2>3. Settled'
    <3>1. ActiveOf(rows) = {}
      BY <2>1 DEF ActiveRows, ActiveOf
    <3>2. owed' <= clock' /\ "free" \in Plans /\ Never \in Nat
      BY <1>0, <2>1 DEF Plans, Never
    <3>3. QED
      BY <1>0, <2>1, <3>1, <3>2, SettledByRow
  <2>4. QED
    BY <1>0, <1>1, <1>2, <2>1, <2>2, <2>3 DEF Agrees, SweepEnds, AtRest
<1>6. CASE SweepStops
  <2>1. Settled /\ sweep.left = 1 /\ rows' = rows
    BY <1>6 DEF SweepStops, Agrees, SweepEnds
  <2>2. sweep'.at = "rest"
    BY <1>6, <2>1 DEF SweepStops, At
  <2>3. Settled'
    BY <1>0, <2>1, RowsKept
  <2>4. QED
    BY <1>1, <1>2, <2>2, <2>3 DEF Agrees, SweepEnds
<1>7. CASE SweepFails
  BY <1>7 DEF SweepFails, Types, TypeOK
<1>8. QED
  BY <1>3, <1>4, <1>5, <1>6, <1>7 DEF SweepStep

LEMMA AdminAgrees ==
  ASSUME Types, AgreeInv, AdminSetsPlan
  PROVE  AgreeInv'
<1>. SUFFICES ASSUME ~crossed' PROVE Apart' /\ Agrees'
  BY DEF AgreeInv
<1>1. ~crossed /\ ~(Busy > 0)
  BY DEF AdminSetsPlan
<1>2. AtRest
  BY <1>1, BusyApart DEF BusyCounts
<1>3. UNCHANGED <<invoice, request, sweep, clock>>
  BY DEF AdminSetsPlan
<1>4. Granting' = {} /\ Downgrading' = {} /\ sweep'.at = "rest"
  BY <1>2, <1>3 DEF AtRest, Granting, Downgrading
<1>5. Settled'
  <2>1. PICK plan \in Plans :
          /\ rows' = Append(Ended("cancelled"), Row(plan, clock + Year))
          /\ owed' = IF plan = "subscription" THEN clock + Year ELSE 0
    BY DEF AdminSetsPlan
  <2>2. Ended("cancelled") \in Seq(Subscription) /\ ActiveOf(Ended("cancelled")) = {}
    BY EndedRows DEF Types, TypeOK
  <2>3. clock + Year \in Nat /\ 0 <= clock
    BY DEF Types, TypeOK, Year
  <2>4. plan # "subscription" => owed' <= clock'
    BY <1>3, <2>1, <2>3
  <2>5. plan = "subscription" => clock + Year = owed'
    BY <2>1
  <2>6. QED
    BY <2>1, <2>2, <2>3, <2>4, <2>5, SettledByRow
<1>6. QED
  BY <1>4, <1>5 DEF Apart, Agrees, SweepEnds

LEMMA AgreeStep == Types /\ AgreeInv /\ [Next]_vars => AgreeInv'
<1>. SUFFICES ASSUME Types, AgreeInv, [Next]_vars PROVE AgreeInv'
  OBVIOUS
<1>1. CASE UNCHANGED vars
  <2>1. /\ Granting' = Granting /\ Downgrading' = Downgrading
        /\ UNCHANGED <<rows, owed, sweep, clock, crossed>>
        /\ \A i \in Granting : invoice'[i] = invoice[i]
    BY <1>1 DEF vars, Granting, Downgrading
  <2>2. Apart => Apart'
    BY <2>1 DEF Apart
  <2>3. Agrees => Agrees'
    BY <2>1, AgreesKept
  <2>4. QED
    BY <2>1, <2>2, <2>3 DEF AgreeInv
<1>2. CASE Series
  <2>. SUFFICES ASSUME ~crossed' PROVE Apart' /\ Agrees'
    BY DEF AgreeInv
  <2>1. ~crossed /\ faults' = faults /\ Apart'
    BY <1>2, NotCrossed
  <2>2. Apart /\ Agrees
    BY <2>1 DEF AgreeInv
  <2>3. CASE OpensChannel \/ Tick
    <3>1. /\ UNCHANGED <<rows, owed, sweep, invoice, request>>
          /\ clock' = clock \/ clock' = clock + 1
      BY <2>3 DEF OpensChannel, Tick
    <3>2. Granting' = Granting /\ Downgrading' = Downgrading
      BY <3>1 DEF Granting, Downgrading
    <3>3. QED
      BY <2>1, <2>2, <3>1, <3>2, AgreesKept
  <2>4. QED
    BY <1>2, <2>1, <2>2, <2>3, ClientAgrees, InvoiceAgrees, SweepAgrees DEF Series
<1>3. QED
  BY <1>1, <1>2, AdminAgrees DEF Next

\* Subscriptions keep their types (subscriptions.js, matchWorker.js, scheduler.js),
\* and no row is left over.
THEOREM SubscriptionTypes == Spec => []TypeOK
<1>1. Types => TypeOK
  BY DEF Types
<1>2. QED
  BY <1>1, TypesInit, TypesStep, PTL DEF Spec

\* What the client has paid is granted to the month, and one subscription is
\* active, for any number of invoices, requests and months, unless a series of
\* writes failed or two overlapped (matchWorker.js activateSubscription,
\* scheduler.js, subscriptions.js, PATCH /admin/clients/:id/plan).
THEOREM SubscriptionHolds == Spec => []SubscriptionAgrees
<1>1. Types /\ AgreeInv => SubscriptionAgrees
  <2>. SUFFICES ASSUME Types, AgreeInv, ~crossed PROVE SubscriptionAgrees
    BY DEF AgreeInv, SubscriptionAgrees, PaidTimeIsGranted, OnePlan
  <2>1. Apart /\ Agrees
    BY DEF AgreeInv
  <2>2. sweep.at \in {"rest", "expiring", "freeing", "stopping"}
    BY DEF Types, TypeOK, Sweep
  <2>3. Granting # {} \/ Settled \/ (ActiveRows = {} /\ owed <= clock)
    <3>1. CASE AtRest \/ sweep.at # "rest"
      BY <2>1, <2>2, <3>1 DEF Agrees, SweepEnds
    <3>2. CASE Downgrading # {}
      BY <2>1, <3>2 DEF Agrees, Types, TypeOK
    <3>3. QED
      BY <3>1, <3>2 DEF AtRest
  <2>4. Settled \/ OneActive \/ ActiveRows = {}
    <3>1. ASSUME NEW i \in Granting PROVE OneActive \/ ActiveRows = {}
      BY <2>1, <3>1 DEF Agrees, GrantAdds, Granting
    <3>2. QED
      BY <2>3, <3>1
  <2>5. PaidTimeIsGranted
    BY <2>3 DEF PaidTimeIsGranted, Settled
  <2>6. OnePlan
    <3>1. ActiveRows = {} \/ \E k : ActiveRows = {k}
      BY <2>4 DEF Settled, OneActive
    <3>2. Cardinality(ActiveRows) \in {0, 1}
      BY <3>1, FS_EmptySet, FS_Singleton
    <3>3. QED
      BY <3>2 DEF OnePlan
  <2>7. QED
    BY <2>5, <2>6 DEF SubscriptionAgrees
<1>2. QED
  BY <1>1, TypesInit, TypesStep, AgreeInit, AgreeStep, PTL DEF Spec

-----------------------------------------------------------------------------
(* Delivery of an event.                                                   *)

\* Whoever is at an endpoint knows which.
Aimed == delivery.at \in {"blocking", "sending", "caught"} => delivery.to \in Endpoints

HookTypes == Hooks!TypeOK /\ Aimed

LEMMA DeliveryFields ==
  ASSUME HookTypes
  PROVE  /\ delivery.attempt \in Nat /\ delivery.stalls \in Nat
         /\ delivery.left \in SUBSET Endpoints /\ delivery.to \in Endpoints \cup {Hooks!NoOne}
         /\ delivery.at = "logging" => delivery.to \in Endpoints /\ delivery.answer \in Hooks!Answers
<1>1. delivery \in Hooks!Job
  BY DEF HookTypes, Hooks!TypeOK
<1>2. QED
  BY <1>1 DEF Hooks!Job

Quiet == {"waiting", "asked", "delivering", "delayed", "stalled", "completed", "failed", "cleared"}

LEMMA NewDelivery ==
  ASSUME NEW at \in Quiet \cup {"blocking", "sending", "caught"}, NEW attempt \in Nat, NEW stalls \in Nat,
         NEW left \in SUBSET Endpoints, NEW to \in Endpoints \cup {Hooks!NoOne},
         at \in Quiet \/ to \in Endpoints,
         delivery' = [at |-> at, attempt |-> attempt, stalls |-> stalls, left |-> left, to |-> to]
  PROVE  delivery' \in Hooks!Job /\ Aimed' /\ delivery'.at = at
BY DEF Hooks!Job, Aimed, Quiet

LEMMA MovesTypes ==
  ASSUME HookTypes
  PROVE  /\ \A at \in Quiet : Hooks!Go(at) => delivery' \in Hooks!Job /\ Aimed' /\ delivery'.at = at
         /\ delivery.to \in Endpoints /\ Hooks!Go("caught") =>
              delivery' \in Hooks!Job /\ Aimed' /\ delivery'.at = "caught"
         /\ \A left \in SUBSET Endpoints : Hooks!Deliver(left) =>
              delivery' \in Hooks!Job /\ Aimed' /\ delivery'.at = "delivering"
         /\ \A at \in Quiet : Hooks!Ends(at) => delivery' \in Hooks!Job /\ Aimed' /\ delivery'.at = at
         /\ Hooks!Thrown => delivery' \in Hooks!Job /\ Aimed' /\ delivery'.at \in {"delayed", "failed"}
<1>1. ASSUME NEW at \in Quiet, Hooks!Go(at)
      PROVE  delivery' \in Hooks!Job /\ Aimed' /\ delivery'.at = at
  BY <1>1, DeliveryFields, NewDelivery DEF Hooks!Go
<1>2. ASSUME delivery.to \in Endpoints, Hooks!Go("caught")
      PROVE  delivery' \in Hooks!Job /\ Aimed' /\ delivery'.at = "caught"
  BY <1>2, DeliveryFields, NewDelivery DEF Hooks!Go
<1>3. ASSUME NEW left \in SUBSET Endpoints, Hooks!Deliver(left)
      PROVE  delivery' \in Hooks!Job /\ Aimed' /\ delivery'.at = "delivering"
  BY <1>3, DeliveryFields, NewDelivery DEF Hooks!Deliver, Quiet
<1>4. ASSUME NEW at \in Quiet, Hooks!Ends(at)
      PROVE  delivery' \in Hooks!Job /\ Aimed' /\ delivery'.at = at
  BY <1>4, DeliveryFields, NewDelivery DEF Hooks!Ends
<1>5. ASSUME Hooks!Thrown
      PROVE  delivery' \in Hooks!Job /\ Aimed' /\ delivery'.at \in {"delayed", "failed"}
  <2>1. CASE delivery.attempt < MaxAttempts
    <3>1. delivery' = [at |-> "delayed", attempt |-> delivery.attempt + 1,
                       stalls |-> delivery.stalls, left |-> {}, to |-> Hooks!NoOne]
      BY <1>5, <2>1 DEF Hooks!Thrown
    <3>2. delivery.attempt + 1 \in Nat
      BY DeliveryFields
    <3>3. QED
      BY <3>1, <3>2, DeliveryFields, NewDelivery DEF Quiet
  <2>2. CASE ~(delivery.attempt < MaxAttempts)
    BY <1>4, <1>5, <2>2 DEF Hooks!Thrown, Quiet
  <2>3. QED
    BY <2>1, <2>2
<1>6. QED
  BY <1>1, <1>2, <1>3, <1>4, <1>5

LEMMA HookTypesInit == Hooks!Init => HookTypes
<1>. SUFFICES ASSUME Hooks!Init PROVE HookTypes
  OBVIOUS
<1>1. delivery \in Hooks!Job /\ Aimed
  BY DEF Hooks!Init, Hooks!Job, Aimed
<1>2. edit \in Hooks!Request
  BY DEF Hooks!Init, Hooks!Request
<1>3. lost \in BOOLEAN
  BY DEF Hooks!Init
<1>4. QED
  BY <1>1, <1>2, <1>3 DEF Hooks!Init, HookTypes, Hooks!TypeOK

\* What has been logged of a good answer, or is about to be.
LogInv ==
  \A e \in told \ missing :
    "ok" \in logs[e] \/ (delivery.at = "logging" /\ delivery.to = e /\ delivery.answer = "ok")

LEMMA LogInit == Hooks!Init => LogInv
BY DEF Hooks!Init, LogInv

\* The logs are kept or grow, and what is not logged is counted.
LEMMA WrittenTypes ==
  ASSUME HookTypes, delivery.to \in Endpoints, NEW result \in Hooks!Results,
         (Hooks!Written(result) /\ UNCHANGED <<mishaps, missing>>) \/ Hooks!NotWritten
  PROVE  /\ logs' \in [Endpoints -> SUBSET Hooks!Results] /\ mishaps' \in Nat /\ missing' \subseteq Endpoints
         /\ \A e \in Endpoints : logs[e] \subseteq logs'[e]
         /\ missing \subseteq missing'
         /\ delivery.to \in missing' \/ result \in logs'[delivery.to]
<1>1. logs \in [Endpoints -> SUBSET Hooks!Results] /\ mishaps \in Nat /\ missing \subseteq Endpoints
  BY DEF HookTypes, Hooks!TypeOK
<1>2. CASE Hooks!Written(result) /\ UNCHANGED <<mishaps, missing>>
  <2>1. logs' = [logs EXCEPT ![delivery.to] = logs[delivery.to] \cup {result}]
    BY <1>2 DEF Hooks!Written
  <2>2. logs[delivery.to] \cup {result} \in SUBSET Hooks!Results
    BY <1>1
  <2>3. QED
    BY <1>1, <1>2, <2>1, <2>2
<1>3. CASE Hooks!NotWritten
  BY <1>1, <1>3 DEF Hooks!NotWritten
<1>4. QED
  BY <1>2, <1>3

\* What a step of the job leaves of the types.
JobKept ==
  /\ UNCHANGED <<endpoint, edit, made>>
  /\ delivery' \in Hooks!Job /\ Aimed'
  /\ logs' \in [Endpoints -> SUBSET Hooks!Results] /\ mishaps' \in Nat
  /\ steady' \subseteq Endpoints /\ tried' \subseteq Endpoints
  /\ told' \subseteq Endpoints /\ missing' \subseteq Endpoints /\ lost' \in BOOLEAN

\* Nothing is answered, and nothing forgotten.
LEMMA LogKept ==
  ASSUME HookTypes, LogInv, delivery.at # "logging" \/ delivery' = delivery,
         told' = told, missing \subseteq missing', \A e \in Endpoints : logs[e] \subseteq logs'[e]
  PROVE  LogInv'
<1>1. told \subseteq Endpoints
  BY DEF HookTypes, Hooks!TypeOK
<1>2. ASSUME NEW e \in told \ missing'
      PROVE  "ok" \in logs'[e] \/ (delivery'.at = "logging" /\ delivery'.to = e /\ delivery'.answer = "ok")
  BY <1>1 DEF LogInv
<1>3. QED
  BY <1>2 DEF LogInv

LEMMA TakingLogs ==
  ASSUME HookTypes, LogInv,
         Hooks!TakeJob \/ Hooks!BackoffEnds \/ Hooks!ReadsEndpoints \/ Hooks!ReadFails
           \/ Hooks!Completes \/ Hooks!ClearFailed
  PROVE  JobKept /\ LogInv'
<1>. USE DEF HookTypes, Hooks!TypeOK
<1>1. delivery' \in Hooks!Job /\ Aimed'
  <2>1. CASE Hooks!TakeJob
    BY <2>1, MovesTypes DEF Hooks!TakeJob, Quiet
  <2>2. CASE Hooks!BackoffEnds
    BY <2>2, MovesTypes DEF Hooks!BackoffEnds, Quiet
  <2>3. CASE Hooks!ReadsEndpoints
    <3>1. {e \in Endpoints : endpoint[e] = "listening"} \in SUBSET Endpoints
      OBVIOUS
    <3>2. Hooks!Ends("completed") \/ Hooks!Deliver({e \in Endpoints : endpoint[e] = "listening"})
      BY <2>3 DEF Hooks!ReadsEndpoints
    <3>3. QED
      BY <3>1, <3>2, MovesTypes DEF Quiet
  <2>4. CASE Hooks!ReadFails
    BY <2>4, MovesTypes DEF Hooks!ReadFails
  <2>5. CASE Hooks!Completes
    BY <2>5, MovesTypes DEF Hooks!Completes, Quiet
  <2>6. CASE Hooks!ClearFailed
    BY <2>6, MovesTypes DEF Hooks!ClearFailed, Quiet
  <2>7. QED
    BY <2>1, <2>2, <2>3, <2>4, <2>5, <2>6
<1>2. /\ UNCHANGED <<endpoint, edit, made, logs, steady, tried, told, missing>>
      /\ delivery.at # "logging" /\ mishaps' \in Nat
  BY DEF Hooks!TakeJob, Hooks!BackoffEnds, Hooks!ReadsEndpoints, Hooks!ReadFails, Hooks!Completes,
         Hooks!ClearFailed, Hooks!client, Hooks!history
<1>3. lost' \in BOOLEAN
  <2>1. CASE Hooks!ReadFails
    BY <2>1, Zenon DEF Hooks!ReadFails
  <2>2. CASE ~Hooks!ReadFails
    BY <2>2 DEF Hooks!TakeJob, Hooks!BackoffEnds, Hooks!ReadsEndpoints, Hooks!Completes,
         Hooks!ClearFailed, Hooks!history
  <2>3. QED
    BY <2>1, <2>2
<1>4. LogInv'
  BY <1>2, LogKept
<1>5. QED
  BY <1>1, <1>2, <1>3, <1>4 DEF JobKept

LEMMA CallingLogs ==
  ASSUME HookTypes, LogInv,
         Hooks!ChecksUrl \/ Hooks!NoAnswer \/ Hooks!Answered \/ Hooks!StallDetected
  PROVE  JobKept /\ LogInv'
<1>. USE DEF HookTypes, Hooks!TypeOK
<1>1. CASE Hooks!ChecksUrl
  <2>1. PICK e \in delivery.left, at \in {"sending", "blocking"} :
          delivery' = [delivery EXCEPT !.at = at, !.to = e, !.left = @ \ {e}]
    BY <1>1 DEF Hooks!ChecksUrl
  <2>2. /\ delivery.at = "delivering"
        /\ UNCHANGED <<endpoint, edit, made, logs, mishaps, steady, tried, told, missing, lost>>
    BY <1>1 DEF Hooks!ChecksUrl, Hooks!client, Hooks!history
  <2>3. delivery = [at |-> "delivering", attempt |-> delivery.attempt, stalls |-> delivery.stalls,
                    left |-> delivery.left, to |-> delivery.to]
    BY <2>2 DEF Hooks!Job
  <2>4. delivery' = [at |-> at, attempt |-> delivery.attempt, stalls |-> delivery.stalls,
                     left |-> delivery.left \ {e}, to |-> e]
    BY <2>1, <2>3
  <2>5. e \in Endpoints /\ delivery.left \ {e} \in SUBSET Endpoints
    BY DeliveryFields
  <2>6. delivery' \in Hooks!Job /\ Aimed'
    BY <2>4, <2>5, DeliveryFields, NewDelivery
  <2>7. LogInv'
    BY <2>2, LogKept
  <2>8. QED
    BY <2>2, <2>6, <2>7 DEF JobKept
<1>2. CASE Hooks!NoAnswer
  <2>1. /\ delivery.at = "sending" /\ delivery.to \in Endpoints /\ Hooks!Go("caught")
        /\ UNCHANGED <<endpoint, edit, made, logs, mishaps, steady, told, missing, lost>>
        /\ tried' = tried \cup {delivery.to}
    BY <1>2 DEF Hooks!NoAnswer, Hooks!client, Aimed
  <2>2. delivery' \in Hooks!Job /\ Aimed'
    BY <2>1, MovesTypes
  <2>3. LogInv'
    BY <2>1, LogKept
  <2>4. QED
    BY <2>1, <2>2, <2>3 DEF JobKept
<1>3. CASE Hooks!Answered
  <2>1. PICK a \in Hooks!Answers :
          /\ told' = IF a = "ok" THEN told \cup {delivery.to} ELSE told
          /\ delivery' = [at |-> "logging", attempt |-> delivery.attempt, stalls |-> delivery.stalls,
                          left |-> delivery.left, to |-> delivery.to, answer |-> a]
    BY <1>3 DEF Hooks!Answered
  <2>2. /\ delivery.at = "sending" /\ delivery.to \in Endpoints
        /\ UNCHANGED <<endpoint, edit, made, logs, mishaps, steady, missing, lost>>
        /\ tried' = tried \cup {delivery.to}
    BY <1>3 DEF Hooks!Answered, Hooks!client, Aimed
  <2>3. delivery' \in Hooks!Job
    BY <2>1, <2>2, DeliveryFields DEF Hooks!Job
  <2>4. Aimed' /\ told' \subseteq Endpoints
    BY <2>1, <2>2 DEF Aimed
  <2>5. LogInv'
    <3>1. ASSUME NEW e \in told' \ missing'
          PROVE "ok" \in logs'[e] \/ (delivery'.at = "logging" /\ delivery'.to = e /\ delivery'.answer = "ok")
      <4>1. CASE e \in told
        BY <2>2, <3>1, <4>1 DEF LogInv
      <4>2. CASE e \notin told
        BY <2>1, <3>1, <4>2
      <4>3. QED
        BY <4>1, <4>2
    <3>2. QED
      BY <3>1 DEF LogInv
  <2>6. QED
    BY <2>2, <2>3, <2>4, <2>5 DEF JobKept
<1>4. CASE Hooks!StallDetected
  <2>1. /\ delivery.at = "stalled"
        /\ UNCHANGED <<endpoint, edit, made, logs, mishaps, steady, tried, told, missing>>
    BY <1>4 DEF Hooks!StallDetected, Hooks!client
  <2>2. delivery' \in Hooks!Job /\ Aimed' /\ lost' \in BOOLEAN
    <3>1. CASE delivery.stalls < MaxStalls
      <4>1. delivery' = [delivery EXCEPT !.at = "waiting", !.stalls = @ + 1] /\ lost' = lost
        BY <1>4, <3>1 DEF Hooks!StallDetected
      <4>2. delivery = [at |-> "stalled", attempt |-> delivery.attempt, stalls |-> delivery.stalls,
                        left |-> delivery.left, to |-> delivery.to]
        BY <2>1 DEF Hooks!Job
      <4>3. delivery' = [at |-> "waiting", attempt |-> delivery.attempt, stalls |-> delivery.stalls + 1,
                         left |-> delivery.left, to |-> delivery.to]
        BY <4>1, <4>2
      <4>4. delivery.stalls + 1 \in Nat
        BY DeliveryFields
      <4>5. QED
        BY <4>1, <4>3, <4>4, DeliveryFields, NewDelivery DEF Quiet
    <3>2. CASE ~(delivery.stalls < MaxStalls)
      BY <1>4, <3>2, MovesTypes DEF Hooks!StallDetected, Quiet
    <3>3. QED
      BY <3>1, <3>2
  <2>3. LogInv'
    BY <2>1, LogKept
  <2>4. QED
    BY <2>1, <2>2, <2>3 DEF JobKept
<1>5. QED
  BY <1>1, <1>2, <1>3, <1>4

LEMMA WritingLogs ==
  ASSUME HookTypes, LogInv,
         Hooks!Blocks \/ Hooks!LogsDelivery \/ Hooks!CatchesError \/ Hooks!WorkerDies
  PROVE  JobKept /\ LogInv'
<1>. USE DEF HookTypes, Hooks!TypeOK
<1>0. delivery.left \in SUBSET Endpoints
  BY DeliveryFields
<1>1. CASE Hooks!Blocks
  <2>1. /\ delivery.at = "blocking" /\ delivery.to \in Endpoints
        /\ UNCHANGED <<endpoint, edit, made, steady, told, lost>> /\ tried' = tried \cup {delivery.to}
    BY <1>1 DEF Hooks!Blocks, Hooks!client, Aimed
  <2>2. delivery' \in Hooks!Job /\ Aimed'
    BY <1>0, <1>1, <2>1, MovesTypes DEF Hooks!Blocks
  <2>3. /\ logs' \in [Endpoints -> SUBSET Hooks!Results] /\ mishaps' \in Nat /\ missing' \subseteq Endpoints
        /\ \A e \in Endpoints : logs[e] \subseteq logs'[e]
        /\ missing \subseteq missing'
    <3>1. "unsafe" \in Hooks!Results
      BY DEF Hooks!Results
    <3>2. (Hooks!Written("unsafe") /\ UNCHANGED <<mishaps, missing>>) \/ Hooks!NotWritten
      BY <1>1 DEF Hooks!Blocks
    <3>3. QED
      BY <2>1, <3>1, <3>2, WrittenTypes
  <2>4. LogInv'
    BY <2>1, <2>3, LogKept
  <2>5. QED
    BY <2>1, <2>2, <2>3, <2>4 DEF JobKept
<1>2. CASE Hooks!CatchesError
  <2>1. /\ delivery.at = "caught" /\ delivery.to \in Endpoints
        /\ UNCHANGED <<endpoint, edit, made, steady, tried, told, lost>>
    BY <1>2 DEF Hooks!CatchesError, Hooks!client, Aimed
  <2>2. delivery' \in Hooks!Job /\ Aimed'
    BY <1>0, <1>2, MovesTypes DEF Hooks!CatchesError
  <2>3. /\ logs' \in [Endpoints -> SUBSET Hooks!Results] /\ mishaps' \in Nat /\ missing' \subseteq Endpoints
        /\ \A e \in Endpoints : logs[e] \subseteq logs'[e]
        /\ missing \subseteq missing'
    <3>1. "error" \in Hooks!Results
      BY DEF Hooks!Results
    <3>2. (Hooks!Written("error") /\ UNCHANGED <<mishaps, missing>>) \/ Hooks!NotWritten
      BY <1>2 DEF Hooks!CatchesError
    <3>3. QED
      BY <2>1, <3>1, <3>2, WrittenTypes
  <2>4. LogInv'
    BY <2>1, <2>3, LogKept
  <2>5. QED
    BY <2>1, <2>2, <2>3, <2>4 DEF JobKept
<1>3. CASE Hooks!LogsDelivery
  <2>1. /\ delivery.at = "logging" /\ delivery.to \in Endpoints /\ delivery.answer \in Hooks!Answers
        /\ UNCHANGED <<endpoint, edit, made, steady, tried, told, lost>>
    BY <1>3, DeliveryFields DEF Hooks!LogsDelivery, Hooks!client
  <2>2. /\ delivery' \in Hooks!Job /\ Aimed'
    BY <1>0, <1>3, <2>1, MovesTypes DEF Hooks!LogsDelivery
  <2>3. /\ logs' \in [Endpoints -> SUBSET Hooks!Results] /\ mishaps' \in Nat /\ missing' \subseteq Endpoints
        /\ \A e \in Endpoints : logs[e] \subseteq logs'[e]
        /\ missing \subseteq missing'
        /\ delivery.to \in missing' \/ delivery.answer \in logs'[delivery.to]
    <3>1. delivery.answer \in Hooks!Results
      BY <2>1 DEF Hooks!Results, Hooks!Answers
    <3>2. (Hooks!Written(delivery.answer) /\ UNCHANGED <<mishaps, missing>>) \/ Hooks!NotWritten
      BY <1>3 DEF Hooks!LogsDelivery
    <3>3. QED
      BY <2>1, <3>1, <3>2, WrittenTypes
  <2>4. LogInv'
    <3>1. ASSUME NEW e \in told \ missing' PROVE "ok" \in logs'[e]
      <4>1. e \in Endpoints /\ e \in told \ missing
        BY <2>3
      <4>2. CASE "ok" \in logs[e]
        BY <2>3, <4>1, <4>2
      <4>3. CASE delivery.to = e /\ delivery.answer = "ok"
        BY <2>3, <4>3
      <4>4. QED
        BY <4>1, <4>2, <4>3 DEF LogInv
    <3>2. QED
      BY <2>1, <3>1 DEF LogInv
  <2>5. QED
    BY <2>1, <2>2, <2>3, <2>4 DEF JobKept
<1>4. CASE Hooks!WorkerDies
  <2>1. /\ UNCHANGED <<endpoint, edit, made, logs, steady, tried, told, lost>>
        /\ Hooks!Ends("stalled") /\ mishaps' = mishaps + 1
        /\ missing' = IF delivery.at \in {"logging", "caught"} THEN missing \cup {delivery.to} ELSE missing
    BY <1>4 DEF Hooks!WorkerDies, Hooks!client
  <2>2. delivery' \in Hooks!Job /\ Aimed'
    BY <2>1, MovesTypes DEF Quiet
  <2>3. missing' \subseteq Endpoints /\ missing \subseteq missing'
    BY <2>1, DeliveryFields DEF Aimed
  <2>4. LogInv'
    <3>1. CASE delivery.at = "logging"
      <4>1. ASSUME NEW e \in told \ missing' PROVE "ok" \in logs[e]
        BY <2>1, <3>1 DEF LogInv
      <4>2. QED
        BY <2>1, <4>1 DEF LogInv
    <3>2. CASE delivery.at # "logging"
      BY <2>1, <2>3, <3>2, LogKept
    <3>3. QED
      BY <3>1, <3>2
  <2>5. QED
    BY <2>1, <2>2, <2>3, <2>4 DEF JobKept
<1>5. QED
  BY <1>1, <1>2, <1>3, <1>4

\* What a request of the client leaves of the types.
EditKept ==
  /\ UNCHANGED <<delivery, mishaps, tried, told, lost>>
  /\ endpoint' \in [Endpoints -> {"absent", "deaf", "listening"}]
  /\ logs' \in [Endpoints -> SUBSET Hooks!Results]
  /\ edit' \in Hooks!Request /\ made' \in Nat
  /\ steady' \subseteq Endpoints /\ missing' \subseteq Endpoints

LEMMA ClientLogs ==
  ASSUME HookTypes, LogInv, Hooks!Client
  PROVE  EditKept /\ LogInv'
<1>. USE DEF HookTypes, Hooks!TypeOK
<1>0. UNCHANGED <<delivery, mishaps, tried, told, lost>>
  BY DEF Hooks!Client, Hooks!AsksToCreate, Hooks!AsksToPatch, Hooks!AsksToDelete, Hooks!Creates,
         Hooks!Patches, Hooks!WipesLogs, Hooks!Deletes, Hooks!Held
<1>1. ASSUME NEW e \in Endpoints,
             Hooks!AsksToCreate(e) \/ Hooks!AsksToPatch(e) \/ Hooks!AsksToDelete(e)
      PROVE  EditKept /\ LogInv'
  <2>1. UNCHANGED <<endpoint, logs, steady, missing>> /\ made' = made + 1
    BY <1>1 DEF Hooks!AsksToCreate, Hooks!AsksToPatch, Hooks!AsksToDelete, Hooks!Ask
  <2>2. edit' \in Hooks!Request
    <3>1. CASE Hooks!AsksToPatch(e)
      BY <3>1 DEF Hooks!AsksToPatch, Hooks!Ask, Hooks!Request
    <3>2. CASE Hooks!AsksToCreate(e) \/ Hooks!AsksToDelete(e)
      BY <3>2 DEF Hooks!AsksToCreate, Hooks!AsksToDelete, Hooks!Ask, Hooks!Request
    <3>3. QED
      BY <1>1, <3>1, <3>2
  <2>3. LogInv'
    BY <1>0, <2>1, LogKept
  <2>4. QED
    BY <1>0, <2>1, <2>2, <2>3 DEF EditKept
<1>2. Hooks!Idle \in Hooks!Request
  BY DEF Hooks!Request
<1>3. CASE Hooks!Creates
  <2>1. /\ \E s \in {"deaf", "listening"} : endpoint' = [endpoint EXCEPT ![edit.of] = s]
        /\ edit' = Hooks!Idle /\ UNCHANGED <<made, logs, steady, missing>>
    BY <1>3 DEF Hooks!Creates
  <2>2. LogInv'
    BY <1>0, <2>1, LogKept
  <2>3. QED
    BY <1>0, <1>2, <2>1, <2>2 DEF EditKept
<1>4. CASE Hooks!Patches
  <2>1. /\ endpoint' = [endpoint EXCEPT ![edit.of] = edit.to]
        /\ edit' = Hooks!Idle /\ UNCHANGED <<made, logs, missing>>
        /\ steady' = IF edit.to = "deaf" THEN steady \ {edit.of} ELSE steady
    BY <1>4 DEF Hooks!Patches
  <2>2. edit.to \in {"deaf", "listening"}
    BY <1>4 DEF Hooks!Patches, Hooks!Request, Hooks!Idle
  <2>3. LogInv'
    BY <1>0, <2>1, LogKept
  <2>4. QED
    BY <1>0, <1>2, <2>1, <2>2, <2>3 DEF EditKept
<1>5. CASE Hooks!WipesLogs
  <2>1. /\ logs' = [logs EXCEPT ![edit.of] = {}] /\ missing' = missing \cup {edit.of}
        /\ edit' = [edit EXCEPT !.does = "remove"] /\ UNCHANGED <<made, endpoint, steady>>
        /\ edit.does = "wipe"
    BY <1>5 DEF Hooks!WipesLogs
  <2>2. edit \in [does: {"create", "wipe", "remove"}, of: Endpoints]
    BY <2>1 DEF Hooks!Request, Hooks!Idle
  <2>3. edit' \in Hooks!Request /\ edit.of \in Endpoints
    BY <2>1, <2>2 DEF Hooks!Request
  <2>4. logs' \in [Endpoints -> SUBSET Hooks!Results]
    BY <2>1
  <2>5. LogInv'
    <3>1. ASSUME NEW e \in told \ missing'
          PROVE "ok" \in logs'[e] \/ (delivery.at = "logging" /\ delivery.to = e /\ delivery.answer = "ok")
      BY <2>1 DEF LogInv
    <3>2. QED
      BY <1>0, <3>1 DEF LogInv
  <2>6. QED
    BY <1>0, <2>1, <2>3, <2>4, <2>5 DEF EditKept
<1>6. CASE Hooks!Deletes
  <2>1. /\ edit' = Hooks!Idle /\ UNCHANGED <<made, logs, missing>>
        /\ endpoint' = endpoint \/ endpoint' = [endpoint EXCEPT ![edit.of] = "absent"]
        /\ steady' \subseteq steady
    BY <1>6 DEF Hooks!Deletes
  <2>2. LogInv'
    BY <1>0, <2>1, LogKept
  <2>3. QED
    BY <1>0, <1>2, <2>1, <2>2 DEF EditKept
<1>7. QED
  BY <1>1, <1>3, <1>4, <1>5, <1>6 DEF Hooks!Client

LEMMA LogStep == HookTypes /\ LogInv /\ [Hooks!Next]_(Hooks!vars) => HookTypes' /\ LogInv'
<1>. SUFFICES ASSUME HookTypes, LogInv, [Hooks!Next]_(Hooks!vars) PROVE HookTypes' /\ LogInv'
  OBVIOUS
<1>1. CASE UNCHANGED Hooks!vars
  BY <1>1 DEF Hooks!vars, Hooks!client, Hooks!history, HookTypes, Hooks!TypeOK, Aimed, LogInv
<1>2. CASE Hooks!Client
  BY <1>2, ClientLogs DEF EditKept, HookTypes, Hooks!TypeOK, Aimed
<1>3. CASE Hooks!Worker \/ Hooks!ReadFails \/ Hooks!WorkerDies \/ Hooks!ClearFailed
  <2>1. JobKept /\ LogInv'
    BY <1>3, TakingLogs, CallingLogs, WritingLogs DEF Hooks!Worker
  <2>2. QED
    BY <2>1 DEF JobKept, HookTypes, Hooks!TypeOK
<1>4. QED
  BY <1>1, <1>2, <1>3 DEF Hooks!Next

\* An endpoint that answered well has a log that says so, unless the worker died or
\* the database failed before the log was written, or its logs were wiped, for any
\* number of endpoints, attempts, restarts and requests (webhookWorker.js, webhooks.js).
THEOREM WebhookIsLogged == Hooks!Spec => [](Hooks!TypeOK /\ DeliveryIsLogged)
<1>1. HookTypes /\ LogInv => Hooks!TypeOK /\ DeliveryIsLogged
  BY DEF HookTypes, LogInv, DeliveryIsLogged, Hooks!DeliveryIsLogged
<1>2. QED
  BY <1>1, HookTypesInit, LogInit, LogStep, PTL DEF Hooks!Spec
=============================================================================
