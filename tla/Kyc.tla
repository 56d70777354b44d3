-------------------------------- MODULE Kyc ---------------------------------
(***************************************************************************)
(* One client's identity documents: submitted, reviewed by an admin, and   *)
(* asked for before money leaves.                                          *)
(*                                                                         *)
(* The two pictures lie in the object storage under keys made of the       *)
(* client's id, so a second submission writes over those of the first.     *)
(* The row names the keys, not what is under them.  A submission reads the *)
(* row, receives the form, uploads both pictures and writes the row;       *)
(* submissions overlap with each other and with the review.  The contents  *)
(* of the form and the formats of the pictures are left out; pictures are  *)
(* numbered by the submission they come with.                              *)
(***************************************************************************)
EXTENDS Integers, FiniteSets

CONSTANTS
  Tabs,           \* submissions that can be in progress at once
  Reviews,        \* reviews that can be in progress at once
  MaxSubmissions  \* submissions ever begun

ASSUME KycAssumption == MaxSubmissions \in Nat

VARIABLES
  role,        \* the client's role
  earned,      \* has totalEarned reached KYC_THRESHOLD?
  doc,         \* the status in the KYC row
  pictures,    \* what is stored under the two keys
  tab,         \* submissions in progress
  submissions, \* submissions begun
  review,      \* reviews between their read and their write
  approved,    \* history: the pictures when the document was last approved
  mixed        \* history: a review overlapped a submission or another review

kyc == <<role, earned, doc, pictures, tab, submissions, review, approved, mixed>>

Kinds == {"ktp", "selfie"}
Submissions == 1 .. MaxSubmissions
None == [kind \in Kinds |-> 0]

Blank == [at |-> "idle"]

KycTypes ==
  /\ role \in {"merchant", "disbursement_user"} /\ earned \in BOOLEAN
  /\ doc \in {"none", "pending", "approved", "rejected"}
  /\ pictures \in [Kinds -> 0 .. MaxSubmissions]
  /\ tab \in [Tabs -> {Blank} \cup [at: {"sending"}, n: Submissions, exists: BOOLEAN,
                                    left: SUBSET Kinds]]
  /\ submissions \in 0 .. MaxSubmissions
  /\ review \in [Reviews -> {"idle", "approving", "rejecting"}]
  /\ approved \in [Kinds -> 0 .. MaxSubmissions] /\ mixed \in BOOLEAN

KycInit ==
  /\ role = "merchant" /\ earned = FALSE /\ doc = "none" /\ pictures = None
  /\ tab = [t \in Tabs |-> Blank] /\ submissions = 0
  /\ review = [a \in Reviews |-> "idle"]
  /\ approved = None /\ mixed = FALSE

-----------------------------------------------------------------------------
Eligible == role = "disbursement_user" \/ earned

Submitting == {t \in Tabs : tab[t] # Blank}
Reviewing == {a \in Reviews : review[a] # "idle"}

\* Mutant: only what is in review is kept from being submitted again.
MaySubmit_Approved == Eligible /\ doc # "pending"

\* A document that is pending or approved is not submitted again.
MaySubmit == Eligible /\ doc \in {"none", "rejected"}

\* The row is read; the form is received meanwhile.
Submits(t) ==
  /\ tab[t] = Blank /\ submissions < MaxSubmissions /\ MaySubmit
  /\ submissions' = submissions + 1
  /\ tab' = [tab EXCEPT ![t] = [at |-> "sending", n |-> submissions + 1,
                                exists |-> doc # "none", left |-> Kinds]]
  /\ mixed' = (mixed \/ Reviewing # {})
  /\ UNCHANGED <<role, earned, doc, pictures, review, approved>>

\* The two uploads run side by side.
Uploads(t, kind) ==
  /\ tab[t] # Blank /\ kind \in tab[t].left
  /\ pictures' = [pictures EXCEPT ![kind] = tab[t].n]
  /\ tab' = [tab EXCEPT ![t].left = @ \ {kind}]
  /\ UNCHANGED <<role, earned, doc, submissions, review, approved, mixed>>

\* The form is not valid, an upload fails or a query does: what was uploaded stays.
SubmitFails(t) ==
  /\ tab[t] # Blank
  /\ tab' = [tab EXCEPT ![t] = Blank]
  /\ UNCHANGED <<role, earned, doc, pictures, submissions, review, approved, mixed>>

\* The row that was read is updated whatever its status is by now; where there
\* was none, create is refused if there is one by now.
WritesRow(t) ==
  /\ tab[t] # Blank /\ tab[t].left = {}
  /\ doc' = IF tab[t].exists \/ doc = "none" THEN "pending" ELSE doc
  /\ tab' = [tab EXCEPT ![t] = Blank]
  /\ UNCHANGED <<role, earned, pictures, submissions, review, approved, mixed>>

-----------------------------------------------------------------------------
\* A rejected document can be approved, an approved one not be rejected.
BeginsReview(a, verdict) ==
  /\ review[a] = "idle" /\ doc \in {"pending", "rejected"}
  /\ review' = [review EXCEPT ![a] = verdict]
  /\ mixed' = (mixed \/ Submitting # {} \/ Reviewing # {})
  /\ UNCHANGED <<role, earned, doc, pictures, tab, submissions, approved>>

EndsReview(a) ==
  /\ review[a] # "idle"
  /\ IF review[a] = "approving" THEN doc' = "approved" /\ approved' = pictures
     ELSE doc' = "rejected" /\ UNCHANGED approved
  /\ review' = [review EXCEPT ![a] = "idle"]
  /\ UNCHANGED <<role, earned, pictures, tab, submissions, mixed>>

AdminSetsRole ==
  /\ role' = IF role = "merchant" THEN "disbursement_user" ELSE "merchant"
  /\ UNCHANGED <<earned, doc, pictures, tab, submissions, review, approved, mixed>>

\* A payment takes totalEarned over the threshold.
Earns ==
  /\ ~earned /\ earned' = TRUE
  /\ UNCHANGED <<role, doc, pictures, tab, submissions, review, approved, mixed>>

KycNext ==
  \/ \E t \in Tabs :
       Submits(t) \/ SubmitFails(t) \/ WritesRow(t) \/ \E kind \in Kinds : Uploads(t, kind)
  \/ \E a \in Reviews :
       EndsReview(a) \/ \E verdict \in {"approving", "rejecting"} : BeginsReview(a, verdict)
  \/ AdminSetsRole \/ Earns

-----------------------------------------------------------------------------
\* What the gates ask.
MayDisburse == role = "disbursement_user" /\ doc = "approved"

MayWithdraw == earned => doc = "approved"

-----------------------------------------------------------------------------
\* An approved document stays approved, with the pictures it was approved with,
\* unless its review overlapped a submission or another review.
ApprovalStands == approved # None => (doc = "approved" /\ pictures = approved) \/ mixed
=============================================================================
