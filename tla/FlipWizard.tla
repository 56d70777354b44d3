----------------------------- MODULE FlipWizard -----------------------------
(***************************************************************************)
(* The wizard with which an admin logs the platform in to the payment       *)
(* provider: the account is looked up, a code is sent to its phone and       *)
(* entered, the PIN is entered, and the token of the account is saved.       *)
(*                                                                         *)
(* The page asks the API, which asks the provider.  A code earns a token     *)
(* that waits ten minutes in Redis under the admin's id; the PIN changes it  *)
(* for the one that is saved.  The buttons wait while a request is under way; *)
(* the Enter keys do not, and a page that is left leaves its requests behind. *)
(***************************************************************************)
EXTENDS Naturals, FiniteSets

CONSTANTS
  Accounts,    \* accounts at the provider
  NoAccount,   \* none, or null
  MaxRequests  \* bound: requests under way

VARIABLES
  wizard,   \* what the page shows, and what is typed
  requests, \* its requests under way, numbered
  sent,     \* the accounts whose code is on their phone
  temp,     \* pg:flip-login-temp: the account its token is of
  saved,    \* the account of the token in payment_providers
  excuse    \* why the wizard may be wrong since it was opened (history)

vars == <<wizard, requests, sent, temp, saved, excuse>>

\* Steps: the account is typed, confirmed, its code and its PIN asked for, done.
Shut == [open |-> FALSE, step |-> 0, typed |-> NoAccount, shown |-> NoAccount,
         code |-> NoAccount, busy |-> FALSE]

Init ==
  /\ wizard = Shut /\ requests = {} /\ sent = {}
  /\ temp = NoAccount /\ saved = NoAccount
  /\ excuse = {}

-----------------------------------------------------------------------------
(* The page.                                                               *)

\* Requests left behind may write what this wizard relies on.
Opens ==
  /\ ~ wizard.open
  /\ wizard' = [Shut EXCEPT !.open = TRUE, !.busy = wizard.busy]
  /\ excuse' = IF requests = {} THEN {} ELSE {"left"}
  /\ UNCHANGED <<requests, sent, temp, saved>>

\* A wizard that is done may be closed while its page still loads.
Closes ==
  /\ wizard.open /\ (wizard.busy => wizard.step = 4)
  /\ wizard' = [Shut EXCEPT !.busy = wizard.busy]
  /\ UNCHANGED <<requests, sent, temp, saved, excuse>>

\* The admin goes to another page; the API goes on, the answers are for nobody.
Leaves ==
  /\ wizard' = Shut /\ requests' = {[r EXCEPT !.mine = FALSE] : r \in requests}
  /\ UNCHANGED <<sent, temp, saved, excuse>>

\* The account may be edited while it is looked up.
Types(a) ==
  /\ wizard.open /\ wizard.step = 0 /\ wizard.typed # a
  /\ wizard' = [wizard EXCEPT !.typed = a]
  /\ excuse' = excuse \cup (IF requests = {} THEN {} ELSE {"edited"})
  /\ UNCHANGED <<requests, sent, temp, saved>>

\* A code the admin has been sent.
TypesCode(a) ==
  /\ wizard.open /\ wizard.step = 2 /\ a \in sent /\ wizard.code # a
  /\ wizard' = [wizard EXCEPT !.code = a]
  /\ UNCHANGED <<requests, sent, temp, saved, excuse>>

Back ==
  /\ wizard.open /\ wizard.step = 1 /\ ~ wizard.busy
  /\ wizard' = [wizard EXCEPT !.step = 0]
  /\ UNCHANGED <<requests, sent, temp, saved, excuse>>

FreeNumbers == {n \in 1 .. MaxRequests : \A r \in requests : r.n # n}

\* What a request says: the PIN goes alone.
Asks(kind) ==
  /\ \E n \in FreeNumbers :
       /\ \A k \in FreeNumbers : n <= k
       /\ requests' = requests \cup
            {[n |-> n, kind |-> kind, at |-> "sent", mine |-> TRUE,
              of |-> IF kind = "finalize" THEN NoAccount ELSE wizard.typed,
              code |-> IF kind = "verify" THEN wizard.code ELSE NoAccount]}
  /\ wizard' = [wizard EXCEPT !.busy = TRUE]
  /\ excuse' = excuse \cup (IF requests = {} THEN {} ELSE {"overlap"})
  /\ UNCHANGED <<sent, temp, saved>>

\* By the button or the Enter key.
Checks == wizard.open /\ wizard.step = 0 /\ wizard.typed # NoAccount /\ Asks("check")
Verifies == wizard.open /\ wizard.step = 2 /\ wizard.code # NoAccount /\ Asks("verify")
Finalizes == wizard.open /\ wizard.step = 3 /\ Asks("finalize")

\* By a button: first, or again.
RequestsCode == wizard.open /\ wizard.step \in {1, 2} /\ ~ wizard.busy /\ Asks("code")

-----------------------------------------------------------------------------
(* The API, which trusts what it is sent.                                  *)

\* Only the page's look-up is told of the account again.
Move(r, at) ==
  requests' = (requests \ {r}) \cup
    {[r EXCEPT !.at = at, !.code = NoAccount,
               !.of = IF at \in {"token", "read"} \/ (at = "good" /\ r.kind = "check")
                      THEN r.of ELSE NoAccount]}

Looked(r) ==
  /\ r.kind = "check" /\ r.at = "sent" /\ Move(r, "good")
  /\ UNCHANGED <<wizard, sent, temp, saved, excuse>>

SendsCode(r) ==
  /\ r.kind = "code" /\ r.at = "sent" /\ r.of # NoAccount
  /\ sent' = sent \cup {r.of} /\ Move(r, "good")
  /\ UNCHANGED <<wizard, temp, saved, excuse>>

\* The provider knows whose code it is, and uses it up.
ChecksCode(r) ==
  /\ r.kind = "verify" /\ r.at = "sent" /\ r.code = r.of /\ r.of \in sent
  /\ sent' = sent \ {r.of} /\ Move(r, "token")
  /\ UNCHANGED <<wizard, temp, saved, excuse>>

\* Mutant: a token that waits is not replaced.
Kept_First(a) == IF temp = NoAccount THEN a ELSE temp

Kept(a) == a

KeepsToken(r) ==
  /\ r.kind = "verify" /\ r.at = "token"
  /\ temp' = Kept(r.of) /\ Move(r, "good")
  /\ UNCHANGED <<wizard, sent, saved, excuse>>

TokenExpires ==
  /\ temp # NoAccount /\ temp' = NoAccount
  /\ UNCHANGED <<wizard, requests, sent, saved, excuse>>

ReadsToken(r) ==
  /\ r.kind = "finalize" /\ r.at = "sent" /\ temp # NoAccount
  /\ requests' = (requests \ {r}) \cup {[r EXCEPT !.at = "read", !.of = temp]}
  /\ UNCHANGED <<wizard, sent, temp, saved, excuse>>

\* The PIN and the device are verified.
SavesToken(r) ==
  /\ r.kind = "finalize" /\ r.at = "read"
  /\ saved' = r.of /\ Move(r, "saved")
  /\ UNCHANGED <<wizard, sent, temp, excuse>>

DropsToken(r) ==
  /\ r.kind = "finalize" /\ r.at = "saved"
  /\ temp' = NoAccount /\ Move(r, "good")
  /\ UNCHANGED <<wizard, sent, saved, excuse>>

\* The provider, Redis or the database; or it expired.
Fails(r) ==
  /\ r.at \in {"sent", "token", "read", "saved"} /\ Move(r, "bad")
  /\ UNCHANGED <<wizard, sent, temp, saved, excuse>>

-----------------------------------------------------------------------------
(* The answers.  Each goes where its request would, whatever is shown now. *)

Follows(r) ==
  CASE r.kind = "check" -> [wizard EXCEPT !.step = 1, !.shown = r.of]
    [] r.kind = "code" -> [wizard EXCEPT !.step = 2]
    [] r.kind = "verify" -> [wizard EXCEPT !.step = 3]
    [] OTHER -> [wizard EXCEPT !.step = 4]

Answered(r) ==
  /\ r.at \in {"good", "bad"} /\ ~ (r.at = "good" /\ r.kind = "finalize" /\ r.mine)
  /\ requests' = requests \ {r}
  /\ wizard' = IF ~ r.mine THEN wizard
               ELSE [(IF r.at = "good" THEN Follows(r) ELSE wizard) EXCEPT !.busy = FALSE]
  /\ UNCHANGED <<sent, temp, saved, excuse>>

\* The login succeeded; the page loads what is saved.
Finished(r) ==
  /\ r.at = "good" /\ r.kind = "finalize" /\ r.mine
  /\ wizard' = Follows(r) /\ Move(r, "loading")
  /\ UNCHANGED <<sent, temp, saved, excuse>>

Reloaded(r) ==
  /\ r.at = "loading" /\ requests' = requests \ {r}
  /\ wizard' = IF r.mine THEN [wizard EXCEPT !.busy = FALSE] ELSE wizard
  /\ UNCHANGED <<sent, temp, saved, excuse>>

Next ==
  \/ Opens \/ Closes \/ Leaves \/ Back \/ TokenExpires
  \/ \E a \in Accounts : Types(a) \/ TypesCode(a)
  \/ Checks \/ RequestsCode \/ Verifies \/ Finalizes
  \/ \E r \in requests :
       \/ Looked(r) \/ SendsCode(r) \/ ChecksCode(r) \/ KeepsToken(r)
       \/ ReadsToken(r) \/ SavesToken(r) \/ DropsToken(r) \/ Fails(r)
       \/ Answered(r) \/ Finished(r) \/ Reloaded(r)

Spec == Init /\ [][Next]_vars

-----------------------------------------------------------------------------
(* Properties.                                                             *)

TypeOK ==
  /\ wizard.step \in 0 .. 4
  /\ {wizard.typed, wizard.shown, wizard.code, temp, saved} \subseteq Accounts \cup {NoAccount}
  /\ sent \subseteq Accounts /\ Cardinality(requests) <= MaxRequests

\* The account that was confirmed is the one that gets the code, whose token waits
\* while the PIN is asked for, and whose token is saved when the wizard says that the
\* login succeeded: whatever waits from a wizard that was given up.  Excused are an
\* account edited while it was looked up, requests that overlap, and requests an
\* earlier wizard has left behind.
WizardTells ==
  wizard.open /\ excuse = {} =>
    /\ wizard.step \in {1, 2} => wizard.typed = wizard.shown
    /\ wizard.step = 3 => temp \in {wizard.shown, NoAccount}
    /\ wizard.step = 4 => saved = wizard.shown
=============================================================================
