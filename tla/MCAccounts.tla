----------------------------- MODULE MCAccounts -----------------------------
(***************************************************************************)
(* The withdrawals a client opens, with its documents, and beside them its *)
(* account, the session at the payment provider, and the repairs by which  *)
(* the admin reconciles the books.  These share no state, so each moves     *)
(* while the others rest.                                                  *)
(*                                                                         *)
(* Withdrawals vary most: passwords, documents and suspension are looked at *)
(* one at a time, before there is a withdrawal or between two.  What follows *)
(* an excuse is cut off, as no invariant speaks of it.                      *)
(***************************************************************************)
EXTENDS Payouts, Sequences, TLC

CONSTANTS
  Handlers, Links, MaxPasswords, MaxAttempts,
  FlipAccounts, FlipWorker, StatusWorker, Calls, Activation, Grants, NoProvider, NoOne,
  Invoices, Platform, Executes, Keys, MaxFixes

ASSUME AccountsAssumption ==
  /\ MaxPasswords \in Nat \ {0} /\ MaxAttempts \in Nat \ {0} /\ IsFiniteSet(Handlers)

VARIABLES
  client, owned, redis, fails, loginLock, link, handler, guesses, uses, shared, excused,
  provider, owner, spent, call, login, linked, byHand, lost,
  status, ledger, pro, usedKeys, executes, withdrawal, disbursement, listed, overlapped

account == <<client, owned, redis, fails, loginLock, link, handler, guesses, uses, shared, excused>>
flip == <<provider, owner, spent, call, login, linked, byHand, lost>>
books == <<status, ledger, pro, usedKeys, executes, withdrawal, disbursement, listed, overlapped>>

Account == INSTANCE Accounts WITH Requests <- Handlers, request <- handler, lock <- loginLock
Flip == INSTANCE ProviderSession WITH
  Accounts <- FlipAccounts, NoRow <- NoProvider, row <- provider, mixed <- byHand
Recon == INSTANCE Reconciliation WITH Calls <- Executes, call <- executes

ASSUME FlipAssumption ==
  /\ Grants \in Nat /\ NoProvider \notin Flip!Row
  /\ FlipWorker # StatusWorker /\ Activation \notin Flip!Procs

-----------------------------------------------------------------------------
Guessing == wrong # 0 \/ lock
Asked == earned \/ doc # "none" \/ submissions # 0 \/ role # "merchant"
Verifying == Submitting # {} \/ Reviewing # {} \/ mixed
Quiet == request = [q \in Requests |-> Rest]

Simple ==
  /\ row = [r \in Rows |-> NoRow] /\ intents <= 1 /\ ~suspended
  /\ Cardinality({q \in Requests : request[q] # Rest}) <= 1

OneMatter ==
  /\ Guessing \/ Asked => Simple
  /\ ~(Guessing /\ Asked)
  /\ Verifying \/ suspended => Quiet

-----------------------------------------------------------------------------
SigningIn ==
  \/ loginLock \/ fails.count > 0 \/ guesses > 0
  \/ \E q \in Handlers : handler[q].at \in Account!SignIn

Plain ==
  /\ ~client.google
  /\ \A l \in Links : link[l].kind # "reset" /\ ~link[l].live
  /\ \A q \in Handlers : handler[q].at \in Account!SignIn \cup {"idle"}

-----------------------------------------------------------------------------
\* The session is not followed once an issued token was lost, nor while an
\* activation by the admin meets a refresh outside the flip worker, nor while a
\* login is under way beside a row composed by hand.
Followed ==
  /\ ~ lost
  /\ byHand => login = Flip!NoLogin
  /\ \/ call[Activation].pc = "idle"
     \/ \A p \in Flip!Procs \ {FlipWorker} : call[p].pc = "idle"

-----------------------------------------------------------------------------
BooksRest == Recon!Init /\ \A i \in Invoices : status[i] = "pending"

MCInit == Init /\ Account!Init /\ Flip!Init /\ Recon!Init

MCNext ==
  \/ /\ Account!Init /\ Flip!Init /\ BooksRest /\ ~crossed
     /\ Next /\ OneMatter' /\ UNCHANGED <<account, flip, books>>
  \/ /\ Init /\ Flip!Init /\ BooksRest /\ ~excused
     /\ Account!Next /\ (SigningIn => Plain)' /\ UNCHANGED <<vars, flip, books>>
  \/ /\ Init /\ Account!Init /\ BooksRest
     /\ Flip!Next /\ UNCHANGED <<vars, account, books>>
  \/ /\ Init /\ Account!Init /\ Flip!Init
     /\ Recon!Next /\ UNCHANGED <<vars, account, flip>>

MCSpec == MCInit /\ [][MCNext]_<<vars, account, flip, books>>

SecretsHold == Account!SecretsHold
SessionUsable == Flip!SessionUsable
CreditedOnceByFix == Recon!CreditedOnceByFix

\* The two accounts of Flip are alike.
AccountSymmetry == Permutations(FlipAccounts)
=============================================================================
