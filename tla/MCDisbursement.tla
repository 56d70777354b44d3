--------------------------- MODULE MCDisbursement ---------------------------
(***************************************************************************)
(* Deposits and disbursements of one account, the dialogs and forms that ask *)
(* for them, and the wizard that logs the platform in to their provider,     *)
(* checked side by side.  Deposits and disbursements meet in the balance     *)
(* only, which a deposit can but increase, and the dialogs model the rows    *)
(* they see: behaviours in which several are in use add nothing but states.  *)
(***************************************************************************)
EXTENDS Disbursement

CONSTANTS
  Dialogs, NoDepositId, MaxAnswers,
  Forms, Targets, Nobody, MaxTokens,
  Accounts, NoAccount, MaxRequests

VARIABLES
  dialogKind, deposits, dialog, pressed, polls, interval, cleanup, answers, outlived,
  formKind, form, timer, checks, nonce, issued, asks, post, stray, lost,
  wizard, posts, sent, temp, saved, blurred

dialogVars ==
  <<dialogKind, deposits, dialog, pressed, polls, interval, cleanup, answers, outlived>>
formVars == <<formKind, form, timer, checks, nonce, issued, asks, post, stray, lost>>
wizardVars == <<wizard, posts, sent, temp, saved, blurred>>

Dialog == INSTANCE DepositDialog WITH
  NoDeposit <- NoDepositId,
  kind <- dialogKind, row <- deposits, calls <- pressed, crossed <- outlived
Form == INSTANCE TransferForm WITH kind <- formKind, token <- nonce
Login == INSTANCE FlipWizard WITH requests <- posts, excuse <- blurred

DialogRests == Dialog!Init /\ dialogKind = "deposit"
FormRests == Form!Init /\ formKind = "withdrawal"

NoDeposit == (\A d \in Deposits : deposit[d] = "none") /\ \A h \in Handlers : handler[h] = Free

NoDisbursement ==
  /\ \A d \in Disbursements : row[d].status = "none"
  /\ \A q \in Requests : request[q] = Idle

OneSide == NoDeposit \/ NoDisbursement

MCInit == Init /\ Dialog!Init /\ Form!Init /\ Login!Init

MCNext ==
  \/ /\ DialogRests /\ FormRests /\ Login!Init
     /\ Next /\ OneSide' /\ UNCHANGED <<dialogVars, formVars, wizardVars>>
  \/ /\ Init /\ FormRests /\ Login!Init
     /\ Dialog!Next /\ UNCHANGED <<vars, formVars, wizardVars>>
  \/ /\ Init /\ DialogRests /\ Login!Init
     /\ Form!Next /\ UNCHANGED <<vars, dialogVars, wizardVars>>
  \/ /\ Init /\ DialogRests /\ FormRests
     /\ Login!Next /\ UNCHANGED <<vars, dialogVars, formVars>>

MCSpec == MCInit /\ [][MCNext]_<<vars, dialogVars, formVars, wizardVars>>

\* What the dashboard's dialogs show is what they are about: of a deposit, and of
\* the account that is checked before money is sent to it.
DialogsTell == Dialog!DialogTells /\ Form!FormIsSound

WizardTells == Login!WizardTells
=============================================================================
