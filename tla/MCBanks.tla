------------------------------ MODULE MCBanks -------------------------------
(***************************************************************************)
(* What the scraper keeps logged in at the banks, side by side: the pool of *)
(* browsers, the session of one GoPay, BRI or QRIS BCA channel in Redis, and *)
(* the page of one BCA account.  The three share no state here: each moves   *)
(* while the others rest.                                                   *)
(***************************************************************************)
EXTENDS Naturals, FiniteSets, Sequences, TLC

CONSTANTS
  Browsed, Tests, Calls, MaxBrowsers, MaxLaunches,
  Kinds, Runs, MaxTokens, NoSession

ASSUME PoolAssumption ==
  /\ Browsed \cap Tests = {}
  /\ MaxBrowsers \in Nat \ {0} /\ MaxLaunches \in Nat

ASSUME BankAssumption ==
  /\ Kinds \subseteq {"gopay", "bri", "qris_bca"} /\ MaxTokens \in Nat
  /\ NoSession \notin [token : Nat, merchant : BOOLEAN]

VARIABLES
  pool, running, recent, call, deploy, polling, launched, overlapped, late,
  kind, kept, page, loggedIn, config, command, issued, dead, run, told, jobsPiled, keptLate,
  right, open, mainPage, flag, scrape, dialog, typed, missed, over

browsers == <<pool, running, recent, call, deploy, polling, launched, overlapped, late>>
tokens ==
  <<kind, kept, page, loggedIn, config, command, issued, dead, run, told, jobsPiled, keptLate>>
bca == <<right, open, mainPage, flag, scrape, dialog, typed, missed, over>>

Pool == INSTANCE BrowserPool WITH Channels <- Browsed, owner <- launched
Bank == INSTANCE BankSession WITH owner <- issued, overlapped <- jobsPiled, late <- keptLate
Bca == INSTANCE KlikBca WITH session <- open, page <- mainPage

PoolRests == Pool!Init
BankRests == Bank!Init /\ kind = "gopay"
BcaRests == Bca!Init /\ right

MCInit == Pool!Init /\ Bank!Init /\ Bca!Init

MCNext ==
  \/ BankRests /\ BcaRests /\ Pool!Next /\ UNCHANGED <<tokens, bca>>
  \/ PoolRests /\ BcaRests /\ Bank!Next /\ UNCHANGED <<browsers, bca>>
  \/ PoolRests /\ BankRests /\ Bca!Next /\ UNCHANGED <<browsers, tokens>>

MCSpec == MCInit /\ [][MCNext]_<<browsers, tokens, bca>>

PoolExplained == Pool!PoolExplained
KeptIsGood == Bank!KeptIsGood
ScrapeExplained == Bca!ScrapeExplained

\* Calls are alike, and so are channels and scrapes.
Symmetry == Permutations(Calls) \cup Permutations(Browsed) \cup Permutations(Runs)
=============================================================================
