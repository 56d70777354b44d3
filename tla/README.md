# Formal verification of SayaBayar

SayaBayar is a payment gateway that needs no bank API: an invoice gets an amount no other open
invoice of the same payment channel has, scrapers read the bank's or QRIS provider's list of
mutations, and a worker matches the amounts. Paid money is credited to the merchant, becomes
available after two days (at once for Disbursement Pro), and leaves by a withdrawal or a
disbursement through the payment provider, Flip.

This directory holds TLA+ modules of the parts in which something changes state, the TLC
configurations that check them on small instances, and TLAPS proofs of the main invariants for
every value of the constants. `PROJECT.json` maps each definition to the source lines it stands
for, and lists the hazards of the code, the differences found between the code and what is said of
it, and, for every checked property, a variant of the model that breaks it.

    tlc -workers 2 -config Matching_races.cfg MCPayments      # one run
    tlapm MatchingProofs.tla                                  # one module of proofs

All paths below are relative to `src/`.

## 1. Inventory

The API (`apps/api`, Fastify) and the scraper (`apps/scraper`) are separate processes; the frontend
(`apps/frontend`, Next.js) runs in browsers. API and scraper share one MySQL database (Prisma) and
one Redis (BullMQ queues, locks, tokens, bank sessions, publish/subscribe). The scraper runs the
scheduler, four BullMQ workers (scrape, match, webhook, flip) and two loops that reschedule
themselves (settlement, Flip status). In memory are only the browser pool and what a page shows.

| Component | State | Operations | Talks to |
|---|---|---|---|
| Payment matching (`invoices.js`, `pay.js`, `matchWorker.js`, `scrapeWorker.js`, `scheduler.js`, `admin.js`) | `invoices`, `transactions`, queue `match` | select a channel, confirm, cancel, expire, record a mutation, match, match by hand | ledger, webhook queue, subscriptions |
| Settlement (`settlementWorker.js`, `admin.js`, `scripts/fix-disbursement-pro-settlement.js`) | `balance_ledger`, `client_balances` | credit, settle a due row, correct a row | plan of the client |
| Withdrawals (`withdrawals.js`, `flipWorker.js`, `flipStatusWorker.js`, `admin.js`) | `withdrawals`, balance, queue `flip`, one-time token and password lock in Redis | ask for a token, submit, run, ask Flip, refund, process, reject, verify, opt out | Flip, KYC, provider session |
| Checkout (`pay.js`) | unique codes of open invoices, a Redis lock per channel | lock, choose a code, release | matching |
| Invoice creation (`invoices.js`) | `invoices` | check the plan's limits, create | plan of the client |
| Webhook delivery (`webhooks.js`, `webhookWorker.js`) | `webhook_endpoints`, `webhook_logs`, queue `webhook` | edit endpoints, deliver to each, retry, log | merchants |
| Scraping (`scheduler.js`, `scrapeWorker.js`, `circuitBreaker.js`, `sessionStore.js`, `channels.js`) | `channel_states`, queue `scrape`, commands in Redis | schedule, scrape, count errors, open and half-open a circuit, commands | browser pool, matching |
| Browser pool (`browserPool.js`, `server.js`) | a map of browsers in memory | get, create, evict, clean up, pre-deploy | Playwright |
| Disbursements (`disbursements.js`, `flipWorker.js`, `flipStatusWorker.js`, `admin.js`) | `disbursements`, their balance | transfer, transfer in, run, refund, retry, verify | Flip |
| Disbursement deposits (same files) | `disbursement_deposits` | create or resume, confirm, cancel, expire, credit by three paths | Flip |
| Subscriptions (`subscriptions.js`, `matchWorker.js`, `scheduler.js`, `admin.js`) | `client_subscriptions`, role of the client | upgrade, activate a month, downgrade, expire, set by the admin | matching, settlement |
| Reconciliation (`admin.js`) | audit rows, ledger | list, preview, repair | settlement |
| Payment provider session (`paymentProvider.js`, `flipWorker.js`, `flipStatusWorker.js`, `flipBrowser.js`, `admin.js`) | one row of `payment_providers` | refresh, log in by code and PIN, patch, activate the wallet | Flip |
| Authentication and sessions (`auth.js`, `authenticate.js`, `apiKeys.js`, frontend `lib/`) | `clients`, links and counters in Redis, cookie, access token in a tab | register, verify, sign in, lock, reset, refresh, view as a client | mail |
| KYC (`kyc.js`, `admin.js`) | `kyc_documents`, two stored pictures | submit, approve, reject | withdrawals |
| Channels administration (`channels.js`, `admin.js`) | `payment_channels` | add, change, pause, delete, test | scraper |
| Bank and QRIS scrapers (`scrapers/`) | page, token or cookie of a session | log in, read, retry, log out | banks |
| Frontend (`apps/frontend`) | what a page shows, requests under way | payment page, dialogs, live lists, tabs, wizard | API |
| Pure calculations | - | fee tiers, intervals, QRIS checksum, hashes | - |
| E-mail, object storage, response format | - | output | third parties |

### What is hard, and what makes it correct

One pattern runs through the code: a handler or worker reads a row, checks it, awaits something,
and then updates the row *by primary key*, with no condition on what it read. Single updates are
atomic and balances are changed by atomic increments, so money is never computed from a stale
value; but a status can be overwritten by whoever writes last, and whatever two handlers check at
once both find allowed. The second source of trouble is BullMQ: jobs are retried after an error and
restarted after a crash, so every worker has to survive a second run of something it did in part.
The third is the provider: Flip may accept a transfer and the answer may be lost. The fourth is
what is told: events are published to whoever listens at that moment, pages take answers in the
order they come, and one session is shared by several tabs or processes.

* Matching: one mutation pays one invoice; nothing announces a payment that did not commit; a
  mutation ends matched or in manual review; a payment is announced.
* Settlement: no interleaving creates or loses money; the ledger explains both balances; due money
  is released, and released money stays released. Reconciliation repairs a credit once.
* Withdrawals: the balance covers what is debited; the client that asks once is paid once; a
  withdrawal is transferred at most once; refunded exactly if the transfer failed; processed only
  if paid; resolved eventually. An approved document stays the one that was approved.
* Checkout: two open invoices of one channel have different codes; the code a customer was shown stands.
* Invoices: how far overlapping requests exceed the limits of the free plan, and no further.
* Deposits: credited once, whichever of three paths completes it. Disbursements: debited once per
  attempt, refunded once per failed attempt; the totals of the account explain its balance.
* Subscriptions: each payment extends the period; one row is active; an overdue one ends.
* Webhooks: an endpoint that fails does not keep the others from the event; what was answered is logged.
* Scraping: errors that repeat open the circuit; a wrong password is tried once; replaced
  credentials end the session; an active channel is scraped again; a confirmed payment is looked
  for within the shortest interval.
* Browser pool and bank sessions: every browser is closed eventually; a kept session is one the
  bank takes, of the present credentials; no password is typed into an open session.
* Provider session: what is stored is usable, and of one account.
* Accounts: guessing ends at the lock; a link is used once. Tabs: a request acts for the account shown.
* Pages: what is shown is what happened.

`PROJECT.json` lists each hazard at its line with the properties that watch it; none is without.

## 2. Modules

### How they are composed

Parts that meet in rows of the database only, each modelled as far as the other sees them, are
checked by one run: the MC module EXTENDS one of them, INSTANCEs the others, and lets *each part
move while the others rest* in one initial state. The states of such a run are the sum of those of
its parts, not their product, and nothing is claimed of their combination.

| Run's module | Parts | What is cut |
|---|---|---|
| `MCMatching` | `Matching` | only the undisturbed steps: no fault but a failing activation, no match by hand |
| `MCPayments` | `Matching`, `ScrapeTiming`, `LiveList` | - |
| `MCSettlement` | `Settlement` (implements `CreditLifecycle`), `Invoicing` | - |
| `MCDisbursement` | `Disbursement` (EXTENDS `Deposit`), `DepositDialog`, `TransferForm`, `FlipWizard` | `OneSide`: deposits, or disbursements; they meet in the balance only, which a deposit can but increase. The proofs cover them together. |
| `MCWithdrawal` | `Withdrawal` | an admin acts on a single withdrawal whose job is not restarted; the proofs do without |
| `MCScraping` | `Scraping` (EXTENDS `Channels`) | jobs that pile up, or a request and a failure |
| `MCPlans` | `Billing`, `Webhooks` | once two series of writes crossed, only the sweep goes on |
| `MCBanks` | `BrowserPool`, `BankSession`, `KlikBca` | - |
| `MCAccounts` | `Payouts` (EXTENDS `Kyc`), `Accounts`, `ProviderSession`, `Reconciliation` | `OneMatter`: guessing, reviewing and suspension one at a time, with at most one withdrawal asked for; `Plain`: sign-ins are followed for a client without Google and without reset links; states after an excuse; the constraint `Followed` |
| `MCPages` | `Checkout`, `PaymentPage`, `BrowserSession`, `OwnChannels` | tabs after an excuse, channels after two |

The cuts after a crossed creation (`Payouts`), an excuse (`Accounts`), a crossed series (`Billing`) and
a touched tab (`BrowserSession`) lose nothing the invariants speak of: each is a history variable that
stays true, and the invariants are conditional on it. The other cuts limit what is combined in
one behaviour, and are what the size of a run allows. The constraint `Followed` ends the provider's
session at a lost token, at a login beside a row composed by hand, and at an activation by the admin
that meets a refresh outside of the flip worker: such states are checked, their successors not.

Definitions named `X_Something` next to a definition `X` are variants of it with a plausible bug;
`PROJECT.json` names, for every checked property, the variant that breaks it. They are not used by
the specifications. Variables commented "(history)" are read by no guard.

| Module | Models |
|---|---|
| `Matching` | invoices, mutations and match jobs with all their writers |
| `ScrapeTiming` | when a channel is read next: selection, confirmation, cancellation, the poll's counts, scrapes |
| `LiveList` | the dashboard's lists and the stream that reloads them |
| `CreditLifecycle` | abstract: what a merchant is promised of a credit |
| `Settlement` | ledger rows, balances, settlement workers, corrections |
| `Invoicing` | the limits of the free plan around overlapping requests |
| `Withdrawal` | withdrawals, flip queue and worker, status worker, admin, Flip |
| `Kyc`, `Payouts` | documents and their review; who opens a withdrawal |
| `Checkout` | unique codes, the Redis lock of a channel, handlers that select one |
| `Deposit`, `Disbursement` | the disbursement account: what increases it, and what else changes it |
| `DepositDialog`, `TransferForm`, `FlipWizard` | dialogs and forms of the dashboard around money, and the admin's login at Flip |
| `Billing` | a client's subscription: payments, downgrades, sweep, admin |
| `Webhooks` | one delivery job over the endpoints of a client |
| `Channels`, `Scraping` | a channel's row, state and command; scheduler, jobs, circuit breaker |
| `BrowserPool`, `BankSession`, `KlikBca` | what the scraper keeps logged in |
| `ProviderSession` | the row with Flip's token between three refreshing processes and an admin |
| `Reconciliation` | the list of issues, and the repair called twice |
| `Accounts` | one account: registration, links, guessing, locks |
| `PaymentPage`, `BrowserSession` | the customer's page; the tabs of one browser |
| `OwnChannels` | the channels clients add, against plan, duplicates and waiting invoices |
| `*Proofs` | what is proved of one run's module and its parts: `MatchingProofs` of `MCPayments`, `SettlementProofs` of `MCSettlement`, `CheckoutProofs` of `MCPages`, `DisbursementProofs` of `MCDisbursement`, `PlansProofs` of `MCPlans`, `PayoutsProofs` of `MCAccounts`, `ScrapingProofs` of `Scraping` and of `MCBanks`, `WithdrawalProofs` of `Withdrawal` alone |

### Matching

* `invoice`, `tx`: the columns of the two tables that decide control. `charge` is `amountUnique`,
  a symbol: matching only compares amounts. `open` stands for `expiredAt > now`.
* `job`: the match job of a mutation. `state` says how far a run has come (`searched`:
  `findFirst` has answered; `committed`: the `$transaction` is through; `announced`: Redis publish
  and webhook job done). `attemptsMade` and `stalled` are BullMQ's counters.
* `calls`: API handlers between their read and their write. This is where `select-channel`,
  `confirm`, `cancel` and the admin's match lose track of the row. A handler that sees a status in
  its first query and writes by id in its last is two actions; a statement whose condition the
  database evaluates (`updateMany` of the expiry) is one.
* `FindInvoice` orders candidates as MySQL does: an ENUM sorts by declaration order.
* The attempt counter of the row and the attempts of the queue are separate, as in the code
  (`MATCH.MAX_ATTEMPTS`, `queues.js`), each with its own constant.

Left out: fees and MDR, a second selection of a channel (answered with the first), how the code is
chosen (any code here, so two open invoices may share an amount; `Checkout` has it), a job that
lives on after BullMQ took its lock away.

### ScrapeTiming and LiveList

* Time in `ScrapeTiming` is counted in ticks of the shortest interval; `next` is `nextScrapeAt`. The
  poll reads, counts, lists the jobs, sets the time and adds its job in steps of their own, so that a
  confirmation can come between any two. `excuse` names what else may have set the time: a count made
  before the confirmation, an older confirmation that timed out, a handler that died, a cancellation,
  a bank that asks to wait.
* `LiveList` has one row per change. A change is committed, then published to those who listen; the
  layout's `EventSource` reconnects, and the page reads its rows again, with answers that may overtake
  each other or belong to another filter.

### Settlement and Invoicing

* `pendingBal[e]` and `availableBal[e]` say how often the amount of credit `e` is counted in each
  balance. The code only increments and decrements by the amount of a row, so the two functions
  determine the numbers in `client_balances`, and no amount has to be chosen.
* A worker's `batch` and a correction's `wrongEntries` are the result of a `SELECT` that is still
  to be worked off; a row is one transaction. A failed transaction drops the row from the batch, a
  restart drops the batch.
* The correction reads the clients first, then their rows: two actions, with plan changes between.
* `contended` is a history: the rows that were in two selections at once.
* `Invoicing`: a request reads the month's sum and the number of open invoices in two queries and
  then creates. `LimitsHold` says how far requests that overlap can go beyond both limits.

Left out: the amounts, settlements by reconciliation, debits of withdrawals.

### Withdrawal, Kyc and Payouts

* `request`: creating handlers, `checked` once the checks have passed and `debited` once the
  transaction has; then the job is queued or not (`autoProcess` off, or the process dies).
* `worker`: the flip worker with concurrency 1. Its phases are the writes of the handler: row read,
  row `processing`, Flip has accepted, handler over. `Crash` may hit any of them; BullMQ then puts
  the job back in front, `MaxStalledCount` times.
* `RunFails` covers an error of token, challenge, PIN or transfer, and after `Transfer` an answer
  that is lost or has no id: the row becomes `failed` and the money has left.
* `transfers[w]`: the transfers Flip has accepted for `w`; Flip ends each in its own time.
* `batch`: what the status worker has selected; each check asks Flip and writes by id.
* `calls`: the admin's rejection and verification between read and write. `touched` is a history:
  withdrawals an admin created or acted upon, or whose `failed` row was run again.
* `Payouts` has what precedes the row: the one-time token that is read, checked against a password
  and deleted in steps of their own, the count of wrong passwords and its lock, the second look for
  an open withdrawal, the admin's own creation, and the opt-out that closes an account. What becomes of
  the row is any of the statuses `Withdrawal` allows.
* `Kyc`: a submission reads the row, uploads two pictures over those of the earlier one, and writes
  the row; a review reads and writes. `mixed` is a history of reviews that overlapped.

Left out: fees, the balance in `Payouts`.

### Checkout

* `request`: the `select-channel` handlers. `stage` is where `assignUniqueCodeWithRetry` stands: trying
  `SET NX` (`locking`, with the number of tries), about to read the codes in use and draw
  (`reading`), about to update the invoice (`writing`), about to release and answer (`replying`).
* `guard` is what the handler believes or not about its lock: `none` after the last try or a Redis
  error, `held`, and `lapsed` when `LockExpires` removed the key under it. No guard of an action
  distinguishes `held` and `lapsed`: the code cannot.
* `lock` names the request that set the key; the code uses a random value. A crash leaves the key.
* The draw takes any free code if there is one. The code gives up after 100 draws, so this
  is exact only if a free code is found in 100; with an exhausted range a repeated code is written.
* `told` is what the customer's page shows. `loose` and `doubled` are histories: invoices whose code
  the lock did not protect, and invoices with two handlers at once; they bound what is claimed.
* `Close` stands for payment, cancellation and expiry; `ConfirmWrite` revives a closed row, as
  in the code.

Left out: which channel the round robin takes (any), the deadline.

### Deposit and Disbursement

* `account` is the client's row of `disbursement_balances`, with its totals. `Deposit` has everything
  that increases it, `Disbursement` EXTENDS `Deposit` and adds what else changes it; its `Next` takes a
  step of `DepositNext` or one of its own.
* `handler`: deposit handlers between their read and their write; `checking`: deposits the status worker
  has selected. Both write by id. `contended` is a history: deposits ever in two of these hands at once.
* `topup` is the status at Flip; a `CancelAtFlip` may not happen, as the code ignores its failure.
* The status worker asks about a deposit at the endpoint for transfers out. What that answers for the
  id of a top-up is Flip's; `WorkerSees` lets it know (checked, the stronger rival) or fail each time.
* `request`: handlers that debit, after the balance check (`transfer`, `retry`, `move`) and after the
  transaction (`debited`), when the job is still to be added or lost.
* `worker` is the flip worker, as in `Withdrawal`, but a failed run refunds at once (`RunFails`) and
  both `pending` and `failed` rows are run. `Transfer` uses one idempotency key for every attempt, so
  Flip may answer with an earlier transfer: `trx` is any of them.
* `charged` counts debits minus refunds, `loose` is a history: disbursements in two hands at once, those
  run although refunded, and those whose run failed after Flip had accepted.
* `old` says that `processed_at` is more than 24 hours ago: the status worker looks no further.

Left out: the age of deposits (the last open one may be old at any time), amounts, the deposit an
admin books by hand, withdrawals from the balance a transfer-in takes.

### The dashboard around money

* `DepositDialog`: the component stays mounted while it is closed. `polls` are the intervals that run,
  `interval` the one it remembers, `cleanup` the one an effect would clear; `crossed` is a history of
  polls that outlived the form they were started from.
* `TransferForm`: four forms that look up an account's owner, with timers, checks under way and, for
  the withdrawal, the one-time token. A name is that of its account, so "the name is right" is
  `name = account`; `stray` is a history of answers about an account typed before.
* `FlipWizard`: the steps of the admin's login at Flip. A code earns a token that waits in Redis
  under the admin's id whatever becomes of the wizard; Enter keys send a request again.

### Billing and Webhooks

* Time in `Billing` is counted in months; the free plan's period ends in `Never`. A payment's
  activation, a downgrade and the sweep are series of writes with anything in between. `owed` is what was
  paid for, `crossed` a history: a series failed, or two overlapped.
* A job of `Webhooks` walks the endpoints it has read; one that fails ends the attempt unless it is the
  last. Requests create, patch, wipe the logs of and remove endpoints meanwhile. `missing` is a history
  of logs that were not written or were wiped.

### Channels and Scraping

* A request in `Channels` is the sequence of its writes (`todo`); none depends on what was read.
  Credentials are versions, those in `Right` are the bank's. `cmd` is the one Redis key for commands.
* `poll` is the scheduler within its loop, with what it read of the channel at the start. `job[j].at`
  is the await a job's handler is in, `hand` what it holds there. `session` is the version of the
  credentials whatever is kept logged in was logged in with.
* `verdicts` counts wrong passwords heard since the channel was last switched on; `piled`
  is a history: a job was added although another waited, which the duplicate check cannot see.
* The bank's scraper is one step with the outcomes it can return.

### What the scraper keeps

* `BrowserPool`: a call is in one await (`at`); what runs between two awaits is one action. `victim` is
  the entry it closes, `after` what it goes on with. Browsers are numbered as launched; `owner`,
  `overlapped` and `late` are histories.
* `BankSession`: GoPay, BRI and QRIS BCA over one Redis key per channel (and one for test logins). A
  token is a number, `owner[t]` the credentials it was issued for, `dead` those the bank refuses.
* `KlikBca`: attempts, log-ins and dialogs of one scrape. A dialog is heard in time, late (between two
  attempts) or never.

### Accounts and the provider

* `Accounts`: `request` is a handler between two of its awaits. A Redis that is down answers as the
  API's plugin does: nothing found, every write "OK", every count 0. `excused` is a history of that,
  of handlers that died, and of sign-ins that overlap to the end.
* `ProviderSession`: each process holds what it read (`call`) and writes by id. `spent` are tokens Flip
  has exchanged. `mixed` is a history of rows composed by hand or written from an old read, `lost` of
  tokens that were issued and not stored.
* `Reconciliation`: execute reads, opens a transaction, reads again and writes the ledger row, the
  balance and an audit row with a unique key. Prelaunch and stale thresholds are choices.

### Pages

* `PaymentPage` reads the invoice once and is told the rest: by the stream (`stream`, with the API's
  end of it, and the deadline that end read), by its countdown, and by two answers that may be late.
* `BrowserSession`: `token` lives in a tab, `cookie` in the browser; a request carries those of the
  moment it is sent (`with`, `cookie`), and its answer sets or clears the cookie when it arrives. A
  tab that acts as a client has a token of its own.
* `OwnChannels`: adding reads the plan with the client, then the number of channels, then duplicates,
  then writes. `waits` says which invoice waits on a channel. `excuse` names what nothing guards against.

## 3. Runs

| Run | Instance | Properties |
|---|---|---|
| `matching_serial` | 2 invoices (one `SUB-`), 2 mutations of one amount, 1 channel, 2 attempts, 1 handler, nothing fails but an activation | `EachMutationPaysOnce`, `NoMutationStranded`, `JobsComplete` |
| `matching_races` | 2 invoices, 1 mutation, 2 amounts, 2 handlers, every fault, 1 restart, match by hand; 2 confirmations on a channel with 2 jobs and intervals 1, 2 and 3; 3 pages, 2 changes, 2 filters, 2 reads | `EffectsFollowPayment`, `LinkIsLastPayment`, `PromptIsKept`, `ListTells` |
| `settlement_overlap` | 2 clients, 2 credits, 2 workers, 1 correction; 4 invoices, 2 requests | `BalancesExplained`, `LimitsHold`, `DueIsSettled`, `PromiseSpec` (implements `CreditLifecycle`) |
| `withdrawal_once` | 2 withdrawals, funds for one, 1 creating handler, 1 restart, any number of days; or 1 with an admin, 2 runs | `CoveredOnceADay`, `TransferredOnce`, `StatusTells`, `TransferResolved` |
| `disbursement_account` | 2 deposits with 2 handlers; 1 disbursement, 1 handler, 1 retry, 1 restart, 1 verification; both dialogs, all four forms with 2 accounts, the wizard with 2 accounts and 2 requests | `AccountAdds`, `BalanceCovered`, `CreditedAsPaid`, `TransfersExplained`, `DialogsTell`, `WizardTells` |
| `scraping_channel` | 1 channel, right and wrong credentials, 1 request, 2 jobs, threshold 2, 1 restart or failed poll | `BreakerHolds`, `SessionMatchesCredentials`, `ActiveIsScraped` |
| `plans_and_events` | 2 paid months, 2 requests, 2 months, 1 failure; 2 endpoints, 2 attempts, 1 stall, 1 request, 1 failure | `SubscriptionAgrees`, `DeliveryIsLogged`, `OverdueEnds`, `ListenersAreServed` |
| `banks_side_by_side` | 2 channels and 1 test login over a pool of 1, 2 calls, 3 browsers; 3 kinds of bank, 2 scrapes, 2 tokens; one BCA scrape after the other | `PoolExplained`, `KeptIsGood`, `ScrapeExplained` |
| `accounts_and_payouts` | 2 submissions, 2 reviews, 2 requests, 2 withdrawals, 2 tokens, lock at 2; 2 handlers, 1 link, 2 passwords, lock at 3; 2 accounts at Flip, 2 workers, 1 call, 1 activation, 3 tokens; 2 invoices (one of the platform), 2 executes, 1 key of the caller | `ApprovalStands`, `OpenedOnce`, `SecretsHold`, `SessionUsable`, `CreditedOnceByFix` |
| `pages` | 2 invoices of one amount, 2 requests, 1 channel, 2 codes, 2 tries; link and window of 2, clock to 4; 2 tabs, 2 people, 2 sign-ins; 2 clients, 2 channels, 2 numbers | `CodesStand`, `PageTells`, `ActsAsShown`, `ChannelsHold` |
| `expired_while_open` | one page | counterexample to `ExpiredIsOver` |
| `confirmed_waits` | 2 invoices on one channel | counterexample to `ConfirmedIsPrompt` |

Why the bounds are enough. Two invoices and one amount are the smallest instance in which a match
has a choice; two mutations the smallest in which two jobs compete for one invoice. One pending
handler already races every job, and two race each other. Two attempts separate "first" from "last"
in both counters. One restart lets a job run again after any of its steps. Two selections of one credit
need two workers, or a worker and the correction; two credits of two clients let one plan change while
the other's rows are in flight. Two withdrawals with funds for one make a refund of the first decide
whether the second can be paid; they also make "once a day" meaningful. Two requests of `Checkout` are
a holder of the lock and a rival; a slot is used again, so a late release meets the lock of a third.
Two tries separate "again" from "go on without"; two codes let two invoices differ or exhaust the
range. Two handlers are needed to contend for a deposit, two deposits to expire one and create the
next. Two invoices with two requests fill `MaxPending` once over and beyond. Intervals 1, 2 and 3
keep the order of 15 seconds, 5 and 15 minutes: what is postponed is seen to be late, and the
proportion decides nothing. Threshold 2 lets errors add up and be reset; one version of right and one
of wrong credentials make a replacement matter in both directions. A pool of one makes every second
channel an eviction; three launches let one replace another twice. Three tokens of the provider are a
first, its successor and a login. Two tabs are what shares a cookie, two filters what is mistaken
for another.
The properties with an entry in section 5 do not depend on the bounds at all.

Bounds in the guards: `MaxCalls` (handlers pending at once), `MaxRuns` (runs of the flip worker an admin
can cause), `MaxRetries` (of a disbursement, and tries for the lock), `MaxDeposits`, `MaxRequests`,
`MaxJobs`, `MaxFaults`, `MaxTime`, `MaxRows`, `MaxEdits`, `MaxMishaps`, `MaxLaunches`, `MaxTokens`,
`MaxSubmissions`, `MaxIntents`, `MaxPasswords`, `Grants`, `MaxFixes`, `MaxAnswers`, `MaxLoads`, `MaxSignIns`,
`MaxIds`, `MaxPlan`: how often the thing named may happen or exist. Everything else is finite by the code's
own limits.

Deadlock is not checked: every invoice paid or expired and every job ended is a legitimate end, and so
is a disbursement left in `processing` after a crash, or in `pending` when its job was not added.

### Fairness

* Matching: `WF(AddMatchJob)`: the scrape loop adds the job right after it wrote the row.
  `WF(MatchStep)`: BullMQ hands a waiting job to an idle worker, and a handler that does not fail
  goes on. No fairness for customers, merchants, the clock or faults. The liveness properties are
  checked without faults: with a lost job or a failure after the commit, they do not hold.
* Settlement: `WF(Tick)`: the worker schedules its next tick whatever happened in this one
  (`settlementWorker.js:116-119`). `SF(SettleEntry)`: the same row is selected again after every
  failure, and a transaction that can succeed is assumed not to fail every time.
* Withdrawal: `WF(Flip)`: Flip ends every transfer it accepted. `WF(StatusSelect)` and weak fairness
  of working off the batch: the status worker reschedules itself. `SF` of checking a withdrawal: the
  requests about it do not fail for ever. Nothing is assumed of the flip worker or of an admin.
* Scraping: the scheduler polls, BullMQ serves each job, and time passes (a cooldown ends, a scrape
  becomes due). Nothing is assumed of requests, failures, or of what the bank answers.
* Plans: the sweep is repeated by the scheduler's timer. The delivery job is served by its worker,
  whose failures are bounded; nothing is assumed of endpoints or of the client.

All other runs check safety only.

## 4. What the program does not do

Two runs refute a statement of the sources, and are expected to:

* `ExpiredIsOver` (`pay.js:626`, 'Auto-close saat invoice expired'): the stream's timer is set from the
  deadline read when it opened, choosing a method sets a later one, and the page is told that the
  invoice expired while it can still be paid.
* `ConfirmedIsPrompt` (`scheduler.js:165`, `pay.js:529`): the cancellation of another invoice of the channel
  counts only pending ones and puts the next scrape five minutes later, although a customer has
  confirmed.

The following are stated in the modules too, and TLC finds each violated when it is put in the place of
the properties of the configuration named; `PROJECT.json` quotes what they refute.

* `PaidNeverCancelled` (`Matching_races.cfg`, `invoices.js:420`): a payment committed between the check of a
  cancellation and its update is overwritten with `cancelled`; the credit and the webhook stay.
* `PendingNeverOverdrawn` (`Settlement_overlap.cfg`): the correction and the worker, or two workers, take
  one credit out of `balance_pending` twice.
* `NeverRefundedTwice` (`Withdrawal_once.cfg`, `flipWorker.js:6`): the status worker refunds a failed transfer
  and leaves `failed`, which an admin may reject and refund again.
* `SentIsCharged` (`Disbursement_account.cfg`, `flipWorker.js:389`): any error after the transfer was requested
  refunds a disbursement whose money may have left, and a crash after a refund sends it uncharged.
* `HeardIsFinal`, `LoginReadsRows` (`KlikBca`, no constants): a refusal heard between two attempts is
  answered with the password again; a scrape that found the session expired reads no rows.
* `FinalStays` (`Expired_while_open.cfg`): a late answer to a confirmation overwrites a final status.
* `VerifiedIsOwner` (`TransferForm`): an answer about an account typed before is shown as verified.

What limits the properties that do hold is stated with them: `EachMutationPaysOnce` needs a worker
that does not fail after its commit, no restart and no match by hand; `AvailableIsLedger` needs one
correction at a time; `PendingIsUnsettled` excludes contended rows; `CoveredOnceADay` needs creations
that do not overlap; `CodesStand` needs a code written under the lock and selections that do not
overlap; `CreditedAsPaid` needs a deposit that is in one hand at a time for "once", and
`TransfersExplained` a disbursement outside `loose`. The history variables named in section 2 do the same
for the others: each names an overlap or a failure the code does not guard against. Further
differences between comments and code are in `PROJECT.json`, among them that the match worker takes a
pending invoice before a confirmed one (`matchWorker.js:34`: an ENUM sorts by declaration order), that
the status worker asks the wrong endpoint about deposits, that jobs with a priority are invisible to
the scheduler's duplicate check, that the flip queue of the API sets no attempts and no prefix, and that
nothing ever queues `invoice.expired` or `invoice.cancelled`.

## 5. Proofs

| Theorem | Statement | Assumes |
|---|---|---|
| `MatchingTypes` | `Spec => []TypeOK` | - |
| `LinkCorrect` | `Spec => []LinkIsLastPayment` | - |
| `EffectsFollow` | `Spec => []EffectsFollowPayment` | - |
| `MutationPaysOnce` | `Spec => []EachMutationPaysOnce` | `NoSecondRun`: no fault after the commit, no stall, no match by hand |
| `NoneStranded` | `Spec => []NoMutationStranded` | `AttemptsAgree`: the row allows no more attempts than the queue (`MaxAttempts <= JobAttempts`), no fault before the commit either |
| `SettlementTypes`, `SettlementConserves`, `LedgerExplainsAvailable`, `PendingExplained`, `SettlementExplained` | the invariants of `Settlement`; the last three together are `BalancesExplained` | - |
| `SettlementKeepsPromise` | `Spec => PromiseSpec` | - |
| `WithdrawalTypes`, `WithdrawalLeavesOnce`, `WithdrawalRefunded`, `WithdrawalPaid`, `WithdrawalStatusTells` | `TypeOK`, `TransferredOnce`, `RefundedWhenFailed`, `ProcessedIsPaid`, and `StatusTells`, which is the last two | - |
| `WithdrawalCovered` | `Spec => []CoveredOnceADay` | `OneRequest`: at most one creating handler |
| `CheckoutTypes`, `CheckoutCodesDiffer`, `CheckoutToldStands`, `CheckoutCodesStand` | `TypeOK`, `CodesDiffer`, `ToldStands`, `CodesStand` | - |
| `DepositCreditedIsPaid`, `DepositCreditedOnce`, `DepositCreditedAsPaid` | `DepositSpec => []CreditedIsPaid`, `[]CreditedOnce`, `[]CreditedAsPaid` | - |
| `DisbursementTypeCorrect`, `DisbursementAccountAdds`, `DisbursementSuccessIsPaid`, `DisbursementChargedAsSent`, `DisbursementTransfersExplained`, `DisbursementCredits` | `TypeOK`, `AccountAdds`, `SuccessIsPaid`, `ChargedAsSent`, `TransfersExplained`, `CreditedAsPaid` | - |
| `DisbursementCovered` | `Spec => []BalanceCovered` | `OneRequest`: at most one handler that debits |
| `PayoutsTypes`, `PayoutsApproval`, `PayoutsOpenedOnce` | `TypeOK`, `ApprovalStands`, `OpenedOnce` | - |
| `ScrapingTypes`, `ScrapingBreakerHolds`, `ScrapingSession` | `TypeOK`, `BreakerHolds`, `SessionMatchesCredentials` | - |
| `ReconciliationTypes`, `ReconciliationCreditsOnce` | `Recon!Spec => []Recon!TypeOK`, `[]CreditedOnceByFix` | - |
| `SubscriptionTypes`, `SubscriptionHolds` | `Spec` of `Billing` `=> []TypeOK`, `[]SubscriptionAgrees` | - |
| `WebhookIsLogged` | `Hooks!Spec => []DeliveryIsLogged` | - |
| `FreePlanLimits` | `Free!Spec => []LimitsHold` | - |
| `AccountSecrets`, `ProviderSessionUsable` | `Account!Spec => []SecretsHold`, `Flip!Spec => []SessionUsable` | - |
| `OwnChannelsHold`, `TabsActAsShown`, `PageTellsTruth` | `Own!Spec => []ChannelsHold`, `Browser!Spec => []ActsAsShown`, `Pay!Spec => []PageTells` | - |
| `PromptHolds`, `ListHolds` | `Timing!Spec => []PromptIsKept`, `Lists!Spec => []ListTells` | - |
| `PoolIsExplained`, `BankSessionKept`, `BcaScrapeExplained` | `Pool!Spec => []PoolExplained`, `Bank!Spec => []KeptIsGood`, `Bca!Spec => []ScrapeExplained` | - |
| `DialogsHold`, `WizardHolds` | `Dialog!Spec /\ Form!Spec => []DialogsTell`, `Login!Spec => []WizardTells` | - |

A prefix names the part of the run's module the theorem is about: with it go the constants and
variables that module gives the part, and nothing else of the composition.

"-" means no assumption beyond the conditions inside the invariants and the modules' assumptions on
their constants (`MatchingAssumption`, `SettlementAssumption`, `WithdrawalAssumption`, `CheckoutAssumption`,
`DepositAssumption`, `DisbursementAssumption`, `KycAssumption`, `PayoutsAssumption`, `ChannelAssumption`,
`ScrapingAssumption`, `BillingAssumption`; for INSTANCEd parts, in the run's module: `LimitsAssumption`,
`DeliveryAssumption`, `AccountsAssumption`, `FlipAssumption`, `BrowserAssumption`, `PageAssumption`,
`OwnAssumption`, `TimingAssumption`, `BankAssumption`), which TLC evaluates in every run of the module. They say that
counts, intervals and limits are numbers, that a value meaning "none" is none of the things it stands
beside, that what is counted (requests, invoices, handlers) is finite, and, of the free plan, that one
invoice fits into a month's limit, as with the code's constants. The theorems are about the
specifications without the cuts of section 2.

Every inductive invariant was a property of a run before it was proved. The largest state spaces they
held in: `MatchInv` 6,809,369 states, `TimingInv` 4,886,715, `TabInv` 4,096,630, `DialogInv`, `FormInv` and
`WizardInv` together 2,583,489, `KeptInv`, `PoolInv` and `ScrapeInv` together 4,179,598, `ListInv` 939,238, `AgreeInv` 797,020, `OwnInv` 453,840, `PageInv` 144,266.

**Matching.** `TypeOK` alone is not inductive: a job that is to be restarted or thrown must not have
used up its attempts, and a run that has committed must hold an invoice; `TypeInv` adds this.
`LinkIsLastPayment` is inductive relative to it, because link and payment are one write (`Pay`).
`EffectsFollowPayment` needs to know how many announcements a run still owes: `EffectsInv` says that
in `committed` there are more payments than announcements, in `announced` more announcements
than activations, and the invoice the run holds is among the former. `MutationPaysOnce` relates the number of payments
to the state of the job: none before `committed`. `NoneStranded` relates `attemptsMade` to the
attempt counter in the row: as long as the job lives they are equal, so they run out together.

**Settlement.** `IInv` strengthens the invariants with: a credit without a row is counted nowhere;
a row that was never contended is in at most one selection, and unsettled while it is in one
(`SelectionsFresh`); with one correction, the rows it holds are `credit_pending`; available is never
negative. The refinement maps a credit to `released` when it is in
the available balance, `held` when only in pending; once available is positive no step decreases it,
so a second settlement of the same row is a stutter of the promise, although it breaks the pending
balance.

**Withdrawal.** The argument for the untouched withdrawals follows one job: `Unstarted` (a row
not created or pending has no transfer and no id), `AtWork` (what the worker's phase implies for its row),
`Selected` (a row the
status worker has selected is still in `processing`, with the same id), `ByHand`
(admin calls and rejections
are about touched rows). From these, `TransferredOnce` and `RefundedWhenFailed` are
preserved: a restarted job finds `processing` and stops. `ProcessedIsPaid` needs only that every
known transfer id names a transfer (`TypeOK`, `TrxKnown`) and that Flip's verdicts are final.
For `WithdrawalCovered`, `Reserved` says that the one handler past its checks still has the money and
the day it saw: nobody else takes either.

**Checkout.** `LockHeld`: a handler that believes rightly in its lock is the one the key names, so no
two of one channel do. `DrawnIsFree`: the code drawn by such a handler is still used by no live
invoice outside `loose`, because every other writer of the channel makes its invoice loose. `OneHandler`:
an invoice outside `doubled` has one handler, and none but that handler changes what was shown.

**Deposit.** `Alone` and `AsRead`: a deposit that was never contended is in one hand at a time, and its
row is as that hand has read it, hence open (or at least not done). So whoever credits it is the first.

**Disbursement.** `AccountAdds` is inductive by itself: every write of the account is a deposit, a debit
or a refund, and each moves balance and totals together (`AddsStep`). `ChargedAsSent` follows from
`AllSound`, which says of every disbursement outside `loose` what its status implies for its charge and
its transfers (`RowSound`), how far the flip worker may be with it (`WorkerSound`), and that at most one
retry, selection or verification holds it, with the row as that has read it (`HandsSound`). The
invariant is needed because two jobs of one disbursement may be queued after a retry: the second finds
the row `processing` and stops, or `failed`, which makes the disbursement loose. The deposits' invariant
is carried along by `DepositsKept`. For `DisbursementCovered`, `Reserved` says that the one handler past its check
still has what it saw, as everybody else only adds to the account (`OthersCover`).

**Payouts.** `ApprovalInv`: until a review overlaps a submission or another review, they are apart
(`Apart`), what is being submitted or reviewed is not approved, and the approval stands. `OpenInv`: until
two creations overlap or a failed row is taken up again, at most one row is open, and a handler past its
last check finds none open, because whoever would create one beside it makes `crossed` true. `TokenInv`: a
token that is stored, or in the hands of a submission, was handed out; a handler of the opt-out holds none; a
token that has opened a row is stored no more and no handler holds it, unless Redis failed to
delete it or two creations overlapped. The two parts of `OpenedOnce` follow.

**Scraping.** `CountInv`: a closed circuit has fewer errors than the threshold, and a worker that is about
to record an error records one below it or opens the circuit; the count is read and written in two
steps, which is why the second half is needed. `OnceInv`: until jobs pile up, there is one job at a
time, and none while the poll adds one (`OneJob`), and what it may hear before the channel is switched off is one verdict
(`HeardOnce`): after it the row is inactive, or the job that heard it is still to write this.

**Reconciliation.** `RepairsPaid`: an invoice that is not paid has no credit, and one a call has previewed is
paid, so that no payment credits it any more. `FoundNone`: what a transaction has found still holds, unless
its key has been used meanwhile (it will abort) or its invoice was credited by an overlapping call.

**What the scraper works with.** `MatchInv` (`ScrapingSession`): a replacement writes the command to log
out before the credentials, and a job works with the credentials of the row, unless the two overlap
(`Crossing`, which excuses). So a session is of the row's credentials or the command that ends it waits;
the invariant says so of the middle of a replacement too, when one of its writes is still to be done.

**Intervals.** `TimingInv` (`PromptHolds`): nobody counts as waiting during a scrape or before a
confirmation has written all it writes (`NoneWaits`). While nothing excuses, the ticks a confirmed
customer has waited and those left until `next` are within the shortest interval, unless a job is there or
about to be (`AllShort`, `WaitIsShort`); of a poll that found the channel not due, or got through, it says
that one tick at least is left.

**Lists.** `ListInv` (`ListHolds`): a change the page does not show is on its way to it: not published, an
event, part of a read or before one that is still to read, or the stream is about to open again, which
makes the page read (`NoneIsLost`); the view shown is the one chosen or a read of that is under way
(`ViewIsAsked`). Each holds unless `excuse` (`why` in `MCPayments`) names what went wrong.

**Limits.** `SalesInv` (`FreePlanLimits`) counts what may still be paid without another look at the
month: open invoices, requests that are allowed, and requests the limit will not stop because of what they
have read. Their number is bounded by `MaxPending` and the number of requests; the sum paid stays within
the bound when all of them are paid, if need be with one amount as it is and the rest as the largest.

**Subscriptions.** `AgreeInv` (`SubscriptionHolds`): until series of writes cross or one fails, one is under
way at most (`Apart`). Between them exactly one row is active and ends when what was paid ends
(`Settled`); within one the invariant says which of its writes are done (`Agrees`), so that a moment
without an active row is one in which the series at work is about to create it.

**Webhooks.** `LogInv` (`WebhookIsLogged`): an endpoint that answered well has a log of it, or its answer is
the one in the worker's hands, or the history `missing` names it.

**Accounts.** `AccountInv` (`AccountSecrets`): guesses are bounded by the wrong passwords counted and the
handlers between comparison and count, and the count by the handlers that are about to lock
(`Counting`). A link that one handler at a time follows has set no password before that handler does, and is
spent, or about to be, afterwards (`Alone`).

**Provider session.** `FlipInv` (`ProviderSessionUsable`): a token issued and not stored is in one hand: no
row has it, no process has read it, Flip has not exchanged it (`InOneHand`), and it is of the account of the
token it was exchanged for (`SameAccount`). Hence what a save writes is unspent.

**Channels of a client.** `OwnInv` (`OwnChannelsHold`): while channels are added one after the other
(`OneAdds`), whoever is past the count still has room (`RoomIsLeft`), and past the look for duplicates still
has the number to itself (`NumberIsFree`); who deletes a channel is alone with it and finds no invoice on it
(`DeletedRests`).

**Tabs.** `TabInv` (`TabsActAsShown`): of a tab that nothing interfered with, the account shown is that of its
token, and the cookie is no one else's; the same holds of the account it is about to show and of a
cookie it is exchanging (`OneAccount`). It asks for nothing while its session is restored (`OneAsks`).

**The payment page.** `PageInv` (`PageTellsTruth`): what is published, on its way or shown was the invoice's
status (`OnlyWhatWas`); a page that knows of a choice knows a deadline that is not too early (`DeadlineKnown`);
and one that missed nothing has been told of an end or is still to be told (`EndIsComing`).

**Dialogs, forms, wizard.** `DialogInv`: unless an older opening's poll has outlived it, polls and answers of
an opening are about one deposit (`PollsOfOne`), and what is shown as done is done and stays so
(`DoneStays`); one creation or confirmation is under way at a time, whichever opening it is of (`OneLoads`).
`FormInv`: a name is that of the typed account, a stray answer brought it, or the admin's form is still to
ask (`NameIsOwn`). Both together are `DialogsHold`. `WizardInv` (`WizardHolds`): while nothing excuses, one
request is under way at most, and what it says and will write is what the wizard shows (`OneSays`).

Three proofs changed the model. A CASE of TLA+ whose arms overlap has no order, so
`Interval` (`ScrapeTiming`) and `Screen` (`PaymentPage`), which model chains of `if ... return`, are IF/ELSE;
and which deposit a dialog resumes is a choice among the rows that are newest instead of a CHOOSE.
The runs find the same states as before.

**The browser pool.** `PoolInv` (`PoolIsExplained`): `OneTouches` says that one call at a time is about to write
the entry of an id that is not `overlapped`, so it finds the entry as it has left it (`EntryStays`: empty while it
makes room, the browser it read while it closes one). Hence no entry is overwritten or dropped unseen, and every
running browser is in the pool or about to be entered (`Known`). For the deployment, `DeployAlone`: with nothing
else going on, what is still in the pool is on the list of the call that shuts it down.

**Sessions at a bank.** `KeptInv` (`BankSessionKept`): the kept token, and those in the hands of the
channel's scrapes, are of the present credentials, and so are the logins still to come (`OfConfig`), which holds
only because tokens of test logins never get into the channel's key (`KeysApart`). What was refused is kept no
longer, and who is about to write a session back holds none that was (`RefusedGone`): a scrape alone with
its key deletes before anyone else can write. `ScrapeKeeps` states what a step of a scrape has to see to;
each step of the scrapers is then shown to do so.

**KlikBCA.** `ScrapeInv` (`BcaScrapeExplained`): who may type has no open session it could know of (`MayType`),
an open session shows in the page (`SessionShows`), a dialog heard in time ends the scrape (`HeardEnds`), and who
logs in although the pool passed it as logged in has found the session expired or met a failure (`AgainOrHurt`).

Four proofs changed the model. A CASE of TLA+ whose arms overlap has no order, so
`Interval` (`ScrapeTiming`) and `Screen` (`PaymentPage`), which model chains of `if ... return`, are IF/ELSE;
which deposit a dialog resumes, and which browser the pool evicts, is a choice among those that qualify
instead of a CHOOSE. The runs find the same states as before.

**Only model-checked.** The two counterexamples; and every liveness property (`JobsComplete`, `DueIsSettled`,
`TransferResolved`, `ActiveIsScraped`, `OverdueEnds`, `ListenersAreServed`), as liveness under
fairness is beyond the prover. Every invariant a passing run checks is proved.

## 6. Not modelled

* Pure calculations (fee tiers, scrape intervals, QRIS checksum, transaction hash, encryption): functions
  without state; a model would repeat their arithmetic, and no property here depends on its values.
  Amounts are units or symbols throughout; they are DECIMAL(15, 2), so overflow is out of reach.
* Selectors and parsing of the bank sites; what a scrape finds is any set of mutations.
* Pages that load a list and send one request; layout; e-mail, object storage, response format.
* The QRIS channel the round robin takes (any), lists and profile handlers, the admin's own channels,
  the deposit an admin books by hand, the suspension of a client outside of the opt-out, the balance and
  bank list shown of the provider. They are single writes or hold no state another decision reads.
* Rate limits by address, cryptography, the contents of forms.

## 7. What could follow

1. The withdrawals and the transfer-in that share `balance_available`, in one module; liveness of deposits and
   disbursements.
2. `Matching` with `Checkout` in one behaviour: the codes chosen under the lock as the charges matched.
3. `Scraping` with `ScrapeTiming`: the circuit's cooldown against a confirmation's interval.
