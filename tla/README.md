# dnb-backend: TLA+ models, checks and proofs

The backend sells courses and books for Stellar payments, credits educators and
pays them out, refunds buyers, moves donations, gifts and scholarships, and
tells other systems about it through webhooks. Around the money it keeps
accounts, courses and their progress, reviews, groups, spaces and notifications.
It runs as several identical Node.js processes over one MongoDB replica set and
a Redis, beside one or more ingestion workers; the Stellar network is a second,
independent store of what happened. This directory holds the specifications of
those parts: TLA+ modules translated from the code, TLC configurations that
check them on small instances, and TLAPS proofs of what matters most. Paths
below are relative to the repository root (the application's own code is under
`src/`, the repositories under `mongo/`, the contracts under `contracts/`).

- `<Component>.tla` models a component: state, actions, properties. It ends with
  what is checked, and with what is *not kept* (section 5).
- `MC<Name>.tla` is what TLC runs. `MCWorkers`, `MCServices`, `MCNetwork`,
  `MCAccounts` and `MCPlatform` are unions: the initial state picks one part, a
  behaviour follows that part, and the variables of the others stay where they are.
  `Purchases`, `Payouts`, `Pledges` and `WebhookDelivery` are run as they stand.
- `<Name>Proofs.tla` holds theorems and proofs: `PurchasesProofs`, `AccountsProofs`, and
  `OutgoingProofs` for webhooks, pledges and payouts. The unions `MCWorkers`,
  `MCServices`, `MCNetwork` and `MCPlatform` carry theirs at their end, and `Sums` proves
  what a sum over a finite set is worth (section 7).
- `<run>.cfg` is one run of TLC. The runs `bug_unserved` and `bug_unpayable` are
  expected to *fail*: they check statements of the documentation that the code
  does not keep.
- `PROJECT.json` is the index: components, runs, the source lines behind every
  definition ("map"), findings, hazards, theorems, and for each property
  mutated definitions ("mutants", the `Mut...` operators) that break it.

## 1. Inventory

### Money

| Component | State | Operations | Interacts with |
|---|---|---|---|
| Purchases (`paymentController`, `Transaction`, `handlers`) | purchase rows: status, hash, expiry; purchased items | initialize, submit (in a session), cancel, TTL reaper, `verifyPaymentOnChain` job, worker's promotion | job queue, Horizon, earnings ledger, ingestion |
| Amounts and signed payments (`stellarService`, `config/assets`) | one checkout's price, currency, destination and signed operations | quote, preflight, initialize (three ways), validate, sponsor's whitelist, verify, reverse payment | purchases, donations, refunds, sponsorship |
| Fee sponsorship (`feeSponsorService`) | a spend document per day, the sponsor's float | check caps, wrap, submit, record, status | submits of purchases and donations |
| Horizon client (`horizonClient`) | a circuit breaker per endpoint | call, retry, fail over, look up, send again | everything that talks to Stellar |
| Job queue (`jobs/queue`) | job documents: status, attempts, `runAt` | enqueue, claim, complete, retry, dead letter, recovery at boot, drain | every handler, `server.js` shutdown |
| Payment ingestion (`paymentIngestionWorker`, `reconciliationService`) | cursor per account, unreconciled payments | fetch a page, reconcile each payment, move the cursor | Horizon, purchases, donations |
| Payouts (`payoutService`) | balances, ledger entries, batches | record a sale, build, submit chunks, settle, audit | purchases (credits), Horizon |
| Refunds (`refundController`) | refund documents, library, enrolments | request, build, reject, dispute, resolve, submit | purchases, Horizon |
| Gifts (`giftController`, `claimableBalanceService`) | gift documents | create, submit, list, claim, reclaim | claimable balances on chain |
| Pledges and donations (`pledgeScheduler`, `pledgeController`, `donationController`, `pledgeService`) | pledges, cycles, donations, statistics | scheduler tick, pay a cycle, pause/resume/cancel, booking | job queue, ingestion, Horizon |
| Scholarship escrow contract (Rust) | totals, donors, milestones, claims | init, fund, approve, refund, TTL maintenance | a token contract, the ledger's clock |
| Scholarship campaign (`scholarshipController`) | milestone reports, contribution rows | build, submit, poll, report, review, release, list | the escrow contract, Horizon |
| Scholarship rounds (`scholarshipApplicationController`) | applications, reviews | submit, review, decide | none |
| Loyalty points and revenue sharing (Rust, `loyaltyService`) | balances, rates, totals; splits and totals | mint, redeem, transfer, earn; split, distribute | a token contract, signed invocations |
| SEP-24 anchors (`anchorController`, `anchorPoller`, `anchorService`) | a record per flow; Redis: token, `stellar.toml` | challenge, sign in, start, refresh, poll | the anchor over HTTP |
| On-ramp (`onrampController`) | a record per fiat purchase | create, apply a webhook | MoonPay |
| Reports and exports (`reportsService`, `exportService`, statistics of the repositories) | none of its own | report, summary, compare, export | transactions, refunds, ledger |
| Webhooks (`deliveryWorker`, `webhookController`) | deliveries, endpoints | emit, claim, post, retry, dead-letter, disable, redeliver, patch | consumers over HTTP |
| Idempotency keys (`idempotency.js`) | one record per user, key and endpoint | insert, replay, conflict, complete, delete, TTL | every handler behind it |

### People and content

| Component | State | Operations | Interacts with |
|---|---|---|---|
| Accounts and sessions (`authController`, `twoFactorCrypto`) | the user's row, pending registration, refresh sessions | register, confirm, login, lock, reset, change, two factors, rotate, revoke, Google | mail, IP blocking |
| IP blocking (`fail2ban.service`) | four Redis keys per address | record a failure, block, check, pardon | sign-in, administrators |
| Response cache (`utils/cache`, `middlewares/cache`) | an entry per key | hit, miss, store, invalidate | the read routes |
| Educator verification | applications, a flag of the user | draft, submit, review, resubmit, revoke | accounts |
| Progress (`quiz.service`, `analyticsController`, `certificate`, `badge`, `gamification`) | progress rows, certificates, badges, points | attempt, mark, award | enrolment |
| Enrolment and bundles | lists in course and user, progress rows | enrol, take a free course, buy a bundle | purchases, progress |
| Courses, books and their figures | a course, a book with uploads, their statistics | publish, edit, view, buy a book, list, count | enrolment, progress |
| Reviews, reels, moderation | arrays inside one document | add, edit, delete; react, duet, flag, remove | ownership |
| Reading groups, streaks | memberships; a row per learner | join, invite, act; record, freeze, daily job | none |
| Follows, bookmarks, polls, wallets, highlights, progress in books, categories | small documents | check, then write | courses, users |
| Spaces, recordings, quizzes, preferences, profiles | one document each | load, change, save | Cloudinary, courses |
| Notifications (`notificationController`) | notifications, open streams, a Redis channel | create, publish, deliver, mark, bulk job | job queue |
| Repositories and pages (`mongo/base`, `mongo/repositories`, `mongo/utils`) | whatever collection they stand for | write methods, finders, queries built, page and cursor reads | every controller that uses them |
| Search (`searchService`, `search-analytics-service`) | the log of searches | pages of results, reports on searches | the listed collections |
| Wallet sign-in (`sep10Service`) | challenges issued and used, in the process | issue, verify, forget | accounts, streaks |
| Sockets (`paymentGateway`, `paymentNotifier`) | who is in which room | connect, follow a payment, tell | purchases |

The modules fit together along the purchase. `Amounts` says what a checkout
asks and what the ledger must show for it; `FeeSponsor` and `HorizonClient` stand
between a submit and the network. `Purchases` refines `Settlement`, the abstract
statement of what a checkout promises; it contains the claims, retries and boots
of `JobQueue` as far as one job needs them, the balance update that `Payouts`
studies with the payouts, and the single writes of `reconcilePayment` that
`Ingestion` takes as one step. `Pledges` contains the donation's own path through
submit, job and worker. `Campaign` keeps of `EscrowContract` the flag its
handlers read. `Enrolment` grants what `Progress` then counts, and `Catalogue` and
`FinancialReports` read what the others wrote.

### What is hard here

1. **Load, await, save.** Nearly every handler loads a Mongoose document, awaits
   the network and saves what it decided. Mongoose writes changed fields by
   document id, so the last writer wins unless the save carries a condition, a
   unique index stands in the way, a session's write conflict does, or an array
   was replaced (then the version of the document is part of the filter; a plain
   push is not guarded). The modules follow these rules write by write.
2. **Two stores.** A payment may be applied although the submission timed out,
   and a confirmed payment may not be written down because the process died.
3. **Several writers.** Request, job, worker and TTL reaper all decide a
   purchase row; several replicas run the same pollers and schedulers.
4. **Locks and caches by time.** Webhook claims, the pledge scheduler's lock,
   idempotency records, blocks of addresses, cached answers and the anchor's
   `stellar.toml` lapse by the clock, whether or not their user is done.
5. **Money in integers.** Contracts divide by rounding down; a fee is a
   percentage of stroops; payouts are chunked and submitted one after the other.
6. **Several questions, one answer.** A report, a statistic or a list is made of
   several reads while the documents change.

What must hold: a purchase is settled once by one payment of its own; a job is
run by one handler and finishes; no payment is passed over; an educator is paid
what was earned, once; a refund takes the item away only against money; a gift's
money and item go to the same person; no pledge cycle is skipped or paid without
a payment; contracts neither lose nor create money and lock nobody out; a milestone
is paid only for a report that was approved; a session, a badge, a certificate,
a block or a membership is there because somebody earned it; what one user wrote
is not lost by what another did at the same time; figures of one moment agree.

The hazard list in `PROJECT.json` names each such place with the line where it
bites and the properties aimed at it.

## 2. Plan

Done, in this order: Purchases with Settlement and its proofs, JobQueue with
proofs, EscrowContract with proofs, Payouts, Idempotency, ScholarshipRound,
WebhookDelivery, Refunds, Ingestion, Gifts, Pledges; then HorizonClient,
FeeSponsor, Amounts, Campaign, Onramp, Anchors, Loyalty, RevenueSharing, Accounts,
IpBlocking, ResponseCache, EducatorVerification, Progress, Enrolment, Reviews,
Reels, ReadingGroups, Streaks, Records, Community, Paging, Notifications,
FinancialReports, Catalogue, Rooms.

Proved since: `Purchases` (its refinement of `Settlement` included),
`WebhookDelivery`, `Pledges`, `Payouts`, `Accounts`, `IpBlocking`, `ResponseCache`,
`EducatorVerification`, `Refunds`, `Idempotency`, `ScholarshipRound`, `Anchors`,
`Ingestion`, `Gifts`, `Loyalty`, `RevenueSharing`, `HorizonClient`, `FeeSponsor`,
`Campaign`, `Reviews`, `Reels`, `Progress`, `Streaks`, `Enrolment`,
`ReadingGroups`, `Records`, `Community`, `Notifications`, `Paging`, `Rooms`, `Amounts`,
`Onramp` and the requests of `Catalogue`, beside `JobQueue` and the whole of
`EscrowContract` (section 7).

Next, most important first:

1. A composition of `Payouts` with the crediting of `Purchases`, several pledges per
   scheduler, and `Campaign` over the whole of `EscrowContract`.
2. Text search and its ranking, hashtags and suggestions.

## 3. The models

### Purchases and Settlement

State: `row` is the Transaction collection (a document is its status and hash),
`chain` what became of each signed payment, `session` the MongoDB transaction a
request has open, `job` and `proc` the job document and its executions (the
worker is a `proc` too), `sales`, `owed` and `grants` the books.

`OpenInitialize`/`CommitInitialize` are `initializePayment`: the snapshot's
duplicate check and the insert that commits later. `OpenSubmit`, `RejectXdr`,
`MarkSubmitted`, `SendToHorizon`, `HorizonRejects`/`HorizonAccepts` and then
`RefuteInSession`, `DeferInSession` or `ConfirmInSession` are the stages of
`submitPayment`; its session sees its own snapshot, and its first write makes
other writers of the row wait or abort (`Locked`). `CancelTransaction` is the
cancel endpoint, `ReapPending` the TTL index. The job runs
`ClaimJob` → `JobRetries` | `JobFailsRow` | `ConfirmRow` → `CheckLedger` →
`ReadBalance` → `SaveBalance` → `SaveLedger` → `GrantAccess` → `CompleteJob`,
one database write per action; the worker joins at `MatchPayment`. `Crash`,
`JobThrows` and `BootReset` are what may happen between any two of them. The
network applies a payment, rejects it for its sequence number, or lets it
expire, independently of what Horizon answered.

`Settlement` is the abstract view: orders are opened, wait, and are paid by one
payment of their own or closed; each payment is credited and granted once.

Abstracted: one buyer, one item, one educator, amounts of one; receipts, webhooks.

### Amounts, FeeSponsor, HorizonClient

`Amounts` follows one checkout from the price to the verification of what landed,
in stroops with `Decimals` digits: the fee split, the three ways to initialize,
the quote with its slippage, the preflight, the validation of an unsponsored
transaction, the sponsor's whitelist, the comparison of the ledger with the row,
and the reverse payment. What a wallet may sign instead of what was built is one
change of each kind.

`FeeSponsor` has the caps, read before a submission, and the spend, added after it in
the same MongoDB transaction; the document of a day is a version, so that of two
transactions which wrote it one meets a conflict and is retried. The fee ceiling is
computed with the code's integer division.

`HorizonClient` has a breaker per endpoint and one program counter per call.
Submitting is separate from reading: it is sent again at most once, after a
time-out and a look at the ledger.

### JobQueue, Anchors, Ingestion

`JobQueue`: processes claim due jobs, start a handler, and write its outcome; `Fail`
decides between retry and dead letter, `Elapse` ends a back-off, `Boot` returns
active jobs to the queue, `Drain` and `Exit` are the graceful shutdown (which does
not know of a claim whose handler has not started), `Kill` its time limit, `Crash` a
sudden end. A handler works, enqueues its child (the receipt) and returns, or
throws at any of those points. Which due job a claim takes is left open, which
covers every order of `runAt`. The inline driver is not modelled.

`Anchors`: one deposit, its three statuses in order, the record, the token of a
session and the cached `stellar.toml`. A refresh, of the poller or of a reader, is
claim, ask, save; its three requests may outlast the claim, so two overlap. A save
writes only what differs from the record that was loaded.

`Ingestion`: payments are places in the account's history; their kinds say which
path `reconcilePayment` takes. A page is fetched behind the stored cursor, its
payments are handled in order, and the cursor is moved; a second worker may do the
same at the same time, and a restart forgets the page but not the cursor.

### EscrowContract, Loyalty, RevenueSharing

Every entry point of the contracts that writes storage, with the order of its
checks; an invocation is atomic. Numbers are those of the code with small limits
(`MaxInt` for i128, `MaxCampaign`, `MaxDonors`, `Batch`; `MaxPoints`, `Precision`;
`TotalBps`). The only relation the escrow's code relies on between them, that a
product of two campaign-sized numbers fits, is an assumption (`LimitAssumption`).
Authorization is not modelled: each call is by the address it names. `Loyalty`
includes the invocations that `loyaltyService` builds and the user signs later, so
that they run on rates and balances they were not built for.

### Campaign, ScholarshipRound

`Campaign` follows one milestone: its report, the rows of contributions and
releases, the requests that submit, resubmit and poll them, and the list of reports
that repairs a status from the contract's flag. `ScholarshipRound`: submitting and
reviewing are single conditional writes; deciding loads the application, judges what
it loaded and saves later. The selection rule is the code's, on sums of the four
criteria. The index that allows one selected application per cycle is part of
`Save`.

### Payouts

`balance`, `ledger` and `batch` are the collections, `chain` the chunks on the
network, `req` the submissions. A build reads what is owed one educator after the
other, then freezes recipients, amounts and sequence numbers; a submission sends chunk after chunk, reverts to "built" when one fails,
and settles in one session. Sales are credited meanwhile, in a session or by the
job (read, save, insert), whose save sets the field it added to; `stale` remembers
whose balance such a save wrote over. `practice` is what operators do, which the
code does not enforce: *free* (build and submit at any time), *serial* (one
submission at a time), *careful* (additionally no batch is built while another one
is open and no partly paid batch is abandoned).

### Refunds, Gifts, Pledges, Onramp

In all four a handler is a call with a program counter and what it loaded;
`Lose` ends it at any await (crash, time-out, database error). `Refunds` keeps the
buyer's library with its document version, because whole arrays are saved under
Mongoose's version check, and the partial unique index on active refunds.
`Gifts` keeps the claimable balances and the two notions of expiry, the database's
and the predicate's. `Pledges` counts due dates; the scheduler's tick is taken
apart at its awaits (find lapsed, reset, claim under the lock, upsert the cycle,
notify, save, advance), and every donation carries its submit session, its job
and the booking (`MarkFind`, `MarkCycle`, `LoadStatistics`, `SaveStatistics`).
Calendar arithmetic is left out: the k-th due date is k cadences away. `Onramp`
takes webhooks in any order, late and repeated.

### WebhookDelivery, Idempotency

Times in `WebhookDelivery` are relative and in units of ten seconds: `wait` until
each delivery is due, the age of each loop's clock reading, the time a post takes.
The claim uses that reading, as the code does. Redelivery and patching an endpoint
load first and write later. `Idempotency` is the whole middleware for one key:
insert or collide, look up, run the handler, capture the response, complete or
delete the record by a write nobody waits for, and the client that hangs up.
Switches turn on hang-ups, failing writes, failing handlers and the expiry of
records.

### Accounts, IpBlocking, ResponseCache, EducatorVerification

`Accounts` is the user's row (password, e-mail token, lock, reset, two-factor
secret and recovery codes), the pending registration and the tree of refresh
sessions; a request is a record of how far it got with the document it loaded, and
its save writes the paths it changed. Every time bound is an action that may happen
at any moment. `IpBlocking` interleaves single Redis commands, each of which may
fail. `ResponseCache` keeps one key, readers that store late and writers that list
before they delete. `EducatorVerification` saves what it decided on what it read;
the partial unique index is `Free`.

### Progress, Enrolment, Catalogue, FinancialReports

`Progress`: lessons, percentages, certificates, badges, achievements and points of one
learner, read, computed and written in separate steps; `Whole` is 100 per cent, so
that the rounding of the code is kept. A course is finished at a percentage that rounds
to 100: with fewer than 200 lessons that is every lesson, with 200 or more one may be
missing, and `Finished` says so. `Enrolment`: a course's list, the user's list, her
counter and the progress rows, one save each, with prerequisites and bundles.
`Catalogue` follows a course, a book or the lists: what a request saves of its copy,
and what `courseAnalyticsService`, `contentMetricsService`, the educators' analytics,
the finders of the repositories, recommendations, the dashboard, polls, searches,
comment pages and the completion of a profile compute from the same documents.
`FinancialReports` keeps transactions with their days, and a report as the sequence
of its queries; an aggregation is the set of documents it counted, since what they
add up never changes. Its calendar has months of given lengths, its PDF pages of
given lines, and the CSV escapes the cells that need it.

### Reviews, Reels, ReadingGroups, Streaks, Community, Records, Rooms

Documents several people write. The rule of section 1 decides each save: `Reviews`
and `Reels` keep the version of the document; `Community` has nine small topics
(follow, bookmark, waiting list, poll, wallet, notes, standing, reading, category),
`Records` the documents behind the repositories (balance, sessions, lock, follow,
reactions, notifications), `Rooms` ten more (space, recording, comments and upload of
a reel, quiz, preferences, profile, bundle, sign-in with a wallet, payment sockets). A
behaviour follows one topic. The quizzes of `Rooms` have one question or two; that who
passes at 100 per cent answered everything right holds for fewer than 200, since the
percentage is rounded. `ReadingGroups` and
`Streaks` have a request that checks, then writes; the day may change in between.
A request that ends on a later day than it began sets `last` back to its own day, so
that the day after is counted twice, and saves a `longest` older than the streak; so
`StreakEarned` bounds streaks by the active days only as long as no request was open at
midnight (`crossed`). Freezes are bounded always.

### Paging, Notifications

`Paging` is a reader that asks for page after page, by cursor or by offset, in either
direction, while rows are added, changed and deleted through a repository; `steady` are
the rows that were there all the time at one place. It may be the reader of a search, which
cuts below the last `_id` whatever the sort, or of one of the listings of the controllers
and services, which differ in order, limit and in what they count. A query of
`QueryBuilder` is a record, and `Exec` what it returns; `exists()` is hidden there by the
second method of that name and modelled as such. `Notifications` has servers with their subscriptions
and streams, the publication that may be reported as failed, the fallback, the
restart of a server or of Redis, and the bulk job.

## 4. The runs

| Run | Module | What it asks | Instance |
|---|---|---|---|
| `purchases_restarts` | Purchases | Is a purchase held while its payment is in flight, served unless something fails, and does the flow implement Settlement? | 2 rows, 2 payments, 2 submit requests, 2 jobs of 2 attempts, 2 faults, 2 boots |
| `purchases_ingest` | Purchases | Do request, job and worker together keep hashes unique and permanent, and confirmed rows paid? | 2 rows, 2 payments, 1 request, 1 job, 1 ingestion worker, 1 fault, boots of another replica |
| `workers` | MCWorkers | Is what a loop records so, are finished jobs final, does every job end, does a record reach the anchor's last status, does nothing block behind a payment? | a job and the job it enqueues, 2 restarts; 2 refreshes; 2 loops, 2 payments of 5 kinds, pages of 2, 2 faults |
| `services` | MCServices | Is contract money conserved and shared fairly, nobody locked out? Points and revenue? One recipient per round, one handler per key, whole lists and agreeing figures? | 3 donors, milestones 2 and 5, 2 ledgers, batches of 1; 2 holders; 2 recipients; 2 applications, 4 people, 2 decisions; 4 requests; a course of 3 lessons, 2 learners, 5 books, 2 days |
| `payouts_all` | Payouts | Are entries paid whatever operators do; with careful operators, is the audit exact and nobody over- or underpaid? | 4 sales (one by a job, one settled on chain), 2 educators, 2 batches of up to 2 chunks, 2 submissions |
| `webhooks_all` | WebhookDelivery | One sender, delivered for good, everything ends | 2 loops, 2 deliveries of 1 unit against a lock of 3, 2 attempts, one event: a crash, redelivery, ping or patch |
| `pledges_all` | Pledges | Is no due date skipped, is paid paid, is every cycle closed? | 2 schedulers, 2 cycles of which the donor pays the first, 1 status change, 1 lost process, worker on |
| `network` | MCNetwork | Is a transaction sent at most twice, are the sponsor's caps kept, do amounts add up and what was built verify, are contributions and releases paid; is what a reader asked for complete, and told to every open tab? | 2 endpoints, 2 readers, 1 submission, retry limits 0 to 2; 3 sponsored submissions of 2 users over 2 days; 2 decimals, prices 1, 10 and 99 stroops, fees of 0, 5 and 50 %; 2 releases, 1 contribution, 3 reports; 3 webhooks; 4 rows, 1 write; 2 servers, 2 streams, 2 faults |
| `accounts` | MCAccounts | Is a recovery code used once, a failure counted once, a verified address proved, a rotated session retired; is a block earned, a cached answer fresh, an approval a reviewer's; refunds; the documents of Rooms | 2 overlapping requests of 5 in all, 3 sessions; 3 calls on one address; 2 readers, 2 writers; 2 applications, 3 calls; 2 purchases, 2 refunds; 4 requests on one document |
| `platform` | MCPlatform | Is what a learner has earned, what she was promised hers, what was written kept, do reports agree? | 2 requests at a time in ten parts; 2 courses; 2 gifts; 5 days; 2 transactions over a year's end |
| `bug_unserved` | Purchases | Served, which fails | 1 request, 1 job, 1 crash |
| `bug_unpayable` | MCNetwork | BuiltPays, which fails | as `network` |

The bounds are chosen so that each conflict has its two parties and one more
object to mix them up with: two actors that overlap on one document, a second
document of the same buyer, educator or account, a page shorter than the history,
one crash between any two steps and, where recovery itself can be interrupted, a
second one. Retries are cut to two attempts, which already separates the first
from the last attempt by its outcome. In the contracts and in `Amounts` the numbers
are small but uneven, so that shares leave remainders and fees round both ways; two
decimals show every effect seven do, and the proofs hold for any number of them.
Months of one and two days put the turns of month, quarter and year into a few
steps. Symmetry is used for sets of interchangeable actors, and in no run with a
liveness property.

Parts that share no state are explored by one run, as the sum of their state
spaces and not the product: a variable (`part`, `loop`, `topic`, `about`, `subject`)
is chosen at the start and never changes, and a property says which part it is
about. Parameters that vary inside a run instead of between runs: `payouts_all`
starts with careful or with free operators, `network` with every retry limit.

Each property also has mutants in `PROJECT.json`: variants of one mapped
definition, as a plausible slip would leave it (the `Mut...` operators), under
which the same run fails.

## 5. Known disagreements

The models contain statements that documents, comments or error messages make, or
that a reader would expect, and that the code does not keep. They are defined beside
the others and marked "not kept". `Served` and `BuiltPays` have their runs and their
findings in `PROJECT.json`; the others are reproduced by putting the property alone
into a copy of the configuration of the run named here (as `Part!Property` where the
run is a union), with the changes named, and without symmetry for temporal
properties.

### Money

| Statement | Violated on | What happens |
|---|---|---|
| `Served` (docs/payments.md: on confirmation the buyer gets access) | `bug_unserved` | The process dies between the job's save of "confirmed" and its grant; the retried job returns at the confirmed row. |
| `BuiltPays` (paymentController.js:428, 593, 726) | `bug_unpayable` | The validation of an unsponsored submission accepts only USDC payments; a price in EURC or XLM, or a path payment, is refused although it was signed as built. |
| `OneOpenCheckout` (paymentController.js: a double-click "must not pile up duplicate pending records") | `purchases_restarts` with 2 requests, no jobs, no faults | Two snapshots each find no open checkout. |
| `CreditedOnce` (payoutService.js: "Idempotent per stellarTxHash") | `purchases_ingest`, 1 request, 1 job, 1 worker, no faults | Job and worker both look for the ledger entry before either inserts it; its index is not unique. |
| `OwedMatchesLedger` | `purchases_restarts` with 1 request, 2 jobs, no faults | Two credits read the same balance; one is lost. |
| `ConfirmedStays` | as `CreditedOnce` | The job's stale document saves "failed" over the worker's "confirmed". |
| `RetryingResolves` | fair, 1 job, 1 fault | The job throws on its last attempt and is dead. |
| `PreflightNative` (stellarService.js:420-423) | `network` | A payment in native XLM passes the preflight although balance, reserve and fee together are not covered: each is compared by itself. |
| `LinkIsExpected` | `network` | The SEP-7 link asks one payment of the whole price although the row expects the fee split. |
| `OneProbe` | `network` | A half-open endpoint lets every caller through. |
| `FailedIsAbsent` | `network` | A submission that timed out twice, or whose look-up fails, is reported failed and lands. |
| `PaidWithinCap` (comment near paymentController.js:853) | `network` | The sponsor pays for a submission whose MongoDB transaction is then given up, and nothing is recorded. |
| `ReleasesConfirmed`, `FailedIsFailed` | `network`; with two senders | A status is saved from a row that was loaded before another request resolved it. |
| `CompletedStays` | `network` | An old webhook moves a completed fiat purchase back. |
| `TerminalStays`, `StartedTrusted` | `workers` | A refresh that asked earlier saves later; the issuer is checked against the cached `stellar.toml`, not the published one. |
| `SettledOnce` (payoutService.js: "already processed") | `payouts_all` | Two submissions of one batch both pass the status check and settle. |
| `LedgerIsBalance` (docs/payments.md: the recalculation "rebuilds balances from the ledger") | `payouts_all` | A job saves the owed amount it read before another sale or a payout settled. |
| `ConfirmedIsRefunded` (refundController.js: "atomic revocation") | `accounts` | A failure between the saves of the refund and of the transaction. |
| `PaidHasAccess` | `accounts` | A refund saves the library without an item granted since it was loaded, or the grant's document is the stale one. |
| `OutcomeStands`, `PaidBackOnce` | `accounts` | A call that loaded the refund earlier saves its own status; a second reverse payment follows one whose answer was lost. |
| `OwnBalance` (claimableBalanceService.js: the "REAL claimable-balance id") | `platform` with `Fallback = TRUE` | The fallback takes another balance of the same sender. |
| `NeverStranded` ("strictly complementary") | `platform` | The handlers' expiry date and the network's predicate, which is fixed when the transaction is built, differ: between the two, each refuses whom the other lets. |
| `TakenIsGrantable`, `GrantedOnce` | `platform` | The request ends while its claim is on the way, and after the expiry the handler refuses to repeat it; or the grant was made without the status, and is made again. |
| `ClosedIsFinal` | `platform` | A reader of the gift list saves "expired" from a stale document. |
| `OnePending` | `platform` | Both calls look for a pending gift before either creates one. |
| `PaidIsFinal`, `ConfirmedIsMarked` (docs/payments.md) | `pledges_all` | The scheduler saves "notified" on the cycle it loaded before it was paid; the worker confirms a donation without marking its cycle, and the job returns at the confirmed row. |
| `CancelledIsFinal` | `pledges_all` without scheduler, 2 calls | A resume that loaded the pledge as paused saves "active" after a cancel. |
| `NonePassedOver` (docs/payments.md: "otherwise records an UnreconciledPayment") | `workers` | A payment with a known user's memo and no transaction is only logged; so is one whose handling fails. |
| `SelectedQualifies`, `DecidedOnce` | `services` | A review or another decision lands between the decision's load and its save. |
| `OneSender` | `webhooks_all` with 4 deliveries per drain, `PostTime` 1, `LockTime` 3 | A drain longer than the lock: later claims are already expired by the clock they were taken with. |
| `NeverRequeued` (webhookController.js: "nothing to redeliver") | `webhooks_all` | The request passes its check, the loop delivers, the request resets the delivery. |
| `ExecutedOnce`, `AnswerIsKept` (docs/idempotency.md) | `services` | A client that hangs up deletes the record of a running handler; the write of the answer fails unnoticed. |

### People and content

| Statement | Violated on | What happens |
|---|---|---|
| `OneLive` (authController.js:745) | `accounts` | Two refreshes of one token both find it unused and both rotate. |
| `BlockedIsListed` | `accounts` | Redis fails between the block and the index, or the pruning of a listing that found the address free removes it after a new block. |
| `ErrorsNotCached` | `accounts` | An answer is stored whatever its status is. |
| `ApprovedIsFinal` | `accounts` | A reviewer who read "pending" saves "rejected" after an approval. |
| `MembersStay`, `ReviewAgrees`, `WalletsCounted` | `accounts` | An update of a space saves an older list of people; an edited question has a new id, so a running attempt scores nothing and a review disagrees with the stored score; `withWallet` of `getStatsByRole` counts everybody. |
| `LessonsStay` | `platform` | A request saves the lessons it loaded, without one completed since. |
| `PrerequisitesAlways` (courseController.js:235-237), `OneEntry`, `EnrolledIsBought` | `platform` | A bundle asks for no prerequisites; two enrolments push twice; a failure between two saves. |
| `TotalsMatch`, `OnePerUser` (reviewController.js:42), `EditsStay` | `platform` | A push waits for no version, so totals of an older list are saved, and both requests of one user find no review. |
| `OneReaction`, `RemovedIsFlagged` | `platform` | Two reactions of one user are both pushed; the request fails between the reel and the flag, or another decision is saved after it. |
| `CreatorStays`, `InvitedGetIn` | `platform` | Joining writes the row whatever it was: the creator who joins, or is invited, becomes a member, and joining after an invitation to a private group leaves one pending. |
| `OneLiveSession`, `AlwaysLocked` | `platform` | Rotating through the repository checks, then writes; failures counted at the same time are saved from one reading, so one is lost. |
| `OneEntry`, `OneBookmark`, `ClosedStays`, `OneUser`, `NoteHasHighlight`, `LockedIsInactive`, `TwoLevels` of Community | `platform` | Check, then write, in each; `TwoLevels` (categoryController.js:77) fails without any overlap as well. |
| `OffsetAlways`, `NullsListed` (cursorPagination.js:17-20) | `network` | A write shifts the offset; a cursor at a null compares with nothing. |
| `SearchNoRepeats` (searchService.js:92-93: "results won't repeat") | `network` | Results sorted by price or score are cut below the last row's `_id`: a row shown earlier may have a smaller one. |
| `SingleUse` (sep10Service.js:102: "enforce single-use via the challenge hash") | `accounts` | Two verifications of one challenge both pass the check before the account is loaded; or the challenge is used again in the last second of its time, when it is already forgotten. |
| `ToldOnce` | `accounts` | Who follows her own payment is in two rooms of it and is told of each change twice. |
| `OncePerStream`, `OncePerStudent` | `network` | A publication reported as failed was made; a bulk job is retried from its start. |

With several processes `OneRunner` and `FinishedIsFinal` fail as well: a boot
re-queues jobs that are running elsewhere. They are claims about one process.

The properties that are checked are what is left: they hold on the unrestricted
model, or name the condition under which they do (`ServedWithoutFaults`, the
careful practice and the `stale` educators of `Payouts`, the requested redeliveries
of `WebhookDelivery`, a drain that fits its lock, `FreshUnlessRaced`).

### Found while reading, and kept in the models as the code has them

- Payments: a price below 1e-6 prints with an exponent and `toStroops` throws; the
  sponsor's whitelist is not what the validation would also accept
  (paymentController.js:726 says it is a superset); the preflight ignores the
  platform wallet's trustline; `_stroopsToAmount` divides by 10^8; the status
  writers of `RefundRepository` have no guard.
- Anchors: the session token of an earlier wallet is used for the current one; a
  server that stops between the interactive start and the create loses the record.
- Reports: `netRevenue` subtracts refunds although refunded transactions already left
  the gross; a yearly `getReportSummary` compares the year with itself, and its second
  report takes its own `now`; `exportReport` does not validate month and quarter;
  figures of a past period change with later refunds; `completionRate` can exceed 100.
- Accounts: a success clears the lock of concurrent failures; a password change misses
  a session that a rotation is creating (authController.js:973); one OTP serves two
  overlapping resets (:700); a failed mail clears another request's token.
- IP blocking: a permanent block is overwritten by a shorter one, overlapping failures
  escalate twice, and a counter without expiry stays after a crash between `incr` and
  `expire`.
- Courses: 200 lessons and more reach 100 % with one missing; any lesson can be marked
  without its quiz (quiz.service.js:174-177); level and points may disagree;
  `completedAt` moves with every later update; cycles of prerequisites lock a set of
  courses; a freeze taken by the daily job is not remembered.
- Books: deleting one leaves uploads behind and takes it from its buyers;
  `purchase/book` puts any book on the shelf without a transaction; `createBook` takes
  the read count from the request; `attachAudio` on a deleted book leaves the upload.
- Lists: removed reels are still returned; `paginateCursor` refuses the cursor it
  handed out (BaseRepository.js:518-534); an offset sort has no tie-breaker; finders
  pass `sort` where `sortBy` is read, and `findLatest` passes one that is ignored; tags
  override the category, and `freeOnly` the price bounds; `findPublished` disagrees
  with the enum of the model (CourseRepository.js:102-106, Course.js:101);
  `Book.purchasedBy` does not exist; creator statistics fall back to all enrolments
  when a period has none.
- Spaces and reels: creating a space always fails, since the required `eventTime` is
  never passed; so does starting a recording without a URL; two joins wait twice;
  half-way deletions and late uploads leave assets behind; `deleteReelComment` always
  answers 500, since Mongoose 8 has no `remove()` on a subdocument
  (test/reelsController.test.js:243 mocks it); reels are never found by space; the first
  two reads of preferences at a time answer one with 500.
- Quizzes: a quiz without a threshold cannot be created although the schema has a
  default; `listQuizzesByCourse` returns the correct options although its comment says
  they are removed (quiz.service.js:319-321); a stop between attempt and lesson leaves a
  passed attempt without the lesson.

## 6. Fairness

- `JobQueue`: weak fairness of claims, boots, exits, handler steps and back-offs. The
  poll timer ticks in every process, awaits settle, and the process manager starts
  what died.
- `WebhookDelivery`: of each loop and of the clock; consumers may answer anything.
- `Pledges`: of the clock and of the scheduler loops; donors need not pay.
- `Ingestion`: of each worker's own step. Payers, restarts and failures have none; the
  number of failures and restarts is bounded, because a worker restarted for ever
  makes no progress.
- `Anchors`: weak of the clock that makes a record due and lets the cached
  `stellar.toml` lapse, of the end of a refresh and of its save; strong of the claim and
  of an answer: an anchor that is asked again and again answers at some time, and other
  refreshes may take the record in between. Nothing is assumed of the anchor's own
  progress, nor of the user.
- `Purchases` (`RetryingResolves` only): of job steps and the boot.

All of these are timers or continuations of the running process; nothing is
assumed of users. In `workers` the fairness of the loops a behaviour does not follow
is void: after the boot, none of their fair actions stays enabled.

## 7. Proofs

Checked by TLAPS for every value of the constants that meets the named
assumptions, any number of actors and any length of behaviour. Each theorem
rests on an inductive invariant, which TLC has checked on an instance where it can
enumerate it (not `RoomsInv`, which speaks of any set of versions); it is
named in brackets, with what it adds to the property.

**Purchases** (`PurchasesProofs`).
- TypeCorrect, HashesUnique, ConfirmedPaid, CheckoutsHeld, and HashesPermanent as an
  action property [IInv: for every stage of a session and of a job, what is then true
  of its row and its payment]. None of them is inductive alone: that a confirmed row
  is paid depends on what a session in its later stages, or a job that has verified,
  knows about the network; that a checkout is held, on which sessions wrote which row.
- ServedUnlessFaults [FInv: who grants has sold].
- FlowImplementsSettlement: with the hypothesis `OneServer` every step of the flow
  is a step of `Settlement` or a stutter [RInv: what each execution has booked, and
  that the books hold no more]. `OneServer` says that there is one server process and
  no ingestion worker; without it two executions may confirm one row and credit twice, so
  the refinement fails, and section 5 says where. BookedOnce carries
  `Settlement`'s own invariant back through it.

**Job queue** (`MCWorkers`). TypeCorrect, AttemptsUnique and DeadsExhausted for any
number of processes [IInv: a running attempt was counted]. With one process
(`Alone`): RunnerAlone and FinishedFinal [SInv: a non-empty set of executions belongs
to an active document of a process that is not down].

**Anchors and ingestion** (`MCWorkers`). WorkTrue, the whole of `WorkIsTrue`: WorkDone
for the jobs (an execution past its work has its work, and its child, done), which
needs `Alone`; AnchorInv (whatever a refresh has been told, the anchor was at); IngestInv
(what lies behind the cursor, or behind a loop on its page, is settled), both for any
number of overlapping loops.

**Escrow contract** (`MCServices`). TypeCorrect; CapIsKept, MoneyConserved and
PoolIsFrozen [IInv: the totals before and after the pool is fixed]; ClaimsOnce and
PassesComplete as action properties; ProductsFit, that no product overflows, from the
limits of `init`; SharesKept, the whole of `SharesHold` [SharesInv: the contributions
add up to what was funded; what was paid of the pool follows the weight of those who
claimed, and is short of it by less than a unit per claim, which the last one gets].

**Horizon client and fee sponsorship** (`MCNetwork`). LimitsKept [HorizonInv: how often a
submission was sent follows from its attempt and from where its call is; SponsorInv:
a snapshot that has the stored document's write count is the stored document, a day
that has not come has none, one recorded spend a day is not yet committed, and what is
recorded fits the caps of its snapshot]. The caps are read on one day and the spend may be
recorded on the next: it fits because the snapshot has nothing of that day and the
write count refuses any other. The ceiling of a fee-bump is proved for any operation
count, by its division.

**Scholarship milestone** (`MCNetwork`). CampaignKept [CampaignInv: a release row, its
transaction and its senders exist only once the approved text is in the row; the
contract's flag, a poll that goes on to the report and the repair all say that the report
pays].

**Loyalty and revenue sharing** (`MCServices`). PointsKept [PointsInv: the supply is the
sum of the balances, issued and not burned; RevenueInv: what the recipients got adds up
to what was distributed, and that with what is held to what came in].

**Sums** (`Sums`). Money and points are added up by the folds of the community modules.
The facts the other proofs need (a sum is a number, changes by what one summand changes,
compares and adds summand by summand, can be taken by key; floors lose less than one
each) are proved without induction over an operator: a set of numbers of which
none is the least is empty (Descent, from the well-foundedness of < on Nat), and so
there is no smallest set for which a fact fails.

**Idempotency keys** (`MCServices`). RetriesKept [KeyInv: a handler that runs has the
record, unless its client left; what is stored or about to be was answered, and an
answer is given once].

**Scholarship rounds** (`MCServices`). SelectionKept [RoundInv: a decision loaded a
subset of the reviews its application has; a selected one has its decision].

**Webhooks** (`OutgoingProofs`). TypeCorrect; SentByOne and DeliveredStays
[HInv: what a loop works on is locked for exactly the rest of the loop's time, and is
"retrying" until it records the outcome]. Both have the premise `[]InTime`, that a
drain ends before the lock it took at its beginning does. With 50 deliveries a drain,
10 s for an answer and a lock of 30 s nothing in the code forces that; it is what
quick consumers do. ShortDrains: the premise holds where no batch can last that long,
which is the instance `webhooks_all` checks.

**Pledges** (`OutgoingProofs`). PledgesTyped, CyclesKept [PledgeInv: a scheduler leaves a
due date behind only when its cycle exists and was told of or closed; a donation past
its confirmation was paid].

**Payouts** (`OutgoingProofs`). PayoutsTyped; BooksKept and EarnedKept [BooksInv, in three
parts]. PayInv, for operators who do anything: a submission knows which chunks before
its own were applied, and what the network applied stays applied; hence a payout entry
names a payment that moved. CarefulInv, for operators who close a batch before the next:
one submission is under way and one batch may still pay, no educator in it is owed less
than it pays them, and owed, settled and the batches confirmed so far add up to what
was earned. EntriesExact: the entries add up to the credits recorded and the batches
confirmed. Paid but not confirmed is then at most the one pending batch, which is why
nobody is overpaid while a submission is between its chunks and its settlement. The
chunk a payment is in is computed as in the code, by integer division, and its bounds
are proved for any chunk size.

**Accounts** (`AccountsProofs`).
- AccountsKept [UInv: a code that was accepted once is not among those of the row, and
  belongs to an enrolment of factors that has passed; SInv: the families with a
  verified session and the sign-ins that will open one are together no more than the
  proofs given, and each session's parent is in place and closed]. The counts use the
  library's facts about the cardinality of finite sets (SlotsAssumption).
- CausesKept [IpInv: an offense under way or counted is worth a failure, and the first
  one a whole threshold; CacheInv, for an entry the parts of `FreshUnlessRaced` and
  where its writers stand; EducatorInv: one application is under review, and the mark
  of an educator has its approval].
- RefundsKept and RefundsTyped [RefundInv: a refund is of a purchase that was
  confirmed, a reverse payment of a refund that was made, and for each handler, at each
  of its awaits, what it may rely on of the library, the enrolment and the network].

**Gifts** (`MCPlatform`). AccessClaimed [GiftInv: what each handler may rely on at
each of its awaits; a gift keeps its balance and a taken balance stays taken], under the
hypothesis that a balance id is read from the transaction's result and not searched
for: with the search the property fails (section 8).

**Reviews and reels** (`MCPlatform`). OthersStay, as an action property [ReviewInv: ids
are given once, and a loaded document of the stored version has the ids that are stored;
ReelInv: the same of the reactions, only a saved removal is recorded, and the duets
counted and about to be counted are no more than those made].

**Credit and membership** (`MCPlatform`).
- CreditKept [ProgressInv: what a request carries from its reads was already done or
  earned, and what was done and earned only grows, so it still is when the request
  writes; StreakInv: without a crossing, what each request sets in the row can be told
  from the row, the day and the active days, and two counts of one day start from one
  longest streak]. Points are summed by the lemmas of `Sums`. The attempt showed that
  the first version of the property held only within the bounds of the run: section 3
  has what becomes of streaks across midnight and of courses of 200 lessons.
- MembersKept [EnrolInv: who is about to be enrolled has the prerequisites, and who is
  written to the later documents is already on the course's list; the statistic a
  request is about to save is no more than the entries; GroupInv: a request about to
  post found an active row, whose user is the creator or joined].

**Repositories and community** (`MCPlatform`). RecordsStay states RecordsKept
[RecordInv and CommunityInv, one invariant for each kind of document]. Where one update
statement decides, the invariant is the property with the types. Where a request reads
and then writes, it says what the request may still rely on: a rotation knows the two
sessions of its family that can be alive and is the only one of a family nobody raced;
a bookmark list with the version a request has read has the entries it has read; a vote
let in before the poll was closed is remembered; a category about to get a parent
has one that stays at the top. What the code does not guard holds as long as nobody
else was at it (`mixed`, `raced`), and the proof shows that this is enough: the lemmas
`Enters` and `Leaves` say what a request alone can tell.

**Notifications** (`MCNetwork`). NotificationsKept [DeliveryInv: a note is on its way in one
place, with the server that dispatches it or, for a stream, in the messages its server has
still to handle and in what was written; a server's flag counts its subscriptions, so that a
publication makes one message for each; a bulk note was written once to each open
stream per run]. The message of a subscription that a restart took away is gone, and with
it what it owed.

**Pages** (`MCNetwork`). ReadersAreServed, the whole of `ReadersServed` [PagingInv: a traversal by
cursor has got, in their order, exactly the steady rows from where it began up to its
cursor, and nothing beyond it; an undisturbed one by offset has got a beginning of the
ordered listing]. Underneath lies `RankingIs`: a strict total order of a finite set puts
each element at one place, from 1 to the number of elements, proved by counting who is
before whom; the order of a page, the reverse order of a backward one and the order of a
query are instances. That the seek predicate is that order, except at a null, is what
`AheadKeys` says, and with it that a page continues where the one before it stopped,
whatever was added, moved or deleted in between.

**Amounts and the on-ramp** (`MCNetwork`). AmountsKept, the whole of `AmountsHold`
[AmountInv: for each stage of a checkout what is then true of the transaction and of the
account the preflight looked at; OnrampInv: what a webhook loaded and will write says
completed or failed only of a purchase the provider ended so]. The arithmetic is one
lemma each: `ReadsBack`, that toStroops of fromStroops is the amount for any number of
decimals (the digits after the n-th are what dividing by a power of ten leaves, by descent
on n); `SplitIs`, that the cap of 20 per cent keeps the platform's share below the
creator's, so that no operation stands for both shares when a payment is verified;
`PathHasAll`, that with two shares rounding down never gives the creator's path the
whole maximum, so that the platform's operation is not left out; `MarginIs`, the
margin of a quote.

**Courses and books** (`MCServices`). CatalogueKept, the parts of `CatalogueSound` that
are about requests [CourseInv: a publication about to be saved has its date, a learner
about to be written to a shelf is on the course's list, and a progress document is
completed exactly at 100 per cent; BookInv: what a request has uploaded is in the store
with the kind its work names, what it has still to upload is in its list, and files are
only added].

**Documents of people** (`AccountsProofs`). RoomsKept, the whole of `RoomsSound`
[RoomsInv: a request between two of its steps belongs to the topic the behaviour follows,
and per topic what it carries]. A list of a space is what the requests left of it until
the host overwrites one (`overwrote`), and its count, a fold, is its size. A recording
whose asset is destroyed has a deletion about to finish or one that stopped. No two
versions of a quiz share the id of a question (`Printed`), so an answer given to one
version counts nothing in another; a review that finds its questions unchanged finds
exactly the ids that were scored, by a bijection. What a request is about to write to a
bundle is priced by the courses it loaded, and the history says when they changed
(`drifted`). A challenge that was used is remembered while it is in time, so a second
request that reads it was let in either beside the first (`raced`) or at the last second,
when `Unexpired` has already dropped it; the property names both, and the proof shows
there is no third way in. A video in the store belongs to a reel, to a request or to
a refusal, and each request has a number of its own.

The assumptions on constants, named where the constants are declared, say that
counts are natural numbers, that limits, prices and the costs of a path are positive, that what is added up (donors,
holders, recipients, requests, educators, batches, sales) is finitely many, and that
`None` is not one of the values it stands beside (two values TLC knows to be different, and the provers do
not); `RoomsAssumption` adds that there is somebody. Beyond those: `LimitAssumption` of the contract (section 3), and that the
thresholds of `IpBlocking` are numbers up to the permanent tier.

Some properties are proved and need no run of their own: AttemptUnique, DeadIsExhausted,
CapKept, PoolFrozen, ClaimedOnce, SoldOnce.

Only model-checked, and why:
- liveness (`EnqueuedFinishes`, `AnchorResolves`, `NothingBlocks`, `EmittedResolves`,
  `EventuallyClosed`): it needs ENABLED;
- `ReportsTrue`: the breakdowns, the CSV cells and the pages are folds over sequences,
  each an induction over data;
- of `CatalogueSound` the drop-off of a course and the topic of figures and lists: they
  are enumerated over small inputs, and compare sorts and folds.

## 8. Limits

- Clocks are units of the shortest relevant time-out, or a bound that may be passed at
  any moment; drift between machines is not modelled.
- A MongoDB single-document update, an index and a session's commit are atomic and
  durable; stale secondary reads and elections are not modelled. A Redis command is
  atomic and may fail; pipelines are sequences of commands.
- The network applies or refuses a signed transaction once; ledgers do not fork.
- Payouts: XDRs of another batch and dry runs are not modelled; an educator's balance
  document exists from the start. The serial practice, in which a partly applied
  batch is rebuilt (and overpays), has no run.
- Pledges: one pledge; a cycle whose donation failed is not initialized again, as
  in the code. Refunds: one reverse payment per refund.
- Gifts: the fallback search for a balance id is off in `platform`; with it
  `OwnBalance` fails and `AccessIsClaimed` with it.
- `EventuallyClosed` speaks of cycles whose window ends before the bound of the clock.
- `Rooms`: a space exists from the start, since creating one fails. `Streaks`: time zones
  are reduced to the day they yield. `Paging`: one field to sort by.
- A union checks its parts one at a time, not two of them together; nothing in the code
  connects the parts of one union except where the modules say so.

### Not modelled

- SEP-10: the building of a challenge and its cryptography; issuing, verifying and
  forgetting are in `Rooms`.
- Calls: signed tokens without state.
- The ranking of a text search, hashtags, suggestions: MongoDB's; the aggregation and
  text-search helpers likewise.
- Usage analytics, experiments (whose routes are not mounted), the writing of the audit
  log, referrals, the export of a user's data: written once each and read by nobody who
  decides.
- Routing, request authentication, headers, metrics, connection options: the shell
  around the handlers. Shutdown and crashes appear where they stop something.
- Modules nothing in the running program imports.
