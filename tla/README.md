# TLA+ models of the anuncios backend

The backend of a classified-ads platform: NestJS services over PostgreSQL
(Prisma) and Redis (BullMQ). Almost every service method is a sequence of
awaited database calls outside a transaction; requests of several users, admins
and API instances, scheduled jobs and queue workers interleave between any two
of them, and each process can die there. That is what these modules are about:
which promises survive it, and how far the others can be off.

Paths below are relative to the repository; `products.service.ts` stands for
`src/products/products.service.ts`, and so on.

## The system

| Component | State it keeps | Operations | What has to hold |
|---|---|---|---|
| Plan gates and prices (`common/plan-limits.ts`, `common/pricing.ts`) | none: pure functions over plan, promo and months | `activePlan`, `effectiveLimits`, `entitlementPlan`, `hasStatsAccess`, `bestCadence`, totals and the 12-month hint | a promo only adds; a higher plan is never worse; the gates agree; the hint is honest |
| Listings (`products.service.ts`) | `products` (status, price), images | `create`, `update`, `remove`, `adminSetStatus`, `adminUpdate`, search | quota of active listings; banned sellers do not publish; removal is final; pages neither repeat nor lose a match |
| Accounts (`users.service.ts`, `auth/`) | `users` (permission, profile, pinned listings) | `suspendUser`, `unsuspendUser`, `adminCreate`, `adminUpdate`, `update`, `remove`, `setPinnedProducts` | permission and listings agree; removed accounts leave nothing behind |
| Authentication (`auth/`) | refresh tokens, `last_seen_at`, one map per process | Google sign-in, admin login, refresh, the check of every request | one account, one welcome; sessions of the banned run out |
| Plan life cycle (`users.service.ts`, `products.cron.ts`, `email.cron.ts`) | `users.plan`, `plan_expires_at`, `plan_changes`, `payments` | `activatePlan`, `changePlan`, `handlePlanExpiry`, `handlePlanExpiryReminder`, `planExpiring`, `planExpired` | what was sold is in force, as long as sold; announced once |
| Platform promo (`plan-promo.service.ts`) | one row, one cache per process | `row`, `state`, `config`, `publicConfig`, `update`, `invalidate` | processes disagree for a bounded time only |
| Boosts (`products.service.ts`, `payments.service.ts`) | `boosted_until`, ledger rows in `payments` | `boostMyProduct`, `boostProduct`, `unboostProduct`, `PaymentsService.remove` | the monthly quota; bought time is neither lost nor invented |
| Lists sellers keep (`products.service.ts`, `users.service.ts`) | `auto_bump_slots`, `pinned_products`, `bumped_at` | `setAutoBumpSlots`, hourly `autoBump`, `setPinnedProducts` | lists within the plan; one bump per period |
| Views, QR scans, price drops | `product_views`, `seller_qr_scans`, a counter | `registerView`, `track`, `update` | counter equals views; a drop is announced once |
| Email delivery (`email.service.ts`, `email.processor.ts`, `email.module.ts`) | queue, `email_logs` | `enqueue`, `process`, `send` | one message per occasion; no job stuck |
| Scheduled emails (`email.cron.ts`, `email.controller.ts`, `preferences.ts`) | preferences, dedupe keys | digest, comeback mail, plan mails, unsubscribe | one digest per activity; opt-outs hold |
| Notifications (`notifications/`) | `notifications`, subscriptions, push queue, `follower_notify_batches` | listeners, `create`, broadcasts, `sendToUser`, `flushAt` | one notification per event; pushes to the right device; each follower hears of each new listing once |
| One-time codes (`otp/`) | `otp_codes` | `generate`, `verify`, redemption for a PIN or phone | rate limits, attempts, single use |
| Media (`upload/`) | files in the bucket, URLs in rows | upload, deletion after update, orphan sweep | no row points to a deleted file |
| Verification (`verifications.service.ts`) | `verification_requests`, `users.verified` | `request`, `approve`, `reject` | one decision per request |
| Favorites, reviews, saved searches, reports | a row and, for some, a counter | toggle / create / update / resolve | counters agree with rows; limits hold; notices once |
| Home (`home-sections/`) | sections, suggestions, `premium_carousel_days` | sections, feed, "see all", `pickForDay`, carousel | sections sound; every seller and listing gets a turn |
| Export (`export/`) | the cursor of a walk, audit entry | eight exports in batches | every row once |
| Categories, roles, audit, health, GraphQL layer | CRUD rows, log lines | single statements | nothing several steps could break |

**How they interact.** All components share the database and nothing else,
except that: the promo is cached in each process's memory, and so is the time of
the last `last_seen_at` write; services emit in-process events
(`EventEmitter2`) that the email and notification listeners turn into queue
jobs, and that a crash loses; jobs are keyed by an occasion
(`jobId = dedupeKey`) and retried by BullMQ. The plan gates are called by
listings, auto-bump, pins, statistics and boosts, each with the plan it read
and the promo it read, possibly at different times. Crons run in every process
that schedules them and take no lock.

**What is hard here.** A check and the write it protects are separate calls
(quotas of listings and boosts, codes, saved searches, verification requests,
auto-bump slots). A date is computed from a row and written later (plan expiry,
boosts). A cached row outlives a change (promo). Two effects of one operation
are separate calls (ban and hiding, boost and ledger, plan and payment, favorite
and counter, notification and push, row and file). Lists are read page by page
or query by query while they change (feed, search, export, carousel). Scheduled
jobs depend on each other's order by the clock alone, and overlap with manual
runs. Retries and stalled jobs run `send` twice. The list with lines is under
`hazards` in `PROJECT.json`.

## Modules

    PlanLimits           plan-limits.ts as operators
      Pricing              pricing.ts: totals, tiers, the hint
        PlanGates            every plan, promo and term       PlanGates_proofs
      Listings             listings, bans, account removal    Listings_proofs
        MCListings
      PlanLifecycle        selling, changing, expiring plans
        MCPlanLifecycle      (the two violations)
      Pools                auto-bump slots, pinned listings
    BoostLedger          boosts and the monthly quota         BoostLedger_proofs
      MCBoostLedger        (the violation)
    Calendar             cycles, weeks and months, day by day
    EmailDelivery        queue and EmailService.send          EmailDelivery_proofs
      EmailOnce            what it promises: one attempt per key
    FollowerNotify       the hourly pass over new listings
      MCFollowerNotify     (the violation)
    Otp, Verification, Reports, SignIn, Favorites, Visits, Reviews, Export,
    Notifications, Campaigns         what accounts do
    MediaStore, PlanPromo, Carousel, Showcase, HomeFeed, HomeSections, Search,
    PriceDrop                        what buyers see

    MCSales        = PlanLifecycle, BoostLedger, Calendar     MCSales_proofs
    MCPeople       = Otp, Verification, Reports, SignIn, Favorites, Visits,
                     Reviews, Export, Notifications, Campaigns,
                     FollowerNotify                           MCPeople_proofs
    MCCatalogue    = MediaStore, Pools (pins, pool, job), PlanPromo, Carousel,
                     Showcase, HomeFeed, HomeSections, Search,
                     PriceDrop                                BuyerViews_proofs,
                                                              MCCatalogue_proofs

**The three families.** `MCSales`, `MCPeople` and `MCCatalogue` instantiate their
components side by side. They are not products: the variable `part` says which
component a behaviour is about, and the cells `s1`, `s2`, ... hold its variables.
The components of a family share no state that the models keep, so a product
would only multiply independent behaviours; one run per family is enough to
check each of them, and a property of a family is the conjunction of what its
components promise in one respect, each conjunct under its `part`. Components
that do share state are in one module: plans, bans, removals and listings in
`Listings`; plans, jobs and mails in `PlanLifecycle`; slots, plans, promo and
listings in `Pools`; users, sessions and permissions in `SignIn`. `Pair` and
`Couple` are sets of interchangeable actors and rows, over which the runs are
symmetric.

`PlanLimits` is the data of the gates: `PLAN_LIMITS` is a constant, so that
theorems hold for every table; `Catalogue` is the table the program ships, with
the discount of 0.5 written as 50 percent. `Pricing` is pricing.ts with whole
XAF and whole percentages; its rounding is that of `Math.round` on products that
are exact in the program too. `Listings`, `PlanLifecycle` and `Pools` extend
`PlanLimits` and use its `effectiveLimits` and `activePlan`, as the services do.

**Listings.** `status` is the status column; ids are fixed up front (`SellerOf`)
and go from "unused" to a row to "deleted", as generated ids do. A mutation is a
record in `req[r]` whose `step` says which awaited call comes next:
`StartX` is the request after the JWT strategy; `FindListing`, `ReadPlan`,
`ReadPromo`, `CountActive` are the reads of `create` and `update` in their
order, with their early exits; `WriteX` is the last call. `Abort` is any
exception or crash in between. Deleting and re-creating image rows belongs to
`WriteUpdate`, since no property looks at images here (`MediaStore` does).
`SuspendUser`/`SweepHide` and `UnsuspendUser`/`SweepRestore` are the two calls of
a ban and of lifting it; `LoseSweep` is a crash between them. `SetPermission` is
the admin's generic edit, which hides nothing. `RemoveUser` is one transaction,
as in the code. `ChangePlan` stands for all of the plan life cycle. Two history
variables: `cause`, what last changed a listing's status, and `pulled`, the
banned sellers whose listings have been hidden.

**PlanLifecycle.** One seller (plans of sellers do not interact). A day has four
instants, the hours the jobs run at: 3, 8, 9 and 10 AM. `ReadForX` is the read of
a plan mutation, `Activate`/`Change` its transaction, `Pay` the payment
`changePlan` creates afterwards. Each job is one action at its hour; `Tick`
without it is a run that was missed (no process was up). Time does not pass
while a mutation is in flight: they take milliseconds, jobs are hours apart. A
job and a mutation at the same instant do interleave.

**PlanPromo.** Each process has a cache, a lookup that may be awaiting the
database, and an `update()` in flight. `Query` fixes what the database answers
(or that it fails), `Store` is the assignment to the cache after the await:
between them other writes and `invalidate` happen. A lookup that fails stores
"no promo" for a whole TTL, as the code does.

**BoostLedger.** A boost call is `Start`, `ReadUser`, `Bill` (the count of ledger
rows), `Find` (reads the listing and computes the date), `Write`, `Pay` (the
ledger row). `Unboost`, `RemovePayment`, `ChangePlan`, `ChangePromo`,
`ChangeListing` and the clock interleave. `due` and `sold` are history: when the
time bought, with and without what was cancelled, ends; `raced` says that a date
was replaced by a call that had not read it. A cycle is `Cycle` ticks; the days
of real cycles are in `Calendar`.

**Calendar.** Days are numbers, which `Civil` turns into dates by
the Gregorian rule. `addUtcMonths`, `currentBoostCycle`, `isoWeekKey` and the
month loop of `planStats` are operators on them, `setUTCMonth` overflows into the
next month as the Date object does, and the only step is the next day.

**EmailDelivery.** BullMQ is modelled from its configuration in
`email.module.ts`: one job per id while it is remembered, `Attempts` tries, a job
whose lock expired is handed out once more while the first worker may still run.
`Lookup`, `CreateLog`, `Deliver`, `MarkSent`, `MarkFailed` are the calls of
`send`; `DatabaseError` and `Crash` can hit each of them. `Direct` is a caller
without a job (the OTP resolver). `fate` maps this state to `EmailOnce`: per key,
open, claimed, then mailed or lost.

**FollowerNotify.** One seller: sellers meet in a pass only when one of them makes
it fail, which `Fail` stands for. The pass of `flushAt` goes query by query:
`Start`, `FindSellers`, `FindBatch`, `FindProducts`, `FindFollowers`, `Notify`
(all followers at once, as `Promise.all` does, any of whom may have been told
when it rejects), `Record`. The clock is even on the hour and odd in between.
`Stamp` and `Commit` are the two ends of an insert: a pass can look between
them. `ChangeListing` and `ChangeEar` are moderation and followers; a `Tick`
over an hour without `Start` is a pass that was missed. History: `told`, `heard`
and `stray` (whom a pass told without recording it), `times` (batches a listing
was recorded in), `born` (created while a pass ran), `due` (who has to be told
of what, unless something the code does not promise to survive came between).

**Otp.** A call of `generate` reads the latest code (cooldown), counts the window,
spends the older codes and stores a new one; a call of `verify` finds the code,
checks and counts the attempts, compares and marks it; redemption changes a PIN
or a phone with a token. Each is a step. How a code is drawn and mailed is left
out: a guess is right or wrong.

**Verification, Reports.** The requests of one user and a report, with staff who
decide on what they had read. `Verification` includes the removal of the user's
requests and failures between decision and badge. The badge an admin sets by
hand (`adminUpdate`) is left out.

**SignIn.** `googleLogin` by Google id, by e-mail address and by creation, call by
call; admin login; refresh; the check of each request and its throttled
`last_seen_at` write in each process; bans, removal, and the removal of the
default role that sign-up looks for. The exchange with Google and the token
library are outside.

**Favorites, Visits, Reviews.** Small services with a row and a figure.
`Visits` is `registerView` and, with the same look-then-insert, `track`, and the
chart of a seller's views; a row is the instant it was stored at. `Reviews` is a
seller's reviews, whose statistics come from two queries (the average that the
first one returns with the count is left out, as nothing is compared with it), and
the limit of saved searches.

**Export.** The walk of `streamBatched` over a table while rows come and go, with
failure and the audit entry. What the database makes of a cursor whose row is
gone is left open.

**Notifications.** A listener or broadcast picks recipients, `create` stores a
notification for each who wants it and queues a job, the worker finds the
devices and pushes; the queue may run a job again when its worker stalls;
devices change hands and tokens are dropped. **Campaigns** is the digest, the
comeback mail and the unsubscribe links of one user; mail is sent once for its
key, which is what `EmailDelivery` promises.

**MediaStore.** One seller's listing, avatar and verification documents.
Handlers read rows, replace them and delete the files they had read, in separate
calls; the sweep collects references, lists the bucket and deletes what is old
and not referred to. **Pools** is `setAutoBumpSlots` and `setPinnedProducts`: the
checks, then a transaction whose delete works on a snapshot, so that rows another
save commits in between stay; and the hourly job, selecting and then writing, per
cadence. Its three instances look at pins, at the pool, and at the job.

**PriceDrop.** `update` compares prices as the buyer pays them, before and after.
**Search.** Pages of one search over a table that stands still: exact matches,
filled up with similar ones, sorted boosted first; rows that sort alike come in
any order. **Carousel** and **Showcase** are the daily pick and its reading,
**HomeSections** sections, suggestions and their review, **HomeFeed** the
public feed section by section and the pages behind "see all".

## Runs

| Run | What it checks | Result |
|---|---|---|
| `plan_gates` | `PromoNeverTakesAway`, `HigherPlanNeverWorse`, `GatesAgree`, `PreviewIsHonest` for all pairs of plans, all promos and all terms, with the shipped limits and prices | hold |
| `listings` | `TypeOK`, `QuotaOvershootBounded`, `SuspensionLeakBounded`, `RemovedUserOwnsNothing`, `DeletedForGood` | hold |
| `email` | `TypeOK`, `SentMeansMailedOnce`, `OneAttempt` (refinement of `EmailOnce`), `JobsSettle` (liveness) | hold |
| `sales` | plans, boosts, calendar; see below | hold |
| `people` | eleven components; see below | hold |
| `catalogue` | eleven components; see below | hold |
| `email_retry` | "bounded retries ... so transient SMTP hiccups recover" | **violated**: the retry finds the failed row and skips the message |
| `plan_renewals` | "same plan, still active: accumulate" | **violated** by two renewals in flight |
| `plan_mail` | "plan expired (yesterday's window)" is mailed | **violated**: the downgrade at 3 AM removes what the job at 9 AM selects by |
| `boosts_promo` | "every boost is free and never consumes ... the monthly quota" | **violated**: promo boosts are counted after the promo |
| `followers_spacing` | never more than one aggregated notification per seller and interval | **violated**: a pass that fails after telling some followers tells them again an hour later |
| `media_docs` | "Walk every column that stores a media URL" | **violated**: the sweep deletes the documents of a pending verification request |

The properties of the families:

| Property | What it says, part by part |
|---|---|
| `LabelFollowsPlan` | what is in force is what the last change says, and the label of a plan outlives it by a day at most unless a job was missed |
| `RemindedExactlyOnce` | no expiry is announced twice; none is left out unless a job was missed |
| `TimeIsAsSold` | plans and boosts run as long as sold and never longer than was ever sold |
| `FreeBoostsBounded` | the boost quota is overshot by less than the calls in flight |
| `PeriodsTile` | every day is in one quota cycle, one mail week, one bar of the chart |
| `LimitsBounded` | codes issued, live and guessed, redemptions, visits per window and saved searches exceed their limits by less than the calls in flight |
| `GrantsAreBacked` | PIN and phone change on a recent code only; the badge comes with a decided request |
| `CasesSettle` | verification requests do not pile up; verdicts and resolutions are announced once per decision and overlapping reviewer; a report shows a reviewer exactly while resolved |
| `SessionsBounded` | one welcome; tokens of the banned run out; a failed `last_seen_at` write is forgotten |
| `FiguresMatchRows` | favorite and view counters, the views chart and review figures match the rows, up to calls between their two writes |
| `ExportComplete` | a finished export holds every row once |
| `ToldOnce`, `OptOutsHold` | one notification per event and person, one digest per activity; nobody who opted out before gets one |
| `PushesBounded` | pushes reach devices their user held, once and once more per stalled worker |
| `FollowersHearOnce`, `RepeatsNeedAFailure` | one batch per listing, nothing skipped unless a pass failed; repeats only after a failure |
| `RowsHaveFiles` | only handlers that overlapped on the same rows leave a row without its file |
| `ListsBounded` | images and slots exceed the plan by overlapping saves at most; pins are those of one save |
| `AnswerWasTrueLately` | a process's promo is no staler than a TTL and a lookup |
| `JobsKeepPace` | one bump per period of a slot; the pick of a day stays |
| `FrontPageFair` | no listing is left out of the carousel for longer than the window; tiles are of sellers who are Premium and take turns |
| `SectionsSound` | suggestions and places, the feed, recent views, and "see all" |
| `SearchSound` | filters, order, boosted first, every match once |
| `ToldIffCheaper` | watchers are told exactly if the buyer pays less |

What the bounded properties say. The quota is *not* exact: two creations at the
last free slot both pass. `QuotaOvershootBounded` says by how much it can be
off: never by as many listings as there are mutations in flight, whatever plan
and promo changes happen. `SuspensionLeakBounded` likewise: once the listings of
a banned seller have been hidden, only mutations that had passed the JWT check
before can show one. `FreeBoostsBounded` and `LimitsBounded` are the same for
boosts, codes and small limits. `AnswerWasTrueLately` bounds the staleness of
every process's promo by a TTL plus one lookup, whichever read races with
whichever invalidation; it does not say that the process that wrote the change
sees it at once, and it may not: a lookup that was under way stores the old row
after `invalidate()`. `TimeIsAsSold` excludes exactly the listings on which a
write replaced a date it had not read; there bought time is lost.

### Bounds, and why they are enough

Two calls are the least that race, and every promise above is about a pair of
calls or about a call and a job, so most parts have two; a third adds states and
no new kind of overlap. Periods keep the relations that matter (a cooldown is
shorter than a window, a window than the time looked at) and no more.

- `listings`: one seller, two listings, two mutations, plans that allow none or one
  active listing, no promo, inputs with and without an image, so every early exit
  of `create` and `update` is taken. Sellers share no state in this model, so one
  is enough; two listings let both mutations overshoot a quota of one. A promo
  acts through `effectiveLimits` only, which `plan_gates` covers for every plan
  and promo. The theorems remove the bounds.
- `email`: one key, three calls. Keys share nothing but idle workers; three calls
  let a stalled job, its second hand-out and a direct call be in `send` at once.
  Mails are counted up to two, which is one more than allowed.
- `sales`. Plans: two admins, two sales, a three-day month, 24 instants (six days):
  a plan is sold, reminded of, runs out, is downgraded and sold again; the code
  uses the length of a month only in sums and comparisons. Boosts: two calls, one
  listing, two ledger rows, quotas 0 and 1, a cycle of two ticks that the clock
  crosses. Calendar: plans started on 31 January, 29 February and 30 November
  2024 or never, every day from 1 December 2023 to 8 February 2026, which has
  two turns of the year with weeks of either side and short months of 28 and 29.
- `people`. Codes: two calls, three codes, a window shorter than a code's life,
  two attempts. Requests: three, with two reviewers. Reports: two rounds. Sign-in:
  two calls, one process, an account made, removed and made again, two hours.
  Favorites: two fans, three rows. Visits: four visits in six ticks, windows and
  days of two ticks, a chart of two days. Reviews: two ratings, two rows, three
  writes; one saved search allowed. Export: four rows in batches of two, so
  that a walk has a full, a following and a last batch. Notifications: one event,
  two users who exchange two devices, one stall, broadcasts in batches of one.
  Campaigns: a week of four ticks with one tick of jitter, two and a half weeks.
  Followers: two listings, one follower, an interval of two hours, a look-back and
  a retention of three (an hour is two ticks): a listing is created before, during and after a pass,
  waits for the interval, and outlives the row of its batch. In
  `followers_spacing`, one listing and two followers, of whom one can be told while
  the other makes the pass fail.
- `catalogue`. Media: two files of two handlers, and the age at which the sweep
  may delete is one tick. Pins: three saves, two at once. Pool: three listings, one
  slot, two saves at once. Job: one listing over four days, a weekly slot on STAR
  and a daily one on PREMIUM, and a promo that grants STAR. Promo: two processes,
  two writes, TTL of two ticks, lookups of at most one, so that a stale answer can
  start, be passed over by a write, and time out. Carousel: three listings, one
  place, a window of three days, the job and a manual run. Showcase: two sellers of
  three listings. Feed: two listings, a rail, a grid and recent views, three views,
  pages up to two. Sections: one title, three ids, two calls. Search: three
  listings, two prices, two times of bump, pages of two. Prices: two updates, two
  prices, with and without a discount.

### Fairness

Only `JobsSettle` needs it. Weak fairness of each running call: an `await`
returns or throws (HTTP and database clients time out). Strong fairness of
handing a waiting job to some idle worker: workers may be busy with direct sends
again and again, but the BullMQ worker keeps polling. Weak fairness of `Stall`
for jobs whose worker died: BullMQ checks for expired locks periodically.
Nothing is assumed of crashes, of producers, or of the provider accepting. The
scheduled jobs have no fairness: a run that falls into a time when no process is
up is missed and nothing runs it later, so the properties about them say "unless
a run was missed" instead of "eventually".

## Proofs

`PlanGates_proofs`: for every table of limits, a promo never takes anything away
(`PromoNeverTakesAwayThm`); for every monotone one a higher plan is never worse
(`HigherPlanNeverWorseThm`) and the gates agree (`GatesAgreeThm`). These are
facts about `effectiveLimits` and its companions for all plans and promos, by
cases on which module the promo unlocks; the invariants follow from the types.
`PreviewIsHonestThm` is about prices, whatever they are: totals grow month by
month up to eleven, since one more month costs at least what a better tier takes
off (`TotalsGrow`); twelve months cost no less than ten; so only the step from
eleven to twelve can get cheaper, which is the one the hint compares.

`Listings_proofs`, for any sellers, listings, handlers, limits, plans and promos,
under the assumptions of `Listings` (finite sets of listings and handlers; limits
never above PREMIUM's):

- `Typing`: type correctness.
- `QuotaOvershootBoundedThm`. The bound itself counts handlers past the check,
  but a step to "write" must know that the limit it compared with is at most
  PREMIUM's; so the inductive invariant is `TypeOK`, `LimitsAllowed` (the limit a
  handler carries is one some plan allows) and the bound. Each action either
  moves a handler from "passed" to a metered listing (`QuotaMoves`, the sum does
  not grow) or adds a handler to the passed ones while the count was below the
  limit (`QuotaPasses`); the lemmas on cardinalities carry this.
- `RemovedUserOwnsNothingThm`. The removal takes every row, and no write of a
  handler in flight can bring one back: the insert fails on the foreign key, the
  update finds no row.
- `DeletedForGoodThm`. The updates that look for a row cannot revive one; the
  insert of `create` could, were its id not fresh. `CreatesAreFresh` says it is,
  until the insert and against every other handler; it is inductive because a
  request names a listing that exists or an id nobody has.
- `SuspensionLeakBoundedThm`. With `PulledBanned` (a seller whose listings were
  pulled is not GRANTED) no new request of that seller starts, so the handlers in
  flight only get fewer, and a listing that leaks costs one (`LeakMoves`).

`EmailDelivery_proofs`, for any keys, workers, callers and positive number of
attempts. The inductive invariant says who owns a row: a key's `email_logs` row
is claimed by the call that inserted it and by no other (`OneClaim`), the row is
queued while that call runs, what it has done can be read off its step
(`StepsTell`), and a key without a row was never mailed (`LogTells`).
`QueueInv` adds what BullMQ's states mean: only active jobs are locked, and a job
that can run has a try left.

- `Typing`, `SentMeansMailedOnceThm` follow from it.
- `OneAttemptThm` is the refinement: with `fate` each step of the queue and of
  `send` is a step of `EmailOnce` or leaves every key's fate alone (`NextFate`).

`MCSales_proofs` proves the inductive invariant of the plans, `BoostLedger_proofs`
the one of the boosts, for any lengths of months, cycles and windows, any quotas,
horizons and numbers of calls. (The family's instance of `BoostLedger` and the
instance of its proofs are two copies of one module; `SameBoosts` says they
agree.)

- `LabelThm`, `RemindedThm`, and plans in `TimeThm`. The user's row is the last
  `plan_changes` row up to the nightly downgrade (`LedgerInv`), which includes
  that no sale in flight has read a date that was not paid for. The jobs are
  followed by the instant of their latest run (`LastHour`): a paid label is no
  older than the last downgrade (`LabelInv`); the reminder's window has moved over
  each expiry up to the end of the last one and over none beyond (`NoticeInv`),
  which is why nothing is announced twice and nothing between two windows lost.
- `FreeBoostsThm`. The count of ledger rows is of a cycle that the call has
  computed before, so the invariant cannot be about the current cycle: `Within`
  bounds, for *every* day e, the free boosts since e plus the calls that may
  still add one. A new cycle is then a different e, and the removal of a payment
  lowers both sides.
- Boosts in `TimeThm`: a call that is about to write a date has seen one that was
  paid for (`TimeInv`).

`MCCatalogue_proofs`, and `BuyerViews_proofs` for what buyers are shown, for any
sets of handlers, files, listings, sellers and processes, and any limits, sizes,
windows and page lengths. All invariants of the run are proved; `Typing` is the
types of its eleven parts.

- `RowsHaveFilesThm`. What a handler will put in a row is stored and too young to
  be swept or still referred to, and what it will delete is in no row, unless
  handlers overlapped (`ListingCall`, `ProfileCall`); a listing and a profile never
  share a file (`Apart`); handlers that do overlap have marked their rows as torn
  (`Overlap`). A file that the sweep might take is none of these (`Spared`).
- `ListsBoundedThm`. Images: a handler about to write counts as a full album
  (`ImagesInv`). The pool: a save takes away all that it saw when it began, so the
  invariant looks at *every* save k of the past: what was stored since k, plus a
  plan's slots for each save about to commit that saw no more than k, is bounded
  (`SlotsInv`). Pins: a save about to commit saw all the pins there are or none of
  them; in the latter case its first position is taken and the unique key makes it
  fail (`PinsInv`).
- `AnswerThm`. An answer is *backed*: the row was the current one at an instant
  within a lookup of the time it was stored (`PromoInv`), whichever write or
  `invalidate()` came in between.
- `FrontPageThm`. The carousel is a counting argument. "Shown less" comes first in
  the order, so if a pick passes over a listing that the window has not shown, it
  holds only such listings (`PickIsFair`; that a pick is full is `PickIsFull`, from
  `Ranked`). A day later the window looked at has moved, and the picks since may
  have shown what it no longer tells of; so `FairInv` says this of the pick of
  d days ago with respect to more listings than d picks can hold (`FairTomorrow`).
  A listing left out for the whole window has then seen a full pick of others
  every day, all different: more than the stock has (`FairMeans`). The page: tiles
  are dealt in rounds, the first of every seller, then the second (`Dealing`), so
  that between two of one seller comes everyone who has a tile left; dropping
  tiles keeps the order of the rest (`Kept`).
- `SectionsThm`. Whoever has looked and is about to suggest a title, or to take a
  place, is counted as having done so (`SectionsInv`); the last place is behind all
  that are in place (`NextPlaceLast`), so a call that looks now shares with those
  that looked at the same time only. The feed: rails are of what was on show, and
  what is dropped or cut keeps its order (`FeedInv`); `RecentSound` and `SeeAllSound`
  are facts about the two reads in every state, not about steps: of places in a
  sequence that are kept, in their order (`FeedAt`).
- `SearchThm`. Sorting is stable and keeps what there is (`Stable`): each listing's
  place is the number of those before it, which takes the "before" of both sorts
  to be a weak order (`WeakOrders`). In an order without ties a match has one
  place (`FoundPlaced`), the n-th page shows the places from (n-1) * Take on
  (`FinderInv`), and every place is on one page (`PageOf`).
- `ToldThm`. A call of `update` that no other overtook compares with the row there
  is (`PriceInv`); the rest is rounding to whole francs (`RoundsWell`), proved for
  every price and discount.
- `PaceThm`. What the hourly job has selected is due when it writes, because
  nobody else's bump sets the slot's time back (`JobInv`); the pick of a day is
  stored once (`TurnsInv`).

The community modules' operators that sort, count and filter are defined by
`CHOOSE` or recursion; the models say the same with ranks (the n-th element is the
one with n - 1 before it), and `BuyerViews_proofs` begins with the facts about ranks
in finite sets that all of the above rest on (`Counts`, `Rank`, `Ranked`, `Nth`).

`MCPeople_proofs`, for any number of calls, users, devices, rows, codes, events
and runs, and any periods in the relations the code has them in:

- `Typing`: type correctness of all eleven parts, each from its own invariant.
- `LimitsThm`. Codes: a pruned row is older than every window in which rows are
  counted, and each count includes the calls that passed the check and have not
  added their row (`RateInv`); a code's attempts are the guesses made, and one that
  was redeemed is used, so that only calls which had found it before can redeem
  it again (`TryInv`). Visits: while there is a recent row, no new call passes the
  look, and a call leaves with the row it adds (`ViewInv`). Saved searches:
  `SearchInv`.
- `FiguresThm`. Favorites: to bound the counter from both sides, the invariant
  counts rows against insertions as well (`HeartInv`): a row that is there was
  inserted, and an insertion is the counter's rise or a call that has still to
  count it. Views: the counter and the calls on their way to it move together
  (`ViewInv`); a row falls into one bar of the chart and no other, for any length of
  a day (`ViewChart`). Reviews: since the first query the number of rows moved by no
  more than was written (`SkewInv`), and the bars of the second add up to the rows
  (`BarsAddUp`).
- `GrantsThm`: a call holds a code that was live when it found it, and a PIN
  token was signed while its code lived (`CodeInv`); the badge is written by the
  call that decided.
- `CasesThm`. Requests of verification: each settled one lets every call at work
  ask once more, and if the newest is settled none has used that chance yet
  (`QueueInv`, bounds that are products of calls and settled requests). Verdicts
  are sent at most once per call that opened the request while it waited
  (`VerdictInv`). Reports: while one is open nobody has told of this round, so all
  notices so far belong to earlier ones (`RoundInv`).
- `SessionsThm`: ids are given out in order, so nothing is known of one that
  nobody has (`WelcomeInv`); no token reaches further than a refresh period
  (`BanInv`); a process's cache is no later than what was written (`TouchInv`).
- `ExportThm`: all in range up to the cursor was sent, and nothing beyond it
  (`SentInv`). That batches take the least rows is a fact about cardinalities and
  needs a least and a greatest element of a finite set (`Least`, `Greatest`, by
  well-founded induction).
- `ToldThm`, `OptOutsThm`, `PushesThm` of notifications: a recipient is still on
  the list, or in one call, or has been told (`OnceOf`), and unsent until then;
  whoever is past the preference gate was willing at some time (`WillOf`); a token
  row names who holds the device (`HeldInv`); every send that did not end its job
  cost a stall (`JobInv`).
- The digests in `ToldThm` and `OptOutsThm`: a digest in progress is of this
  instant and has found exactly the activities of its week, but for the jitter
  around midnight (`RunOk`); an activity well inside a week was told of exactly if
  the digest with its key was mailed (`DigestInv`), and was, if nothing stopped the
  runs (`SmoothInv`). Weeks are quotients, so this rests on lemmas about division by a
  constant that is not known (`WeekFound`, `SameWeek`).
- `FollowersThm`, `RepeatsThm`. Whoever was told by a pass that did not fail was
  told before a batch that is on record, about to be, or too old to matter
  (`HeardInv`). A listing is recorded again only while no batch covers it, that is,
  when it was created during the pass (`ListingInv`). For whom a listing is still
  due, the last pass was gated by a batch from before the listing (`DueInv`);
  this is where the look-back must be the interval and an hour at least, which
  24 h and 6 h are, since the pass that looks can be an hour after the gate opens.

**Assumptions.** Each component names what it needs of its constants (finite sets
of actors, natural numbers, and the order of its periods as in the code:
a cooldown within the window, an access token no longer than a refresh token, a
jitter shorter than the week, `MinInterval + Hour <= Lookback <= Retention`
for 6 h, 24 h and 30 days), and the family assumes them together, as
`SalesAssumption`, `PeopleAssumption` and `CatalogueAssumption`, which TLC evaluates
on the runs. The inductive invariant of a family is the conjunction of those of
its parts, each under its `part`.

**Checked by TLC only**, and why:

- `JobsSettle` is liveness; the system proves neither that nor ENABLED.
- `PeriodsTile`: the chain of cycles is a recursive function, and induction over
  data is not available; the dates are `CHOOSE`n from a table of years.
- What the violation runs refute.

## Found while modelling, and not stated as a property

Steps the models have, and on which the code promises nothing, or something
smaller than a doc suggests:

- `changePlan` can leave a paid plan without a payment, and `activateBoost` a
  boost without a ledger row, if the process dies between the two calls.
- Two promo updates validated against the same cached row can leave a window
  that ends before it starts; such a promo is never active.
- A ban whose second call is lost leaves the listings visible. Lifting a ban
  shows every hidden listing of the seller, those the seller or a moderator had
  hidden before included.
- A listing whose insert commits after a pass with a later timestamp has looked is
  never announced: the next pass looks from that timestamp on.
- Only the newest verification request is looked at before a new one is stored,
  so a user can have several pending. A report that is reopened and resolved
  again notifies its reporter again.
- The sweep collects references first and lists the bucket later; between the
  `deleteMany` of an image update and the write of the new rows, no row refers to
  files that are about to be referred to again.
- A listing whose DAILY slot was saved under a promo keeps it: after the promo a
  STAR seller's job selects weekly slots only, and that one is never bumped until
  the list is saved again. Saving the pool bumps what is new in it at once.
- `prefsFor() ?? default` in the notification gate never takes its default,
  because a promise is not null. The push queue's three attempts are one:
  `sendToUser` never throws. A token dropped for `DeviceNotRegistered` may have
  been registered again by someone else meanwhile.
- An export that fails is not audited, although "every download" is meant to be; if
  the row at which a batch ended is deleted, the next batch can lose a row or end
  the export.
- Without a tie-breaker in its order, a search can repeat and lose listings bumped
  in one moment; the similar ones that fill up a page may be on other pages too.
- Dropping a tile whose listing went off show can put two tiles of a seller next
  to each other. The doc's "every product appears at least about twice per seven
  days" fails for sellers with many listings; `NoneLeftOut` states what the
  selection gives.
- `acceptSuggestion` does not look at the status of what it accepts; a dismissed
  title is suggested again by the next analysis.
- The chart of churned plans sees only users not downgraded yet. `adminUpdate`
  reprices without telling watchers. A client that pages through "see all" by more
  than 50 skips listings, since `skip` counts in the size it asked for.

## Not modelled, and the plan

- Plain reads (listings of a seller, similar products, admin tables, counts of
  `planStats`), the notification list of the app, the weekly summary for admins,
  boost prices and the boost-expiry notice: single statements that no other step
  depends on.
- The sweep of the legacy disk directory follows the rule of the bucket's sweep and
  is not a second model; the analyzer's detectors are any set of titles; how
  similar listings are found is left open.
- Templates and rendering, CSV columns, the token library, Google's answer, guards,
  GraphQL wiring, categories, roles beyond the default one, audit and health: no
  state that several steps could break.
- Seeding and migrations: run once, by hand.

What is left to prove: `PeriodsTile`, should induction over data become available;
its calendar is a table of dates, so a proof would be about the rules of the
calendar instead.
