# CrowdSorcerer: TLA+ models, model checks and proofs

CrowdSorcerer is a marketplace API (FastAPI over PostgreSQL, `src/apps/api`). Requesters spend
credits on AI tasks and on human tasks; workers claim human tasks, answer them and are paid.
Around that core there are pipelines of tasks, organisations, teams, leagues, webhooks and a
sweeper in every replica. This directory models the parts of the API in which several requests,
sweeps and background coroutines touch the same rows, checks the models with TLC and proves their
main properties with TLAPS. Paths below are relative to `src/apps/api`.

1. [The system](#1-the-system) - how a step becomes a step, components, what is hard
2. [Modules](#2-modules) - which module models what, and how
3. [Runs](#3-runs) - what is checked, bounds, fairness
4. [Proofs](#4-proofs) - what is proved, and by which argument
5. [What the models show about the code](#5-what-the-models-show-about-the-code)
6. [Not modelled](#6-not-modelled)

## 1. The system

### How a step of the program becomes a step of a model

The API is a set of replicas over one PostgreSQL database at READ COMMITTED. Nothing is shared but
rows. A few facts about SQLAlchemy and PostgreSQL decide what an action is:

- A handler that takes every row it decides on with `SELECT ... FOR UPDATE` is one action, at its
  commit.
- A handler that reads a row without the lock is a *Read* action, which keeps what it saw in its
  session, and a *Commit* action, which writes. Anything may happen between the two.
- A flush writes only the columns whose value differs from the one the session loaded, so a stale
  session overwrites the columns it changed and keeps the others (`Flush` in `HumanTask`, `Write` in
  `Standing`). Sessions have `expire_on_commit=False`, so an object also stays as it was read across
  a commit, and a later `SELECT ... FOR UPDATE` of a loaded row locks it but does not refresh the
  object.
- A row that is inserted twice meets a unique constraint: the second insertion waits for the first
  and then fails. An `UPDATE` of a row that is gone raises; a `DELETE` of one only warns.
- A request that raises rolls back its open transaction and nothing it committed before.

Work that outlives a request (running an AI task, the first delivery of a webhook, the executor of
a pipeline) is an asyncio task in the memory of one replica (`core/background.py`): it dies with
its process. Two loops per replica bring rows forward: the sweeper (`core/sweeper.py`) and the
webhook retry worker (`core/webhook_retry.py`).

Many handlers of this code base read without a lock and write later, and some of their promises
hold only while nobody else commits in between. Where that is so, the model counts the commits
that wrote by an outdated copy in a history variable (`raced`, `late`, `stale`, `drift`,
`slips`, ... each described where it is declared), and the property says exactly how far the
promise then gives way: a cap is passed by at most one for each such commit, a sum is exact when
there was none. A bound on the history variable keeps the instance finite and is named with the
constants. The properties therefore say what the code promises under overlap, not that overlap
is harmless; what it costs is listed in section 5.

### Components

`PROJECT.json` lists the components with their sources, and under `hazards` the places where each
can go wrong in ways a test would hardly reach, with the properties that cover them.

| Component | State | Hard, because | Correct when | Modules |
|---|---|---|---|---|
| **Human task lifecycle** `routers/worker.py`, `tasks.py`, `disputes.py`, `core/sweeper.py` | task row, assignment rows, credit transactions | some handlers lock the task, others write it from a stale read; consensus runs in a second transaction | slots are never over-assigned; each answer is paid once and refunded at most once; a completed task has the winner's output or a dispute | `HumanTask`, `SlotEscrow` |
| **AI task execution** `routers/tasks.py`, `core/background.py` | task row, coroutines in memory | the row says `queued`, the runner is in memory; retries and sweeper write unlocked | every queued task has a runner; lost work is refunded; it comes to an end | `AiTask` |
| **Credits, payouts, bonuses** `routers/payouts.py`, `onboarding.py`, `referrals.py`, `services/credit_ledger.py` | balance, transactions, payout requests, award flags | checks before and after locks on different rows | transactions explain the balance but for three named stale writes and the pool's; held credits come back once; a bonus is paid once | `CreditAccount` |
| **Webhook delivery** `core/webhooks.py`, `core/webhook_retry.py`, `routers/webhooks.py` | queue rows, counters, batches in memory, secrets | claim, post and settlement are three transactions; replicas compete; secrets are rotated meanwhile | a row is worked on once; attempts keep to the budget; a receiver can verify what arrives | `WebhookRetry`, `Endpoints` |
| **Pipelines** `routers/pipelines.py`, `routers/triggers.py` | runs, step runs, executors in memory, triggers | executor, cancel, retry and completed human steps race | one thread per run, steps in order and paid for once; no trigger runs twice | `Pipelines`, `Triggers` |
| Task dependencies, scheduling `routers/task_dependencies.py`, `core/sweeper.py` | edges, pending tasks | two sweeps on one task, edges added meanwhile | a task is started once, after its upstreams | `Deferred` |
| Applications, invites `routers/applications.py`, `worker_marketplace.py` | applications, invites, assignments | four ways to a claim, each with checks of its own | an answer hires once; the cap of claims is passed only by overlap | `Hiring` |
| Teams `routers/worker_teams.py` | teams, members, invites | almost no locks | one owner; the limit of members is passed only by joins that overlap; nothing of a deleted team is left | `Teams` |
| Gamification `routers/leagues.py`, `challenges.py`, `quests.py`, `badges.py` | streaks, quests, seasons | sweeps in every replica beside submissions | rewards are earned, and paid again only to claims that overlap; a season is settled once | `Progress`, `League`, `Showcase` |
| Quality, reputation, skills `routers/reputation.py`, `ratings.py`, `quality.py`, `skills.py`, `certifications.py` | derived numbers on the worker's row | computed from rows read earlier | they stand for the rows they come from | `Standing`, `Skills` |
| Organisation pools `routers/orgs.py`, `services/credit_ledger.py` | pool, members, tasks billed to it | locked reads do not refresh; payer chosen twice | credits are conserved, up to stale writes | `OrgPool` |
| Stripe events `routers/stripe_webhooks.py` | event log with a unique key | at-least-once delivery, partial failure | a payment is credited at most once | `StripeEvents` |
| Sign-in `core/refresh_tokens.py`, `routers/auth.py`, `oauth.py`, `two_factor.py` | token families, links, codes | unlocked rotation; every request writes from its copy | one live token per browser; links and codes are taken once | `RefreshTokens`, `Access` |
| Limits `core/api_key_rate_limit.py`, `core/quotas.py` | buckets per key | windows end while calls are under way | a window lets through no more than its limit | `Limits` |
| Notices, talk `core/sweeper.py`, `routers/comments.py`, `task_messages.py`, `saved_searches.py` | digests, alerts, comments, messages | every replica sends; rows vanish meanwhile | told once; nothing refers to what is gone | `Notices`, `Talk` |
| Monitors, cache, templates, experiments, onboarding | counters, alerts, cached results | replicas and lost updates | see the modules | `Monitors`, `ResultCache`, `Templates`, `Experiments`, `Welcome` |

Interactions: creating a task charges through the ledger, cancelling and failing refund through it;
a submission pays the worker, may pay a referral bonus, advances quests and leagues and may resume
a pipeline; every change of a task fires webhooks; the sweeper hands scheduled AI tasks to runners,
starts waiting tasks, reopens human tasks, settles seasons, fires triggers and sends digests.

## 2. Modules

Definitions marked `\* mutant` next to a definition are its broken forms, used to confirm that each
checked property can fail; no specification uses them.

**One task.** `SlotEscrow` is the abstract specification: what a human task promises about money,
an escrow of slots. `HumanTask` implements it.

In `HumanTask`, `task` is the row of `tasks`, `asg` the rows of `task_assignments`, `earnings`,
`rejects` and `refunds` count the credit transactions of each kind, `sess` holds what every open
session read.

| Code | Actions |
|---|---|
| `claim_task` | `Claim` (task locked: one action), with `AlreadyClaimed` and `SlotFree` |
| `submit_task` | `Submit`, `SubmitLate`; then `Consensus` in the second transaction, on the object of the first |
| `release_task` | `Release` |
| `sweep_once` | `SweepRead` (rows locked with SKIP LOCKED, task and held slots read unlocked), `SweepCommit` |
| `_sweep_scheduled_tasks` | `Activate` |
| `cancel_task` | `Cancel` (locked) |
| `bulk_cancel_tasks`, `bulk_task_action` | `BulkCancelRead`, `BulkCancelCommit` |
| `bulk_archive_tasks` | `BulkArchiveRead`, `BulkArchiveCommit` |
| `approve_submission` | `Approve` (the assignment is all it decides on) |
| `reject_submission` | `RejectRead`, `RejectCommit` (task read before the assignment's lock) |
| `resolve_dispute` | `ResolveRead`, `ResolveCommit` (nothing locked) |
| `get_db` | `Rollback`: any session may end without a commit |

Time is abstract: `Expire` says that `timeout_at` has passed. A handler that needs a row the
sweeper has locked waits, which is the guard `a \notin HeldBySweep`.

In `AiTask`, `status` is the row, `runner` the coroutines: `_run_task`, which locks the row and
looks at the status (`StartRun`), and `_run_scheduled_ai_task`, which does neither
(`StartScheduled`). `sess` is what each bulk request is about to do. `Lose` is a runner that never
starts, or whose error path raises too; `Crash` is a restart. A cache hit and a computed result are
both `Completed`.

**Money.** In `CreditAccount` every handler is a session: it reads (`...Read`), perhaps holding a
lock, then commits. `UserFree`, `PayoutFree` and `ReferralFree` are the row locks: a handler that
asks for one waits. Three writers work from an outdated user: `buy_streak_freeze`, which takes no
lock (`FreezeCommit`); the executor of a pipeline, whose one user object outlives its steps
(`RunRead`, `RunCommit`: the first step reads, later ones only lock); and the referral bonus when
the referrer is the task's requester, whom `submit_task` has read already (`NotifyRead`,
`AwardCommit`). What such a write takes back, or brings back, is added to `drift`. `PoolMove` is a
transaction that an organisation's pool paid or got back and that is booked to the user (`pooled`).

`OrgPool` has an organisation with its members and invites, its pool, and the tasks it pays for; a
request about the pool writes from the row that its role check loaded (`stale` counts the losses).
A batch of tasks is paid for by its user in one commit, less what the rows that fail would cost
(`CreateBatch`). Of a task it has what moves its cost: the handlers that lock the row (`CancelTask`,
`AssignTask`, ...), the coroutines that run it (`StartTask`, `StartScheduled`, `Finish`), and those
that read it unlocked and write later, each a hand (`TakeUp`, then `BulkCancel`, `BulkRetry`,
`ReopenTask`, `SettleTask` or `Reject`). `paid` is what was paid for a task less what came back for
it, and `past` counts the retries, answers, rejections and crossings that it may differ by. `Billed`
is `CANCELLABLE` of `delete_org`: assigned tasks go on, without an organisation.
`StripeEvents` extends it with payments: an event is logged under its unique id and applied in
another transaction; when no user is found for it, it is logged as processed and credits nobody
(`Unmatched`), which takes a second checkout that made a customer meanwhile (`CheckoutRead`,
`CheckoutCommit`).

**Delivery and limits.** In `WebhookRetry`, `inline` is the coroutine that makes the first attempt;
`row` the queue row of each delivery; `batch` what a retry worker has claimed and not finished;
`hand` the item it posted and has not settled. `Poll` is the claiming transaction, `Post` the HTTP
request, `Settle` the transaction that follows; `SettleFails`, `Raise`, `PollerLost` and
`InlineLost` are the ways these fail, each counted in `faults`. `Endpoints` has the secret of an
endpoint, its rotation, and what test calls, deliveries, queued retries, replays and manual retries
are signed with. `Limits` has the buckets of an API key, whose upsert locks the row until the call
commits, and the cap on pipelines. `Notices` has digests, those an administrator orders by hand
included, and alerts for watched tasks.

**Pipelines.** In `Pipelines`, `run`, `step` and `link` are the rows of a run, its steps and the
tasks of its human steps; `exec` holds the executors, each with the copies its session has
(`seen`, `mine`), `due` the completions of human steps whose resumption is still to be called,
`leaving` the cancel requests that read the run. Starting, retrying and firing spawn an executor;
it reads the run again before each step; opening a human step's task ends it, and the completion of
that task starts the next one. `extra` counts repeated completions of a human step (an approval or
a second completion after a rejection), each of which adds a thread to the run. `Triggers` has what
fires a run: the sweeps of the replicas under their locks, the owner or a webhook without one.

**Waiting and hiring.** `Deferred` has tasks that wait for a time or for other tasks, the edges
between them, and the sweeps that start them or raise their priority. `Hiring` has the four ways to
an assignment, over several tasks and workers, invitations by the dozen included; `HumanTask` has
the rest of an assignment's life.
`Teams` has teams, members, invitations and reserved tasks.

**A worker's record.** `Progress` has the day streak with its freezes and sweep, the daily challenge
and the quests: a claim reads a finished quest without a lock, then locks the worker and pays
(`ClaimQuestRead`, `ClaimQuest`), so `paid` counts the payments and `crowd` the claims that were
under way at once; `League` the weekly groups and their settlement, whose season is created by the
first worker who joins it or looks at it; `Standing` strikes, score, ratings and gold answers;
`Skills` the profile of one type of task, its quiz and certification; `Showcase` pinned work,
endorsements, badges, hours and referral codes.

**Around the work.** `RefreshTokens` and `Access` have signing in: token families; passwords, links
and the second factor. `Monitors` has the low-balance alert, which `create_task` gives and other
charges do not (`CreateTask`, `ChargeUntold`), and the alerts about a replica: a pass that fails inside
`sweep_once` is caught there and counts as a success (`Sweep`), an alert has a cooldown in memory,
which also starts when its row could not be written, and a restart forgets it (`lapsed`).
`Templates`, `Experiments`, `Talk`, `ResultCache` and `Welcome` are named for what they model; their
first lines say which files.

**Instances.** Modules that share no state are checked together: an `MC` module extends them, and a
variable chosen in its first state (`kind`, `part`, `ways` or `area`) says in which of them a
behaviour moves, so that the state space is the sum of theirs and not the product.
`MCHumanTask`, `MCCreditAccount`, `MCWebhookRetry` and `MCPipelines` have one module each; `MCTasks`
an AI task and a human task under fairness; `MCWorkers` `Hiring`, `Teams`, `Progress`, `Standing`
and `Skills`; `MCUpkeep` `Deferred` and `League`; `MCAccounts` `OrgPool`, `StripeEvents`, `Limits`,
`RefreshTokens`, `Endpoints` and `Notices`; `MCFeatures` the nine others. Where the parts of one
module would multiply, they are areas of their own: `OrgPool` moves in `members`, `pools`, `payments`
(with `StripeEvents`) or `work` (the handlers of a task), `Monitors` in `sentries` (two replicas whose
sweeps end well), `desk` (one whose sweeps may fail, while its requests do not) or `wallet`. As only one area moves, the same
model values serve in all of them and one symmetry set exchanges them everywhere. Rows that are
alike are used in one order where that is said (`InOrder`, `ItemsInOrder` and the like).

**Proofs.** `HumanTaskProofs`, `CreditAccountProofs` and `PipelinesProofs` are each about one
module, `UpkeepProofs` about `AiTask`, `Deferred`, `League` and `WebhookRetry`, `AccountsProofs`
about the six modules of `MCAccounts`, `WorkersProofs` about the five of `MCWorkers`,
`FeaturesProofs` about the nine of `MCFeatures`. `Sums` holds the facts about sums over finite sets
that the last ones use.

## 3. Runs

| Run | States | Properties | What it shows |
|---|---|---|---|
| `HumanAnyFirst` | 675,309 | `SlotsKept`, `OutputIsWinners`, `EscrowSpec` | On a task of two slots with `any_first`, in every interleaving of all handlers: no over-assignment, the counter accounts for the money, the output is the winner's; the task implements `SlotEscrow` |
| `HumanMajority` | 1,524,674 | `PayOnce`, `DecidedOrDisputed` | With `majority_vote`: one claim per worker, one payment per answer, one refund per rejection; no completed task lacks both an output and a dispute |
| `HumanDoubleRefund` | violated | `RefundedAtMostOnce` | section 5 |
| `Tasks` | 59,979 | `NoneLost`, `Settles`, `ExpiredClaimEnds` | Refunds of lost work; without faults the hand-over from row to runner and the end of an AI task; an expired claim is ended though sweeps fail now and then |
| `CreditAccount` | 2,679,528 | `BooksBalance`, `PayoutsKept`, `LockedAwardsOnce` | The books, off by the named stale writes and by no other; one open payout, held credits returned once, final payouts, locked awards paid once |
| `WebhookRetry` | 176,690 | `QueueKept`, `Delivers` | Rows held once and kept, the budget of posts, counters, dead letters, without faults every queued delivery ends |
| `Pipelines` | 209,598 | `RunKept`, `Progress` | One thread per completion, steps in order and paid for once per thread, a retry pays for the rest; without faults (only then) every run ends or waits for workers |
| `Workers` | 1,084,386 | `HiringKept`, `TeamSound`, `ProgressKept`, `StandingKept`, `ProfileKept` | Hiring, teams, streaks, quests and their payment, derived numbers, skills and certificates |
| `StreakFreeze` | violated | `FreezeProtects` | section 5 |
| `Upkeep` | 144,695 | `OncePerTask`, `SeasonOnce`, `DependenciesFirst`, `Unblocks`, `SeasonEnds` | Two replicas start, raise and settle once; upstreams come first; waiting tasks and ended seasons are dealt with at last |
| `Accounts` | 888,723 | `PoolKept`, `AppliedOnce`, `RateKept`, `SessionKept`, `SecretsKept`, `NoticesKept` | Pools, what is paid for an organisation's task and given back by locked and unlocked handlers, payments, limits, token families, signatures, notices |
| `Features` | 751,069 | `AccessKept`, `TemplatesKept`, `ExperimentKept`, `TalkKept`, `ShowcaseKept`, `MonitorsKept`, `TriggersKept`, `CacheKept`, `WelcomeKept` | Nineteen areas around the work, with two requests, or two replicas, at once of which one may write by an outdated copy and either may die |

### Bounds

- *Human task.* Two required slots and three assignments: the smallest in which a slot is taken,
  lost or rejected and taken again while the other is in use. Two sessions are two stale readers at
  once besides the locked handlers, which need none. One non-empty answer and the empty one make
  votes agree, differ and be ignored. The any_first run has three workers, since a worker that
  released may come back only as another row. No counter is capped: assignment ids run out.
- *AI task.* Three runners bound how often the task can be queued (first run and two retries), two
  bulk sessions make two stale retries. `MaxAiFaults` is 1: the properties that hold only without
  faults are stated for `aiFaults = 0`, and one fault shows that the others survive it.
- *Credits.* Two sessions, two payouts, amounts 1 and 2; `Ceiling` caps the balance an earning may
  reach, `MaxClaims` how many awards are claimed, `MaxPooled` the pool's charges booked to the user
  and `MaxDrift` what stale writes made of the balance, so that it is finite; one freeze. A drift of
  2 is one stale write over any of the movements, or two over the smallest. Two payouts are what one
  open payout needs. One onboarding step is enough for two requests that both complete the last one.
- *Webhooks.* Three deliveries, two of them for the deletable endpoint, with batches of two, so that
  a batch can be full and leave a row to the other of two workers. `MaxRetries = 3` is the code's
  default: one inline post and two queued ones. One fault.
- *Pipelines.* One run and one retry of it, over four definitions: linear with a human step in the
  middle, branching with a conditional step and a retried one, a loop, a human step that returns to
  itself. Three executors, two human tasks, one repeated completion, one fault.
- *Workers.* Two tasks (two slots to claim, one by application), two workers, two requests at a
  time, a cap of one claim; a team of two with three candidates; six days in weeks of three; two
  strikes, three ratings, two gold tasks, three works. The histories of stale writes are bounded by
  one.
- *Upkeep.* Three tasks, two replicas, one editor of edges; two players, two tiers, two weeks, where
  looking at the league creates a season in the first week only, before anybody joined, one request
  at a time (`OneView`; the theorem about `League` has no such bound).
- *Accounts, Features.* Two requests, two of each row that can conflict, three where a third makes a
  difference (tokens of a family, comments of a thread, calls in a window), and one stale write. In
  `Accounts`, `MaxPast = 2` and `MostPast = 3` allow two retries, answers or crossings of a task, three
  together, so that it can be lost and refunded, retried, and lost again, with two hands that read it
  unlocked; `MaxLosses` is two
  failures of payments, a death and a lost answer. In `Features`, two replicas watch, `MaxLapsed =
  1` of their cooldowns of each kind is over or forgotten, and balances and thresholds are small
  enough to cross.

Deadlock is not checked: a finished task, or an account out of ids, may stop.

### Fairness

- `Tasks`: for the human task time passes (`Expire`), open sessions end, the sweeper's loop starts
  again after each pass (`run_sweeper` catches everything and sleeps). Starts and commits of passes
  have strong fairness: a pass may fail, but not for ever. Nothing makes a worker or requester act.
  For the AI task a coroutine in memory runs on, and the sweeper activates. Faults are not fair;
  `Settles` is promised only to behaviours without them.
- `WebhookRetry`: coroutines run on, time passes, and each worker's loop polls and works its batch
  off. `Delivers` too is promised to behaviours without faults.
- `Pipelines`: the event loop keeps running some coroutine it holds, which is less than it grants.
- `Upkeep`: the sweeper repeats its passes for ever, and of the passes of each sweep not all fail
  (strong fairness of reading and of committing). Nothing makes users act, weeks end or upstreams
  finish.

## 4. Proofs

All theorems hold for every value of the constants that satisfies the named assumptions (finitely
many assignments, `Required` positive, names apart from `NULL`, and the like): for any number of
sessions, replicas, tasks and users, and any bounds on the histories. Each safety proof has the same
form: an inductive invariant holds at first, is kept by every action, and implies the property.

**HumanTaskProofs.** `TypeCorrect`. `PaySingle` (`PayOnce`, with `RowsKept`), for every strategy, from
the inductive `RowInv`. None of its parts is inductive alone. Pay is single because only an active
row is submitted; that a sweep does not time out a submitted row needs `RowsKept`, that the rows a
sweep holds stay active until it commits. `SlotsBounded` (`SlotsKept`), for `any_first`, from
`SlotInv`: a rejection that saw the task completed saw `Required` slots counted and meets a count
of at least `Required - 1`, so that what it writes never frees two slots for one refund.
`EscrowImplemented` (`EscrowSpec`): every step of such a task is a step of `SlotEscrow`, or a
stutter; a claim finds room in the escrow because a paid slot is counted or refunded.
`CompletedIsDecided` (`DecidedOrDisputed`), for every strategy, from `DecideInv`: an output is
never taken back, so the copy of the row that a session holds can only know less of output and
dispute than the row does (`KnowsLess`). That is why a column left out of a flush, because the copy
agrees with it, still holds what the flush relies on. `WinnerAnswered` (`OutputIsWinners`), for
`any_first`: only a submission writes winner and output, and an answered row keeps its answer. For
a consensus strategy it is false: a second consensus whose copy already has the same output writes
only the winner over another session's output.

**UpkeepProofs.** `AiTask`: `NeverDropped` (`HandedOver`), `LossesRefunded`, together `NoTaskLost`
(`NoneLost`). `Deferred`: `OpenedOnce` (`OncePerTask`) and `DependenciesRespected`
(`DependenciesFirst`, an action property), from the rows a pass has locked and read (`RowsApart`,
`AsRead`). `League`: `SettledOnce` (`SeasonOnce`), from the season's lock. `WebhookRetry`: `RowInv`
joins the rows workers hold with what is true of hands, of deliveries whose inline attempt is not
over, and of deleted endpoints. `BudgetInv` carries the count of posts: the attempt number of a row
that waits, or is held and not yet posted, is the number of posts but for repetitions, one per
fault; for a posted item it is one less. `CountInv` adds that nothing is counted before the inline
attempt is over. Together: `QueueSafe` (`QueueKept`).

**CreditAccountProofs.** `LockInv` says what locks give: a session that holds the user's lock is
alone, and the balance it read is the balance. From it follow the types (a charge never makes the
balance negative) and `Booked` (`BooksBalance`): a commit under the lock that was held since the read
moves balance and books alike, a pool's transaction moves `pooled` with the books, and the three
stale writers move `drift` by what they wrote over. `PayoutInv` says that a request is under way only
while nothing is open and that a cancel or review holds an open payout alone: `PayoutsSafe`
(`PayoutsKept`), `Final`. `AwardInv` ties each flag to its number of awards and makes a locked
award's session alone and early: `AwardsSingle` (`LockedAwardsOnce`). The onboarding bonus has no
such invariant, see section 5.

**PipelinesProofs.** `PipelinesTyped`, and `RunsKept` (`RunKept`), for any step lists, from `RunInv`.
A thread is a token: an executor stands at its step, an open task or a resumption to be called
behind the step of the task. `N(r, P)` counts the tokens of a run at positions `P`. Every step of the
program is of one of a few kinds (an executor goes on, ends or opens a task; a human step moves; a
resumption is called; a run is made; a crash), and none raises `N(r, P)` for a `P` closed downwards
by more than the completions repeated (`FewerNext`): that bounds the threads (`ThreadsCounted`) and,
where no branch leads back, the charges of a step with the tokens still before it
(`ChargesCounted`). The difficult part is the retry: that it pays again for nothing its parent paid
for. `Accounted` says that when every token of a run has paid for step `i` or is still before it, each
step up to `i` is done or has a token that will write it. A retried run with a step paid for by
everybody has no token before it, so all up to it is done and the retry starts behind it (`Retried`).
The rest is `Shape` (an executor's copies, links of one task to one step), `Waits` (what holds a run
that says running), `Ordered` (with one thread, what lies before it is done) and `LateCounted` (the
executors that may still pay after the end).

**Sums.** A sum over a set (`MapThenSumSet`) is defined by recursion over subsets, with elements
chosen one by one. The module shows for functions of integers on finite sets that this recursion has
a solution, that it does not matter which element goes first (`PartialTakes`), and what follows: the
sum moves by the difference when one summand changes (`SumMoves`), by the summand when an element
comes (`SumGrows`), and counts where all summands are 0 or 1 (`SumCounts`). The library's induction
theorems cannot be instantiated by the installed provers, so each induction looks at a smallest
counterexample, which exists because `<` on `Nat` is well founded (`LeastNumber`, `SmallestSet`).

**AccountsProofs.** `PaymentAppliedOnce` (`AppliedOnce`), from `StripeInv`: whoever holds the
event's insert is alone, and an event that is applied is logged. `SessionsKept` (`SessionKept`),
from `TokensInv`, eight parts: a browser that rotates one call at a time holds the family's one live
token, or an answer on its way holds it. `LimitsHeld` (`RateKept`), from `CallsInv` and `MakersInv`:
`Tallied` weighs what a window has let through against its counter and the strays, one holder of the
row's lock at a time (`OneHolder`). `SecretsSafe` (`SecretsKept`), from `SecretsInv`: while
rotations keep apart, `History` knows every secret that still counts, and a row read for a letter
holds the last two with the end of the grace. `NoticesSound` (`NoticesKept`), from `MailInv`: the
mails to a user and those a replica still has to send are no more than the replicas that took the
day's list and the upsets (`MailsCounted`); and from `WatchInv`: a watched row that a sweep has
read, and that no other sweep has alerted since, had no alert within the day. `PoolSound`
(`PoolKept`), for any users, tasks, amounts and payments, from `PoolInv`: as long as no write was
stale, what users hold, the pool and the cost of the tasks not refunded are the initial funds and
`Topup` for each payment applied (`Books`), so that each step moves one summand by what another
loses; a write by an outdated copy is one the history counts as stale. That a task's cost comes
back when it is lost and only then (`RefundsFit`) is proved of every handler that may refund or revive
it: the difference between what was `paid` and what its status asks for stays within its retries,
answers and crossings. Payments come from `StripeInv`.

**WorkersProofs.** `TeamsSound` (`TeamSound`), from `TeamInv`: what a request read and has not acted
upon, with the count of those that acted meanwhile, bounds the members beyond the limit.
`HiringSafe` (`HiringKept`), from `HireInv`: of the rows that an open desk decided upon, which can
still be changed by others and how often they were. `ProfilesKept` (`ProfileKept`), from `SkillInv`
and `CertInv`: one holder of a row's lock, counts as read by it. `StandingSound` (`StandingKept`),
from `StrikeInv`, `RatingInv` and `GoldInv`: what a request read, and the score it computed, is still
so if no other has committed since (`NothingMissed`). `ProgressEarned` (`ProgressKept`), from
`ProgressInv`: a streak's last day closes an interval of days worked as long as the streak
(`StreakTrue`), each quest's value is bounded by the work of its kind (`QuestsTrue`), and a quest's
payments and claims under way are no more than were ever under way at once (`PaidTrue`,
`ClaimingCounts`).

**FeaturesProofs.** `WelcomeSound` (`WelcomeKept`): bonuses paid are one for the row's flag, one for
each reset and one for each outdated copy. `CacheSound` (`CacheKept`): what a caller holds was the
row's result at the time of its read. `TriggersSound` (`TriggersKept`): the runs for a time, counted
against locks held, hands under way and edits. `MonitorsSound` (`MonitorsKept`), from `DeskShape`,
`AlertsCounted` (alerts against cooldowns that run, ended or were forgotten), `CausesKept`, `LogKept`
and `WalletKept`. `AccessSound` (`AccessKept`), from what each request knows of
the account (`AsksTrue`), of links (`LinksTrue`), of codes (`UsesTrue`, `FactorTrue`) and of token
versions (`VersionsTrue`). `ShowcaseSound` (`ShowcaseKept`), from `PinsKept`, `BadgesKept`,
`WeekKept` and `HostKept`: a pin over the cap is of a visit that met another, a friend's first
submission is under way once, and until visits meet the pending and paid referrals are counted by
the friends' states. `TemplatesSound` (`TemplatesKept`): whoever rates has the row to himself as
read (`LockKept`), so its sum and number move with the ratings; the uses, imports and libraries that
the other requests read lag behind what was counted since (`Lagging`). `ExperimentsSound`
(`ExperimentKept`): a counter read is never ahead of the enrolments and outcomes (`ReadsBehind`), so
an outdated write can only lose some, and the last outcome recorded of a task is its row's
(`LastTold`). `TalkSound` (`TalkKept`): a request to comment, or to save a search, read room for one
more, so the limits are passed by no more than the requests that crossed; what a deletion takes is
closed under replies, so no reply is left without its comment; whoever alerts about a task is alone
and has found nobody alerted (`Alerting`); the notices written and those still to be written are no
more than are due.

The proofs changed the models where a statement was false beyond the small instance:

- `AccessKept` first counted a write as stale when the row differed from the copy in value. A value
  can come back by a stale write, so a link could be taken three times with one such write counted.
  Requests now carry `late`, set when another request commits, and the history counts writes by late
  requests.
- `InOrder` promised that the steps of a linear pipeline run in order, whatever happens. With a step
  after the ones a repeated completion goes over again that is false: the second executor sets an AI
  step back to running while the first has gone on to the next. The instance's pipelines were too
  short to show it. It is now promised of runs whose human steps were completed once. `Threads`
  counted the resumptions to be called as a sum over tasks; it now counts them as a set.
- Assumptions that every instance met had to be said: the names of missing values lie apart from
  those of real ones (`Teams`, `Access`, `Pipelines`, `Templates`, `Experiments`, `Talk`), a guide
  has steps (`Welcome`), quiz levels need positive volumes (`Skills`), what is counted or summed
  over is finite (`Notices`, `Showcase`, `OrgPool`, `StripeEvents`, `Templates`, `Experiments`,
  `Talk`, the shoppers of `Progress`, the replicas of `Monitors`), designs and items are different
  rows (`Templates`).
- The replies that go with a comment were followed by a recursive operator, which no module with a
  proof may reach. They are now the least set that holds the comment's late replies and, with a
  comment, its replies (`Under` of `Talk`), which is what the foreign key's cascade says.
- Some `CASE` guards overlapped (`CreatePipeline` of `Limits`, `Alert` of `Notices`, the view of a
  request in `MCFeatures`). TLC takes the first that holds, the logic leaves open which: the provers
  could use neither. The guards are now disjoint.

**Only model-checked**, and why (every safety property of the passing runs, invariants and action
properties, has its theorem):

- Liveness: `Settles`, `ExpiredClaimEnds`, `Delivers`, `Progress`, `Unblocks`, `SeasonEnds`.
  Fairness and `ENABLED` are beyond the prover.
- What liveness and `HandedOver` leave out: they speak of behaviours without faults. A restart that
  loses coroutines (AI tasks, inline deliveries, executors of pipelines) or a retry worker that is
  gone leaves rows that nobody takes up again, and no property says otherwise; the hazards about it
  carry a note instead.
- `unanimous` and `requester_review` are in the model and in the proofs for every strategy, but no
  run instantiates them.

## 5. What the models show about the code

Confirmed by a violated run, each against a sentence of the repository:

- **Two refunds of one task** (`HumanDoubleRefund`). Bulk cancel checks an unlocked row.
- **A streak freeze does not protect** (`StreakFreeze`). The sweep takes the freeze and leaves
  streak and last active day, so the next submission starts from 1; until then each replica's daily
  pass takes another.

Stated as properties in the modules and seen violated by TLC, but not kept as runs:

- `CancelledIsFinal` (`HumanTask`): a sweep or consensus that read the task before a cancel writes
  `open` or `completed` over it after the refund (`worker.py:1051` wants no state changes).
- `StalledTaskReopens` (`HumanTask`): a late submission ends the claim and does not reopen the task;
  the sweeper looks at active claims only.
- `SingleExecution` (`AiTask`): two bulk retries of one failed task start two runners.
- `OnboardingBonusOnce` (`CreditAccount`): the flag is read before the lock.
- `QueueSurvivesRestarts` (`WebhookRetry`): a restart after the poll's commit leaves rows in
  processing.
- `VarietyCompletes` (`Progress`): the variety quest never passes 2 kinds (`quests.py:306-314`: the
  list is changed in place and the session sees no change).
- `InviteKeepsSlots` (`Hiring`): accepting an invite over-assigns (`worker_marketplace.py:683`).
- `TeamLimit` (`Teams`): a check of the size under the lock "prevents two concurrent accepts from
  racing past 20 members" (`worker_teams.py:512-513`); the lock is the invitation's, and two
  invitations to one team have two.
- `QuestPaidOnce` (`Progress`): a claimed quest is answered 409 (`quests.py:465`), but two claims
  that overlap both pay, as the quest was read before the worker's lock.
- `PinLimit` (`Showcase`): the lock shall keep parallel pins from passing the cap
  (`portfolio.py:143-145`, and `test_race_conditions.py:693` expects 400 'even under concurrent
  requests'); the rows that are there are locked, a row that is inserted meanwhile is not among
  them.
- `LowBalanceTold` (`Monitors`): the alert fires 'the first time the user's balance drops below the
  threshold' (`users.py:238`; `credit_alerts.py:3` asks for it after any deduction). Batches,
  reruns, templates, withdrawals and the steps of a pipeline deduct and do not look.
- `ErrorsCounted` (`Monitors`): consecutive sweeper errors fire an alert (`system_alerts.py:6`), but
  `sweep_once` swallows what fails in it (`sweeper.py:184-187`) and a success is recorded
  (`sweeper.py:1131-1133`), which resets the count.
- `WaitsForUpstream` (`Deferred`): the scheduled sweep ignores dependencies.

Seen while modelling:

*Human tasks.* With a consensus strategy and three slots, two stale rejections can lower the count
below what was paid, so the slot properties are stated for `any_first`. `resolve_dispute` says that
the losers' slots are refunded (`disputes.py:310`) and only marks them; one answer beside empty
ones counts as unanimous (`disputes.py:107`). Evidence is accepted on tasks not in dispute. An
application-hired worker earns 0 unless the task says so; two active rows of one worker (claim and
invite) make submit and release raise; withdrawing, list expiry and overlapping accepts write over
an accepted application; applying again after a withdrawal meets the unique constraint.

*AI tasks.* `create_task` records quotas after its commit (`tasks.py:245`): an error there leaves
the task charged, queued and without a runner. Task and run quotas are enforced but hardly ever
recorded. A cached result, like a failed or cancelled AI task of an organisation, refunds the user
although the pool was charged, and so does a rejected answer. A bulk cancel and a cancel refund one
task twice; a bulk retry of a refunded task runs it again for nothing. A scheduled AI task cancelled
meanwhile is run, or refunded twice (`sweeper.py:665-787`). A flush of the cache during a lookup
makes it raise (`result_cache.py:121-129`); removing an expired row may remove one just refreshed.
Charges of batch tasks are booked without a task id (`tasks.py:430`). A failed retry is refunded
though the retry was not charged.

*Money.* Two requests that finish two different last onboarding steps award nobody; a restart
between the step's commit and the award loses the bonus. `requester_onboarding.py:197` and
`skill_quiz.py:369-377` have the form of the onboarding bonus. A failed referral payment is logged
and never tried again. "The user's transaction history always reflects reality"
(`credit_ledger.py:15-17`), but what a pool paid is booked to the user, freezes are not booked, and
the bonus of a referrer who is the task's requester, the later steps of a pipeline's session and a
freeze are computed from an outdated balance. Resetting the requester's onboarding pays its bonus
again (`requester_onboarding.py:10`: once per user). A Stripe event whose handling fails is answered
200 and lost (`stripe_webhooks.py:154`, `321-335`); one whose user is not found is logged as
processed and credits nobody (`stripe_webhooks.py:214-219`); the bundle's bonus credits that the
checkout shows are never credited, as the webhook goes by the amount paid. The quiz bonus is never
paid. The low-balance alert is not reset by a top-up (`credit_alerts.py:6-9`): nothing calls
`reset_credit_alert_if_recovered`.

*Webhooks.* With the default of three attempts the queue makes two, so the longer backoffs are never
used. An `OSError` on connecting is not a `SQLAlchemyError`: the batch is left behind like after a
crash; "Row will be retried on the next poll" (`webhook_retry.py:364`) is not true of a row in
processing. Two rotations within the grace drop the first secret early; queued retries keep headers
signed when queued; replays lack the old secret's signature (`webhooks.py:258-260` says otherwise)
and manual retries are unsigned.

*Pipelines.* A trigger starts the executor before it commits the run, so the executor may find none.
A manual fire of a due trigger swallows the scheduled run and ignores `is_active`; an overlapping
edit can put an old time back. A repeated completion of a human step (approval after completion)
starts another executor, which goes over the later steps again.

*Sweeps.* The SLA breach sweep compares a UUID with strings (`sweeper.py:264`) and
`record_sla_breach` is never called, so no breach is ever recorded. The sweeper-stall alert is
checked by the sweeper itself right after it has set the time it looks at. Cycles of more than two
tasks never unblock; an archived upstream is not terminal; cancelled upstreams are, though the
docstring says completed or failed. Escalation writes `critical` where the SLA knows `urgent`. Only
last week's season is settled; joining before that uses the old tier; a double join makes two
groups and then `add_league_xp` raises. Watched-task alerts are sent by each replica; digest memory
is per process.

*Reputation and skills.* Pardoning twice lowers the count twice; admin bans and strikes leave the
score as it is; `evaluate_submissions` writes its verdict over a reviewed answer and neither pays
nor refunds; the first skill update raises and is swallowed; the lock that shall serialise attempts
at a certification (`certifications.py:368-372`) finds no row on the first attempts and holds
nobody; two concurrent first submissions of a type fail one submit. `release_task` counts a release
twice.

*Accounts.* Changing a password and revoking sessions are two transactions (`auth.py:283-288`); a
rotation that overlaps the end of its family leaves a live token; overlapping requests about the
second factor restore used backup codes. Temporary bans never end.

*Around.* Use, import and experiment counters lose updates; outcomes of one task can be recorded
repeatedly; deleting a comment also deletes a reply committed meanwhile; a saved search deleted
during an alert pass fails the whole pass; two badge awards at once fail one and the rest of the
submission's rewards; an endorsement stays when the work it is for is rejected; `get_task_messages`
returns the oldest 500 only; `clone-task` of the marketplace calls the quota functions with wrong
arguments and always fails.

## 6. Not modelled

- Read-only routers (search, analytics, export, leaderboards, statistics): no state changes.
- The SLA breach sweep and `clone-task`, which never do what they are for (section 5); `update_pin`,
  renaming and the like, which change nothing anything else depends on; the texts of mail,
  announcements and notices.
- XP and level formulas, match scores, weights of the reputation score, comparison of answers, quiz
  questions, hashing, signatures: data the properties do not tell apart.
- Administration beside bans, strikes, alert resolutions, cache flushes and digests: absolute edits
  of users, lists, audit.
- LLM clients and AI workers, whose outcome `AiTask` takes as any; the database migrations; the web
  application and the SDKs.
- Deleting an organisation: the ORM clears `org_members.org_id`, which the schema may refuse, so
  `OrgPool` lets the deletion commit or fail. Lock waits that end in a deadlock abort (`cancel_task`
  and `reject_submission` lock in opposite orders) appear as `Rollback`.
