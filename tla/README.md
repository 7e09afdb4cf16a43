# Verification of Monyvi's synchronization, ledgers and coordinators

Monyvi is an offline-first finance app: a React Native client (`src/apps/mobile`) on
WatermelonDB, a Supabase backend whose rules are SQL functions and triggers
(`src/supabase/migrations`), and edge functions for AI parsing and rates. This project models the
parts where several actors, a failure or a restart can meet in an order no test has: the
synchronization, the financial actions it carries, the concurrent SMS parse and the ledgers that meter it,
the other limits of paid or abusable services, and the language change across reloads.

Paths below are relative to `src/`; `sync/` stands for `apps/mobile/services/sync/`, `0NN` for a file of
`supabase/migrations/`.

## Inventory

| Component | State | Operations | Hard behaviour | What makes it correct |
|---|---|---|---|---|
| Market publication (072, 074; `sync/market-rate-snapshot-pull.ts`) | parts of a snapshot, `market_rate_publications`, the barrier row with its watermark | write a part and publish if complete; first page (moves the watermark), later pages | parts of one snapshot in concurrent transactions; publication against a reader's watermark; clock steps; millisecond truncation | a complete snapshot is published; nothing is published at or below a watermark that was handed out; a cut is complete |
| Writer fence and seal (082–085) | `sync_pull_barrier.last_sealed_watermark`, row stamps, the deletion journal | share the fence, stamp, commit or roll back; seal a watermark | a stamp taken before a seal and committed after it; clock steps; starvation of the seal | nothing becomes visible at or below a sealed watermark |
| Device pull (`sync/atomic-pull-strategies.ts`, `pull-pagination.ts`, `pull-fence.ts`, `snapshot-deletion-pull.ts`, `pull-strategies.ts`) | `lastPulledAt`, the rows received, the local rows | market pages, seal, journal pages, table pages, apply, checkpoint, fail | rows that move while they are paged; deletions against row pages; a failure between any two requests; two devices with different watermarks | nothing behind the checkpoint is missing; the checkpoint never goes back |
| Owner-aware synchronization (`sync/protected-historical-sync.ts`, `historical-recovery.ts`, `sync.ts`, `sync/push-ownership-service.ts`) | recorded owner, receipts, the shared checkpoint, pending rows, unresolved actions | begin, pull, apply, checkpoint, collect, push, acknowledge, record owner and receipt | sessions that change mid-attempt; crashes between stored steps; lost answers; edits that race the acknowledgement | no edit is lost; a receipt means a complete recovery; no user inherits a gap |
| Push transport (`sync/push-service.ts`, `terminal-account-add-ack.ts`, `account-action-protection.ts`) | acknowledgement scope, rejected ids | scoped upserts, action RPCs, read-backs | partial failure, blocked actions | only what the server has is acknowledged |
| Scheduling and logout (`providers/SyncProvider.tsx`, `services/logout-service.ts`) | the promise in flight | timers, foreground, initial sync, logout | a timeout that races the attempt | callers share one attempt |
| Financial actions (067, 076, 090, 091; `services/financial-action-*`; `packages/logic/src/financial-actions`) | action groups, account balance and revision on device and server, stored outcomes | commit locally, send, decide, receive, reconcile, acknowledge | repeated, late and lost calls; two devices at one revision; a domain rejection after a part was written; kills | each action takes effect once; a refused one leaves no trace; each is settled |
| SMS parse over a worker pool (`concurrent-batch-queue-service.ts`, `ai-sms-parser-service.ts`, `ai-sms-chunk-runner-service.ts`) | work list, cursor, active workers, the aggregate, the progress chain | claim, enqueue, stop, abort, split, resolve, report, finalize | running items that list more while others drain; capacity stops against siblings; a callback that rejects | every candidate is accounted for once; none is sent twice; the parse ends |
| SMS AI safeguards (061–066, 079, 080; `functions/_shared/parse-sms-handler.ts`) | request rows, usage events, negative outcomes | reserve, start, complete, release, reconcile | expired leases, replays, lost and late calls, a clock read before the lock | no window exceeds a limit; a request runs the provider once; strikes are earned |
| Voice AI limits (087; `functions/parse-voice`) | the pinned day, request rows | reserve, start, finish, release, clean up | the same, over midnight and time zones | as above |
| Verification mail resend limits (081; `functions/email-verification-resend`) | one row per address | reserve, send, finalize, release, recover, roll over | a function that dies around the mail; an error for a mail that left; a lease that ends before it leaves | every mail sent without an error has a slot; a window holds no more of them than its allowance |
| Language change (`language-coordinator.ts`, `language-runtime-service.ts`, hooks) | snapshot, queue of requests, marker across reloads, layout direction | apply, persist, translate, reload, give up, time out | selections, sign-ins and kills between awaits; a reload that does not come | what is ready is in use; it settles and does not reload for ever |
| SMS scan checkpoint and live intake; review namespaces and drafts; account review save and undo; auth session mutations; historical rate limits (089) | see `PROJECT.json` | | | not modelled |
| Metals domain (068–070, 075–078, 086; `packages/logic/src/metals`) | holdings, action history | add, edit, sell, correct | out-of-order reconciliation | not modelled |
| Parsers, analytics, budgets, net worth, screens, schema | — | pure computations and queries | none between actors | left to unit tests |

How they interact: writers on the server (RPCs, triggers, the rate fetcher) publish under two barrier rows;
a device's attempt reads the market cut first, seals its watermark for ordinary rows, pages
everything up to it, and WatermelonDB applies the rows and stores the watermark as the one
`lastPulledAt` of the database. The same attempt then pushes the local changes, the financial actions among
them as RPC calls of their own, and acknowledges them. The orchestration decides before the attempt whether
`lastPulledAt` may be used, and records the owner and the receipt after it. A scan cuts its messages into chunks
that a worker pool sends to the parse function, which reserves, starts and completes each request in the ledger.
`PROJECT.json` lists the hazards of all this, each at its line, with the properties that watch it.

## Modules

| Module | Models |
|---|---|
| `ServerClock` | `clock_timestamp()` and its truncation to milliseconds. The clock may stand still and be stepped back. |
| `MarketPublication` | `publish_complete_market_rate_snapshot_v1`, the barrier, `pull_market_rate_snapshots_page_v2` and its reader. |
| `WriterFence` | extends it with `sync_pull_barrier`: transactions that share the fence, stamp and commit, the deletion journal, `seal_sync_pull_v1`. Ordinary rows, snapshot rows and journal entries are "items" with an image number and a stamp. |
| `SyncPull` | composes both with the devices: one action per request of a pull, the two durable steps of the SDK's writer, and failure anywhere. |
| `ChangeFeed` | the abstract promise of the pull: a backlog of rows per device, without clocks, locks or pages. |
| `OwnerAwareSync` | one phone with several users: an attempt as the sequence of its stored steps, with session changes, local work, lost answers and crashes between them. A pull is one step here. |
| `FinancialActions` | the life of an action on one account, on several devices and the server: one action per stored step of the push, one per decision of the RPC. A balance is kept as how often it contains each action's amount, so a lost, doubled or phantom effect is visible. |
| `BatchQueue` | `runConcurrentBatchQueue`: one action per synchronous stretch of the event loop. An item is its position on the list. |
| `BatchRun` | the abstract promise of the pool: the life of an item, the limit, the end; no workers, cursor or pumps. |
| `SmsChunkRun` | extends the pool with the parse: what a chunk's process does with its answer, the aggregate, the progress chain, the final result. |
| `SmsAiLedger` | the SQL functions of the SMS ledger for one user, each one step under the user's lock; `seen` is a clock reading taken before the lock. |
| `ParseSmsHandler` | extends the ledger with concurrent handlers of the edge function, with lost answers, starts that arrive late, cancellations and kills. |
| `VoiceLimits` | the voice ledger and its handlers. |
| `ResendLimiter` | the resend row and the functions that reserve, send and finalize. |
| `LanguageChange` | the coordinator's queue, the steps of a request between awaits, the marker, the timer, the boots, and the hooks that ask. |
| `SyncPull_proofs`, `OwnerAwareSync_proofs`, `FinancialActions_proofs`, `SmsChunkRun_proofs` (with the pool's), `ParseSmsHandler_proofs` (with the ledger's), `VoiceLimits_proofs`, `ResendLimiter_proofs`, `LanguageChange_proofs` | the theorems. |
| `MC*` | instances for TLC: the values of constants that a cfg cannot write, and symmetry sets. |

State corresponds to the code by name where there is one: `sealed` is `last_sealed_watermark`,
`market` the market barrier's `watermark`, `fence` the sessions holding the barrier row `FOR SHARE`,
`floor` the `v_sealed` a transaction read, `pending` the stamps it has given, `last` and `checkpoint`
the SDK's `lastPulledAt`, `upper` `upperWatermark`, `todo`/`stream`/`cursor` the position of
`pullAllKeysetPages`, `owner` `OWNER_LOCAL_KEY`, `receipts` the `__monyvi_sync_historical_recovery` keys,
`dirty` WatermelonDB's `_status`, `attempt` the closure behind `activeSyncPromise`; in the pool `listed`
is `workList.length`, `active` `activeWorkers`; in `SmsChunkRun`, `pending` is `session.pendingWork` and
`emitting` the links of `session.emitChain`; in the ledgers `rows` is the requests table and `startedAt` (`charges`)
the usage events; in `FinancialActions`, `root` is the stored outcome of an action group, `act` its copy on the device.
Variables marked "(history)" are read by properties only. The map in `PROJECT.json` gives the lines of every definition.
Definitions described as a "faulty variant" or "(mutant)" are mistakes that a property refutes; no specification uses them.

## Runs

| Run | Configuration | Instance | What it shows |
|---|---|---|---|
| `pull_market` | `MCSyncPullMarket.cfg` | 2 snapshots of 2 parts, 2 publishers, 1 device, pages of 1, 2 ticks a millisecond, 7 ticks | A complete snapshot is always published, never at or below a watermark handed out; a reader's cut is complete; no rate behind the checkpoint is missing. |
| `pull_rows` | `MCSyncPull.cfg` | 2 writers, a row and a snapshot row with its deletion, 1 device, pages of 1, 2 ticks a millisecond | Nothing behind the checkpoint is missing; late stamps and steps back do not happen; the pull implements `ChangeFeed`. |
| `pull_live` | `MCSyncPullLive.cfg` | 1 writer, 2 rows in pages of 1, 1 device | No row is missed though rows move between the two requests of a stream; a sealed pull ends; a waiting seal is served once writers pause. |
| `owner` | `MCOwnerAwareSync.cfg` | 2 users with 1 edit each, an action of one of them, stamps up to 2 | No edit is marked synced that the server does not have; a receipt means a complete recovery; a change of owner leaves no gap; edits reach the server and the receipt is recorded once a user stays and attempts stop failing. |
| `owner_watermark` | `MCOwnerAwareSyncWatermark.cfg` | 2 users, remote changes | Violated; see below. |
| `financial` | `MCFinancialActions.cfg` | 2 devices, 3 actions, 1 fault | Nothing is applied twice or half; no device says accepted, or compensates, against the server; a settled device shows a balance the server had; every action ends. |
| `chunk_run` | `MCSmsChunkRun.cfg` | 5 candidates in chunks of 2, 2 workers | The pool implements `BatchRun` and does not idle; a result accounts for each candidate once, none is sent twice; the progress adds up; the parse ends. |
| `sms_limits` | `MCParseSmsHandler.cfg` | 2 handlers, 4 requests of 3 sessions with a shared candidate, 3 calls, 3 instants | A request runs the provider once at most; no window exceeds a limit or the cooldown; strikes are earned; no candidate with a final outcome is started. |
| `voice_limits` | `MCVoiceLimits.cfg` | 2 handlers, 3 request keys, 4 calls, 2 days | An identity runs the provider once at most; neither a minute nor a day exceeds its limit. |
| `resend_limit` | `MCResendLimiter.cfg` | 2 functions, 4 reservations, leases of 2, mails that take up to 2, 18 instants (over a whole window of 13) | Of the mails of which no error was returned, each has a slot, no window exceeds its allowance, and they stay apart. |
| `resend_errors` | `MCResendLimiterErrors.cfg` | 1 function, 3 reservations, a window of 10 | Violated; see below. |
| `language` | `MCLanguageChange.cfg` | an account and nobody, 2 languages, 4 inputs | What is ready is in use; no reload that nobody selected overtakes a selection that waits to be stored; the app settles. |

**Bounds.** They are guards of the actions that would count further, and nothing else. `MaxTime` stops the clock (in
`OwnerAwareSync`, the stamps), `MaxImage` the changes of a row, `MaxEdits` the edits of a user, `MaxFaults` failed
calls and kills, `MaxItems` the list of the pool (no bound at all: splitting cannot list more than 2 per candidate less
the initial chunks), `MaxCalls`, `MaxIds` and `MaxSignUps` what clients send, `MaxInputs` what users and other devices
do to the language, and `Actors` are the users of `OwnerAwareSync` who start a financial action. `MaxWait` and `MaxSend` are assumptions on the environment, the longest a call waits for a lock or
a mail takes to leave; `PromptAssumption` of `ResendLimiter` says that together they are less than the cooldown (two minutes),
which the code relies on and does not enforce. Two of everything is what the hazards need: two transactions that overlap, one row that moves behind
the cursor while another is read, one edit captured and one after the capture, another user's pull between two of mine,
a repeated call that meets its first one, two admissions before either start. The three instants of `sms_limits` hold the
burst window, a cooldown and a lease that ends; five candidates make one chunk that is full after a split and one that
cannot be split. Pages hold one row, so that every boundary is one between requests.
`pull_rows` has one row of each kind and one device; a second row, or a second device, exceeds the time of a run. A
stream that takes two requests is therefore checked in `pull_live`, for ordinary rows, and two devices with different watermarks
and a journal of several pages rest on the theorems. In `resend_limit` a lease ends before the mail it stands for leaves. In `SyncPull` and `OwnerAwareSync`
sessions, failures, clock steps and full pulls are not bounded. Symmetry is used in runs without liveness over
handlers, keys, writers, publishers and observations that are interchangeable; rows and snapshots are
ordered by their ids and are not. The view of `resend_limit` leaves out `denied`, a history no action and none of its properties reads.

**Deadlock** is not checked where the system may stop: when everything bounded is used up, or when a parse or a
language change is over and nobody asks for another.

**Fairness.** `LiveSpec` gives weak fairness to the steps of a running pull (a chain of awaits) and to the
failure that follows a refusal of the server; nothing makes a user start a pull, a writer commit, or the
clock advance. `OwnerFairSpec` gives it to starting an attempt (`SyncProvider` calls `sync()` on a timer
and swallows failures), to the next step of a running one, and to the exception that ends an
attempt whose session is gone. It does not make the network work: the liveness properties are
conditional on `Undisturbed`, a user who stays signed in and attempts that stop failing. `FairFinancialSpec` lets the app
synchronize again and again and answers a call the device still waits for, unless it fails (at most `MaxFaults` times); a
call it gave up may never be processed. `ChunkFairness` says that a request is answered, fails or is aborted in the end, and
so does a progress callback; the rest is the event loop's. `LanguageSpec` runs effects, settles awaited
calls and fires timers; a reload may never happen. The ledgers have no liveness: a kill is always possible.

## Findings

`owner_watermark` checks what `specs/035-metals-module-redesign/implementation-evidence.md` (PR #251
sync-owner watermark isolation) concludes from the order of the stored steps: a failed attempt leaves the previous
marker intact, so the next user recovers with a full pull instead of inheriting the watermark. That
covers a next user with a *different* marker. The counterexample is the user whose marker was
left intact: A synchronizes up to checkpoint 1; A's data changes on another device (stamp 2); B signs in, and B's full
pull moves the shared checkpoint to 2, but B's attempt ends before it records B. A signs in again, the
marker is A and the receipt is there, so A pulls incrementally from 2, and the change stamped 2 is not delivered until
something forces a full pull. Forcing one whenever the checkpoint was moved by an attempt that did not record
its owner would close the gap. `NewOwnerUpToDate`, the part of the claim that holds, is checked in `owner`.

`resend_errors` checks FR-010 (`specs/321-email-verification/spec.md:137-138`): at most two resends in the window that begins with the original
mail. `sendResend` (`functions/email-verification-resend/index.ts:98`) reports every error of `auth.resend` as a failed send. Besides
refusals these are the network failures, timeouts and 5xx answers after which the mail may have left, and the handler
(182-187) frees the slot, without a count and without a cooldown. In the counterexample a resend is reserved, its mail leaves,
an error is returned and the reservation released; a second one goes the same way, and a third is admitted at the
same instant: three resent mails in a window of two. The migration (081:181-182) wants an ambiguous slot consumed
conservatively, which holds for functions that die or lose the answer, and not for this case. Releasing only on a definite refusal, and leaving the
rest to the recovery of the lease, would keep both FR-010 and the compensation of FR-012. `WindowLimited`, `NoUncountedMail`
and `MailsSpaced`, which `resend_limit` checks, are therefore about the mails of which no error was returned, while others leave with one.

Modelling met other places where the code and a specification document differ. They have no run of their own; the
properties checked are worded so that they say what does hold.

* **SMS units** (061:195). A replay of a live reservation is answered with the row as it is. The handler filters the
  candidates by the outcomes stored when it runs, so a retry may send more candidates than the
  reservation has units, against "unit is one unresolved SMS candidate" (`specs/031-sms-scan-safeguards/contracts/ai-usage-enforcement-contract.md:5`).
  `WithinLimits` counts the units of the reservation.
* **Voice day** (087:47). A call that read the clock before midnight and got the lock after it replaces the new
  day's window by the old one, against `specs/389-voice-usage-limits/data-model.md:48`. With callers in two time zones the
  next derivation may then start another day, and the daily limit of `UsageLimited` is exceeded; `voice_limits` has one zone.
  Late readings and different midnights are both needed: `UsageIsLimited` is proved where either is absent, and TLC refutes
  `UsageLimited` with two midnights and `MaxWait = 1`.
* **Resend cooldown** (081:186, 081:87). A reservation that is recovered counts its cooldown from the reservation, not the
  mail, and a later sign-up of an address that has a row is not recorded, against `specs/321-email-verification/spec.md:68-69`.
  `MailsSpaced` states the distance that is left between mails of which no error was returned.
* **Language marker** (`language-coordinator.ts:132-133`). There is one marker for all scopes: an attempt for another one
  makes the app reload a second time by itself for the first; and a request that became stale while its marker was written
  leaves it, so the next one gives up without a reload, both against `specs/345-language-direction/spec.md:8`.
  `SettlesInTheEnd` shows that no endless loop follows.
* **Language selection** (`apps/mobile/app/(private)/settings.tsx:764-768`). What keeps a second selection away is a flag of the mounted screen. One that
  is opened again may queue another selection between the persistence of the first and its reload, and that reload then comes before the
  second is stored, against "Persist explicit selection before reload" (`specs/345-language-direction/spec.md:8`). `PersistFirst`
  is about the reloads that nobody selected.
* **Financial balance.** A dirty account keeps its columns through a pull whose watermark moves on, and a replayed refusal
  installs the balance stored when it was decided. A device may come to rest, marked as synced, with an older balance until the
  account changes on the server again, against `specs/035-metals-module-redesign/manual-tests/issue-242-account-effects.md:131`
  ("no silent balance overwrite, false sync success"). `BalanceWasTrue` therefore says that the balance is one the server
  had at that revision, not that it is the latest.

## Theorems

Every invariant and every action property that a passing run checks, and both refinements, are proved for all values of the
constants that satisfy the named assumptions. The properties are seldom inductive, so each module has an invariant of its
own, made of named parts; TLC checked the parts it can evaluate on small instances before they were proved. A proof has one
lemma per action; the QED of a theorem adds only the temporal step.

**`SyncPull!Spec`**, for any numbers of writers, publishers, devices, rows, snapshots and page sizes,
from the assumptions the modules name (`ClockAssumption`, `MarketAssumption`, `FenceAssumption`, `PullAssumption`: ids are
natural numbers, the row sets are finite, a page holds at least one row).

* `TypeCorrect`, `MarketTypeCorrect`: `TypeOK`, including which transactions may hold stamps and which attempts may hold
  pages, and its market part `MarketTypeOK`.
* `Invariance`: `IInv`, the inductive invariant. That nothing behind the
  checkpoint is missing depends on what the pages in flight hold, which depends on the seal, which
  depends on what open transactions have read. `IInv` says so in parts: `FenceInv` (an open
  transaction's floor is the sealed watermark, so its stamps are above it), `MarketInv` (whoever has chosen a
  publication time holds the barrier alone), and for each device `Cut` (the order of its watermarks), `Window`
  (everything behind the cursor has been received as it is now; a row received has no journal
  entry in the window), `MarketWindow`, `Images`, `HoldsRows`, `HoldsRates`. Every action preserves a device's
  part because the server only `Grows`: whatever becomes visible is above the watermarks.
* `RowsNeverMissed`, `RatesNeverMissed`, `MarketCutFinal`: `NoMissedRow`, `NoMissedRate`, `CutComplete`, from `Invariance`.
* `StampsNeverLate`, `PublicationsNeverLate`, `NeverBack`: action properties, from the invariant and its step.
* `PublicationNotLost`: `CompleteIsPublished`. Two transactions may each write a part and see the snapshot incomplete. The
  proof adds `IncompleteInv`: a transaction that has written and does not publish holds the barrier and has seen the
  snapshot incomplete, so no other can commit the missing part before it.
* `PullImplementsFeed`: `ImplementsChangeFeed`. A commit is a `Publish`, the application of a complete attempt a `Receive`,
  the checkpoint a `Settle`; clocks, locks, seals, pages and failures are stutters.

**`OwnerAwareSync!OwnerSpec`**, for any users, edits and stamps (`OwnerAssumption`).

* `OwnerTypeCorrect`, `EditsNeverLost`, `ReceiptsEarned`: `OwnerTypeOK`, `NoLostEdit`, `ReceiptMeansRecovered`; `NewOwnersUpToDate`:
  the action property `NewOwnerUpToDate`. `OwnerInv` says what an attempt has in hand at each of its steps: `PushInv`
  (what is to be acknowledged is on the server as it was captured; what was fetched is what the server has of pushed edits),
  `RecoveryInv` (an attempt that will end in a receipt pulls the whole history and leaves no group out),
  `WatermarkInv` (a user who does not own the checkpoint pulls all there is below it). Since a session, a crash or a
  lost answer only drops the attempt, these are all that has to be shown of the steps between them.

**`FinancialActions!FinancialSpec`**, for any devices, any finite set of actions and any bound on failures
(`FinancialAssumption`).

* `BooksAlwaysBalance`, `OutcomesAreTrue`: `BooksBalance`, `NoFalseOutcome`. A device learns of an outcome two steps after the
  server stored it, so `FinancialInv` adds what happens in between: the answer a device waits with is the stored outcome
  (`AnswerIsRoot`), an action being reconciled was refused (`Compensates`), and a device works only on its own actions
  (`OwnWork`), which is why two devices cannot disturb each other. The server's step is one lemma (`ApplyInv`, with
  `DecideBalances` for a first decision); every step of a device is shown to be an `OwnStep`, which preserves the invariant.
* `BalancesWereTrue`: `BalanceWasTrue`. `BooksInv` keeps the balance of every revision: a device shows one of
  these balances with its own actions since then on top, one for each revision (`AccountsOnTop`), and every outcome carries
  one (`SnapshotsTrue`). The server accepts one action per revision, at the revision it was made at (`OneByOne`), so when
  nothing is left to settle the actions on top are exactly what the server accepted in between.

**`BatchQueue!QueueSpec`**, for any list, limit and bound (`QueueAssumption`).

* `QueueNeverIdle`: `NoIdleWorker`. The invariant `QueueInv` adds that what is claimed is running or has one outcome, that
  `active` counts the running items, and that the promise is resolved exactly when there are none. The counter is what the
  code tests; the proof has to count what a pump launches (`PumpCounts`).
* `PoolImplementsRun`: the pool implements `BatchRun`. Initial states map (`RunInitMap`); a call of `enqueue` or the
  end of an item is an `Advance` (`Advances` says it in terms of the pool's sets, `AdvanceMap` translates), a stop or an abort
  is a `Close`.

**`SmsChunkRun!ChunkSpec`**, for any number of candidates, chunk size and limit (`ChunkAssumption`).

* `ChunksNeverIdle`, `ChunksImplementRun`: every step of the parse is a step of the pool or none (`ChunkStep`), so the pool's
  results carry over.
* `CandidatesOnce`, `CandidatesNeverTwice`: `EveryCandidateOnce`, `NoCandidateTwice`. The invariant `ChunkInv` is about
  "open" chunks, those in a request or waiting: their candidates are disjoint (`Apart`), not accounted for
  unless a capacity stop gave them up while they waited (`Unspent`), and together with what is accounted for they are all
  candidates while nobody aborted (`Covered`). That the initial chunks cover the candidates is a lemma about
  integer division (`ChunkOfCandidate`).
* `ProgressAlwaysAddsUp`: `ProgressAddsUp`, from `ProgressCounts`: until launches are stopped, what is done and the open chunks
  are the total; a split closes one chunk, opens two and adds one.

**`ParseSmsHandler!HandlerSpec`**, for any limits, windows, requests and handlers, with finitely many keys and messages
(`LedgerAssumption`, `HandlerAssumption`).

* `LimitsAreKept`: `WithinLimits`. `LedgerInv` keeps `Room`: what was started in a window and what is reserved fit
  together, whatever the window, so a start only moves units from one to the other and it does not matter
  that a lease, an admission and a start are at three instants. The cooldown has no reservation: two sessions
  may both be admitted, and the check at the start keeps them apart (`CooldownStarts`). A sum of units is
  the number of pairs of a request and one of its units (`Tokens`), which the library's theorems about finite sets can count.
* `RunsAreSingle`, `StrikesHaveResults`: `OneRunPerRequest`, `StrikesAreEarned`. `RunsInv` says that a handler past the grant is the
  only one of its key and that the key was started; `StrikesInv` that what a handler still has to reconcile is not counted yet.
* `NothingTerminalStarts`: `NoTerminalStart`, an action property: the other handlers leave one's messages alone (`OthersStay`).

Proving showed that an earlier wording of `HistoryCooldown` was false beyond the run's instance: with limits of three, TLC
finds a session whose later request starts at the same instant as the first one of another session, which had
waited for the cooldown of the former. The code allows that, the later request being granted before the other session begins; the property
now compares with first starts there.

**`VoiceLimits!VoiceSpec`**, for any limits, any finite set of keys and any zones (`VoiceAssumption`).

* `IdentitiesRunOnce`: `OneRunPerIdentity`: the row of a key knows that it was started.
* `BurstsAreLimited`: no window of that length, wherever it lies, has more starts than the limit. A call may get the lock later
  than another that read the clock after it. `Room` therefore counts, with the starts of a window, the reservations that may still
  start before the last of them (`Overtaken`): their handlers were admitted earlier, so the later start has counted them as live.
* `UsageIsLimited`: `UsageLimited`, with the day, if all zones have one midnight or no call waits for the lock
  (`SameMidnight \/ MaxWait = 0`, the theorem's hypothesis; the run has one zone). Then two days with an
  instant in common are one (`DaysApart`), or a day begins after every start counted before (`DaysInOrder`).
  Without it TLC refutes the property, see "Voice day" above.

**`ResendLimiter!ResendSpec`**, for any windows, leases and allowances (`ResendAssumption`, `PromptAssumption`).

* `MailsAreCounted`, `WindowsAreLimited`, `MailsStayApart`: `NoUncountedMail`, `WindowLimited`, `MailsSpaced`, about the mails of which no
  error was returned; a mail that leaves with an error, and the release of its slot, change none of them. A mail may leave after
  its reservation was recovered and even after its function's row moved on. `SafeRow` counts such a mail among the `Slots` of the
  window before it leaves, and says that whatever leaves under an id is `Behind` the cooldown that the row enforces
  next. Hence a rollover happens with no mail under way (`CooledIsQuiet`). That step needs
  `PromptAssumption`: with `MaxSend = 4`, a wait and a delivery longer than the cooldown, TLC finds two admitted at once
  across a rollover and a mail no window counts. What is false of all mails, `EveryMailLimited`, is a finding.

**`LanguageChange!LanguageSpec`**, for any accounts, languages and number of inputs (`LanguageAssumption`).

* `WhatIsReadyIsInUse`: `ReadyIsApplied`. `LanguageInv` says of the queue that only its first request has begun (`QueueOK`), and of that one
  what its steps have done already and still holds, though accounts, timers and reloads come in between (`Done`).
* `SelectionsAreStoredFirst`: `PersistFirst`, an action property: a selection makes what was asked for before it stale, so a
  request of its own accord that writes a marker has no current selection behind it in the queue, however many were made.

**Only model-checked**: the liveness properties (`SealedPullEnds`, `PullEndsWhenWritersPause`, `EditsReachServer`, `ReceiptInTheEnd`, `ParseEnds`,
`EveryActionEnds`, `SettlesInTheEnd`): fairness and `ENABLED` are out of the prover's reach.

## What is not modelled

Inside the modelled components: owner filters and row level security, the join of child tables, the
full-window pull of categories and its manifest, the 90-day replacement of snapshot tables, the shaping and
admission of financial and metal rows in a pull (`OwnerAwareSync` keeps one consequence, that an accepted
group which is unresolved locally is left out), legacy metal repairs, deferred account rejections, pull and push
of several tables one after another (a failed push is all or nothing per user, then retried). A pull in
`OwnerAwareSync` is one step, so a session that leaves and returns within one pull is not covered.
`FinancialActions` has one account, no account creation or review actions (branches A and B of the RPC), no schedule reverts and
no refusals the server leaves unrecorded. The ledgers leave out payload and token limits, availability figures and the
texts of refusals; `SmsAiLedger` also the capability `sms_category_enrichment` and cleanup, `VoiceLimits` the unmetered mode.
`SmsChunkRun` leaves out the sequential driver used for safeguard QA and the retry inside one chunk. `LanguageChange` leaves out
`retry()`, which no screen calls, and the web.
Outside: the components with status `not_modelled` in `PROJECT.json`, each with its reason.

## Plan

1. (done) The pull and its server side, with proofs; `OwnerAwareSync`.
2. (done) `FinancialActions`, the pool and the parse, with proofs; the SMS, voice and resend ledgers; `LanguageChange`.
3. `NamespaceLease`, `AuthSession`, `ScanCheckpoint`, the historical rate limits: small protocols with aborts and restarts.
4. `MetalLifecycle`: the reducer as a function over action histories against a reference definition.
5. (done) Proofs of every safety and action property and of both refinements.
6. Proofs: that the limits of an SMS ledger hold for several users at once, once the ledger has more than one; the
   components of 3 and 4 as they are modelled.
