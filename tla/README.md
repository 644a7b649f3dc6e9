# A TLA+ model of BlackPearl

BlackPearl publishes media objects of a provider account as a read-only file
system for Plex. It finds releases, prepares them in the user's account, records
what is published in a durable manifest, and serves the bytes through a chunk
cache of bounded size. This directory holds TLA+ modules for the parts of it that
are hard to test, the TLC runs that check them, and proofs that TLAPS checks.

The modules are written from the Go sources under `internal/` and `cmd/` and from
the TypeScript of the setup page under `web/src/`; the manifest `PROJECT.json` maps
every definition to the lines it models.

## Inventory

| Component | State it keeps | Operations | What makes it hard |
|---|---|---|---|
| Chunk cache, `internal/cache/rolling.go` | index of chunks, fetches in flight, byte ledger, pins, read-ahead windows, files on disk | `ReadAt`, `scheduleReadAhead`, `Prefetch`, `runFetch`, `Open`, `Close`, `recoverChunks` | many goroutines, one mutex released around every file and network call, a quota, crashes |
| Acquisition jobs, `internal/repository/acquisitionjob`, `internal/service/acquisitionjob` | job rows, candidates, leases | `Submit`, `Claim`, `Plan`, `AttachPrepared`, `Advance`, `Defer`, `Succeed`, `Fail` | provider calls between transactions, lost replies, crashes, leases that run out, a shared account |
| Watchlist, `internal/repository/watchlist`, `internal/service/watchlist` | queue rows, policy, leases | `Sync`, `UpsertObservations`, `Claim`, `AttachJob`, `DeferJob`, `Complete` | two databases without a common transaction, policy changes under way |
| Playback advancement, `internal/service/playbackadvance` | none; moves the episode frontier of a queue row | `Process`, `AdvanceEpisode` | decides on values read several calls earlier |
| Setup, `internal/service/setup`, `internal/repository/setup` | token and manifest generations, status, active runtime | `Configure...`, `PublishAcquired`, `Restore`, `Clear`, `SaveManifest` | durable commit before publication, rollback that may fail, crash between the two |
| Catalog and switch, `internal/core` | the active delegate, prefetch marks | `Activate`, `List`, `Open` | activation while files are being opened |
| PearlNFS, `internal/pearlnfs` | namespace snapshot, bounded table of handles | `Replace`, `Reload`, `ToHandle`, `FromHandle` | listing without the lock, handles older than the snapshot |
| PearlFS, `internal/pearlfs` | none | FUSE look-ups and reads | nothing of its own |
| Plex refresh, `internal/service/plexrefresh` | a notification channel of one | `Notify`, `Run` | coalescing and retries must not lose a publication |
| Search and ranking, `internal/resolver`, `internal/acquisition` | none | ranking, deduplication, selection | pure functions with ties and limits |
| Synchronous acquisition, `internal/service/acquisition`, `internal/repository/acquisition` | settings, one request at a time | `Acquire`, `SelectCandidate` | little |
| Gateways, `internal/gateway/*`, `internal/plex` | none | HTTP exchanges with providers and Plex | their replies, as the callers see them |
| HTTP interface, `internal/handler`, `internal/httpserver` | a CSRF token per process | the endpoints under `/api` | pairing: a session per saved token, a bootstrap secret, a token that is being replaced |
| Configuration and process, `internal/config`, `cmd/blackpearl` | wiring, restore loop | start, stop | restore competing with the user |
| Setup console, `web/src/components/setup-console.tsx` | React state, the tab's session storage, a timer | eleven asynchronous handlers and effects | every handler captures the state of its render and goes on after an await, beside the others |
| API client, `web/src/lib/api.ts` | none | one function per endpoint, validation of the answers | what is rejected, and what is missing from an answer |

How they interact. The job worker calls the search, the TorBox gateway and the
direct range sources, and publishes through the setup service, whose transaction
builds a catalog over the chunk cache, saves the manifest and swaps the catalog
into PearlNFS and PearlFS; a publication notifies the Plex refresh worker. The
watchlist worker submits jobs and polls them. The setup page talks to the handlers,
which call the setup service, the job manager and the watchlist. File opens reach the
cache through the catalog, which also starts the prefetch of the next episode. All
browser runtimes share one cache pool, and the cache directory outlives the process.

What makes each component correct:

- cache: the ledger equals the bytes cached and in flight; the quota holds in
  memory and on disk; nobody loses the chunk being read; no fetch is started
  twice; nobody waits for ever; an object is never held completely in rolling
  mode and never lost in persistent mode;
- jobs: a mutation of the account is never repeated by mistake; what a job owns
  is cleaned up before it is forgotten, and nothing else is; the stages and the
  provider object agree; a stale worker changes nothing; every active job is
  attended again;
- watchlist: only what a sync first recorded while the policy allowed it is acquired,
  never the backlog that was there before; a row follows its job in the
  end and says "succeeded" only of what was published; a show goes on one watched
  episode at a time and never back;
- setup: a change of the manifest happens or does not, whatever fails; what is
  published is safe from a loss of power; part of a manifest is published only
  where nothing is; a restart loses nothing;
- Plex refresh: Plex scans what was published last;
- console: the buttons come back and no two requests of one group run at once; the
  page never offers or sends what was not found; it stays paired; what it shows of
  the policy and of a job is true, or says that it is not known.

## Modules

### `RollingCache`

Models `internal/cache/rolling.go` entirely, statistics and `Ready` excepted.

Every critical section of `shared.mu` is one action. What happens between two
sections is private to its goroutine except for the files it makes, which are
state: `FetchOpen` has created a `.fetch-*` file (stage `temp`), `FetchBody` has
renamed it (stage `renamed`), `FetchPublish` ends in `runFetch`'s last section.

| Model | Code |
|---|---|
| `chunks`, `pins`, `older` | `shared.chunks`, `entry.pins`, the order of `entry.lastAccess` (the tick itself is abstracted) |
| `inflight` | `shared.inflight`: kind of the call, the window that may cancel it, attempt, stage |
| `current`, `reserved` | the two counters of the ledger |
| `files`, `stray` | `*.chunk` files, and `.fetch-*` files that no running fetch owns |
| `handle` | `rollingHandle`: open or closed, generation, context (0: none), `lastReadEnd` |
| `pc`, `rd` | where a goroutine is in `ReadAt`, and its locals |
| `prefetch` | how far the goroutine of `prefetchMediaPrefix` has come |
| `StartRead`, `BeginRead`, `AcquireHit`, `AcquireJoin`, `AcquireMiss`, `CopyChunk`, `FinishRead`, `AbandonRead` | `ReadAt`, `beginRead`, `acquireChunk`, `readChunk` and `releaseChunk`, `finishRead`, a cancelled request |
| `ReadAhead`, `StartPrefetch`, `PrefetchNext` | one iteration each of `scheduleBackgroundChunks` |
| `Open`, `Close` | the same |
| `Crash`, `StartProcess` | death of the process; `newRangePool` and `recoverChunks` |

`EvictUntil` gives all the ways an eviction loop can end: enough bytes freed, no
victim left, or a victim that could not be removed; what had been evicted by then
stays evicted. `Init` allows any chunk files on disk, because an earlier version,
or a run with another quota, may have left them.

### `AcquisitionJob`

Models the job table, the worker and the provider account. Every transaction and
every provider call is one action, so the worker may stop, the lease may run out
and the account may change between any two of them.

| Model | Code |
|---|---|
| `job` | a row of `acquisition_jobs` and its `acquisition_job_candidates`; `ord` counts from 1, 0 is the column's -1 |
| `lease` | `lease_version` and `lease_until_unix_ms`: the worker whose version is current and unexpired, `Orphan` when that worker is gone, `Free` when expired or released |
| `due` | `next_attempt_unix_ms` has passed |
| `account`, `made` | the torrents of the provider account; identifiers are not reused |
| `published` | history: the objects that `PublishAcquired` has exposed on behalf of each job |
| `work` | the worker's place in `ProcessOne` and what it has learnt, with `seen`, the snapshot of the row it claimed |
| `Resolve` ... `Publish` | the provider calls of `resolve`, `prepare`, `publish`, `publishRange`, `abandonCandidate` |
| `Plan` ... `Fail` | the transactions of the repository, all fenced by `Accepted` |
| `Refused`, `Stop`, `ClaimLost` | `ErrStaleClaim`; process death, cancelled context or database error; a lease taken but not read back |
| `Expire`, `Wake` | time passes |
| `UserAdds`, `UserRemoves` | external: the user's own changes of the account |

Who made an object (`by`) is not known to the code; it is there for the
properties. Left out: jobs of an earlier version without a candidate plan
(`Select`), progress, public error codes and the attempt counter, none of which
steers a transition here, and the manifest itself: `Service.Apply`, another job or a
user may replace it at any time, also between `PublishAcquired` and `Succeed`, and
nothing here reads it. `published` is therefore a history that only grows, and what is
said with it is about what was ever published, not about what the manifest exposes now.

Two assumptions about time, both taken from the code: `NewWorker` demands a lease
longer than an operation and a transition together, so a lease runs out under a
live worker only where the worker leaves that bound (`MayOverrun`): in the
reconciliation after a failed creation, which gets a second operation timeout,
and in `PublishAcquired`, which waits for the setup service's lock without a
context. And a creation that has returned has taken effect or never will.
`LeaseAssumption` says that no worker is called `Orphan` or `Free`.

`Partition` is `partitionCached` of the plan, `Cap` the limit of its loops.

### `Publication` and `DurableManifest`

`Publication` models how a change of the manifest reaches Plex: `commitManifest` and
`rollbackPersistence` of `internal/service/setup`, `saveGeneration`, `Clear` and `New`
of `internal/repository/setup`, `setupPublisher.Publish` and the restore loop of
`cmd/blackpearl`, and `internal/service/plexrefresh`. Each file operation that another
process start could observe is an action.

| Model | Code |
|---|---|
| `fs` | `current` and `generations/*`; a generation without its state file has no items |
| `past` | states that a loss of power may bring back: those since the last `syncDirectory` |
| `tx` | the transition that holds `transitionMu`: its place, the pair it wants, the one before, the error of the save |
| `nfs`, `status` | the namespace that `Replace` set, and the manifest that `Status` reports |
| `notified`, `plex` | the channel of one, the place in `Run`, what the scan under way and the last one saw |
| `CreateGeneration` ... `CleanGenerations` | `saveGeneration`, and from the pointer on also `Clear` |
| `Decide`, `RollBack` | what `commitManifest` does after an error of the save or of the publication |
| `Cancel` | the client goes away, which cancels the context of the calls, but not that of the rollback |
| `Stop`, `LosePower`, `Start` | the process ends, the machine loses power, `New` |

After a loss of power the directory is in one of the states that it was in since it
was last synchronized, as on a file system with an ordered journal; contents are
synchronized before they are renamed into place. Names of generations are random in
the code and fresh here. `PublishAcquired` may put its
item in the place of any one item: which items have the same identity is not modelled.

`DurableManifest` is what that promises, in six actions and without files: what is
saved is nothing or one request's token and manifest; a catalog is published only
from what no loss of power can take back; a part only where nothing is published; the
last manifest is never taken away. The mapping reads `saved` through `LoadManifest`,
`maybe` through `LoadManifest` of every state a loss of power may bring back, and
`active` from the namespace. Some cases need the variable `doubt`. When the final
`syncDirectory` fails and `LoadManifest` fails after it, `commitManifest` returns an
error without a rollback although the new pair is in place; a later `Restore` may then
publish a pair whose durability is not established. That takes two failures in one
attempt, and the caller has been told of an error. A further attempt that fails once,
before it saves anything, leaves this as it is: `Doubt` says that the latest attempt
failed more than once, or once where it started with more than one pair that could be
loaded after a loss of power. The result `last` records that set in `could`.

### `Watchlist`

The observer, the queue and the worker of the watchlist, and playback advancement,
beside jobs, a user and Plex. A statement on the queue is one action; each goroutine
may fail, and the process stop, between two of its calls.

| Model | Code |
|---|---|
| `list`, `policy` | the watchlist in Plex; `watchlist_settings` |
| `rows` | `watchlist_queue`: state, `auto_eligible`, `intent_episode`, a lease that has not run out, `background_job_id`, `published_object_id` |
| `observer` | `Sync` between the snapshot, the policy and `UpsertObservations` |
| `worker` | `ProcessOne`: `submit` or `reconcile`, up to `AttachJob`, `DeferJob` or `Complete` |
| `advancer` | `process` of `playbackadvance` between the snapshot, `CanAdvanceEpisode` and `AdvanceEpisode` |
| `jobs`, `published` | the job manager and the manifest, as `AcquisitionJob` shows them: a job that succeeds has published |
| `baseline` | `baselineComplete`, which a restart loses |

Seasons are left out (an episode is a number), times too: a next attempt is always
due, and a lease runs out only when its owner is gone, because `NewWorker` demands a
lease longer than an operation and a transition together. Nothing in the code removes
a job, so `Get` always finds the one of its row, and the branch for a job that is gone
(`worker.go:144`) is left out. `open`, `admitted`, `viewed` and `ever` are history for the
properties. `open` is what the sync under way has been able to record as eligible: entries
of its snapshot that no sync has recorded, in a process that has its baseline, which the
policy permits at some moment of the sync. `admitted` is what was recorded for the first
time while it was in `open`. So `NonRetroactive` excludes that a switch of the policy drains
the backlog, which is what "non-retroactive" means in `docs/architecture.md:178`; that the
policy is read after the snapshot is why a moment during the sync is as good as another.

### `SetupServer`, `ApiClient`, `SetupConsole`

`SetupServer` gives each handler of `internal/handler/setup` as the set of its
outcomes: what it leaves on disk and in the process, and its answer. A session stands
for the token that it is derived from. A season of 0 is missing from an answer
(`Wire`), as `omitempty` makes it. `ApiClient` builds the requests and says which
answers are recognized. `SetupConsole` extends both with the page:

| Model | Code |
|---|---|
| `ui` | the `useState` values; titles, years and numbers of a draft only as far as they are valid and of season 0 |
| `store` | the two keys of `sessionStorage` |
| `calls` | for each handler and effect, its request under way, with what the handler holds on to besides (`held`); a request that a reload abandoned (`orphan`) may still reach the server |
| `findVideos` / `FindVideosDone`, `apply` / `ApplyDone`, ... | a handler up to an await, and after it; `openAcquisition` and `refreshAcquisitionJob` have two awaits |
| `ButtonFailed` | `catch` and `finally` |
| `Render`, `Rerun`, `Armed`, `PollTimer`, `Poll...` | the polling effect with its dependencies, cleanup and timer |
| `LoadStatus`, `LoadWatchlist`, `Reload` | the loading effect |
| `SelectPanel`, `ReadyCard`, ... `PolicyButtons` | what is on the page, and so which buttons there are |
| `Serve` | one handler of the server runs; the answer may still be lost (`Results`) |
| `Restart`, `Restore`, `FinishJob` | the process |

After a poll that says "succeeded" the handler goes on to read the status, while React
cleans the effect of the earlier render up; `PollStatusDone` allows both orders.

### `MC...` modules

Give the constants small values; they add no behaviour.

### `...Proofs` modules

Theorems about the module of that name, for all values of its constants; see below.
`RollingCacheLimitProofs` goes on where `RollingCacheProofs` ends.

## Runs

| Run | Instance | Shows |
|---|---|---|
| `rolling_safety` | objects of 5 and 2 bytes, chunks of 2, quota 4, one handle, 2 readers (symmetric), prefetch of 1 chunk | `TypeOK`, `LedgerExact`, `QuotaRespected`, `DiskWithinQuota`, `PinnedChunkReadable`, `PinsMatchReaders`, `SingleFlight`, `NoLostWakeup`, `BackgroundKeepsHeadroom`, `PrefetchSparesOthers` |
| `rolling_liveness` | one object of 4 bytes, quota 4, 2 attempts, 2 generations, fairness | `IncompleteObject`, `BackpressureEnds`, `FetchesEnd` |
| `persistent` | persistent mode, object of 5 bytes, quota 2, removal of a failed fetch's files may fail | `PersistentRetains` |
| `rolling_position` | as `rolling_safety`, without prefetch | a finding: `PositionNeverMovesBack` is violated |
| `jobs_crash` | 2 jobs of 2 intents (symmetric) that share one torrent, a direct range, one worker, a user who changes the account; 1.4 million states | `TypeOK`, `ObjectFitsStage`, `NoDuplicateObject`, `OwnedLeavesAccount`, `SucceedsPublished` |
| `jobs_lease` | one job, 2 workers, 2 torrents and a range, plan of 3, fairness | `PlanInOrder`, `TerminalFinal`, `ActiveJobAttended`, `NoDuplicateObject` |
| `jobs_user_object` | as `jobs_crash` | a finding: `UserObjectsKept` is violated |
| `jobs_published` | as `jobs_crash`, without the user | a finding: `PublishedNeverCleaned` is violated |
| `publication` | 2 tokens, 2 items, one change of the manifest, 2 failures, 2 stops or losses of power, fairness | `TypeOK`, `AllOrNothing`, `ImplementsDurableManifest`, `PlexSeesInTheEnd` |
| `watchlist` | a movie and a show of 2 episodes, 2 jobs, 2 edits by the user, one failure or restart, fairness | `NonRetroactive`, `OneEpisodeAhead`, `SucceededIsPublished`, `FrontierNeverBack`, `JobReconciled` |
| `console` | ten situations, see below, fairness | `TypeOK`, `PendingExact`, `SelectionDiscovered`, `PanelHonest`, `ReloadKeepsPairing`, `AnswerPairs`, `ButtonsComeBack`, `JobShownInTheEnd` |
| `console_change` | a saved special, videos chosen with the saved token | a finding: `ChangeKeepsManifest` is violated |

Deadlock is not checked: clients may stop reading, the process may stay down, jobs
end, and the user may have clicked all that the bounds allow.

Why these bounds are enough. Two readers give every pair of steps that share the
mutex. A quota of two chunks for objects of three chunks and of one makes eviction,
backpressure, the incomplete-object rule and the headroom bind at once, and the
last chunk is shorter than the others. Two attempts show a retry and its end, and
two generations a cancelled window and its successor. For the jobs, two that
share a torrent show every interference through the account, two workers every
overrun of a lease, and three candidates a first, a middle and a last one.
`MaxObjects` (2) admits one object too many for a hash, `MaxGeneration` bounds
`readAheadGeneration`; these two are the only bounds of those modules that do not
come from the code.

`publication`: one change from nothing or from an earlier pair, with two failures and
two stops, reaches every path through the save, its rollback and the restore, and a
second failure inside the handling of the first. A second change would start from a
directory that is one of the initial ones, or one with generations left behind, which
the failures of the first leave too; two changes with three failures and one stop were
run once for the safety properties (11.0 million states). There and in `publication` the
number of generations never reaches its bound. `watchlist`: two episodes show a frontier that
moves and one that is watched again, two jobs a job of an earlier episode beside one
of a later; three episodes and three jobs were run once (1.1 million states).
`console`: a run of everything with everything is out of reach, so a scenario says
what was saved when the page is opened, which buttons the user presses, and how many
clicks (up to 6), reloads and restarts there are. The ten scenarios of
`MCSetupConsole` are the first setup, a change of the manifest with and without a
restart, a change of the token with and without the watchlist panel in use, media asked
for with and without a search connection, a job that ends while it is shown, with a
restart or a reload, and the watchlist. Two accounts that share a file, two files (one
a special) and one intent let every answer differ from the one before. The manifest is
full with both files, which are all there are, so the bound on its size never refuses
anything in the run: that part of `SelectionDiscovered` is exercised only by the theorem
`SelectionFound`. There is one tab, and one request per handler; the buttons allow
no more.

Fairness. `RollingCache`: goroutines that can run do run, and a fetch goes on,
because its attempts are bounded and share one timeout. Nothing is assumed of
clients, of the catalog or of the process. `AcquisitionJob`: a worker goes on
(every provider call has a timeout), time passes, and a job that is eligible
again and again is claimed in the end, because `Claim` orders by the absolute
time of the next attempt. That is strong fairness per job, and it is needed since
another worker's claim disables this one's. `Publication`: the transition that holds
the lock goes on and the refresh worker runs while the process does; a scan that is
asked for again and again succeeds in the end (strong fairness of `RefreshDone`, for
`Run` retries for ever and an unreachable Plex is not the service's fault).
`Watchlist`: the worker goes on with its row, leases run out, and a row that is ready
again and again is claimed in the end. `Claim` does not order rows by how long they have
waited (acquiring rows come by `lease_until`, then `first_observed`,
`repository.go:320-326`); what justifies the assumption is that `Run` claims row after
row until none is due, that every row it has left comes back only after the reconcile
interval (5 seconds at least) or a cooldown, and that going through the rows that are due
takes less time than that, which is assumed. `SetupConsole`: a request that was sent is
handled or lost, a handler whose answer is there goes on (the event loop), and a timer runs out. The
user, the process and its jobs owe nothing.

## Findings

1. `rolling_position`: two reads of one generation that finish out of order move
   `lastReadEnd` backward (`rolling.go:444`), which
   `docs/superpowers/specs/2026-08-14-playback-aware-read-ahead-design.md:21`
   says the generation checks prevent.
2. `jobs_user_object`: a torrent the user adds while a creation fails is taken for
   the job's own and may be deleted (`worker.go:355`);
   `docs/architecture.md:218` says "A provider object BlackPearl did not create is
   never eligible for cleanup."
3. `jobs_published`: an object that one job published may be deleted by another
   (`worker.go:477`). In the run two jobs plan the same torrent; the first creates the
   object and owns it, the second finds it, attaches it unowned, publishes and succeeds;
   then the first finds it unplayable or stalled for its own intent and deletes it.
   `docs/architecture.md:72` says "Existing account objects and published objects are
   never fallback-cleaned."
4. `console_change`: choosing videos with the saved token and applying without an edit
   turns a special (season 0) of the manifest into an episode of season 1, whether or not
   another file is added. The server leaves season 0 out of its
   JSON (`internal/domain/setup.go:38`) and the page drafts `item.season ?? 1`
   (`setup-console.tsx:178`), while it labels the same item as season 0 (line 825);
   the test at `setup-console.test.tsx:127` says that the page "keeps the active
   manifest selected when adding videos with the saved token".

Seen while modelling, without a run: next-episode prefetch does evict chunks of the
object that it prefetches (`rolling.go:524`), where `docs/architecture.md:141` says it
"stops rather than evicting current cache data"; a background job for season 0 is
rejected by the page, and hides the list of jobs (`api.ts:450`).

## Proofs

The theorems hold for all values of the constants under the named assumptions of the
modules (`CacheAssumption`, `JobAssumption` and `LeaseAssumption`, ...), which TLC
evaluates on every run. An invariant that a property needs was first checked by TLC, on
the runs' instances or larger ones, and then proved.

| Module | Theorem | Property |
|---|---|---|
| `RollingCacheProofs` | `CacheInvariant` | the inductive invariant `CacheInv` |
| | `TypeCorrect` | `TypeOK`, with every read inside its bounds |
| | `LedgerCorrect` | `LedgerExact` |
| | `QuotaHolds` | `QuotaRespected` |
| | `CopiesAreSafe` | `PinnedChunkReadable` |
| | `PinsCorrect` | `PinsMatchReaders` |
| | `FlightsAreSingle` | `SingleFlight` |
| `RollingCacheLimitProofs` | `ObjectsStayIncomplete` | `IncompleteObject` |
| | `DiskStaysWithinQuota` | `DiskWithinQuota` |
| | `NobodyWaitsInVain` | `NoLostWakeup` |
| | `HeadroomKept` | `BackgroundKeepsHeadroom` |
| | `OthersSpared` | `PrefetchSparesOthers` |
| | `PersistentKeeps` | `PersistentRetains` |
| `AcquisitionJobProofs` | `JobTypes` | `TypeOK` |
| | `LeaseFences` | `LeaseInv`: who holds the lease has seen the row as it is |
| | `PlanFollowed` | `PlanInOrder` |
| | `ObjectAlwaysFits` | `ObjectFitsStage` |
| | `NeverDuplicated` | `NoDuplicateObject` |
| | `TerminalStays` | `TerminalFinal` |
| | `OwnedIsCleanedUp` | `OwnedLeavesAccount` |
| | `SucceedsOnlyPublished` | `SucceedsPublished` |
| `PublicationProofs` | `PublicationTypes` | `TypeOK` |
| | `ChangeAllOrNothing` | `AllOrNothing` |
| | `ServiceImplementsDurableManifest` | `ImplementsDurableManifest` |
| `WatchlistProofs` | `WatchlistTypes` | types of all variables |
| | `ClaimHeld` | `ClaimInv`: the worker's row stays its own |
| | `NeverRetroactive` | `NonRetroactive` |
| | `OneAhead` | `OneEpisodeAhead` |
| | `SucceededPublished` | `SucceededIsPublished` |
| | `NeverBack` | `FrontierNeverBack` |
| `SetupConsoleProofs` | `ConsoleInvariant` | the inductive invariant `Inv` |
| | `ConsoleTypes` | `TypeOK` |
| | `ButtonsExact` | `PendingExact` |
| | `SelectionFound` | `SelectionDiscovered` |
| | `PairingKept` | `ReloadKeepsPairing` |
| | `PanelTells` | `PanelHonest` |
| | `ButtonsPair` | `AnswerPairs` |

### The cache

`QuotaRespected` needs the ledger, because the code compares counters and not bytes;
the ledger needs `SingleFlight`, because publishing a chunk that is already cached would
count it twice; the pins need to be exact, because a chunk is evicted when its counter is
zero; and that every cached chunk has its file needs that a renamed file stays on disk
until it is published. `CacheInv` is their conjunction, with the fact that a process that
is down holds nothing.

`Bytes` counts pairs of a chunk and an offset, so its additivity is that of `Cardinality`
(lemmas on disjoint unions and differences). `EvictUntilSound` and `TryReserveSound` say
what any way of ending an eviction loop guarantees: the victims are unpinned, and if the
verdict is `ok` the new total fits. Every step of a running process then has one of a few
effects on the cache (it leaves it alone, only evicts, evicts and reserves, advances a
fetch, ends one, pins, or unpins), and each effect preserves the invariant; each action is
shown once to have its effect. Starting and dying are treated apart.

`RollingCacheLimitProofs` goes on from `CacheInv`:

- `IncompleteObject`: a reservation makes room in its object first (`MakesRoom`), and
  `Open` trims what an earlier process may have left.
- `DiskWithinQuota` follows from `DiskKnown`: as long as files can be removed, those on
  disk are the cached chunks, what running fetches have renamed, and what they still write.
  The bytes of all three are in the ledger.
- `NoLostWakeup`: a foreground miss is refused only while something is pinned or in
  flight (`FullMeansBusy`), because an idle pool has room for one chunk in its quota and,
  with `BigReads`, in its object; what is pinned or in flight when a reader starts to wait
  wakes the reader when it ends.
- `BackgroundKeepsHeadroom`, `PrefetchSparesOthers`: from what `TryReserve` grants to each
  kind of fetch.
- `PersistentRetains`: nothing evicts in persistent mode, and recovery has nothing to
  trim; that an order of the chunks by age lets the loop stop at once takes its least
  element.

### The jobs

`Inv` says that rows are in a state that the table allows (`RowsInv`), that a worker
carries what its place needs (`WorkInv`), `LeaseInv`, that objects are numbered once
(`NumberInv`), that a candidate is given up when the object is gone (`GoneInv`), and that
one is created where the job has none (`FreshInv`). `LeaseInv` is the centre: a commit is
accepted from the holder of the lease, which has seen the row as it is, so what the
worker decided on its snapshot is right for the row. That a worker whose lease may have
run out is only at a few places (`Overrun`) is what keeps `FreshInv` and
`NoDuplicateObject` with several workers.

`SucceedsPublished` says of every job that has succeeded that its object was published
for it. A worker that is about to commit has published the object of the row as it saw it,
and `LeaseInv` makes that the object of the row. Whether the manifest still exposes the
object is another matter: the lease fences the table and not the manifest, which the user
or a worker that lost its lease may have changed since.

### The publication

While a transition holds the lock, `ModeInv` says what it is after, `GenerationInv` that
the generation it writes is not the current one before it is whole, and `LoadsInv` what
may be loaded at each of its steps, now and after a loss of power; `ResultInv` says the
same of a result once there is no transition, and `KeptInv` that a manifest published for
certain stays. Each file operation has one of four effects (`KeepsSaved`, `SavesAnother`,
`Publishes`, `Stops`), each of which is a step of `DurableManifest` or a stutter.

### The watchlist

The worker's row stays its own because nobody else moves a row that is leased and
acquiring (`ClaimInv`); with it, what the worker carries from one call to the next is true
of the row when it is written (`CarryInv`, `RowJobInv`). `PolicyInv` is why an
observation whose policy is read after its snapshot admits nothing but what is in `open`:
until the observer writes, everything that its values make eligible is there.
`ViewedInv` gives the advancer the same: what it checked some calls ago was watched.

### The setup page

The server first: `ServeOK` says of every handler, path by path, that what it leaves is
typed and fits into a manifest, that its answer is typed, that one path alone changes the
policy and one alone the token, and that an answer tells the policy, or the token for which
it carries a session, as the handler leaves them.

`Inv` of the page then has these parts, which TLC checked on the instance of `console`:

- `TypeInv`: the page knows no CSRF token and shows no job that the server has not given
  out, and what it shows of a manifest fits into one (`findVideos` starts the drafts from
  it, so `SelectionDiscovered` needs that);
- `CallsInv`: every request asks for something there is, and every answer that waits is one
  that this server may have given;
- `ButtonInv` and `WatchInv`: of the requests that share `pending`, and of those that share
  `watchlistLoading`, at most one is under way, exactly while the flag is set. The loading
  page joins the second group with its second request (`LoadInv` says when it has only the
  first);
- `FreshInv`: until the page is loaded again, an answer that waits for its handler tells the
  policy, or the token, that is saved now. Only a request of the same group could have
  changed it since, and the group allows one. After a reload a request that the earlier
  page sent may still change it, so `PanelHonest` and `AnswerPairs` end there;
- `SearchInv`: nothing is selected while videos are looked for, so that no `apply` and no
  draft is of an earlier discovery when the next one is shown.

`AnswerPairs` follows from `FreshInv`: find videos, apply, connect, add and prepare, when
they succeed, set the session of an answer that is up to date. The policy handler also
adopts a session and is not covered: it waits for no button, so that an apply with another
token may overtake its answer, which then brings back the session of the earlier token
(`setup-console.tsx:213-215`). A browser without the bootstrap secret is then asked to pair
again; nothing in the documentation speaks of it.

A step of the page changes one group at most (`QuietKeeps`, `ButtonTurnKeeps`,
`WatchTurnKeeps`); what it shows and stores is a condition on the new page alone
(`Acceptable`, `Watched`, `PairsWith`), which each handler is shown to meet. That the
account's objects are finitely many (`ServerAssumption`) is what lets them be counted.

### Checked by TLC only

The liveness properties (`BackpressureEnds`,
`FetchesEnd`, `ActiveJobAttended`, `PlexSeesInTheEnd`, `JobReconciled`, `ButtonsComeBack`,
`JobShownInTheEnd`), which depend on fairness and are out of the prover's reach.

## Plan

1. `RollingCache` with its proofs: done.
2. `AcquisitionJob`, `Watchlist`, `Publication` with `DurableManifest`, and the setup
   page with its server: done.
3. Proofs of all safety and action properties that the passing runs check, and of the
   refinement: done.
4. Selection functions: candidate plans, ranking and deduplication, the next episode,
   checked against reference definitions over bounded inputs.

## Not modelled

HTTP exchanges with providers and Plex, SQL migrations, configuration parsing, logging
and tracing, scripts: conversions and wiring without state that a property is about.
Of the page, wording, labels, formatting, the search filter and the buttons that show
or hide a key. Of the handlers, the refusal of malformed bodies, foreign origins and
wrong methods, none of which the page sends. Of the setup repository, the `Load` and
`Save` of the earlier single-item format. Of the watchlist, the status counts and a
change of the media type of an entry. Of PearlNFS, the table of 4096
handles (a handle that it forgets is looked up again by the client) and `Reload`,
which does not run beside a publication.
Several tabs or browsers at once: what one tab does to the server shows in the other
only after a reload. PearlFS keeps no state. `PROJECT.json` lists every part with the
reason.
