# A TLA+ model of the Neanelu Shopify backend

Neanelu_Shopify is a Shopify app backend. Its worker process
(`apps/backend-worker`) drives Shopify's asynchronous *bulk operations* for each
installed shop, ingests their results into PostgreSQL, and runs AI enrichment,
webhooks and OAuth beside them; the packages under `packages/` hold what the
worker shares. This directory is the verification project for that code: TLA+
modules that follow the source, TLC runs over small instances, and TLAPS proofs.
Paths below are relative to the repository root; `B/` abbreviates
`apps/backend-worker/src/processors/bulk-operations/` and `Q/` abbreviates
`packages/queue-manager/src/`.

## 1. Inventory

### 1.1 Parts, their state and how they meet

| Part | Code | State | Operations |
| --- | --- | --- | --- |
| Bulk lock | `Q/locks/bulk-lock.{ts,lua}` | one Redis key per shop, with a token and a TTL | acquire, renew on a timer, release |
| Bulk run | `B/state-machine.ts`, `B/failure-handler.ts`, table `bulk_runs` | a row per run: status, Shopify operation id, retry count, cursor state (contract, partial URL) | insert or load, mark started / polling / failed / completed, reset for retry, salvage, abort |
| Orchestrator worker | `B/orchestrator.worker.ts` | the job on the bulk queue; holds the lock | load the run, start a Shopify operation, record it, hand over to a poller |
| Poller worker | `B/poller.worker.ts` | the job; its poll attempt | ask Shopify, delay, hand over to ingest or reconcile, retry, salvage, fail |
| Ingest worker | `B/ingest.worker.ts`, `B/pipeline/` | checkpoint in the cursor state, staging tables | download, transform, COPY to staging, merge, synchronise, complete |
| Mutation reconcile | `B/mutation-reconcile.worker.ts` | result lines, requeue attempt | record failed lines, requeue the recoverable ones as a new bulk job |
| Bulk routes | `apps/backend-worker/src/routes/bulk.ts` | none of their own | start, upload, cancel, retry |
| Bulk scheduler | `B/schedule.worker.ts` | `bulk_schedules`, a global Redis lock | start the schedules that are due |
| Job queue | `Q/queue-manager.ts`, `Q/bulk.ts`, `Q/policy.ts`, `Q/job-delay.ts`, over BullMQ | jobs by id, attempts, delays, the dead-letter queue | add (idempotent per id), run, time out, delay, fail, dead-letter, expire |
| GraphQL rate limiter | `Q/strategies/fairness/rate-limiter.{ts,lua}` | a token bucket per shop in Redis | take tokens or answer with a delay |
| Webhooks | `apps/backend-worker/src/routes/webhooks*.ts`, `processors/webhooks/` | dedupe keys, stored payloads, `webhook_events` | verify, deduplicate, store, enqueue, handle, uninstall |
| OAuth and tokens | `apps/backend-worker/src/auth/` | `oauth_states`, shop tokens, a needs-reauth flag | begin, callback, use a token with one retry, health check |
| Stitching | `B/pipeline/stages/transformation/stitching/parent-child-remapper.ts` | recent parents, buffered variants, bucket files on disk | read a line, buffer, spill, evict, resolve a bucket, quarantine |
| Consensus | `processors/pim/consensus.worker.ts`, `packages/pim/src/services/consensus-engine.ts`, `routes/consensus.ts` | `prod_specs_normalized` (a history of snapshots), an advisory lock per product | recompute, merge with human corrections, resolve a conflict, mark manually |
| Similarity matches and scraping | `processors/similarity/`, `processors/pim/extraction.worker.ts`, `routes/similarity-matches.ts` | `prod_similarity_matches`, `scraper_queue` | search, triage, audit, decide, extract, scrape later, make primary, delete |
| AI batches | `apps/backend-worker/src/processors/ai/`, `Q/ai.ts` | `embedding_batches`, `shop_product_embeddings`, `embedding_backfill_runs` | select, submit, poll, store, retry, backfill, clean up |
| Quality levels and webhooks | `packages/pim/src/services/quality-promoter.ts`, `processors/pim/` | level per product, quality events | promote, demote, deliver, sweep |
| Budgets and enrichment | `packages/pim/src/services/` | cost rows, dedupe keys, in-process buckets | check, spend, pause, resume, reserve |

The bulk parts meet through three shared stores. **Jobs**: every hand-over
(route to orchestrator, orchestrator to poller, poller to ingest or reconcile,
poller back to orchestrator on a retry) is a BullMQ `add` under a job id derived
from the shop and the idempotency key or the run, and `add` under the id of a
job that still exists - waiting, running, or kept for at least 24 hours
after it completed - does nothing. **The run row**: four workers and two routes update
it, each in a transaction of its own, with the transition check in another.
**The lock**: it covers the orchestrator's processor only; pollers, ingests and
routes run beside it.

What the catalogue is enriched with flows the other way: a search finds external
pages (`Matches`), an extraction reads their specifications, a consensus merges
the votes of the confirmed ones into a snapshot and sets the quality level
(`Consensus`), and a change of level is posted to the shop's webhook
(`QualityEvents`). Those workers share rows and not locks: each has its own
transactions, and hands over through jobs whose ids are made from the row. Under
all of it is the installation (`Installation`): which shop is known, and whether
its token still works.

### 1.2 What is hard

* A status that is checked in one transaction and written in the next.
* Job ids that make hand-overs idempotent also make a *second, meant* hand-over vanish.
* A worker that dies, or times out while it keeps running, between a call to
  Shopify and the row that records it.
* A lease that expires under a live processor.
* A retry that resets the row while others still work on the previous attempt.
* A checkpoint that is written in another transaction than the rows it counts.
* A lock of the session that is given back before the commit it should protect.
* A job added before the transaction that its row belongs to commits.
* A result that is staged in a different order, or twice, by the next attempt.
* Jobs that add their own successor, under the id they are running under.
* A webhook that is looked up as a duplicate, stored, enqueued and marked in four
  steps, while Shopify posts it again, and whose event may come late or never.
* Redis counters and clocks read by several workers.

### 1.3 What makes each part correct

* Lock: one orchestrator per shop; a late holder is harmless; an abandoned key expires.
* Run: one active run per shop; the retry budget; a run in a terminal status
  stays there; a run that waits for Shopify is polled; each Shopify operation is
  recorded by one run; completed means merged.
* Job queue: a job is attempted at most `attempts` times, a delay costs none, an
  exhausted job is in the dead-letter queue.
* Ingest: every record of the artifact is staged when the ingest merges,
  across crashes and resumes; a checkpoint counts nothing that is not staged.
* Stitching: every child gets the verdict that the whole file gives it, whatever
  the order of the lines and the bounds of the memory; a resume loses nothing.
* Consensus and levels: one current snapshot per product; a human's correction
  survives; an event is sent for each change of level and for nothing else, and
  is accepted once.
* Matches: one primary source; no url twice; what is confirmed is extracted, and
  what is extracted and confirmed is counted.
* Installation: a state stores one token; an uninstall wipes once and is not
  forgotten; a dead token is noticed, if the checks list its shop.
* AI batches: the orchestrator has one batch open; an open batch ends; a product's
  content is embedded in the end, unless something known happened to it.
* Rate limiter: no window lets through more than the bucket plus its refill.

## 2. Modules

| Module | Models | Kind |
| --- | --- | --- |
| `ShopMutex` | what the bulk lock promises: at most one orchestrator of a shop inside | abstract specification |
| `BulkLock` | the Redis lease, its renewal timer, late commands and lost replies | component; implements `ShopMutex` |
| `BulkRun` | runs, jobs, orchestrator, poller, hand-over to ingest and reconcile, retry, salvage, cancel, upload | component (the core) |
| `IngestCheckpoint` | one run's ingest: download, staging, checkpoint, resume, merge | component |
| `StitchContract` | what stitching promises of a result, memory and order left aside | abstract specification |
| `Stitching` | the remapper of `IngestCheckpoint`'s records: caches, bucket files, attempts | component; implements `StitchContract` |
| `QualityEvents` | event rows, dispatch jobs, sweep, settings, retry route | component |
| `Consensus` | consensus jobs and the routes beside them, on top of `QualityEvents` | component, extends `QualityEvents` |
| `ScrapeQueue` | pages to be fetched later, and overlapping sweeps | component |
| `Matches` | search, audit, decision and extraction of the matches of a product | component, extends `ScrapeQueue` |
| `Installation` | OAuth callback, uninstall webhook, token checks of one shop | component |
| `Embeddings` | the embeddings of a shop's products: orchestrator, pollers, retries, backfill | component |
| `MC...` (one per component above) | instances for TLC | model checking |
| `BulkLockProofs`, `BulkRunProofs`, `IngestCheckpointProofs`, `StitchingProofs`, `ConsensusProofs`, `MatchesProofs`, `InstallationProofs`, `EmbeddingsProofs` | theorems | TLAPS |

Definitions named `...Late`, `...Anyway`, `...Again` and the like, marked *faulty
variant, for mutation*, are no part of a specification: each is the definition
beside it with a plausible bug, and each property is known to fail with one.

### 2.1 `BulkLock`

A *job* is one run of the orchestrator's processor; it draws a random token for
its only acquisition, so the token is the job. A Lua command is sent, executes
atomically, and is answered in separate steps, and may be lost on either side
(`AcquireReplyLost`, `RenewFails`, `ReleaseFails`). Time is a `Tick` that
shortens the TTL. `Punctual` are the jobs whose processes wait for their timer and
for Redis no longer than `Delay`, and lose no renewal; nothing bounds the delays of
the others, which run beside them.
The code's numbers are a lease of 30 minutes and a refresh every minute; the
instances keep their order (`Refresh + 2 Delay < Lease`).

### 2.2 `BulkRun`

Everything that happens to the runs of one shop. The correspondence:

| State | Code |
| --- | --- |
| `row[r]` | the row of `bulk_runs`: `status`, `shopify_operation_id` (`op`), `retry_count`, whether the contract in `cursor_state` is a mutation (`mut`), `partial_data_url` set; `merged` is history: the result of the run reached the catalogue |
| `job[j]` | the BullMQ job under id `j`: none, waiting (or delayed), active, done (kept 24 h or longer), attempts used, the operation in its payload |
| `proc[w]` | a processor: where it is, its job and its local variables; `lost` when its time-out won the race of `createWorker` and nobody waits for it any more |
| `shopify[o]` | what Shopify would answer about operation `o` |
| `lock` | the holder of the lock, or `"dead"` for the key of a dead one |
| `cancel` | the `DELETE /bulk/:id` in progress |

A step is one database transaction, one call to Shopify or one call to Redis.
Hence `CheckTransition` (the transition table, `assertValidBulkRunTransition`)
and `MarkStatus` (the `UPDATE`, which does not look at the status again) are two
steps, and so are reading the retry count (`Decide`), resetting the row
(`RequestRetry`) and adding the job (`RequeueOrchestrator`). A run is named by
its idempotency key, since `insertOrLoadBulkRun` never inserts a second row under
a key that has one. `Added` is BullMQ's `add`: without effect under the id of a
job that exists. `IndexAllows` is the partial unique index of migration 0060.
What the environment does beyond the straight path is a set, `Trouble`, so that
each run says what it assumes, and crashes, throws, time-outs, lapses and cancels
share a budget, `MaxFaults`.

### 2.3 `IngestCheckpoint`

The result is `N` lines, a record each; bytes are counted in lines. Records are
numbered as a first attempt hands them on: `1..Direct` while it reads, the others,
whose parent is not in memory, at the end; `Lines` is their order in the result. An
attempt (`Begin`) reads the checkpoint, prepares the local copy (`Prepared`,
`preparePersistedJsonl`), cleans staging when no record is committed, reads a URL
from byte 0 - `runBulkStreamingPipelineWithStitching` takes the resume offset and
does not use it - or an uploaded file from the offset (`Input`). `Arrive` is a
line parsed (at most `Ahead` of the handled ones), `Spill` a line appended to the
bucket file, `Resolve` the beginning of `finalize`, which hands on what that file
holds. The file outlives the attempt: the next one on the same host appends to it and
hands on more records than the one before, some twice; on another host (`Move`) it
starts with none. One file stands for the 256. `Handle` is the `onRecord`
callback, `Copy` a `COPY` of `StagingCopyWriter.flush`, `Save`
`persistIngestCheckpoint`. Staging is a set: a record copied twice, by the
attempt that died and by the one that resumed, is one row to the merge, which
takes `DISTINCT ON` the record. `Interrupted` is the catch block around the
pipeline: with a local copy the attempt goes on from it, with the counters it has.
`Offsets` is any value up to `bytes_processed` while there is no checkpoint,
because nobody waits for those updates. Attempts follow one another; one that
outlives its 15-minute time-out beside the next is not modelled here.

Left out: what decides that a line is spilled, and several bucket files (that is
`Stitching`), what each COPY contains beyond which records, artifact rows
and pruning after completion, and download retries that succeed.

### 2.4 `StitchContract` and `Stitching`

One result, read line by line. `recent` and `order` are `recentParents` and
`recentParentsOrder`, `buffer` is `inMemoryOrphansByParentId`, `parents[b]` and
`orphans[<<k, b>>]` the bucket files, `out` what went to `onRecord` in this
attempt. `ReadParent` and `Drain` are a parent and the variants that waited for
it (each `await` is a step, since the worker may die there); `ReadChild`,
`BufferVariant` and `SpillChild` are the three ends of a child in `processLine`;
`EndOfLines`, `SpillBuffered`, `OpenBucket` and `Resolve` are `finalize`; `Save`,
`Finish` and `Again` the ingest around it. The next attempt
starts from the first line with empty memory and *appends* to the bucket files it
finds, so the orphans of the dead attempt are resolved again; `moved` says that it
ran where there were none. `committed`, `from` and `staged` are the checkpoint of
the ingest: the records an attempt skips, by their *number*.
`StitchContract` knows the whole file: a child is emitted if its parent is
anywhere in it, an orphan otherwise.

### 2.5 `QualityEvents` and `Consensus`

One product and one attribute. A step is one SQL statement, since the transactions
run at READ COMMITTED; what a transaction wrote is applied at `Commit`. `tx[c]` is
the transaction on pooled connection `c` with the local variables of its code;
`advisory[c]` is the *session* advisory lock of that connection, which `Unlock`
gives back before the commit and a failed statement does not give back at all
(`StatementFails`); `MasterFree` and `SnapFree` are the row locks that an UPDATE
waits for. `TakeJob`, `Compute`, `Merge`, `UpdateMaster`, `ReadCurrent`,
`WriteSnapshot`, `KeepLevel`/`ChangeLevel`, `Unlock`, `Commit` are
`processConsensus` in its order; `ResolveBegins` and `SetLevelBegins` the two
routes. The votes are their outcome: a value, none, or a conflict, and the level
that the matches merit. An event is a `draft` until the transaction that wrote it
commits; its dispatch job is added at once and may run before (`HookUnknown`).
`hook[<<e, "first">>]` is the job `qw:<event>`, whose id BullMQ keeps,
`hook[<<e, "again">>]` the one of the retry route. An attempt ends accepted and heard
(`HookAccepted`), refused (`HookRefused`), accepted with the answer lost
(`HookUnheard`: to `dispatchQualityWebhook` a failure like any other), or dead
(`HookDies`); the last two are counted in `unheard`.
The resolve route takes no lock; that it runs beside a consensus job, with two
current snapshots in the end, is the trouble `"overlap"`, which no run switches on
(section 5).

### 2.6 `ScrapeQueue` and `Matches`

The matches of one product. `rows[r]` is a row of `prod_similarity_matches`:
url, `match_confidence`, triage band, whether specifications were extracted,
primary. `search`, `audit[r]` and `extract[r]` are the three workers (`audit` and
`extract` by job id, with a kept job in the way of a new one), `admin[a]` a
request of the similarity or the product routes (a creation goes through the same look-up,
`CreateLookUp`, and insert, `CreateInsert`, as the search's matches), `due` and `seen` the consensus
that is triggered and what it counted. `MayBecome` is
`validateConfidenceTransition`, which the PATCH route obeys and the audit does not.
The primary request is one transaction of two UPDATEs: `held` are the rows it
has locked between them. `pages` is `scraper_queue`, `sweep[s]` one call of
`runScraperQueueSweep`: it claims its batch, scrapes page by page, and another
call may take its pages for stale (`Recover`) and write after it, in either order.

### 2.7 `Installation`

`shopify` is what Shopify knows (installed or not, the number of the last
installation, whether the uninstall topic is subscribed) and `row` what the
application stored; installation `n` has token `n`. A callback exchanges its code
(`Exchange`, with the look-up of the state) and then saves (`Save`: one
transaction, and the registration of webhooks after it, which may fail). A
delivery of the webhook goes through `Dedupe` (look-up and payload), `Enqueue`
and `Mark`, its job through `Load`, `Wipe` and `Clean`. `Lapses` is Redis
forgetting the payload, the mark or BullMQ the kept job. `Pick` and `Ask` are a
health check or an API call (`withTokenRetry`): the token may have changed in between.

### 2.8 `Embeddings`

One shop, one kind of embedding and one model. `content[p]` is the content hash of
a product, `emb[<<p, h>>]` a row of `shop_product_embeddings`, `newest[p]` the row
generated last and `dirty[p]` whether the product was updated after it, which is all
that the orchestrator's WHERE clause looks at (`Selected`). `batch[b]` is a row of
`embedding_batches` together with OpenAI's batch (`remote`, `answer`), `made` the
order of the rows, `job[j]` the BullMQ jobs: one id for the orchestrator, one for the
backfill, one per batch for pollers. A processor has the place of its job in `proc`;
the one whose time-out has won is at `Late`, where nobody waits for it.

`Look` (the open batch), `Select`, `Submit` (`createBatch` and the INSERT), `Hand`
are `runAiBatchOrchestrator`; `PickNothing`, `PickSpent`, `PickSome`, `Submit`,
`Hand`, `Advance` are `runAiBatchBackfill`; `Ask`, `Note`, `Store`, `Retry` are
`runAiBatchPoller` and `scheduleEmbeddingRetries`. `Spent` and `Wanted` are
`computeEmbeddingCandidates`. `by` in a batch is history: who submitted it, or that a
late processor wrote it.

Abstracted: the statuses pending, submitted and processing are *open*, the other
three *ended*; attempts are not counted (an attempt that failed may be the last);
the slot of an ended batch that nobody refers to is free at once (`Cleanup`, which
goes first); one processor at a time is late; the daily backfill and edits of
contents are counted as troubles, to bound them. An item without a line in the
files is as one of a failed batch. The rows of the products' dead-letter queue, costs and
throttle counters are left out; a throttled or refused job is `Refused`.

## 3. Runs

| Run | Instance | Shows |
| --- | --- | --- |
| `lock` | 3 jobs, one of them late without bound | `MutualExclusion` and `ImplementsMutex` for the two in time, `AbandonedKeyExpires`, `OnlyHolderTouches`: a job that outlived its lease never extends or deletes the next holder's key |
| `run_ends` | 1 key, 2 workers; ends, poll age, cancel, line errors, job retention | `EveryRunEnds` |
| `run_known` | 2 keys; every refusal, failure and expiry, no crash | `OpsAreKnown`, `IngestNotUndone`, `RetryBudget` |
| `run_crash` | a query and a mutation key; 2 crashes | `RunningOpIsWatched`, `PendingRunHasJob`, `OpNotReplaced` |
| `run_zombie` | a key and an upload beside it, queries only; 2 of time-out, lapse, crash, throw | `CompletedIsMerged`, `OneActiveRun` |
| `retry_lost` | 1 key, a transient failure | **violated** `PendingRunHasJob`: the finding of section 5 |
| `ingest_crash` | 4 records (one not staged, two spilled), batch 2, parser 2 ahead, 3 attempts, URL or upload; any deaths and failed merges, and one other trouble | `CommittedAreStaged`, `MergedIsWhole`, `CommittedKept`, `CheckpointGrows` |
| `stitching` | every result of up to 3 lines of 8 kinds, every order of 5 that overflow; room for 1 parent and 1 variant, 2 buckets, 3 attempts | `ImplementsContract`, `EveryLineAnswered`, `ParentsFirst`, `MemoryBounded`, `NothingSkippedIsLost` |
| `consensus` | 2 connections, 2 jobs of 2 attempts, 2 values, 2 edits, 2 events, 1 trouble of ten | `OneCurrent`, `LevelIsLastEvent`, `EventFromLevel`, `ManualSurvivesMerge`, `SentWasAccepted`, `AcceptedOnce` |
| `matches` | 2 rows, 2 urls, 2 requests, 2 sweeps, 1 page of 2 scrapes, 2 troubles or requests, of thirteen kinds, or a creation | `OnePrimary`, `UrlsAreUnique`, `ConfirmedIsExtracted`, `VotesAreCounted`, `ScrapesBounded` |
| `installation` | 2 installations, 2 states, 2 callbacks, 2 deliveries at once, 1 check, 2 attempts, 1 fault of six | `StateUsedOnce`, `WipedOnce`, `AnswerIsKept`, `DeadTokenNoticed` |
| `embeddings` | 1 product of 2 contents, 2 batches, 2 retries, 2 jobs at once, 1 trouble of ten | `OneOrchestratedBatch`, `EveryBatchEnds`, `ContentIsEmbedded` |

**Why the bounds suffice.** Two workers are the smallest number at which a
processor runs beside another of the same run (a poller beside the ingest, a
timed-out processor beside its next attempt); two keys, or a key and an upload,
the smallest at which runs compete for the shop. One retry and two attempts make
the last ones, and the step over them, happen; two faults let a second thing go
wrong while the first is handled. In the ingest, four records and batches of two
make two checkpoints and a last flush, with one record that is skipped between
them; three attempts let a resumed attempt die after it has counted records that were
handed on twice, and be resumed. On such a run all three resume properties fail when
the last attempt is on another host, so they do not claim that case. In the stitching,
memory for one parent and one variant overflows at the second, the two buckets
hold parents that share one and that do not, and every relative order of two
parents and three children occurs. Two connections are a consensus job beside
another or beside a route; two events let the level change again while the first
change is being delivered; one trouble suffices for each property to be violated by
its mutant, and a second triples the states. Two rows compete for being primary,
two requests and two sweeps for the same row and page; two scrapes are the extraction's
and one sweep's, so that another sweep's claim is one too many. A creation comes without another request or trouble (`Alone`): it meets
the search, which is the overlap that `UrlsAreUnique` is about; what else it may meet is proved in section 4. Two installations are an uninstall that meets a reinstall.
One product and two batches are an orchestrator's batch beside a backfill's, with two contents
the stale result; two liveness properties forbid more. The theorems of section 4 hold for every value of these constants. Deadlock is not
checked where the system stops by itself: when all jobs are done, or attempts are
used up.

Symmetry is used where the members of a set are never compared (`consensus`;
rows, urls, sweeps and requests of `matches`); the requests of `installation` are numbered instead, because it checks a liveness property.

Each run assumes only the trouble in its cfg. In particular `OpsAreKnown` and
`PendingRunHasJob` are checked without what the finding and section 5 report as
breaking them. Four properties name their exceptions in history variables, each
an honest loss that section 5 lists: `ConfirmedIsExtracted` (`unextracted`),
`VotesAreCounted` (`uncounted`), `UrlsAreUnique` (`overlapped`), `WipedOnce` (`excused`).

**Fairness** (`FairSpec` of `BulkRun`; `BulkLock` likewise). A worker that is at a
step takes it (weak fairness: the event loop runs, and a call returns or fails); a
waiting job is taken in the end (strong: BullMQ serves waiting jobs, though
workers are busy now and then); Shopify ends an operation; Redis expires the key
of a dead holder. No request and no trouble is promised to happen. Rate limiting
for ever is not excluded by the code, so `run_ends` is without it; so is it
without `opfail`, whose retry the finding breaks.

`FairSpec` of `Installation` asks even less: a health check that keeps being made
gets Shopify's answer some day (strong fairness of `Ask`, as the network may fail
any number of times first). Callbacks, deliveries and webhook jobs may stop for
ever. That the check comes to this shop is not assumed: it lists the fifty shops that were updated longest ago, finding one
well does not move it, and the schedule ends 1000 rounds after a start of the worker. It is the
premise of `DeadTokenNoticed` (`ChecksReachShop`: weak fairness of `Pick`), which is false without it.

`FairSpec` of `Embeddings`: the scheduler ticks, the orchestrator and the pollers go on
and are taken in the end, OpenAI ends a batch in its
completion window. Nothing is assumed of the
backfill and of a processor past its time-out. Two things the code does not see to are premises of the properties:
`OthersComplete` of both (BullMQ forgets a job that is over 24 hours old only when another
job of the queue completes, and a shop whose ids are all kept adds none that could), `OpenAIEmbeds` of
`ContentIsEmbedded` (OpenAI embeds again and again). TLC refutes the properties without them. `"expired"` is not in the run: it is a
status that `mapOpenAiStatus` takes for pending, so that the batch is polled for ever
(section 5). The other modules state no fairness: their properties are about safety.

## 4. Proofs

All theorems are for arbitrary constants under the named `ASSUME`s.

`BulkLockProofs` - `TypeCorrect`, `HolderUndisturbed`, and, for the jobs in `Punctual`
beside any others, `Exclusion` and `Refinement` (every behaviour of the lease is one of
`ShopMutex`). The inductive invariant `LeaseInv` bounds the TTL from below by
what a live holder's timer can still take: while it holds, a job that is inside
owns the key.

`BulkRunProofs` - `TypeCorrect`; `OneActive` (each of the writers of a status
respects the index); `CompletedMerged`; `RetriesBounded`; `OpKept`; `PendingHasJob`;
`RunningIsWatched`; `IngestKept`; `OpsKnown`. The last four rest on lemmas that say
once what any step does to a row (`RowChanges`), a job (`JobSteps`), an operation
(`ShopifySteps`), an orchestrator (`OrchSteps`) and a poller (`PollSteps`), and on two
invariants that hold whatever fails: no run without a row is worked on
(`RowsExist`), and what is recorded or asked about was started (`OpsGiven`).

* `CompletedMerged` needs what a processor *knows*: one that is about to mark a
  run completed holds a reason that no other worker can take away - the run was
  merged, or its retries are spent and it has a partial URL. `merged` and
  `partial` are never reset and `retry` never falls, so the reason survives any
  interleaving, also in a processor that timed out.
* `RetriesBounded` assumes `"timeout" \notin Trouble`: its invariant is that a job
  has at most one processor. A poller whose time-out let a second one in could
  raise the count twice; `run_zombie` does not claim otherwise.
* `OpKept` assumes `"lapse" \notin Trouble`: an orchestrator in its section holds
  the lock, hence is alone there, hence the run it found without an operation
  still has none when it records one.
* `PendingHasJob` excludes `opfail`, `throw`, `timeout` and `refuse`, the troubles that end
  the job of a pending run: crashes, lapsed leases, cancels, rate limits and expired jobs
  are covered. A pending run is that of a key whose orchestrator job is not done: until it marks
  the run running the job keeps the run (`PendingDriven`).
* `RunningIsWatched` excludes `opfail`, `throw`, `timeout` and `lapse`, and again covers crashes.
  `Watching` says that pollers and their jobs ask about the operation their run records
  and are done only when it or the run has ended, and that somebody is on the way to
  add the poller job of a running run as long as it has none: an orchestrator job of
  the run's own key, or one of another key that was handed the run.
* `IngestKept` assumes `Undisturbed`: no crash, throw, time-out or lapse, no uploads, and retries for
  queries only. Its invariant `Following` is a chain: a poller asks about the operation its run
  records until it made the run forget it, and forgets only what has failed (`PollsFollow`); so an
  orchestrator hands over that operation, or one whose poller is past (`HandsFollow`); so a
  result is handed on only when its operation is completed, by a poller at its last step
  (`ResultsReady`); so a run that is downloading or processing has a completed operation
  (`IngestRuns`), and no poller is between its check and its UPDATE (`NoLatePolling`).
* `OpsKnown` assumes in addition that nobody cancels. A run that records no operation is then new or reset
  (`Straight`), so that the check and the index let the orchestrator record what it has started;
  and a recorded operation is forgotten only when it has failed (`Following`).

The hypotheses are not stronger than the code makes them: with TLC,
`OpsAreKnown` is violated by each of a single crash, throw, time-out, lapse or
cancel, by an upload beside it, and by mutations whose operations fail; and
`IngestNotUndone` by a crash, a time-out, a lapse, or an upload. TLC checked every
invariant named here on instances with two keys, expired jobs, failing operations,
refusals, rate limits and cancels before it was proved.

`IngestCheckpointProofs` - `TypeCorrect` and `Kept` hold whatever goes wrong;
`Committed`, `Whole` and `Grows` under `Resumable` (the result is behind a URL; all that
happened is that workers died and the merge threw, on one host). They assume of the result only
that `Lines` holds every record, the direct ones and the spilled ones each in their
order. The invariant `Resume` says of an attempt (`InOrder`): of the lines it has
read, the direct ones were handed on and the others are in the bucket file
(`Sorted`), or, at the end, what is left is the rest of that file (`Rest`); the
records it was told are committed are staged, and those it handed on are staged or in
its buffer (`Covered`); the checkpoint is the one it started from or counts no more
than it has handed on (`Attempt`); and once the run is marked processing everything
is staged (`Marked`). The checkpoint alone does not say why skipping is safe: it is
safe because the bucket file only grows at its end (`SpillKeepsNumbers`), so that a
number, once counted, is the same record to every later attempt that has the
file. TLC checked the properties on the instance above before they were proved.

`StitchingProofs` - `TypesHold`, `ParentsAreFirst`, `MemoryIsBounded`, `LinesAnswered`, `SkippedIsStaged`, and `ContractImplemented`:
every behaviour of `Stitching` is one of `StitchContract`, for any file, any memory
of at least one, any number of buckets and attempts. The invariant has two parts. `ParentsKnown`: each parent
handed on is in the bucket file of its identifier, what the cache
holds has been handed on, and a bucket file that an earlier attempt left holds
parents of the same result only. `PhaseOK`: a line is resolved only
after the last line was read, so that a parent which is not in its bucket by then is
nowhere in the file. Hence every verdict is the contract's (`VerdictsRight`), and
appending a record is one `Answer`, or a stutter when the line was answered
before; a new attempt is a `Restart`. What the order of the lines and the evictions do to the cache does not matter,
because the cache only ever decides *earlier* what the buckets decide too.

* `MemoryIsBounded`: the set of recent parents has no bound of its own; it is contained in the queue
  of their identifiers (`MemoryInv`), where an identifier may come twice, and the queue is bounded.
* `LinesAnswered` counts, for each line, the records handed on and the places in the buffer, in
  the bucket files and before the reader (`CountedAt`): together at least one, and no
  more than there were attempts.
* `SkippedIsStaged`: record `k` of one attempt need not be record `k` of the next, since a bucket file
  that is resolved again has grown. The invariant (`ReplayInv`) says that a history exists: a run of the reader
  from its first state, of which what every attempt has read is a beginning (`Replayed`,
  `Where`), the number of records handed on when each bucket was opened (`Bases`), and the same numbers of the
  attempt that made the checkpoint, with the place it was at (`SavedResolving`). What the
  checkpoint counts of that run is staged (`SavedReading`), and a later attempt opens
  a bucket with no fewer records behind it (`Behind`), so when it
  has skipped that many it is at a line that the earlier one had passed. It holds as long as the
  files are those of the attempts before (`~moved`), as in the property. TLC checked the parts on the instance of
  the run, with the history in variables, before they were proved.

`MatchesProofs` - `TypesHold`, `OnePrimarySource`, `UrlsMatchedOnce`, `PagesFetchedBoundedly` (of `ScrapeQueue`),
`ConfirmedGoOn` and `VotesGoOn`, none of which excludes any trouble. They assume that a job and a page have an
attempt, that the bounds are numbers, and that `None` is no url.

* `OnePrimarySource`: `HoldsItsRow` says that a request between its two UPDATEs has
  locked its row, if it is still there, and only rows that are there; `HoldsAlone`
  that one request at a time has locked anything, and that every primary row is among
  what it locked. So the row it sets is the only primary one when it commits. All
  other steps are `Harmless`: no row comes back, becomes primary, or goes while it is locked.
* `UrlsMatchedOnce`: `InsertsAlone` says of a url that is not in `overlapped` that whoever is
  between look-up and insert for it is alone there, and that no row has it yet. A
  look-up that meets another one puts its url into `overlapped`, and nothing else brings anybody there.
* `PagesFetchedBoundedly`: every fetch spends a claim of the page, claims are numbered by the
  attempts of the page, and no two sweeps hold the same one, also after a recovery has given
  a page back while its sweep goes on (`ClaimsGiven`, `ScrapesCounted`). It needs
  that a page may be tried at least once.
* `ConfirmedGoOn`: a confirmed match without specifications has its extraction, or the search or
  the request that confirmed it has still to ask for one; the audit asks before it writes its
  verdict (`ApprovalsHanded`), and a finished job that still holds its id has run (`KeptRan`).
* `VotesGoOn`: a vote was seen by the consensus, or a consensus job waits, or the extraction or a
  request owes the trigger (`VoteInv`); an extraction that owes one neither ends nor fetches again (`JobKnows`).
* `TypesHold` needs most of the above: what is harvested is a url because an extraction fetches only for a row that is or
  was there (`JobKnows`, `RowsFit`) and a sweep only for a page that is there (`AtKnown`), and an
  attempt never exceeds the last because a search that starts again had one left (`SearchTyped`). No run checks `TypeOK`:
  TLC checked it, with these parts, on the instance of `matches` before it was proved.

`InstallationProofs` - `TypesHold`, `OneTokenPerState`, `OneWipePerUninstall`, `AnswersKept`,
under `BoundsAssumption`, which only says that the bounds are numbers and that a job has an attempt.

* `OneTokenPerState`: a state that was not used has stored no token (`StatesFresh`), and the save
  is conditional on it.
* `OneWipePerUninstall`: a job that may still wipe has an excuse for every wipe
  before (`Excuses`): it died after it, or was kept and forgotten.
* `AnswersKept`: `Answers` orders the three writes of a delivery. The mark comes last, so what is marked
  has been enqueued (`TracesAreSettled`), a delivery that is past its enqueuing has its job
  (`RequestsAreSettled`), and an uninstall that was not sent has left nothing (`UnsentIsUntouched`).

`ConsensusProofs` - every property of `Consensus` and `QualityEvents`, as `TypesHold`, `SentMeansAccepted`,
`EventsAcceptedOnce`, `LevelAnnounced`, `EventsChain`, and, for `"overlap" \notin Hazards` (as in the run),
`SnapshotsSerialised` and `CorrectionSurvives`.

* `Fits` says what a transaction has in hand at each place, in particular that
  whoever has an event, or has read the current row as a job, holds the row of
  `prod_master`; `MasterAlone` that one at a time does. So at most one
  event is a draft, and it is the last (`LevelInv`): no later event becomes visible before it.
* `SnapInv` says that what a transaction has read is still current (`Knows`), and that a job past its
  merge has the value of a manual correction (`Kept`). Two jobs cannot break it because of `MasterAlone`, a resolve
  only by an overlap: it takes no lock.
* `EventsAcceptedOnce` counts an acceptance before it happens (`Owed`): one for a first job that
  waits, sends, or may yet be added, one for a retry's job, one for a retry whose
  reset is not followed by its job yet. A reset pays for two, an attempt whose answer
  nobody heard for one, the creation for one (`Paid`).

`EmbeddingsProofs` - `Types` and `OneBatchAtATime`. That the orchestrator is between its look and
its INSERT excludes an open batch of its own (`Clear`), since nobody else submits under
its name, and no row of its own is opened again. That needs two facts about pollers: a
batch of the orchestrator is ended only after OpenAI has ended it (`EndedThere`), hence a
poller that saw it running wrote before it ended (`NoReopening`), and an answer that was
seen does not change (`SeenHolds`). A processor past its time-out breaks both, and marks
what it writes. TLC checked the invariant on the instance of the run.

Only model-checked: `AbandonedKeyExpires`, `EveryRunEnds`, `DeadTokenNoticed`, `EveryBatchEnds` and `ContentIsEmbedded`
(liveness is out of the prover's reach). Every safety property that a passing run checks is a theorem.

## 5. Findings

**A retry is lost** (`failure-handler.ts:346`, run `retry_lost`): the run is reset
to pending and an orchestrator job added under the id of the completed one, which
BullMQ keeps for at least 24 hours; the add does nothing, the run blocks the shop.
`bulk-operation-stuck.md:121` promises automatic retries.

Observed while modelling, in the models as the code has them unless said
otherwise, and without a run of their own.

Bulk operations:

* The result of a lock renewal is discarded (`bulk-lock.ts:115`): a processor whose
  renewals are late or refused goes on beside the next holder. `MutualExclusion`
  is about the jobs in `Punctual`.
* A status is checked in one transaction and written in the next
  (`state-machine.ts:457`): a cancel in between is overwritten by the worker.
* After a broken download the partial local copy is read to its end and the run
  completed (`ingest.worker.ts:642`). The fallback keeps the count of stitched
  records: its checkpoint counts records that were never read.
* The second bulk job of a shop is given the *active run of the other key*
  (`state-machine.ts:233`): it resumes that run instead of its own, or starts its
  query under it.
* An ingest that failed after it marked the run processing is never admitted
  again (`ingest.worker.ts:297`, `BeginRefused`); the run stays active.
* A permanent start error leaves its row pending (`orchestrator.worker.ts:727`).
* An orchestrator that dies, or fails, between the start at Shopify and the row
  leaves an operation nobody knows; the next attempt starts another one.
* A salvaged query run is completed and its partial result never ingested
  (`failure-handler.ts:446`).
* The run of a mutation is never ended by a worker (`ReconcileLines`).
* The resume of an upload skips by bytes and again by records
  (`ingest.worker.ts:535`: `Input`, `Wanted`).
* Rows of a failed COPY are dropped when the attempt goes on from the local copy
  (`copy-writer.ts:236`).
* Not in a model: an ingest that outlives its time-out runs beside its next attempt
  (`policy.ts:44`); a download retried with a Range header that the server ignores
  delivers lines twice (`download.ts:136`).

Stitching:

* Metafields that a variant owns always end in quarantine: a variant is no parent.
* The bucket files are opened for appending, so what a dead attempt spilled is
  handed on again by the next one; the merge's `DISTINCT ON` hides it. A worker on
  another host has no such files, and the record numbers of the checkpoint then
  skip other records than were staged: the merge is not whole, and the last checkpoint counts
  fewer records than the one it overwrites. The resume properties of `IngestCheckpoint`
  (`Resumable`) and `NothingSkippedIsLost` (`~moved`) exclude that case, and only that.
* A product that comes twice is queued twice for eviction, and leaves the cache early.
* Not in the model: the fallback to the local copy builds a second remapper within one attempt.

Consensus and quality:

* A statement that fails leaves the session's advisory lock on the pooled
  connection (the `finally` that unlocks fails in the aborted transaction, though
  the comment at `consensus.worker.ts:245` counts on it); every job of that product on another
  connection then completes without doing anything.
* A job that meets a busy lock completes, and its trigger is lost.
* The manual mark is lost after one recompute: the next snapshot carries the value,
  not `manuallyEdited` (`Plan_de_implementare.md:4090` wants corrections kept).
* The resolve route takes no lock: beside a consensus job it leaves two current snapshots (`"overlap"`).
* A dispatch job that runs before the commit finds no event and completes, and its
  kept id blocks another dispatch until it is pruned.
* The request of a dispatch has a time-out of its own, and the body's event id is all that lets
  the endpoint tell a second post from a first (`AcceptedOnce` counts it in `unheard`).
* "BullMQ validates that custom jobIds cannot contain ':'" (`packages/queue-manager/src/queue-manager.ts:202`);
  `qw:<event>`, `qw:<event>:retry:<ms>`, `ai-audit:<id>` and `pim-extract:<id>` are such ids. BullMQ is not part of
  the repository; a version that does refuse them dispatches no event and extracts no match. A refused add is the trouble `"refuse"`: it undoes the transaction that wrote
  the event, or ends the sweep (`SweepFails`).
* Not in the model: failed deliveries' log rows are rolled back with the throw;
  the settings route reads the secret in one transaction and writes it in another.

Matches:

* No unique index covers `source_url`, and `createMatch` looks it up in a transaction of its own
  (`packages/pim/src/repositories/similarity-matches.ts:74`): a `POST /similarity-matches` beside the search, or beside another
  one, inserts a url twice, although a duplicate is to be refused (`Duplicate match detected for source_url.`).
  `UrlsAreUnique` excuses such urls (`overlapped`) and no other.
* A match that `POST /similarity-matches` approves at once is never sent to extraction; only those to be audited are handed over.
* A search worker that dies, or is refused a job, between its inserts and its hand-overs leaves
  confirmed rows that are never extracted and rows that are never audited
  (`unextracted`; the comment at `search-and-match.worker.ts:163` says that without it "consensus can never happen").
* A PATCH that confirms commits first and hands over then: if the queue refuses the job (ids with a colon, above), the
  answer is an error, the row is confirmed, and only another request sends it to extraction. It is in
  `unextracted`, as are the rows of a search that is refused (`Breaks`).
* `POST /products/review/:id/confirm` triggers the consensus and never the extraction.
* The audit enqueues the extraction before its own UPDATE: a quick extraction's
  consensus misses the vote and none follows (`uncounted`). It also overwrites a
  human's final decision.
* A kept extraction job blocks a later one, also after a sweep has fetched the page.
* A slow sweep sets a page back to pending that another one completed; a removed
  vote triggers no recompute; a rejected row stays primary.

Installation:

* `clearReauthFlag` ("Șterge flag-ul de reautorizare după reinstall reușit",
  `token-lifecycle.ts:144`) is never called: after a re-authentication
  `withTokenRetry` refuses for ever and health checks skip the shop. `DeadTokenNoticed` holds (if the checks come to the shop),
  and a *live* token stays flagged.
* A late `app/uninstalled` wipes a shop that was installed again, and its cleanup
  removes queued webhooks of the new installation. A callback in flight stores a dead token after the wipe.
* The payload of a webhook lives 300 seconds, less than the retries of its job; the last attempt
  throws and the uninstall is forgotten (`hook = "lost"`), which leaves the token checks.
* A check that began with the old token flags the shop that is installed again.
* `getShopsForHealthCheck` ("Găsește toate shop-urile care necesită verificare token", `token-lifecycle.ts:158`) lists the first
  fifty by `updated_at`, which a check that finds the shop well does not touch: behind fifty older shops that stay well
  a shop is never checked, and its dead token is noticed by an API call or not at all. The schedule
  ends after 1000 rounds (`token-health-job.ts:107`), until the worker starts again.
* Not in the model: concurrent `registerWebhooks` duplicate records; a retried job
  inserts a second `webhook_events` row.

AI batches:

* The jobs of `ai-batch-queue` have fixed ids per shop (`ai.ts:147`, `:221`, `:293`, `:360`), and completed ones are kept
  ("Keep completed jobs for 24h (age in seconds).", `policy.ts:82`). BullMQ looks at the age only when a job of the queue completes. Once
  orchestrator, backfill and cleanup of every shop are kept, each add is ignored, nothing completes and nothing
  is forgotten: the queue stands still, with open batches left open, until a job of a new id (a new shop) or a retried one
  completes. Hence the premise `OthersComplete`.
* The poller and the backfill add their successor under the id they run under, and
  BullMQ ignores it. An open batch is polled again when its completed job is forgotten
  and an orchestrator hands it over, the newest one first; the configured poll interval
  (`batch.ts:818`) has no effect. A backfill goes one page a day.
* Retries with backoff are added under the orchestrator's id, which is kept or taken by
  the schedule: mostly nothing is added, and of several products only the first.
* `expired`, a final status of OpenAI, is mapped to pending (`batch.ts:365`): the batch is polled for
  ever and, being open, blocks all others of the shop.
* A failure is counted by an UPDATE of the row of its content: a product never embedded
  has no row, so its failures count nothing and it is tried for ever (the premise `OpenAIEmbeds`).
* A product that is edited while its batch is under way, or embedded by the PIM sync, has a newest row that is ready and
  younger than the update: its content is not embedded before the next update (`Overtaken`).
* `Spent` is judged on the newest row before the content is compared, so that an edit does not
  revive a product that was given up; a success does not reset the retry count; every
  orchestrator adds given-up products to the dead-letter queue again.
* The backfill slices the page by the budget, and moves its cursor past the whole page.
* A throw between `createBatch` and the INSERT leaves a paid batch that no row knows.
* A poller past its time-out may set an ended batch back to processing.

## 6. Not modelled, and the plan

In this order:

1. `BulkRun` composed with `BulkLock` in place of its `lock` and `LeaseLapses`.
2. `IngestCheckpoint` composed with `Stitching` in place of its records.

Left out, with the reason:

* Of the AI batches: throttle and cost counters, the queue of given-up products, the search.
* Budgets: sums of money checked before they are spent; the code bounds the
  overshoot by nothing but the number of workers.
* The GraphQL rate limiter: a refill in floating point from millisecond clocks;
  `BulkRun` has its effect, a start that is answered with a delay.
* The bulk scheduler: cron dates under a global lock; its jobs are the requests of `BulkRun`.
* Mutation reconcile's reading of result lines and its requeue, which is one more upload of `BulkRun`.
* The user interface, logging, metrics and configuration: no state of the program's logic.
* Search, scraping and model services, the numbers of similarity, votes and
  embeddings: external, or floating-point computations; the models have their outcome.
* The SQL of merge and PIM synchronisation: idempotent upserts, one step each.

`PROJECT.json` lists every part with its status, and under `hazards` what each is
exposed to.
