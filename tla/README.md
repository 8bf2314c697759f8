# markitdown-server: specification and proofs

The server converts documents at a URL to markdown. The API cuts a document
into chunks and queues them on RabbitMQ; workers convert the chunks, and the one
that finishes the last chunk assembles the document. This directory holds TLA+
models of that machinery, TLC configurations that check them on small
instances, and TLAPS proofs for instances of any size.

(`src/README.md` describes an older design in which the `job_chunks` table was
the queue and leases detected dead workers. The code uses RabbitMQ; the models
follow the code.)

## The system

| Part | State | Operations | Interacts with |
|---|---|---|---|
| submission, `api/index.py` `submit`, `converter.download` | a temporary file per request | authenticate, validate, download, look up the cached document, plan, store the source, `create_job`, `publish` | all stores, broker |
| job store, `jobstore.py` | `jobs`, `job_chunks`, `documents` rows | `create_job`, `start_chunk`, `complete_chunk`, `reschedule_chunk`, `fail_chunk`, `fail_job`, `finish_job`, `record_document` | API, workers |
| task queue, `taskqueue.py` | work queue, retry tiers, failed queue, unacked deliveries | `publish`, `publish_retry`, `publish_failed`, `consume`, ack | API, workers |
| worker, `worker.py` | task in hand, stop flag, liveness file | `handle`, `_handle_failure`, `assemble`, `run_forever`, `_handle_signal` | everything |
| source cache, `worker.py` | a directory of files, shared by the processes of a host | `fetch_source`, `prune_source_cache` | object store |
| object store, `storage.py` | sources, parts, pages, manifests; expiry after seven days | `put_*`, `get_*` | API, workers |
| reading, `api/index.py` | none | `_wait_for_job`, `_completed_job_payload`, `get_page_endpoint`, `get_job_endpoint` | job store, object store |
| readiness, `api/index.py` and three `health` functions | cached connections | `readyz` | database, object store, broker |
| database access, `db.py` | a connection per thread, `_migrated` per process | `_run` with one retry, `transaction`, `migrate` | job store |
| pure code, `chunker.py`, `pagination.py`, keys in `storage.py` | none | `plan_chunks`, `paginate`, `make_doc_key` | API, workers |

What makes it hard: every call to a store or to the broker is a separate step,
so workers interleave anywhere and a crash may fall between any two calls;
delivery is at least once; publishes are not confirmed and `_publish` sends
everything again after an error; no heartbeat is sent while a chunk converts, so
a chunk may be redelivered while its first worker is still at it; a database
error may come after the statement was applied; connections go stale unnoticed;
objects expire; jobs for the same document race; pods with old and new settings
run side by side. `PROJECT.json` lists these hazards with their lines.

## Modules

| Module | Models | Correspondence |
|---|---|---|
| `ChunkTask` | `taskqueue.ChunkTask` | a record of job, chunk and attempt; the other fields are functions of job and chunk |
| `JobStore` | `jobstore.py`, `001_init.sql` | one action per statement or transaction. `start_chunk` is two statements, hence two actions. `counted` and `zeros` are history |
| `TaskQueue` | the broker as `taskqueue.py` uses it | queues are bags; `unacked` is the single delivery that prefetch 1 allows |
| `Worker` | `handle`, `_handle_failure`, `assemble`, the loop around them | `pc[w]` is the next external call. `DbCall` is a statement that succeeds, or raises with or without having been applied. `dropped` and `orphaned` are history |
| `Pipeline` | `submit` composed with the above | `api[j]`, `pass[j]` and `next[j]` are the position in `submit` and in the two tries of `_publish`. `sent` is history |
| `ConversionService` | the contract clients see | a job is pending, then done or failed; done only with a published document |
| `DocumentStore` | `put_document`, cache lookup and readers of one document key | pages one by one, then the manifest, then the row, then `finish_job`; `expired` is history |
| `StatusEndpoint` | the status endpoint and the waiting of `POST /convert` | extends `Pipeline`; `row` is what the first of the two reads returned, `answer` the last answer of a poller, `sync` the synchronous request |
| `Submission` | `POST /async/convert` from `verify_api_key` to the answer | `at[r]` is the next call; `onDisk` is the size of the temporary file; `fetched` and `lapsed` are history |
| `Chunker` | `plan_chunks`, `extract_pages` | operators; ranges are pairs, `end` exclusive |
| `ContentKeys` | `config_fingerprint`, and everything stored under a key | every API pod has settings of its own and `Upgrade` changes them; the fingerprint is the tuple that is hashed; of a text only its pages are kept, so the worker's settings play no part |
| `Pagination` | `paginate`, `build_pagination` | one action per turn of the loops; a page is a slice of the content |
| `SourceCache` | `fetch_source`, `prune_source_cache` | one action per system call; files have an access time, a size and a flag for completeness; `fetchers` and `lastUse` are history |
| `ConsumerLoop` | `run_forever`, `consume`, `connect`, `close`, signals, the liveness probe | `where` is the broker's view of a message; what `handle` does inside is in `Worker` |
| `Database` | `db.py` over a libSQL server | a write is named by thread, operation and place; `applied` counts its commits; uncommitted writes hold the write lock; `leaked` (operations that raised and left writes pending) is history |
| `Readiness` | `readyz`, `health` | one action per check, in any thread of the pool |
| `MC...` | instances for TLC | |
| `...Proofs` | proofs, see below | |

Operators whose names end in a suffix after an underscore (`Send_OffByOne`) are
faulty variants of the operator that follows them. No specification uses them.
Each shows that a property notices a plausible mistake.

### Abstractions

- Chunk contents are not modelled: in `Worker` a part is present or absent under
  its content key. `DocumentStore` does distinguish the outputs of two jobs,
  since with the language model they may differ.
- In `Worker` a document is written in one step and objects do not expire;
  `DocumentStore` models both in detail.
- All retry tiers form one bag: delays are not modelled, so any order of expiry
  is allowed. The tier number only decides whether a queue is bound to it.
- `submit` up to `create_job` is one step of `Pipeline`: it changes nothing
  another process reads except the source object. `Submission` takes the same
  function apart call by call.
- `Worker` sees a database call as one step with three outcomes; `Database`
  models the connection, the retry and the transaction behind it.
- `Pagination` keeps positions instead of characters: which characters a page
  holds is decided by its first and last position.
- `SourceCache` assumes that a source is no larger than the cache
  (`MAX_DOWNLOAD_BYTES` is a twentieth of `SOURCE_CACHE_MAX_BYTES`).
  The S3 client's `download_file` writes to a name of its own and renames.
- In `ConsumerLoop` time passes in inactivity timeouts; `ProbeLimit` stands for
  the 300 seconds of the probe.
- `connect` and `declare` are one step that succeeds or raises as a whole.
- `MaxFaults`, `MaxDbFaults`, `MaxCrashes`, `MaxDisturbed` and `MaxSubmitFaults`
  bound the faults of a behaviour in TLC's runs, `MaxOps` and `MaxReceived` its
  length. The proofs hold for every value of them.

## Runs

| Run | Instance | Distinct states | Shows |
|---|---|---|---|
| `pipeline` | 1 job, 2 chunks, 2 attempts, 2 workers, 1 fault of any kind, fair | 445,167 | `NoWorkLost`, `NoSilentStall`, `RowBeforeMessage`, `CountStopsAtEnd`, `ImplementsService`, `AcceptedJobEnds` |
| `status_endpoint` | 1 job, 2 chunks, 1 attempt, 2 workers, 2 crashes or lost connections, a poller and a synchronous request | 1,601,098 | `AtMostOneAssembler`, `PublishedIsWhole`, `DoneIsComplete`, `SyncGetsDocument`, `AnswersAdvance` |
| `documents` | objects: 2 jobs, 1 page request, outputs of 1 and 2 pages, any expiry; keys: 2 API pods, 2 jobs, 3 settings, no PDF or 0 to 5 pages; pages: every text of up to 4 blocks of up to 6 characters, pages of 4, fair | 306,397 | `ManifestBacked`, `DoneIsReadable`; `PlanPartitions`, `DocumentHasEveryPage`; `PagesFit`, `PagesAreSlices`, `ParagraphsKept`, `ReaderSeesAll` |
| `database` | 2 threads of a process, 2 operations each, 2 migration statements, 1 reset, timeout, busy timeout or crash, fair | 693,264 | `TransactionAtomic`, `ReturnedIsDurable`, `RunsOnSchema`, `IdleExpiryInvisible`, `OpsEnd` |
| `pods` | submission: 2 requests, a document within the cap and one beyond it, 1 failing call or death, any expiry; readiness: 2 pool threads, 3 dependencies; cache: 2 processes on one directory, 3 sources, 4 chunks, 1 crash | 1,991,809 | `TempFileGone`, `DownloadCapped`, `JobHasSource`, `AnswersFit`; `ReadyMeansDataUp`, `DegradedMeansDown`; `CachedIsWhole`, `LitterOnlyFromCrashes`, `FetchedIsThere`, `EvictsLeastRecent`, `PrunedFits` |
| `consumer_loop` | 2 workers, 1 told to stop, 3 messages (1 malformed, 1 that may kill), 2 disturbances, fair | 56,115 | `LoopTypeOK`, `NothingVanishes`, `StoppedHoldsNothing`, `StopsWhenTold`, `EveryMessageSettles` |

`MCDocuments` and `MCPods` each hold three modules that share no state. Their
variable `part` is chosen in the initial state: a behaviour takes the steps of
that module alone, and the variables of the other two keep a fixed value. The
reachable states are those of the three modules one beside the other, not their
product. The type invariants of the other modules are proved for every value of
the constants and are not repeated in the runs; `LoopTypeOK` is checked too because it
also says that a process holds one delivery at a time.

Two workers and two chunks are the least for which a sibling completes while
another assembles or fails; two attempts the least with a retry. Two lost
connections are the least after which the counter reaches 0 too early (the
`zero_means_last_chunk` run), which `status_endpoint` therefore includes. No run
has two jobs in the pipeline: they share only the broker and the parts of their
document, and the theorems hold for any number of them. In the texts
the longest block is cut once with a rest, and blocks of exactly a page,
one less and one more all occur next to each other and next to empty ones. In
the cache, three sources with room for two make an eviction necessary while a
choice remains. `FetchedIsThere`, `EvictsLeastRecent` and `PrunedFits` are
claimed as long as one process only has used the directory (`fetchers`); what
holds among several is `CachedIsWhole` and `LitterOnlyFromCrashes`. Where
symmetry is used, the permuted values are not told apart by the specification,
and the run checks no liveness. The runs use no state constraint. Deadlock is
not checked: every system but the readiness probe may stop when its work is done
or a bound is reached.

Six runs check statements made in the repository that the code does not keep;
TLC produces a counterexample for each.

| Run | Statement | What happens |
|---|---|---|
| `crash_safe` | `worker.py:257` "crash-safe" | the assembler dies; the redelivered chunk is already done, and nobody assembles |
| `zero_means_last_chunk` | `jobstore.py:225` "Returns 0 when this caller completed the *last* chunk" | `fail_chunk` reopens a done chunk, which is counted again |
| `acked_work_is_settled` | `taskqueue.py:250` "has already republished if it wants another attempt" | a database error escapes `handle`, and the message is acked |
| `write_applied_once` | `db.py:199` "a write cannot be applied twice" | the connection is reset after the commit, and the retry commits again; today this matters little, since the single statements of `jobstore.py` are idempotent |
| `idle_worker_is_alive` | `worker.py:45` "Touched on every consume tick, including idle ones." | an idle tick stays inside `consume`, which touches nothing |
| `oom_burns_attempt` | `migrations/001_init.sql:38` "an OOM-killed worker still burns an attempt" | the attempt is in the message, which is redelivered unchanged |

The properties that hold are stated around these, and around what else the
models follow the code in:

- `NoWorkLost` leaves out the chunks in `dropped` (acked after a raise);
  `NoSilentStall` and `AcceptedJobEnds` also the jobs in `orphaned` (their
  assembler went away), and jobs whose messages did not all reach the broker
  (`sent`): publishing is a step after `create_job`, and may not happen.
- `finish_job` is not guarded, so a failed job may become done and keep its
  error. `ConversionService` allows it; `DoneIsComplete` and `AnswersAdvance` are
  what the status endpoint promises all the same.
- Two racing jobs whose outputs differ may leave pages of both;
  `ManifestBacked` and `DoneIsReadable` hold nevertheless.
- A rollback or a commit that fails on a connection that survives leaves its
  writes pending, to be committed by the next operation of that thread:
  `TransactionAtomic` leaves such operations (`leaked`) out, and `OpsEnd` the lock
  they hold.
- Every exception of `submit` is answered 400, and the broker's health check asks
  a cached connection: `AnswersFit` and `ReadyMeansDataUp` claim no more than that.
- A PDF without pages and a threshold of 0 give an empty plan, a job that never
  ends.
- `EveryMessageSettles` leaves out a chunk that kills its process again and again.

### Fairness

`FairSpec` assumes weak fairness of each worker's step (a running process, or
the pod that replaces it, goes on), of the retry tiers' TTL, and of `submit`. No
fault is fair. Whether a conversion succeeds or raises is left open; attempts
are counted, so a chunk that always raises fails its job. `FairDbSpec` lets
threads run on; it does not rely on the busy timeout, so that `OpsEnd` shows that
no lock is left behind. `DocumentsSpec` lets the loop of `paginate` and the
reader of its pages go on. `FairLoopSpec` lets processes run on, and assumes strong fairness in two places: a broker that is tried again
and again (`run_forever` retries every five seconds) accepts a connection at
last, and a queue that a consumer keeps asking delivers at last.

## Proofs

All theorems hold for any number of jobs, workers, chunks, attempts, tiers and
faults, any documents, versions and pages, any texts, settings, threads,
processes, files and messages, under the `ASSUME`s beside the
constants: at least one chunk, attempt, tier and page, a page size above 0, no source larger
than the cache, and model values that differ from real ones. A deployment with an empty
`RETRY_DELAYS` has no tier and is outside the assumptions: its retries would
route to no queue.

- `JobStoreProofs`. `JobStoreInv` is inductive whatever the callers do. The
  counter starts above 0 and falls by one, so it passes 0 once; it falls at
  least once per counted chunk; a done chunk of a job that has not ended was
  counted. Theorems `JobStoreInvariant`, `OneCallerToldZero`. The second half is
  about the pipeline that calls the store: `TypeOK` is not inductive alone: that a retry's attempt
  number stays in range needs `TaskInv` (a worker has a task exactly while it is
  busy; only a task with attempts left is retried), and calls on existing rows
  need `RowInv`. Theorems `TypeCorrect`, `RowsFirst`, `UsesJobStore`. The last
  brings the store's invariant to the pipeline.
- `PipelineProofs`. On top of these (`Ground`):
  `PublishInv` ties each assembly step to what must be stored by then, giving
  `NoPartialDocument` and, with the guards of the job store,
  `PipelineImplementsService`;
  `AssemblerInv` says that a worker assembles only below a counter that has
  reached 0, and that an active job with such a counter has its assembler or is
  orphaned, giving `OneAssembler`;
  `WorkInv` is `NoWorkLost`, with the fact that every step hands a chunk on or
  settles it, giving `WorkIsKept`, and with `AssemblerInv` `NoStall`.
  `CountStops` follows from the guards of `complete_chunk`.
- `StatusProofs`. On top of `PipelineInv` (the invariants above and `DoneInv`: a
  done job's counter has reached 0 and its document is published), `ClientInv`
  ties what clients were told to the job: a counter that only falls and a done
  status that stays make two reads with anything in between agree well enough.
  Theorems `EndpointTypesHold`, `DoneIsCompleteHolds`, `SyncGetsDocumentHolds`,
  `AnswersAdvanceHolds`.
- `CuttingProofs`. For `plan_chunks`, `PlanChunksPartitions` is arithmetic: range
  `i` ends where `i + 1` starts, and the last ends at the page count;
  `PlanPartitionsHolds` brings it to every plan in use. For the keys, `KeyInv` says
  that a part holds exactly the pages which its key and position determine, so
  overwriting it does no harm, and that the first parts of a job joined in order
  are the first pages (`PartsMakeTheFile`, by a least counterexample over the
  recursive concatenation). This gives `DocumentHasEveryPageHolds`. For `paginate`,
  `SliceInv` says where the page being filled ends (two characters before the rest
  of the block, so that the separator gives back the content), and `CoverInv` that
  what the loop is through with is on a page or in that one. Theorems
  `PagTypesHold`, `PagesFitHolds`, `PagesAreSlicesHolds`, `ParagraphsKeptHolds`.
- `DatabaseProofs`. `ControlInv` fixes which statement of what kind of operation
  a thread is at, and gives `DbTypesHold` (with the bound on `_run`'s tries).
  `SchemaInv` gives `RunsOnSchemaHolds`; `DisturbedInv` (a running
  operation with a stale connection is at its first try or has met a fault)
  gives `IdleExpiryInvisibleHolds`.
- `TransactionProofs`. On top of these, `DurableInv` (on a live connection every
  statement so far is pending) gives `ReturnedIsDurableHolds`, and `AtomicInv`
  (nothing is pending but writes of the running operation and of leaked ones)
  gives `TransactionAtomicHolds`.
- `WorkerProofs`. For the loop, `LoopInv`: what a process at the ack holds is
  settled, and one that waits or has stopped holds nothing; this gives
  `NothingVanishesHolds` and `StoppedHoldsNothingHolds`. `LinkInv`: two messages at
  one worker are the same message, and its connection is live; with the lemma that
  such a set has at most one element this gives `LoopTypesHold`. For the documents,
  `AssemblyInv` says which pages a job at each call has stored (or lost to expiry),
  `ReadInv` that a reader past the manifest has a page to find. Theorems
  `DocTypeCorrect`, `ManifestLast`, `FinishedIsReadable`.
- `PodProofs`. For the cache, `FetchInv`: a file gets a source's name only by
  `os.replace` from a complete temporary file nobody else writes to; this gives
  `CachedIsWholeHolds`. `LitterInv`: the orphaned temporary files are finitely many,
  no more than the deaths; a death adds one at most (`LitterOnlyFromCrashesHolds`).
  `AloneInv`: as long as one process only has used the directory, its list is the
  directory, access times are the times of last use, and the file it is fetching
  is newer than all others. Pruning takes the oldest first, so it would come to
  that file only when no other is left, and one source alone is within the budget
  (`VictimIsAnother`). This gives `FetchedIsThereHolds` and
  `EvictsLeastRecentHolds`; `PrunedFitsHolds` also needs that the total size is a
  number (`TotalIsNatural`, for finite directories, `FinitelyMany`). For
  submissions, `RequestInv` has three parts for each request: its temporary file
  exists from the download to the clean-up and no longer (`FileInv`), its source has
  been seen or stored before it leaves the `try` (`SourceInv`), and rows and messages
  come after the download, the answer last (`TraceInv`). Theorems
  `TempFileGoneHolds`, `DownloadCappedHolds`, `JobHasSourceHolds`,
  `AnswersFitHolds`. For the probe, `ProbeInv`: what a check returned was so at some
  moment of this probe, except that a broker believed up may only be remembered as
  up. Theorems `ReadyMeansDataUpHolds`, `DegradedMeansDownHolds`.

Every invariant and action property of the passing runs, and the refinement, has
its theorem. Only model-checked are the liveness properties `AcceptedJobEnds`,
`ReaderSeesAll`, `OpsEnd`, `StopsWhenTold` and `EveryMessageSettles` (liveness under
fairness and `ENABLED` are outside what TLAPS proves here), and the six
counterexamples. Facts about data that call for induction (the concatenation of
parts, the sum of sizes) are proved from a least counterexample
(`LeastNatural`, an instance of the well-foundedness of `<`), since the prover
does not apply induction rules to a predicate.

## Not modelled

- `convert_file`, the LLM client, pypdf and markitdown: library work that the
  models see as success or failure.
- `queue_depth`, `_rows_to_dicts`, `changes` and the liveness endpoint read and
  format; `openapi_yaml` serves a generated document.
- `_split_statements` works on the text of one file in the repository, and
  `db.reset` is called by tests only.
- The settings of workers that are replaced one by one: the key is made from the
  API pod's settings and the output by the worker's, which `ContentKeys` does not
  tell apart.
- `ensure_bucket` is one idempotent call when a worker starts.
- The stdlib `sqlite3` driver: `Database` models the libSQL server, whose
  connections go stale; with a local file the same actions apply without
  `GoStale` and lost replies.
- The text of keys, SHA-256 (taken to be injective), configuration parsing and
  the manifests under `k8s/`. The probes, restarts and expiry they cause are
  actions of the models.
- Time: nothing bounds how long a download takes (`requests.get` has no
  timeout), how long a chunk converts, or how long objects live; any order of
  these events is allowed.
