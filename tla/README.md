# Formal models of the IKG Studio training platform

The platform trains, evaluates and serves YOLO models. This directory holds TLA+
models of the parts of it that are hard to test: several programs write the same
PostgreSQL rows and the same directories, jobs are handed over through Redis, and any of
the programs may die between two steps. Paths below are relative to `src/`.

## 1. Inventory

### 1.1 Programs and what connects them

| program | source | role |
|---|---|---|
| API | `apps/api` (NestJS) | one transaction per request; also runs the outbox publisher (1 s timer) |
| scheduler | `apps/scheduler` | a tick under an advisory lock: reconcile, retry failed, promote, workers offline, reindex |
| training worker | `workers/training-worker` | consumes training, benchmark, inference, conversion, model scan, model deletion |
| dataset worker | `workers/dataset-worker` | consumes dataset scan, build, training dataset scan/delete, model ingest, reindex |
| web | `apps/web` | renders what the API returns |

Everything durable is in PostgreSQL. A job is submitted in one transaction that
inserts a `job_executions` row (ASSIGNED) and an `outbox_events` row; the publisher
copies events to the Redis stream `events`; each worker group reads the stream,
claims the execution by `UPDATE ... WHERE status='ASSIGNED'` and works with the
database directly. Workers prove they live with `heartbeat_at`; the scheduler marks
silent executions LOST and carries that into the owner of the job. Walks of the directory
index, scans of the Model Root and deletions of files are messages without an execution:
nothing claims them and nobody misses them.

### 1.2 Components

| component | state | operations | what is hard | what makes it correct |
|---|---|---|---|---|
| training pipeline | `training_jobs`, `job_executions`, model and artifact of a job | create, clone, retry, requestStop; claim, start, complete, fail, stop; reconcile, retry failed, promote | attempts of one job overlap after a false LOST; statuses read without locks; stop against completion | a job is never orphaned in QUEUED or an active status, ends, has one model, ends once |
| dispatch | `outbox_events`, stream, pending entries | enqueue, publish, deliver, reclaim, acknowledge | duplicates, losses, redelivery to a second worker while the first is alive | claimed at most once; delivered or dead-lettered |
| benchmark and inference runs | run, evaluations/items, executions | create, stop, retry; claim, complete, fail, finalise; lost | finalisation by counting under READ COMMITTED; stop racing completion; retry of a finished part | a run ends exactly when its parts ended, with the right status |
| source datasets | datasets, scans, class lists, folders | register, rescan, override, archive; scan; lose | late scans overwrite newer ones; the folder moves meanwhile | the status shown is that of the latest scan, and SCANNING ends |
| directory index | `dataset_type_reindexes`, the index, walks | manual and periodic rescan, walk, publish, archive or purge what is missing | any number of walks at once, decisions on rows read earlier | the index ends as what is on disk; what is archived stays so |
| training datasets | the row, builds, staging and target directory | configure, submit, delete; build, validate; lose | attempts share one staging directory; deletion; sources change between configuration and build | READY has its directory, no build hangs |
| content of datasets | images, labels, class files, manifests | scan, override of class list, build, inference on the folder | five readers of one format, in two languages; a scan that deletes | what is READY builds, and what is built can be trained on |
| model registry | models, ingest tasks, conversions, archives, the Model Root | ingest, train, scan, convert, delete | four writers of one set of names and paths; late messages that unlink | a model has its weights, a conversion its archive |
| dataset types, backup | the tree, the roots, the export | create, update, move, reorder, delete; export, import | edits that each are fine and together are not | a tree |
| authentication, users | users, sessions, their copies in Redis | login, validate, logout, passwords, roles | the check reads three places one after the other and writes one back | what was withdrawn stays out |
| idempotent calls | idempotency keys | reserve, handle, persist, release | a crash or an error between the steps | one answer per key |
| scheduler tick | advisory lock, `isRunning` | tick, shutdown | two schedulers | one tick at a time |
| work directory | `.training/<job>` | train, register, delete | the directory is keyed by job, not by attempt | what is registered is what the attempt trained |
| worker registry, GPUs | `workers`, `worker_gpus`, `job_execution_gpus` | register, beat, stop, mark offline; allocate, release | a heartbeat that fails with its inventory, or overtakes a shutdown; cards that move between starts | who is gone is OFFLINE, who lives is ONLINE, and a busy card is one the work runs on |
| events, notifications, audit, storage, dashboard, browsing, web | append-only rows, files | | I/O | not modelled, see section 7 |

## 2. Plan

Done, in this order: `TrainingJobs` with the abstract `TrainingLifecycle` it implements;
`Dispatch` with the abstract `ClaimOnce` it implements; `RunOfParts` with `InferenceRun` and `BenchmarkRun`, and `Runs` of both,
with the abstract `RunLifecycle` they implement; `SourceDatasets`, `DirectoryIndex` and
`TrainingDatasets`, each extending the one before; `DatasetContent` and `InferenceDiffs`;
`ModelFiles` and `ModelRegistry`; `Accounts` and `IdempotentRequests`; `DatasetTypes`; `WorkerRegistry`; and the proofs of section 5
about all of these but `DatasetTypes`, which is there for what it does not keep.

Open: diff rows a late inference worker leaves behind. The work directory is not on the list: what a
late attempt reads back there depends on how far the training library was in a write, not on a
protocol of this code.

## 3. Modules

### TrainingJobs

A step is one committed transaction, or one decision a worker takes from what it
has read before its next transaction.

| variable | in the code |
|---|---|
| `jobStatus`, `failureCode`, `resultModel` | columns of `training_jobs`; `"ABSENT"` before the insert; a model is named by the attempt that made it |
| `dependsOn` | `training_job_dependencies` |
| `executions[j]` | `job_executions` of job `j` in attempt order: the row's `status`, and the `phase` of the process that claimed it (where `Trainer.run` stands) |
| `bestModel` | the attempt that registered the job's primary BEST_MODEL artifact and model |
| `reconciling` | the reconcile transaction that has marked an execution LOST and read the job's status, not yet committed |
| `picked` | what is left of the candidate list of `retryFailedTrainingJobs` |
| `retries` | number of user retries: a bound of the model |

| actions | in the code |
|---|---|
| `Create`, `Retry`, `RequestStop` | `training.service.ts`: `create`/`clone` with `_dispatchInitial`, `retry`, `requestStop` |
| `Claim`, `ClaimRefused`, `CancelRefused` | `trainer.py` 89-110; the refusal takes two transactions |
| `StartRunning`, `TrainEnds`, `RaiseError`, `Complete`, `CompleteRejected`, `Fail`, `Stopped` | the rest of `Trainer.run` |
| `Crash` | the process dies, or `_load`, `_fail` or `_stopped` itself raises: the execution stays RUNNING with nobody behind it |
| `ReconcileRead`, `ReconcileCommit` | the transaction of `reconcile.ts` for a TRAINING candidate, cut where it reads the job without a lock. `LostStops`, `LostFails`, `LostRetries` are its three endings |
| `SelectRetriable`, `RetryFailed` | `retry.ts`: one read of the candidates, then one transaction each |
| `Promote` | `promote.ts` |

What is abstracted, and why it is sound:

- An ASSIGNED execution may be delivered at any time and to one worker at a time.
  Duplicate and lost deliveries belong to `Dispatch`, which shows what the assumption
  rests on (section 5) and where it fails (section 6).
- Times are left out: any non-empty subset of the retriable jobs may be inside the
  retry window; any RUNNING execution whose process sends no heartbeat may be stale.
  With `HeartbeatsMayFail` also one that is training (partition, pause, or a stale
  candidate list that was read before `_train` began).
- A transaction of the scheduler that aborts leaves nothing behind and is not a step.
  Deadlock victims among workers are covered by `RaiseError` and `Crash`.
- `SCHEDULED` is never written. CLAIMED is overwritten in the claim transaction, and the
  trainer never writes PREPARING to an execution: neither is ever visible.
- The worker raises one of the four retriable codes (`STORAGE_TEMPORARY_FAILURE`), all
  permanent ones are `TRAINING_FAILED`.
- `retryFailedTrainingJobs` reads the highest attempt number in the transaction that
  requeues the job; the model takes both as one step. A whole user retry with its
  training would have to fit between the two statements to tell them apart.

### TrainingLifecycle

What is promised of a job: the table `LEGAL` of `training-state-machine.ts`, which only the API consults; that
queueing adds an attempt, that the first one waits for the dependencies, and that a job completes once, with
the model of one of its attempts. Workers and scheduler write `training_jobs` with guards of their own.
`TrainingJobs` implements it with `status` the job status, `attempts` the number of executions and `model` the
attempt behind the best model; `Requeue` is the one step outside the table.

### Dispatch

One job, its executions, and how they reach the workers of one consumer group. Both
worker programs run the same loop.

| variable | in the code |
|---|---|
| `job`, `executions` | status of the owner (QUEUED, ACTIVE, or IDLE for all others) and of its executions |
| `outbox`, `sending` | committed `status` and `attempt_count` of event *i*, which dispatches execution *i*; what an open publishing transaction has made of the status |
| `stream`, `delivered`, `pending` | every entry ever added, last-delivered id of the group, its pending entries list |
| `stage`, `handling`, `inbox` | where each consume loop stands, its entry, and the rest of the batch XAUTOCLAIM gave it |

| actions | in the code |
|---|---|
| `Submit`, `Cancel`, `Lose` | what the API and the scheduler do to the job, each with the event it enqueues |
| `PublishBegin`, `XaddSucceeds`, `XaddFails`, `PublishCommit`, `PublishAbort` | `OutboxPublisher.tick`, cut at every call that may fail or outlive the transaction |
| `Deliver`, `Reclaim`, `Ack`, `Crash` | the loop `run`, `_reclaim_orphaned`, `main` |
| `ConnectFails`, `Claim`, `NotClaimable`, `Refuse`, `CancelRefused`, `Finish` | `_handle` and the head and end of `Trainer.run` |
| `FlushRedis` | a flush; `setup` makes the group anew from id 0 |

Abstracted: idle times (any pending entry may have been idle for 90 s), the backoff (a
FAILED event may be due at any time), batches of the publisher (told row by row, which
allows more interleavings than one batch has), and events of other aggregates. A
worker's training is one step, `Finish`, because `TrainingJobs` has its details.

### RunOfParts, InferenceRun, BenchmarkRun, Runs

A run and its parts: datasets of an inference run, evaluations of a benchmark run. Each part
is a job with executions of its own, and whoever ends a part counts the others and
finalises the run if none is left. `inferencer.py` and `benchmarker.py` write this protocol in
the same statements; `RunOfParts` holds them once. `InferenceRun` and `BenchmarkRun` EXTEND
it with what each does in its own way and with the next-state relation. `Runs` is the
specification of both over one set of variables, with what is said of one kind only.

| variable | in the code |
|---|---|
| `runStatus`, `partStatus` | `status` of `inference_runs`/`benchmark_runs`, and of `inference_run_datasets`/`benchmark_evaluations` |
| `executions[p]` | `job_executions` of the part in attempt order, with the `phase` of the worker process that claimed it |
| `artifact` | the attempt whose primary artifact (ZIP, metrics) the part has, 0 for none |
| `open` | transactions that have ended a part, or found they may not, and have counted, but not committed; each with the round in which it counted |
| `retries` | number of user retries: a bound of the model, and the round of a run |
| `kind` | which of the two it is: `job_type` of the parts |
| `overlapped` | history: since the run was last queued two parts were being ended at once, or one was when it was queued |
| `misled` | history: a verdict that was counted before a retry has been written after it |

| actions | in the code |
|---|---|
| `Claim`, `ClaimStops`, `ClaimRefused` | `_claim` and the head of `Benchmarker.run`: the three endings of the claim |
| `WorkEnds`, `NoticeStop`, `RaiseError`, `Crash` | inference or validation, `_check_stop`/`_stop_check`, the `except` clauses, the death of the process |
| `CompleteDataset`, `CompleteEvaluation`, the rejections of both, `Stopped`, `Fail` | the transactions `_complete`, `_stopped`, `_fail` up to the count in `_finalize_run` |
| `WorkerCommits`, `DatasetLossCommits`, `EvaluationLossCommits` | the update of the run in `_finalize_run` or `finalize...OnLost`, and the commit |
| `StopRunning`, `CancelQueued`, `RetryDatasets`, `RetryEvaluations`, `DeleteRun` | `requestStop`, `retry`, `deleteRun` of the services |
| `LoseDataset`, `LoseEvaluation` | `finalizeInferenceOnLost`, `finalizeBenchmarkOnLost` up to their count |

The cut between count and commit is where the programs can overlap: an open transaction
holds its part (if it ended one) and its execution, and takes the lock of the run only to commit. A stop or a
retry that comes in between waits for the parts that are held; a late `_fail` of a part that has completed, or a
`_stopped` of one that is stopping no more, ends no part and holds none, and a retry overtakes it.

What differs, and is modelled as it is: an inference retry takes the datasets that did not
complete, a benchmark retry takes all evaluations and leaves their metrics artifact; an
inference completion that meets a stop honours it, a benchmark completion fails with
`BENCHMARK_STATE_LOST`; a lost dataset that was stopping is STOPPED, a lost evaluation that was
stopping is left alone; and to the scheduler's rule for benchmarks a STOPPED evaluation is pending.

Abstracted: the counters `completed_count` and `failed_count`; diffs and their chunks; the
choice of models and datasets; a transaction that is rolled back is one that never began (of a retry and the
end of a part that wait for each other PostgreSQL aborts one); every completed dataset has a ZIP (one without
differences has none).

### ClaimOnce

The abstract specification: executions are offered, each is taken by one worker or
withdrawn, and never offered again. `Dispatch` implements it with `offered` the ASSIGNED
executions and `holder` the execution each worker works on.

### RunLifecycle

The abstract specification of a run: its status, the statuses of its parts, and nothing else. A part ends in
one step, and whoever finds none left says in the same step, or in one of its own, how the run went: COMPLETED,
PARTIALLY_FAILED or FAILED by what became of the parts (`Outcome`), STOPPED only when asked to stop. `Runs`
implements it by `runStatus` and `partStatus` (`AsPromised`) until it is `misled`; the executions, the transactions that
count before they lock the run, and the two rules of finalisation are what it leaves out.

### SourceDatasets, DirectoryIndex, TrainingDatasets

Each extends the one before, and `TrainingDatasets` has the specification of all three: sources
with their scans, the walks that refresh the index and archive or purge sources whose folder is
gone, and one training dataset built from them.

| variable | in the code |
|---|---|
| `source`, `scans` | `source_datasets` (status, `archived_at`, `latest_scan_id`); `source_dataset_scans` by version, each with its execution and the worker behind it |
| `classes`, `onDisk`, `moves` | the class list a scan would find, the folders there are, and how often one came or went |
| `outlived` | a worker was declared LOST while it went on: from then on updates by id may come late |
| `reindex`, `index`, `walks` | `dataset_type_reindexes.status`, `dataset_directory_index`, and what each request or walk has seen and has still to do |
| `dataset`, `builds` | the `training_datasets` row, and its executions with their workers |
| `staging`, `target`, `deletes` | who wrote what in `.building/<id>`, the directory of the dataset, delete messages on their way |

| actions | in the code |
|---|---|
| `Register`, `Rescan`, `SetClassesOverride`, `Archive` | `source-datasets.service.ts`; `DispatchScan` with its unique index of active scans |
| `ClaimScan`, `CompleteScan`, `FailScan`, `CrashScan`, `LoseScan` | `worker.py` of the dataset worker, `reconcile.ts` |
| `RequestReindex`, `FindDue`, `Upsert` | `reindex.ts` of the API, which locks the row, and of the scheduler, which reads all due types first |
| `Walk`, `Publish`, `ReadRows`, `ArchiveMissing`, `DecidePurge`, `Purge`, `Skip`, `FailWalk`, `CrashWalk`, `Redeliver`, `LoseMessage` | `Reindexer.run` and `_reconcile_missing`, cut at every transaction |
| `ConfigureBuild`, `Submit`, `Delete` | `training-datasets.service.ts` |
| `ClaimBuild`, `Load`, `Stage`, `Fill`, `Move`, `BuildError`, `FailBuild`, `CompleteBuild`, `CompleteValidation`, `CrashBuild`, `RemoveDirectory`, `LoseBuild` | `Builder.run` cut at its staging, its rename and its commit; the validating worker; `TrainingDatasetDeleter`; `reconcile.ts` |

Abstracted: one dataset type; whether a scan finds READY or INVALID is a choice here and computed in
`DatasetContent`; issues, manifests and splits likewise.

### DatasetContent, InferenceDiffs

The pure algorithms: what `scanner.py` makes of a folder, what `builder.py` writes of it, how
`setClassesOverride` reads the same labels in another language, and how the inferencer pairs the
boxes of a label with those a model predicts. They are operators (`Scanned`, `Errors`, `ClassNames`,
`LargestRemainder`, `WriteRow`, `OutOfRange`, `Built`, `Candidates`, `Before`, `Pairs`, `Differs`); the actions
`Scan`, `ConfigureBuild`, `CollectPairs`, `Materialise`, `SetClassesOverride`, `Edit` and `CreateRun` apply them in any
order to every folder of the instance.

- The builder looks at the content hash (`CollectPairs`, `builder.py:225`) and copies the files later (`Materialise`,
  298-303); edits of the folder may come in between.
- Every scan asks anew for the most common class list of the type (`worker.py:209-241`): any member of `Fallbacks`, as it
  depends on other datasets.
- Scanner, API and inferencer find labels in ways of their own. The scanner lowercases the suffix
  (`scanner.py:370`), the API takes names that end in `.txt` (`source-datasets.service.ts:712`), the inferencer opens
  `<stem>.txt` (`inferencer.py:302`): `upper` says which labels have another case. The API counts classes written
  in digits, at the head of a line that ends in a line feed (717-719), Python any `int()`: `plain`.

Coordinates are tenths of the image, so that a box can lie
on it, stick out within the tolerance, or beyond. A content hash is the content it is taken of.
`ContentAssumption`: stems are finitely many, labels are rows of fields, and a class name has a length.
`PredictedAssumption`: what a model predicts is a sequence of boxes of a class whose width and height are not negative
(`Detection`). The sorted list of candidates that `compare` goes through is a fold over their set that takes
the one that comes last (`Lowest`) after all others.

| variable | in the code |
|---|---|
| `task`, `folder` | task of the dataset type; images and labels by stem, which labels have a suffix in another case, and the classes file |
| `override`, `scan`, `build` | `manual_classes_override`, the result of the latest scan, what was built from it |
| `checked` | the builder has compared the folder with the scan; somebody edited it before the copy |
| `configured`, `touched` | a build was configured with this source; somebody edited the folder since the scan |
| `run` | class names as of the scan an inference run was created on |

Abstracted: sizes and times stand for content (`compute_content_hash` hashes them); a stem has one label file; the label of
a corrupt image can be deleted; a refused hard link and other errors of input and output; under HARDLINK a
copied file goes on sharing its content with the source. A build is followed until the next scan or override. Bound: one edit
between two scans (`touched`).

### ModelFiles, ModelRegistry

`ModelFiles` has the four writers of the Model Roots - ingest tasks, trainings, the scan, deletions -
and `ModelRegistry` adds conversions and the deletion of models. A path is
`<root>/<directory>/<slug>_<checksum>` with the suffix of a writer that found it taken. `Slug` is what `_sanitize`
leaves of a name (`model_ingest.py:102`), `Root` the Model Root of a type: two names may have one slug, and two types
one root, so that a path belongs to no name. The API refuses roots that overlap (`dataset-types.service.ts:88-113`), but looks
without a lock, lets older overlaps be (296), and a restore does not look (`backup.service.ts:235-262`).
An ingest looks whether its path is taken when it chooses it, once more after it has copied the file
(`LookAgain`), and then renames over whatever is there (`Place`, `model_ingest.py:432-435`); a training
looks once (`Store`, `StoreCopy`). The scan gives a file that its type does not know the name of the file.

| variable | in the code |
|---|---|
| `models`, `files` | `models` by type and name (status, path, stored artifact); the files in the Model Roots |
| `tasks`, `trainings`, `walks` | `model_ingest_tasks` with execution and worker; what a training has stored; scans under way and what they knew when they began |
| `unlinks` | delete messages on their way; one may come twice |
| `conversions`, `archives`, `deleting` | `model_conversions` with execution and worker; artifact rows of archives; `deleteModel` between its reads and its deletes |

| actions | in the code |
|---|---|
| `Request`, `ClaimIngest`, `Choose`, `LookAgain`, `Place`, `CompleteIngest`, `FailIngest`, `CleanUp`, `CrashIngest`, `LoseIngest` | `models.service.ts`, `model_ingest.py`, `reconcile.ts` |
| `Store`, `StoreCopy`, `RegisterTrained`, `FailTrained`, `DropCopy`, `CrashTrained` | `_store_and_register` and `_complete` of `trainer.py`, seen from the registry |
| `Scan`, `ReadFile`, `RegisterFound`, `EndScan`; `Unlink` | `model_scan.py`; `model_delete.py` |
| `Convert`, `InsertConversion`, `RemoveConversion`, `ReadConversions`, `DeleteModel` | `conversions.service.ts` and `models.service.ts` |
| `Claim`, `CancelRefused`, `Fetch`, `RaiseError`, `Begin`, `Commit`, `Fail`, `Crash`, `Lose` | `converter.py`, `reconcile.ts` |

Abstracted: the version label goes with the name; different contents have different checksums, also in the six digits
of a path; `model_path` is not edited later. Not modelled: roots within roots, whose files the scan leaves to the inner
type.

### Accounts, IdempotentRequests

PostgreSQL has users and sessions, Redis a copy of each session. `validate` is cut into its three
reads and the copy it writes back (`Look`, `CheckUser`, `CheckSession`, `WriteBack`), so that logouts,
password changes and revocations of others fall between them. A request that is
accepted does one of the operations of `auth` and `admin/users`, or goes on into
`IdempotencyInterceptor`: `Reserve`, `Persist`, `Release`, with a `Crash` of the API in between.

| variable | in the code |
|---|---|
| `users`, `sessions`, `cache` | `users` (status, role, `password_updated_at` counted), `user_sessions` by token, the password version in the Redis copy |
| `logins`, `requests` | the login that is making a token and what it has read; where a request stands, and whether its session was withdrawn when it began |
| `evicted` | Redis has lost a copy: `validate` then takes the user's password version for the session's |
| `keys`, `answered` | `idempotency_keys`: free, reserved or answered; runs of the handler whose answer was given |

Counters of failed logins are left out: `LockOut` is the attempt that reaches the threshold.

### DatasetTypes

The tree of types with its roots: `BeginCreate`/`CommitCreate`, `BeginUpdate` and `BeginMove` with
`CommitWrite`, `SetEnabled`, `Reorder`, `Delete`, `Export`, `Import`, and what other services put under a
type (`Fill`, `Archive`). An edit holds the lock of one row between its checks and its write; foreign
keys wait for it. Variables: `types` (the rows), `contents` (what references a type), `forms` (the version an
administrator edits from), `edits`, `backup` (the exported file). `TypesFormATree` fails, section 6.

### WorkerRegistry

What a worker says of itself and of its cards. A heartbeat updates the row of the worker and upserts its cards
one by one in one transaction. `Collides` says when an upsert meets another card at its position: the
statement fails, its exception is caught, and the commit rolls the heartbeat back.

| variable | in the code |
|---|---|
| `process`, `slots`, `changes` | a worker process: down, up or exiting; the card at each index of its host; how often that changed |
| `row`, `recorded` | `workers`: status, and whether `last_heartbeat_at` is recent; whether the last transaction of the process on it was committed |
| `inventory` | `worker_gpus`: worker and index of each card |
| `executions` | an execution, the process behind it, the cards it uses and its rows of `job_execution_gpus` |

| actions | in the code |
|---|---|
| `Start`, `StartUnregistered`, `Beat`, `BeatFails`, `Stop`, `Exit` | `registry.py` of both workers; a heartbeat may still come between `stop()` and the end of the process |
| `Restart`, `Crash`, `ChangeCards` | `main` of the worker, and what happens to process and host |
| `Work`, `Release`; `Busy` | `gpu_alloc.py`; what `gpu-status.service.ts` shows |
| `MarkOffline`, `Lose` | `workers.ts`, `reconcile.ts` |

NVML is taken to answer and to count the cards as CUDA does; cards are exchanged while a host is off.

### MC modules

`MCTrainingJobs`, `MCDispatch`, `MCRunOfParts`, `MCTrainingDatasets`, `MCDatasetContent`,
`MCModelRegistry`, `MCIdempotentRequests`, `MCDatasetTypes` and `MCWorkerRegistry` give names, folders
and bounds for TLC. `MCRunOfParts` runs `Runs`. Symmetry of jobs, workers, parts, sources, tokens and requests is used in runs that
check no liveness.

### Proof modules

`TrainingJobsProofs`, `DispatchProofs`, `RunsProofs`, `DatasetsProofs`, `ContentProofs`,
`ModelRegistryProofs`, `AccessProofs`, `WorkerRegistryProofs`: the inductive invariants and the
theorems of section 5.

## 4. Runs

Every run stops exploring only where the system stops (everything settled and no user
retry, scan or request left), hence `CHECK_DEADLOCK FALSE`. The registry never stops.

| run | instance | states | shows |
|---|---|---|---|
| `training_jobs` | 2 jobs, limit 2, 2 workers, 1 user retry, heartbeats may fail; 4 executions together | 1.7 M | `QueuedHasDispatch`, `ActiveHasExecution`, `CompletedHasModel`, `AttemptsBounded`, `FollowsLifecycle`, `FirstDispatchWaits` |
| `training_live` | 2 jobs, of which one waits for the other, limit 2, 2 workers, 1 retry | 164 k | `JobsSettle`, `ExecutionsSettle` |
| `dispatch_safe` | 2 workers, 2 attempts, 1 duplicate, 1 crash, lost connections, flushes | 2.7 M | `QueuedHasAssigned`, `ClaimedOnce` |
| `dispatch_live` | 2 workers, 2 attempts, 1 crash | 174 k | `AssignedIsUnderway`, `AssignedIsHandled` |
| `runs_of_parts` | inference and benchmark runs of 3 parts, 2 workers, 1 retry, all faults | 2.3 M | `OverMeansEnded`, `VerdictIsTrue`, `AsPromised`, `PendingHasExecution`, `StoppingHasExecution`, `SerialEndsFinalise`, `CompletedKeepsItsZip`, `CompletedHasMetrics` |
| `datasets` | 2 sources, 1 walk, scans and builds at most 3 together, workers may outlive their timeout | 1.2 M | `ScanningIsUnderway`, `StatusIsLatest`, `RunningHasExecution`, `ReadyIsWhole`, `DeletedStays` |
| `datasets_live` | 1 source, 2 walks, 1 build | 152 k | `IndexConverges`, `BuildsEnd` |
| `content` | 2 stems, 4 kinds of image, 7 to 9 labels for each task, suffixes in either case, 3 class files, 3 overrides, 2 lists of the type | 475 k | `BuiltIsTrainable`, `ReadyFolderBuilds`, `AcceptedOverrideCovers`, `RescanAgrees`, `LabelsCompare`, `PairsAreStable` |
| `models` | 2 types with one root, 2 names with one slug, 1 content, 2 ingests, 1 training, walk and conversion, any two or three of them together | 494 k | `WeightsAreThere`, `CompletedHasItsModel`, `ArchivesAreOwned` |
| `access` | 2 users, 2 tokens, 2 requests, 2 moments of passwords, 1 key | 1.6 M | `WithdrawnStaysOut`, `AnsweredOnce` |
| `registry` | 2 workers, 2 cards, 1 execution, cards exchanged once, all faults | 340 k | `AttributionIsTrue`, `DashboardIsTrue` |
| `types_cycle` | 3 types, 2 names, 2 administrators | | a type under its own descendant, section 6 |

Why the bounds are enough. For the pipeline the hard cases need overlapping attempts of one job: two
workers, and an execution that is declared LOST while its process goes on. One user
retry suffices to leave a process of the earlier round behind. Jobs interact through
dependencies and through the scheduler's stages only, for which two jobs suffice; 4 executions
let one job have three, or each two.

`training_live` starts when a job and one that depends on it have been created. The first may complete, fail, be stopped,
lost and retried while the other is BLOCKED, is promoted or failed, and lost and retried in its turn. Its bound
is `Step`: once the dependant has been dispatched, attempts of the two do not begin side by side. What is at work ends by
fairness, so no claim is put off for ever. Late attempts are the matter of `training_jobs`.

For dispatch they need two handlers of one execution, from a duplicate or from a reclaimed
entry, and a second attempt that requeues the job in between. `MAX_ATTEMPTS` is 2, so an
event is sent, fails, is sent again and dies. `dispatch_live` has neither duplicates, lost
connections nor flushes: under the last two its properties fail (section 6), and
`NothingIsForgotten` proves `AssignedIsUnderway` for any number of duplicates.

For the runs they need two parts that end at once, a part that ends while a stop, a loss or
a deletion reaches the run, and an attempt left over from before a retry. Three parts with two
workers and one retry have all of these. With one retry only inference runs are misled; a
benchmark run takes a second retry, which the proofs cover.

For datasets: a rescan behind a late scan (two scans), two sources whose class lists must agree and of
which one is purged while a build refers to it, and two builds on one staging directory. Walks
and a second source are not needed together: a walk takes its rows one by one, and a source at a time. In
`datasets_live` two walks overlap, crash and are lost, around a folder that comes or goes once.

For content the rules are about one label, one stem or the number of classes used: two stems hold a
valid pair next to a corrupt, orphan or invalid one; the rows lie on, at and beyond each limit; one class is written with
a sign, and any label may have its suffix in upper case; the type has a list shorter than the labels ask for, or none; the crowded
label and three predictions make boxes compete.

For models: two names with one slug and one content, in two types with one root, is the worst case: every file
collides, and may belong to two models. `Few` bounds what happens together: any two of ingests, training, walk
and conversion, over all names and types, or any three of different kinds around one name; two models, each
of which may be deleted, with messages that come late and twice.

For access: a request under way at each step of `validate` while another logs out, changes a password or
removes a user. `KeysBound` leaves keys aside once Redis has lost a copy: they do not read it.

For the registry: one exchange of cards can swap two positions, put one card in the place of another, or move
cards to the other host so that their rows meet those that are left there. Every layout is an initial state, and the
inventory remembers one earlier layout at most.

The type invariants are not in the runs, as section 5 proves them.

Almost all these properties are proved without bounds (section 5); the bounds matter
for the rest.

Fairness of `Dispatch`. The publisher's timer runs for ever and is not failed by the
database or by Redis at every attempt (strong fairness of sending and committing: an abort
takes the row back in between). A live worker goes on and its training ends; crashes are
bounded by `MaxCrashes`.

Fairness of `TrainingJobs` (`FairSpec`). A live worker goes on (weak fairness of `Work`); a pending message
is delivered, so an ASSIGNED execution is eventually claimed or refused. A tick goes
through all candidates of all stages in a fixed order, and every tick is followed by
another (`scheduleNext` in `finally`), so the promotion of some job and the reconciliation of some dead
process are strongly fair although other stages make the scheduler busy in between; no candidate comes
up without end, so that fairness of some is enough for each. A refused claim that crashes is redelivered; it
is assumed not to crash forever (strong fairness of `CancelRefused`, of some). Nothing is assumed of users, crashes, errors or of
the stale timeout of a process that is alive.

Fairness of `TrainingDatasets` (`FairSpec`). Live workers go on, and the scheduler notices those that
do not. The periodic rescan is sent again and again (`dispatchPeriodicReindexes` runs in every tick), and
of the walks that can be sent, made and published some is, although crashes and lost messages take
them back in between (strong fairness). Folders move at most `MaxMoves` times: "converges" speaks of the time
after. `MayOutlive` is FALSE there.

Fairness of `WorkerRegistry` (`FairSpec`). Heartbeats come at an interval for as long as the process lives, and the
database answers some of them (strong fairness of `Beat`: those that fail lie in between). Time passes, the scheduler
ticks, and an interpreter that exits is gone (weak fairness of `Age`, `MarkOffline`, `Lose`, `Exit`). `Age` needs a row no
heartbeat renews, as the timeout is six intervals long.

## 5. Proofs

`TrainingJobsProofs` proves, for any set of jobs, any limit, any number of workers and
of retries, with heartbeats that may fail:

- `TypeCorrect`, `QueuedIsDispatched`, `ActiveIsExecuted`, `CompletedIsModelled`:
  `Spec => []P` for the invariants of the same meaning.
- `LifecycleKept`: the refinement `FollowsLifecycle`. Each step moves one job along an arrow of the table,
  requeues it, or is not seen. It needs one more invariant, `AbsentIsNew` (a job that is not there has no
  executions), which the refinement itself shows to be kept.
- `DependenciesComeFirst`: `FirstDispatchWaits`. `FinishedStays`: which transactions may take a job out of
  a terminal status (`OnlyRetriesRevive`).
- `AttemptsAreBounded`: `AttemptsBounded`.

The invariants are not inductive alone. `IInv` adds:

- `PhaseMatchesStatus`: a row nobody claimed is ASSIGNED, and a process that claimed one
  finds it RUNNING or LOST until it ends it. Needed for every step that ends a row.
- `LockedIsRunning`: the row under reconciliation stays RUNNING until the commit, because
  its lock keeps `Complete`, `Fail` and `Stopped` waiting; and if the job was read
  STOPPING and has become PREPARING or RUNNING since, a *different* execution is
  RUNNING. That second half is the reason `LostStops` may end the locked row although the
  job is active again.
- `BestModelIsExecution`: the registered model is of one of the job's attempts; a new
  attempt is therefore never taken for the SUCCEEDED one.

`SetExecutionEffect` and `DispatchEffect` say what writing and appending a row does to
the table; the `RewriteKeeps...` lemmas and `AppendStep`, `StatusStep` say what such a
step owes each part of `IInv`; each action is then an instance of one of them.

The bound on attempts has an invariant of its own, `BoundInv`, on top of `IInv`. An *early* attempt is one below the
limit. While none of these has ended, only users add attempts. From then on `retryFailedTrainingJobs`
stops at the limit, and an attempt past it is paid for by a user's retry or by the end of one more early attempt
(`reconcile.ts` compares the number of the attempt that was lost), of which there are no more than the limit less
one. `AttemptStep` says so of a step and `BoundArithmetic` adds it up. A BLOCKED job counts the attempt it is
owed (`Due`). `DependenciesComeFirst` takes from it that a job picked for an automatic retry has had an attempt
before.

`DispatchProofs` proves, for any workers, attempts, duplicates and crashes:

- `TypeCorrect`, `QueuedIsAssigned`: the invariants `TypeOK` and `QueuedHasAssigned`.
- `Refinement`: `Dispatch` implements `ClaimOnce`, also with database failures and flushes.
- `OneAtATime`: no two workers work on one execution, and what one works on is on offer to nobody, however often
  the stream names it. `ClaimOnce` calls this `OneHolder`; it is proved of `Dispatch` from `WorkingIsTaken` and
  `WorkersDiffer` below.
- `NothingIsForgotten`: `AssignedIsUnderway`, assuming that Redis is not flushed and that the
  database answers; section 6 shows that both are needed.

Its `IInv` adds `RefusedIsOld` (a refused execution is not the newest one of a QUEUED job,
because the job was requeued with an execution of its own since; without it the
unguarded `CancelRefused` could orphan the job), `WorkingIsTaken` and `WorkersDiffer`.
`UInv` adds `HandledIsOver` (a handler that is over has seen its execution claimed or
cancelled, so an acknowledgement loses nothing, even of an entry others hold) and
`SentIsUnderway`. The steps are grouped by what they touch (`StepKinds`), and
`StreamKept` - an entry once added never changes - lets each group keep what the others
know of their entries.

`RunsProofs` proves, for any parts, workers and retries, with errors, crashes and missed
heartbeats, every property of `runs_of_parts`. The steps both kinds of run take come first, then
what each does in its own way. The argument has two layers.

What holds whatever overlaps (`IInv`):

- `OneEnder`: two open transactions never end the same part, as both would hold its row. `EndersSpare`: the
  part one ends is not COMPLETED or CANCELLED, by the guards of `_complete`, `_fail` and `_stopped`.
- `StopReachesAll`: in a run that is STOPPING every part is, or has ended (`StopIsForAll`).
- `Pending`: a part that waits or works has an execution with the right status that no open transaction ends without
  the part (`Leaves`), which keeps the late `_fail` away from a part that still needs it.
- `Stoppable` says that of a part asked to stop. It is inductive for inference alone; for benchmarks it fails (section 6).

What holds until the run is `misled`, that is until a verdict counted before a retry is written after it (`Truth`):

- `Rounds`: only a transaction that ends no part can have counted before the last retry, as the retry waits for
  the others. Its verdict is worthless, and the rest of `Truth` speaks only of transactions of the present round.
- `VerdictHolds`: what was counted since the last retry is still true when it is written. Of a transaction with a
  verdict, every part is ended in what it saw *together with what has been committed since*. It is stable
  because of `WaitingIsCounted`: a claim or a stop finds a part that is not ended, so no transaction of the round has a verdict.
- `CancelledWithRun`: a run that has cancelled parts is CANCELLED or DELETED. The rule for the verdict COMPLETED
  allows cancelled parts; this is why a COMPLETED run has none.
- `QueuedRunWaits` is what deletion of a QUEUED run rests on.
- `EnderFits`: the part it completes is still RUNNING, the part it stops still STOPPING; its lock keeps others away.
- `FailureHolds`: one that will say FAILED or PARTIALLY_FAILED counted a completed part, or none, and that is
  still so. All other parts have ended, and only a late `_fail` may write one of them, a FAILED one, as FAILED once more.
- `StopWasAsked`: in a run that nobody asked to stop no part is STOPPING or STOPPED, so nobody will say STOPPED.

`OverIsEnded`, `VerdictStaysTrue` and `RunsAsPromised` follow: each commit is an `End` or a `Finish` of the abstract
run. A transaction overtaken by a retry is harmless as long as the retried run is QUEUED, since `_finalize_run`
takes only RUNNING and STOPPING runs; only a claim in between lets it mislead. The exception within a round is STOPPED: a late `_fail` may still
turn a stopped part into a FAILED one, before the run is STOPPED or after, which is why `VerdictIsTrue` leaves it out and
`GoOnOrFinish` asks no more of it than that every part has ended and that the run was asked to stop.

The dual of `OverMeansEnded` - a run whose parts have all ended is over - is false (section 6).
`SerialEndsFinalise` is what is left of it, and `LastOneFinalises` proves it: of runs that are RUNNING or STOPPING. Its invariant `Serial`
is about a run whose parts, since it was last queued, never ended two at a time: then at most one transaction is open, and
`CountIsTrue` says that one that left the run open did so for a part that is still not ended.
Without the history variable `overlapped` that is no invariant, which is the bug in a sentence.

`DatasetsProofs` proves, for any sources, class lists, walks, scans and builds:
`TypeOK`, `ScanningIsUnderway`, `RunningHasExecution` whatever slow workers do, and `StatusIsLatest`,
`ReadyIsWhole` and `DeletedStays` as long as no worker outlives its timeout. `DatasetsInv` is in two
layers for that reason:

- `Underway` and `OriginOK` hold always.
- `SourceOK`, `ScanOK`, `RowOK` and `BuildOK` hold while `outlived` is FALSE: the scan under way is the one its
  source waits for, an execution under way is the only one of the dataset, and its worker alone has
  written what is in the staging directory. The last is what the rename to the target rests on; a
  single late worker breaks it, as two attempts then share the directory.

`ModelRegistryProofs` proves, for any types, roots, names, slugs, contents, ingests, trainings, scans and conversions, all
properties of the run `models`, and `WorkIsFound`. Of `RegistryInv`:

- `WasDeleted`: a path a message may still unlink has belonged to a deleted model. Rows are kept for ever, so it can be
  told later of every such path, whoever has it then: the exception `WeightsAreThere` names.
- `Lasting`: a file that is placed or read stays until its row is inserted, unless it is a training's copy or a
  deleted model had it.
- `ModelOK`, `TaskOK`, `WalkOK` say so of each row; `FileStep` says what a step owes them: rows are kept,
  and a file goes only as a training's copy or as one of a deleted model.
- `ConversionOK`, `DeletionOK`: a worker that commits holds a RUNNING conversion, and a deletion
  under way keeps its model AVAILABLE.

`AccessProofs` proves, for any users, tokens, requests, keys and times, with crashes and a Redis
that loses copies:

- `WithdrawnIsRefused`: `WithdrawnStaysOut`. A session that was logged out or revoked before the request began never
  carries it; one of an old password does not as long as Redis has lost no copy: without a copy, `validate` takes the
  user's present version for the session's (`session.service.ts:111-125`), and the session is accepted. `RequestOK` is the argument: the version a request carries is
  no newer than its session's, so that neither is the copy it writes back, however late
  (`SessionOK`); and a request whose session was withdrawn when it began fails at the user's row or at the session's.
- `AnsweredAtMostOnce`: `AnsweredOnce`. `KeyInv`: two handlers never run under one key at the same time, and a key
  with an answer has none running.

`WorkerRegistryProofs` proves, for any workers, cards and executions, and cards exchanged any number of
times: `TypeOK`, `AttributionIsTrue` (`AttributionProved`), and the invariant it rests on.

- `InventoryIsTrue`: once a heartbeat of a process has been recorded, no card stands in the inventory at a
  position of its host where another card is. `gpu_alloc.py` looks for the row at a position, and nothing
  else says that it is the row of the card there. A heartbeat that collides is rolled back as a whole, so
  one that was recorded met no other card (`SyncedIsTrue`); and cards are exchanged only while no process runs.
- Between the heartbeats of one worker another may take a card over, never put one in.
- `IdleIsBlank`: nothing is shown of an execution before it begins or after it is over.

`ContentProofs` proves, for any stems, images, labels of either task, class lists and splits, and for edits of the folder
at any time: `BuiltIsTrainable`, `ReadyFolderBuilds`, `AcceptedOverrideCovers`, `RescanAgrees`, and for
inference `LabelsCompare` and `PairsAreStable`; also that `DiffsSpec` implements `Spec`, from which those hold of it as well.

- `ScanIsOfFolder`: as long as nobody touches the folder after its scan, the folder is one that scan left behind.
  `ScannedAgain` is the lemma `RescanAgrees` needs: what a scan leaves, scanned once more with the same list of the type, gives
  the same result; `SameUnderAnyFallback` says what of it does not depend on that list.
- `CheckHolds`: a folder the builder has compared, and nobody edited since, has the hash and the files of the scan.
- `BuiltWhole` follows a valid row through the builder: what the scanner accepts of it, `WriteRow` can write.
- `SplitsAddUp`: the largest remainder gives each split its floor or one more, and all stems together
  (`Tenths` and `PartOfPair` are its arithmetic).
- `RunIsComparable`: the class names an inference run has taken cover the labels of the scan it was created on; an
  override may be shorter only for labels the API does not read alike (`ReadAlike`), which `LabelsCompare` leaves out.
- `Covered` is about a maximum: that a finite set of integers has one (`MaxOf`) is proved from the order of
  its subsets, as the library states it for no such operator.

`PairsStable` is about a greedy fold, and needs three things of it.

- *The fold.* A recursive function over the subsets of a finite set exists and is the only one: `SubsetInduction`
  gives induction over these subsets, for a set of them in place of a predicate, `FoldExists` the function.
  `BoxesFold` and `NoneLeftOut` use it for the boxes of a label: each row that is a box gives one, in order;
  for a label of a run that is read alike that is every row, as `LabelsCompare` says.
- *The order.* Fractions of overlap are compared by cross multiplication. A box of a label has
  an area, so that the area of the union is positive, `Before` is a strict total order, and every set of candidates has a lowest.
- *The invariant* of the fold is `PairsOf(C, pairs)`: pairs are candidates of C, with at most one for a box, and a
  candidate is left out only for one before it in the same row or column. The lowest candidate preserves it (`TakeLowest`);
  it leaves one possible set of pairs (`PairingIsUnique`), so that any other implementation that ends in it
  makes the same diff. With as many pairs as boxes on either side, every box has one (`AllPaired`, by counting).

Only assumptions: the named ones on constants of each module, which TLC evaluates in every run,
and the two named ones of `NothingIsForgotten`.

Every invariant and every action property of the runs, and each refinement, has a theorem; `types_cycle` shows a violation.
Model-checked only is liveness: `JobsSettle`, `ExecutionsSettle`, `AssignedIsHandled`, `IndexConverges`, `BuildsEnd` and
`DashboardIsTrue` need fairness and ENABLED, which are beyond the prover.

## 6. Where documentation and code disagree

A run shows it:

| run | documented | the code |
|---|---|---|
| `types_cycle` | `docs/USER_MANUAL.md:446`: dataset types form a tree | `reorder` and `move` look for no cycle (`DATASET_TYPE_CYCLE_DETECTED` is raised nowhere); the recursive queries then do not end |

Others met while modelling the jobs and runs:

- `inferencer.py:7`, the last job of a run to finish finalises it: two that finish at once count before
  they take the lock of the run (`inferencer.py:477`), each finds the other pending, and the run stays RUNNING or
  STOPPING with nothing left to do; a benchmark run does so too. `SerialEndsFinalise` is what holds: the run
  is finalised as long as no two parts are being ended at once.
- `docs/USER_MANUAL.md:561`, a stopping job becomes STOPPED: a stop that commits after the
  scheduler's read (`reconcile.ts:425`) is overwritten by the requeue.
- `docs/USER_MANUAL.md:557`, a dead worker's job is not left hanging: a refused claim cancels the
  execution by id (`trainer.py:107`), also when another handler has claimed it since, and nobody finds
  the dead worker then. It is the one place where the assumption of `TrainingJobs` - one delivery of an
  execution at a time - matters: `ActiveHasExecution` holds under it, and fails without it
  until that update also asks for `status='ASSIGNED'`.
- `docs/USER_MANUAL.md:564`, a lost evaluation fails and its run is finalised: one that was STOPPING stays
  so, and its run with it (`reconcile.ts:40`). `StoppingHasExecution` is about inference only.
- `docs/USER_MANUAL.md:579`, a benchmark retry recomputes the metrics: the metrics artifact of the first
  attempt makes every later one fail (`benchmarker.py:257`). `CompletedHasMetrics` is what holds.
- `docs/USER_MANUAL.md:561`, lost trainings are retried up to a limit: `reconcile.ts:445`
  compares the number of the lost attempt. Attempt 1 lost, 2 added; 1 fails late with a storage
  error, 3 added; 2 lost, 4 added with a limit of 3. `AttemptsBounded` is what holds.
- `docs/USER_MANUAL.md:533`, a BLOCKED job waits for its dependencies: the requeue after a loss
  (`reconcile.ts:468`) excludes terminal jobs only. `FirstDispatchWaits` is what holds.
- `README.md:61`, Redis is "safe to flush and rebuild": a PUBLISHED event is never sent again and
  nothing looks for executions that stay ASSIGNED. `dispatch_live` therefore assumes no flush.
- `docs/USER_MANUAL.md:569`, database connection failures are retried: a worker that cannot
  connect acknowledges the entry all the same (`worker.py:60`). `dispatch_live` assumes none.
- `training-state-machine.ts:19`, terminal to QUEUED is "Never a worker/system transition":
  `retryFailedTrainingJobs` does just that (`Requeue` of `TrainingLifecycle`). Its
  candidate list is not checked again for the failure code, so a job that has meanwhile failed
  for a permanent reason is requeued too (`retry.ts:187` says such jobs are left FAILED).
- `training-state-machine.ts:18`, a COMPLETED job goes back to QUEUED by retry: it trains once more, but the primary
  artifact of its first model makes every `_complete` after that fail (`trainer.py:600`), and the job ends FAILED.
  `TrainingLifecycle` says so: a job completes once.
- `config.py:27` of the training worker speaks of entries a dead consumer left, while `Reclaim` takes
  whatever is pending for 90 s, also from a worker in a long training; the claim makes that harmless.
- A benchmark completion that meets a stop makes the evaluation FAILED (`BENCHMARK_STATE_LOST`), not
  STOPPED as a stop promises and as `inferencer.py:411` arranges.
- `inference.service.ts:310`, "so no worker is writing diffs while they are removed": the worker of
  a lost attempt may go on, and `_write_chunk` writes whatever the status. Its rows
  outlive the deletion, or mix with those of the next attempt.
- A late `_fail` may end the only part that a QUEUED run still waits for. `_finalize_run` takes only
  RUNNING and STOPPING runs, so such a run stays QUEUED with all parts ended until it is cancelled.
  `SerialEndsFinalise` speaks of runs that have begun for that reason.
- `_finalize_run` counts (`inferencer.py:476`) before it writes (484-492). A late `_fail` of a part that has
  completed, or a `_stopped` of one that is stopping no more, ends no part and holds none: a user may retry the run in between, and a worker claim a part of it. The
  old verdict is then written over the run that is RUNNING again, and ends it with parts at work. This is
  what `misled` records; `OverMeansEnded`, `VerdictIsTrue` and `AsPromised` hold until it happens.

Of datasets and their content:

- An attempt to build that was declared lost and goes on shares the staging directory with its successor
  (`builder.py:279`): READY is no longer whole then. `ReadyIsWhole` speaks of datasets no builder outlived.
- The builder compares hashes (`builder.py:225`) and copies later (298-303). An edit in between is built without
  a check: the exception `BuiltIsTrainable` names.
- A rescan of a folder nobody touched may change its class list, and with it its verdict: a folder without a classes file
  takes the list most other datasets of the type have at that time (`worker.py:209-241`), which may be too
  short for its labels. `RescanAgrees` names it.
- Label names are matched in three ways. A label named `.TXT` is scanned and built, but the API does not look at it before it
  accepts a class list (`source-datasets.service.ts:712`), and to the inferencer its image has no objects
  (`inferencer.py:302`), so that every box predicted there is reported as extra. A class written as `+1` or `1_0` is a
  class to Python and none to the API (719). `AcceptedOverrideCovers` and `LabelsCompare` speak of labels that are read alike.

- An oriented box that lies outside the image, within the tolerance, passes the scanner's check of its
  area (`scanner.py:24`) and is clipped to none by the builder (`builder.py:52`): the exception in `BuiltIsTrainable`.
- A corrupt image whose label cannot be deleted leaves a manifest hash no build can match until a rescan.
- The mixed geometry of a label that the scan itself removes makes the first scan INVALID and the second READY.
- `submit` asks for a COMPLETED scan, not for a READY one, so a dataset is built from a source that
  became INVALID after it was configured; the train split of a very small dataset may be empty.
- `class_names_override` of a build enters its hash and count when it is configured, while the builder
  reads the classes again.

Of models:

- Two AVAILABLE models may have one file. An ingest renames to a path it found free a moment ago
  (`model_ingest.py:432-435`), over the file of another name with the same slug and content, or of a type with the
  same root; and a scan that read what is registered before an ingest committed, or that walks a root two
  types share, registers the file once more under its file name. The deletion of one of the two unlinks the
  weights of both, and a delete message that comes again (`model_delete.py:19`) asks for no owner either.
- A scan may register the copy of a training, which the training then removes. `WeightsAreThere` names both exceptions.
- An ingest that fails after its rename leaves a file a later scan registers.
- A conversion can be inserted QUEUED for a model that was deleted a moment ago, and a deletion that meets a
  worker about to commit leaves its archive without a conversion (`ArchivesAreOwned` says so).
- Worker and scheduler lock conversion and execution in opposite orders; PostgreSQL aborts one of them.

Of accounts and types:

- When Redis has lost the copy of a session, `validate` builds a new one with the user's present password version
  (`session.service.ts:111-125`): a session of an old password is accepted again. `WithdrawnStaysOut` drops that
  clause once a copy was lost.

- Two administrators that remove each other, or a third, at the same time each count the other as active
  (`admin-users.service.ts:684` locks one row): nobody may be left.
- `incrementFailedLogin` overwrites any status but LOCKED: a DISABLED user becomes LOCKED, and ACTIVE
  when the lock expires.
- A check that began before a password change writes the older copy back after it
  (`auth.controller.ts:410`): the session that changed the password is refused then. The error is on the safe side.
- A handler that throws after it has committed frees its key, and a crash leaves one in progress for ever;
  `AnsweredOnce` is about answers for that reason.
- Adopting an administrator from an import sets `password_updated_at`, which ends the importer's
  session; `docs/USER_MANUAL.md:494` says it stays valid.
- `move` checks the depth of the moved type, not of what is below it; `reorder` looks at no version;
  an import leaves types on a cycle in place.
- Two creations at a time may give types Model Roots that contain each other.

Of the worker registry:

- `registry.py:112` says inventory bookkeeping must never take down the heartbeat. Rows of `worker_gpus` are never
  deleted, so a card that replaces another collides with the row of the old one, and so do two cards that
  swap; the exception is caught, but the commit of the failed transaction is a rollback. Migration 008
  meant to allow the swap ("Verified against a real Postgres"), but it makes the index DEFERRABLE INITIALLY
  IMMEDIATE, nothing defers it, and each card is a statement. The live worker is then shown OFFLINE for as long as
  the cards are there. `DashboardIsTrue` speaks of cards that fit.
- A worker whose first registration fails updates no row at any heartbeat and stays unseen until it is
  started again.

## 7. Not modelled

- The web application and the API client (`apps/web`, `packages`) are about half of the lines of the
  repository. They render what the API returns and hold no state that another part relies on.
- The read side: queries, dashboards, listings and file browsing of every service; controllers, DTOs,
  validation of requests, formatting and error texts. Together with the SQL that spells out columns no
  property is about, they are most of the API's remaining lines; the models name the lines that decide.
- Input and output: uploads, the object store, YAML and image decoding, training itself. Their outcomes
  are choices in the modules that depend on them.
- `.training/<job id>`: a late attempt and its successor share the directory (`trainer.py:113`). What an attempt reads
  back depends on how far the training library was in writing; `CompletedHasModel` and
  `WeightsAreThere` are about what is registered.
- Diff rows and chunks of inference, and which of them a late worker leaves behind.
- Of the worker registry the telemetry and the versions a worker reports.
- Rate limits, password hashing, passkeys, settings, the users of an import, the migration of objects.
- Live events, notifications and audit rows: appended, never read by a decision.
- The scheduler's election: one tick at a time is assumed, which the advisory lock of `index.ts` gives as long as
  the connection that holds it stays; the stages use others of the pool (`index.ts:91`).
