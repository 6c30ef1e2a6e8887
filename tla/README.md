# A verification development for Deep Truth

Deep Truth accepts an image, a video or an audio file, has trained models judge
whether it is synthetic, and keeps the verdict as a *case*.  This directory
holds TLA+ models of the parts of it whose correctness depends on the order in
which processes act, the TLC configurations that check them, and proofs checked
by the TLA+ proof system.

Run everything from this directory:

    tlc -workers 2 -config queue_faults.cfg MCAnalysisRuns.tla
    tlapm AnalysisQueueProofs.tla

and likewise for the runs of section 3 and the eight modules whose names end in
`Proofs`.

Source paths below are relative to the repository root.

## 1. The system

| Component | State it keeps | Operations | Interacts with |
|---|---|---|---|
| **Cases API** `server/app/routers/cases.py`, `database.py` | SQLite `cases`, `analysis_results`; evidence files in `uploads/` | `create_case`, `_replay_cached`, `_mark_case_failed`, `update_case`, `delete_case`, reads | broker, cache, job state |
| **Analysis task** `server/app/queue/tasks.py`, `celery_app.py` | the message a worker holds; the local variables of one run | `analyze_case`, `_ingest_url`, `_run`, `_store_success`, `_store_failure`, retry | SQLite, cache, job state, broker |
| **Job state** `server/app/queue/state.py` | Redis hash per job, zset of waiting jobs, event channel | `mark_queued/running/retrying/finished/cached`, `get_job`, `pending_ids` | API and workers write, console reads |
| **Result cache** `server/app/queue/cache.py` | verdict by content hash, content hash by URL | `lookup`, `lookup_by_url`, `store`, `remember_url` | API and workers |
| **Queue router** `server/app/routers/queue.py` | one pub/sub subscription per open stream | overview, lookup, SSE stream | job state, stream slots |
| **Rate limiter** `server/app/security/ratelimit.py` | a zset of recent requests and a counter of open streams per client | admission script, `StreamSlot` | every route |
| **Server-side fetch** `server/app/security/urlfetch.py` | redirect chain of one download | `validate_url`, `fetch` | analysis task |
| **Analyser, engines** `server/app/services/analyser.py`, `server/app/engines/`, `server/app/registry.py` | the registry and the environment of a worker process | engine result to verdict and rows; choice of the audio engine | analysis task, inferencers |
| **Ensembles** `ensemble.py`, `config.py` | none | per-checkpoint scores to a score and a confidence | inferencers |
| **Inferencers** `inferencers/` | checkpoints found and loaded, per process | find, load, score | pipeline, checkpoint directories |
| **Checkpoint sync** `checkpoint_sync.py` | checkpoint directories | `sync_image_checkpoints`, `_verify_one` | inferencers, through the disk |
| **Pipeline, preprocess cache** `pipeline.py`, `storage.py`, `preprocessors/` | `meta.json`, `stats.json` and arrays per content | `analyze`, preprocess, infer | engines, and other runs through the disk |
| **In-memory queue** `task_queue.py`, `cli.py` | task records, worker threads | `submit`, `get`, eviction, waiting and collecting | pipeline |
| **Extension worker** `extension/source/src/background/background.ts` | `pendingScans`, `scanHistory` in browser storage | start a scan, poll, settle | API |
| **Console** `client/` | React state | fetch, poll, follow the event stream | API |
| **Training** `train_pipeline/deeptruth_train.py` | raw trees, frame caches, manifests, checkpoints, markers | download, preprocess, train, evaluate | none at run time |
| Media validation, reports, diagnostics, scripts | none | | |

What is hard about it:

* *Four stores that cannot be written together.*  A case's outcome is written to
  SQLite, to the cache, to its job record and to the pending set, one after the
  other, by processes that can die between any two of the writes.
* *At-least-once delivery.*  Messages are acknowledged after the task returns, so
  a lost worker means the task runs again over whatever the first run left, and a
  crash between publishing a retry and acknowledging makes two runs at once.
* *Two writers of one record.*  The API publishes a message and then writes
  `queued`; the worker may by then have written `running` or `succeeded`.
* *Failures inside and outside the `try`.*  An exception of the download or the
  analysis is retried; the same exception from the bookkeeping after it ends the
  task, and Celery acknowledges a task that raised.
* *Users.*  A case may be deleted or its status patched while it is analysed.
* *Counters in Redis.*  A claim is several commands; processes die, replies are
  lost and keys expire between them, and the admission script is handed the time
  by API processes whose clocks need not agree.
* *Files that say they are ready.*  Checkpoints, preprocessing caches, downloads and
  training runs are directories filled file by file, with a marker or a configuration
  file that others take as the sign that the rest is there.
* *State a process keeps.*  A worker reads the list of checkpoints, the environment
  and a model once; what it found then decides every later case.
* *A channel that may lose anything.*  Event streams are cut, refused and reopened,
  and publications nobody is subscribed to are gone.
* *A worker that comes and goes.*  The extension keeps two lists in browser
  storage, reads and writes each whole, awaits in between, and is torn down at the
  browser's convenience.

What makes each part correct: the API accepts a case once and never leaves it
without a job; the task settles every case it is given, with status and rows
together and once; the job record follows the task and stays terminal; the cache
holds nothing that is not durable; the limiter admits no more than its limit in
any window; a stream's slot is returned; a snapshot and the events after it end
in the last state; the extension loses no scan; a download is rejected for good only
for the URL's own fault; the file shown beside a verdict is the one it is about; no
score comes from an untrained model; a marker promises no more than is on disk.

## 2. Modules

| Module | What it is |
|---|---|
| `AnalysisQueue` | API handler, broker, workers, SQLite, job record, pending set and cached verdicts: the core of the system |
| `CaseLifecycle` | the abstract specification: what a user is promised about a case |
| `MCAnalysisQueue` | small instances of `AnalysisQueue` for TLC |
| `MCAnalysisRuns` | the same with a history variable counting deliveries |
| `AnalysisQueueProofs` | type correctness, one batch of rows, status agrees with rows |
| `DurabilityProofs` | announced and cached implies durable; no crash loses a case; one run at a time; how many runs; the queue's steps are those of `CaseLifecycle` |
| `RateLimitState`, `RateLimit` | one bucket of the sliding-window limiter, with drifting clocks: its state and properties, and its operations |
| `RateLimitProofs` | bounded windows, honest `Retry-After`, no false refusal |
| `StreamSlots`, `MCStreamSlots` | the counter of one client's concurrent event streams |
| `StreamSlotsProofs` | how far above the cap, and when below zero; types |
| `UrlFetch` | the worker's download: hops, answers, checks, retries |
| `Evidence` | evidence files, the content index and the URL index under uploads, downloads, replays and deletions |
| `PreprocessCache` | one content's cache under concurrent, killed and forced runs |
| `ModelLoading` | checkpoints arriving on disk while worker processes find, load and use them |
| `Verdicts` | from scores to the status, rows and cache decision: ensembles, engines, analyser |
| `ServingProofs` | theorems about `UrlFetch`, `Evidence` and `Verdicts` |
| `PipelineProofs` | theorems about `ModelLoading`, `PreprocessCache` and `TrainingData`; every invariant of `MCSafety` for its composed specification |
| `LiveCase` | job record, publications, event stream and console of one case |
| `InMemoryQueue` | the command line's queue and its threads |
| `ExtensionPolling`, `MCExtensionPolling` | the extension's service worker: scans, passes, storage, suspension |
| `ProgressProofs` | theorems about `LiveCase`, `ExtensionPolling` and `InMemoryQueue`; every invariant of `MCProgress` for its composed specification |
| `TrainingData` | a dataset from the network to its manifest |
| `Training`, `TrainingProofs` | training runs and their checkpoints; what a marker promises |
| `MCSafety` | small instances of the parts whose properties are invariants, side by side |
| `MCProgress` | small instances of the parts that must get somewhere, side by side |

An `MC` module gives the constants values for TLC and changes nothing else;
`MCAnalysisRuns` adds a history variable.  `MCSafety` and `MCProgress` hold the state
of several components that share none; `part` says which of them a behaviour explores
while the others keep their initial state, so a run of either checks each component
exhaustively.  `MCSafety` bounds the limiter's clock (`MaxTime`, `Least`), the failures of the
streams (`Rare`, also in `MCProgress`) and the redeliveries of the evidence (`Calm`).

### AnalysisQueue and the code

One action is one step another process can observe: a SQLite transaction, one
Redis write, a broker operation.  `apc[c]` is the place in `create_case` for case
`c`, `wpc[w]` the place in `analyze_case` for worker `w`.

* The API: `Submit` (checks, cache lookup), `InsertCase`, then either `Replay` and
  `MarkCached`, or `Delay`, `QueuedWrite` and `QueuedZadd`.  `DelayFails` and
  `MarkCaseFailed` are the `except` clause.  A failed publication may have reached
  the broker all the same.
* A worker: `Receive`, `RunningWrite`, `RunningZrem`, `Reopen` (attempts after the
  first), `Ingest` (URL cases), `Analyse`, `StoreSuccess`, `CacheResult`,
  `FinishWrite`, `FinishZrem`, `Ack`.  `FailsPermanently` goes to `StoreFailure`;
  `FailsTransiently` goes to `StoreFailure` on the last attempt and to
  `RetryWrite`, `RetryZadd`, `RetryPublish` before it.  `ReplayStore` is the
  second cache check, with the bytes in hand.
* Failures: `Crash` (message redelivered), `HardLimit` (message acknowledged),
  `Escape` (an exception outside the `try`: message acknowledged), `ReplayFails`
  (the same calls inside the `try`: retried), `CacheUnreachable` (logged and
  ignored), `ApiDies`.  Each spends from `Budget`, so a property can name the
  failures it is about by `spent`.
* `row`, `results`, `job`, `pending`, `queue`, `cache` are the shared state.  A
  verdict stands for status, scores and rows together; `Signalled` are those whose
  summary row has a positive confidence.  `results[c]` is a sequence of batches,
  so that keeping the rows of an earlier run would show.

### CaseLifecycle

`Accept`, `Conclude` (verdict and rows in one step), `Fail`, `Remove`, and weak
fairness of `Settle`.  `AnalysisQueue!ImplementsLifecycle` substitutes `row` and
`results` for its variables.

### RateLimit

`Admit`, `Reject` and `AdmitThenReject` are one run of `_ADMIT_LUA` each (the last
one two, when the client library repeats a call whose reply was lost), which Redis
executes atomically.  `log` is the sorted set, `expires` its expiry.  The script
takes the time from its caller: `d` is by how much a caller's clock differs from
Redis's, from `-Slow` to `Fast` ticks.  `Tick` moves the clock and drops an expired
bucket.  `recent` and `refused` are history: the requests counted lately, by the
true time, and what the last refused client was told.  `Covers` is
`max(1, ceil(retry))` without division.

### StreamSlots

`pc[s]` is the place of connection `s`: `Incr`, `Expire` and perhaps `Undo` are
`StreamSlot.__enter__`, `Exit` and `Reset` its `__exit__`, `Start` the first
resumption of the generator in `queue_stream`.  `count` and `ttl` are the Redis key;
`Increment`, `SetExpiry`, `Decrement` and `SetZero` are what Redis does with a command.
`Unanswered` is a command that Redis runs and whose answer is late: the client library
sends it again (`retry_on_timeout`, `redis_client.py:42`), so an `INCR` or a `DECR`
counts twice.  `EnterFails` and `ExitFails` are a call that raises, whether or not its
command was run; `Kill`, `Abandon` and the expiry of the counter in the middle of a claim
(`Lapse`) are the other failures, all spent from `Budget`.  Within one process the commands
of a claim follow each other without an await (`Free`), between processes they interleave.
The cap does not hold as such: a repeated `DECR`, an expiry under a claim, and the reset
that wipes a claim counted since the counter went below zero each let one stream too many
in.  `debt` is history and counts them, and `CapHolds` is the cap plus the debt.

### ExtensionPolling

One action per stretch between two awaits.  A handler is a scan being started
(`Start`, `HistRead`, `HistWrite`, `PendRead`, `Track`) or a pass of `pollPending`
(`PassRead`, then `Poll` with `HistRead` and `HistWrite` for every scan, then
`PassEnds`).  Both end with `writePending` and what its caller does after it: the list is
stored (`Track`, `PassEnds`), then the alarm set or cleared (`SetAlarm`), then the timer
re-armed (`ScheduleTick`).  `copy[h]` and `base[h]` are the history and the pending list a
handler has read and will write over.  `TimerFires`, `AlarmFires` and `Wakes` start passes,
with no check that another one is running.  `Suspend` may fall between any two of these
steps and ends every handler and the timer; the lists and the alarm survive.  `stale` and
`torn` are history: a handler has written over what it had not read; the worker died after
it showed a scan and before the alarm stood for the list (`Unsafe`).  The first is the
exception of `ScansSettle`, the second of `ScansSettle` and `PollingStops`: a list without
its alarm stays until something else wakes the worker.

### UrlFetch

`pc` is the place in `fetch`: `Validate` is `validate_url` for the first URL and for
every target, `Redirected`, `Refused`, `NoAnswer` and `Answered` are what an origin may
do with a request, `Received` is the checks of a body in the code's order (`Checks`).
An origin answers each request as it likes; what httpx reports by itself is external.
`Retry` is the task's: a failure is retried from the first URL, a rejection never.

### Evidence

`api[c]` and `del[c]` are the places of the handler and of the deletion of case `c`,
`work[d]` the place of the worker with delivery `d` of its message; each step reads or
writes one file, row or index.  A message is a delivery: `Send` makes a new one for the
first attempt, for each retry, and for each redelivery.  `Die` is a worker that dies
before the acknowledgement (`acks_late`): the message comes again with the same attempt
number, whatever the dead one had done, and `Begin` reopens the row only for an attempt
after the first (`tasks.py:274`).  `alias` is `url -> content hash` of the one page,
`payload` the cached verdict of each content with the file it names.  `fresh`, `repointed`
and `overlapped` are history: the case was answered with what the URL served then; a first
attempt, delivered again after it stored its verdict, has given the settled row a new
download; a message was delivered again beside the retry its worker had already
published, so that two runs write one row.  The last two are the exceptions of
`EvidenceMatchesVerdict`: in both the code shows evidence the verdict is not about.

### PreprocessCache

`file[f]` is absent, torn (opened and not yet closed) or whole.  `SaveRecord`, `SaveWhole`,
`SaveFace`, `Mark` and `Complete` are an opening and a closing of one file each;
`CacheHit` is the short-circuit on `stats.json`.  `Kill` leaves torn what was open, and so
does a write that fails (`WriteFails`, a full disk), which `pipeline.py` swallows; a crop
that cannot be written counts as no face (`NoFace`).  `mixed` is history: runs overlapped,
were killed, were forced, met a full disk.

### ModelLoading

`disk` is the checkpoint directories, filled by `Copied` while `SyncStart`, `NextName`
and `Verify` are `sync_image_checkpoints`.  `proc` is what a worker process remembers:
the lists it found, the models it loaded, the environment, the audio engine and model.
A task is `Take`, `Preflight` or `Unavailable`, `Setup`, `Score` for every checkpoint
or `Listen`, and `Decide`; `job.todo` is the places of the curriculum still to be asked,
which are taken least first.  `Ended` replaces a process after its share of tasks.  The
loaded models stand for those of image and video; a score stands for its source.  Only the
image ensemble asks whether a checkpoint's head was saved with it (`Asked`): a video
checkpoint without its classifier scores with a random one, and `HeadsAreTrained` is about
pictures only.

### Verdicts

A behaviour takes one case through `Predict`, `Analyze`, `Analyse`, `Supplement` and
`Store`; the initial states are every subset of the checkpoints with every score on the
grid.  Scores are integers, means are fractions compared exactly.  `Opposed` is the
clamp of `1 - 2 sigma` at zero, without the root.

### LiveCase

`Commit`, `Write` and `Publish` are the writers' steps, in the order of the code;
`Subscribe`, `Snapshot`, `GetMessage`, `Forward` and `StreamEnds` are `queue_stream`;
`Poll`, `Answer`, `Arrives` and `FetchFails` are the console's query.  That a
subscription is in effect when `subscribe()` returns is assumed.  `gap` is history.

### InMemoryQueue

`pc[h]` is the place of the main thread or of a worker thread, with a step for each
unlocked write of a record's field.  `ended` is the clock of `completed_at` and
`created_at`: `Before` compares, as `_evict` does, the completion time of a record or, while
it has none, its creation time.  The type invariant bounds the times by the number of
files.  It does not bound the table: what had not ended when the last file was submitted
stays in it, so it may hold every file, whatever `max_records` is.

### TrainingData and Training

`TrainingData` has an action for every downloader, extraction, `_enumerate_dataset`, the
frames of one clip after the other, the splits, the manifest and the markers, and a
crash or a full disk at any of them.  The manifest is written in place: `ManifestCut`
leaves some of its rows and no marker, which training accepts, since it asks only for
the CSV. `cut` is history: a manifest was cut short, or its marker was never written.
`Training` is `train_one_dataset` with an action for an epoch, the choice of the best,
each checkpoint it writes, early stopping and the marker; a checkpoint is known by the
AUC of its weights, and a crash while it is written leaves it torn.  `peak` is history.

## 3. Runs

| Run | Instance | Shows |
|---|---|---|
| `queue_faults` | 1 URL case, 2 workers, 3 attempts, any 2 failures | `TypeOK`, `OneBatch`, `SettledShowsItsRows`, `CrashSafe`, `NoConcurrentRuns`, `RunsPerCrash` |
| `queue_shared` | 2 cases of one content, 1 worker, 2 attempts, any 1 failure | `AnnouncedIsDurable`, `CacheIsPersisted` |
| `queue_lifecycle` | 2 cases, 2 workers, 1 deletion | `ImplementsLifecycle` (safety and liveness) |
| `queue_live` | 1 case, 2 workers, 3 attempts, 2 failures among crash, broker, delete | `Settles` |
| `safety` | the parts of `MCSafety`, see below | 20 invariants: `TypesOK` and those named below |
| `progress` | the parts of `MCProgress`, see below | `TypesOK` and those named below |

The parts of `safety`:

| Part | Instance | Shows |
|---|---|---|
| limiter | limit 2, window 4 ticks, clocks 1 tick behind to 1 ahead, 9 ticks | `RateBound`, `RetryAfterIsEnough`, `RefusedOnlyWhenFull` |
| slots | 3 connections, 2 processes, cap 2, expiry 3 ticks, lifetime 2, any 2 of the 6 failures | `CapHolds`, `ResetNeedsLoss` |
| download | 4 URLs, 2 redirects, bodies of 0 to 4 units of which 2 to 3 are accepted, 2 attempts | `RejectedForGood` |
| evidence | an upload and a URL of the same page, which changes once; 2 attempts, 1 death of a worker; the URL's case may be deleted | `OwnFileStays`, `EvidenceMatchesVerdict` |
| preprocessing | 2 runs, 2 kills or failed writes, either forced or not | `MarkerVouches`, `FailuresExplained` |
| models | 2 image checkpoints (one with the head in its adapter, of which the remote folder has only the configuration, and one fed the crop), 1 video checkpoint; a picture, a clip and a recording; 3 tasks, 2 per process, 1 synchronisation | `HeadsAreTrained`, `StaleForOneChild`, `StubNeedsAudioFirst` |
| verdicts | 8 checkpoints, 4 scores, 3 counts of faces, 2 audio thresholds, each failure | `LayersAgree`, `EvidenceNeverClears` |
| training data | a dataset of each kind with 3 clips, 1 crash or full disk, at the manifest too | `MarkedIsFetched`, `ListedLoads`, `TestUnseen`, `SourcesTogether` |

The parts of `progress`:

| Part | Instance | Shows |
|---|---|---|
| training | 2 datasets, up to 4 epochs, 1 crash | `MarkedHasBest`, `RunsEnd` |
| extension | 1 scan, 2 passes, 2 suspensions | `OutcomesAreReal`, `ScansSettle`, `PollingStops` |
| streams | 2 connections, 2 processes, cap 1, any 2 of the 6 failures | `IdleHeals` |
| console | a case that succeeds, 2 lost publications, requests or connections, 2 connections | `StreamShowsRecord`, `VerdictSeen` |
| command line | 3 files, 2 threads or none, room for 1 record | `EveryFileRan` |

### Bounds, and why they are enough

*Queue.*  Bounded by its sets, `Budget` and `MaxFaults`; attempts are bounded by
the code (`MaxAttempts`).  Cases interact only through the cache, so two cases of
one content, one of each kind, show every interaction; the single-case runs
concentrate on what happens to one case.  Two workers are needed for the duplicate
run after a crash between `RetryPublish` and `Ack`; two failures let that crash be
followed by another.  Three attempts have a first, a middle and a last one.  Two
verdicts, one with a signal and one without, tell the cache rule apart.

*Limiter.*  `MaxTime` is two windows and a tick, so that a window can end anywhere,
with entries expiring before and after; `Member` are six names, which become free
again, enough for every request a window stretched by the drift can hold.

*Slots.*  Three connections are one more than the cap, and two of them share a process.
The expiry is longer than a stream lives, as 3600 seconds are longer than
`MAX_STREAM_SECONDS`.  Two failures (`Rare`) let a command run twice meet an expiry, a leak
or a second one; the theorems hold for any number of each.  Nothing is assumed away: the
library's repetition of a command and the expiry in the middle of a claim are among them,
and each is a way to the reset of a negative counter.  `ResetNeedsLoss` says that there is
no other: no leak, failed call or killed process leads there.  `IdleHeals` has one exception
(`CutShort`): a claim cut short between `INCR` and `EXPIRE` by a failed call or a kill may
leave a counter that never expires.

*Extension.*  Two passes overlap in every way more would; two suspensions cover one
in the middle of the recovery from another, and each may fall between a list and its
alarm.  A second scan is needed only for
handlers that lose each other's entry, which `poll_dropped` shows.

*Download.*  Two redirects of four URLs reach the bound, a circle and the way past
both; the sizes have one value on each side of each limit.  *Evidence.*  One case of
each kind has every interaction: the upload teaches the index the page, the URL case is
answered from it, downloads, retries, and is deleted.  `Calm` bounds the run: the
upload's analysis is run once, and a worker dies neither before the upload was answered
nor beside a retry it has published.  The theorems have no such bound, any number of
deaths, and any case deleted.  *Preprocessing.*  Two runs overlap or follow each other;
two kills or failed writes tear a file and then another over it.  *Models.*  Three tasks
with two per process cover a first and a later case of a process and the first case of
the next; of one image checkpoint only the configuration ever arrives, the other arrives
file by file.  *Verdicts.*  Each rule depends on which groups ran and on one or at least
two face checkpoints, so two of each suffice; the grid has both ends, a score on the
boundary of a band and one between.  *Training data.*  Three clips: two sources and a
fake of the first, enough for each split and for a source whose clips could be parted.
*Training.*  A second dataset shows the warm start; four epochs with patience two reach
every stopping rule.  *Console.*  Two faults lose the publication and the poll that
would have made up for it.  *Command line.*  Three tasks and room for one make the queue
evict while others wait and run.

### Fairness

*Queue.*  The API's event loop runs a handler to its end, a live worker finishes
what it starts and takes a message while there is one, and Redis expires keys.  No
failure, user request or outcome is forced; in particular nothing forces an
analysis to succeed: `Settles` holds because attempts run out.

*Slots.*  The event loop finishes a claim or a release, a stream ends (the generator
returns after `MAX_STREAM_SECONDS`), and time passes: strong fairness of `Tick`,
since a claim in progress holds it back for a moment.

*Training.*  A run that has been started goes on (`WF` of `Step`); nothing forces a batch
to fit into memory or an epoch to improve.

*Console.*  The worker and the API finish the transitions of the case, a request is
answered, and the polling interval passes.  No stream is forced to connect and no
publication to arrive: `VerdictSeen` rests on polling alone, as `use-cases.ts` means it to.

*Extension.*  A running worker resumes its handlers and fires its timer, a set alarm
starts a worker, and time passes.  No answer of the server is forced: `ScansSettle`
and `PollingStops` rest on `POLL_TIMEOUT_MS`.

### Where the code does not do what it says

Each of these runs checks one statement of the repository and finds it violated.

| Run | Statement | What happens |
|---|---|---|
| `queue_record` | `state.py:38` "States a job will not leave on its own." | the API's `mark_queued` comes after the publication, so it can overwrite `succeeded` by `queued`; the console then shows a finished case as waiting |
| `queue_sqlite` | `tasks.py:16-19`, a locked SQLite is transient and retried | `_store_success` runs after the `try`; its exception ends the task, the message is acknowledged and the case stays `processing` |
| `slots_rearmed` | `ratelimit.py:274-275` "a leaked slot expires rather than permanently costing that client capacity" | every acquire, a refused one too, renews the counter's expiry, so a client that keeps trying keeps its leaked slot |
| `models_untrained` | `registry.py:53-54` "the worst case is audio reporting "no signal"" | `_setup` keeps the model before it reads the weights; after a failed load the next recording is scored by random weights, with confidence 1 |
| `url_stale` | `queue.py:155` "A URL whose content changed misses rather than returning a stale verdict" | the URL index is asked without asking the URL, and names the content seen last |
| `poll_dropped` | `background.ts:163` "One pass over every unsettled case." | a handler writes back the pending list it read before another one changed it; the scan is shown as processing and polled no more |

## 4. Proofs

Every invariant a run checks is proved, for every value of the constants, as a theorem of
the specification that the run checks or of one it implies: a `FairSpec` is its `Spec` with
fairness, and `CountingIsPassive` is that `RunsSpec`, with its history variable, implies
`Spec`.  Each inductive invariant named below was
model-checked on the instance of its run before it was proved.

### What is assumed

The constants have the types the code gives them, and values that stand for "nothing"
are none of the things they stand for.  Beyond that:

* `ConstantsAssumption` (`AnalysisQueue`): the names of statuses and verdicts differ.
* `LimitAssumption`, `SlotsAssumption`, `TrainingAssumption`: limits, windows and expiries
  are positive, a curriculum names no dataset twice.
* In `MCSafety`.  `EvidenceAssumption`: an upload has its bytes.  `ModelAssumption`: the
  curriculum is a sequence, each checkpoint is of one ensemble and each medium of one
  kind.  `VerdictAssumption`: the AUCs that weigh the votes are positive, scores lie on a
  grid from nothing to one, `NO_FACE_WEIGHT` is at most one, and a threshold of the audio
  model lies strictly between nothing and one, where `_calibrate` clamps it.
  `FetchAssumption`, `PreAssumption`, `DataAssumption`: bounds are numbers, a shuffle is of
  what was shuffled.
* In `MCProgress`.  `ScriptAssumption`: a case goes through finitely many transitions.
  `FileAssumption`: there is a file, and the main thread is no worker.
  `HandlerAssumption`: starting a scan is no polling pass.  `StreamAssumption` is
  `SlotsAssumption` of its streams.

TLC evaluates each of them on its instance.  Three theorems have one hypothesis besides,
`LIFETIME < TTL`: a stream ends (900 seconds) before the counter it renewed would expire
(3600 seconds).  They are `CapIsBounded`, `ResetIsExplained` and `TheWholeIsSafe`, which
contains them.

### The queue

* `TypeCorrect`: `Spec => []TypeOK`.  `TypeOK` is not inductive: `RetryPublish`
  would leave `Message` if a retry could be scheduled on the last attempt, and a
  store would leave `Verdict` if there were nothing to store.  `TypeInv` adds
  `WorkerInv` (an idle worker holds no message, a retry is scheduled below the last
  attempt, a value about to be stored is there) and `ApiInv`.
* `NeverTwice`: `Spec => []OneBatch`, and `StatusAgreesWithRows`:
  `Spec => []SettledShowsItsRows`.  `_replay_cached` appends its rows without
  clearing, so both need `FreshInv`: until its handler has replayed or published
  it, no message and no worker has to do with a case and it has no rows.
  `StoreEffects` then says that every step leaves SQLite alone, moves one row to a
  status that is no verdict, records one verdict with its rows, or is a PATCH.
* `AnnouncedAfterStored` and `CachedAfterStored`: rows once written stay
  (`DurableStays`), and `DurableInv` adds that a worker about to cache or to
  announce, and a handler about to announce, has the rows behind it.
* `CrashesLoseNoCase`: `Spec => []CrashSafe`.  It is inductive with `TypeInv`;
  each action either keeps who owes the case its outcome, hands the debt on
  (message to worker, worker to message), or settles the case.
* `RunsAlone`: `Spec => []NoConcurrentRuns`.  That no two workers analyse a case is not
  inductive: the second may still be a message.  `OneTokenInv` counts both: before any
  crash a case has one message or one worker.  Only a crash between `RetryPublish` and
  `Ack` makes a second.
* `RunsAreBounded`: `RunsSpec => []RunsPerCrash`.  A bound on the runs that have been says
  nothing of the next one.  `RunsInv` bounds them together with the attempts still to come,
  which are counted as a finite set: for every message and every worker of the case, the
  attempts from its own to the last.  A step takes one of them; a crash gives back a round.
* `ImplementsCases`: without failures and patches the initial states and every step of
  the queue are steps of `CaseLifecycle` or leave its variables alone.  `Conclude` and
  `Fail` ask that the case be open when it is settled, and the worker that settles it has
  not looked since it took the message: `OpenInv` says that whoever is to settle a case, the
  handler, a message or a worker, would still find it open.

### What guards the API

* `WindowBounded`, `RetryAfterHonest`, `NoFalseRefusal` (`RateLimitProofs`), for any
  limit, window, length of a second and drift.  The log alone is not enough, since
  entries leave it by trimming and by expiry: `Remembered` says that a counted
  request younger than `WINDOW - Spread` is still in it, whichever clock trimmed it,
  `Accounted` that nothing young in it was never counted, and `RetryInv` that the
  oldest entry leaves before the refused client is told to come back.
* `CapIsBounded`, `ResetIsExplained` and `SlotsTyped` (`StreamSlotsProofs`), for any number
  of connections, processes and failures, repeated commands included.  The invariant is that
  the counter and the debt together cover the claims (`Covered`), that the claims let in
  number at most what the last of them was told (`GrantInv`), that the counter does not
  expire under a stream (`AgeInv`: each acquire renews the expiry, so it is further away than
  the end of every stream's life), and that nothing is owed before a command was sent again
  or the counter expired under a claim (`LossInv`).

### The download, the evidence and the verdict (`ServingProofs`)

* `RejectionsFinal`: `RejectedForGood`.  `LoopInv` counts: the URLs requested are as many as
  the requests, so that the hop past the bound really is one too many.  `TransferInv` says
  that a transfer is broken exactly if its body is not whole.
* `OwnEvidenceKept` and `EvidenceIsTheVerdicts`: `OwnFileStays`, `EvidenceMatchesVerdict`,
  for any number of attempts, deaths and deletions.  A file is unlinked on the strength of a
  count taken earlier, and named by a cached verdict that outlives the case.  `ControlInv`
  says what handlers and deliveries work on, and that a case has one delivery at work until a
  message is delivered again beside its retry; `FilesInv` what a file holds until its row
  names it, `RowsInv` which file the row then names, `NamesInv` that whatever names a file
  names one already written and not to be written again.  `ContentInv` is the statement about
  rows and, for the cache, about payloads and answers; `UnlinkInv` that rows naming a file
  about to go only share it.
* `VerdictsAgree`: `LayersAgree`.  `ToldInv` carries what each layer was told by the one
  below; the rest is arithmetic of fractions, in particular that calibration puts exactly
  the scores above the threshold above one half (`CalibratedAtHalf`).
* `EvidenceAddsUp`: `EvidenceNeverClears`, for any number of checkpoints.  A weighted mean is a
  fold over a set, and without induction nothing can be said of a fold at once.
  `TotalUnfolds` therefore takes a smallest set at which the fold misbehaves (`Smallest`,
  `SumsExist`), and `TotalsOrdered` a smallest one at which larger scores give a smaller sum;
  `MeanGrows` and `ScoreGrows` lift that to the mean and to each rule of the ensembles.
* `VerdictsTyped`: every risk is a number between nothing and one.

### Models, caches and data (`PipelineProofs`)

* `OnlyTrainedHeadsScore`, `StaleListsEnd`, `StubsComeFromAudio`: the invariants of
  `ModelLoading`.  A verdict rests on a list of checkpoints found before some files arrived
  and on models loaded after.  `FoundInv`, `LoadedInv` and `ScoreInv` pass on what was on
  disk from one to the next, weights for both ensembles and heads for the image ensemble,
  which alone asks for them; `WaitInv` bounds how often a complete checkpoint was left out
  by the cases its process has scored, or knows that its process has it.
* `MarkersAreTrue`, `FailuresHaveCauses`: the invariants of `PreprocessCache`.  `AloneInv`
  says what a run that is alone has written at each of its places, `VouchInv` that
  without overlap and `--force` the marker vouches at every moment, `FailedInv` that without
  overlap a run fails only after a kill or a failed write, and without `--force` on a torn
  marker that no run repairs, `TornInv` who has a torn file open or left it so.
* `MarkedDataIsFetched`, `ListedFramesLoad`, `TestStaysUnseen`, `SourcesStayTogether`: the
  invariants of `TrainingData`.  `DownloadInv` follows the clips from the network to the
  marker; `FramesInv` says that only a save cut short tears a frame file; `OnceInv` that
  until a manifest is cut short or left without its marker the first manifest is the last.
* `TypesKept` and `MarkersHonest` (`TrainingProofs`), for any curriculum, scale,
  patience, batch size and number of crashes.  A marker is written from the local
  variable `bestAuc` and promises something of the disk: `SaveInv` and `BestInv` say that
  the two agree from the first improvement on, `RunInv` that a marked dataset is never in
  training again, so that no later run replaces or tears its checkpoint.

### Console, extension and command line (`ProgressProofs`)

* `StreamsShowRecords`: `StreamShowsRecord` is nearly inductive; `LiveTypes` adds that a
  stream past its subscription is subscribed, so that what is published reaches it.
* `ShownOutcomesAreReal`: `OutcomesAreReal`.  A handler writes back a history it read before
  others changed it; `CarriedInv` says that what it carries was real when it was read,
  and `RealStays` that what was real stays so.
* `EveryFileRuns`: `EveryFileRan`.  Every unfinished task is in one place: not handed on
  (`FreshInv`), in the queue (`WaitingInv`) or held by one thread (`HeldInv`), and its record
  is not evicted (`KeptInv`).  `StampInv` counts the completion times, for the types.

### The compositions

`PartsAreSpecs` and `PartsGoOnAlone` say that a behaviour of `SafetySpec`, or of
`ProgressSpec` but for its fairness, is for every part a behaviour of that part's own
specification.  With them `AllTypesKept` and `TheWholeIsSafe` prove all invariants of the
run `safety`, and `ProgressTyped` and `ProgressIsSafe` those of the run `progress`.  What is
proved elsewhere of a module is used for the instance of it (`Proved`) once the two are
shown to have the same steps (`SameLimiter`, `SameStreams`).

### Only model-checked

Everything that depends on fairness: `Settles`, the liveness half of
`ImplementsLifecycle`, `IdleHeals`, `ScansSettle`, `PollingStops`, `RunsEnd`, `VerdictSeen`.
The prover has no reasoning about `ENABLED` and therefore none about weak or strong
fairness.

## 5. Not modelled, and why

The numerics of the models, artifact maps, PDF layout, diagnostic tools and scripts have
no discrete state to explore; media validation is a table of byte prefixes.  Within the
modelled parts:

* wording, rounding, timing (backoff delays are nondeterministic), the attributes of a
  case that no decision depends on, authentication (the API has none).  A message is
  delivered in any order, which covers the countdown of a retry;
* of the limiter, how a client is identified and how limits are read; of the extension,
  the check of the cache before a scan, the fallback from a URL to an upload, the length
  of the history, and `RESUME_POLLING`, which no page sends;
* of the result cache, its time to live and version, corrupt entries and failures of the
  best-effort writes (`AnalysisQueue` has the failing reads); of the download, which
  addresses are public;
* of the models, NaN scores, `.pt` checkpoints of the video ensemble, failures to fetch a
  processor from the hub, and the SRM inferencer; the SRM row never decides.  One worker
  process is modelled, since processes share nothing but the directories; under
  `--pool=solo` a process is never replaced, and `StaleForOneChild` says nothing;
* of the training pipeline, the set-up command and the status table.

Other things the models show that no document of the repository speaks of, so that no
run is about them: `_verify_one` asks for `classifier_head.pt` also where the adapter carries
the head, so a usable checkpoint may be reported incomplete; checkpoints that contradict
each other completely have confidence 0, and the verdict is then withheld and not cached;
a training run that is begun again starts at epoch 1 and its first epoch replaces the
best checkpoint of the run that died, which may have been better; a first attempt that is
delivered again after its worker stored the verdict downloads the page again and points the
settled row at what it finds; training takes a manifest without its marker, of which
preprocessing makes another with another split; a repeated `DECR` lets a client have one
stream too many; a worker of the extension torn down between the pending list and its alarm
leaves a list that nothing polls.  The last four are the exceptions named in the properties.

## 6. Plan

1. The `leads to` properties as ranking arguments: for each, a theorem that every step
   of the process that is to act lowers a bounded measure and no other step raises it, which
   leaves only fairness to TLC.
2. The action property behind `RejectedForGood` and `OnceInv`: what a step of a rejected
   download or of a marked dataset may never do.
3. The extension's cache check and upload fallback, with the requests that are lost.
