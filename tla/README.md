# Verification of the NSFW detection server

TLA+ models of the services of this repository (the video pipeline from upload
to ClickHouse, the status endpoint, the image and text endpoints), TLC
configurations that check them on small instances, and TLAPS proofs of the
properties that matter most for every instance. File and line references are
relative to the repository (`app/` is `src/app/` in `PROJECT.json`).

    tlc -workers 2 -config pipeline_single.cfg MCVideoStatus
    tlapm VideoPipeline_proofs.tla

`PROJECT.json` lists the components, the runs with what each shows, the lines
every definition stands for, the hazards with the properties that cover them,
and, for each property, a mutated definition under which TLC finds the property
violated.

## The system

An upload service calls `POST /v1/videos/detect`. The API writes a job to
KVRocks (a Redis-compatible store) and answers 202. Worker processes take jobs
from a Redis stream, download the video, extract frames, have a GPU model
moderate them, aggregate a verdict, move the video to an NSFW bucket when it
must, commit frames, result, storage action and job status to PostgreSQL in one
transaction, then push rows to buffers for ClickHouse and write a runtime key.
A flush job drains the buffers into ClickHouse, where manual bans write as well.
Beside that the API answers status requests from the queue and PostgreSQL, and
moderates images and texts at once, without a store. Every `/v1` endpoint checks
a signature first.

### Inventory

| Component | State it keeps | Operations | Hard behaviours | Correct when |
|---|---|---|---|---|
| Detect endpoint and Redis queue repository (`routes_videos.py`, `queue_repository.py`) | job hash, unique index, video index, work stream, consumer group (last delivered id, pending list), dead-letter stream | `enqueue_video_job`, `update_status`, read, ack, requeue, move to DLQ, lookups | check-then-act between awaits; four separate writes with a cluster client; a reply lost after the write; `update_status` writes back a whole hash it read earlier | a 202 means a durable job; indexes never name a job that is not there; no unfinished job is without a message |
| In-memory queue repository (same file) | the same, as Python objects | the same | none: one process, used by tests and without KVRocks | - |
| Video worker (`video_worker.py`) | the message it handles | `run_forever`, `_handle_message` | dies between two steps; several workers on one group; failure recorded in two stores, then requeue, then ack | failures are retried up to a limit, then dead-lettered; no message is acknowledged before its job is settled or requeued |
| Video job processor (`video_processing_service.py`) | attempts, current failure | `process`, `_process_video`, `classify_processing_error` | any of some ten remote calls fails before or after its effect | terminal and classified jobs are not processed again; retry limit |
| Video detection service (`video_detection_service.py`) | none | move, commit, publish | order of three stores without a common transaction | moved before committed, committed before published, result final |
| PostgreSQL repositories (`repositories/postgres`) | job row, frame rows, result row, action row | `mark_processing`, unit of work, `mark_failed` | unique keys silently skip an insert; a retried transaction collides with its own rows | one result per (video, version, policy) |
| ClickHouse buffers and flush (`clickhouse_flush_service.py`) | three lists | push, read batch, insert, trim by count | failure between insert and trim, pushes during a run, one rejected row | no row lost; a row inserted again hides nothing newer |
| Runtime key (`runtime_nsfw_repository.py`) | one key per video | write | last writer wins across jobs of a video | never ahead of the rows of the result it shows |
| Manual ban (`manual_ban_service.py`) | legacy row, exclusion row | two inserts | fails between them; a later flush overwrites its legacy row | exclusion never without a legacy row; the ban's row stays |
| Aggregation, moderation policy, legacy mapping | none (pure) | verdict from frames | thresholds, ties, category order, the score of "safe" | flag, move and labels of a verdict fit together |
| GPU moderation (`gpu_moderation_service.py`) | semaphore and its waiters | batch, image, text, each with retries | slot left and entered again at each attempt, last error raised, a model that replies with too little or in another order | every attempt returns its slot once, one result per frame in order |
| Frame extraction and download (`frame_extraction_service.py`) | temporary directory per job | download, ffprobe, ffmpeg, list, clean up | two workers on a job share the directory; a worker that died left files | every second of the video is judged, once; nothing is left behind |
| Video status (`video_status_service.py`) | none | index, hash, then PostgreSQL | workers write both stores between its reads | what it shows as classified carries the committed result |
| Image and text detection (`image_detection_service.py`, `text_detection_service.py`) | HTTP client, temporary directory | download with retries, moderation, answer | many ways out, each of which must release what is open | answered once, everything closed, error of the last attempt |
| Request authentication (`auth_service.py`, `security.py`, `deps.py`) | none | headers, clock, signature | order of the checks | nothing is opened for a refused call |
| Readiness, settings, lifecycle, clients | none | wiring | none | - |

Processes interact only through the stores. Within a process the code is
sequential between awaits, so an await is where others may run, where a call
may fail with or without its effect, and where the process may die.

## Modules

| Module | Models | Built on |
|---|---|---|
| `QueueStore` | the KVRocks state and the single commands on it | - |
| `VideoDetectApi` | `enqueue_video_job` as called by `detect_video`, one process per request | `QueueStore` |
| `VideoPipeline` | worker processes, PostgreSQL, Storj, pushes and runtime key, composed with the requests | `VideoDetectApi`, `Finalization` (instance) |
| `Finalization` | abstract: what the platform may rely on when a video is classified | - |
| `VideoStatus` | a status request between the steps of the pipeline | `VideoPipeline` |
| `ClickHouseFlush` | buffers, flush runs, bans, runtime key and the legacy table | - |
| `ModerationPolicy` | thresholds, validation of replies, verdict, labels; operators only | - |
| `VideoAnalysis` | `_process_video` up to the finalization, with the shared directory; what `VideoPipeline` has as one step | `ModerationPolicy` |
| `StatelessDetection` | image and text requests on one semaphore, behind the signature check | `ModerationPolicy` |
| `MCVideoDetectApi`, `MCVideoPipeline`, `MCVideoStatus`, `MCClickHouseFlush`, `MCVideoAnalysis`, `MCStatelessDetection` | instances for TLC | |
| `VideoDetectApi_proofs` | indexes never dangle, a 202 stays visible, with either client | `VideoDetectApi` |
| `VideoPipeline_proofs` | type correctness, the commit invariant, uniqueness of results, the indexes with workers at work | `VideoPipeline`, `VideoDetectApi_proofs` |
| `VideoPipeline_delivery_proofs` | no job is dropped, an accepted job is durable; attempts, stores and dead letters of a job submitted by one call | `VideoPipeline_proofs` |
| `VideoPipeline_finalization_proofs` | the pipeline implements `Finalization` | `VideoPipeline_proofs` |
| `VideoStatus_proofs` | what a status answer shows is true | `VideoStatus`, `VideoPipeline_proofs` |
| `ClickHouseFlush_proofs` | the flush's inductive invariant and what follows | `ClickHouseFlush` |
| `VideoAnalysis_proofs` | the whole video is judged, nothing is left behind, verdicts are consistent | `VideoAnalysis` |
| `StatelessDetection_proofs` | slots, open resources, answers | `StatelessDetection` |

The two halves of a video's way meet at `_publish_after_commit`. `VideoPipeline`
has its pushes and the runtime write per job, with failures and retries of the
worker around them; `ClickHouseFlush` has the same steps per result, in the same
order, with the flush, the bans and the other results of the video around them.
`published` of the first is the log of the second. `Finalization` states that
order once, and is proved of the first.

### How state and actions correspond to the code

`kv[j]` is the hash `nsfw:video_job:<j>`, reduced to the two fields something
depends on, status and attempts. `uniqueIdx` and `videoIdx` are the two index
keys. `stream` is the work stream as a sequence of job ids; the position of a
message is its id. The code never trims the stream, so neither does the model.
`delivered` and `pel` are the group's last-delivered id and pending list; the
model leaves out which consumer a pending message belongs to, since no code
looks at it. `dlq` holds the messages copied to the dead-letter stream. A message
without a `job_id`, which `_handle_message` would dead-letter, is never added by
any writer of the stream and has no place in the model.

A request has a program counter `apiPc`, one value per await of
`enqueue_video_job`. The single-node client writes in one `MULTI/EXEC`
(`WriteAll`), the cluster client in four calls (`WriteHash`, `WriteUnique`,
`WriteVideo`, `AppendMessage`); `Write` selects between them by `ClusterMode` as
the code does by `isinstance(self._redis, RedisCluster)`. Any command may raise
(`RequestFails`), and the last may raise although it took effect (`Reply`).

A worker has a program counter `pc`. Every await of `_handle_message`,
`process`, `_process_video`, `finalize_classification` and
`_publish_after_commit` whose outcome another process or a failure can separate
from the next is an action. `update_status` is two: it reads the hash, and
writes all of it back (`snap` is what it read). Analysis (download, probe,
extraction, moderation, aggregation) changes no shared store and is one action
(`VideoAnalysis` takes it apart) with two verdicts, according to
`move_required`; its verdict may differ from one attempt to the next. A call inside the `try` of `process()` takes effect or not,
and returns or raises, in any combination (`Proceed`, `CallRaises`); raising
leads to the except branch. A call outside the `try` that raises ends
`run_forever`, which catches nothing: `Crash`. The restarted worker reads only
new messages, like the code.

`pgJob` and `pgResult` are the job and result rows. `MarkProcessing` is the
transaction of `mark_processing`: the insert is skipped when the job id or the
(video, version, policy) is taken (`KeyTaken`). `Committable` is the foreign key
on the job row (`HasJobRow`) and the primary keys of frame and result rows
(`NoRows`). `published` is what has been
pushed or written of a job after its commit.

`RequestFails`, `AnalyseRejects`, `MoveRefused` and `CallRaises` consume one of
`MaxFaults` failures and `Crash` one of `MaxCrashes`.

`VideoStatus` adds one status request (`askPc`, and `shown`, what it has read).
It reads the video index, the job hash and, for a classified job, the result row,
one read per await; without a job in the queue it falls back to the newest
result row. It changes nothing, so several requests do not disturb each other.
The model assumes that the API has its PostgreSQL reader: an API without one
answers CLASSIFIED with no result (`video_status_service.py:53`) and 404 for what
only PostgreSQL knows (`:68`), and is not ready (`readiness_service.py:13`).

In `ClickHouseFlush` a buffer is a log of every row ever pushed, with `trimmed`,
how many LTRIM has removed: a row has a position, and "the rows read" of a run
stay the same rows while others are pushed. `inserted` are the positions
ClickHouse has seen. `legacyTable` is what a query of `video_nsfw_agg` sees, the
row inserted last, because the version column defaults to the time of the
insert. A run is read (with validation of the whole batch), insert, trim for each
buffer in turn; a call that raises or a process that dies ends it (`FlushDies`),
also after the effect, since the caller catches nothing. `Rejected` rows do not
pass `model_validate`. A ban is its two inserts.

In `VideoAnalysis` a run is one call of `_process_video`. `file` and `frames` are
what is in a directory; a frame file is its number and the source it shows, so
frames of an earlier or another run are told apart. ffmpeg writes one frame per
step; when its directory has gone and come back it goes on writing there. A
source file in the middle of its download may pass ffprobe and yield some of its
frames. The content of a source is a sequence of outputs, what a good model says
of each second; the model's replies are those or one of four kinds of bad ones.
`cleanup_dir` ignores errors, so a removal, before the run or after it, may leave
any of the files behind (`KeepSome`); a run that leaves some, or whose `mkdir`
fails before its `try`, ends as "littered". Starting the download (`Fetch`) and
opening source.mp4 (`Open`) are two steps with an await between them. `met` records
runs that shared their directory while at work, or found in it what could not be
removed: of those the model promises only that they end.

In `StatelessDetection` a request is a task of the event loop, an action what it
does between two awaits. `asyncio.Semaphore` is `slots` and the queue `waiters`;
a released slot goes to the first waiter at once, where asyncio keeps the woken
task in its queue until it resumes, which nobody else can tell: a slot promised to
it is not given to another. That the queue is first in, first out is asyncio's
doing, and nothing is claimed of it. A call arrives as a record (body,
headers, age of the timestamp, signature) and `Refusal` is what FastAPI and
`AuthService` answer, in their order: a body that is no JSON before the
signature is looked at, one that misses a field after it. A signature is a term
that only the same key, timestamp, path and body yield.

## What the runs show

| Run | Instance | Result |
|---|---|---|
| `api_cluster` | three concurrent requests, two for one job and one for another job with the same key; cluster client; two failures | `AcceptedIsVisible`, `NothingDangles` hold: the order of the four writes and the `SET NX` of the early returns keep indexes and stream behind the hash, and a 202 visible |
| `api_cluster_durable` | the cluster client again, one failure | `AcceptedIsDurable` is violated, see below |
| `api_repeated` | the same, single-node client, no failure | `NoDuplicateItem` is violated |
| `pipeline_races` | the three requests, single-node client, feed two workers; one crash or one failing call, two attempts, three messages | every 202 has a message (one `MULTI/EXEC` writes hash and message), order of move, commit and publication, one result per key, final results, nothing dropped; the pipeline implements `Finalization` |
| `pipeline_single` | one job, two workers, three failures, one crash, two attempts, and a status request | attempts bounded, the job hash never goes back in its life cycle, stores agree when no message is left, dead letters are terminal failures, a classified job is fully published; status answers carry the committed result, and an accepted video is found; every job settles and every failure is dead-lettered |
| `pipeline_published` | one job, one worker, one failure | `CommittedIsPublished` is violated |
| `pipeline_stranded` | one job, one worker, one crash | `EveryJobEnds` is violated |
| `flush` | two results and a ban of one video, batches of two, a rejected storage-action row, two failures | no row is lost wherever a run stops; the runtime key is never ahead of the rows; a repeated insert hides no newer classifier row; rows that no rejected row holds back reach ClickHouse |
| `flush_ban` | the same | `BanIsDurable` is violated |
| `analysis` | two runs of different videos that share a directory, batches of two, two GPU attempts, two faults (calls, bad replies, crashes, removals) | a run alone in its emptied directory judges all of its video in order or fails; nothing is left behind but by a crash or a failed removal; every run ends; flag, move and labels of a verdict fit together |
| `analysis_shared` | two runs of one job, no fault | `EverySecondJudged` is violated |
| `image_requests` | a URL image, a base64 image and a text, one slot, two downloads, three GPU attempts; calls signed or not | every way out of an attempt returns its slot once, everything opened is closed, errors are of the last attempt, self-contradicting replies are no answers, every request is answered |

### Bounds

- `MaxMessages` bounds messages ever added. In the races instance three
  requests add at most three, so there is room for a retry where a request has
  not come or has found the job; further retries block there, which cuts
  behaviours off but adds none. It must be a bound: a duplicate of the message
  lets a worker write back an old attempt count, so with duplicates the code itself does not bound the
  retries. In the single instance two attempts need two messages and the bound
  is four: a third attempt, if the code made one, would show.
- `MaxAttempts` is 2 (the default is 3): one retry and one attempt at the limit
  happen. The theorems have no such bound.
- `MaxFaults` of the pipeline is 3 where retries are the question, so that both
  attempts and one more call may fail. In the races instance one call may fail,
  or a worker may crash, not both, and a call fails while at most two messages
  are in the stream (the constraint `OneTrouble`): a duplicate, the other job or
  a retry meets the failing one. With three messages workers fail by the
  commit conflicts of duplicate jobs. The theorems have no such bound.
- `MaxCrashes` is 1: a crash leaves a worker idle and a message pending, which a
  second one only repeats on another message.
- Two workers: a message is held by one worker, and what a third one could do
  to a job another worker can.
- `queue_read_count` is 1, its default: with more, a crash strands the unhandled
  rest of the batch as well.
- `flush`: two results of one video are what two rows of a batch, or of two
  batches, can be to each other; a third one repeats them. The rejected row is in
  the last buffer, so that the first two show what is flushed and the last one
  what is held back. Two failures let a run stop twice at the same place.
- `analysis`: videos of one to three seconds, so that a batch is full, short or
  the second of two. The faults are counted together (calls, bad replies,
  crashes, removals): with two the GPU attempts of a batch run out, or a crash leaves files
  and the next run in the directory meets a fault.
- `image_requests`: three requests on one slot: one calls, one waits and one comes
  back for its next attempt. Failures are not counted, the attempts bound them.
- Workers are interchangeable, and so are the two requests for one job:
  `pipeline_races` uses both symmetries. It checks action properties and
  invariants only; runs with liveness use none.

Deadlock checking is off: when every job is settled and no request is left, the
system waits for the next upload; analysis runs and image requests end.

### Fairness

`FairSpec` gives each worker weak fairness of its own steps: `run_forever` calls
`run_once` again for ever, awaits are the event loop's to resume, and each
remote call has a timeout, so it returns or raises. Each request that has
started has weak fairness too, for the same reason. Nobody has to send a
request, no failure or crash has to occur, and none is prevented: liveness
holds only where the properties say "unless a worker dies", and then whatever
fails. No strong fairness is assumed.

The flush worker is one run of `flush_once`, and `plan.md:1046` has it run again
and again, so its steps together are weakly fair; a failure may end a run, though
only `MaxFaults` times. Nobody has to publish or to ban. A run of the analysis
that has begun is weakly fair (download, subprocesses and GPU calls have
timeouts) but may crash. A task of the API is weakly fair: the event loop resumes
it when its await returns, and a waiter is woken by the release it waits for.

## What is proved

For any sets of jobs, requests and workers, any assignment of keys and videos
with one video per key, any attempt limit and any bounds (the named `ASSUME`s of
the modules):

- `TypeCorrect`: `Spec => []TypeOK`. It contains one fact the rest needs: a
  worker that is not idle handles a message that exists. One lemma for requests
  and one for workers, with a case per action.
- `CommitInvariant`: `TypeOK /\ CommitInv` is inductive. The safety properties
  around the commit are not: that a push is preceded by a commit says nothing of
  a worker about to push. `Knows(w)` says what a worker's place in the code
  implies about the stores: past the commit its job has a result, which required
  the move if its own verdict did; at the commit the required move is made.
  `Justified(j)` says what each store's contents imply. `KnowsIsStable` is the
  heart of it: messages keep their place, results are never replaced, moves are
  never undone (`Grows`), so no step of another process can falsify what a worker
  knows. A job hash reset by a racing request can only lose CLASSIFIED.
- `PublishedOnlyCommitted`, `MovedFirst`, `ClassifiedOnlyWithResult` follow from it;
  `ResultsAreFinal` is the action property.
- `OneResult`: from the two constraints of the schema (`RowsInvariant`: one job row
  per key, no result without its job row), kept by the three actions that write
  PostgreSQL.
- `DeliveryInvariant` and `NothingDropped`, for the pipelined enqueue.
  `NoJobDropped` is not inductive: the last unacknowledged message of a job may
  be in the hands of a worker at its XACK. The invariant asks for a message that
  *covers* the job: undelivered, or pending and not held by a worker that is on
  its way to the XACK with nothing more to write or requeue. A worker reaches
  that point only after it has seen or written a terminal status or has added a
  message; a worker that writes a non-terminal status covers the job by itself.
- `AcceptedDurable`, for the pipelined enqueue: a job hash implies a message,
  because one `MULTI/EXEC` writes both, which is what the early return of
  `enqueue_video_job` relies on. The cluster client breaks exactly this.
- `PipelineFinalizes`: `Spec => F!Spec`, with `result` mapped to `pgResult` and the
  other two variables to themselves. A commit decides its key: `OneResult` gives that no
  other job of the key has a result, `CommitInvariant` that the move was made. A
  push publishes: `ProgressInvariant` says of a worker at each push what it has
  pushed before, and that its own verdict is the committed one. Every other step,
  of worker or request, is a move or a stutter.
- `FlushInvariant`: the inductive invariant of `ClickHouseFlush`. `NoRowLost` is not
  inductive: it holds after an LTRIM only because the rows about to be trimmed
  are the ones that were inserted. `FlushInv` says that of a run between insert
  and trim, and that ClickHouse is ahead of LTRIM by at most one batch.
  `LegacyInv` ties a visible classifier row to an insert, `BanInv` a half-done ban
  to its legacy row, `PushInv` the next push of a result to the rows it has
  pushed.
- `FlushTypeCorrect`, `RowsAreNotLost`, `ExclusionsHaveLegacy` (no exclusion without
  a legacy row; proved only, no run checks it) and `RuntimeBacked` follow from it.
- `LegacyNeverGoesBack`, the action property: the rows ClickHouse has seen beyond
  the trimmed ones are at the head of the next batch, and a batch read again is
  at least as long, because lists only grow at their tail. So its newest row of
  a video is not older than the visible one.

- `ApiInvariant`, with either client and a stop after any command: no index or
  stream entry without its hash is not inductive, because `WriteUnique`,
  `WriteVideo` and `AppendMessage` write without looking. `TargetInv` says what a request
  carries from one await to the next: its target has the key it was asked for,
  exists once found or written, and is in the video index once that was written
  or repaired. It survives the steps of others because jobs and index entries
  never disappear (`NothingLost`). `IndexesNeverDangle` and `AcceptedStaysVisible`
  follow, and `PipelineIndexes` carries both over to the composition with workers.
- `OnceInvariant`, for jobs no two calls submit (`EnqueuedOnce`, a hypothesis of the
  theorem: two jobs may have one key, and both clients are covered). Its core is
  `OneLive`: a job has at most one message that is undelivered or in the hands of
  a worker that may still write, since a worker adds a message only as its last
  act before the XACK. So while a worker is at work nobody else writes about its
  job, and `Once(w, j)` can say of every place in the code what the stores hold.
  `AttemptsAreBounded`, `ClassifiedWasPublished`, `StoresComeToAgree`,
  `DeadLettersAreFinal` and the action property `HashesMoveForward` follow: the last
  because the hash a worker writes over is the one it has read, and the places
  of the code at which it writes go with the statuses it may find. The hypothesis is needed: with the duplicate
  message of `api_repeated` the two workers write back each other's old hashes.
- `StatusInvariant`: between two reads of a status request the pipeline may take
  any step. What it has read holds on: the job named by the index exists, and a
  job once read CLASSIFIED has a result, by `CommitInvariant` and because results
  are final. `ClassifiedAnswers` and `AcceptedIsAlwaysFound` follow; for the second,
  the index entry behind the 202 comes from `PipelineIndexes`.
- `AnalysisInvariant`: `WholeVideoJudged` looks only at the end of a run. `Alone(r)`
  says for every point of the code what a run that shared its directory with
  nobody finds there: after the preparation only its own source, then its own
  frames without a gap, then results and remaining frames that together are the
  video in order. `MetInv` makes "with nobody" hold: two runs at work in a directory have
  met. `WholeVideoIsJudged` and `DirectoriesAreCleaned` follow for videos of any
  length and any batch size.
- `VerdictsAreConsistent`: `FlaggedIsMoved` and `LabelsAgree` from the
  lemma `VerdictsFit` about `Verdict` of every sequence of outputs. No induction is
  needed: a maximum of the verdict is attained by one of its frames and no frame
  exceeds it.
- `DetectionInvariant`: slots, queue and callers are one conjunct (`QueueInv`),
  because a released slot moves from one to the other. The cardinality of the
  callers changes by the request that leaves and the one it wakes, which are
  different because nobody waits and calls at once. `AttemptInv` bounds the attempts
  of the loop a request is in. `AttemptsReturnTheirSlot`, `NothingStaysOpen`,
  `LastErrorAnswers` and `AnswersAreConsistent` follow.

TLC finds each of these invariants kept on an instance of its run (of that of
`VideoAnalysis` all but `ShapeInv`, whose sets are infinite). Every invariant and every action property a passing run checks now
has a theorem. Only model-checked are the liveness properties, which are out of
the prover's reach as is everything about `ENABLED`, and the violations, which are
counterexamples. Induction over data is out of reach too; no definition here is
recursive.

## Where the code and its documents part

1. `plan.md:472`: "The API returns `202` only after the job is durably enqueued."
   With the cluster client, the default, a request that stops after the HSET and
   before the XADD leaves a hash without a message; the client's retry finds the
   hash and is answered 202 (`api_cluster_durable`).
2. `plan.md:1203`, `plan.md:1210`: a repeated request adds no second item. Two
   overlapping requests do, with either client (`api_repeated`).
3. `plan.md:1025`: a side effect that fails after the commit is retried without
   moderating again. The code marks the job failed, in PostgreSQL over CLASSIFIED,
   so each retry moderates again and collides with the committed rows until the
   job is dead-lettered (`pipeline_published`).
4. `plan.md:21`: queue and worker retries own failed processing. Nothing claims a
   pending message, so the message of a worker that died is never handled again,
   and a repeated request adds none (`pipeline_stranded`).

5. `manual_ban_service.py:59`: "off-chain shows success only after these facts are
   durable". A classifier row of the video that is still buffered when the ban
   returns is flushed later and, being the newer insert, hides the ban's row in
   `video_nsfw_agg` (`flush_ban`). The exclusion row stays.
6. `plan.md:532`: "Extract one frame per second." Two workers of one host on one
   job share its directory; the second empties it while ffmpeg of the first
   writes, and the first run commits a verdict on the later frames only
   (`analysis_shared`).

`NoJobDropped` and 4 do not contradict each other: after a crash the message
still exists, pending; nobody reads it.

Met while modelling, without a run of their own:

- `plan.md:769`: "`frame_is_nsfw = model_response.is_nsfw OR top_category in
  unsafe_categories OR overall_severity >= 3`". The code flags by a threshold per
  category instead (`moderation_policy.py:5`, and the tests with it,
  `tests/unit/services/test_moderation_policy.py:26`): 3 for `sexual_minor_content`, 4 for
  most, 5 for nudity and suggestive content. So a frame whose top category is
  unsafe, or of severity 3, that the plan flags goes unflagged, and nudity of
  severity 4 moves a video that is not flagged. No property states the plan's
  rule, nor that a moved video is flagged, since neither holds. `FlaggedIsMoved`
  says what does hold in the other direction: only a video of severity 3, which
  `plan.md:1369` has flagged and not moved as well, is flagged and stays.
- `plan.md:577` has `overall_severity 0` for frames without an unsafe category. The
  validation of a reply bounds the score of "safe" only by 5
  (`schemas/model_output.py:28`), and the severity of a frame is the score of its top
  category: a clean frame with a "safe" score of 4 moves its video.
- `plan.md:474` counts timeouts of ffprobe as retryable; the code's error is terminal.
- When the reply of the last `update_status` is lost, a job that is CLASSIFIED
  everywhere turns FAILED_RETRYABLE and is processed again.
- A base64 image that is not ASCII is answered 500, other undecodable ones 400.

## Not modelled

- Flush runs that overlap: the repository starts one, without a lock. Two would
  break `NoRowLost`, because LTRIM removes rows by count.
- The in-memory queue, buffer and runtime repositories: tests, and an API without
  KVRocks. They follow no protocol another process takes part in.
- Contents of rows, payloads, prompts and replies beyond what decides something;
  formats and timestamps; the `attempts` column of PostgreSQL, which nothing
  reads to decide; the retry of reads on an exhausted connection pool, which
  changes nothing.
- Redelivery by Redis itself, which XREADGROUP with `>` rules out; loss of
  KVRocks, PostgreSQL or ClickHouse data.
- The limit of GPU calls across processes: there is none, each process has a
  semaphore. A worker handles one message at a time and never waits for its own.
- Readiness, settings, lifecycle, logging, client construction; migrations,
  deployment, smoke and validation scripts: no protocol of their own.

## What is left

A measure that each attempt decreases, the safety half of `EveryJobSettles`:
`HashesMoveForward` orders the statuses of one hash, not the steps between them. A
refinement of an abstract queue by the enqueue and the workers, as `Finalization`
is one of the publication. The plan's flagging rule as a run that refutes it.
