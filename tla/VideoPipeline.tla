---------------------------- MODULE VideoPipeline ----------------------------
(***************************************************************************)
(* The video classification pipeline: the detect endpoint (VideoDetectApi) *)
(* feeds the work stream of QueueStore, and worker processes               *)
(* (app/workers/video_worker.py) take its messages and run                 *)
(* VideoJobProcessor.process and VideoDetectionService against PostgreSQL, *)
(* the Storj interface, the ClickHouse buffers and the runtime key.        *)
(*                                                                         *)
(* A worker is a process; each action is what it does between two awaits   *)
(* whose outcome another process, or a failure, can separate.  A call      *)
(* inside the try of process() that raises sends the worker to the except  *)
(* path; anything that raises elsewhere leaves run_forever, which catches  *)
(* nothing, so it is the same step as a crash.                             *)
(***************************************************************************)
EXTENDS VideoDetectApi

CONSTANTS
    Workers,      \* worker processes
    MaxAttempts,  \* queue_max_attempts
    MaxCrashes    \* bound: worker crashes

ASSUME WorkersAssumption == MaxAttempts \in Nat \ {0} /\ MaxCrashes \in Nat

VARIABLES
    pc,         \* where the worker is in _handle_message and below
    msg,        \* the message it handles, 0 when it waits for one
    snap,       \* the job hash update_status has read and will write back
    tries,      \* processing_job.attempts
    need,       \* result.move_required, and so whether there is an action row
    again,      \* failure.retryable
    pgJob,      \* nsfw_video_jobs.status
    pgResult,   \* nsfw_video_results: no row, move not required, moved
    moved,      \* videos the Storj interface has moved to the NSFW bucket
    published,  \* what has been pushed or written after the commit
    crashes

workerVars == <<pc, msg, snap, tries, need, again>>
localVars == <<msg, snap, tries, need>>
pgVars == <<pgJob, pgResult>>
sideVars == <<pgJob, pgResult, moved, published>>
vars == <<storeVars, faults, apiVars, workerVars, sideVars, crashes>>

PcValues ==
    {"idle", "load", "current", "persisted", "skipRead", "skipWrite",
     "procRead", "procWrite", "mark", "analyse", "move", "commit",
     "pushVideo", "pushLegacy", "pushAction", "writeRuntime",
     "doneRead", "doneWrite", "failRead", "failWrite", "markFailed",
     "requeue", "dlq", "ack"}

\* Awaits inside the try of VideoJobProcessor.process.
TryPcs == {"mark", "analyse", "move", "commit", "pushVideo", "pushLegacy",
           "pushAction", "writeRuntime", "doneRead", "doneWrite"}

Outputs == {"video", "legacy", "action", "runtime"}

WorkerTypeOK ==
    /\ pc \in [Workers -> PcValues]
    /\ msg \in [Workers -> 0..delivered]
    /\ \A w \in Workers : pc[w] # "idle" => msg[w] \in DOMAIN stream
    /\ snap \in [Workers -> JobHash]
    /\ tries \in [Workers -> Nat]
    /\ need \in [Workers -> BOOLEAN]
    /\ again \in [Workers -> BOOLEAN]

SideTypeOK ==
    /\ pgJob \in [Jobs -> Statuses \cup {"none"}]
    /\ pgResult \in [Jobs -> {"none", "stay", "move"}]
    /\ moved \subseteq Videos
    /\ published \in [Jobs -> SUBSET Outputs]
    /\ crashes \in 0..MaxCrashes

TypeOK == ApiTypeOK /\ WorkerTypeOK /\ SideTypeOK

Init ==
    /\ ApiInit
    /\ pc = [w \in Workers |-> "idle"]
    /\ msg = [w \in Workers |-> 0]
    /\ snap = [w \in Workers |-> NoHash]
    /\ tries = [w \in Workers |-> 0]
    /\ need = [w \in Workers |-> FALSE]
    /\ again = [w \in Workers |-> FALSE]
    /\ pgJob = [j \in Jobs |-> "none"]
    /\ pgResult = [j \in Jobs |-> "none"]
    /\ moved = {}
    /\ published = [j \in Jobs |-> {}]
    /\ crashes = 0

-----------------------------------------------------------------------------
(* How a worker moves on.                                                  *)

Job(w) == stream[msg[w]]

At(w, label) == pc[w] = label
Jump(w, label) == pc' = [pc EXCEPT ![w] = label]

\* Mutant of Except: one attempt too many.
ExceptAtLimit(w, retryable) ==
    /\ Jump(w, "failRead")
    /\ again' = [again EXCEPT ![w] = retryable /\ tries[w] <= MaxAttempts]

\* The except branch: classify_processing_error.
Except(w, retryable) ==
    /\ Jump(w, "failRead")
    /\ again' = [again EXCEPT ![w] = retryable /\ tries[w] < MaxAttempts]

\* A call inside the try takes effect, and either its reply comes back or it
\* is lost on the way and the client library raises.
Proceed(w, label) ==
    \/ Jump(w, label) /\ UNCHANGED <<again, faults>>
    \/ Except(w, TRUE) /\ Fault

\* Back to run_once's XREADGROUP, with nothing of the last message left.
Release(w) ==
    /\ Jump(w, "idle")
    /\ msg' = [msg EXCEPT ![w] = 0]
    /\ snap' = [snap EXCEPT ![w] = NoHash]
    /\ tries' = [tries EXCEPT ![w] = 0]
    /\ need' = [need EXCEPT ![w] = FALSE]
    /\ again' = [again EXCEPT ![w] = FALSE]

-----------------------------------------------------------------------------
(* Taking a message: run_once and the head of _handle_message.             *)

ReadMessage(w) ==
    /\ At(w, "idle")
    /\ XReadGroup(delivered + 1)
    /\ msg' = [msg EXCEPT ![w] = delivered + 1]
    /\ Jump(w, "load")
    /\ UNCHANGED <<kv, indexVars, stream, dlq, faults, apiVars,
                   snap, tries, need, again, sideVars, crashes>>

\* get_status_by_job_id; a message without a job goes to the DLQ.  So does a
\* message without the job_id field, which no writer of the stream ever adds.
LoadJob(w) ==
    /\ At(w, "load")
    /\ Jump(w, IF Exists(Job(w)) THEN "current" ELSE "dlq")
    /\ UNCHANGED <<storeVars, faults, apiVars, localVars, again, sideVars, crashes>>

\* Mutant of GetCurrent: a job that was started is left to whoever started it.
GetCurrentSkipsStarted(w) ==
    /\ At(w, "current")
    /\ Jump(w, IF kv[Job(w)].status # "QUEUED" THEN "ack" ELSE "persisted")
    /\ UNCHANGED <<storeVars, faults, apiVars, localVars, again, sideVars, crashes>>

\* process() reads the job again and returns when it is already finished.
GetCurrent(w) ==
    /\ At(w, "current")
    /\ Jump(w, IF kv[Job(w)].status \in Terminal THEN "ack" ELSE "persisted")
    /\ UNCHANGED <<storeVars, faults, apiVars, localVars, again, sideVars, crashes>>

\* Mutant of GetPersisted: any row counts as the work being done.
GetPersistedAnyRow(w) ==
    /\ At(w, "persisted")
    /\ Jump(w, IF pgJob[Job(w)] # "none" THEN "skipRead" ELSE "procRead")
    /\ UNCHANGED <<storeVars, faults, apiVars, localVars, again, sideVars, crashes>>

\* A job PostgreSQL holds as classified is only marked so in the queue.
GetPersisted(w) ==
    /\ At(w, "persisted")
    /\ Jump(w, IF pgJob[Job(w)] = "CLASSIFIED" THEN "skipRead" ELSE "procRead")
    /\ UNCHANGED <<storeVars, faults, apiVars, localVars, again, sideVars, crashes>>

-----------------------------------------------------------------------------
(* update_status: read the hash, then write the whole of it back.          *)

AfterRead == [skipRead |-> "skipWrite", procRead |-> "procWrite",
              doneRead |-> "doneWrite", failRead |-> "failWrite"]

\* Mutant of ReadForUpdate: the hash read first is kept for every update.
ReadForUpdateOnce(w) ==
    /\ pc[w] \in DOMAIN AfterRead
    /\ snap' = [snap EXCEPT ![w] = IF @ = NoHash THEN kv[Job(w)] ELSE @]
    /\ Jump(w, AfterRead[pc[w]])
    /\ UNCHANGED <<storeVars, faults, apiVars, msg, tries, need, again,
                   sideVars, crashes>>

ReadForUpdate(w) ==
    /\ pc[w] \in DOMAIN AfterRead
    /\ snap' = [snap EXCEPT ![w] = kv[Job(w)]]
    /\ Jump(w, AfterRead[pc[w]])
    /\ UNCHANGED <<storeVars, faults, apiVars, msg, tries, need, again,
                   sideVars, crashes>>

WriteSkipped(w) ==
    /\ At(w, "skipWrite")
    /\ HSet(Job(w), "CLASSIFIED", snap[w].attempts)
    /\ Jump(w, "ack")
    /\ UNCHANGED <<indexVars, stream, groupVars, dlq, faults, apiVars,
                   localVars, again, sideVars, crashes>>

WriteProcessing(w) ==
    /\ At(w, "procWrite")
    /\ HSet(Job(w), "PROCESSING", snap[w].attempts + 1)
    /\ tries' = [tries EXCEPT ![w] = snap[w].attempts + 1]
    /\ Jump(w, "mark")
    /\ UNCHANGED <<indexVars, stream, groupVars, dlq, faults, apiVars,
                   msg, snap, need, again, sideVars, crashes>>

WriteClassified(w) ==
    /\ At(w, "doneWrite")
    /\ HSet(Job(w), "CLASSIFIED", snap[w].attempts)
    /\ Proceed(w, "ack")
    /\ UNCHANGED <<indexVars, stream, groupVars, dlq, apiVars,
                   localVars, sideVars, crashes>>

\* Mutant of WriteFailed: the status ignores that retries have run out.
WriteFailedRetryable(w) ==
    /\ At(w, "failWrite")
    /\ HSet(Job(w), "FAILED_RETRYABLE", snap[w].attempts)
    /\ Jump(w, "markFailed")
    /\ UNCHANGED <<indexVars, stream, groupVars, dlq, faults, apiVars,
                   localVars, again, sideVars, crashes>>

WriteFailed(w) ==
    /\ At(w, "failWrite")
    /\ HSet(Job(w), IF again[w] THEN "FAILED_RETRYABLE" ELSE "FAILED_TERMINAL",
            snap[w].attempts)
    /\ Jump(w, "markFailed")
    /\ UNCHANGED <<indexVars, stream, groupVars, dlq, faults, apiVars,
                   localVars, again, sideVars, crashes>>

-----------------------------------------------------------------------------
(* The try of process(), _process_video and finalize_classification.       *)

\* Mutant of MarkProcessing: rows are unique by job id only.
MarkProcessingByJob(w) ==
    /\ At(w, "mark")
    /\ pgJob' = [pgJob EXCEPT ![Job(w)] = "PROCESSING"]
    /\ Proceed(w, "analyse")
    /\ UNCHANGED <<storeVars, apiVars, localVars, pgResult, moved, published, crashes>>

\* Rows are unique by job id and by (video, version, policy).
KeyTaken(j) == \E i \in Jobs : KeyOf[i] = KeyOf[j] /\ pgJob[i] # "none"

\* PostgresVideoJobStateRepository.mark_processing, one transaction: insert
\* unless a unique key is taken, then update.
MarkProcessing(w) ==
    /\ At(w, "mark")
    /\ LET j == Job(w)
       IN pgJob' = IF KeyTaken(j) /\ pgJob[j] = "none" THEN pgJob
                   ELSE [pgJob EXCEPT ![j] = "PROCESSING"]
    /\ Proceed(w, "analyse")
    /\ UNCHANGED <<storeVars, apiVars, localVars, pgResult, moved, published, crashes>>

\* Mutant of Analyse: the result is committed first and moved some time later.
AnalyseCommitsFirst(w) ==
    /\ At(w, "analyse")
    /\ \E required \in BOOLEAN : need' = [need EXCEPT ![w] = required]
    /\ Jump(w, "commit")
    /\ UNCHANGED <<storeVars, faults, apiVars, msg, snap, tries, again,
                   sideVars, crashes>>

\* Download, probe, extract frames, moderate them and aggregate: a verdict.
\* Two runs over one video may differ, the model is not deterministic.
Analyse(w) ==
    /\ At(w, "analyse")
    /\ \E required \in BOOLEAN :
           /\ need' = [need EXCEPT ![w] = required]
           /\ Jump(w, IF required THEN "move" ELSE "commit")
    /\ UNCHANGED <<storeVars, faults, apiVars, msg, snap, tries, again,
                   sideVars, crashes>>

\* The video is empty, too large, has no stream or cannot be probed.
AnalyseRejects(w) ==
    /\ At(w, "analyse")
    /\ Except(w, FALSE)
    /\ Fault
    /\ UNCHANGED <<storeVars, apiVars, localVars, sideVars, crashes>>

\* POST /move-to-nsfw.
Move(w) ==
    /\ At(w, "move")
    /\ moved' = moved \cup {VideoOf[Job(w)]}
    /\ Proceed(w, "commit")
    /\ UNCHANGED <<storeVars, apiVars, localVars, pgVars, published, crashes>>

\* Storj refuses with a 4xx that is not worth a retry.
MoveRefused(w) ==
    /\ At(w, "move")
    /\ Except(w, FALSE)
    /\ Fault
    /\ UNCHANGED <<storeVars, apiVars, localVars, sideVars, crashes>>

\* Mutant of Committable: the result row is upserted.
CommittableUpsert(j) == pgJob[j] # "none"

\* What the foreign keys of the frame, result and action rows need.
HasJobRow(j) == pgJob[j] # "none"

\* Frame rows are named after job and index, result rows after the job: those
\* of an earlier attempt collide with the ones a later attempt inserts.
NoRows(j) == pgResult[j] = "none"

\* What the schema accepts.
Committable(j) == HasJobRow(j) /\ NoRows(j)

\* The unit of work: frames, result, storage action and job in one commit.
Commit(w) ==
    /\ At(w, "commit")
    /\ Committable(Job(w))
    /\ pgResult' = [pgResult EXCEPT ![Job(w)] = IF need[w] THEN "move" ELSE "stay"]
    /\ pgJob' = [pgJob EXCEPT ![Job(w)] = "CLASSIFIED"]
    /\ Proceed(w, "pushVideo")
    /\ UNCHANGED <<storeVars, apiVars, localVars, moved, published, crashes>>

\* Mutant of CommitConflicts: the conflict is taken for an earlier success.
CommitConflictsIgnored(w) ==
    /\ At(w, "commit")
    /\ ~Committable(Job(w))
    /\ Jump(w, "pushVideo")
    /\ UNCHANGED <<storeVars, faults, apiVars, localVars, again, sideVars, crashes>>

\* IntegrityError, rolled back; _is_retryable holds for it.
CommitConflicts(w) ==
    /\ At(w, "commit")
    /\ ~Committable(Job(w))
    /\ Except(w, TRUE)
    /\ UNCHANGED <<storeVars, faults, apiVars, localVars, sideVars, crashes>>

\* _publish_after_commit: one RPUSH, or the SET of the runtime key.
Publish(w, here, output, label) ==
    /\ At(w, here)
    /\ published' = [published EXCEPT ![Job(w)] = @ \cup {output}]
    /\ Proceed(w, label)
    /\ UNCHANGED <<storeVars, apiVars, localVars, pgVars, moved, crashes>>

\* Mutant of PublishLegacy: the storage action is forgotten.
PublishLegacyOnly(w) == Publish(w, "pushLegacy", "legacy", "writeRuntime")

PublishVideo(w) == Publish(w, "pushVideo", "video", "pushLegacy")
PublishLegacy(w) ==
    Publish(w, "pushLegacy", "legacy",
            IF need[w] THEN "pushAction" ELSE "writeRuntime")
PublishAction(w) == Publish(w, "pushAction", "action", "writeRuntime")
WriteRuntime(w) == Publish(w, "writeRuntime", "runtime", "doneRead")

\* Any call of the try raises before it has an effect.
CallRaises(w) ==
    /\ pc[w] \in TryPcs
    /\ Except(w, TRUE)
    /\ Fault
    /\ UNCHANGED <<storeVars, apiVars, localVars, sideVars, crashes>>

-----------------------------------------------------------------------------
(* The except path of process() and of _handle_message.                    *)

\* Mutants of MarkFailed: a classified row is left alone; the row always says
\* the job will be retried; a failed job without a row gets no dead letter.
MarkFailedUnlessClassified(w) ==
    /\ At(w, "markFailed")
    /\ pgJob' = [pgJob EXCEPT ![Job(w)] =
          IF @ \in {"none", "CLASSIFIED"} THEN @
          ELSE IF again[w] THEN "FAILED_RETRYABLE" ELSE "FAILED_TERMINAL"]
    /\ Jump(w, IF again[w] THEN "requeue" ELSE "dlq")
    /\ UNCHANGED <<storeVars, faults, apiVars, localVars, again,
                   pgResult, moved, published, crashes>>

MarkFailedRetryable(w) ==
    /\ At(w, "markFailed")
    /\ pgJob' = [pgJob EXCEPT ![Job(w)] =
          IF @ = "none" THEN @ ELSE "FAILED_RETRYABLE"]
    /\ Jump(w, IF again[w] THEN "requeue" ELSE "dlq")
    /\ UNCHANGED <<storeVars, faults, apiVars, localVars, again,
                   pgResult, moved, published, crashes>>

MarkFailedNeedsRow(w) ==
    /\ At(w, "markFailed")
    /\ pgJob' = [pgJob EXCEPT ![Job(w)] =
          IF @ = "none" THEN @
          ELSE IF again[w] THEN "FAILED_RETRYABLE" ELSE "FAILED_TERMINAL"]
    /\ Jump(w, IF again[w] THEN "requeue"
               ELSE IF pgJob[Job(w)] = "none" THEN "ack" ELSE "dlq")
    /\ UNCHANGED <<storeVars, faults, apiVars, localVars, again,
                   pgResult, moved, published, crashes>>

\* Overwrites the status of the row, if there is one, whatever it is.
MarkFailed(w) ==
    /\ At(w, "markFailed")
    /\ pgJob' = [pgJob EXCEPT ![Job(w)] =
          IF @ = "none" THEN @
          ELSE IF again[w] THEN "FAILED_RETRYABLE" ELSE "FAILED_TERMINAL"]
    /\ Jump(w, IF again[w] THEN "requeue" ELSE "dlq")
    /\ UNCHANGED <<storeVars, faults, apiVars, localVars, again,
                   pgResult, moved, published, crashes>>

\* Mutant of Requeue: the old message is acknowledged and none is added.
RequeueNothing(w) ==
    /\ At(w, "requeue")
    /\ Jump(w, "ack")
    /\ UNCHANGED <<storeVars, faults, apiVars, localVars, again, sideVars, crashes>>

\* requeue_video_job adds a new message and leaves the old one to the XACK.
Requeue(w) ==
    /\ At(w, "requeue")
    /\ IF Exists(Job(w)) THEN XAdd(Job(w)) ELSE UNCHANGED stream
    /\ Jump(w, "ack")
    /\ UNCHANGED <<kv, indexVars, groupVars, dlq, faults, apiVars,
                   localVars, again, sideVars, crashes>>

\* move_video_job_message_to_dlq: XADD to the DLQ stream, then XACK.
MoveToDlq(w) ==
    /\ At(w, "dlq")
    /\ dlq' = dlq \cup {msg[w]}
    /\ Jump(w, "ack")
    /\ UNCHANGED <<kv, indexVars, stream, groupVars, faults, apiVars,
                   localVars, again, sideVars, crashes>>

Ack(w) ==
    /\ At(w, "ack")
    /\ XAck(msg[w])
    /\ Release(w)
    /\ UNCHANGED <<kv, indexVars, stream, delivered, dlq, faults, apiVars,
                   sideVars, crashes>>

\* The process dies, or a call outside the try raises and ends it; the
\* restarted one reads ">" and never sees this message again.
Crash(w) ==
    /\ pc[w] # "idle"
    /\ crashes < MaxCrashes
    /\ crashes' = crashes + 1
    /\ Release(w)
    /\ UNCHANGED <<storeVars, faults, apiVars, sideVars>>

-----------------------------------------------------------------------------

\* What the worker does when nothing goes wrong around it.
WorkerStep(w) ==
    \/ ReadMessage(w)
    \/ LoadJob(w)
    \/ GetCurrent(w)
    \/ GetPersisted(w)
    \/ ReadForUpdate(w)
    \/ WriteSkipped(w)
    \/ WriteProcessing(w)
    \/ WriteClassified(w)
    \/ WriteFailed(w)
    \/ MarkProcessing(w)
    \/ Analyse(w)
    \/ Move(w)
    \/ Commit(w)
    \/ CommitConflicts(w)
    \/ PublishVideo(w)
    \/ PublishLegacy(w)
    \/ PublishAction(w)
    \/ WriteRuntime(w)
    \/ MarkFailed(w)
    \/ Requeue(w)
    \/ MoveToDlq(w)
    \/ Ack(w)

Api ==
    /\ ApiNext
    /\ UNCHANGED <<workerVars, sideVars, crashes>>

WorkerNext(w) ==
    \/ WorkerStep(w)
    \/ AnalyseRejects(w)
    \/ MoveRefused(w)
    \/ CallRaises(w)
    \/ Crash(w)

Next == Api \/ \E w \in Workers : WorkerNext(w)

Spec == Init /\ [][Next]_vars

\* A running worker and an accepted request keep going; nobody is obliged to
\* send a request, and nothing obliges a call to fail.
StartedRequestStep(r) ==
    /\ apiPc[r] # "start"
    /\ RequestStep(r)
    /\ UNCHANGED <<workerVars, sideVars, crashes>>

FairSpec ==
    /\ Spec
    /\ \A w \in Workers : WF_vars(WorkerStep(w))
    /\ \A r \in Requests : WF_vars(StartedRequestStep(r))

-----------------------------------------------------------------------------
(* Safety, for any number of requests, workers, failures and crashes.      *)

(***************************************************************************)
(* Nothing of a job is pushed to a ClickHouse buffer or written to the     *)
(* runtime key unless its result is committed, and a storage-action row is *)
(* pushed only beside a result that required the move                      *)
(* (_publish_after_commit).                                                *)
(***************************************************************************)
PublishedImpliesCommitted ==
    \A j \in Jobs :
        /\ published[j] # {} => pgResult[j] # "none"
        /\ "action" \in published[j] => pgResult[j] = "move"

(***************************************************************************)
(* A committed result that calls for the NSFW bucket is of a video already *)
(* moved there, whichever of several workers moved it                      *)
(* (_move_before_final_commit).                                            *)
(***************************************************************************)
MovedBeforeCommitted ==
    \A j \in Jobs : pgResult[j] = "move" => VideoOf[j] \in moved

(***************************************************************************)
(* Neither the queue nor PostgreSQL ever calls a job classified without a  *)
(* result row: no failed or unclassified video passes for a classified one.*)
(***************************************************************************)
ClassifiedHasResult ==
    \A j \in Jobs :
        kv[j].status = "CLASSIFIED" \/ pgJob[j] = "CLASSIFIED"
            => pgResult[j] # "none"

(***************************************************************************)
(* A (video, version, policy) gets at most one result, also when racing    *)
(* requests put two jobs for it in the queue: the unique constraint leaves *)
(* the second job without the row its result would refer to.               *)
(***************************************************************************)
OneResultPerKey ==
    \A i, j \in Jobs :
        KeyOf[i] = KeyOf[j] /\ pgResult[i] # "none" /\ pgResult[j] # "none"
            => i = j

(***************************************************************************)
(* A committed result is never replaced, though retries and duplicate      *)
(* messages make workers reach another verdict for the same job.           *)
(***************************************************************************)
ResultIsFinal ==
    [][\A j \in Jobs : pgResult[j] # "none" => pgResult'[j] = pgResult[j]]_vars

(***************************************************************************)
(* With the pipelined enqueue, a job that is not finished always has a     *)
(* message the group has not acknowledged: no order of update_status,      *)
(* requeue and XACK by several workers drops a job.                        *)
(***************************************************************************)
NoJobDropped ==
    \A j \in Jobs :
        Exists(j) /\ kv[j].status \notin Terminal => Unacked(j) # {}

(***************************************************************************)
(* Whatever workers race, fail, retry and crash, what the other stores see *)
(* of the pipeline is Finalization: a key decided once, a move before the  *)
(* verdict that needs it, and outputs in the order of                      *)
(* _publish_after_commit, the runtime key after everything else.           *)
(***************************************************************************)
F == INSTANCE Finalization WITH result <- pgResult

Finalizes == F!Spec

-----------------------------------------------------------------------------
(* Properties that need each job to have been enqueued once.               *)

(***************************************************************************)
(* A job is attempted at most queue_max_attempts times: update_status      *)
(* counts an attempt and classify_processing_error stops at the limit.     *)
(***************************************************************************)
AttemptsBounded == \A j \in Jobs : kv[j].attempts <= MaxAttempts

(***************************************************************************)
(* What a committed result has to be followed by.                          *)
(***************************************************************************)
Owed(j) ==
    {"video", "legacy", "runtime"}
        \cup (IF pgResult[j] = "move" THEN {"action"} ELSE {})

(***************************************************************************)
(* A job the queue calls classified has been published in full: the status *)
(* is written after the last push, whatever failed and was retried before. *)
(***************************************************************************)
ClassifiedIsPublished ==
    \A j \in Jobs : kv[j].status = "CLASSIFIED" => published[j] = Owed(j)

(***************************************************************************)
(* When no message of a job is left, the queue and PostgreSQL agree on how *)
(* it ended, unless it never got a row.                                    *)
(***************************************************************************)
StoresAgree ==
    \A j \in Jobs :
        Exists(j) /\ Unacked(j) = {} => pgJob[j] \in {"none", kv[j].status}

(***************************************************************************)
(* The dead-letter stream holds terminal failures and nothing else.        *)
(***************************************************************************)
DeadLettersFailed ==
    \A m \in dlq : kv[stream[m]].status = "FAILED_TERMINAL"

(***************************************************************************)
(* The hash of a job goes through its life cycle and never back: queued    *)
(* once, started only from QUEUED or for a retry, with an attempt counted  *)
(* each time, ended only after a start, and left alone once it has failed  *)
(* for good.  That update_status writes the whole hash back some time      *)
(* after reading it, and that another worker takes the retry while the     *)
(* first one is still acknowledging, loses no update.  Only a job          *)
(* called classified by a write whose reply was lost can still be failed.  *)
(***************************************************************************)
StatusMovesForward ==
    [][\A j \in Jobs :
           \/ kv'[j] = kv[j]
           \/ ~Exists(j) /\ kv'[j] = [status |-> "QUEUED", attempts |-> 0]
           \/ /\ kv[j].status \in {"QUEUED", "FAILED_RETRYABLE"}
              /\ kv'[j] = [status |-> "PROCESSING", attempts |-> kv[j].attempts + 1]
           \/ /\ kv[j].status \in {"PROCESSING", "CLASSIFIED"}
              /\ kv'[j].status \in Terminal \cup {"FAILED_RETRYABLE"}
              /\ kv'[j].attempts = kv[j].attempts]_vars

(***************************************************************************)
(* Unless a worker dies, every job in the queue is finished in the end and *)
(* its messages acknowledged: retries run out, nothing is requeued for     *)
(* ever, and no worker waits for another one.                              *)
(***************************************************************************)
EveryJobSettles ==
    \A j \in Jobs :
        Exists(j) ~> \/ kv[j].status \in Terminal /\ Unacked(j) = {}
                     \/ crashes > 0

(***************************************************************************)
(* Unless a worker dies, a terminal failure reaches the dead-letter stream.*)
(***************************************************************************)
FailureIsDeadLettered ==
    \A j \in Jobs :
        kv[j].status = "FAILED_TERMINAL"
            ~> (\E m \in dlq : stream[m] = j) \/ crashes > 0

-----------------------------------------------------------------------------
(* What plan.md says of the worker.                                        *)

(***************************************************************************)
(* A side effect that fails after the commit is retried, so a committed    *)
(* result reaches the runtime key.                                         *)
(***************************************************************************)
CommittedIsPublished ==
    \A j \in Jobs : pgResult[j] # "none" ~> "runtime" \in published[j]

(***************************************************************************)
(* Failed processing is retried by the queue and its workers, so a job in  *)
(* the queue is classified or fails for good.                              *)
(***************************************************************************)
EveryJobEnds ==
    \A j \in Jobs : Exists(j) ~> kv[j].status \in Terminal
=============================================================================
