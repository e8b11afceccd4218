----------------------------- MODULE VideoStatus -----------------------------
(***************************************************************************)
(* GET /v1/videos/{video_id}/status beside the pipeline: video_status_     *)
(* service.py reads the video index, then the job hash, then PostgreSQL,   *)
(* and the workers go on between its awaits.  One call of the endpoint; it *)
(* changes nothing, so calls do not disturb each other.                    *)
(*                                                                         *)
(* The API has its PostgreSQL reader (_result_reader is not None), as one  *)
(* that readiness_service.py calls ready has.  Without it ReadHash would   *)
(* answer CLASSIFIED with no result and ReadLatest 404.                    *)
(***************************************************************************)
EXTENDS VideoPipeline

VARIABLES
    askPc,      \* where the call is
    askVideo,   \* the video it asks for
    askedLate,  \* a 202 for the video had been answered when it came in
    shown       \* what it has read: job, status, result

askVars == <<askPc, askVideo, askedLate, shown>>
statusVars == <<vars, askVars>>

Nothing == [job |-> NoJob, status |-> "none", result |-> "none"]

StatusInit ==
    /\ Init
    /\ askPc = "start"
    /\ askVideo \in Videos
    /\ askedLate = FALSE
    /\ shown = Nothing

\* The call comes in.
Ask ==
    /\ askPc = "start"
    /\ askPc' = "index"
    /\ askedLate' = \E r \in Requests :
                        apiPc[r] = "accepted" /\ VideoOf[JobOf[r]] = askVideo
    /\ UNCHANGED <<vars, askVideo, shown>>

\* get_job_by_video_id: GET of the video index.
ReadIndex ==
    /\ askPc = "index"
    /\ shown' = [shown EXCEPT !.job = videoIdx[askVideo]]
    /\ askPc' = IF videoIdx[askVideo] = NoJob THEN "latest" ELSE "hash"
    /\ UNCHANGED <<vars, askVideo, askedLate>>

\* Mutant of ReadHash: the result is read before the status.
ReadHashAfterResult ==
    /\ askPc = "hash"
    /\ IF shown.status = "none"
       THEN /\ shown' = [shown EXCEPT !.result = pgResult[shown.job], !.status = "QUEUED"]
            /\ UNCHANGED askPc
       ELSE /\ shown' = [shown EXCEPT !.status = kv[shown.job].status]
            /\ askPc' = "answered"
    /\ UNCHANGED <<vars, askVideo, askedLate>>

\* HGETALL of the job the index names; there is a reader to ask next.
ReadHash ==
    /\ askPc = "hash"
    /\ shown' = [shown EXCEPT !.status = kv[shown.job].status]
    /\ askPc' = IF ~Exists(shown.job) THEN "latest"
                ELSE IF kv[shown.job].status = "CLASSIFIED" THEN "result"
                ELSE "answered"
    /\ UNCHANGED <<vars, askVideo, askedLate>>

\* result_reader.get_by_job_id
ReadResult ==
    /\ askPc = "result"
    /\ shown' = [shown EXCEPT !.result = pgResult[shown.job]]
    /\ askPc' = "answered"
    /\ UNCHANGED <<vars, askVideo, askedLate>>

\* _classified_status_from_result: without a job in the queue the newest
\* result of the video answers, and without a result (the reader being
\* there) 404 does.
ReadLatest ==
    LET results == {j \in Jobs : VideoOf[j] = askVideo /\ pgResult[j] # "none"}
    IN /\ askPc = "latest"
       /\ IF results = {}
          THEN askPc' = "notFound" /\ UNCHANGED shown
          ELSE \E j \in results :
                   /\ shown' = [job |-> j, status |-> "CLASSIFIED", result |-> pgResult[j]]
                   /\ askPc' = "answered"
       /\ UNCHANGED <<vars, askVideo, askedLate>>

\* A read raises: 503 from Redis (after the pool retries), 500 from PostgreSQL.
AskFails ==
    /\ askPc \in {"index", "hash", "result", "latest"}
    /\ Fault
    /\ askPc' = "failed"
    /\ UNCHANGED <<storeVars, apiVars, workerVars, sideVars, crashes,
                   askVideo, askedLate, shown>>

StatusStep == Ask \/ ReadIndex \/ ReadHash \/ ReadResult \/ ReadLatest \/ AskFails

StatusNext ==
    \/ Next /\ UNCHANGED askVars
    \/ StatusStep

StatusSpec == StatusInit /\ [][StatusNext]_statusVars

\* The workers' and requests' fairness; nobody is obliged to ask.
StatusFairSpec ==
    /\ StatusSpec
    /\ \A w \in Workers : WF_vars(WorkerStep(w) /\ UNCHANGED askVars)
    /\ \A r \in Requests : WF_vars(StartedRequestStep(r) /\ UNCHANGED askVars)

-----------------------------------------------------------------------------
(* Properties.                                                             *)

(***************************************************************************)
(* An answer that says classified carries the committed result, although   *)
(* the status and the result are read from two stores while workers write  *)
(* them: the status is never ahead of the result (get_status_by_video_id). *)
(***************************************************************************)
ClassifiedShowsResult ==
    askPc = "answered" /\ shown.status = "CLASSIFIED" =>
        shown.result # "none" /\ shown.result = pgResult[shown.job]

(***************************************************************************)
(* A video for which a 202 had been answered when the call came in is      *)
(* never answered 404, whatever the job has been through since.            *)
(***************************************************************************)
AcceptedIsFound == askedLate => askPc # "notFound"
=============================================================================
