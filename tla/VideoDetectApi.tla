--------------------------- MODULE VideoDetectApi ---------------------------
(***************************************************************************)
(* POST /v1/videos/detect: detect_video calls enqueue_video_job and        *)
(* answers 202 when it returns, 503 when Redis raises.  A request is a     *)
(* process; every await of enqueue_video_job is a step, so requests        *)
(* interleave with each other and, in VideoPipeline, with the workers.     *)
(***************************************************************************)
EXTENDS QueueStore

CONSTANTS
    Requests,  \* calls of the endpoint
    JobOf      \* the job id a call submits

ASSUME RequestsAssumption == JobOf \in [Requests -> Jobs]

VARIABLES
    apiPc,  \* where the request is
    target  \* the job it is about: its own, or the one found under its key

apiVars == <<apiPc, target>>

ApiPcs == {"start", "unique", "duplicate", "index", "write", "writeUnique",
           "writeVideo", "append", "accepted", "failed"}

ApiTypeOK ==
    /\ StoreTypeOK
    /\ apiPc \in [Requests -> ApiPcs]
    /\ target \in [Requests -> Jobs]

ApiInit ==
    /\ StoreInit
    /\ apiPc = [r \in Requests |-> "start"]
    /\ target = JobOf

Goto(r, label) == apiPc' = [apiPc EXCEPT ![r] = label]

-----------------------------------------------------------------------------

\* HGETALL of the job's own hash: a known job is not enqueued again.
LookupJob(r) ==
    /\ apiPc[r] = "start"
    /\ Goto(r, IF Exists(JobOf[r]) THEN "index" ELSE "unique")
    /\ UNCHANGED <<storeVars, faults, target>>

\* Mutant of LookupUnique: an absent key is not told from a job id.
LookupUniqueUnchecked(r) ==
    /\ apiPc[r] = "unique"
    /\ LET found == uniqueIdx[KeyOf[JobOf[r]]]
       IN /\ Goto(r, IF found = NoJob THEN "write" ELSE "duplicate")
          /\ target' = [target EXCEPT ![r] = found]
    /\ UNCHANGED <<storeVars, faults>>

\* GET of the unique index: another job may own this video and policy.
LookupUnique(r) ==
    /\ apiPc[r] = "unique"
    /\ LET found == uniqueIdx[KeyOf[JobOf[r]]]
       IN IF found = NoJob
          THEN Goto(r, "write") /\ UNCHANGED target
          ELSE Goto(r, "duplicate") /\ target' = [target EXCEPT ![r] = found]
    /\ UNCHANGED <<storeVars, faults>>

\* HGETALL of the job the index names; a dangling index is overwritten.
LookupDuplicate(r) ==
    /\ apiPc[r] = "duplicate"
    /\ IF Exists(target[r])
       THEN Goto(r, "index") /\ UNCHANGED target
       ELSE Goto(r, "write") /\ target' = [target EXCEPT ![r] = JobOf[r]]
    /\ UNCHANGED <<storeVars, faults>>

\* The last command either answers 202, or is done but its reply is lost.
Reply(r) ==
    \/ Goto(r, "accepted") /\ UNCHANGED faults
    \/ Goto(r, "failed") /\ Fault

\* Mutant of RepairVideoIndex: a known job is answered without the SET NX.
AnswerWithoutRepair(r) ==
    /\ apiPc[r] = "index"
    /\ Goto(r, "accepted")
    /\ UNCHANGED <<storeVars, faults, target>>

\* SET NX of the video index for the job found; enqueued=False, still 202.
RepairVideoIndex(r) ==
    /\ apiPc[r] = "index"
    /\ SetVideoNX(target[r])
    /\ Reply(r)
    /\ UNCHANGED <<kv, uniqueIdx, stream, groupVars, dlq, target>>

\* Mutants of WriteAll: the video index is left to the repair; deduplication
\* by the unique index alone, so that the loser of a race writes its hash and
\* no message.
WriteAllNoVideo(r) ==
    /\ apiPc[r] = "write"
    /\ HSet(target[r], "QUEUED", 0)
    /\ SetUnique(target[r])
    /\ UNCHANGED videoIdx
    /\ XAdd(target[r])
    /\ Reply(r)
    /\ UNCHANGED <<groupVars, dlq, target>>

WriteAllUnlessIndexed(r) ==
    /\ apiPc[r] = "write"
    /\ HSet(target[r], "QUEUED", 0)
    /\ SetUnique(target[r])
    /\ SetVideo(target[r])
    /\ IF uniqueIdx[KeyOf[target[r]]] = NoJob
       THEN XAdd(target[r]) ELSE UNCHANGED stream
    /\ Reply(r)
    /\ UNCHANGED <<groupVars, dlq, target>>

\* Single-node client: the four writes in one MULTI/EXEC.
WriteAll(r) ==
    /\ apiPc[r] = "write"
    /\ HSet(target[r], "QUEUED", 0)
    /\ SetUnique(target[r])
    /\ SetVideo(target[r])
    /\ XAdd(target[r])
    /\ Reply(r)
    /\ UNCHANGED <<groupVars, dlq, target>>

\* Mutant of WriteHash: the unique index is claimed before the hash exists.
ClaimUniqueFirst(r) ==
    /\ apiPc[r] = "write"
    /\ SetUnique(target[r])
    /\ Goto(r, "writeUnique")
    /\ UNCHANGED <<kv, videoIdx, stream, groupVars, dlq, faults, target>>

\* Cluster client: the same writes, each awaited on its own.
WriteHash(r) ==
    /\ apiPc[r] = "write"
    /\ HSet(target[r], "QUEUED", 0)
    /\ Goto(r, "writeUnique")
    /\ UNCHANGED <<indexVars, stream, groupVars, dlq, faults, target>>

\* isinstance(self._redis, RedisCluster): the first write, or all of them.
Write(r) == IF ClusterMode THEN WriteHash(r) ELSE WriteAll(r)

WriteUnique(r) ==
    /\ apiPc[r] = "writeUnique"
    /\ SetUnique(target[r])
    /\ Goto(r, "writeVideo")
    /\ UNCHANGED <<kv, videoIdx, stream, groupVars, dlq, faults, target>>

WriteVideo(r) ==
    /\ apiPc[r] = "writeVideo"
    /\ SetVideo(target[r])
    /\ Goto(r, "append")
    /\ UNCHANGED <<kv, uniqueIdx, stream, groupVars, dlq, faults, target>>

AppendMessage(r) ==
    /\ apiPc[r] = "append"
    /\ XAdd(target[r])
    /\ Reply(r)
    /\ UNCHANGED <<kv, indexVars, groupVars, dlq, target>>

\* The next command raises, or the API process dies between two of them: the
\* client sees an error and what was written stays.
RequestFails(r) ==
    /\ apiPc[r] \notin {"start", "accepted", "failed"}
    /\ Fault
    /\ Goto(r, "failed")
    /\ UNCHANGED <<storeVars, target>>

RequestStep(r) ==
    \/ LookupJob(r)
    \/ LookupUnique(r)
    \/ LookupDuplicate(r)
    \/ RepairVideoIndex(r)
    \/ Write(r)
    \/ WriteUnique(r)
    \/ WriteVideo(r)
    \/ AppendMessage(r)

ApiNext == \E r \in Requests : RequestStep(r) \/ RequestFails(r)

ApiSpec == ApiInit /\ [][ApiNext]_<<storeVars, faults, apiVars>>

-----------------------------------------------------------------------------

(***************************************************************************)
(* A 202 means the job it names is in the durable queue: a message for it  *)
(* is in the stream.  Holds for the pipelined writes, whatever requests    *)
(* race and fail; enqueue_video_job trusts a job hash to imply a message.  *)
(***************************************************************************)
AcceptedIsDurable ==
    \A r \in Requests : apiPc[r] = "accepted" =>
        \E m \in DOMAIN stream : stream[m] = target[r]

(***************************************************************************)
(* After a 202 the status endpoint finds a job for the video, also when an *)
(* earlier request for it stopped halfway: the SET NX of the early returns *)
(* in enqueue_video_job repairs the video index.                           *)
(***************************************************************************)
AcceptedIsVisible ==
    \A r \in Requests : apiPc[r] = "accepted" =>
        LET j == videoIdx[VideoOf[JobOf[r]]]
        IN j # NoJob /\ Exists(j)

(***************************************************************************)
(* The index and the stream never run ahead of the hash: whatever they     *)
(* name exists, under its own key and video.  This is what lets the worker *)
(* treat a missing hash as an error, and it rests on the order of the      *)
(* cluster writes.                                                         *)
(***************************************************************************)
NothingDangles ==
    /\ \A k \in Keys : uniqueIdx[k] # NoJob =>
           Exists(uniqueIdx[k]) /\ KeyOf[uniqueIdx[k]] = k
    /\ \A v \in Videos : videoIdx[v] # NoJob =>
           Exists(videoIdx[v]) /\ VideoOf[videoIdx[v]] = v
    /\ \A m \in DOMAIN stream : Exists(stream[m])

(***************************************************************************)
(* plan.md's queue tests: a repeated request adds no second queue item.    *)
(***************************************************************************)
NoDuplicateItem ==
    \A m, n \in DOMAIN stream : stream[m] = stream[n] => m = n
=============================================================================
