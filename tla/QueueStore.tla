----------------------------- MODULE QueueStore -----------------------------
(***************************************************************************)
(* The KVRocks side of the video queue, as RedisVideoQueueRepository       *)
(* (app/repositories/kvrocks/queue_repository.py) leaves it: one hash per  *)
(* job, an index from the (video, object version, policy) key to a job, an *)
(* index from a video to a job, the work stream with its one consumer      *)
(* group, and the dead-letter stream.                                      *)
(*                                                                         *)
(* Each operator is one Redis command, which is atomic.  A method of the   *)
(* repository that awaits several commands is several actions of the       *)
(* modules that use this one, so other processes may run between them.     *)
(* The work stream is never trimmed: it is kept whole and a message is     *)
(* named by its position.                                                  *)
(***************************************************************************)
EXTENDS Naturals, Sequences, FiniteSets

CONSTANTS
    Jobs,         \* job ids clients submit
    Keys,         \* (video_id, source_object_version, policy_version) triples
    Videos,       \* video ids
    KeyOf,        \* the triple a job id is submitted with
    VideoOf,      \* the video a job id is submitted with
    NoJob,        \* what GET returns for an absent index key
    ClusterMode,  \* kvrocks_cluster_enabled: the client is a RedisCluster
    MaxMessages,  \* bound: messages ever added to the work stream
    MaxFaults     \* bound: calls that raise (lost connection, timeout, 5xx)

ASSUME JobsAssumption ==
    /\ KeyOf \in [Jobs -> Keys]
    /\ VideoOf \in [Jobs -> Videos]
    /\ \A i, j \in Jobs : KeyOf[i] = KeyOf[j] => VideoOf[i] = VideoOf[j]
    /\ NoJob \notin Jobs
ASSUME ModeAssumption == ClusterMode \in BOOLEAN
ASSUME BoundsAssumption == MaxMessages \in Nat /\ MaxFaults \in Nat

VARIABLES
    kv,         \* nsfw:video_job:<job>, the status and attempts fields
    uniqueIdx,  \* nsfw:video_job_unique:<key>
    videoIdx,   \* nsfw:video_job_by_video_id:<video>
    stream,     \* the work stream: the job each message names
    delivered,  \* last-delivered id of the consumer group
    pel,        \* messages delivered and not acknowledged
    dlq,        \* messages copied to the dead-letter stream
    faults      \* calls that have raised so far

storeVars == <<kv, uniqueIdx, videoIdx, stream, delivered, pel, dlq>>
indexVars == <<uniqueIdx, videoIdx>>
groupVars == <<delivered, pel>>

\* VideoJobStatus.  SUPERSEDED is declared and never written.
Statuses == {"QUEUED", "PROCESSING", "CLASSIFIED",
             "FAILED_RETRYABLE", "FAILED_TERMINAL"}
Terminal == {"CLASSIFIED", "FAILED_TERMINAL"}

JobHash == [status : Statuses \cup {"none"}, attempts : Nat]
NoHash == [status |-> "none", attempts |-> 0]

StoreTypeOK ==
    /\ kv \in [Jobs -> JobHash]
    /\ uniqueIdx \in [Keys -> Jobs \cup {NoJob}]
    /\ videoIdx \in [Videos -> Jobs \cup {NoJob}]
    /\ stream \in Seq(Jobs)
    /\ delivered \in 0..Len(stream)
    /\ pel \subseteq 1..delivered
    /\ dlq \subseteq 1..delivered
    /\ faults \in 0..MaxFaults

StoreInit ==
    /\ kv = [j \in Jobs |-> NoHash]
    /\ uniqueIdx = [k \in Keys |-> NoJob]
    /\ videoIdx = [v \in Videos |-> NoJob]
    /\ stream = <<>>
    /\ delivered = 0
    /\ pel = {}
    /\ dlq = {}
    /\ faults = 0

-----------------------------------------------------------------------------
(* Commands.                                                               *)

\* HGETALL returned fields.
Exists(j) == kv[j].status # "none"

HSet(j, s, n) == kv' = [kv EXCEPT ![j] = [status |-> s, attempts |-> n]]

\* SET <index> <job>, and SET ... NX, which keeps a value already there.
SetUnique(j) == uniqueIdx' = [uniqueIdx EXCEPT ![KeyOf[j]] = j]
SetVideo(j) == videoIdx' = [videoIdx EXCEPT ![VideoOf[j]] = j]
SetVideoNX(j) ==
    videoIdx' = [videoIdx EXCEPT ![VideoOf[j]] = IF @ = NoJob THEN j ELSE @]

XAdd(j) ==
    /\ Len(stream) < MaxMessages
    /\ stream' = Append(stream, j)

\* Mutant of XReadGroup: a read that timed out is taken for a delivery.
XReadGroupTimedOut(m) ==
    /\ m = delivered + 1
    /\ delivered' = m
    /\ pel' = pel \cup {m}

\* XREADGROUP ... COUNT 1 STREAMS <stream> ">": only messages never delivered
\* to the group, whoever holds the others.
XReadGroup(m) ==
    /\ delivered < Len(stream)
    /\ m = delivered + 1
    /\ delivered' = m
    /\ pel' = pel \cup {m}

XAck(m) == pel' = pel \ {m}

\* A call raises; whether it took effect is up to the action it is part of.
Fault ==
    /\ faults < MaxFaults
    /\ faults' = faults + 1

\* Some message of j still has to be, or is being, worked on.
Unacked(j) ==
    {m \in DOMAIN stream : stream[m] = j /\ (m > delivered \/ m \in pel)}
=============================================================================
