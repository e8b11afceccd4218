------------------------ MODULE VideoDetectApi_proofs ------------------------
(***************************************************************************)
(* Proofs about VideoDetectApi, for any sets of jobs, keys, videos and     *)
(* requests, for both Redis clients and for any bounds.                    *)
(***************************************************************************)
EXTENDS VideoDetectApi, TLAPS

(***************************************************************************)
(* XADD keeps every message at its place and adds one.                     *)
(***************************************************************************)
LEMMA AppendFacts ==
    ASSUME NEW s \in Seq(Jobs), NEW j \in Jobs
    PROVE  /\ Append(s, j) \in Seq(Jobs)
           /\ Len(Append(s, j)) = Len(s) + 1
           /\ DOMAIN s \subseteq DOMAIN Append(s, j)
           /\ \A m \in DOMAIN s : Append(s, j)[m] = s[m]
           /\ Append(s, j)[Len(s) + 1] = j
  OBVIOUS

-----------------------------------------------------------------------------
(* Commands keep the types of what they write.                             *)

(***************************************************************************)
(* HSET writes a well-typed job hash.                                      *)
(***************************************************************************)
LEMMA HSetType ==
    ASSUME kv \in [Jobs -> JobHash], NEW j \in Jobs,
           NEW s \in Statuses, NEW n \in Nat, HSet(j, s, n)
    PROVE  kv' \in [Jobs -> JobHash]
<1>1. [status |-> s, attempts |-> n] \in JobHash
  BY DEF JobHash
<1> QED
  BY <1>1 DEF HSet

(***************************************************************************)
(* HSET makes the job it writes exist, and no other one disappear.         *)
(***************************************************************************)
LEMMA HSetExists ==
    ASSUME kv \in [Jobs -> JobHash], NEW j \in Jobs,
           NEW s \in Statuses, NEW n \in Nat, HSet(j, s, n)
    PROVE  /\ Exists(j)'
           /\ \A i \in Jobs : Exists(i) => Exists(i)'
  BY DEF HSet, Exists, Statuses

(***************************************************************************)
(* A raising call keeps the count of failures within its bound.            *)
(***************************************************************************)
LEMMA FaultType ==
    ASSUME faults \in 0..MaxFaults, Fault
    PROVE  faults' \in 0..MaxFaults
  BY BoundsAssumption DEF Fault

(***************************************************************************)
(* XADD of a job keeps the stream a sequence of jobs, no shorter than      *)
(* before.                                                                 *)
(***************************************************************************)
LEMMA XAddType ==
    ASSUME stream \in Seq(Jobs), delivered \in 0..Len(stream), NEW j \in Jobs, XAdd(j)
    PROVE  /\ stream' \in Seq(Jobs)
           /\ delivered \in 0..Len(stream')
           /\ DOMAIN stream \subseteq DOMAIN stream'
<1>1. stream' = Append(stream, j)
  BY DEF XAdd
<1> QED
  BY <1>1, AppendFacts

(***************************************************************************)
(* No step of a request, and no failure of one, breaks a type.             *)
(***************************************************************************)
LEMMA RequestKeepsType ==
    ASSUME ApiTypeOK, ApiNext
    PROVE  /\ ApiTypeOK'
           /\ DOMAIN stream \subseteq DOMAIN stream'
           /\ delivered' = delivered
<1> USE DEF ApiTypeOK, StoreTypeOK
<1>1. PICK r \in Requests : RequestStep(r) \/ RequestFails(r)
  BY DEF ApiNext
<1>2. /\ JobOf[r] \in Jobs /\ target[r] \in Jobs
      /\ KeyOf[JobOf[r]] \in Keys
      /\ KeyOf[target[r]] \in Keys
      /\ VideoOf[target[r]] \in Videos
  BY JobsAssumption, RequestsAssumption
<1> USE DEF ApiPcs, Goto, storeVars, indexVars, groupVars
<1>5. CASE LookupJob(r)
  BY <1>2, <1>5 DEF LookupJob
<1>6. CASE LookupUnique(r)
  BY <1>2, <1>6 DEF LookupUnique
<1>7. CASE LookupDuplicate(r)
  BY <1>2, <1>7 DEF LookupDuplicate
<1>8. CASE RepairVideoIndex(r)
  BY <1>2, <1>8, FaultType DEF RepairVideoIndex, SetVideoNX, Reply
<1>9. CASE WriteAll(r)
  <2>1. /\ HSet(target[r], "QUEUED", 0) /\ XAdd(target[r])
        /\ SetUnique(target[r]) /\ SetVideo(target[r]) /\ Reply(r)
        /\ UNCHANGED <<groupVars, dlq, target>>
    BY <1>9 DEF WriteAll
  <2>2. "QUEUED" \in Statuses /\ 0 \in Nat
    BY DEF Statuses
  <2>3. kv' \in [Jobs -> JobHash]
    BY <1>2, <2>1, <2>2, HSetType
  <2>4. /\ stream' \in Seq(Jobs) /\ delivered \in 0..Len(stream')
        /\ DOMAIN stream \subseteq DOMAIN stream'
    BY <1>2, <2>1, XAddType
  <2>5. faults' \in 0..MaxFaults
    BY <2>1, FaultType DEF Reply
  <2>6. apiPc' \in [Requests -> ApiPcs]
    BY <2>1 DEF Reply
  <2>7. uniqueIdx' \in [Keys -> Jobs \cup {NoJob}] /\ videoIdx' \in [Videos -> Jobs \cup {NoJob}]
    BY <1>2, <2>1 DEF SetUnique, SetVideo
  <2> QED
    BY <2>1, <2>3, <2>4, <2>5, <2>6, <2>7
<1>10. CASE WriteHash(r)
  <2>1. HSet(target[r], "QUEUED", 0)
    BY <1>10 DEF WriteHash
  <2>2. "QUEUED" \in Statuses /\ 0 \in Nat
    BY DEF Statuses
  <2>3. kv' \in [Jobs -> JobHash]
    BY <1>2, <2>1, <2>2, HSetType
  <2> QED
    BY <1>10, <2>3 DEF WriteHash
<1>11. CASE WriteUnique(r)
  BY <1>2, <1>11 DEF WriteUnique, SetUnique
<1>12. CASE WriteVideo(r)
  BY <1>2, <1>12 DEF WriteVideo, SetVideo
<1>13. CASE AppendMessage(r)
  <2>1. XAdd(target[r]) /\ Reply(r) /\ UNCHANGED <<kv, indexVars, groupVars, dlq, target>>
    BY <1>13 DEF AppendMessage
  <2>2. /\ stream' \in Seq(Jobs) /\ delivered \in 0..Len(stream')
        /\ DOMAIN stream \subseteq DOMAIN stream'
    BY <1>2, <2>1, XAddType
  <2>3. faults' \in 0..MaxFaults
    BY <2>1, FaultType DEF Reply
  <2>4. apiPc' \in [Requests -> ApiPcs]
    BY <2>1 DEF Reply
  <2> QED
    BY <2>1, <2>2, <2>3, <2>4
<1>14. CASE RequestFails(r)
  <2>1. faults' \in 0..MaxFaults
    BY <1>14, FaultType DEF RequestFails
  <2> QED
    BY <1>14, <2>1 DEF RequestFails
<1> QED
  BY <1>1, <1>5, <1>6, <1>7, <1>8, <1>9, <1>10, <1>11, <1>12, <1>13, <1>14
  DEF RequestStep, Write

-----------------------------------------------------------------------------
(* The indexes, the stream and what a request holds in its hands.          *)

\* A request that has found or written a job and has not given up.
FoundOrWritten == {"duplicate", "index", "writeUnique", "writeVideo", "append", "accepted"}

\* A request that has nothing left to do for the video index.
VideoIndexed == {"append", "accepted"}

(***************************************************************************)
(* What a request knows of its job from its earlier awaits stays true: the *)
(* job has the key it asked for, exists once it was found or written, and  *)
(* its video has an entry in the index once that was repaired or written.  *)
(***************************************************************************)
TargetInv ==
    \A r \in Requests :
        /\ KeyOf[target[r]] = KeyOf[JobOf[r]]
        /\ apiPc[r] = "start" => target[r] = JobOf[r]
        /\ apiPc[r] \in FoundOrWritten => Exists(target[r])
        /\ apiPc[r] \in VideoIndexed => videoIdx[VideoOf[target[r]]] # NoJob

ApiInv == ApiTypeOK /\ NothingDangles /\ TargetInv

\* What every step leaves standing: jobs never disappear, nor do the entries
\* of the video index.
NothingLost ==
    /\ \A i \in Jobs : Exists(i) => Exists(i)'
    /\ \A v \in Videos : videoIdx[v] # NoJob => videoIdx'[v] # NoJob

(***************************************************************************)
(* Nothing dangles after writes that name one job, each to an index or to  *)
(* the stream, when that job exists by then and no job has disappeared.    *)
(***************************************************************************)
LEMMA WritesOfExistingJob ==
    ASSUME ApiTypeOK, NothingDangles, NEW j \in Jobs, Exists(j)',
           \A i \in Jobs : Exists(i) => Exists(i)',
           SetUnique(j) \/ UNCHANGED uniqueIdx,
           SetVideo(j) \/ SetVideoNX(j) \/ UNCHANGED videoIdx,
           XAdd(j) \/ UNCHANGED stream
    PROVE  NothingDangles' /\ NothingLost
<1>1. /\ uniqueIdx \in [Keys -> Jobs \cup {NoJob}]
      /\ videoIdx \in [Videos -> Jobs \cup {NoJob}]
      /\ stream \in Seq(Jobs)
      /\ KeyOf[j] \in Keys /\ VideoOf[j] \in Videos /\ j # NoJob
  BY JobsAssumption DEF ApiTypeOK, StoreTypeOK
<1>2. ASSUME NEW k \in Keys, uniqueIdx'[k] # NoJob
      PROVE  Exists(uniqueIdx[k])' /\ KeyOf[uniqueIdx'[k]] = k
  <2>1. CASE uniqueIdx'[k] = uniqueIdx[k]
    BY <1>1, <1>2, <2>1 DEF NothingDangles, Exists
  <2>2. CASE uniqueIdx'[k] # uniqueIdx[k]
    <3>1. SetUnique(j) /\ k = KeyOf[j] /\ uniqueIdx'[k] = j
      BY <1>1, <2>2 DEF SetUnique
    <3> QED
      BY <3>1 DEF Exists
  <2> QED
    BY <2>1, <2>2
<1>3. ASSUME NEW v \in Videos
      PROVE  /\ videoIdx[v] # NoJob => videoIdx'[v] # NoJob
             /\ videoIdx'[v] # NoJob => Exists(videoIdx[v])' /\ VideoOf[videoIdx'[v]] = v
  <2>1. CASE videoIdx'[v] = videoIdx[v]
    BY <1>1, <1>3, <2>1 DEF NothingDangles, Exists
  <2>2. CASE videoIdx'[v] # videoIdx[v]
    <3>1. v = VideoOf[j] /\ videoIdx'[v] = j
      BY <1>1, <2>2 DEF SetVideo, SetVideoNX
    <3> QED
      BY <1>1, <3>1 DEF Exists
  <2> QED
    BY <2>1, <2>2
<1>4. ASSUME NEW m \in DOMAIN stream'
      PROVE  Exists(stream[m])'
  <2>1. CASE m \in DOMAIN stream
    <3>1. stream'[m] = stream[m] /\ stream[m] \in Jobs
      BY <1>1, <2>1, AppendFacts DEF XAdd
    <3> QED
      BY <2>1, <3>1 DEF NothingDangles, Exists
  <2>2. CASE m \notin DOMAIN stream
    <3>1. stream' = Append(stream, j)
      BY <1>4, <2>2 DEF XAdd
    <3>2. stream'[m] = j
      BY <1>1, <1>4, <2>2, <3>1
    <3> QED
      BY <3>2 DEF Exists
  <2> QED
    BY <2>1, <2>2
<1> QED
  BY <1>2, <1>3, <1>4 DEF NothingDangles, NothingLost

(***************************************************************************)
(* A step that leaves the store alone leaves nothing dangling.             *)
(***************************************************************************)
LEMMA StoreUnchanged ==
    ASSUME NothingDangles, UNCHANGED <<kv, uniqueIdx, videoIdx, stream>>
    PROVE  NothingDangles' /\ NothingLost
  BY DEF NothingDangles, NothingLost, Exists

(***************************************************************************)
(* A step of one request that loses nothing takes nothing from what the    *)
(* other requests know.                                                    *)
(***************************************************************************)
LEMMA OthersKeepTarget ==
    ASSUME ApiTypeOK, TargetInv, NothingLost, NEW r \in Requests,
           \A q \in Requests \ {r} : apiPc'[q] = apiPc[q] /\ target'[q] = target[q],
           /\ KeyOf[target'[r]] = KeyOf[JobOf[r]]
           /\ apiPc'[r] # "start"
           /\ apiPc'[r] \in FoundOrWritten => Exists(target[r])'
           /\ apiPc'[r] \in VideoIndexed => videoIdx'[VideoOf[target'[r]]] # NoJob
    PROVE  TargetInv'
<1> SUFFICES ASSUME NEW q \in Requests, q # r
             PROVE  /\ KeyOf[target'[q]] = KeyOf[JobOf[q]]
                    /\ apiPc'[q] = "start" => target'[q] = JobOf[q]
                    /\ apiPc'[q] \in FoundOrWritten => Exists(target[q])'
                    /\ apiPc'[q] \in VideoIndexed => videoIdx'[VideoOf[target'[q]]] # NoJob
  BY DEF TargetInv
<1>1. target[q] \in Jobs /\ VideoOf[target[q]] \in Videos
  BY JobsAssumption DEF ApiTypeOK
<1>2. apiPc'[q] = apiPc[q] /\ target'[q] = target[q]
  OBVIOUS
<1>3. /\ KeyOf[target[q]] = KeyOf[JobOf[q]]
      /\ apiPc[q] = "start" => target[q] = JobOf[q]
      /\ apiPc[q] \in FoundOrWritten => Exists(target[q])
      /\ apiPc[q] \in VideoIndexed => videoIdx[VideoOf[target[q]]] # NoJob
  BY DEF TargetInv
<1>4. Exists(target[q]) => Exists(target[q])'
  BY <1>1, <1>2 DEF NothingLost, Exists
<1>5. videoIdx[VideoOf[target[q]]] # NoJob => videoIdx'[VideoOf[target'[q]]] # NoJob
  BY <1>1, <1>2 DEF NothingLost
<1> QED
  BY <1>2, <1>3, <1>4, <1>5

-----------------------------------------------------------------------------
(* The inductive invariant.                                                *)

(***************************************************************************)
(* Before the first request the store is empty, and no request knows       *)
(* anything.                                                               *)
(***************************************************************************)
LEMMA ApiInitInv == ApiInit => ApiInv
<1> SUFFICES ASSUME ApiInit PROVE ApiInv
  OBVIOUS
<1>1. ApiTypeOK
  BY JobsAssumption, RequestsAssumption, BoundsAssumption
  DEF ApiInit, StoreInit, ApiTypeOK, StoreTypeOK, ApiPcs, JobHash, NoHash, Statuses
<1>2. NothingDangles
  BY DEF ApiInit, StoreInit, NothingDangles
<1>3. TargetInv
  BY DEF ApiInit, TargetInv, FoundOrWritten, VideoIndexed
<1> QED
  BY <1>1, <1>2, <1>3 DEF ApiInv

(***************************************************************************)
(* The two requests under one key ask for the same video.                  *)
(***************************************************************************)
LEMMA TargetVideo ==
    ASSUME ApiTypeOK, TargetInv, NEW r \in Requests
    PROVE  VideoOf[target[r]] = VideoOf[JobOf[r]]
  BY JobsAssumption, RequestsAssumption DEF ApiTypeOK, TargetInv

(***************************************************************************)
(* The writes of a request keep the invariant: each of them names the job  *)
(* whose hash was written before, or is written in the same transaction.   *)
(***************************************************************************)
LEMMA RequestWrites ==
    ASSUME ApiInv, NEW r \in Requests, Exists(target[r])',
           \A i \in Jobs : Exists(i) => Exists(i)',
           SetUnique(target[r]) \/ UNCHANGED uniqueIdx,
           SetVideo(target[r]) \/ SetVideoNX(target[r]) \/ UNCHANGED videoIdx,
           XAdd(target[r]) \/ UNCHANGED stream,
           NEW l \in ApiPcs, l # "start", Goto(r, l), UNCHANGED target,
           l \in VideoIndexed => videoIdx'[VideoOf[target[r]]] # NoJob
    PROVE  NothingDangles' /\ TargetInv' /\ NothingLost
<1>1. target[r] \in Jobs
  BY DEF ApiInv, ApiTypeOK
<1>2. Exists(target[r])' <=> kv'[target[r]].status # "none"
  BY DEF Exists
<1>3. kv'[target[r]].status # "none"
  BY <1>2
<1>4. NothingDangles' /\ NothingLost
  <2> DEFINE j == target[r]
  <2>1. j \in Jobs
    BY <1>1
  <2>2. kv'[j].status # "none"
    BY <1>3
  <2>3. /\ SetUnique(j) \/ UNCHANGED uniqueIdx
        /\ SetVideo(j) \/ SetVideoNX(j) \/ UNCHANGED videoIdx
        /\ XAdd(j) \/ UNCHANGED stream
    OBVIOUS
  <2> HIDE DEF j
  <2>4. PICK i \in Jobs : i = j
    BY <2>1
  <2>5. Exists(i)'
    BY <2>2, <2>4 DEF Exists
  <2>6. /\ SetUnique(i) \/ UNCHANGED uniqueIdx
        /\ SetVideo(i) \/ SetVideoNX(i) \/ UNCHANGED videoIdx
        /\ XAdd(i) \/ UNCHANGED stream
    BY <2>3, <2>4
  <2>7. ApiTypeOK /\ NothingDangles
    BY DEF ApiInv
  <2> QED
    BY <2>5, <2>6, <2>7, WritesOfExistingJob
<1>5. /\ apiPc'[r] = l
      /\ \A q \in Requests \ {r} : apiPc'[q] = apiPc[q] /\ target'[q] = target[q]
  BY DEF Goto, ApiInv, ApiTypeOK
<1>6. KeyOf[target'[r]] = KeyOf[JobOf[r]]
  BY DEF ApiInv, TargetInv
<1> QED
  BY <1>3, <1>4, <1>5, <1>6, OthersKeepTarget DEF ApiInv, Exists

(***************************************************************************)
(* A step of a request that writes nothing keeps the invariant when what   *)
(* it learned is true.                                                     *)
(***************************************************************************)
LEMMA RequestReads ==
    ASSUME ApiInv, NEW r \in Requests, UNCHANGED storeVars,
           NEW l \in ApiPcs, l # "start", Goto(r, l), l \notin VideoIndexed,
           NEW j \in Jobs, target' = [target EXCEPT ![r] = j],
           KeyOf[j] = KeyOf[JobOf[r]],
           l \in FoundOrWritten => Exists(j)
    PROVE  NothingDangles' /\ TargetInv' /\ NothingLost
<1>1. NothingDangles' /\ NothingLost
  BY StoreUnchanged DEF ApiInv, storeVars
<1>2. /\ apiPc'[r] = l /\ target'[r] = j
      /\ \A q \in Requests \ {r} : apiPc'[q] = apiPc[q] /\ target'[q] = target[q]
  BY DEF Goto, ApiInv, ApiTypeOK
<1>3. kv' = kv
  BY DEF storeVars
<1>4. apiPc'[r] \in FoundOrWritten => Exists(target[r])'
  BY <1>2, <1>3 DEF Exists
<1> QED
  BY <1>1, <1>2, <1>4, OthersKeepTarget DEF ApiInv

(***************************************************************************)
(* No step of a request, and no failure of one, breaks the invariant or    *)
(* loses a job or an index entry.                                          *)
(***************************************************************************)
LEMMA RequestKeepsInv ==
    ASSUME ApiInv, ApiNext
    PROVE  ApiInv' /\ NothingLost
<1>1. PICK r \in Requests : RequestStep(r) \/ RequestFails(r)
  BY DEF ApiNext
<1>2. ApiTypeOK'
  BY RequestKeepsType DEF ApiInv
<1>3. SUFFICES NothingDangles' /\ TargetInv' /\ NothingLost
  BY <1>2 DEF ApiInv
<1>4. /\ JobOf[r] \in Jobs /\ target[r] \in Jobs
      /\ target = [target EXCEPT ![r] = target[r]]
      /\ KeyOf[target[r]] = KeyOf[JobOf[r]]
      /\ KeyOf[JobOf[r]] \in Keys
      /\ apiPc[r] = "start" => target[r] = JobOf[r]
      /\ apiPc[r] \in FoundOrWritten => Exists(target[r])
      /\ apiPc[r] \in VideoIndexed => videoIdx[VideoOf[target[r]]] # NoJob
  BY JobsAssumption, RequestsAssumption DEF ApiInv, ApiTypeOK, TargetInv
<1>5. /\ uniqueIdx \in [Keys -> Jobs \cup {NoJob}]
      /\ videoIdx \in [Videos -> Jobs \cup {NoJob}]
      /\ kv \in [Jobs -> JobHash]
      /\ VideoOf[target[r]] \in Videos /\ target[r] # NoJob
      /\ "QUEUED" \in Statuses /\ 0 \in Nat
  BY <1>4, JobsAssumption DEF ApiInv, ApiTypeOK, StoreTypeOK, Statuses
<1>6. {"unique", "duplicate", "index", "write", "writeUnique", "writeVideo",
       "append", "accepted", "failed"} \subseteq ApiPcs
  BY DEF ApiPcs
<1>7. ASSUME UNCHANGED <<kv, target>>
      PROVE  /\ Exists(target[r]) => Exists(target[r])'
             /\ \A i \in Jobs : Exists(i) => Exists(i)'
  BY <1>7 DEF Exists
<1>8. CASE LookupJob(r)
  <2>1. CASE Exists(JobOf[r])
    BY <1>4, <1>6, <1>8, <2>1, RequestReads DEF LookupJob, VideoIndexed
  <2>2. CASE ~Exists(JobOf[r])
    BY <1>4, <1>6, <1>8, <2>2, RequestReads DEF LookupJob, VideoIndexed, FoundOrWritten
  <2> QED
    BY <2>1, <2>2
<1>9. CASE LookupUnique(r)
  <2> DEFINE found == uniqueIdx[KeyOf[JobOf[r]]]
  <2>1. CASE found = NoJob
    BY <1>4, <1>6, <1>9, <2>1, RequestReads DEF LookupUnique, VideoIndexed, FoundOrWritten
  <2>2. CASE found # NoJob
    <3>1. found \in Jobs /\ KeyOf[found] = KeyOf[JobOf[r]] /\ Exists(found)
      BY <1>4, <1>5, <2>2 DEF ApiInv, NothingDangles
    <3> QED
      BY <1>4, <1>6, <1>9, <2>2, <3>1, RequestReads
      DEF LookupUnique, VideoIndexed, FoundOrWritten
  <2> QED
    BY <2>1, <2>2
<1>10. CASE LookupDuplicate(r)
  <2>1. CASE Exists(target[r])
    BY <1>4, <1>6, <1>10, <2>1, RequestReads DEF LookupDuplicate, VideoIndexed
  <2>2. CASE ~Exists(target[r])
    BY <1>4, <1>6, <1>10, <2>2, RequestReads DEF LookupDuplicate, VideoIndexed, FoundOrWritten
  <2> QED
    BY <2>1, <2>2
<1>11. CASE RepairVideoIndex(r)
  <2>1. /\ SetVideoNX(target[r]) /\ (Goto(r, "accepted") \/ Goto(r, "failed"))
        /\ UNCHANGED <<kv, uniqueIdx, stream, target>> /\ Exists(target[r])
    BY <1>4, <1>11 DEF RepairVideoIndex, Reply, FoundOrWritten
  <2>2. videoIdx'[VideoOf[target[r]]] # NoJob
    BY <1>5, <2>1 DEF SetVideoNX
  <2>3. "accepted" \in ApiPcs /\ "failed" \in ApiPcs
    BY <1>6
  <2> QED
    BY <1>7, <2>1, <2>2, <2>3, RequestWrites
<1>12. ASSUME HSet(target[r], "QUEUED", 0), UNCHANGED target
       PROVE  Exists(target[r])' /\ \A i \in Jobs : Exists(i) => Exists(i)'
  <2>1. kv'[target[r]].status = "QUEUED"
    BY <1>4, <1>5, <1>12 DEF HSet
  <2>2. \A i \in Jobs : Exists(i) => Exists(i)'
    BY <1>4, <1>5, <1>12, HSetExists
  <2> QED
    BY <1>12, <2>1, <2>2 DEF Exists
<1>13. CASE WriteAll(r)
  <2>1. /\ HSet(target[r], "QUEUED", 0) /\ SetUnique(target[r])
        /\ SetVideo(target[r]) /\ XAdd(target[r]) /\ UNCHANGED target
    BY <1>13 DEF WriteAll
  <2>2. PICK l \in {"accepted", "failed"} : Goto(r, l)
    BY <1>13 DEF WriteAll, Reply
  <2>3. videoIdx'[VideoOf[target[r]]] # NoJob
    BY <1>5, <2>1 DEF SetVideo
  <2>4. l \in ApiPcs /\ l # "start"
    BY <1>6, <2>2
  <2> QED
    BY <1>12, <2>1, <2>2, <2>3, <2>4, RequestWrites
<1>14. CASE WriteHash(r)
  <2>1. /\ HSet(target[r], "QUEUED", 0) /\ Goto(r, "writeUnique")
        /\ UNCHANGED <<uniqueIdx, videoIdx, stream, target>>
    BY <1>14 DEF WriteHash, indexVars
  <2>2. "writeUnique" \in ApiPcs /\ "writeUnique" \notin VideoIndexed
    BY <1>6 DEF VideoIndexed
  <2> QED
    BY <1>12, <2>1, <2>2, RequestWrites
<1>15. CASE WriteUnique(r)
  <2>1. /\ SetUnique(target[r]) /\ Goto(r, "writeVideo")
        /\ UNCHANGED <<kv, videoIdx, stream, target>> /\ Exists(target[r])
    BY <1>4, <1>15 DEF WriteUnique, FoundOrWritten
  <2>2. "writeVideo" \in ApiPcs /\ "writeVideo" \notin VideoIndexed
    BY <1>6 DEF VideoIndexed
  <2> QED
    BY <1>7, <2>1, <2>2, RequestWrites
<1>16. CASE WriteVideo(r)
  <2>1. /\ SetVideo(target[r]) /\ Goto(r, "append")
        /\ UNCHANGED <<kv, uniqueIdx, stream, target>> /\ Exists(target[r])
    BY <1>4, <1>16 DEF WriteVideo, FoundOrWritten
  <2>2. videoIdx'[VideoOf[target[r]]] # NoJob
    BY <1>5, <2>1 DEF SetVideo
  <2>3. "append" \in ApiPcs
    BY <1>6
  <2> QED
    BY <1>7, <2>1, <2>2, <2>3, RequestWrites
<1>17. CASE AppendMessage(r)
  <2>1. /\ XAdd(target[r]) /\ Exists(target[r])
        /\ videoIdx[VideoOf[target[r]]] # NoJob
        /\ UNCHANGED <<kv, uniqueIdx, videoIdx, target>>
    BY <1>4, <1>17 DEF AppendMessage, FoundOrWritten, VideoIndexed, indexVars
  <2>2. PICK l \in {"accepted", "failed"} : Goto(r, l)
    BY <1>17 DEF AppendMessage, Reply
  <2>3. l \in ApiPcs /\ l # "start"
    BY <1>6, <2>2
  <2> QED
    BY <1>7, <2>1, <2>2, <2>3, RequestWrites
<1>18. CASE RequestFails(r)
  BY <1>4, <1>6, <1>18, RequestReads DEF RequestFails, VideoIndexed, FoundOrWritten
<1> QED
  BY <1>1, <1>8, <1>9, <1>10, <1>11, <1>13, <1>14, <1>15, <1>16, <1>17, <1>18
  DEF RequestStep, Write

(***************************************************************************)
(* A 202 is visible wherever the invariant holds.                          *)
(***************************************************************************)
LEMMA VisibleByInv == ApiInv => AcceptedIsVisible
<1> SUFFICES ASSUME ApiInv, NEW r \in Requests, apiPc[r] = "accepted"
             PROVE  LET j == videoIdx[VideoOf[JobOf[r]]]
                    IN j # NoJob /\ Exists(j)
  BY DEF AcceptedIsVisible
<1>1. VideoOf[JobOf[r]] \in Videos
  BY JobsAssumption, RequestsAssumption
<1>2. VideoOf[target[r]] = VideoOf[JobOf[r]]
  BY TargetVideo DEF ApiInv
<1>3. videoIdx[VideoOf[target[r]]] # NoJob
  BY DEF ApiInv, TargetInv, VideoIndexed
<1> QED
  BY <1>1, <1>2, <1>3 DEF ApiInv, NothingDangles

-----------------------------------------------------------------------------
(* The endpoint alone, for both Redis clients.                             *)

(***************************************************************************)
(* Every state the requests reach satisfies the inductive invariant.       *)
(***************************************************************************)
THEOREM ApiInvariant == ApiSpec => []ApiInv
<1>1. ApiInv /\ UNCHANGED <<storeVars, faults, apiVars>> => ApiInv'
  BY DEF ApiInv, storeVars, apiVars, ApiTypeOK, StoreTypeOK, NothingDangles,
         TargetInv, Exists
<1> QED
  BY ApiInitInv, RequestKeepsInv, <1>1, PTL DEF ApiSpec

(***************************************************************************)
(* No interleaving of the awaits of enqueue_video_job, and no lost reply,  *)
(* leaves a value of the wrong kind behind.                                *)
(***************************************************************************)
THEOREM ApiTypeCorrect == ApiSpec => []ApiTypeOK
  BY ApiInvariant, PTL DEF ApiInv

(***************************************************************************)
(* With the pipelined and with the cluster writes, the indexes and the     *)
(* stream of QueueStore name only jobs whose hash exists, under their own  *)
(* key and video.                                                          *)
(***************************************************************************)
THEOREM IndexesNeverDangle == ApiSpec => []NothingDangles
  BY ApiInvariant, PTL DEF ApiInv

(***************************************************************************)
(* After a 202 the video index names a job that exists, also when the      *)
(* request was answered by an early return on what a failed one had left.  *)
(***************************************************************************)
THEOREM AcceptedStaysVisible == ApiSpec => []AcceptedIsVisible
  BY ApiInvariant, VisibleByInv, PTL

=============================================================================
