------------------- MODULE VideoPipeline_delivery_proofs -------------------
(***************************************************************************)
(* Proofs about messages and jobs, for any sets of jobs, requests and      *)
(* workers and any bounds.  The pipelined enqueue and the workers between  *)
(* them lose no job: a job that is not finished has a message that the     *)
(* group has not acknowledged, and a job the endpoint accepted has one in  *)
(* the stream.  A job submitted by one call has at most one worker at a    *)
(* time: attempts are bounded, stores agree, dead letters are final.       *)
(***************************************************************************)
EXTENDS VideoPipeline_proofs

-----------------------------------------------------------------------------
(* No job is dropped.                                                      *)

(***************************************************************************)
(* The worker will acknowledge its message without writing the job hash or *)
(* adding a message first.                                                 *)
(***************************************************************************)
Finished(w) ==
    \/ pc[w] \in {"ack", "dlq"}
    \/ pc[w] = "markFailed" /\ ~again[w]

(***************************************************************************)
(* A worker at work holds a pending message, and no two hold the same: the *)
(* group delivers a message once.                                          *)
(***************************************************************************)
Held ==
    /\ \A w \in Workers : pc[w] # "idle" => msg[w] \in pel
    /\ \A v, w \in Workers :
           pc[v] # "idle" /\ pc[w] # "idle" /\ msg[v] = msg[w] => v = w

(***************************************************************************)
(* The message still stands for work on the job: it is undelivered, or it  *)
(* is pending and whoever holds it is not about to let go of it.           *)
(***************************************************************************)
Covers(m, j) ==
    /\ m \in DOMAIN stream
    /\ stream[m] = j
    /\ \/ m > delivered
       \/ /\ m \in pel
          /\ \A w \in Workers : pc[w] # "idle" /\ msg[w] = m => ~Finished(w)

(***************************************************************************)
(* NoJobDropped is not inductive: the last unacknowledged message may be   *)
(* held by a worker at its XACK, while the hash says PROCESSING because    *)
(* another worker is on it.  Such a message does not count here.           *)
(***************************************************************************)
Unfinished(j) == Exists(j) /\ kv[j].status \notin Terminal
Covered(j) == \E m \in DOMAIN stream : Covers(m, j)
DeliveryInv == Held /\ \A j \in Jobs : Unfinished(j) => Covered(j)

(***************************************************************************)
(* What the steps of this section are about, well typed.                   *)
(***************************************************************************)
LEMMA DeliveryTypes ==
    ASSUME TypeOK
    PROVE  /\ stream \in Seq(Jobs) /\ Len(stream) \in Nat
           /\ delivered \in 0..Len(stream)
           /\ pel \subseteq 1..delivered
           /\ kv \in [Jobs -> JobHash]
           /\ pc \in [Workers -> PcValues] /\ again \in [Workers -> BOOLEAN]
           /\ msg \in [Workers -> 0..delivered]
  BY DEF TypeOK, ApiTypeOK, StoreTypeOK, WorkerTypeOK

(***************************************************************************)
(* A worker with a job covers it with its own message as long as it is not *)
(* finished.                                                               *)
(***************************************************************************)
LEMMA HolderCovers ==
    ASSUME TypeOK, Held, NEW w \in Workers, pc[w] # "idle", ~Finished(w)
    PROVE  Covered(Job(w))
<1>1. msg[w] \in DOMAIN stream /\ msg[w] \in pel
  BY JobIsJob DEF Held
<1>2. \A v \in Workers : pc[v] # "idle" /\ msg[v] = msg[w] => ~Finished(v)
  BY DEF Held
<1> QED
  BY <1>1, <1>2 DEF Covers, Covered, Job

(***************************************************************************)
(* A step of one worker that touches neither the group nor the messages    *)
(* leaves a job covered, unless the worker was on that job and is now      *)
(* finished.                                                               *)
(***************************************************************************)
LEMMA CoverStays ==
    ASSUME TypeOK, Grows, NEW w \in Workers, UNCHANGED <<msg, delivered, pel>>,
           pc[w] # "idle",
           \A v \in Workers \ {w} : pc'[v] = pc[v] /\ again'[v] = again[v],
           NEW j \in Jobs, Covered(j),
           j # Job(w) \/ ~Finished(w)' \/ Finished(w)
    PROVE  Covered(j)'
<1>1. PICK m \in DOMAIN stream : Covers(m, j)
  BY DEF Covered
<1>2. m \in DOMAIN stream' /\ stream'[m] = j
  BY <1>1 DEF Covers, Grows
<1>3. CASE m > delivered
  BY <1>2, <1>3 DEF Covers, Covered
<1>4. CASE m \in pel /\ \A v \in Workers : pc[v] # "idle" /\ msg[v] = m => ~Finished(v)
  <2>1. ASSUME NEW v \in Workers, pc'[v] # "idle", msg[v] = m
        PROVE  ~Finished(v)'
    <3>1. CASE v = w
      <4>1. j = Job(w) /\ ~Finished(w)
        BY <1>1, <1>4, <2>1, <3>1 DEF Covers, Job
      <4> QED
        BY <4>1, <3>1
    <3>2. CASE v # w
      BY <1>4, <2>1, <3>2 DEF Finished
    <3> QED
      BY <3>1, <3>2
  <2> QED
    BY <1>2, <1>4, <2>1 DEF Covers, Covered
<1> QED
  BY <1>1, <1>3, <1>4 DEF Covers

(***************************************************************************)
(* The other workers' retry decisions are their own too.                   *)
(***************************************************************************)
LEMMA AgainStays ==
    ASSUME TypeOK, NEW w \in Workers, WorkerNext(w)
    PROVE  \A v \in Workers \ {w} : again'[v] = again[v]
  BY DeliveryTypes DEF WorkerNext, WorkerStep, Except, Proceed, Release, Publish,
     localVars, sideVars, ReadMessage, LoadJob, GetCurrent, GetPersisted,
     ReadForUpdate, WriteSkipped, WriteProcessing, WriteClassified, WriteFailed,
     MarkProcessing, Analyse, AnalyseRejects, Move, MoveRefused, Commit,
     CommitConflicts, PublishVideo, PublishLegacy, PublishAction, WriteRuntime,
     CallRaises, MarkFailed, Requeue, MoveToDlq, Ack, Crash

(***************************************************************************)
(* A request only adds: with the pipelined writes the hash it resets comes *)
(* with a message of its own.                                              *)
(***************************************************************************)
LEMMA ApiKeepsDelivery ==
    ASSUME ~ClusterMode, TypeOK, TypeOK', DeliveryInv, Api
    PROVE  DeliveryInv'
<1>1. Grows /\ UNCHANGED <<pc, msg, need, again>>
  BY ApiGrows DEF Api, workerVars
<1>2. PICK r \in Requests : RequestStep(r) \/ RequestFails(r)
  BY DEF Api, ApiNext
<1>3. UNCHANGED <<delivered, pel>>
  BY <1>2 DEF RequestStep, RequestFails, LookupJob, LookupUnique, LookupDuplicate,
              RepairVideoIndex, Write, WriteAll, WriteHash, WriteUnique, WriteVideo,
              AppendMessage, storeVars, groupVars
<1>4. Held'
  BY <1>1, <1>3 DEF DeliveryInv, Held
<1>5. ASSUME NEW j \in Jobs, Covered(j) PROVE Covered(j)'
  BY <1>1, <1>3, <1>5 DEF Covered, Covers, Finished, Grows
<1>6. ASSUME NEW j \in Jobs, Unfinished(j)' PROVE Covered(j)'
  <2>1. CASE kv'[j] = kv[j]
    BY <1>5, <1>6, <2>1 DEF DeliveryInv, Unfinished, Exists
  <2>2. CASE kv'[j] # kv[j]
    <3>1. HSet(target[r], "QUEUED", 0) /\ XAdd(target[r])
      BY <1>2, <2>2 DEF RequestStep, RequestFails, LookupJob, LookupUnique,
         LookupDuplicate, RepairVideoIndex, Write, WriteAll, WriteHash, WriteUnique,
         WriteVideo, AppendMessage, storeVars
    <3>2. j = target[r]
      BY <2>2, <3>1, DeliveryTypes DEF HSet
    <3>3. /\ Len(stream) + 1 \in DOMAIN stream' /\ stream'[Len(stream) + 1] = j
          /\ Len(stream) + 1 > delivered'
      BY <1>3, <3>1, <3>2, DeliveryTypes, AppendFacts DEF XAdd
    <3> QED
      BY <3>3 DEF Covered, Covers
  <2> QED
    BY <2>1, <2>2
<1> QED
  BY <1>4, <1>6 DEF DeliveryInv

(***************************************************************************)
(* The steps that change who holds what: XREADGROUP hands out the next     *)
(* message, XACK drops one that covers nothing, and a crash lets go of one *)
(* that stays pending.                                                     *)
(***************************************************************************)
LEMMA GroupStepsKeepDelivery ==
    ASSUME TypeOK, DeliveryInv, NEW w \in Workers,
           ReadMessage(w) \/ Ack(w) \/ Crash(w)
    PROVE  DeliveryInv'
<1>1. kv' = kv /\ stream' = stream
  BY DEF ReadMessage, Ack, Crash, storeVars
<1>2. \A j \in Jobs : Unfinished(j)' => Covered(j)
  BY <1>1 DEF DeliveryInv, Unfinished, Exists
<1>3. CASE ReadMessage(w)
  <2>1. /\ pc[w] = "idle" /\ pc' = [pc EXCEPT ![w] = "load"]
        /\ msg' = [msg EXCEPT ![w] = delivered + 1] /\ again' = again
        /\ delivered' = delivered + 1 /\ pel' = pel \cup {delivered + 1}
    BY <1>3 DEF ReadMessage, XReadGroup, At, Jump
  <2>2. \A v \in Workers \ {w} : pc[v] # "idle" => msg[v] # delivered + 1
    BY DeliveryTypes DEF DeliveryInv, Held
  <2>3. Held'
    BY <2>1, <2>2, DeliveryTypes DEF DeliveryInv, Held
  <2>4. ASSUME NEW j \in Jobs, NEW m \in DOMAIN stream, Covers(m, j) PROVE Covers(m, j)'
    <3>1. m \in Nat
      BY DeliveryTypes
    <3>2. \A v \in Workers : pc'[v] # "idle" /\ msg'[v] = m => ~Finished(v)'
      <4> SUFFICES ASSUME NEW v \in Workers, pc'[v] # "idle", msg'[v] = m
                   PROVE  ~Finished(v)'
        OBVIOUS
      <4>1. CASE v = w
        BY <2>1, <4>1, DeliveryTypes DEF Finished
      <4>2. CASE v # w
        <5>1. pc'[v] = pc[v] /\ msg'[v] = msg[v] /\ again'[v] = again[v]
          BY <2>1, <4>2, DeliveryTypes
        <5>2. ~(m > delivered)
          BY <5>1, <3>1, DeliveryTypes DEF DeliveryInv, Held
        <5> QED
          BY <2>4, <5>1, <5>2 DEF Covers, Finished
      <4> QED
        BY <4>1, <4>2
    <3>3. m > delivered' \/ m \in pel'
      BY <2>1, <2>4, <3>1, DeliveryTypes DEF Covers
    <3> QED
      BY <1>1, <2>4, <3>2, <3>3 DEF Covers
  <2> QED
    BY <1>1, <1>2, <2>3, <2>4 DEF DeliveryInv, Covered
<1>4. CASE Ack(w)
  <2>1. /\ pc[w] = "ack" /\ pc' = [pc EXCEPT ![w] = "idle"]
        /\ \A v \in Workers \ {w} : msg'[v] = msg[v] /\ again'[v] = again[v]
        /\ delivered' = delivered /\ pel' = pel \ {msg[w]}
    BY <1>4, DeliveryTypes DEF Ack, XAck, Release, At, Jump
  <2>2. Held'
    BY <2>1, DeliveryTypes DEF DeliveryInv, Held
  <2>3. ASSUME NEW j \in Jobs, NEW m \in DOMAIN stream, Covers(m, j) PROVE Covers(m, j)'
    <3>1. m > delivered \/ m # msg[w]
      BY <2>1, <2>3 DEF Covers, Finished
    <3> QED
      BY <1>1, <2>1, <2>3, <3>1, DeliveryTypes DEF Covers, Finished
  <2> QED
    BY <1>1, <1>2, <2>2, <2>3 DEF DeliveryInv, Covered
<1>5. CASE Crash(w)
  <2>1. /\ pc' = [pc EXCEPT ![w] = "idle"]
        /\ \A v \in Workers \ {w} : msg'[v] = msg[v] /\ again'[v] = again[v]
        /\ delivered' = delivered /\ pel' = pel
    BY <1>5, DeliveryTypes DEF Crash, Release, Jump, storeVars
  <2>2. Held'
    BY <2>1, DeliveryTypes DEF DeliveryInv, Held
  <2>3. ASSUME NEW j \in Jobs, NEW m \in DOMAIN stream, Covers(m, j) PROVE Covers(m, j)'
    BY <1>1, <2>1, <2>3, DeliveryTypes DEF Covers, Finished
  <2> QED
    BY <1>1, <1>2, <2>2, <2>3 DEF DeliveryInv, Covered
<1> QED
  BY <1>3, <1>4, <1>5

(***************************************************************************)
(* A busy worker's own steps: each keeps what it was given, and either     *)
(* leaves a job as it was, or is on the job and covers it, or leaves it    *)
(* finished.                                                               *)
(***************************************************************************)
LEMMA BusyStepsKeepDelivery ==
    ASSUME TypeOK, TypeOK', DeliveryInv, NEW w \in Workers, WorkerNext(w),
           ~ReadMessage(w), ~Ack(w), ~Crash(w)
    PROVE  DeliveryInv'
<1> USE DEF At, Jump, storeVars, indexVars, groupVars, localVars, sideVars, Finished
<1>1. /\ Grows /\ OthersStay(w)
      /\ \A v \in Workers \ {w} : pc'[v] = pc[v] /\ again'[v] = again[v]
  BY WorkerGrows, AgainStays DEF OthersStay
<1>2. pc \in [Workers -> PcValues] /\ again \in [Workers -> BOOLEAN] /\ kv \in [Jobs -> JobHash]
  BY DeliveryTypes
<1>3. pc[w] # "idle"
  BY DEF WorkerNext, WorkerStep, Publish, LoadJob, GetCurrent, GetPersisted,
     ReadForUpdate, AfterRead, WriteSkipped, WriteProcessing, WriteClassified,
     WriteFailed, MarkProcessing, Analyse, AnalyseRejects, Move, MoveRefused,
     Commit, CommitConflicts, PublishVideo, PublishLegacy, PublishAction,
     WriteRuntime, CallRaises, TryPcs, MarkFailed, Requeue, MoveToDlq
<1>4. PICK j \in Jobs : j = Job(w)
  BY <1>3, JobIsJob
<1>5. SUFFICES /\ pc'[w] # "idle"
               /\ UNCHANGED <<msg, delivered, pel>>
               /\ \A i \in Jobs \ {j} : kv'[i] = kv[i]
               /\ \/ ~Finished(w)'
                  \/ Finished(w) /\ kv'[j] = kv[j]
                  \/ ~Unfinished(j)'
                  \/ Covered(j)'
  <2>1. Held'
    BY <1>1, <1>3, <1>5 DEF DeliveryInv, Held
  <2>2. ASSUME NEW i \in Jobs, Unfinished(i)' PROVE Covered(i)'
    <3>1. CASE i # j
      <4>1. Covered(i)
        BY <1>5, <2>2, <3>1 DEF DeliveryInv, Unfinished, Exists
      <4> QED
        BY <1>1, <1>3, <1>4, <1>5, <3>1, <4>1, CoverStays
    <3>2. CASE i = j /\ ~Finished(w)'
      <4>1. msg[w] \in DOMAIN stream' /\ stream'[msg[w]] = j /\ msg[w] \in pel'
        BY <1>1, <1>3, <1>4, <1>5, JobIsJob DEF Grows, Job, DeliveryInv, Held
      <4>2. \A v \in Workers : pc'[v] # "idle" /\ msg'[v] = msg[w] => ~Finished(v)'
        BY <1>5, <2>1, <3>2 DEF Held
      <4> QED
        BY <3>2, <4>1, <4>2 DEF Covered, Covers
    <3>3. CASE i = j /\ Finished(w) /\ kv'[j] = kv[j]
      <4>1. Covered(i)
        BY <2>2, <3>3 DEF DeliveryInv, Unfinished, Exists
      <4> QED
        BY <1>1, <1>3, <1>5, <3>3, <4>1, CoverStays
    <3> QED
      BY <1>5, <2>2, <3>1, <3>2, <3>3
  <2> QED
    BY <2>1, <2>2 DEF DeliveryInv
<1>6. CASE LoadJob(w)
  BY <1>2, <1>4, <1>6 DEF LoadJob, Exists, Unfinished
<1>7. CASE GetCurrent(w)
  BY <1>2, <1>4, <1>7 DEF GetCurrent, Terminal, Unfinished
<1>8. CASE GetPersisted(w)
  BY <1>2, <1>4, <1>8 DEF GetPersisted
<1>9. CASE ReadForUpdate(w)
  BY <1>2, <1>4, <1>9 DEF ReadForUpdate, AfterRead
<1>10. CASE WriteSkipped(w)
  BY <1>2, <1>4, <1>10 DEF WriteSkipped, HSet, Terminal, Unfinished
<1>11. CASE WriteProcessing(w)
  BY <1>2, <1>4, <1>11 DEF WriteProcessing, HSet
<1>12. CASE WriteClassified(w)
  BY <1>2, <1>4, <1>12 DEF WriteClassified, HSet, Terminal, Unfinished, Proceed, Except
<1>13. CASE WriteFailed(w)
  BY <1>2, <1>4, <1>13 DEF WriteFailed, HSet, Terminal, Unfinished
<1>14. CASE MarkProcessing(w)
  BY <1>2, <1>4, <1>14 DEF MarkProcessing, KeyTaken, Proceed, Except
<1>15. CASE Analyse(w)
  BY <1>2, <1>4, <1>15 DEF Analyse
<1>16. CASE AnalyseRejects(w)
  BY <1>2, <1>4, <1>16 DEF AnalyseRejects, Except
<1>17. CASE Move(w)
  BY <1>2, <1>4, <1>17 DEF Move, Proceed, Except
<1>18. CASE MoveRefused(w)
  BY <1>2, <1>4, <1>18 DEF MoveRefused, Except
<1>19. CASE Commit(w)
  BY <1>2, <1>4, <1>19 DEF Commit, Proceed, Except
<1>20. CASE CommitConflicts(w)
  BY <1>2, <1>4, <1>20 DEF CommitConflicts, Except
<1>21. CASE PublishVideo(w)
  BY <1>2, <1>4, <1>21 DEF PublishVideo, Publish, Proceed, Except
<1>22. CASE PublishLegacy(w)
  BY <1>2, <1>4, <1>22 DEF PublishLegacy, Publish, Proceed, Except
<1>23. CASE PublishAction(w)
  BY <1>2, <1>4, <1>23 DEF PublishAction, Publish, Proceed, Except
<1>24. CASE WriteRuntime(w)
  BY <1>2, <1>4, <1>24 DEF WriteRuntime, Publish, Proceed, Except
<1>25. CASE CallRaises(w)
  BY <1>2, <1>4, <1>25 DEF CallRaises, Except, TryPcs
<1>26. CASE MarkFailed(w)
  BY <1>2, <1>4, <1>26 DEF MarkFailed
<1>27. CASE Requeue(w)
  <2>1. CASE Exists(Job(w))
    <3>1. XAdd(Job(w)) /\ UNCHANGED <<kv, delivered, pel, msg>>
      BY <1>27, <2>1 DEF Requeue
    <3>2. /\ Len(stream) + 1 \in DOMAIN stream' /\ stream'[Len(stream) + 1] = j
          /\ Len(stream) + 1 > delivered'
      BY <1>4, <1>27, <3>1, DeliveryTypes, AppendFacts DEF Requeue, XAdd
    <3>3. Covered(j)'
      BY <3>2 DEF Covered, Covers
    <3> QED
      BY <1>2, <1>4, <1>27, <3>1, <3>3 DEF Requeue
  <2>2. CASE ~Exists(Job(w))
    BY <1>2, <1>4, <1>27, <2>2 DEF Requeue, Exists, Unfinished, Finished
  <2> QED
    BY <2>1, <2>2
<1>28. CASE MoveToDlq(w)
  BY <1>2, <1>4, <1>28 DEF MoveToDlq
<1> QED
  BY <1>6, <1>7, <1>8, <1>9, <1>10, <1>11, <1>12, <1>13, <1>14, <1>15,
     <1>16, <1>17, <1>18, <1>19, <1>20, <1>21, <1>22, <1>23, <1>24,
     <1>25, <1>26, <1>27, <1>28
  DEF WorkerNext, WorkerStep

(***************************************************************************)
(* With the pipelined enqueue, whatever requests race, workers fail or     *)
(* crash, a job that is not finished has a message some worker still has   *)
(* to finish.                                                              *)
(***************************************************************************)
THEOREM DeliveryInvariant ==
    ASSUME ~ClusterMode
    PROVE  Spec => [](TypeOK /\ DeliveryInv)
<1>1. Init => DeliveryInv
  BY DEF Init, ApiInit, StoreInit, DeliveryInv, Held, Unfinished, Exists, NoHash
<1>2. TypeOK /\ TypeOK' /\ DeliveryInv /\ [Next]_vars => DeliveryInv'
  <2> SUFFICES ASSUME TypeOK, TypeOK', DeliveryInv, [Next]_vars
               PROVE  DeliveryInv'
    OBVIOUS
  <2>1. CASE Api
    BY <2>1, ApiKeepsDelivery
  <2>2. ASSUME NEW w \in Workers, WorkerNext(w) PROVE DeliveryInv'
    BY <2>2, GroupStepsKeepDelivery, BusyStepsKeepDelivery
  <2>3. CASE UNCHANGED vars
    BY <2>3 DEF vars, storeVars, workerVars, DeliveryInv, Held, Unfinished, Exists,
                Covered, Covers, Finished
  <2> QED
    BY <2>1, <2>2, <2>3 DEF Next
<1> QED
  BY <1>1, <1>2, TypeCorrect, PTL DEF Spec

(***************************************************************************)
(* With the pipelined enqueue no job is dropped.                           *)
(***************************************************************************)
THEOREM NothingDropped ==
    ASSUME ~ClusterMode
    PROVE  Spec => []NoJobDropped
<1>1. TypeOK /\ DeliveryInv => NoJobDropped
  BY DEF DeliveryInv, Unfinished, Covered, Covers, NoJobDropped, Unacked
<1> QED
  BY <1>1, DeliveryInvariant, PTL

-----------------------------------------------------------------------------
(* An accepted job has a message.                                         *)

(***************************************************************************)
(* A message for the job was added once.                                   *)
(***************************************************************************)
HasMessage(j) == \E m \in DOMAIN stream : stream[m] = j

(***************************************************************************)
(* What a request relies on.  It looks for the hash of its own job first;  *)
(* when it is about to answer for a job it found, the hash of that job     *)
(* exists; and when it has answered, the job has a message.                *)
(***************************************************************************)
Trusts(r) ==
    /\ apiPc[r] \in {"start", "unique"} => target[r] = JobOf[r]
    /\ apiPc[r] = "index" => Exists(target[r])
    /\ apiPc[r] = "accepted" => HasMessage(target[r])

(***************************************************************************)
(* A job hash implies a message, which is what enqueue_video_job trusts    *)
(* when it answers 202 for a job it finds.  One MULTI/EXEC writes both.    *)
(***************************************************************************)
DurableInv ==
    /\ \A j \in Jobs : Exists(j) => HasMessage(j)
    /\ \A r \in Requests : Trusts(r)

(***************************************************************************)
(* A request that a step leaves alone keeps what it relies on, if no hash  *)
(* disappears.                                                             *)
(***************************************************************************)
LEMMA TrustStays ==
    ASSUME TypeOK, Grows, \A j \in Jobs : Exists(j) => kv'[j].status # "none",
           NEW r \in Requests, Trusts(r),
           apiPc'[r] = apiPc[r], target'[r] = target[r]
    PROVE  Trusts(r)'
<1>1. target[r] \in Jobs
  BY DEF TypeOK, ApiTypeOK
<1> QED
  BY <1>1 DEF Trusts, Exists, HasMessage, Grows

(***************************************************************************)
(* No request breaks the trust: a hash is only written together with a     *)
(* message.                                                                *)
(***************************************************************************)
LEMMA ApiKeepsDurable ==
    ASSUME ~ClusterMode, TypeOK, DurableInv, Api
    PROVE  DurableInv'
<1> USE DEF Goto, storeVars
<1>1. Grows
  BY ApiGrows
<1>2. PICK r \in Requests : RequestStep(r) \/ RequestFails(r)
  BY DEF Api, ApiNext
<1>3. /\ apiPc \in [Requests -> ApiPcs] /\ target \in [Requests -> Jobs]
      /\ kv \in [Jobs -> JobHash] /\ stream \in Seq(Jobs) /\ Len(stream) \in Nat
  BY DEF TypeOK, ApiTypeOK, StoreTypeOK
<1>4. JobOf[r] \in Jobs /\ target[r] \in Jobs
  BY <1>3, RequestsAssumption
<1>5. Trusts(r) /\ \A j \in Jobs : Exists(j) => HasMessage(j)
  BY DEF DurableInv
<1>6. SUFFICES /\ \A q \in Requests \ {r} : apiPc'[q] = apiPc[q] /\ target'[q] = target[q]
               /\ \/ kv' = kv
                  \/ HSet(target[r], "QUEUED", 0) /\ XAdd(target[r])
               /\ Trusts(r)'
  <2>1. CASE kv' = kv
    <3>1. \A q \in Requests \ {r} : Trusts(q)'
      BY <1>1, <1>6, <2>1, TrustStays DEF DurableInv, Exists
    <3>2. \A j \in Jobs : Exists(j)' => HasMessage(j)'
      BY <1>1, <1>5, <2>1 DEF Exists, HasMessage, Grows
    <3> QED
      BY <1>6, <3>1, <3>2 DEF DurableInv
  <2>2. CASE HSet(target[r], "QUEUED", 0) /\ XAdd(target[r])
    <3>1. /\ kv'[target[r]].status = "QUEUED"
          /\ \A j \in Jobs \ {target[r]} : kv'[j] = kv[j]
      BY <1>3, <1>4, <2>2 DEF HSet
    <3>2. \A q \in Requests \ {r} : Trusts(q)'
      <4>1. \A j \in Jobs : Exists(j) => kv'[j].status # "none"
        BY <3>1 DEF Exists
      <4> QED
        BY <1>1, <1>6, <4>1, TrustStays DEF DurableInv
    <3>3. Len(stream) + 1 \in DOMAIN stream' /\ stream'[Len(stream) + 1] = target[r]
      BY <1>3, <1>4, <2>2, AppendFacts DEF XAdd
    <3>4. \A j \in Jobs : Exists(j)' => HasMessage(j)'
      BY <1>1, <1>5, <3>1, <3>3 DEF Exists, HasMessage, Grows
    <3> QED
      BY <1>6, <3>2, <3>4 DEF DurableInv
  <2> QED
    BY <1>6, <2>1, <2>2
<1>7. CASE LookupJob(r)
  BY <1>3, <1>4, <1>5, <1>7 DEF LookupJob, Trusts, Exists
<1>8. CASE LookupUnique(r)
  BY <1>3, <1>4, <1>5, <1>8 DEF LookupUnique, Trusts, Exists
<1>9. CASE LookupDuplicate(r)
  BY <1>3, <1>4, <1>5, <1>9 DEF LookupDuplicate, Trusts, Exists
<1>10. CASE RepairVideoIndex(r)
  BY <1>3, <1>4, <1>5, <1>10 DEF RepairVideoIndex, Reply, Trusts, HasMessage
<1>11. CASE WriteAll(r)
  <2>1. XAdd(target[r]) /\ HSet(target[r], "QUEUED", 0) /\ target' = target
        /\ (apiPc' = [apiPc EXCEPT ![r] = "accepted"] \/ apiPc' = [apiPc EXCEPT ![r] = "failed"])
    BY <1>11 DEF WriteAll, Reply
  <2>2. Len(stream) + 1 \in DOMAIN stream' /\ stream'[Len(stream) + 1] = target[r]
    BY <1>3, <1>4, <2>1, AppendFacts DEF XAdd
  <2> QED
    BY <1>3, <2>1, <2>2 DEF Trusts, HasMessage
<1>12. CASE WriteUnique(r)
  BY <1>3, <1>12 DEF WriteUnique, Trusts
<1>13. CASE WriteVideo(r)
  BY <1>3, <1>13 DEF WriteVideo, Trusts
<1>14. CASE AppendMessage(r)
  <2>1. XAdd(target[r]) /\ target' = target /\ kv' = kv
        /\ (apiPc' = [apiPc EXCEPT ![r] = "accepted"] \/ apiPc' = [apiPc EXCEPT ![r] = "failed"])
    BY <1>14 DEF AppendMessage, Reply
  <2>2. Len(stream) + 1 \in DOMAIN stream' /\ stream'[Len(stream) + 1] = target[r]
    BY <1>3, <1>4, <2>1, AppendFacts DEF XAdd
  <2> QED
    BY <1>3, <2>1, <2>2 DEF Trusts, HasMessage
<1>15. CASE RequestFails(r)
  BY <1>3, <1>15 DEF RequestFails, Trusts
<1> QED
  BY <1>2, <1>7, <1>8, <1>9, <1>10, <1>11, <1>12, <1>13, <1>14, <1>15
  DEF RequestStep, Write, WriteHash

(***************************************************************************)
(* A worker writes the hash of the job its message names and of no other.  *)
(***************************************************************************)
LEMMA WorkerKeepsDurable ==
    ASSUME TypeOK, DurableInv, NEW w \in Workers, WorkerNext(w)
    PROVE  DurableInv'
<1>1. Grows
  BY WorkerGrows
<1>2. UNCHANGED apiVars
  BY DEF WorkerNext, WorkerStep, Publish, ReadMessage, LoadJob, GetCurrent,
     GetPersisted, ReadForUpdate, WriteSkipped, WriteProcessing, WriteClassified,
     WriteFailed, MarkProcessing, Analyse, AnalyseRejects, Move, MoveRefused,
     Commit, CommitConflicts, PublishVideo, PublishLegacy, PublishAction,
     WriteRuntime, CallRaises, MarkFailed, Requeue, MoveToDlq, Ack, Crash
<1>3. \/ kv' = kv
      \/ /\ pc[w] # "idle"
         /\ \E s \in Statuses, n \in Nat : HSet(Job(w), s, n)
  <2>1. snap[w].attempts \in Nat /\ snap[w].attempts + 1 \in Nat
    BY DEF TypeOK, WorkerTypeOK, JobHash
  <2>2. CASE WriteSkipped(w) \/ WriteProcessing(w) \/ WriteClassified(w) \/ WriteFailed(w)
    BY <2>1, <2>2 DEF WriteSkipped, WriteProcessing, WriteClassified, WriteFailed, At, Statuses
  <2> QED
    BY <2>2 DEF WorkerNext, WorkerStep, Publish, ReadMessage, LoadJob, GetCurrent,
       GetPersisted, ReadForUpdate, MarkProcessing, Analyse, AnalyseRejects, Move,
       MoveRefused, Commit, CommitConflicts, PublishVideo, PublishLegacy,
       PublishAction, WriteRuntime, CallRaises, MarkFailed, Requeue, MoveToDlq,
       Ack, Crash, storeVars
<1>4. kv \in [Jobs -> JobHash]
  BY DEF TypeOK, ApiTypeOK, StoreTypeOK
<1>5. /\ \A j \in Jobs : Exists(j) => kv'[j].status # "none"
      /\ \A j \in Jobs : kv'[j].status # "none" => Exists(j) \/ HasMessage(j)
  <2>1. CASE kv' = kv
    BY <2>1 DEF Exists
  <2>2. CASE pc[w] # "idle" /\ \E s \in Statuses, n \in Nat : HSet(Job(w), s, n)
    <3>1. Job(w) \in Jobs /\ HasMessage(Job(w))
      BY <2>2, JobIsJob DEF HasMessage, Job
    <3> QED
      BY <1>4, <2>2, <3>1 DEF HSet, Exists, Statuses
  <2> QED
    BY <1>3, <2>1, <2>2
<1>6. \A r \in Requests : Trusts(r)'
  BY <1>1, <1>2, <1>5, TrustStays DEF DurableInv, apiVars
<1>7. \A j \in Jobs : Exists(j)' => HasMessage(j)'
  BY <1>1, <1>5 DEF DurableInv, Exists, HasMessage, Grows
<1> QED
  BY <1>6, <1>7 DEF DurableInv

(***************************************************************************)
(* With the pipelined enqueue, a 202 means that a message for the job is   *)
(* in the stream.                                                          *)
(***************************************************************************)
THEOREM AcceptedDurable ==
    ASSUME ~ClusterMode
    PROVE  Spec => []AcceptedIsDurable
<1>1. Init => DurableInv
  BY DEF Init, ApiInit, StoreInit, DurableInv, Trusts, Exists, NoHash
<1>2. TypeOK /\ DurableInv /\ [Next]_vars => DurableInv'
  <2> SUFFICES ASSUME TypeOK, DurableInv, [Next]_vars PROVE DurableInv'
    OBVIOUS
  <2>1. CASE Api
    BY <2>1, ApiKeepsDurable
  <2>2. ASSUME NEW w \in Workers, WorkerNext(w) PROVE DurableInv'
    BY <2>2, WorkerKeepsDurable
  <2>3. CASE UNCHANGED vars
    BY <2>3 DEF vars, storeVars, apiVars, DurableInv, Trusts, Exists, HasMessage
  <2> QED
    BY <2>1, <2>2, <2>3 DEF Next
<1>3. DurableInv => AcceptedIsDurable
  BY DEF DurableInv, Trusts, HasMessage, AcceptedIsDurable
<1> QED
  BY <1>1, <1>2, <1>3, TypeCorrect, PTL DEF Spec

-----------------------------------------------------------------------------
(* Jobs enqueued once.                                                     *)

(***************************************************************************)
(* No job id is submitted by two calls.  Two jobs may still have one key,  *)
(* and both Redis clients are covered.                                     *)
(***************************************************************************)
EnqueuedOnce == \A q, r \in Requests : JobOf[q] = JobOf[r] => q = r

\* A worker that may still write about its job.
Working(w) == pc[w] \notin {"idle", "ack"}

\* A message that has such a worker, or will have one.
Live(m) == m > delivered \/ \E w \in Workers : Working(w) /\ msg[w] = m

\* A job that may be attempted (again).
Ready(j) ==
    /\ kv[j].status \in {"QUEUED", "FAILED_RETRYABLE"}
    /\ kv[j].attempts < MaxAttempts
    /\ pgJob[j] # "CLASSIFIED"

ReadyPcs == {"load", "current", "persisted", "procRead", "procWrite", "requeue"}
FailPcs == {"failRead", "failWrite", "markFailed"}
CommittedPcs == {"pushVideo", "pushLegacy", "pushAction", "writeRuntime",
                 "doneRead", "doneWrite"}

(***************************************************************************)
(* What the stores say of the job while its only worker is at some place:  *)
(* nobody else writes about it, so the hash read for update_status is the  *)
(* hash written over, the attempts are the worker's own, and the outputs   *)
(* are those of this run.  A row in PostgreSQL never says CLASSIFIED when  *)
(* a run begins, because a run that failed after its commit overwrote it.  *)
(***************************************************************************)
Once(w, j) ==
    /\ pc[w] \in ReadyPcs => Ready(j)
    /\ pc[w] \notin {"skipRead", "skipWrite"}
    /\ pc[w] \in {"procWrite", "doneWrite", "failWrite"} => snap[w] = kv[j]
    /\ pc[w] \in TryPcs \cup FailPcs => kv[j].attempts = tries[w]
    /\ pc[w] \in TryPcs => kv[j].status = "PROCESSING"
    /\ pc[w] \in FailPcs /\ again[w] => tries[w] < MaxAttempts
    /\ pc[w] \in {"failRead", "failWrite"} => kv[j].status \in {"PROCESSING", "CLASSIFIED"}
    /\ pc[w] = "markFailed" =>
           kv[j].status = IF again[w] THEN "FAILED_RETRYABLE" ELSE "FAILED_TERMINAL"
    /\ pc[w] = "dlq" =>
           kv[j].status = "FAILED_TERMINAL" /\ pgJob[j] \in {"none", "FAILED_TERMINAL"}
    /\ pc[w] \in CommittedPcs =>
           pgJob[j] = "CLASSIFIED" /\ (need[w] <=> pgResult[j] = "move")
    /\ pc[w] = "pushVideo" => published[j] = {}
    /\ pc[w] = "pushLegacy" => published[j] = {"video"}
    /\ pc[w] = "pushAction" => need[w] /\ published[j] = {"video", "legacy"}
    /\ pc[w] = "writeRuntime" => published[j] = Owed(j) \ {"runtime"}
    /\ pc[w] \in {"doneRead", "doneWrite"} => published[j] = Owed(j)

(***************************************************************************)
(* A message of the job is not acknowledged and not about to be: it is     *)
(* undelivered, somebody works on it, or somebody died on it.              *)
(***************************************************************************)
Keeps(m, j) ==
    /\ m \in DOMAIN stream /\ stream[m] = j
    /\ \/ m > delivered
       \/ m \in pel /\ \A w \in Workers : pc[w] = "ack" => msg[w] # m

Kept(j) == \E m \in DOMAIN stream : Keeps(m, j)

Agreed(j) == pgJob[j] \in {"none", kv[j].status}

JobOnce(j) ==
    /\ kv[j].attempts <= MaxAttempts
    /\ kv[j].status = "CLASSIFIED" => published[j] = Owed(j)
    /\ ~Exists(j) => pgJob[j] = "none"

\* A message that is done with is followed by no other one of its job.
DeadLettered(m) ==
    /\ kv[stream[m]].status = "FAILED_TERMINAL"
    /\ \A n \in DOMAIN stream : Live(n) => stream[n] # stream[m]

OneLive ==
    \A m, n \in DOMAIN stream : Live(m) /\ Live(n) /\ stream[m] = stream[n] => m = n

\* The hash of a job nobody has worked on.
Queued == [status |-> "QUEUED", attempts |-> 0]

(***************************************************************************)
(* A call that has not added its message is the only one that will: before *)
(* it writes there is no hash, and until it appends there is no message.   *)
(***************************************************************************)
Fresh(r) ==
    LET j == JobOf[r]
    IN /\ apiPc[r] \in {"start", "unique", "write"} => ~Exists(j)
       /\ apiPc[r] \in {"start", "unique", "write", "writeUnique", "writeVideo", "append"}
              => target[r] = j
       /\ apiPc[r] \in {"writeUnique", "writeVideo", "append"} =>
              /\ kv[j] = Queued
              /\ pgJob[j] = "none"
              /\ ~HasMessage(j)

OnceInv ==
    /\ Held
    /\ \A w \in Workers, j \in Jobs : pc[w] # "idle" /\ Job(w) = j => Once(w, j)
    /\ \A j \in Jobs : JobOnce(j) /\ (Agreed(j) \/ Kept(j))
    /\ \A m \in DOMAIN stream, j \in Jobs : m > delivered /\ stream[m] = j => Ready(j)
    /\ OneLive
    /\ \A m \in dlq : DeadLettered(m)
    /\ \A r \in Requests : Fresh(r)

(***************************************************************************)
(* The stores and locals these steps are about, well typed.                *)
(***************************************************************************)
LEMMA OnceTypes ==
    ASSUME TypeOK
    PROVE  /\ pc \in [Workers -> PcValues] /\ again \in [Workers -> BOOLEAN]
           /\ need \in [Workers -> BOOLEAN] /\ tries \in [Workers -> Nat]
           /\ snap \in [Workers -> JobHash] /\ kv \in [Jobs -> JobHash]
           /\ pgJob \in [Jobs -> Statuses \cup {"none"}]
           /\ pgResult \in [Jobs -> {"none", "stay", "move"}]
           /\ published \in [Jobs -> SUBSET Outputs]
           /\ MaxAttempts \in Nat \ {0}
  BY WorkersAssumption DEF TypeOK, WorkerTypeOK, SideTypeOK, ApiTypeOK, StoreTypeOK

(***************************************************************************)
(* What is owed after each publication.                                    *)
(***************************************************************************)
LEMMA OwedFacts ==
    ASSUME NEW j \in Jobs
    PROVE  /\ pgResult[j] = "move" =>
                  /\ Owed(j) \ {"runtime"} = {"video", "legacy", "action"}
                  /\ Owed(j) = {"video", "legacy", "action", "runtime"}
           /\ pgResult[j] # "move" =>
                  /\ Owed(j) \ {"runtime"} = {"video", "legacy"}
                  /\ Owed(j) = {"video", "legacy", "runtime"}
  BY DEF Owed

(***************************************************************************)
(* The except branch: the attempts and the limit decide about a retry.     *)
(***************************************************************************)
LEMMA ExceptKeepsOnce ==
    ASSUME TypeOK, NEW w \in Workers, NEW b \in BOOLEAN, Except(w, b),
           NEW j \in Jobs, kv'[j].attempts = tries[w], tries' = tries,
           kv'[j].status \in {"PROCESSING", "CLASSIFIED"}
    PROVE  Once(w, j)' /\ pc'[w] = "failRead"
<1>1. pc'[w] = "failRead" /\ (again'[w] => tries[w] < MaxAttempts)
  BY OnceTypes DEF Except, Jump
<1> QED
  BY <1>1 DEF Once, ReadyPcs, FailPcs, CommittedPcs, TryPcs

(***************************************************************************)
(* The steps before the try: the job is ready until the attempt is         *)
(* counted, and then it is the worker's.                                   *)
(***************************************************************************)
LEMMA OnceBeforeTry ==
    ASSUME TypeOK, NEW w \in Workers, NEW j \in Jobs, j = Job(w),
           pc[w] # "idle", Exists(j), Once(w, j), JobOnce(j),
           \/ LoadJob(w) \/ GetCurrent(w) \/ GetPersisted(w)
           \/ ReadForUpdate(w) \/ WriteSkipped(w) \/ WriteProcessing(w)
    PROVE  Once(w, j)' /\ JobOnce(j)' /\ pc'[w] # "ack"
<1> USE DEF At, Jump, storeVars, localVars, sideVars, ReadyPcs, FailPcs, CommittedPcs, TryPcs
<1>1. ASSUME UNCHANGED <<kv, pgJob, pgResult, published>>
      PROVE  JobOnce(j)' /\ (Ready(j) => Ready(j)') /\ (published[j] = Owed(j) => published[j]' = Owed(j)')
  BY <1>1 DEF JobOnce, Ready, Owed, Exists
<1>2. CASE LoadJob(w)
  <2>1. pc[w] = "load" /\ pc'[w] = "current" /\ UNCHANGED <<kv, pgJob, pgResult, published>>
    BY <1>2, OnceTypes DEF LoadJob
  <2> QED
    BY <1>1, <2>1 DEF Once
<1>3. CASE GetCurrent(w)
  <2>1. Ready(j)
    BY <1>3 DEF GetCurrent, Once
  <2>2. pc'[w] = "persisted" /\ UNCHANGED <<kv, pgJob, pgResult, published>>
    BY <1>3, <2>1, OnceTypes DEF GetCurrent, Ready, Terminal
  <2> QED
    BY <1>1, <2>1, <2>2 DEF Once
<1>4. CASE GetPersisted(w)
  <2>1. Ready(j)
    BY <1>4 DEF GetPersisted, Once
  <2>2. pc'[w] = "procRead" /\ UNCHANGED <<kv, pgJob, pgResult, published>>
    BY <1>4, <2>1, OnceTypes DEF GetPersisted, Ready
  <2> QED
    BY <1>1, <2>1, <2>2 DEF Once
<1>5. CASE ReadForUpdate(w)
  <2>1. /\ UNCHANGED <<kv, pgJob, pgResult, published, tries, need, again>>
        /\ snap'[w] = kv'[j]
    BY <1>5, OnceTypes DEF ReadForUpdate
  <2>2. \/ pc[w] = "procRead" /\ pc'[w] = "procWrite"
        \/ pc[w] = "doneRead" /\ pc'[w] = "doneWrite"
        \/ pc[w] = "failRead" /\ pc'[w] = "failWrite"
    BY <1>5, OnceTypes DEF ReadForUpdate, AfterRead, Once
  <2> QED
    BY <1>1, <2>1, <2>2 DEF Once
<1>6. CASE WriteSkipped(w)
  BY <1>6 DEF WriteSkipped, Once
<1>7. CASE WriteProcessing(w)
  <2>1. Ready(j) /\ snap[w] = kv[j]
    BY <1>7 DEF WriteProcessing, Once
  <2>2. kv[j].attempts \in Nat /\ kv[j].attempts + 1 <= MaxAttempts
    BY <2>1, OnceTypes DEF Ready, JobHash
  <2>3. /\ kv'[j] = [status |-> "PROCESSING", attempts |-> kv[j].attempts + 1]
        /\ tries'[w] = kv[j].attempts + 1 /\ pc'[w] = "mark"
    BY <1>7, <2>1, OnceTypes DEF WriteProcessing, HSet
  <2>4. Once(w, j)'
    BY <2>3 DEF Once
  <2>5. JobOnce(j)'
    BY <2>2, <2>3 DEF JobOnce, Exists
  <2> QED
    BY <2>3, <2>4, <2>5
<1> QED
  BY <1>2, <1>3, <1>4, <1>5, <1>6, <1>7

(***************************************************************************)
(* A call of the try goes on at its label, or to the except branch.        *)
(***************************************************************************)
LEMMA ProceedKeepsOnce ==
    ASSUME TypeOK, NEW w \in Workers, NEW l \in PcValues, Proceed(w, l),
           NEW j \in Jobs, kv'[j].attempts = tries[w], tries' = tries,
           kv'[j].status \in {"PROCESSING", "CLASSIFIED"},
           pc'[w] = l => Once(w, j)'
    PROVE  Once(w, j)' /\ pc'[w] \in {l, "failRead"}
<1>1. CASE Jump(w, l)
  BY <1>1, OnceTypes DEF Jump
<1>2. CASE Except(w, TRUE)
  BY <1>2, ExceptKeepsOnce
<1> QED
  BY <1>1, <1>2 DEF Proceed

(***************************************************************************)
(* The steps of the try up to the commit: nothing is published by them.    *)
(***************************************************************************)
LEMMA OnceBeforeCommit ==
    ASSUME TypeOK, NEW w \in Workers, NEW j \in Jobs, j = Job(w),
           Exists(j), Once(w, j), JobOnce(j),
           \/ MarkProcessing(w) \/ Analyse(w) \/ AnalyseRejects(w) \/ Move(w)
           \/ MoveRefused(w) \/ CommitConflicts(w) \/ CallRaises(w)
    PROVE  Once(w, j)' /\ JobOnce(j)' /\ pc'[w] # "ack"
<1> USE DEF At, storeVars, localVars, sideVars, pgVars
<1>1. pc[w] \in TryPcs /\ kv' = kv /\ tries' = tries
  BY DEF MarkProcessing, Analyse, AnalyseRejects, Move, MoveRefused,
         CommitConflicts, CallRaises, TryPcs
<1>2. kv'[j].status = "PROCESSING" /\ kv'[j].attempts = tries[w]
  BY <1>1 DEF Once
<1>3. JobOnce(j)'
  BY <1>1, <1>2 DEF JobOnce, Exists
<1>4. {"analyse", "commit"} \subseteq PcValues
  BY DEF PcValues
<1>5. ASSUME pc'[w] \in {"analyse", "move", "commit"}
      PROVE  Once(w, j)'
  BY <1>1, <1>2, <1>5 DEF Once, ReadyPcs, FailPcs, CommittedPcs
<1>6. CASE MarkProcessing(w)
  BY <1>1, <1>2, <1>3, <1>4, <1>5, <1>6, ProceedKeepsOnce DEF MarkProcessing, KeyTaken
<1>7. CASE Analyse(w)
  <2>1. pc'[w] \in {"move", "commit"}
    BY <1>7, OnceTypes DEF Analyse, Jump
  <2> QED
    BY <1>3, <1>5, <2>1
<1>8. CASE AnalyseRejects(w)
  BY <1>1, <1>2, <1>3, <1>8, ExceptKeepsOnce DEF AnalyseRejects
<1>9. CASE Move(w)
  BY <1>1, <1>2, <1>3, <1>4, <1>5, <1>9, ProceedKeepsOnce DEF Move
<1>10. CASE MoveRefused(w)
  BY <1>1, <1>2, <1>3, <1>10, ExceptKeepsOnce DEF MoveRefused
<1>11. CASE CommitConflicts(w)
  BY <1>1, <1>2, <1>3, <1>11, ExceptKeepsOnce DEF CommitConflicts
<1>12. CASE CallRaises(w)
  BY <1>1, <1>2, <1>3, <1>12, ExceptKeepsOnce DEF CallRaises
<1> QED
  BY <1>6, <1>7, <1>8, <1>9, <1>10, <1>11, <1>12

(***************************************************************************)
(* The commit and what follows it: the outputs of the run add up to what   *)
(* is owed for its result, and only then is the hash CLASSIFIED, as the    *)
(* row is.                                                                 *)
(***************************************************************************)
LEMMA OnceFromCommit ==
    ASSUME TypeOK, NEW w \in Workers, NEW j \in Jobs, j = Job(w),
           Exists(j), Once(w, j), JobOnce(j), Justified(j),
           \/ Commit(w) \/ PublishVideo(w) \/ PublishLegacy(w)
           \/ PublishAction(w) \/ WriteRuntime(w) \/ WriteClassified(w)
    PROVE  Once(w, j)' /\ JobOnce(j)' /\ (pc'[w] = "ack" => Agreed(j)')
<1> USE DEF At, storeVars, localVars, sideVars, pgVars
<1>1. pc[w] \in TryPcs /\ UNCHANGED <<tries, need>>
  BY DEF Commit, PublishVideo, PublishLegacy, PublishAction, WriteRuntime, Publish,
         WriteClassified, TryPcs
<1>2. kv[j].status = "PROCESSING" /\ kv[j].attempts = tries[w]
  BY <1>1 DEF Once
<1>3. {"pushVideo", "pushLegacy", "pushAction", "writeRuntime", "doneRead", "ack"}
         \subseteq PcValues
  BY DEF PcValues
<1>4. ASSUME kv' = kv
      PROVE  JobOnce(j)' /\ kv'[j].status = "PROCESSING" /\ kv'[j].attempts = tries[w]
  BY <1>2, <1>4 DEF JobOnce, Exists
<1>5. CASE Commit(w)
  <2>1. /\ kv' = kv /\ published' = published /\ pgResult[j] = "none"
        /\ pgResult'[j] = (IF need[w] THEN "move" ELSE "stay")
        /\ pgJob'[j] = "CLASSIFIED" /\ Proceed(w, "pushVideo")
    BY <1>5, OnceTypes DEF Commit, Committable, NoRows
  <2>2. published'[j] = {}
    BY <2>1 DEF Justified
  <2>3. need'[w] <=> pgResult'[j] = "move"
    BY <1>1, <2>1
  <2>4. pc'[w] = "pushVideo" => Once(w, j)'
    BY <1>1, <1>4, <2>1, <2>2, <2>3 DEF Once, ReadyPcs, FailPcs, CommittedPcs
  <2>5. "pushVideo" \in PcValues
    BY <1>3
  <2>6. Once(w, j)' /\ pc'[w] \in {"pushVideo", "failRead"}
    BY <1>1, <1>4, <2>1, <2>4, <2>5, ProceedKeepsOnce
  <2> QED
    BY <1>4, <2>1, <2>6
<1>6. ASSUME NEW here, NEW output \in Outputs, NEW l \in CommittedPcs,
             Publish(w, here, output, l), here \in CommittedPcs,
             l = "pushLegacy" => published[j] \cup {output} = {"video"},
             l = "pushAction" => need[w] /\ published[j] \cup {output} = {"video", "legacy"},
             l = "writeRuntime" => published[j] \cup {output} = Owed(j) \ {"runtime"},
             l = "doneRead" => published[j] \cup {output} = Owed(j),
             l \in {"pushLegacy", "pushAction", "writeRuntime", "doneRead"}
      PROVE  Once(w, j)' /\ JobOnce(j)' /\ (pc'[w] = "ack" => Agreed(j)')
  <2>1. /\ kv' = kv /\ pgJob' = pgJob /\ pgResult' = pgResult
        /\ published'[j] = published[j] \cup {output}
        /\ Proceed(w, l) /\ pc[w] \in CommittedPcs
    BY <1>6, OnceTypes DEF Publish
  <2>2. pgJob'[j] = "CLASSIFIED" /\ (need'[w] <=> pgResult'[j] = "move")
    BY <1>1, <2>1 DEF Once
  <2>3. Owed(j)' = Owed(j)
    BY <2>1 DEF Owed
  <2>4. pc'[w] = l => Once(w, j)'
    BY <1>1, <1>4, <1>6, <2>1, <2>2, <2>3 DEF Once, ReadyPcs, FailPcs
  <2>5. l \in PcValues
    BY <1>3, <1>6
  <2>6. Once(w, j)' /\ pc'[w] \in {l, "failRead"}
    BY <1>1, <1>4, <2>1, <2>4, <2>5, ProceedKeepsOnce
  <2> QED
    BY <1>4, <1>6, <2>1, <2>6
<1>8. pc[w] \in CommittedPcs => (need[w] <=> pgResult[j] = "move")
  BY DEF Once
<1>9. {"pushVideo", "pushLegacy", "pushAction", "writeRuntime", "doneRead"}
          \subseteq CommittedPcs /\ {"video", "legacy", "action", "runtime"} \subseteq Outputs
  BY DEF CommittedPcs, Outputs
<1>10. CASE PublishVideo(w)
  <2>1. published[j] \cup {"video"} = {"video"}
    BY <1>10 DEF PublishVideo, Publish, Once
  <2>2. Publish(w, "pushVideo", "video", "pushLegacy")
    BY <1>10 DEF PublishVideo
  <2> QED
    BY <1>6, <1>9, <2>1, <2>2
<1>11. CASE PublishLegacy(w)
  <2>1. pc[w] = "pushLegacy" /\ published[j] \cup {"legacy"} = {"video", "legacy"}
    BY <1>11 DEF PublishLegacy, Publish, Once
  <2>2. CASE need[w]
    <3>1. Publish(w, "pushLegacy", "legacy", "pushAction")
      BY <1>11, <2>2 DEF PublishLegacy
    <3> QED
      BY <1>6, <1>9, <2>1, <2>2, <3>1
  <2>3. CASE ~need[w]
    <3>1. Publish(w, "pushLegacy", "legacy", "writeRuntime")
      BY <1>11, <2>3 DEF PublishLegacy
    <3>2. published[j] \cup {"legacy"} = Owed(j) \ {"runtime"}
      BY <1>8, <1>9, <2>1, <2>3, OwedFacts
    <3> QED
      BY <1>6, <1>9, <3>1, <3>2
  <2> QED
    BY <2>2, <2>3
<1>12. CASE PublishAction(w)
  <2>1. pc[w] = "pushAction" /\ need[w] /\ published[j] = {"video", "legacy"}
    BY <1>12 DEF PublishAction, Publish, Once
  <2>2. published[j] \cup {"action"} = {"video", "legacy", "action"}
    BY <2>1
  <2>3. published[j] \cup {"action"} = Owed(j) \ {"runtime"}
    BY <1>8, <1>9, <2>1, <2>2, OwedFacts
  <2>4. Publish(w, "pushAction", "action", "writeRuntime")
    BY <1>12 DEF PublishAction
  <2> QED
    BY <1>6, <1>9, <2>3, <2>4
<1>13. CASE WriteRuntime(w)
  <2>1. published[j] = Owed(j) \ {"runtime"} /\ "runtime" \in Owed(j)
    BY <1>13 DEF WriteRuntime, Publish, Once, Owed
  <2>2. published[j] \cup {"runtime"} = Owed(j)
    BY <2>1
  <2>3. Publish(w, "writeRuntime", "runtime", "doneRead")
    BY <1>13 DEF WriteRuntime
  <2> QED
    BY <1>6, <1>9, <2>2, <2>3
<1>14. CASE WriteClassified(w)
  <2>1. /\ snap[w] = kv[j] /\ pgJob[j] = "CLASSIFIED" /\ published[j] = Owed(j)
        /\ UNCHANGED <<pgJob, pgResult, published>> /\ Proceed(w, "ack")
    BY <1>14 DEF WriteClassified, Once, CommittedPcs
  <2>2. kv'[j] = [status |-> "CLASSIFIED", attempts |-> kv[j].attempts]
    BY <1>14, <2>1, OnceTypes DEF WriteClassified, HSet
  <2>3. JobOnce(j)' /\ Agreed(j)'
    BY <2>1, <2>2 DEF JobOnce, Agreed, Exists, Owed
  <2>4. pc'[w] = "ack" => Once(w, j)'
    BY DEF Once, ReadyPcs, FailPcs, CommittedPcs, TryPcs
  <2>5. "ack" \in PcValues
    BY <1>3
  <2>6. kv'[j].attempts = tries[w] /\ kv'[j].status = "CLASSIFIED"
    BY <1>2, <2>2
  <2> QED
    BY <1>1, <2>1, <2>3, <2>4, <2>5, <2>6, ProceedKeepsOnce
<1> QED
  BY <1>5, <1>10, <1>11, <1>12, <1>13, <1>14

(***************************************************************************)
(* The except path: the hash and the row say the same failure, and a job   *)
(* that is requeued may be attempted again.                                *)
(***************************************************************************)
LEMMA OnceAfterFailure ==
    ASSUME TypeOK, NEW w \in Workers, NEW j \in Jobs, j = Job(w),
           Exists(j), Once(w, j), JobOnce(j),
           WriteFailed(w) \/ MarkFailed(w) \/ Requeue(w) \/ MoveToDlq(w)
    PROVE  /\ Once(w, j)' /\ JobOnce(j)'
           /\ pc'[w] = "ack" => pc[w] = "requeue" \/ Agreed(j)'
<1> USE DEF At, Jump, storeVars, localVars, sideVars, ReadyPcs, FailPcs, CommittedPcs, TryPcs
<1>1. CASE WriteFailed(w)
  <2>1. /\ snap[w] = kv[j] /\ kv[j].attempts = tries[w]
        /\ again[w] => tries[w] < MaxAttempts
    BY <1>1 DEF WriteFailed, Once
  <2>2. /\ kv'[j] = [status |-> IF again[w] THEN "FAILED_RETRYABLE" ELSE "FAILED_TERMINAL",
                     attempts |-> kv[j].attempts]
        /\ UNCHANGED <<again, tries>> /\ pc'[w] = "markFailed"
    BY <1>1, <2>1, OnceTypes DEF WriteFailed, HSet
  <2>3. kv'[j].attempts = kv[j].attempts
        /\ kv'[j].status = IF again[w] THEN "FAILED_RETRYABLE" ELSE "FAILED_TERMINAL"
    BY <2>2
  <2>4. Once(w, j)'
    BY <2>1, <2>2, <2>3 DEF Once
  <2>5. JobOnce(j)'
    BY <2>3 DEF JobOnce, Exists
  <2> QED
    BY <2>2, <2>4, <2>5
<1>2. CASE MarkFailed(w)
  <2>1. /\ UNCHANGED <<kv, published, pgResult, again, tries>>
        /\ kv[j].attempts = tries[w] /\ (again[w] => tries[w] < MaxAttempts)
        /\ kv[j].status = IF again[w] THEN "FAILED_RETRYABLE" ELSE "FAILED_TERMINAL"
        /\ pc'[w] = IF again[w] THEN "requeue" ELSE "dlq"
    BY <1>2, OnceTypes DEF MarkFailed, Once
  <2>2. pgJob'[j] = "none" \/ pgJob'[j] = IF again[w] THEN "FAILED_RETRYABLE" ELSE "FAILED_TERMINAL"
    BY <1>2, OnceTypes DEF MarkFailed
  <2>3. Once(w, j)'
    BY <2>1, <2>2 DEF Once, Ready
  <2>4. JobOnce(j)'
    BY <2>1 DEF JobOnce, Exists, Owed
  <2> QED
    BY <2>1, <2>3, <2>4
<1>3. CASE Requeue(w)
  <2>1. UNCHANGED <<kv, published, pgResult, pgJob>> /\ pc'[w] = "ack" /\ pc[w] = "requeue"
    BY <1>3, OnceTypes DEF Requeue
  <2> QED
    BY <2>1 DEF Once, JobOnce, Exists, Owed
<1>4. CASE MoveToDlq(w)
  <2>1. UNCHANGED <<kv, published, pgResult, pgJob>> /\ pc'[w] = "ack" /\ pc[w] = "dlq"
    BY <1>4, OnceTypes DEF MoveToDlq
  <2>2. Agreed(j)'
    BY <2>1 DEF Once, Agreed
  <2> QED
    BY <2>1, <2>2 DEF Once, JobOnce, Exists, Owed
<1> QED
  BY <1>1, <1>2, <1>3, <1>4

(***************************************************************************)
(* A worker's own step keeps what its place says of its job; when it is    *)
(* done with the job, the stores agree or a message has been added.        *)
(***************************************************************************)
LEMMA OwnStepKeepsOnce ==
    ASSUME TypeOK, NEW w \in Workers, Working(w), NEW j \in Jobs, j = Job(w),
           Exists(j), Once(w, j), JobOnce(j), Justified(j),
           WorkerNext(w), ~Crash(w)
    PROVE  /\ Once(w, j)' /\ JobOnce(j)'
           /\ pc'[w] = "ack" => pc[w] = "requeue" \/ Agreed(j)'
<1>1. pc[w] # "idle" /\ ~ReadMessage(w) /\ ~Ack(w)
  BY DEF Working, ReadMessage, Ack, At
<1>2. CASE \/ LoadJob(w) \/ GetCurrent(w) \/ GetPersisted(w)
           \/ ReadForUpdate(w) \/ WriteSkipped(w) \/ WriteProcessing(w)
  <2>1. Once(w, j)' /\ JobOnce(j)' /\ pc'[w] # "ack"
    BY <1>1, <1>2, OnceBeforeTry
  <2> QED
    BY <2>1
<1>3. CASE \/ MarkProcessing(w) \/ Analyse(w) \/ AnalyseRejects(w) \/ Move(w)
           \/ MoveRefused(w) \/ CommitConflicts(w) \/ CallRaises(w)
  <2>1. Once(w, j)' /\ JobOnce(j)' /\ pc'[w] # "ack"
    BY <1>3, OnceBeforeCommit
  <2> QED
    BY <2>1
<1>4. CASE \/ Commit(w) \/ PublishVideo(w) \/ PublishLegacy(w)
           \/ PublishAction(w) \/ WriteRuntime(w) \/ WriteClassified(w)
  <2>1. Once(w, j)' /\ JobOnce(j)' /\ (pc'[w] = "ack" => Agreed(j)')
    BY <1>4, OnceFromCommit
  <2> QED
    BY <2>1
<1>5. CASE WriteFailed(w) \/ MarkFailed(w) \/ Requeue(w) \/ MoveToDlq(w)
  BY <1>5, OnceAfterFailure
<1> QED
  BY <1>1, <1>2, <1>3, <1>4, <1>5 DEF WorkerNext, WorkerStep

(***************************************************************************)
(* What the stores hold of a job is left alone.                            *)
(***************************************************************************)
SameJob(j) ==
    /\ kv'[j] = kv[j] /\ pgJob'[j] = pgJob[j]
    /\ pgResult'[j] = pgResult[j] /\ published'[j] = published[j]

LocalsStay(v) ==
    /\ pc'[v] = pc[v] /\ msg'[v] = msg[v] /\ snap'[v] = snap[v]
    /\ tries'[v] = tries[v] /\ need'[v] = need[v] /\ again'[v] = again[v]

(***************************************************************************)
(* A worker touches its own locals, and of the stores only its own job     *)
(* while it works on one.                                                  *)
(***************************************************************************)
LEMMA WorkerFrame ==
    ASSUME TypeOK, NEW w \in Workers, WorkerNext(w)
    PROVE  /\ \A v \in Workers \ {w} : LocalsStay(v)
           /\ \A j \in Jobs : j # Job(w) \/ ~Working(w) => SameJob(j)
           /\ UNCHANGED <<apiPc, target>>
<1> USE OnceTypes
    DEF At, Jump, storeVars, indexVars, groupVars, localVars, sideVars, pgVars,
        apiVars, SameJob, LocalsStay, Working
<1>1. msg \in [Workers -> 0..delivered]
  BY DEF TypeOK, WorkerTypeOK
<1>2. CASE ReadMessage(w)
  BY <1>1, <1>2 DEF ReadMessage
<1>3. CASE LoadJob(w) \/ GetCurrent(w) \/ GetPersisted(w)
  BY <1>1, <1>3 DEF LoadJob, GetCurrent, GetPersisted
<1>4. CASE ReadForUpdate(w)
  BY <1>1, <1>4 DEF ReadForUpdate
<1>5. CASE WriteSkipped(w)
  BY <1>1, <1>5 DEF WriteSkipped, HSet
<1>6. CASE WriteProcessing(w)
  BY <1>1, <1>6 DEF WriteProcessing, HSet
<1>7. CASE WriteClassified(w)
  BY <1>1, <1>7 DEF WriteClassified, HSet, Proceed, Except
<1>8. CASE WriteFailed(w)
  BY <1>1, <1>8 DEF WriteFailed, HSet
<1>9. CASE MarkProcessing(w)
  BY <1>1, <1>9 DEF MarkProcessing, KeyTaken, Proceed, Except
<1>10. CASE Analyse(w)
  BY <1>1, <1>10 DEF Analyse
<1>11. CASE AnalyseRejects(w)
  BY <1>1, <1>11 DEF AnalyseRejects, Except
<1>12. CASE Move(w) \/ MoveRefused(w)
  BY <1>1, <1>12 DEF Move, MoveRefused, Proceed, Except
<1>13. CASE Commit(w)
  BY <1>1, <1>13 DEF Commit, Proceed, Except
<1>14. CASE CommitConflicts(w) \/ CallRaises(w)
  BY <1>1, <1>14 DEF CommitConflicts, CallRaises, Except
<1>15. ASSUME NEW here \in CommittedPcs, NEW o, NEW l, Publish(w, here, o, l)
       PROVE  /\ \A v \in Workers \ {w} : LocalsStay(v)
              /\ \A j \in Jobs : j # Job(w) \/ ~Working(w) => SameJob(j)
              /\ UNCHANGED <<apiPc, target>>
  BY <1>1, <1>15 DEF Publish, Proceed, Except, CommittedPcs
<1>16. CASE PublishVideo(w) \/ PublishLegacy(w) \/ PublishAction(w) \/ WriteRuntime(w)
  <2>1. {"pushVideo", "pushLegacy", "pushAction", "writeRuntime"} \subseteq CommittedPcs
    BY DEF CommittedPcs
  <2> QED
    BY <1>15, <1>16, <2>1 DEF PublishVideo, PublishLegacy, PublishAction, WriteRuntime
<1>17. CASE MarkFailed(w)
  BY <1>1, <1>17 DEF MarkFailed
<1>18. CASE Requeue(w) \/ MoveToDlq(w)
  BY <1>1, <1>18 DEF Requeue, MoveToDlq
<1>19. CASE Ack(w) \/ Crash(w)
  BY <1>1, <1>19 DEF Ack, Crash, Release
<1> QED
  BY <1>2, <1>3, <1>4, <1>5, <1>6, <1>7, <1>8, <1>9, <1>10, <1>11, <1>12,
     <1>13, <1>14, <1>16, <1>17, <1>18, <1>19
  DEF WorkerNext, WorkerStep

(***************************************************************************)
(* What a worker's step does to the group, the stream and the dead-letter  *)
(* stream.                                                                 *)
(***************************************************************************)
Takes(w) ==
    /\ pc[w] = "idle" /\ pc'[w] = "load"
    /\ delivered < Len(stream) /\ delivered' = delivered + 1
    /\ msg'[w] = delivered + 1 /\ pel' = pel \cup {delivered + 1}
    /\ UNCHANGED <<stream, dlq>>

LetsGo(w) ==
    /\ pc[w] # "idle" /\ pc'[w] = "idle"
    /\ pel' = pel \/ (pc[w] = "ack" /\ pel' = pel \ {msg[w]})
    /\ UNCHANGED <<stream, delivered, dlq>>

Adds(w) ==
    /\ pc[w] = "requeue" /\ pc'[w] = "ack"
    /\ stream' = Append(stream, Job(w))
    /\ UNCHANGED <<delivered, pel, dlq, msg>>

Buries(w) ==
    /\ pc[w] = "dlq" /\ pc'[w] = "ack"
    /\ dlq' = dlq \cup {msg[w]}
    /\ UNCHANGED <<stream, delivered, pel, msg>>

GoesOn(w) ==
    /\ Working(w) /\ pc'[w] # "idle"
    /\ UNCHANGED <<stream, delivered, pel, dlq, msg>>

(***************************************************************************)
(* A worker's step is one of these five.  Letting go of a message writes   *)
(* nothing, and adding one leaves the hash and the row alone.              *)
(***************************************************************************)
LEMMA WorkerMessages ==
    ASSUME TypeOK, NEW w \in Workers, WorkerNext(w)
    PROVE  \/ Takes(w)
           \/ /\ LetsGo(w) /\ (Ack(w) \/ Crash(w))
              /\ UNCHANGED <<kv, pgJob, pgResult, published>>
           \/ Adds(w) /\ UNCHANGED <<kv, pgJob>>
           \/ Buries(w) /\ UNCHANGED kv
           \/ GoesOn(w) /\ (pc[w] = "requeue" => ~Exists(Job(w)))
<1> USE OnceTypes DEF At, Jump, storeVars, indexVars, groupVars, localVars, sideVars, Working
<1>1. msg \in [Workers -> 0..delivered]
  BY DEF TypeOK, WorkerTypeOK
<1>2. CASE ReadMessage(w)
  BY <1>1, <1>2 DEF ReadMessage, XReadGroup, Takes
<1>3. CASE Ack(w)
  BY <1>1, <1>3 DEF Ack, XAck, Release, LetsGo
<1>4. CASE Crash(w)
  BY <1>1, <1>4 DEF Crash, Release, LetsGo
<1>5. CASE Requeue(w)
  BY <1>5 DEF Requeue, XAdd, Adds, GoesOn
<1>6. CASE MoveToDlq(w)
  BY <1>6 DEF MoveToDlq, Buries
<1>7. CASE LoadJob(w) \/ GetCurrent(w) \/ GetPersisted(w) \/ ReadForUpdate(w)
  BY <1>7 DEF LoadJob, GetCurrent, GetPersisted, ReadForUpdate, AfterRead, GoesOn
<1>8. CASE WriteSkipped(w) \/ WriteProcessing(w) \/ WriteFailed(w) \/ MarkFailed(w)
  BY <1>8 DEF WriteSkipped, WriteProcessing, WriteFailed, MarkFailed, GoesOn
<1>9. ASSUME NEW l, l # "idle", Proceed(w, l) PROVE pc'[w] # "idle"
  BY <1>9 DEF Proceed, Except
<1>10. CASE WriteClassified(w)
  BY <1>9, <1>10 DEF WriteClassified, GoesOn
<1>11. CASE MarkProcessing(w) \/ Move(w) \/ Commit(w)
  BY <1>9, <1>11 DEF MarkProcessing, Move, Commit, GoesOn
<1>12. CASE Analyse(w)
  BY <1>12 DEF Analyse, GoesOn
<1>13. CASE AnalyseRejects(w) \/ MoveRefused(w) \/ CommitConflicts(w) \/ CallRaises(w)
  BY <1>13 DEF AnalyseRejects, MoveRefused, CommitConflicts, CallRaises, TryPcs, Except, GoesOn
<1>14. CASE PublishVideo(w) \/ PublishLegacy(w) \/ PublishAction(w) \/ WriteRuntime(w)
  BY <1>9, <1>14 DEF PublishVideo, PublishLegacy, PublishAction, WriteRuntime, Publish, GoesOn
<1> QED
  BY <1>2, <1>3, <1>4, <1>5, <1>6, <1>7, <1>8, <1>10, <1>11, <1>12, <1>13, <1>14
  DEF WorkerNext, WorkerStep

(***************************************************************************)
(* Whatever a worker does, each busy worker holds a pending message of its *)
(* own.                                                                    *)
(***************************************************************************)
LEMMA HeldStays ==
    ASSUME TypeOK, Held, NEW w \in Workers, WorkerNext(w)
    PROVE  Held'
<1>1. \A v \in Workers \ {w} : pc'[v] = pc[v] /\ msg'[v] = msg[v]
  BY WorkerFrame DEF LocalsStay
<1>2. /\ \A v \in Workers : msg[v] \in 0..delivered
      /\ delivered \in Nat
  BY DeliveryTypes
<1>3. CASE Takes(w)
  <2>1. \A v \in Workers : pc[v] # "idle" => msg[v] # delivered + 1
    BY <1>2
  <2> QED
    BY <1>1, <1>3, <2>1 DEF Takes, Held
<1>4. CASE LetsGo(w)
  <2>1. \A v \in Workers \ {w} : pc[v] # "idle" => msg[v] # msg[w]
    BY <1>4 DEF LetsGo, Held
  <2> QED
    BY <1>1, <1>4, <2>1 DEF LetsGo, Held
<1>5. CASE Adds(w) \/ Buries(w) \/ GoesOn(w)
  BY <1>1, <1>5 DEF Adds, Buries, GoesOn, Working, Held
<1> QED
  BY <1>3, <1>4, <1>5, WorkerMessages

(***************************************************************************)
(* No message comes to life but by being added, and the one a worker is    *)
(* done with does not live on.                                             *)
(***************************************************************************)
LEMMA LiveShrinks ==
    ASSUME TypeOK, Held, NEW w \in Workers, WorkerNext(w), NEW m \in Nat, Live(m)'
    PROVE  Live(m) /\ (Working(w) /\ ~Working(w)' => m # msg[w])
<1>1. \A v \in Workers \ {w} : pc'[v] = pc[v] /\ msg'[v] = msg[v]
  BY WorkerFrame DEF LocalsStay
<1>2. msg[w] \in 0..delivered /\ delivered \in Nat /\ Len(stream) \in Nat
  BY DeliveryTypes
<1>3. delivered' = delivered \/ (Takes(w) /\ delivered' = delivered + 1)
  BY WorkerMessages DEF Takes, LetsGo, Adds, Buries, GoesOn
<1>4. CASE m > delivered'
  <2>1. m > delivered
    BY <1>2, <1>3, <1>4
  <2> QED
    BY <1>2, <2>1 DEF Live
<1>5. CASE \E v \in Workers : Working(v)' /\ msg'[v] = m
  <2>1. PICK v \in Workers : Working(v)' /\ msg'[v] = m
    BY <1>5
  <2>2. CASE v = w
    <3>1. CASE Takes(w)
      BY <1>2, <2>1, <2>2, <3>1 DEF Takes, Live, Working
    <3>2. CASE LetsGo(w) \/ Adds(w) \/ Buries(w)
      BY <2>1, <2>2, <3>2 DEF LetsGo, Adds, Buries, Working
    <3>3. CASE GoesOn(w)
      BY <2>1, <2>2, <3>3 DEF GoesOn, Live
    <3> QED
      BY <3>1, <3>2, <3>3, WorkerMessages
  <2>3. CASE v # w
    <3>1. Working(v) /\ msg[v] = m
      BY <1>1, <2>1, <2>3 DEF Working
    <3>2. Working(w) => msg[w] # m
      BY <2>3, <3>1 DEF Held, Working
    <3> QED
      BY <3>1, <3>2 DEF Live
  <2> QED
    BY <2>2, <2>3
<1> QED
  BY <1>4, <1>5 DEF Live

(***************************************************************************)
(* A job has one living message at most: a requeue adds the next one when  *)
(* the worker is done with the last.                                       *)
(***************************************************************************)
LEMMA OneLiveStays ==
    ASSUME TypeOK, Held, OneLive, NEW w \in Workers, WorkerNext(w)
    PROVE  OneLive'
<1>1. stream \in Seq(Jobs) /\ Len(stream) \in Nat
  BY DeliveryTypes
<1>2. CASE stream' = stream
  <2>1. \A m \in DOMAIN stream : m \in Nat
    BY <1>1
  <2> QED
    BY <1>2, <2>1, LiveShrinks DEF OneLive
<1>3. CASE Adds(w)
  <2> DEFINE j == Job(w)
  <2>1. j \in Jobs /\ msg[w] \in DOMAIN stream /\ stream[msg[w]] = j
    BY <1>3, JobIsJob DEF Adds, Job
  <2>2. Working(w) /\ ~Working(w)' /\ Live(msg[w])
    BY <1>3 DEF Adds, Working, Live
  <2>3. stream' = Append(stream, j)
    BY <1>3 DEF Adds
  <2> HIDE DEF j
  <2>4. /\ DOMAIN stream' = DOMAIN stream \cup {Len(stream) + 1}
        /\ \A m \in DOMAIN stream : stream'[m] = stream[m] /\ m \in Nat
        /\ stream'[Len(stream) + 1] = j
    BY <1>1, <2>1, <2>3
  <2>5. ASSUME NEW n \in DOMAIN stream, Live(n)'
        PROVE  Live(n) /\ stream[n] # j
    <3>1. Live(n) /\ n # msg[w]
      BY <2>2, <2>4, <2>5, LiveShrinks
    <3> QED
      BY <2>1, <2>2, <3>1 DEF OneLive
  <2> QED
    BY <2>4, <2>5 DEF OneLive
<1>4. stream' = stream \/ Adds(w)
  BY WorkerMessages DEF Takes, LetsGo, Buries, GoesOn
<1> QED
  BY <1>2, <1>3, <1>4

(***************************************************************************)
(* A job keeps its message through a worker's step, unless the worker was  *)
(* on that job and goes to acknowledge it.                                 *)
(***************************************************************************)
LEMMA KeptStays ==
    ASSUME TypeOK, Grows, NEW w \in Workers, WorkerNext(w), NEW j \in Jobs, Kept(j),
           ~(Working(w) /\ pc'[w] = "ack" /\ Job(w) = j)
    PROVE  Kept(j)'
<1>1. PICK m \in DOMAIN stream : Keeps(m, j)
  BY DEF Kept
<1>2. m \in DOMAIN stream' /\ stream'[m] = j /\ m \in Nat
  BY <1>1, DeliveryTypes DEF Keeps, Grows
<1>3. \A v \in Workers \ {w} : pc'[v] = pc[v] /\ msg'[v] = msg[v]
  BY WorkerFrame DEF LocalsStay
<1>4. /\ \A v \in Workers : msg[v] \in 0..delivered
      /\ delivered \in Nat
  BY DeliveryTypes
<1>5. SUFFICES m > delivered' \/ (m \in pel' /\ \A v \in Workers : pc'[v] = "ack" => msg'[v] # m)
  BY <1>2 DEF Kept, Keeps
<1>6. CASE m > delivered
  <2>1. CASE Takes(w)
    <3>1. \A v \in Workers : pc'[v] = "ack" => msg'[v] # m
      BY <1>2, <1>3, <1>4, <1>6, <2>1 DEF Takes
    <3>2. m > delivered' \/ m \in pel'
      BY <1>2, <1>4, <1>6, <2>1 DEF Takes
    <3> QED
      BY <3>1, <3>2
  <2>2. CASE delivered' = delivered
    BY <1>6, <2>2
  <2> QED
    BY <2>1, <2>2, WorkerMessages DEF LetsGo, Adds, Buries, GoesOn
<1>7. CASE m \in pel /\ \A v \in Workers : pc[v] = "ack" => msg[v] # m
  <2>1. m \in pel'
    BY <1>7, WorkerMessages DEF Takes, LetsGo, Adds, Buries, GoesOn
  <2>2. ASSUME pc'[w] = "ack" PROVE msg'[w] # m
    <3>1. Working(w) /\ msg' = msg
      BY <2>2, WorkerMessages DEF Takes, LetsGo, Adds, Buries, GoesOn, Working
    <3>2. stream[m] = j
      BY <1>1 DEF Keeps
    <3> QED
      BY <2>2, <3>1, <3>2 DEF Job
  <2> QED
    BY <1>3, <1>7, <2>1, <2>2
<1> QED
  BY <1>1, <1>6, <1>7 DEF Keeps(***************************************************************************)
(* What a worker's place says is about its locals and its job alone.       *)
(***************************************************************************)
LEMMA OnceUndisturbed ==
    ASSUME NEW v \in Workers, NEW j \in Jobs, Once(v, j), LocalsStay(v), SameJob(j)
    PROVE  Once(v, j)'
<1>1. Owed(j)' = Owed(j) /\ (Ready(j) => Ready(j)')
  BY DEF SameJob, Owed, Ready
<1> QED
  BY <1>1 DEF Once, LocalsStay, SameJob

(***************************************************************************)
(* A step of a worker that is on a job, and does not die of it, stays on   *)
(* the job, and leaves it agreed on or with a message to come.             *)
(***************************************************************************)
LEMMA BusyStep ==
    ASSUME PipelineInv, OnceInv, NEW w \in Workers, WorkerNext(w),
           Working(w), ~Crash(w), NEW j \in Jobs, j = Job(w)
    PROVE  /\ Once(w, j)' /\ JobOnce(j)'
           /\ Job(w)' = j /\ pc'[w] # "idle" /\ msg' = msg
           /\ Agreed(j)' \/ Kept(j)'
<1>1. TypeOK /\ Held /\ Held' /\ Grows
  BY HeldStays, WorkerGrows DEF PipelineInv, OnceInv
<1>2. msg[w] \in DOMAIN stream /\ pc[w] # "idle" /\ stream[msg[w]] = j
  BY <1>1, JobIsJob DEF Working, Job
<1>3. /\ Exists(j) /\ Justified(j) /\ JobOnce(j) /\ Once(w, j)
  BY <1>2 DEF PipelineInv, NothingDangles, CommitInv, OnceInv
<1>4. /\ Once(w, j)' /\ JobOnce(j)'
      /\ pc'[w] = "ack" => pc[w] = "requeue" \/ Agreed(j)'
  BY <1>1, <1>3, OwnStepKeepsOnce
<1>5. \/ Adds(w)
      \/ Buries(w)
      \/ GoesOn(w) /\ (pc[w] = "requeue" => ~Exists(Job(w)))
  BY <1>1, <1>2, WorkerMessages DEF Takes, Working, Ack, At
<1>6. pc'[w] # "idle" /\ msg' = msg
  BY <1>5 DEF Adds, Buries, GoesOn
<1>7. Job(w)' = j
  BY <1>1, <1>2, <1>6 DEF Job, Grows
<1>8. CASE pc'[w] = "ack" /\ pc[w] = "requeue"
  <2>1. stream' = Append(stream, j) /\ delivered' = delivered
    BY <1>3, <1>5, <1>8 DEF Adds, Buries, GoesOn
  <2>2. Len(stream) + 1 \in DOMAIN stream' /\ stream'[Len(stream) + 1] = j
        /\ Len(stream) + 1 > delivered'
    BY <1>1, <2>1, DeliveryTypes
  <2>3. Kept(j)'
    BY <2>2 DEF Kept, Keeps
  <2> QED
    BY <1>4, <1>6, <1>7, <2>3
<1>9. CASE pc'[w] = "ack" /\ pc[w] # "requeue"
  BY <1>4, <1>6, <1>7, <1>9
<1>10. CASE pc'[w] # "ack"
  <2>1. msg[w] \in pel'
    BY <1>1, <1>6 DEF Held
  <2>2. \A v \in Workers : pc'[v] = "ack" => msg'[v] # msg[w]
    BY <1>1, <1>6, <1>10 DEF Held
  <2>3. msg[w] \in DOMAIN stream' /\ stream'[msg[w]] = j
    BY <1>1, <1>2 DEF Grows
  <2>4. Kept(j)'
    BY <2>1, <2>2, <2>3 DEF Kept, Keeps
  <2> QED
    BY <1>4, <1>6, <1>7, <2>4
<1> QED
  BY <1>8, <1>9, <1>10

(***************************************************************************)
(* No step, failure or crash of a worker breaks what jobs enqueued once    *)
(* rely on.                                                                *)
(***************************************************************************)
LEMMA WorkerKeepsOnce ==
    ASSUME PipelineInv, OnceInv, NEW w \in Workers, WorkerNext(w)
    PROVE  OnceInv'
<1>1. /\ TypeOK /\ Held /\ OneLive /\ Grows
      /\ Held' /\ OneLive'
  BY HeldStays, OneLiveStays, WorkerGrows DEF PipelineInv, OnceInv
<1>2. /\ \A v \in Workers \ {w} : LocalsStay(v)
      /\ \A j \in Jobs : j # Job(w) \/ ~Working(w) => SameJob(j)
      /\ UNCHANGED <<apiPc, target>>
  BY <1>1, WorkerFrame
<1>3. /\ stream \in Seq(Jobs) /\ Len(stream) \in Nat /\ delivered \in 0..Len(stream)
      /\ DOMAIN stream = 1..Len(stream)
      /\ \A v \in Workers : msg[v] \in 0..delivered
      /\ dlq \subseteq 1..delivered
  BY <1>1, DeliveryTypes DEF TypeOK, ApiTypeOK, StoreTypeOK
<1>4. \A v \in Workers : pc[v] # "idle" =>
          msg[v] \in DOMAIN stream /\ Job(v) \in Jobs /\ stream[msg[v]] = Job(v)
  BY <1>1, JobIsJob DEF Job
<1>5. Working(w) => pc[w] # "idle" /\ Live(msg[w])
  BY DEF Live, Working
<1>6. ASSUME NEW m \in DOMAIN stream, Live(m), Working(w) => m # msg[w]
      PROVE  stream[m] \in Jobs /\ SameJob(stream[m])
  <2>1. Working(w) => stream[m] # Job(w)
    BY <1>1, <1>4, <1>5, <1>6 DEF OneLive
  <2> QED
    BY <1>2, <1>3, <2>1
<1>7. ASSUME Crash(w)
      PROVE  \A j \in Jobs : SameJob(j)
  <2>1. pc[w] # "idle" /\ pc'[w] = "idle"
    BY <1>1, <1>7, OnceTypes DEF Crash, Release, Jump
  <2> QED
    BY <1>1, <2>1, WorkerMessages DEF Takes, Adds, Buries, GoesOn, SameJob
<1>8. \A v \in Workers, j \in Jobs : pc'[v] # "idle" /\ Job(v)' = j => Once(v, j)'
  <2> SUFFICES ASSUME NEW v \in Workers, NEW j \in Jobs, pc'[v] # "idle", Job(v)' = j
               PROVE  Once(v, j)'
    OBVIOUS
  <2>1. CASE v # w
    <3>1. LocalsStay(v) /\ pc[v] # "idle"
      BY <1>2, <2>1 DEF LocalsStay
    <3>2. Job(v) = j /\ stream[msg[v]] = j
      BY <1>1, <1>4, <3>1 DEF LocalsStay, Grows, Job
    <3>3. CASE pc[v] = "ack"
      BY <3>1, <3>3 DEF LocalsStay, Once, ReadyPcs, FailPcs, CommittedPcs, TryPcs
    <3>4. CASE Working(v)
      <4>1. Live(msg[v]) /\ (Working(w) => msg[v] # msg[w])
        BY <1>1, <2>1, <3>4 DEF Live, Working, Held
      <4>2. SameJob(j)
        BY <1>4, <1>6, <3>1, <3>2, <4>1
      <4> QED
        BY <3>1, <3>2, <4>2, OnceUndisturbed DEF OnceInv
    <3> QED
      BY <3>1, <3>3, <3>4 DEF Working
  <2>2. CASE v = w /\ Working(w)
    <3>1. ~Crash(w)
      BY <2>2, OnceTypes, <1>1 DEF Crash, Release, Jump
    <3>2. PICK i \in Jobs : i = Job(w)
      BY <1>4, <1>5, <2>2
    <3>3. Once(w, i)' /\ Job(w)' = i
      BY <2>2, <3>1, <3>2, BusyStep
    <3> QED
      BY <2>2, <3>3
  <2>3. CASE v = w /\ ~Working(w)
    <3>1. Takes(w)
      BY <1>1, <2>3, WorkerMessages DEF LetsGo, Adds, Buries, GoesOn, Working
    <3>2. delivered + 1 \in DOMAIN stream /\ delivered + 1 > delivered
          /\ stream[delivered + 1] = j
      BY <1>3, <2>3, <3>1 DEF Takes, Job
    <3>3. Ready(j) /\ SameJob(j)
      BY <1>2, <2>3, <3>2 DEF OnceInv
    <3>4. Ready(j)'
      BY <3>3 DEF Ready, SameJob
    <3> QED
      BY <2>3, <3>1, <3>4 DEF Takes, Once, ReadyPcs, FailPcs, CommittedPcs, TryPcs
  <2> QED
    BY <2>1, <2>2, <2>3
<1>9. ASSUME NEW j \in Jobs
      PROVE  JobOnce(j)' /\ (Agreed(j)' \/ Kept(j)')
  <2>1. CASE Working(w) /\ ~Crash(w) /\ j = Job(w)
    BY <2>1, BusyStep
  <2>2. CASE ~(Working(w) /\ ~Crash(w) /\ j = Job(w))
    <3>1. SameJob(j)
      BY <1>2, <1>7, <2>2
    <3>2. JobOnce(j)'
      BY <3>1 DEF OnceInv, JobOnce, SameJob, Owed, Exists
    <3>3. ~(Working(w) /\ pc'[w] = "ack" /\ Job(w) = j)
      BY <1>1, <2>2, OnceTypes DEF Crash, Release, Jump
    <3>4. Agreed(j) => Agreed(j)'
      BY <3>1 DEF Agreed, SameJob
    <3>5. Kept(j) => Kept(j)'
      BY <1>1, <3>3, KeptStays
    <3> QED
      BY <3>2, <3>4, <3>5 DEF OnceInv
  <2> QED
    BY <2>1, <2>2
<1>10. stream' = stream \/ Adds(w)
  BY <1>1, WorkerMessages DEF Takes, LetsGo, Buries, GoesOn
<1>11. ASSUME Adds(w)
       PROVE  /\ Working(w) /\ ~Working(w)' /\ pc[w] = "requeue"
              /\ DOMAIN stream' = DOMAIN stream \cup {Len(stream) + 1}
              /\ \A m \in DOMAIN stream : stream'[m] = stream[m]
              /\ stream'[Len(stream) + 1] = Job(w)
              /\ delivered' = delivered /\ dlq' = dlq /\ UNCHANGED <<kv, pgJob>>
  <2>1. Working(w) /\ ~Working(w)' /\ pc[w] = "requeue" /\ delivered' = delivered /\ dlq' = dlq
    BY <1>11 DEF Adds, Working
  <2>2. UNCHANGED <<kv, pgJob>>
    BY <1>1, <1>11, <2>1, WorkerMessages DEF Adds, Takes, LetsGo, Buries, GoesOn, Requeue
  <2> QED
    BY <1>3, <1>4, <1>5, <1>11, <2>1, <2>2 DEF Adds
<1>12. ASSUME NEW m \in DOMAIN stream', NEW j \in Jobs, m > delivered', stream'[m] = j
       PROVE  Ready(j)'
  <2>1. CASE m \in DOMAIN stream
    <3>1. stream[m] = j /\ m \in Nat
      BY <1>1, <1>3, <1>12, <2>1 DEF Grows
    <3>2. m > delivered
      <4>1. delivered' = delivered \/ delivered' = delivered + 1
        BY <1>1, WorkerMessages DEF Takes, LetsGo, Adds, Buries, GoesOn
      <4> QED
        BY <1>3, <1>12, <3>1, <4>1
    <3>3. Live(m) /\ m # msg[w]
      BY <1>3, <3>1, <3>2 DEF Live
    <3>4. SameJob(j) /\ Ready(j)
      BY <1>6, <2>1, <3>1, <3>2, <3>3 DEF OnceInv
    <3> QED
      BY <3>4 DEF SameJob, Ready
  <2>2. CASE m \notin DOMAIN stream
    <3>1. Adds(w)
      BY <1>10, <1>12, <2>2
    <3>2. j = Job(w) /\ pc[w] = "requeue" /\ UNCHANGED <<kv, pgJob>>
      BY <1>11, <1>12, <2>2, <3>1
    <3>3. Ready(j)
      BY <3>2 DEF OnceInv, Once, ReadyPcs
    <3> QED
      BY <3>2, <3>3 DEF Ready
  <2> QED
    BY <2>1, <2>2
<1>13. ASSUME NEW n \in DOMAIN stream', Live(n)'
       PROVE  \/ n \in DOMAIN stream /\ Live(n) /\ stream'[n] = stream[n]
              \/ Adds(w) /\ stream'[n] = Job(w)
  <2>1. CASE n \in DOMAIN stream
    BY <1>1, <1>3, <1>13, <2>1, LiveShrinks DEF Grows
  <2>2. CASE n \notin DOMAIN stream
    BY <1>10, <1>11, <1>13, <2>2
  <2> QED
    BY <2>1, <2>2
<1>14. ASSUME NEW m \in dlq' PROVE DeadLettered(m)'
  <2>1. CASE m \in dlq
    <3>1. m \in DOMAIN stream /\ stream'[m] = stream[m] /\ stream[m] \in Jobs
      <4>1. m \in 1..delivered
        BY <1>3, <2>1
      <4>2. m \in 1..Len(stream)
        BY <1>3, <4>1
      <4>3. m \in DOMAIN stream /\ stream[m] \in Jobs
        BY <1>3, <4>2
      <4> QED
        BY <1>1, <4>3 DEF Grows
    <3>2. /\ kv[stream[m]].status = "FAILED_TERMINAL"
          /\ \A n \in DOMAIN stream : Live(n) => stream[n] # stream[m]
      BY <2>1 DEF OnceInv, DeadLettered
    <3>3. Working(w) => Job(w) # stream[m]
      BY <1>4, <1>5, <3>2
    <3>4. kv'[stream[m]] = kv[stream[m]]
      BY <1>2, <3>1, <3>3 DEF SameJob
    <3>5. \A n \in DOMAIN stream' : Live(n)' => stream'[n] # stream[m]
      BY <1>11, <1>13, <3>2, <3>3
    <3> QED
      BY <3>1, <3>2, <3>4, <3>5 DEF DeadLettered
  <2>2. CASE m \notin dlq
    <3>1. Buries(w) /\ m = msg[w] /\ UNCHANGED kv
      BY <1>1, <1>14, <2>2, WorkerMessages DEF Takes, LetsGo, Adds, Buries, GoesOn
    <3>2. Working(w) /\ ~Working(w)' /\ stream' = stream /\ pc[w] = "dlq" /\ ~Adds(w)
      BY <3>1 DEF Buries, Working, Adds
    <3>3. stream[m] = Job(w) /\ Job(w) \in Jobs /\ m \in DOMAIN stream
      BY <1>4, <1>5, <3>1, <3>2
    <3>4. kv[Job(w)].status = "FAILED_TERMINAL"
      BY <1>4, <1>5, <3>2 DEF OnceInv, Once
    <3>5. ASSUME NEW n \in DOMAIN stream', Live(n)', stream'[n] = stream[m]
          PROVE  FALSE
      <4>1. n \in DOMAIN stream /\ n # m
        BY <1>1, <1>3, <3>1, <3>2, <3>5, LiveShrinks
      <4>2. Live(n) /\ stream[n] = stream[m]
        BY <1>13, <3>2, <3>5
      <4> QED
        BY <1>1, <1>5, <3>1, <3>2, <3>3, <4>1, <4>2 DEF OneLive
    <3> QED
      BY <3>1, <3>2, <3>3, <3>4, <3>5 DEF DeadLettered
  <2> QED
    BY <2>1, <2>2
<1>15. ASSUME NEW r \in Requests PROVE Fresh(r)'
  <2> DEFINE j == JobOf[r]
  <2>1. j \in Jobs /\ apiPc' = apiPc /\ target' = target
    BY <1>2, RequestsAssumption
  <2>2. /\ apiPc[r] \in {"start", "unique", "write"} => ~Exists(j)
        /\ apiPc[r] \in {"start", "unique", "write", "writeUnique", "writeVideo", "append"}
              => target[r] = j
        /\ apiPc[r] \in {"writeUnique", "writeVideo", "append"} =>
               /\ kv[j] = Queued
               /\ pgJob[j] = "none"
               /\ ~HasMessage(j)
    BY DEF OnceInv, Fresh
  <2>3. Working(w) => Exists(Job(w)) /\ HasMessage(Job(w))
    BY <1>4, <1>5 DEF PipelineInv, NothingDangles, HasMessage
  <2> HIDE DEF j
  <2>4. Working(w) /\ Job(w) = j => Exists(j) /\ HasMessage(j)
    BY <2>3
  <2>5. ~(Working(w) /\ Job(w) = j) => SameJob(j) /\ (~HasMessage(j) => ~HasMessage(j)')
    <3>1. ~(Working(w) /\ Job(w) = j) => SameJob(j)
      BY <1>2, <2>1
    <3>2. ASSUME ~(Working(w) /\ Job(w) = j), ~HasMessage(j)
          PROVE  ~HasMessage(j)'
      BY <1>10, <1>11, <3>2 DEF HasMessage
    <3> QED
      BY <3>1, <3>2
  <2>6. /\ apiPc'[r] \in {"start", "unique", "write"} => ~Exists(j)'
        /\ apiPc'[r] \in {"start", "unique", "write", "writeUnique", "writeVideo", "append"}
               => target'[r] = j
        /\ apiPc'[r] \in {"writeUnique", "writeVideo", "append"} =>
               /\ kv'[j] = Queued
               /\ pgJob'[j] = "none"
               /\ ~HasMessage(j)'
    <3>1. CASE apiPc[r] \in {"start", "unique", "write"}
      <4>1. ~Exists(j)'
        BY <2>2, <2>4, <2>5, <3>1 DEF SameJob, Exists
      <4> QED
        BY <2>1, <2>2, <3>1, <4>1
    <3>2. CASE apiPc[r] \notin {"start", "unique", "write"}
      BY <2>1, <2>2, <2>4, <2>5, <3>2 DEF SameJob
    <3> QED
      BY <3>1, <3>2
  <2> QED
    BY <2>6 DEF Fresh, j, HasMessage, Exists
<1> QED
  BY <1>1, <1>8, <1>9, <1>12, <1>14, <1>15 DEF OnceInv

(***************************************************************************)
(* A call that has not added its message writes the hash and the message   *)
(* of its own job, each once, and no message of the job is there before.   *)
(***************************************************************************)
Enqueues(r) ==
    LET j == JobOf[r]
    IN /\ \/ kv' = kv
          \/ ~Exists(j) /\ kv' = [kv EXCEPT ![j] = Queued]
       /\ \/ stream' = stream
          \/ stream' = Append(stream, j) /\ kv'[j] = Queued
       /\ UNCHANGED <<kv, stream>> \/ (pgJob[j] = "none" /\ ~HasMessage(j))

(***************************************************************************)
(* What one call does, as far as jobs enqueued once are concerned: the     *)
(* lookups never find its own job, so it writes what it submitted.         *)
(***************************************************************************)
LEMMA RequestEnqueues ==
    ASSUME PipelineInv, OnceInv, NEW r \in Requests, RequestStep(r) \/ RequestFails(r),
           UNCHANGED pgJob
    PROVE  /\ \A q \in Requests \ {r} : apiPc'[q] = apiPc[q] /\ target'[q] = target[q]
           /\ UNCHANGED <<delivered, pel, dlq>>
           /\ Enqueues(r)
           /\ Fresh(r)'
<1> DEFINE j == JobOf[r]
<1> USE DEF Goto, storeVars, indexVars, groupVars
<1>1. /\ apiPc \in [Requests -> ApiPcs] /\ target \in [Requests -> Jobs]
      /\ kv \in [Jobs -> JobHash] /\ j \in Jobs /\ stream \in Seq(Jobs)
  BY RequestsAssumption DEF PipelineInv, TypeOK, ApiTypeOK, StoreTypeOK
<1>2. /\ apiPc[r] \in {"start", "unique", "write"} => ~Exists(j)
      /\ apiPc[r] \in {"start", "unique", "write", "writeUnique", "writeVideo", "append"}
             => target[r] = j
      /\ apiPc[r] \in {"writeUnique", "writeVideo", "append"} =>
             kv[j] = Queued /\ pgJob[j] = "none" /\ ~HasMessage(j)
  BY DEF OnceInv, Fresh, Queued
<1>3. ~Exists(j) => pgJob[j] = "none" /\ ~HasMessage(j)
  BY <1>1 DEF OnceInv, JobOnce, PipelineInv, NothingDangles, HasMessage
<1>4. apiPc[r] = "duplicate" => Exists(target[r])
  BY DEF PipelineInv, TargetInv, FoundOrWritten
<1>5. \A q \in Requests \ {r} : apiPc'[q] = apiPc[q] /\ target'[q] = target[q]
  BY <1>1 DEF RequestStep, RequestFails, LookupJob, LookupUnique, LookupDuplicate,
     RepairVideoIndex, Write, WriteAll, WriteHash, WriteUnique, WriteVideo,
     AppendMessage, Reply
<1>6. UNCHANGED <<delivered, pel, dlq>>
  BY DEF RequestStep, RequestFails, LookupJob, LookupUnique, LookupDuplicate,
     RepairVideoIndex, Write, WriteAll, WriteHash, WriteUnique, WriteVideo,
     AppendMessage
<1>7. SUFFICES Enqueues(r) /\ Fresh(r)'
  BY <1>5, <1>6
<1>8. ASSUME UNCHANGED <<kv, stream>>
      PROVE  Enqueues(r) /\ (~Exists(j) => ~Exists(j)') /\ (~HasMessage(j) => ~HasMessage(j)')
  BY <1>8 DEF Enqueues, Exists, HasMessage
<1>9. ASSUME apiPc'[r] \in {"index", "duplicate", "accepted", "failed"}
      PROVE  Fresh(r)'
  BY <1>9 DEF Fresh
<1>10. CASE LookupJob(r)
  <2>1. apiPc'[r] = "unique" /\ target' = target /\ UNCHANGED <<kv, stream>> /\ ~Exists(j)
        /\ target[r] = j
    BY <1>1, <1>2, <1>10 DEF LookupJob
  <2> QED
    BY <1>8, <2>1 DEF Fresh
<1>11. CASE LookupUnique(r)
  <2>1. UNCHANGED <<kv, stream>> /\ ~Exists(j) /\ target[r] = j
    BY <1>2, <1>11 DEF LookupUnique
  <2>2. apiPc'[r] = "duplicate" \/ (apiPc'[r] = "write" /\ target' = target)
    BY <1>1, <1>11 DEF LookupUnique
  <2> QED
    BY <1>8, <1>9, <2>1, <2>2 DEF Fresh
<1>12. CASE LookupDuplicate(r)
  <2>1. apiPc'[r] = "index" /\ UNCHANGED <<kv, stream>>
    BY <1>1, <1>4, <1>12 DEF LookupDuplicate
  <2> QED
    BY <1>8, <1>9, <2>1
<1>13. CASE RepairVideoIndex(r)
  <2>1. apiPc'[r] \in {"accepted", "failed"} /\ UNCHANGED <<kv, stream>>
    BY <1>1, <1>13 DEF RepairVideoIndex, Reply
  <2> QED
    BY <1>8, <1>9, <2>1
<1>14. CASE WriteAll(r)
  <2>1. apiPc'[r] \in {"accepted", "failed"}
    BY <1>1, <1>14 DEF WriteAll, Reply
  <2>2. ~Exists(j) /\ kv' = [kv EXCEPT ![j] = Queued] /\ stream' = Append(stream, j)
    BY <1>2, <1>14 DEF WriteAll, HSet, XAdd, Queued
  <2>3. kv'[j] = Queued
    BY <1>1, <2>2
  <2> QED
    BY <1>3, <1>9, <2>1, <2>2, <2>3 DEF Enqueues
<1>15. CASE WriteHash(r)
  <2>1. /\ apiPc'[r] = "writeUnique" /\ target' = target /\ target[r] = j
        /\ ~Exists(j) /\ kv' = [kv EXCEPT ![j] = Queued] /\ stream' = stream
    BY <1>1, <1>2, <1>15 DEF WriteHash, HSet, Queued
  <2>2. kv'[j] = Queued /\ pgJob'[j] = "none" /\ ~HasMessage(j)'
    BY <1>1, <1>3, <2>1 DEF HasMessage
  <2>3. Fresh(r)'
    BY <2>1, <2>2 DEF Fresh, Queued
  <2> QED
    BY <1>3, <2>1, <2>3 DEF Enqueues
<1>16. CASE WriteUnique(r) \/ WriteVideo(r)
  <2>1. /\ apiPc[r] \in {"writeUnique", "writeVideo"}
        /\ apiPc'[r] \in {"writeVideo", "append"} /\ target' = target
        /\ UNCHANGED <<kv, stream>>
    BY <1>1, <1>16 DEF WriteUnique, WriteVideo
  <2>2. /\ target'[r] = j /\ kv'[j] = Queued /\ pgJob'[j] = "none" /\ ~HasMessage(j)'
    BY <1>2, <1>8, <2>1
  <2> QED
    BY <1>8, <2>1, <2>2 DEF Fresh, Queued
<1>17. CASE AppendMessage(r)
  <2>1. apiPc'[r] \in {"accepted", "failed"}
    BY <1>1, <1>17 DEF AppendMessage, Reply
  <2>2. kv' = kv /\ stream' = Append(stream, j) /\ kv[j] = Queued
        /\ pgJob[j] = "none" /\ ~HasMessage(j)
    BY <1>2, <1>17 DEF AppendMessage, XAdd
  <2> QED
    BY <1>9, <2>1, <2>2 DEF Enqueues
<1>18. CASE RequestFails(r)
  <2>1. apiPc'[r] = "failed" /\ UNCHANGED <<kv, stream>>
    BY <1>1, <1>18 DEF RequestFails
  <2> QED
    BY <1>8, <1>9, <2>1
<1> QED
  BY <1>10, <1>11, <1>12, <1>13, <1>14, <1>15, <1>16, <1>17, <1>18
  DEF RequestStep, Write

(***************************************************************************)
(* No step of a request breaks what jobs enqueued once rely on.            *)
(***************************************************************************)
LEMMA ApiKeepsOnce ==
    ASSUME EnqueuedOnce, PipelineInv, OnceInv, Api
    PROVE  OnceInv'
<1>1. PICK r \in Requests : RequestStep(r) \/ RequestFails(r)
  BY DEF Api, ApiNext
<1>2. UNCHANGED <<pc, msg, snap, tries, need, again, pgJob, pgResult, published>>
  BY DEF Api, workerVars, sideVars
<1>3. PICK j \in Jobs : j = JobOf[r]
  BY RequestsAssumption
<1>4. /\ \A q \in Requests \ {r} : apiPc'[q] = apiPc[q] /\ target'[q] = target[q]
      /\ UNCHANGED <<delivered, pel, dlq>>
      /\ Fresh(r)'
      /\ kv' = kv \/ (~Exists(j) /\ kv' = [kv EXCEPT ![j] = Queued])
      /\ stream' = stream \/ (stream' = Append(stream, j) /\ kv'[j] = Queued)
      /\ UNCHANGED <<kv, stream>> \/ (pgJob[j] = "none" /\ ~HasMessage(j))
  BY <1>1, <1>2, <1>3, RequestEnqueues DEF Enqueues
<1>5. TypeOK /\ Grows
  BY ApiGrows DEF PipelineInv
<1>6. /\ stream \in Seq(Jobs) /\ Len(stream) \in Nat /\ delivered \in 0..Len(stream)
      /\ DOMAIN stream = 1..Len(stream)
      /\ \A v \in Workers : msg[v] \in 0..delivered
      /\ dlq \subseteq 1..delivered
      /\ kv \in [Jobs -> JobHash] /\ MaxAttempts \in Nat \ {0}
  BY <1>5, DeliveryTypes, OnceTypes DEF TypeOK, ApiTypeOK, StoreTypeOK
<1>7. \A v \in Workers : pc[v] # "idle" =>
          msg[v] \in DOMAIN stream /\ Job(v) \in Jobs /\ stream[msg[v]] = Job(v)
  BY <1>5, JobIsJob DEF Job
<1>8. ASSUME NEW i \in Jobs, i # j \/ HasMessage(i)
      PROVE  SameJob(i)
  <2>1. kv'[i] = kv[i]
    BY <1>4, <1>6, <1>8
  <2> QED
    BY <1>2, <2>1 DEF SameJob
<1>9. \A m \in DOMAIN stream : stream[m] \in Jobs /\ HasMessage(stream[m])
  BY <1>6 DEF HasMessage
<1>10. ASSUME stream' # stream
       PROVE  /\ DOMAIN stream' = DOMAIN stream \cup {Len(stream) + 1}
              /\ stream'[Len(stream) + 1] = j
              /\ \A m \in DOMAIN stream : stream[m] # j
              /\ kv'[j] = Queued /\ pgJob'[j] = "none"
  <2>1. stream' = Append(stream, j) /\ kv'[j] = Queued /\ pgJob[j] = "none" /\ ~HasMessage(j)
    BY <1>4, <1>10
  <2>2. \A m \in DOMAIN stream : stream[m] # j
    BY <2>1 DEF HasMessage
  <2> QED
    BY <1>2, <1>6, <2>1, <2>2
<1>11. \A m \in DOMAIN stream : m \in DOMAIN stream' /\ stream'[m] = stream[m]
  BY <1>5 DEF Grows
<1>12. \A m : Live(m)' <=> Live(m)
  BY <1>2, <1>4 DEF Live, Working
<1>13. Held'
  BY <1>2, <1>4 DEF OnceInv, Held
<1>14. \A v \in Workers, i \in Jobs : pc'[v] # "idle" /\ Job(v)' = i => Once(v, i)'
  <2> SUFFICES ASSUME NEW v \in Workers, NEW i \in Jobs, pc'[v] # "idle", Job(v)' = i
               PROVE  Once(v, i)'
    OBVIOUS
  <2>1. pc[v] # "idle" /\ Job(v) = i /\ HasMessage(i) /\ LocalsStay(v)
    BY <1>2, <1>7, <1>9, <1>11 DEF Job, LocalsStay
  <2>2. Once(v, i) /\ SameJob(i)
    BY <1>8, <2>1 DEF OnceInv
  <2> QED
    BY <2>1, <2>2, OnceUndisturbed
<1>15. ASSUME NEW i \in Jobs
       PROVE  JobOnce(i)' /\ (Agreed(i)' \/ Kept(i)')
  <2>1. Kept(i) => Kept(i)'
    BY <1>2, <1>4, <1>11 DEF Kept, Keeps
  <2>2. CASE SameJob(i)
    <3>1. JobOnce(i)' /\ (Agreed(i) => Agreed(i)')
      BY <2>2 DEF OnceInv, JobOnce, Agreed, SameJob, Owed, Exists
    <3> QED
      BY <2>1, <3>1 DEF OnceInv
  <2>3. CASE ~SameJob(i)
    <3>1. i = j /\ kv'[j] # kv[j]
      BY <1>2, <1>8, <2>3 DEF SameJob
    <3>2. kv'[j] = Queued /\ pgJob'[j] = "none"
      BY <1>2, <1>4, <1>6, <3>1
    <3> QED
      BY <1>6, <3>1, <3>2 DEF JobOnce, Agreed, Queued, Exists
  <2> QED
    BY <2>2, <2>3
<1>16. ASSUME NEW m \in DOMAIN stream', NEW i \in Jobs, m > delivered', stream'[m] = i
       PROVE  Ready(i)'
  <2>1. CASE m \in DOMAIN stream
    <3>1. Ready(i) /\ SameJob(i)
      BY <1>4, <1>8, <1>9, <1>11, <1>16, <2>1 DEF OnceInv
    <3> QED
      BY <3>1 DEF Ready, SameJob
  <2>2. CASE m \notin DOMAIN stream
    <3>1. i = j /\ kv'[j] = Queued /\ pgJob'[j] = "none"
      BY <1>10, <1>16, <2>2
    <3> QED
      BY <1>6, <3>1 DEF Ready, Queued
  <2> QED
    BY <2>1, <2>2
<1>17. OneLive'
  <2>1. CASE stream' = stream
    BY <1>12, <2>1 DEF OnceInv, OneLive
  <2>2. CASE stream' # stream
    BY <1>10, <1>11, <1>12, <2>2 DEF OnceInv, OneLive
  <2> QED
    BY <2>1, <2>2
<1>18. ASSUME NEW m \in dlq' PROVE DeadLettered(m)'
  <2>1. m \in dlq /\ m \in 1..delivered
    BY <1>4, <1>6, <1>18
  <2>2. m \in 1..Len(stream)
    BY <1>6, <2>1
  <2>3. stream'[m] = stream[m] /\ SameJob(stream[m]) /\ m \in DOMAIN stream
    BY <1>6, <1>8, <1>9, <1>11, <2>2
  <2>4. /\ kv[stream[m]].status = "FAILED_TERMINAL"
        /\ \A n \in DOMAIN stream : Live(n) => stream[n] # stream[m]
    BY <2>1 DEF OnceInv, DeadLettered
  <2>5. \A n \in DOMAIN stream' : Live(n)' => stream'[n] # stream[m]
    BY <1>10, <1>11, <1>12, <2>3, <2>4
  <2> QED
    BY <2>3, <2>4, <2>5 DEF DeadLettered, SameJob
<1>19. ASSUME NEW q \in Requests PROVE Fresh(q)'
  <2>1. CASE q # r
    <3> DEFINE i == JobOf[q]
    <3>1. i \in Jobs /\ i # j
      BY <1>3, <2>1, RequestsAssumption DEF EnqueuedOnce
    <3>2. SameJob(i) /\ apiPc'[q] = apiPc[q] /\ target'[q] = target[q]
      BY <1>4, <1>8, <2>1, <3>1
    <3> HIDE DEF i
    <3>3. ~HasMessage(i) => ~HasMessage(i)'
      BY <1>10, <1>11, <3>1 DEF HasMessage
    <3>4. Exists(i)' => Exists(i)
      BY <3>2 DEF SameJob, Exists
    <3>5. Fresh(q)
      BY DEF OnceInv
    <3> QED
      BY <3>2, <3>3, <3>4, <3>5 DEF Fresh, i, SameJob, HasMessage, Exists
  <2> QED
    BY <1>4, <2>1
<1> QED
  BY <1>13, <1>14, <1>15, <1>16, <1>17, <1>18, <1>19 DEF OnceInv

(***************************************************************************)
(* At the start there are no jobs, messages or calls under way.            *)
(***************************************************************************)
LEMMA InitOnce ==
    ASSUME Init
    PROVE  OnceInv
<1>1. /\ \A w \in Workers : pc[w] = "idle"
      /\ stream = <<>> /\ DOMAIN stream = {} /\ dlq = {} /\ target = JobOf
      /\ \A j \in Jobs : kv[j] = NoHash /\ pgJob[j] = "none"
      /\ \A r \in Requests : apiPc[r] = "start" /\ JobOf[r] \in Jobs
  BY RequestsAssumption DEF Init, ApiInit, StoreInit
<1>2. Held /\ OneLive
  BY <1>1 DEF Held, OneLive
<1>3. \A j \in Jobs : JobOnce(j) /\ Agreed(j)
  BY <1>1, WorkersAssumption DEF JobOnce, Agreed, NoHash
<1>4. \A r \in Requests : Fresh(r)
  BY <1>1 DEF Fresh, Exists, NoHash
<1> QED
  BY <1>1, <1>2, <1>3, <1>4 DEF OnceInv

(***************************************************************************)
(* A step that leaves the pipeline alone keeps what jobs enqueued once     *)
(* rely on.                                                                *)
(***************************************************************************)
LEMMA OnceStutters ==
    ASSUME OnceInv, UNCHANGED vars
    PROVE  OnceInv'
<1>1. UNCHANGED <<kv, stream, delivered, pel, dlq, apiPc, target, pc, msg, snap,
                  tries, need, again, pgJob, pgResult, published>>
  BY DEF vars, storeVars, apiVars, workerVars, sideVars
<1>2. Held' /\ OneLive'
  BY <1>1 DEF OnceInv, Held, OneLive, Live, Working
<1>3. \A w \in Workers, j \in Jobs : pc'[w] # "idle" /\ Job(w)' = j => Once(w, j)'
  BY <1>1, OnceUndisturbed DEF OnceInv, Job, LocalsStay, SameJob
<1>4. \A j \in Jobs : JobOnce(j)' /\ (Agreed(j)' \/ Kept(j)')
  BY <1>1 DEF OnceInv, JobOnce, Agreed, Kept, Keeps, Owed, Exists
<1>5. \A m \in DOMAIN stream', j \in Jobs : m > delivered' /\ stream'[m] = j => Ready(j)'
  BY <1>1 DEF OnceInv, Ready
<1>6. \A m \in dlq' : DeadLettered(m)'
  BY <1>1 DEF OnceInv, DeadLettered, Live, Working
<1>7. \A r \in Requests : Fresh(r)'
  BY <1>1 DEF OnceInv, Fresh, Exists, HasMessage
<1> QED
  BY <1>2, <1>3, <1>4, <1>5, <1>6, <1>7 DEF OnceInv

(***************************************************************************)
(* In every reachable state of jobs enqueued once, a job has at most one   *)
(* living message, and the hash, the row and the outputs are what the one  *)
(* worker on it has made of them.                                          *)
(***************************************************************************)
THEOREM OnceInvariant ==
    ASSUME EnqueuedOnce
    PROVE  Spec => [](PipelineInv /\ OnceInv)
<1>1. Init => PipelineInv /\ OnceInv
  <2>1. Init => OnceInv
    BY InitOnce
  <2> QED
    BY <2>1, InitPipeline
<1>2. PipelineInv /\ OnceInv /\ [Next]_vars => (PipelineInv /\ OnceInv)'
  <2> SUFFICES ASSUME PipelineInv, OnceInv, [Next]_vars
               PROVE  PipelineInv' /\ OnceInv'
    OBVIOUS
  <2>1. PipelineInv'
    BY StepKeepsPipeline, PipelineStutters
  <2>2. CASE Api
    BY <2>1, <2>2, ApiKeepsOnce
  <2>3. CASE \E w \in Workers : WorkerNext(w)
    BY <2>1, <2>3, WorkerKeepsOnce
  <2>4. CASE UNCHANGED vars
    <3>1. OnceInv'
      BY <2>4, OnceStutters
    <3> QED
      BY <2>1, <3>1
  <2> QED
    BY <2>2, <2>3, <2>4 DEF Next
<1> QED
  BY <1>1, <1>2, PTL DEF Spec

(***************************************************************************)
(* A job enqueued once is attempted at most queue_max_attempts times,      *)
(* whatever fails and whoever crashes.                                     *)
(***************************************************************************)
THEOREM AttemptsAreBounded ==
    ASSUME EnqueuedOnce
    PROVE  Spec => []AttemptsBounded
<1>1. OnceInv => AttemptsBounded
  BY DEF OnceInv, JobOnce, AttemptsBounded
<1> QED
  BY <1>1, OnceInvariant, PTL

(***************************************************************************)
(* A job enqueued once that the queue calls classified has been published  *)
(* in full.                                                                *)
(***************************************************************************)
THEOREM ClassifiedWasPublished ==
    ASSUME EnqueuedOnce
    PROVE  Spec => []ClassifiedIsPublished
<1>1. OnceInv => ClassifiedIsPublished
  BY DEF OnceInv, JobOnce, ClassifiedIsPublished
<1> QED
  BY <1>1, OnceInvariant, PTL

(***************************************************************************)
(* When the messages of a job enqueued once are all acknowledged, the      *)
(* queue and PostgreSQL say the same of it, or it never got a row.         *)
(***************************************************************************)
THEOREM StoresComeToAgree ==
    ASSUME EnqueuedOnce
    PROVE  Spec => []StoresAgree
<1>1. OnceInv => StoresAgree
  BY DEF OnceInv, Agreed, Kept, Keeps, StoresAgree, Unacked
<1> QED
  BY <1>1, OnceInvariant, PTL

(***************************************************************************)
(* A dead-lettered job enqueued once has failed for good, and stays so.    *)
(***************************************************************************)
THEOREM DeadLettersAreFinal ==
    ASSUME EnqueuedOnce
    PROVE  Spec => []DeadLettersFailed
<1>1. OnceInv => DeadLettersFailed
  BY DEF OnceInv, DeadLettered, DeadLettersFailed
<1> QED
  BY <1>1, OnceInvariant, PTL

(***************************************************************************)
(* What one step may do to the hash of one job.                            *)
(***************************************************************************)
Forward(j) ==
    \/ kv'[j] = kv[j]
    \/ ~Exists(j) /\ kv'[j] = Queued
    \/ /\ kv[j].status \in {"QUEUED", "FAILED_RETRYABLE"}
       /\ kv'[j] = [status |-> "PROCESSING", attempts |-> kv[j].attempts + 1]
    \/ /\ kv[j].status \in {"PROCESSING", "CLASSIFIED"}
       /\ kv'[j].status \in Terminal \cup {"FAILED_RETRYABLE"}
       /\ kv'[j].attempts = kv[j].attempts

(***************************************************************************)
(* A worker writes over the hash it has read, because nobody else writes   *)
(* about its job in between.                                               *)
(***************************************************************************)
LEMMA WorkerMovesForward ==
    ASSUME TypeOK, OnceInv, NEW w \in Workers, WorkerNext(w), NEW j \in Jobs
    PROVE  Forward(j)
<1> USE DEF At, storeVars, localVars, sideVars
<1>1. kv \in [Jobs -> JobHash] /\ again \in [Workers -> BOOLEAN]
  BY OnceTypes
<1>2. ASSUME pc[w] # "idle", Job(w) = j
      PROVE  Once(w, j)
  BY <1>2 DEF OnceInv
<1>3. ASSUME NEW s, NEW n, HSet(Job(w), s, n)
      PROVE  /\ j # Job(w) => kv'[j] = kv[j]
             /\ j = Job(w) => kv'[j] = [status |-> s, attempts |-> n]
  BY <1>1, <1>3 DEF HSet
<1>4. CASE WriteProcessing(w)
  <2>1. HSet(Job(w), "PROCESSING", snap[w].attempts + 1) /\ pc[w] = "procWrite"
    BY <1>4 DEF WriteProcessing
  <2>2. Job(w) = j => snap[w] = kv[j] /\ kv[j].status \in {"QUEUED", "FAILED_RETRYABLE"}
    BY <1>2, <2>1 DEF Once, ReadyPcs, Ready
  <2> QED
    BY <1>3, <2>1, <2>2 DEF Forward
<1>5. CASE WriteClassified(w)
  <2>1. HSet(Job(w), "CLASSIFIED", snap[w].attempts) /\ pc[w] = "doneWrite"
    BY <1>5 DEF WriteClassified
  <2>2. Job(w) = j => snap[w] = kv[j] /\ kv[j].status = "PROCESSING"
    BY <1>2, <2>1 DEF Once, TryPcs
  <2>3. CASE j = Job(w)
    <3>1. kv'[j] = [status |-> "CLASSIFIED", attempts |-> kv[j].attempts]
      BY <1>3, <2>1, <2>2, <2>3
    <3> QED
      BY <2>2, <2>3, <3>1 DEF Forward, Terminal
  <2> QED
    BY <1>3, <2>1, <2>3 DEF Forward
<1>6. CASE WriteFailed(w)
  <2>1. /\ HSet(Job(w), IF again[w] THEN "FAILED_RETRYABLE" ELSE "FAILED_TERMINAL",
                snap[w].attempts)
        /\ pc[w] = "failWrite"
    BY <1>6 DEF WriteFailed
  <2>2. Job(w) = j => snap[w] = kv[j] /\ kv[j].status \in {"PROCESSING", "CLASSIFIED"}
    BY <1>2, <2>1 DEF Once
  <2>3. CASE j = Job(w)
    <3>1. kv'[j] = [status |-> IF again[w] THEN "FAILED_RETRYABLE" ELSE "FAILED_TERMINAL",
                    attempts |-> kv[j].attempts]
      BY <1>3, <2>1, <2>2, <2>3
    <3> QED
      BY <2>2, <2>3, <3>1 DEF Forward, Terminal
  <2> QED
    BY <1>3, <2>1, <2>3 DEF Forward
<1>7. CASE WriteSkipped(w)
  <2>1. HSet(Job(w), "CLASSIFIED", snap[w].attempts) /\ pc[w] = "skipWrite"
    BY <1>7 DEF WriteSkipped
  <2>2. Job(w) # j
    BY <1>2, <2>1 DEF Once
  <2> QED
    BY <1>3, <2>1, <2>2 DEF Forward
<1>8. CASE kv' = kv
  BY <1>8 DEF Forward
<1> QED
  BY <1>4, <1>5, <1>6, <1>7, <1>8
  DEF WorkerNext, WorkerStep, Publish, ReadMessage, LoadJob, GetCurrent, GetPersisted,
      ReadForUpdate, MarkProcessing, Analyse, AnalyseRejects, Move, MoveRefused, Commit,
      CommitConflicts, CallRaises, PublishVideo, PublishLegacy, PublishAction,
      WriteRuntime, MarkFailed, Requeue, MoveToDlq, Ack, Crash

(***************************************************************************)
(* The hash of a job enqueued once only moves forward: no write of         *)
(* update_status or of a second call takes it back to an earlier state.    *)
(***************************************************************************)
THEOREM HashesMoveForward ==
    ASSUME EnqueuedOnce
    PROVE  Spec => StatusMovesForward
<1>1. ASSUME PipelineInv, OnceInv, [Next]_vars, NEW j \in Jobs
      PROVE  Forward(j)
  <2>1. TypeOK
    BY <1>1 DEF PipelineInv
  <2>2. CASE Api
    <3>1. PICK r \in Requests : RequestStep(r) \/ RequestFails(r)
      BY <2>2 DEF Api, ApiNext
    <3>2. UNCHANGED pgJob
      BY <2>2 DEF Api, sideVars
    <3>3. kv' = kv \/ (~Exists(JobOf[r]) /\ kv' = [kv EXCEPT ![JobOf[r]] = Queued])
      BY <1>1, <3>1, <3>2, RequestEnqueues DEF Enqueues
    <3>4. kv \in [Jobs -> JobHash]
      BY <2>1, OnceTypes
    <3> QED
      BY <3>3, <3>4 DEF Forward
  <2>3. CASE \E w \in Workers : WorkerNext(w)
    BY <1>1, <2>1, <2>3, WorkerMovesForward
  <2>4. CASE UNCHANGED vars
    BY <2>4 DEF Forward, vars, storeVars
  <2> QED
    BY <1>1, <2>2, <2>3, <2>4 DEF Next
<1>2. PipelineInv /\ OnceInv /\ [Next]_vars =>
          [\A j \in Jobs :
              \/ kv'[j] = kv[j]
              \/ ~Exists(j) /\ kv'[j] = [status |-> "QUEUED", attempts |-> 0]
              \/ /\ kv[j].status \in {"QUEUED", "FAILED_RETRYABLE"}
                 /\ kv'[j] = [status |-> "PROCESSING", attempts |-> kv[j].attempts + 1]
              \/ /\ kv[j].status \in {"PROCESSING", "CLASSIFIED"}
                 /\ kv'[j].status \in Terminal \cup {"FAILED_RETRYABLE"}
                 /\ kv'[j].attempts = kv[j].attempts]_vars
  BY <1>1 DEF Forward, Queued
<1> QED
  BY <1>2, OnceInvariant, PTL DEF Spec, StatusMovesForward

=============================================================================
