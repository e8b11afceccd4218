------------------------ MODULE VideoPipeline_proofs ------------------------
(***************************************************************************)
(* Proofs about VideoPipeline, for any sets of jobs, requests and workers  *)
(* and any bounds.                                                         *)
(***************************************************************************)
EXTENDS VideoPipeline, VideoDetectApi_proofs, TLAPS

(***************************************************************************)
(* The job a busy worker handles is a job.                                 *)
(***************************************************************************)
LEMMA JobIsJob ==
    ASSUME TypeOK, NEW w \in Workers, pc[w] # "idle"
    PROVE  /\ Job(w) \in Jobs
           /\ msg[w] \in DOMAIN stream
           /\ KeyOf[Job(w)] \in Keys
           /\ VideoOf[Job(w)] \in Videos
  BY JobsAssumption DEF TypeOK, WorkerTypeOK, ApiTypeOK, StoreTypeOK, Job

-----------------------------------------------------------------------------
(* Jumps keep the types of what they write.                                *)

(***************************************************************************)
(* A jump of a busy worker keeps the labels well typed and wakes no        *)
(* worker.                                                                 *)
(***************************************************************************)
LEMMA JumpType ==
    ASSUME pc \in [Workers -> PcValues], NEW w \in Workers, pc[w] # "idle",
           NEW l \in PcValues, Jump(w, l)
    PROVE  /\ pc' \in [Workers -> PcValues]
           /\ \A v \in Workers : pc'[v] # "idle" => pc[v] # "idle"
  BY DEF Jump

(***************************************************************************)
(* Entering the except branch keeps label and retry decision well typed.   *)
(***************************************************************************)
LEMMA ExceptType ==
    ASSUME WorkerTypeOK, NEW w \in Workers, pc[w] # "idle",
           NEW b \in BOOLEAN, Except(w, b)
    PROVE  /\ pc' \in [Workers -> PcValues]
           /\ \A v \in Workers : pc'[v] # "idle" => pc[v] # "idle"
           /\ again' \in [Workers -> BOOLEAN]
<1>1. "failRead" \in PcValues
  BY DEF PcValues
<1>2. Jump(w, "failRead")
  BY DEF Except
<1>3. again' \in [Workers -> BOOLEAN]
  BY DEF Except, WorkerTypeOK
<1> QED
  BY <1>1, <1>2, <1>3, JumpType DEF WorkerTypeOK

(***************************************************************************)
(* A call inside the try, with its reply or without, keeps what it changes *)
(* well typed.                                                             *)
(***************************************************************************)
LEMMA ProceedType ==
    ASSUME WorkerTypeOK, faults \in 0..MaxFaults, NEW w \in Workers, pc[w] # "idle",
           NEW l \in PcValues, Proceed(w, l)
    PROVE  /\ pc' \in [Workers -> PcValues]
           /\ \A v \in Workers : pc'[v] # "idle" => pc[v] # "idle"
           /\ again' \in [Workers -> BOOLEAN]
           /\ faults' \in 0..MaxFaults
<1>1. CASE Jump(w, l) /\ UNCHANGED <<again, faults>>
  BY <1>1, JumpType DEF WorkerTypeOK
<1>2. CASE Except(w, TRUE) /\ Fault
  BY <1>2, ExceptType, FaultType
<1> QED
  BY <1>1, <1>2 DEF Proceed

(***************************************************************************)
(* Letting go of a message keeps the workers' locals well typed.           *)
(***************************************************************************)
LEMMA ReleaseType ==
    ASSUME WorkerTypeOK, delivered \in Nat, NEW w \in Workers, Release(w),
           UNCHANGED <<stream, delivered>>
    PROVE  WorkerTypeOK'
  BY DEF WorkerTypeOK, Release, Jump, PcValues, NoHash, JobHash

-----------------------------------------------------------------------------
(* Type correctness.                                                       *)

(***************************************************************************)
(* The initial state is well typed.                                        *)
(***************************************************************************)
LEMMA InitType == Init => TypeOK
  BY JobsAssumption, RequestsAssumption, BoundsAssumption, WorkersAssumption
  DEF Init, ApiInit, StoreInit, TypeOK, ApiTypeOK, StoreTypeOK, ApiPcs, PcValues,
      JobHash, NoHash, Statuses, WorkerTypeOK, SideTypeOK

(***************************************************************************)
(* No step of a request, and no failure of one, breaks a type.             *)
(***************************************************************************)
LEMMA ApiKeepsType ==
    ASSUME TypeOK, Api
    PROVE  TypeOK'
<1>1. /\ ApiTypeOK'
      /\ DOMAIN stream \subseteq DOMAIN stream'
      /\ delivered' = delivered
  BY RequestKeepsType DEF TypeOK, Api
<1>2. SideTypeOK'
  BY DEF Api, TypeOK, sideVars, SideTypeOK
<1>3. WorkerTypeOK'
  BY <1>1 DEF Api, TypeOK, workerVars, WorkerTypeOK
<1> QED
  BY <1>1, <1>2, <1>3 DEF TypeOK

(***************************************************************************)
(* A worker that only moves on keeps the workers' types.                   *)
(***************************************************************************)
LEMMA JumpKeepsType ==
    ASSUME WorkerTypeOK, NEW w \in Workers, pc[w] # "idle", NEW l \in PcValues,
           Jump(w, l), UNCHANGED <<stream, delivered, localVars, again>>
    PROVE  WorkerTypeOK'
<1>1. /\ pc' \in [Workers -> PcValues]
      /\ \A v \in Workers : pc'[v] # "idle" => pc[v] # "idle"
  BY JumpType DEF WorkerTypeOK
<1> QED
  BY <1>1 DEF WorkerTypeOK, localVars

(***************************************************************************)
(* A worker that only enters the except branch keeps the workers' types.   *)
(***************************************************************************)
LEMMA ExceptKeepsType ==
    ASSUME WorkerTypeOK, NEW w \in Workers, pc[w] # "idle", NEW b \in BOOLEAN,
           Except(w, b), UNCHANGED <<stream, delivered, localVars>>
    PROVE  WorkerTypeOK'
<1>1. /\ pc' \in [Workers -> PcValues]
      /\ \A v \in Workers : pc'[v] # "idle" => pc[v] # "idle"
      /\ again' \in [Workers -> BOOLEAN]
  BY ExceptType
<1> QED
  BY <1>1 DEF WorkerTypeOK, localVars

(***************************************************************************)
(* A worker that only makes a call of the try keeps the workers' types.    *)
(***************************************************************************)
LEMMA ProceedKeepsType ==
    ASSUME WorkerTypeOK, faults \in 0..MaxFaults, NEW w \in Workers,
           pc[w] # "idle", NEW l \in PcValues, Proceed(w, l),
           UNCHANGED <<stream, delivered, localVars>>
    PROVE  WorkerTypeOK' /\ faults' \in 0..MaxFaults
<1>1. /\ pc' \in [Workers -> PcValues]
      /\ \A v \in Workers : pc'[v] # "idle" => pc[v] # "idle"
      /\ again' \in [Workers -> BOOLEAN]
      /\ faults' \in 0..MaxFaults
  BY ProceedType
<1> QED
  BY <1>1 DEF WorkerTypeOK, localVars

(***************************************************************************)
(* A worker that writes a job hash and nothing else of KVRocks keeps the   *)
(* stores' types.                                                          *)
(***************************************************************************)
LEMMA HSetKeepsType ==
    ASSUME ApiTypeOK, NEW j \in Jobs, NEW s \in Statuses, NEW n \in Nat, HSet(j, s, n),
           UNCHANGED <<indexVars, stream, groupVars, dlq, apiVars>>,
           faults' \in 0..MaxFaults
    PROVE  ApiTypeOK'
<1>1. kv' \in [Jobs -> JobHash]
  BY HSetType DEF ApiTypeOK, StoreTypeOK
<1> QED
  BY <1>1 DEF ApiTypeOK, StoreTypeOK, indexVars, groupVars, apiVars

(***************************************************************************)
(* No step, failure or crash of a worker breaks a type.                    *)
(***************************************************************************)
LEMMA WorkerKeepsType ==
    ASSUME TypeOK, NEW w \in Workers, WorkerNext(w)
    PROVE  TypeOK'
<1> USE DEF TypeOK, At
<1>1. pc[w] # "idle" => /\ Job(w) \in Jobs
                        /\ msg[w] \in DOMAIN stream
                        /\ VideoOf[Job(w)] \in Videos
  BY JobIsJob
<1>2. /\ snap[w] \in JobHash /\ snap[w].attempts \in Nat
      /\ delivered \in 0..Len(stream) /\ faults \in 0..MaxFaults
      /\ stream \in Seq(Jobs) /\ Len(stream) \in Nat
  BY DEF WorkerTypeOK, JobHash, ApiTypeOK, StoreTypeOK
<1>3. /\ {"load", "current", "dlq", "persisted", "ack", "skipRead", "procRead",
          "mark", "analyse", "move", "commit", "pushVideo", "pushLegacy",
          "pushAction", "writeRuntime", "doneRead", "markFailed", "requeue",
          "skipWrite", "procWrite", "doneWrite", "failWrite"} \subseteq PcValues
      /\ {"PROCESSING", "CLASSIFIED", "FAILED_RETRYABLE", "FAILED_TERMINAL"}
          \subseteq Statuses
  BY DEF PcValues, Statuses
<1>4. ASSUME UNCHANGED <<storeVars, apiVars>>, faults' \in 0..MaxFaults
      PROVE  ApiTypeOK'
  BY <1>4 DEF ApiTypeOK, StoreTypeOK, storeVars, apiVars
<1>5. ASSUME UNCHANGED <<sideVars, crashes>>
      PROVE  SideTypeOK'
  BY <1>5 DEF SideTypeOK, sideVars
<1>6. ASSUME UNCHANGED storeVars
      PROVE  UNCHANGED <<stream, delivered>>
  BY <1>6 DEF storeVars
<1>7. ASSUME UNCHANGED groupVars
      PROVE  UNCHANGED delivered
  BY <1>7 DEF groupVars
<1>8. CASE ReadMessage(w)
  <2>1. /\ delivered + 1 \in DOMAIN stream /\ delivered' = delivered + 1
        /\ pel' = pel \cup {delivered + 1} /\ delivered + 1 \in 1..Len(stream)
    BY <1>2, <1>8 DEF ReadMessage, XReadGroup
  <2>2. ApiTypeOK'
    <3>1. UNCHANGED <<kv, uniqueIdx, videoIdx, stream, dlq, faults, apiPc, target>>
      BY <1>8 DEF ReadMessage, indexVars, apiVars
    <3>2. delivered \in Nat /\ pel \subseteq 1..delivered /\ dlq \subseteq 1..delivered
      BY <1>2 DEF ApiTypeOK, StoreTypeOK
    <3>3. delivered' \in 0..Len(stream') /\ pel' \subseteq 1..delivered' /\ dlq' \subseteq 1..delivered'
      BY <2>1, <3>1, <3>2
    <3> QED
      BY <3>1, <3>3 DEF ApiTypeOK, StoreTypeOK
  <2>3. WorkerTypeOK'
    BY <1>2, <1>3, <2>1, <1>8 DEF ReadMessage, WorkerTypeOK, Jump
  <2> QED
    BY <1>5, <2>2, <2>3, <1>8 DEF ReadMessage
<1>9. CASE LoadJob(w)
  BY <1>2, <1>3, <1>4, <1>5, <1>6, <1>9, JumpKeepsType DEF LoadJob
<1>10. CASE GetCurrent(w)
  BY <1>2, <1>3, <1>4, <1>5, <1>6, <1>10, JumpKeepsType DEF GetCurrent
<1>11. CASE GetPersisted(w)
  BY <1>2, <1>3, <1>4, <1>5, <1>6, <1>11, JumpKeepsType DEF GetPersisted
<1>12. CASE ReadForUpdate(w)
  <2>1. /\ pc[w] # "idle" /\ Jump(w, AfterRead[pc[w]])
        /\ AfterRead[pc[w]] \in PcValues
        /\ snap' = [snap EXCEPT ![w] = kv[Job(w)]]
        /\ UNCHANGED <<storeVars, faults, apiVars, msg, tries, need, again, sideVars, crashes>>
    BY <1>3, <1>12 DEF ReadForUpdate, AfterRead
  <2>2. snap' \in [Workers -> JobHash]
    BY <1>1, <2>1 DEF WorkerTypeOK, ApiTypeOK, StoreTypeOK
  <2>3. /\ pc' \in [Workers -> PcValues]
        /\ \A v \in Workers : pc'[v] # "idle" => pc[v] # "idle"
    BY <2>1, JumpType DEF WorkerTypeOK
  <2>4. WorkerTypeOK'
    BY <1>6, <2>1, <2>2, <2>3 DEF WorkerTypeOK
  <2> QED
    BY <1>2, <1>4, <1>5, <2>1, <2>4
<1>13. CASE WriteSkipped(w)
  BY <1>1, <1>2, <1>3, <1>5, <1>7, <1>13, JumpKeepsType, HSetKeepsType DEF WriteSkipped
<1>14. CASE WriteProcessing(w)
  <2>1. snap[w].attempts + 1 \in Nat /\ pc[w] # "idle"
    BY <1>2, <1>14 DEF WriteProcessing
  <2>2. ApiTypeOK'
    BY <1>1, <1>2, <1>3, <2>1, <1>14, HSetKeepsType DEF WriteProcessing
  <2>3. /\ pc' \in [Workers -> PcValues]
        /\ \A v \in Workers : pc'[v] # "idle" => pc[v] # "idle"
    BY <1>3, <2>1, <1>14, JumpType DEF WriteProcessing, WorkerTypeOK
  <2>4. WorkerTypeOK'
    BY <1>7, <2>1, <2>3, <1>14 DEF WriteProcessing, WorkerTypeOK
  <2> QED
    BY <1>5, <2>2, <2>4, <1>14 DEF WriteProcessing
<1>15. CASE WriteClassified(w)
  <2>1. WorkerTypeOK' /\ faults' \in 0..MaxFaults
    BY <1>2, <1>3, <1>7, <1>15, ProceedKeepsType DEF WriteClassified
  <2> QED
    BY <1>1, <1>2, <1>3, <1>5, <2>1, <1>15, HSetKeepsType DEF WriteClassified
<1>16. CASE WriteFailed(w)
  BY <1>1, <1>2, <1>3, <1>5, <1>7, <1>16, JumpKeepsType, HSetKeepsType DEF WriteFailed
<1>17. CASE MarkProcessing(w)
  <2>1. WorkerTypeOK' /\ faults' \in 0..MaxFaults
    BY <1>2, <1>3, <1>6, <1>17, ProceedKeepsType DEF MarkProcessing, KeyTaken
  <2>2. SideTypeOK'
    BY <1>1, <1>3, <1>17 DEF MarkProcessing, KeyTaken, SideTypeOK, pgVars
  <2> QED
    BY <1>4, <2>1, <2>2, <1>17 DEF MarkProcessing, KeyTaken
<1>18. CASE Analyse(w)
  <2>1. PICK required \in BOOLEAN :
           /\ need' = [need EXCEPT ![w] = required]
           /\ Jump(w, IF required THEN "move" ELSE "commit")
    BY <1>18 DEF Analyse
  <2>2. /\ pc' \in [Workers -> PcValues]
        /\ \A v \in Workers : pc'[v] # "idle" => pc[v] # "idle"
    BY <1>3, <2>1, <1>18, JumpType DEF Analyse, WorkerTypeOK
  <2>3. WorkerTypeOK'
    BY <1>6, <2>1, <2>2, <1>18 DEF Analyse, WorkerTypeOK
  <2> QED
    BY <1>2, <1>4, <1>5, <2>3, <1>18 DEF Analyse
<1>19. CASE AnalyseRejects(w)
  BY <1>2, <1>4, <1>5, <1>6, <1>19, ExceptKeepsType, FaultType DEF AnalyseRejects
<1>20. CASE Move(w)
  <2>1. WorkerTypeOK' /\ faults' \in 0..MaxFaults
    BY <1>2, <1>3, <1>6, <1>20, ProceedKeepsType DEF Move
  <2>2. SideTypeOK'
    BY <1>1, <1>3, <1>20 DEF Move, SideTypeOK, pgVars
  <2> QED
    BY <1>4, <2>1, <2>2, <1>20 DEF Move
<1>21. CASE MoveRefused(w)
  BY <1>2, <1>4, <1>5, <1>6, <1>21, ExceptKeepsType, FaultType DEF MoveRefused
<1>22. CASE Commit(w)
  <2>1. WorkerTypeOK' /\ faults' \in 0..MaxFaults
    BY <1>2, <1>3, <1>6, <1>22, ProceedKeepsType DEF Commit
  <2>2. SideTypeOK'
    BY <1>1, <1>3, <1>22 DEF Commit, SideTypeOK
  <2> QED
    BY <1>4, <2>1, <2>2, <1>22 DEF Commit
<1>23. CASE CommitConflicts(w)
  BY <1>2, <1>4, <1>5, <1>6, <1>23, ExceptKeepsType DEF CommitConflicts
<1>24. CASE PublishVideo(w)
  <2>1. WorkerTypeOK' /\ faults' \in 0..MaxFaults
    BY <1>2, <1>3, <1>6, <1>24, ProceedKeepsType DEF PublishVideo, Publish
  <2>2. SideTypeOK'
    BY <1>1, <1>3, <1>24 DEF PublishVideo, Publish, SideTypeOK, pgVars, Outputs
  <2> QED
    BY <1>4, <2>1, <2>2, <1>24 DEF PublishVideo, Publish
<1>25. CASE PublishLegacy(w)
  <2>1. WorkerTypeOK' /\ faults' \in 0..MaxFaults
    BY <1>2, <1>3, <1>6, <1>25, ProceedKeepsType DEF PublishLegacy, Publish
  <2>2. SideTypeOK'
    BY <1>1, <1>3, <1>25 DEF PublishLegacy, Publish, SideTypeOK, pgVars, Outputs
  <2> QED
    BY <1>4, <2>1, <2>2, <1>25 DEF PublishLegacy, Publish
<1>26. CASE PublishAction(w)
  <2>1. WorkerTypeOK' /\ faults' \in 0..MaxFaults
    BY <1>2, <1>3, <1>6, <1>26, ProceedKeepsType DEF PublishAction, Publish
  <2>2. SideTypeOK'
    BY <1>1, <1>3, <1>26 DEF PublishAction, Publish, SideTypeOK, pgVars, Outputs
  <2> QED
    BY <1>4, <2>1, <2>2, <1>26 DEF PublishAction, Publish
<1>27. CASE WriteRuntime(w)
  <2>1. WorkerTypeOK' /\ faults' \in 0..MaxFaults
    BY <1>2, <1>3, <1>6, <1>27, ProceedKeepsType DEF WriteRuntime, Publish
  <2>2. SideTypeOK'
    BY <1>1, <1>3, <1>27 DEF WriteRuntime, Publish, SideTypeOK, pgVars, Outputs
  <2> QED
    BY <1>4, <2>1, <2>2, <1>27 DEF WriteRuntime, Publish
<1>28. CASE CallRaises(w)
  BY <1>2, <1>4, <1>5, <1>6, <1>28, ExceptKeepsType, FaultType DEF CallRaises, TryPcs
<1>29. CASE MarkFailed(w)
  <2>1. SideTypeOK'
    BY <1>1, <1>3, <1>29 DEF MarkFailed, SideTypeOK
  <2> QED
    BY <1>2, <1>3, <1>4, <1>6, <2>1, <1>29, JumpKeepsType DEF MarkFailed
<1>30. CASE Requeue(w)
  <2>1. /\ stream' \in Seq(Jobs) /\ delivered \in 0..Len(stream')
        /\ DOMAIN stream \subseteq DOMAIN stream'
    BY <1>1, <1>2, <1>30, XAddType DEF Requeue
  <2>2. ApiTypeOK'
    BY <1>2, <2>1, <1>30 DEF Requeue, ApiTypeOK, StoreTypeOK, indexVars, groupVars, apiVars
  <2>3. /\ pc' \in [Workers -> PcValues]
        /\ \A v \in Workers : pc'[v] # "idle" => pc[v] # "idle"
    BY <1>3, <1>30, JumpType DEF Requeue, WorkerTypeOK
  <2>4. WorkerTypeOK'
    BY <1>7, <2>1, <2>3, <1>30 DEF Requeue, WorkerTypeOK, localVars
  <2> QED
    BY <1>5, <2>2, <2>4, <1>30 DEF Requeue
<1>31. CASE MoveToDlq(w)
  <2>1. msg[w] \in 1..delivered
    BY <1>1, <1>2, <1>31 DEF MoveToDlq, WorkerTypeOK
  <2>2. ApiTypeOK'
    BY <1>2, <2>1, <1>31 DEF MoveToDlq, ApiTypeOK, StoreTypeOK, indexVars, groupVars, apiVars
  <2> QED
    BY <1>3, <1>5, <1>7, <2>2, <1>31, JumpKeepsType DEF MoveToDlq
<1>32. CASE Ack(w)
  <2>1. ApiTypeOK'
    BY <1>2, <1>32 DEF Ack, XAck, ApiTypeOK, StoreTypeOK, indexVars, apiVars
  <2> QED
    BY <1>2, <1>5, <2>1, <1>32, ReleaseType DEF Ack
<1>33. CASE Crash(w)
  <2>1. SideTypeOK'
    BY <1>33, WorkersAssumption DEF Crash, SideTypeOK, sideVars
  <2> QED
    BY <1>2, <1>4, <1>6, <2>1, <1>33, ReleaseType DEF Crash
<1> QED
  BY <1>8, <1>9, <1>10, <1>11, <1>12, <1>13, <1>14, <1>15, <1>16, <1>17,
     <1>18, <1>19, <1>20, <1>21, <1>22, <1>23, <1>24, <1>25, <1>26, <1>27,
     <1>28, <1>29, <1>30, <1>31, <1>32, <1>33
  DEF WorkerNext, WorkerStep

(***************************************************************************)
(* Every store, every request and every worker's locals keep their types;  *)
(* in particular a worker that is not idle has a message that exists.      *)
(***************************************************************************)
THEOREM TypeCorrect == Spec => []TypeOK
<1>1. Init => TypeOK
  BY InitType
<1>2. TypeOK /\ [Next]_vars => TypeOK'
  <2> SUFFICES ASSUME TypeOK, [Next]_vars PROVE TypeOK'
    OBVIOUS
  <2>1. CASE Api
    BY <2>1, ApiKeepsType
  <2>2. CASE \E w \in Workers : WorkerNext(w)
    BY <2>2, WorkerKeepsType
  <2>3. CASE UNCHANGED vars
    BY <2>3 DEF vars, storeVars, apiVars, workerVars, sideVars, TypeOK,
                ApiTypeOK, StoreTypeOK, WorkerTypeOK, SideTypeOK
  <2> QED
    BY <2>1, <2>2, <2>3 DEF Next
<1> QED
  BY <1>1, <1>2, PTL DEF Spec

-----------------------------------------------------------------------------
(* What happens around the commit.                                         *)

(***************************************************************************)
(* What a worker knows at its place in the code.  Past the commit, or on   *)
(* the way to repeat CLASSIFIED, its job has a result, which required the  *)
(* move if the worker's own verdict did; at the commit the move that its   *)
(* verdict requires has been made.  Nobody can take these back.            *)
(***************************************************************************)
Knows(w) ==
    /\ pc[w] \in {"pushVideo", "pushLegacy", "pushAction", "writeRuntime",
                  "doneRead", "doneWrite", "skipRead", "skipWrite"}
           => pgResult[Job(w)] # "none"
    /\ pc[w] \in {"pushVideo", "pushLegacy"} /\ need[w]
           => pgResult[Job(w)] = "move"
    /\ pc[w] = "pushAction" => pgResult[Job(w)] = "move"
    /\ pc[w] = "commit" /\ need[w] => VideoOf[Job(w)] \in moved

(***************************************************************************)
(* What the stores hold of one job.                                        *)
(***************************************************************************)
Justified(j) ==
    /\ pgResult[j] = "move" => VideoOf[j] \in moved
    /\ kv[j].status = "CLASSIFIED" \/ pgJob[j] = "CLASSIFIED"
           => pgResult[j] # "none"
    /\ published[j] # {} => pgResult[j] # "none"
    /\ "action" \in published[j] => pgResult[j] = "move"

CommitInv ==
    /\ \A w \in Workers : Knows(w)
    /\ \A j \in Jobs : Justified(j)

(***************************************************************************)
(* Messages keep their place, results are final, moves are not undone.     *)
(***************************************************************************)
Grows ==
    /\ \A m \in DOMAIN stream : m \in DOMAIN stream' /\ stream'[m] = stream[m]
    /\ \A j \in Jobs : pgResult[j] # "none" => pgResult'[j] = pgResult[j]
    /\ moved \subseteq moved'

(***************************************************************************)
(* A worker's locals are its own.                                          *)
(***************************************************************************)
OthersStay(w) ==
    \A v \in Workers \ {w} :
        pc'[v] = pc[v] /\ msg'[v] = msg[v] /\ need'[v] = need[v]

(***************************************************************************)
(* Requests only add messages, and leave the workers and results alone.    *)
(***************************************************************************)
LEMMA ApiGrows ==
    ASSUME TypeOK, Api
    PROVE  Grows /\ UNCHANGED <<pc, msg, need>>
<1>1. UNCHANGED <<pc, msg, need, pgResult, moved>>
  BY DEF Api, workerVars, sideVars
<1>2. PICK r \in Requests : RequestStep(r) \/ RequestFails(r)
  BY DEF Api, ApiNext
<1>3. stream' = stream \/ stream' = Append(stream, target[r])
  BY <1>2 DEF RequestStep, RequestFails, LookupJob, LookupUnique, LookupDuplicate,
              RepairVideoIndex, Write, WriteAll, WriteHash, WriteUnique, WriteVideo,
              AppendMessage, XAdd, storeVars
<1>4. stream \in Seq(Jobs) /\ target[r] \in Jobs
  BY DEF TypeOK, ApiTypeOK, StoreTypeOK
<1> QED
  BY <1>1, <1>3, <1>4, AppendFacts DEF Grows

(***************************************************************************)
(* A worker's step loses no message, result or move, and leaves the locals *)
(* of the others alone.                                                    *)
(***************************************************************************)
LEMMA WorkerGrows ==
    ASSUME TypeOK, NEW w \in Workers, WorkerNext(w)
    PROVE  Grows /\ OthersStay(w)
<1> USE DEF Grows, OthersStay, Jump, storeVars, localVars, sideVars, pgVars
<1>1. pc \in [Workers -> PcValues] /\ msg \in [Workers -> 0..delivered]
      /\ need \in [Workers -> BOOLEAN] /\ pgResult \in [Jobs -> {"none", "stay", "move"}]
      /\ stream \in Seq(Jobs)
  BY DEF TypeOK, WorkerTypeOK, SideTypeOK, ApiTypeOK, StoreTypeOK
<1>2. CASE ReadMessage(w)
  BY <1>1, <1>2 DEF ReadMessage
<1>3. CASE LoadJob(w)
  BY <1>1, <1>3 DEF LoadJob
<1>4. CASE GetCurrent(w)
  BY <1>1, <1>4 DEF GetCurrent
<1>5. CASE GetPersisted(w)
  BY <1>1, <1>5 DEF GetPersisted
<1>6. CASE ReadForUpdate(w)
  BY <1>1, <1>6 DEF ReadForUpdate, AfterRead
<1>7. CASE WriteSkipped(w)
  BY <1>1, <1>7 DEF WriteSkipped
<1>8. CASE WriteProcessing(w)
  BY <1>1, <1>8 DEF WriteProcessing
<1>9. CASE WriteClassified(w)
  BY <1>1, <1>9 DEF WriteClassified, Proceed, Except
<1>10. CASE WriteFailed(w)
  BY <1>1, <1>10 DEF WriteFailed
<1>11. CASE MarkProcessing(w)
  BY <1>1, <1>11 DEF MarkProcessing, KeyTaken, Proceed, Except
<1>12. CASE Analyse(w)
  BY <1>1, <1>12 DEF Analyse
<1>13. CASE AnalyseRejects(w)
  BY <1>1, <1>13 DEF AnalyseRejects, Except
<1>14. CASE Move(w)
  BY <1>1, <1>14 DEF Move, Proceed, Except
<1>15. CASE MoveRefused(w)
  BY <1>1, <1>15 DEF MoveRefused, Except
<1>16. CASE Commit(w)
  BY <1>1, <1>16 DEF Commit, Committable, HasJobRow, NoRows, Proceed, Except
<1>17. CASE CommitConflicts(w)
  BY <1>1, <1>17 DEF CommitConflicts, Except
<1>18. CASE PublishVideo(w)
  BY <1>1, <1>18 DEF PublishVideo, Publish, Proceed, Except
<1>19. CASE PublishLegacy(w)
  BY <1>1, <1>19 DEF PublishLegacy, Publish, Proceed, Except
<1>20. CASE PublishAction(w)
  BY <1>1, <1>20 DEF PublishAction, Publish, Proceed, Except
<1>21. CASE WriteRuntime(w)
  BY <1>1, <1>21 DEF WriteRuntime, Publish, Proceed, Except
<1>22. CASE CallRaises(w)
  BY <1>1, <1>22 DEF CallRaises, TryPcs, Except
<1>23. CASE MarkFailed(w)
  BY <1>1, <1>23 DEF MarkFailed
<1>24. CASE Requeue(w)
  <2>1. stream' = stream \/ stream' = Append(stream, Job(w))
    BY <1>24 DEF Requeue, XAdd
  <2>2. Job(w) \in Jobs
    BY <1>24, JobIsJob DEF Requeue, At
  <2> QED
    BY <1>1, <1>24, <2>1, <2>2, AppendFacts DEF Requeue
<1>25. CASE MoveToDlq(w)
  BY <1>1, <1>25 DEF MoveToDlq
<1>26. CASE Ack(w)
  BY <1>1, <1>26 DEF Ack, Release
<1>27. CASE Crash(w)
  BY <1>1, <1>27 DEF Crash, Release
<1> QED
  BY <1>2, <1>3, <1>4, <1>5, <1>6, <1>7, <1>8, <1>9, <1>10, <1>11, <1>12,
     <1>13, <1>14, <1>15, <1>16, <1>17, <1>18, <1>19, <1>20, <1>21, <1>22,
     <1>23, <1>24, <1>25, <1>26, <1>27
  DEF WorkerNext, WorkerStep

(***************************************************************************)
(* What a worker knows outlives every step that leaves the worker alone.   *)
(***************************************************************************)
LEMMA KnowsIsStable ==
    ASSUME TypeOK, Grows, NEW v \in Workers, Knows(v),
           pc'[v] = pc[v], msg'[v] = msg[v], need'[v] = need[v]
    PROVE  Knows(v)'
<1>1. CASE pc[v] = "idle"
  BY <1>1 DEF Knows
<1>2. CASE pc[v] # "idle"
  <2>1. Job(v) \in Jobs /\ msg[v] \in DOMAIN stream
    BY <1>2, JobIsJob
  <2>2. Job(v)' = Job(v)
    BY <2>1 DEF Job, Grows
  <2> QED
    BY <2>1, <2>2 DEF Knows, Grows
<1> QED
  BY <1>1, <1>2

(***************************************************************************)
(* A request preserves the invariant: it can reset a job hash to QUEUED    *)
(* but never makes one CLASSIFIED.                                         *)
(***************************************************************************)
LEMMA ApiKeepsCommit ==
    ASSUME TypeOK, CommitInv, Api
    PROVE  CommitInv'
<1>1. Grows /\ UNCHANGED <<pc, msg, need>>
  BY ApiGrows
<1>2. \A w \in Workers : Knows(w)'
  BY <1>1, KnowsIsStable DEF CommitInv
<1>3. UNCHANGED <<pgJob, pgResult, moved, published>>
  BY DEF Api, sideVars
<1>4. PICK r \in Requests : RequestStep(r) \/ RequestFails(r)
  BY DEF Api, ApiNext
<1>5. kv' = kv \/ HSet(target[r], "QUEUED", 0)
  BY <1>4 DEF RequestStep, RequestFails, LookupJob, LookupUnique, LookupDuplicate,
              RepairVideoIndex, Write, WriteAll, WriteHash, WriteUnique, WriteVideo,
              AppendMessage, storeVars
<1>6. \A j \in Jobs : kv'[j].status = "CLASSIFIED" => kv[j].status = "CLASSIFIED"
  BY <1>5 DEF HSet, TypeOK, ApiTypeOK, StoreTypeOK
<1>7. \A j \in Jobs : Justified(j)'
  BY <1>3, <1>6 DEF CommitInv, Justified
<1> QED
  BY <1>2, <1>7 DEF CommitInv

(***************************************************************************)
(* Every step of a worker preserves the invariant.                         *)
(***************************************************************************)
LEMMA WorkerKeepsCommit ==
    ASSUME TypeOK, CommitInv, NEW w \in Workers, WorkerNext(w)
    PROVE  CommitInv'
<1> USE DEF At, Jump, storeVars, indexVars, groupVars, localVars, sideVars, pgVars
<1>1. Grows /\ OthersStay(w)
  BY WorkerGrows
<1>2. \A v \in Workers \ {w} : Knows(v)'
  BY <1>1, KnowsIsStable DEF CommitInv, OthersStay
<1>3. SUFFICES Knows(w)' /\ \A j \in Jobs : Justified(j)'
  BY <1>2 DEF CommitInv
<1>4. Knows(w) /\ \A j \in Jobs : Justified(j)
  BY DEF CommitInv
<1>5. /\ pc \in [Workers -> PcValues] /\ need \in [Workers -> BOOLEAN]
      /\ kv \in [Jobs -> JobHash]
      /\ pgJob \in [Jobs -> Statuses \cup {"none"}]
      /\ pgResult \in [Jobs -> {"none", "stay", "move"}]
      /\ published \in [Jobs -> SUBSET Outputs]
  BY DEF TypeOK, WorkerTypeOK, SideTypeOK, ApiTypeOK, StoreTypeOK
<1>6. ASSUME pc[w] # "idle", UNCHANGED msg
      PROVE  Job(w) \in Jobs /\ Job(w)' = Job(w)
  BY <1>1, <1>6, JobIsJob DEF Job, Grows
<1>7. ASSUME kv' = kv, UNCHANGED sideVars
      PROVE  \A j \in Jobs : Justified(j)'
  BY <1>4, <1>7 DEF Justified
<1>8. CASE ReadMessage(w)
  BY <1>5, <1>7, <1>8 DEF ReadMessage, Knows
<1>9. CASE LoadJob(w)
  <2>1. Job(w) \in Jobs /\ Job(w)' = Job(w)
    BY <1>6, <1>9 DEF LoadJob
  <2> QED
    BY <1>4, <1>5, <1>7, <1>9, <2>1 DEF LoadJob, Knows
<1>10. CASE GetCurrent(w)
  <2>1. Job(w) \in Jobs /\ Job(w)' = Job(w)
    BY <1>6, <1>10 DEF GetCurrent
  <2> QED
    BY <1>4, <1>5, <1>7, <1>10, <2>1 DEF GetCurrent, Knows, Justified
<1>11. CASE GetPersisted(w)
  <2>1. Job(w) \in Jobs /\ Job(w)' = Job(w)
    BY <1>6, <1>11 DEF GetPersisted
  <2> QED
    BY <1>4, <1>5, <1>7, <1>11, <2>1 DEF GetPersisted, Knows, Justified
<1>12. CASE ReadForUpdate(w)
  <2>1. Job(w) \in Jobs /\ Job(w)' = Job(w)
    BY <1>6, <1>12 DEF ReadForUpdate, AfterRead
  <2> QED
    BY <1>4, <1>5, <1>7, <1>12, <2>1 DEF ReadForUpdate, AfterRead, Knows
<1>13. CASE WriteSkipped(w)
  <2>1. Job(w) \in Jobs /\ Job(w)' = Job(w)
    BY <1>6, <1>13 DEF WriteSkipped
  <2>2. Knows(w)'
    BY <1>4, <1>5, <1>13, <2>1 DEF WriteSkipped, Knows
  <2>3. \A j \in Jobs : Justified(j)'
    BY <1>4, <1>5, <1>13, <2>1 DEF WriteSkipped, Knows, Justified, HSet
  <2> QED
    BY <2>2, <2>3
<1>14. CASE WriteProcessing(w)
  <2>1. Job(w) \in Jobs /\ Job(w)' = Job(w)
    BY <1>6, <1>14 DEF WriteProcessing
  <2>2. Knows(w)'
    BY <1>4, <1>5, <1>14, <2>1 DEF WriteProcessing, Knows
  <2>3. \A j \in Jobs : Justified(j)'
    BY <1>4, <1>5, <1>14, <2>1 DEF WriteProcessing, Knows, Justified, HSet
  <2> QED
    BY <2>2, <2>3
<1>15. CASE WriteClassified(w)
  <2>1. Job(w) \in Jobs /\ Job(w)' = Job(w)
    BY <1>6, <1>15 DEF WriteClassified
  <2>2. Knows(w)'
    BY <1>4, <1>5, <1>15, <2>1 DEF WriteClassified, Proceed, Except, Knows
  <2>3. \A j \in Jobs : Justified(j)'
    BY <1>4, <1>5, <1>15, <2>1 DEF WriteClassified, Proceed, Except, Knows, Justified, HSet
  <2> QED
    BY <2>2, <2>3
<1>16. CASE WriteFailed(w)
  <2>1. Job(w) \in Jobs /\ Job(w)' = Job(w)
    BY <1>6, <1>16 DEF WriteFailed
  <2>2. Knows(w)'
    BY <1>4, <1>5, <1>16, <2>1 DEF WriteFailed, Knows
  <2>3. \A j \in Jobs : Justified(j)'
    BY <1>4, <1>5, <1>16, <2>1 DEF WriteFailed, Knows, Justified, HSet
  <2> QED
    BY <2>2, <2>3
<1>17. CASE MarkProcessing(w)
  <2>1. Job(w) \in Jobs /\ Job(w)' = Job(w)
    BY <1>6, <1>17 DEF MarkProcessing, KeyTaken
  <2>2. Knows(w)'
    BY <1>4, <1>5, <1>17, <2>1 DEF MarkProcessing, KeyTaken, Proceed, Except, Knows
  <2>3. \A j \in Jobs : Justified(j)'
    BY <1>4, <1>5, <1>17, <2>1 DEF MarkProcessing, KeyTaken, Knows, Justified
  <2> QED
    BY <2>2, <2>3
<1>18. CASE Analyse(w)
  <2>1. Job(w) \in Jobs /\ Job(w)' = Job(w)
    BY <1>6, <1>18 DEF Analyse
  <2> QED
    BY <1>4, <1>5, <1>7, <1>18, <2>1 DEF Analyse, Knows
<1>19. CASE AnalyseRejects(w)
  <2>1. Job(w) \in Jobs /\ Job(w)' = Job(w)
    BY <1>6, <1>19 DEF AnalyseRejects
  <2> QED
    BY <1>4, <1>5, <1>7, <1>19, <2>1 DEF AnalyseRejects, Except, Knows
<1>20. CASE Move(w)
  <2>1. Job(w) \in Jobs /\ Job(w)' = Job(w)
    BY <1>6, <1>20 DEF Move
  <2>2. Knows(w)'
    BY <1>4, <1>5, <1>20, <2>1 DEF Move, Proceed, Except, Knows
  <2>3. \A j \in Jobs : Justified(j)'
    BY <1>4, <1>5, <1>20, <2>1 DEF Move, Knows, Justified
  <2> QED
    BY <2>2, <2>3
<1>21. CASE MoveRefused(w)
  <2>1. Job(w) \in Jobs /\ Job(w)' = Job(w)
    BY <1>6, <1>21 DEF MoveRefused
  <2> QED
    BY <1>4, <1>5, <1>7, <1>21, <2>1 DEF MoveRefused, Except, Knows
<1>22. CASE Commit(w)
  <2>1. Job(w) \in Jobs /\ Job(w)' = Job(w)
    BY <1>6, <1>22 DEF Commit
  <2>2. Knows(w)'
    BY <1>4, <1>5, <1>22, <2>1 DEF Commit, Committable, HasJobRow, NoRows, Proceed, Except, Knows
  <2>3. \A j \in Jobs : Justified(j)'
    BY <1>4, <1>5, <1>22, <2>1 DEF Commit, Committable, HasJobRow, NoRows, Knows, Justified
  <2> QED
    BY <2>2, <2>3
<1>23. CASE CommitConflicts(w)
  <2>1. Job(w) \in Jobs /\ Job(w)' = Job(w)
    BY <1>6, <1>23 DEF CommitConflicts
  <2> QED
    BY <1>4, <1>5, <1>7, <1>23, <2>1 DEF CommitConflicts, Except, Knows
<1>24. CASE PublishVideo(w)
  <2>1. Job(w) \in Jobs /\ Job(w)' = Job(w)
    BY <1>6, <1>24 DEF PublishVideo, Publish
  <2>2. Knows(w)'
    BY <1>4, <1>5, <1>24, <2>1 DEF PublishVideo, Publish, Proceed, Except, Knows
  <2>3. \A j \in Jobs : Justified(j)'
    BY <1>4, <1>5, <1>24, <2>1 DEF PublishVideo, Publish, Knows, Justified
  <2> QED
    BY <2>2, <2>3
<1>25. CASE PublishLegacy(w)
  <2>1. Job(w) \in Jobs /\ Job(w)' = Job(w)
    BY <1>6, <1>25 DEF PublishLegacy, Publish
  <2>2. Knows(w)'
    BY <1>4, <1>5, <1>25, <2>1 DEF PublishLegacy, Publish, Proceed, Except, Knows
  <2>3. \A j \in Jobs : Justified(j)'
    BY <1>4, <1>5, <1>25, <2>1 DEF PublishLegacy, Publish, Knows, Justified
  <2> QED
    BY <2>2, <2>3
<1>26. CASE PublishAction(w)
  <2>1. Job(w) \in Jobs /\ Job(w)' = Job(w)
    BY <1>6, <1>26 DEF PublishAction, Publish
  <2>2. Knows(w)'
    BY <1>4, <1>5, <1>26, <2>1 DEF PublishAction, Publish, Proceed, Except, Knows
  <2>3. \A j \in Jobs : Justified(j)'
    BY <1>4, <1>5, <1>26, <2>1 DEF PublishAction, Publish, Knows, Justified
  <2> QED
    BY <2>2, <2>3
<1>27. CASE WriteRuntime(w)
  <2>1. Job(w) \in Jobs /\ Job(w)' = Job(w)
    BY <1>6, <1>27 DEF WriteRuntime, Publish
  <2>2. Knows(w)'
    BY <1>4, <1>5, <1>27, <2>1 DEF WriteRuntime, Publish, Proceed, Except, Knows
  <2>3. \A j \in Jobs : Justified(j)'
    BY <1>4, <1>5, <1>27, <2>1 DEF WriteRuntime, Publish, Knows, Justified
  <2> QED
    BY <2>2, <2>3
<1>28. CASE CallRaises(w)
  <2>1. Job(w) \in Jobs /\ Job(w)' = Job(w)
    BY <1>6, <1>28 DEF CallRaises, TryPcs
  <2> QED
    BY <1>4, <1>5, <1>7, <1>28, <2>1 DEF CallRaises, TryPcs, Except, Knows
<1>29. CASE MarkFailed(w)
  <2>1. Job(w) \in Jobs /\ Job(w)' = Job(w)
    BY <1>6, <1>29 DEF MarkFailed
  <2>2. Knows(w)'
    BY <1>4, <1>5, <1>29, <2>1 DEF MarkFailed, Knows
  <2>3. \A j \in Jobs : Justified(j)'
    BY <1>4, <1>5, <1>29, <2>1 DEF MarkFailed, Knows, Justified
  <2> QED
    BY <2>2, <2>3
<1>30. CASE Requeue(w)
  <2>1. Job(w) \in Jobs /\ Job(w)' = Job(w)
    BY <1>6, <1>30 DEF Requeue
  <2> QED
    BY <1>4, <1>5, <1>7, <1>30, <2>1 DEF Requeue, Knows
<1>31. CASE MoveToDlq(w)
  <2>1. Job(w) \in Jobs /\ Job(w)' = Job(w)
    BY <1>6, <1>31 DEF MoveToDlq
  <2> QED
    BY <1>4, <1>5, <1>7, <1>31, <2>1 DEF MoveToDlq, Knows
<1>32. CASE Ack(w)
  BY <1>5, <1>7, <1>32 DEF Ack, Release, Knows
<1>33. CASE Crash(w)
  BY <1>5, <1>7, <1>33 DEF Crash, Release, Knows
<1> QED
  BY <1>8, <1>9, <1>10, <1>11, <1>12, <1>13, <1>14, <1>15, <1>16, <1>17,
     <1>18, <1>19, <1>20, <1>21, <1>22, <1>23, <1>24, <1>25, <1>26, <1>27,
     <1>28, <1>29, <1>30, <1>31, <1>32, <1>33
  DEF WorkerNext, WorkerStep

(***************************************************************************)
(* In every reachable state each worker's place in the code is right about *)
(* what is committed and moved, and every store's contents are justified.  *)
(***************************************************************************)
THEOREM CommitInvariant == Spec => [](TypeOK /\ CommitInv)
<1>1. Init => CommitInv
  BY DEF Init, ApiInit, StoreInit, CommitInv, Knows, Justified, NoHash
<1>2. TypeOK /\ TypeOK' /\ CommitInv /\ [Next]_vars => CommitInv'
  <2> SUFFICES ASSUME TypeOK, CommitInv, [Next]_vars PROVE CommitInv'
    OBVIOUS
  <2>1. CASE Api
    BY <2>1, ApiKeepsCommit
  <2>2. CASE \E w \in Workers : WorkerNext(w)
    BY <2>2, WorkerKeepsCommit
  <2>3. CASE UNCHANGED vars
    BY <2>3 DEF vars, storeVars, workerVars, sideVars, CommitInv, Knows, Justified, Job
  <2> QED
    BY <2>1, <2>2, <2>3 DEF Next
<1> QED
  BY <1>1, <1>2, TypeCorrect, PTL DEF Spec

(***************************************************************************)
(* Only committed results are published, and a storage action only beside  *)
(* a result that required it.                                              *)
(***************************************************************************)
THEOREM PublishedOnlyCommitted == Spec => []PublishedImpliesCommitted
<1>1. TypeOK /\ CommitInv => PublishedImpliesCommitted
  BY DEF CommitInv, Justified, PublishedImpliesCommitted
<1> QED
  BY <1>1, CommitInvariant, PTL

(***************************************************************************)
(* A committed result that requires the NSFW bucket is of a moved video.   *)
(***************************************************************************)
THEOREM MovedFirst == Spec => []MovedBeforeCommitted
<1>1. TypeOK /\ CommitInv => MovedBeforeCommitted
  BY DEF CommitInv, Justified, MovedBeforeCommitted
<1> QED
  BY <1>1, CommitInvariant, PTL

(***************************************************************************)
(* A job that the queue or PostgreSQL calls classified has a result.       *)
(***************************************************************************)
THEOREM ClassifiedOnlyWithResult == Spec => []ClassifiedHasResult
<1>1. TypeOK /\ CommitInv => ClassifiedHasResult
  BY DEF CommitInv, Justified, ClassifiedHasResult
<1> QED
  BY <1>1, CommitInvariant, PTL

(***************************************************************************)
(* A committed result never changes.                                       *)
(***************************************************************************)
THEOREM ResultsAreFinal == Spec => ResultIsFinal
<1>1. TypeOK /\ [Next]_vars
        => [\A j \in Jobs : pgResult[j] # "none" => pgResult'[j] = pgResult[j]]_vars
  <2> SUFFICES ASSUME TypeOK, Next
               PROVE  \A j \in Jobs : pgResult[j] # "none" => pgResult'[j] = pgResult[j]
    OBVIOUS
  <2> QED
    BY ApiGrows, WorkerGrows DEF Next, Grows
<1> QED
  BY <1>1, TypeCorrect, PTL DEF Spec, ResultIsFinal

-----------------------------------------------------------------------------
(* One result per key.                                                     *)

(***************************************************************************)
(* The unique constraint of nsfw_video_jobs on (video_id,                  *)
(* source_object_version, policy_version).                                 *)
(***************************************************************************)
RowsUnique ==
    \A i, j \in Jobs :
        KeyOf[i] = KeyOf[j] /\ pgJob[i] # "none" /\ pgJob[j] # "none" => i = j

(***************************************************************************)
(* The foreign key of nsfw_video_results: a result refers to a job row.    *)
(***************************************************************************)
ResultsHaveRows ==
    \A j \in Jobs : pgResult[j] # "none" => pgJob[j] # "none"

(***************************************************************************)
(* Only mark_processing, the unit of work and mark_failed write            *)
(* PostgreSQL.                                                             *)
(***************************************************************************)
LEMMA PostgresWriters ==
    ASSUME NEW w \in Workers, WorkerNext(w)
    PROVE  MarkProcessing(w) \/ Commit(w) \/ MarkFailed(w) \/ UNCHANGED pgVars
  BY DEF WorkerNext, WorkerStep, pgVars, sideVars, ReadMessage, LoadJob, GetCurrent,
         GetPersisted, ReadForUpdate, WriteSkipped, WriteProcessing, WriteClassified,
         WriteFailed, Analyse, AnalyseRejects, Move, MoveRefused, CommitConflicts,
         PublishVideo, PublishLegacy, PublishAction, WriteRuntime, Publish,
         CallRaises, Requeue, MoveToDlq, Ack, Crash

(***************************************************************************)
(* Each of the three writers respects both constraints.                    *)
(***************************************************************************)
LEMMA WorkerKeepsRows ==
    ASSUME TypeOK, RowsUnique, ResultsHaveRows, NEW w \in Workers, WorkerNext(w)
    PROVE  RowsUnique' /\ ResultsHaveRows'
<1>1. /\ pgJob \in [Jobs -> Statuses \cup {"none"}]
      /\ pgResult \in [Jobs -> {"none", "stay", "move"}]
  BY DEF TypeOK, SideTypeOK
<1>2. pc[w] # "idle" => Job(w) \in Jobs
  BY JobIsJob
<1>3. CASE MarkProcessing(w)
  <2>1. Job(w) \in Jobs /\ pgResult' = pgResult
    BY <1>2, <1>3 DEF MarkProcessing, KeyTaken, At
  <2>2. CASE pgJob' = pgJob
    BY <2>1, <2>2 DEF RowsUnique, ResultsHaveRows
  <2>3. CASE /\ pgJob' = [pgJob EXCEPT ![Job(w)] = "PROCESSING"]
             /\ \/ pgJob[Job(w)] # "none"
                \/ \A i \in Jobs : KeyOf[i] = KeyOf[Job(w)] => pgJob[i] = "none"
    BY <1>1, <2>1, <2>3 DEF RowsUnique, ResultsHaveRows
  <2> QED
    BY <1>3, <2>2, <2>3 DEF MarkProcessing, KeyTaken
<1>4. CASE Commit(w)
  <2>1. /\ Job(w) \in Jobs /\ pgJob[Job(w)] # "none"
        /\ pgJob' = [pgJob EXCEPT ![Job(w)] = "CLASSIFIED"]
        /\ \A j \in Jobs \ {Job(w)} : pgResult'[j] = pgResult[j]
    BY <1>1, <1>2, <1>4 DEF Commit, Committable, HasJobRow, NoRows, At
  <2> QED
    BY <1>1, <2>1 DEF RowsUnique, ResultsHaveRows
<1>5. CASE MarkFailed(w)
  <2>1. /\ Job(w) \in Jobs /\ pgResult' = pgResult
        /\ \A j \in Jobs : pgJob'[j] # "none" <=> pgJob[j] # "none"
    BY <1>1, <1>2, <1>5 DEF MarkFailed, At
  <2> QED
    BY <2>1 DEF RowsUnique, ResultsHaveRows
<1>6. CASE UNCHANGED pgVars
  BY <1>6 DEF pgVars, RowsUnique, ResultsHaveRows
<1> QED
  BY <1>3, <1>4, <1>5, <1>6, PostgresWriters

(***************************************************************************)
(* Both constraints hold in every reachable state.                         *)
(***************************************************************************)
THEOREM RowsInvariant == Spec => [](RowsUnique /\ ResultsHaveRows)
<1>1. Init => RowsUnique /\ ResultsHaveRows
  BY DEF Init, RowsUnique, ResultsHaveRows
<1>2. TypeOK /\ RowsUnique /\ ResultsHaveRows /\ [Next]_vars
        => RowsUnique' /\ ResultsHaveRows'
  <2> SUFFICES ASSUME TypeOK, RowsUnique, ResultsHaveRows, [Next]_vars
               PROVE  RowsUnique' /\ ResultsHaveRows'
    OBVIOUS
  <2>1. CASE Api
    BY <2>1 DEF Api, sideVars, RowsUnique, ResultsHaveRows
  <2>2. CASE \E w \in Workers : WorkerNext(w)
    BY <2>2, WorkerKeepsRows
  <2>3. CASE UNCHANGED vars
    BY <2>3 DEF vars, sideVars, RowsUnique, ResultsHaveRows
  <2> QED
    BY <2>1, <2>2, <2>3 DEF Next
<1> QED
  BY <1>1, <1>2, TypeCorrect, PTL DEF Spec

(***************************************************************************)
(* A (video, version, policy) never gets two results: jobs with rows have  *)
(* different keys, and a result needs a row.                               *)
(***************************************************************************)
THEOREM OneResult == Spec => []OneResultPerKey
<1>1. RowsUnique /\ ResultsHaveRows => OneResultPerKey
  BY DEF RowsUnique, ResultsHaveRows, OneResultPerKey
<1> QED
  BY <1>1, RowsInvariant, PTL

-----------------------------------------------------------------------------
(* The indexes beside the workers.                                         *)

(***************************************************************************)
(* What a worker does to the hashes, the indexes and the stream: nothing,  *)
(* or HSET of its own job, or XADD of its own job when that exists.        *)
(***************************************************************************)
LEMMA WorkerWrites ==
    ASSUME TypeOK, NEW w \in Workers, WorkerNext(w)
    PROVE  /\ UNCHANGED <<uniqueIdx, videoIdx, apiPc, target>>
           /\ \/ UNCHANGED <<kv, stream>>
              \/ /\ Job(w) \in Jobs
                 /\ \E s \in Statuses, n \in Nat : HSet(Job(w), s, n)
                 /\ UNCHANGED stream
              \/ /\ Job(w) \in Jobs
                 /\ Exists(Job(w)) /\ XAdd(Job(w)) /\ UNCHANGED kv
<1> USE DEF storeVars, indexVars, apiVars
<1>1. pc[w] # "idle" => Job(w) \in Jobs
  BY JobIsJob
<1>2. snap[w].attempts \in Nat /\ snap[w].attempts + 1 \in Nat
  BY DEF TypeOK, WorkerTypeOK, JobHash
<1>3. {"PROCESSING", "CLASSIFIED", "FAILED_RETRYABLE", "FAILED_TERMINAL"}
          \subseteq Statuses
  BY DEF Statuses
<1>4. CASE WriteSkipped(w)
  BY <1>1, <1>2, <1>3, <1>4 DEF WriteSkipped, At
<1>5. CASE WriteProcessing(w)
  BY <1>1, <1>2, <1>3, <1>5 DEF WriteProcessing, At
<1>6. CASE WriteClassified(w)
  BY <1>1, <1>2, <1>3, <1>6 DEF WriteClassified, At
<1>7. CASE WriteFailed(w)
  BY <1>1, <1>2, <1>3, <1>7 DEF WriteFailed, At
<1>8. CASE Requeue(w)
  BY <1>1, <1>8 DEF Requeue, At
<1>9. CASE \/ ReadMessage(w) \/ LoadJob(w) \/ GetCurrent(w) \/ GetPersisted(w)
           \/ ReadForUpdate(w) \/ MoveToDlq(w) \/ Ack(w) \/ Crash(w)
  BY <1>9 DEF ReadMessage, LoadJob, GetCurrent, GetPersisted, ReadForUpdate,
              MoveToDlq, Ack, Crash
<1>10. CASE \/ MarkProcessing(w) \/ Analyse(w) \/ AnalyseRejects(w) \/ Move(w)
            \/ MoveRefused(w) \/ Commit(w) \/ CommitConflicts(w)
            \/ CallRaises(w) \/ MarkFailed(w)
  BY <1>10 DEF MarkProcessing, Analyse, AnalyseRejects, Move, MoveRefused, Commit,
               CommitConflicts, CallRaises, MarkFailed
<1>11. CASE \/ PublishVideo(w) \/ PublishLegacy(w) \/ PublishAction(w) \/ WriteRuntime(w)
  BY <1>11 DEF PublishVideo, PublishLegacy, PublishAction, WriteRuntime, Publish
<1> QED
  BY <1>4, <1>5, <1>6, <1>7, <1>8, <1>9, <1>10, <1>11 DEF WorkerNext, WorkerStep

(***************************************************************************)
(* No step of a worker makes an index or a message dangle, takes a job or  *)
(* an index entry away, or falsifies what a request knows.                 *)
(***************************************************************************)
LEMMA WorkerKeepsIndexes ==
    ASSUME TypeOK, NothingDangles, TargetInv, NEW w \in Workers, WorkerNext(w)
    PROVE  NothingDangles' /\ TargetInv' /\ NothingLost
<1>1. UNCHANGED <<uniqueIdx, videoIdx, apiPc, target>>
  BY WorkerWrites
<1>2. ApiTypeOK
  BY DEF TypeOK
<1>3. NothingDangles' /\ NothingLost
  <2>1. CASE UNCHANGED <<kv, stream>>
    BY <1>1, <2>1, StoreUnchanged
  <2> DEFINE j == Job(w)
  <2>2. ASSUME NEW i \in Jobs, NEW s \in Statuses, NEW n \in Nat, HSet(i, s, n),
               UNCHANGED stream
        PROVE  NothingDangles' /\ NothingLost
    <3>1. Exists(i)' /\ \A k \in Jobs : Exists(k) => Exists(k)'
      BY <1>2, <2>2, HSetExists DEF ApiTypeOK, StoreTypeOK
    <3> QED
      BY <1>1, <1>2, <2>2, <3>1, WritesOfExistingJob
  <2>3. ASSUME NEW i \in Jobs, Exists(i), XAdd(i), UNCHANGED kv
        PROVE  NothingDangles' /\ NothingLost
    <3>1. Exists(i)' /\ \A k \in Jobs : Exists(k) => Exists(k)'
      BY <2>3 DEF Exists
    <3> QED
      BY <1>1, <1>2, <2>3, <3>1, WritesOfExistingJob
  <2>4. \/ UNCHANGED <<kv, stream>>
        \/ j \in Jobs /\ (\E s \in Statuses, n \in Nat : HSet(j, s, n)) /\ UNCHANGED stream
        \/ j \in Jobs /\ Exists(j) /\ XAdd(j) /\ UNCHANGED kv
    BY WorkerWrites
  <2> HIDE DEF j
  <2> QED
    BY <2>1, <2>2, <2>3, <2>4
<1>4. TargetInv'
  <2> SUFFICES ASSUME NEW r \in Requests
               PROVE  /\ KeyOf[target'[r]] = KeyOf[JobOf[r]]
                      /\ apiPc'[r] = "start" => target'[r] = JobOf[r]
                      /\ apiPc'[r] \in FoundOrWritten => Exists(target[r])'
                      /\ apiPc'[r] \in VideoIndexed => videoIdx'[VideoOf[target'[r]]] # NoJob
    BY DEF TargetInv
  <2>1. target[r] \in Jobs
    BY <1>2 DEF ApiTypeOK
  <2>2. Exists(target[r]) => Exists(target[r])'
    BY <1>1, <1>3, <2>1 DEF NothingLost, Exists
  <2> QED
    BY <1>1, <2>2 DEF TargetInv
<1> QED
  BY <1>3, <1>4

PipelineInv == TypeOK /\ CommitInv /\ NothingDangles /\ TargetInv

(***************************************************************************)
(* No step of the pipeline breaks the invariant or loses a job or an index *)
(* entry.                                                                  *)
(***************************************************************************)
LEMMA StepKeepsPipeline ==
    ASSUME PipelineInv, Next
    PROVE  PipelineInv' /\ NothingLost
<1>1. CASE Api
  <2>1. ApiInv /\ ApiNext
    BY <1>1 DEF PipelineInv, TypeOK, ApiInv, Api
  <2>2. ApiInv' /\ NothingLost
    BY <2>1, RequestKeepsInv
  <2>3. TypeOK' /\ CommitInv'
    BY <1>1, ApiKeepsType, ApiKeepsCommit DEF PipelineInv
  <2> QED
    BY <2>2, <2>3 DEF PipelineInv, ApiInv
<1>2. CASE \E w \in Workers : WorkerNext(w)
  BY <1>2, WorkerKeepsType, WorkerKeepsCommit, WorkerKeepsIndexes DEF PipelineInv
<1> QED
  BY <1>1, <1>2 DEF Next

(***************************************************************************)
(* The whole pipeline starts in its invariant.                             *)
(***************************************************************************)
LEMMA InitPipeline == Init => PipelineInv
<1>1. Init => ApiInv
  BY ApiInitInv DEF Init
<1>2. Init => CommitInv
  BY DEF Init, ApiInit, StoreInit, CommitInv, Knows, Justified, NoHash
<1> QED
  BY <1>1, <1>2, InitType DEF PipelineInv, ApiInv

(***************************************************************************)
(* A step that leaves the pipeline alone keeps its invariant.              *)
(***************************************************************************)
LEMMA PipelineStutters ==
    ASSUME PipelineInv, UNCHANGED vars
    PROVE  PipelineInv'
  BY DEF vars, storeVars, apiVars, workerVars, sideVars, PipelineInv, TypeOK,
         ApiTypeOK, StoreTypeOK, WorkerTypeOK, SideTypeOK, CommitInv, Knows,
         Justified, Job, NothingDangles, TargetInv, Exists

(***************************************************************************)
(* With the workers at work beside the requests, the indexes and the       *)
(* stream still name only jobs that exist, and a 202 is still followed by  *)
(* an index entry: no worker takes back what an endpoint has answered.     *)
(***************************************************************************)
THEOREM PipelineIndexes == Spec => [](NothingDangles /\ AcceptedIsVisible)
<1>1. PipelineInv /\ [Next]_vars => PipelineInv'
  BY StepKeepsPipeline, PipelineStutters
<1>2. PipelineInv => NothingDangles /\ AcceptedIsVisible
  BY VisibleByInv DEF PipelineInv, TypeOK, ApiInv
<1> QED
  BY InitPipeline, <1>1, <1>2, PTL DEF Spec

=============================================================================
