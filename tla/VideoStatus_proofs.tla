-------------------------- MODULE VideoStatus_proofs --------------------------
(***************************************************************************)
(* Proofs about VideoStatus: what the status endpoint answers while any    *)
(* number of requests and workers write the stores it reads.               *)
(***************************************************************************)
EXTENDS VideoStatus, VideoPipeline_proofs, TLAPS

AskPcs == {"start", "index", "hash", "result", "latest",
           "answered", "notFound", "failed"}

Answer == [job : Jobs \cup {NoJob},
           status : Statuses \cup {"none"},
           result : {"none", "stay", "move"}]

AskTypeOK ==
    /\ askPc \in AskPcs
    /\ askVideo \in Videos
    /\ askedLate \in BOOLEAN
    /\ shown \in Answer

(***************************************************************************)
(* What the call has read stays true of the stores it read it from: the    *)
(* job the index named exists from then on, and a status that said         *)
(* classified was written after the result, which is final.                *)
(***************************************************************************)
ShownInv ==
    /\ askPc \in {"hash", "result", "answered"} => shown.job \in Jobs
    /\ askPc = "hash" => Exists(shown.job)
    /\ askPc = "result" => shown.status = "CLASSIFIED" /\ pgResult[shown.job] # "none"
    /\ ClassifiedShowsResult

(***************************************************************************)
(* A call that came after a 202 finds the index entry the 202 stands for,  *)
(* so it never falls back on the newest result.                            *)
(***************************************************************************)
LateInv ==
    askedLate => /\ videoIdx[askVideo] # NoJob
                 /\ askPc \notin {"latest", "notFound"}

StatusInv == PipelineInv /\ AskTypeOK /\ ShownInv /\ LateInv

(***************************************************************************)
(* Before the call comes in it has read nothing.                           *)
(***************************************************************************)
LEMMA StatusInitInv == StatusInit => StatusInv
<1> SUFFICES ASSUME StatusInit PROVE StatusInv
  OBVIOUS
<1>1. PipelineInv
  BY InitPipeline DEF StatusInit
<1>2. AskTypeOK
  BY DEF StatusInit, AskTypeOK, AskPcs, Answer, Nothing
<1>3. ShownInv /\ LateInv
  BY DEF StatusInit, ShownInv, LateInv, ClassifiedShowsResult, Nothing
<1> QED
  BY <1>1, <1>2, <1>3 DEF StatusInv

(***************************************************************************)
(* No step of a request or a worker makes what the call has read untrue.   *)
(***************************************************************************)
LEMMA PipelineStepKeepsStatus ==
    ASSUME StatusInv, Next, UNCHANGED askVars
    PROVE  StatusInv'
<1>1. PipelineInv' /\ NothingLost
  BY StepKeepsPipeline DEF StatusInv
<1>2. \A j \in Jobs : pgResult[j] # "none" => pgResult'[j] = pgResult[j]
  BY ApiGrows, WorkerGrows DEF Next, Grows, StatusInv, PipelineInv
<1>3. UNCHANGED <<askPc, askVideo, askedLate, shown>>
  BY DEF askVars
<1>4. AskTypeOK'
  BY <1>3 DEF StatusInv, AskTypeOK
<1>5. ShownInv'
  <2>1. shown.job \in Jobs /\ Exists(shown.job) => Exists(shown.job)'
    BY <1>1, <1>3 DEF NothingLost, Exists
  <2>2. ClassifiedShowsResult'
    BY <1>2, <1>3 DEF StatusInv, ShownInv, ClassifiedShowsResult
  <2> QED
    BY <1>2, <1>3, <2>1, <2>2 DEF StatusInv, ShownInv
<1>6. LateInv'
  BY <1>1, <1>3 DEF StatusInv, LateInv, NothingLost, AskTypeOK
<1> QED
  BY <1>1, <1>4, <1>5, <1>6 DEF StatusInv

(***************************************************************************)
(* A read of the endpoint that raises changes only the count of faults.    *)
(***************************************************************************)
LEMMA FaultKeepsPipeline ==
    ASSUME PipelineInv, Fault,
           UNCHANGED <<storeVars, apiVars, workerVars, sideVars, crashes>>
    PROVE  PipelineInv'
<1>1. faults' \in 0..MaxFaults
  BY FaultType DEF PipelineInv, TypeOK, ApiTypeOK, StoreTypeOK
<1> QED
  BY <1>1 DEF storeVars, apiVars, workerVars, sideVars, PipelineInv, TypeOK,
         ApiTypeOK, StoreTypeOK, WorkerTypeOK, SideTypeOK, CommitInv, Knows,
         Justified, Job, NothingDangles, TargetInv, Exists

(***************************************************************************)
(* Each step of the call reads what the invariant says of its store.       *)
(***************************************************************************)
LEMMA StatusStepKeepsStatus ==
    ASSUME StatusInv, StatusStep
    PROVE  StatusInv'
<1> USE DEF AskTypeOK, ShownInv, LateInv, ClassifiedShowsResult
<1>1. /\ PipelineInv /\ AskTypeOK /\ ShownInv /\ LateInv
      /\ kv \in [Jobs -> JobHash]
      /\ pgResult \in [Jobs -> {"none", "stay", "move"}]
      /\ videoIdx \in [Videos -> Jobs \cup {NoJob}]
      /\ NoJob \notin Jobs
  BY JobsAssumption
  DEF StatusInv, PipelineInv, TypeOK, ApiTypeOK, StoreTypeOK, SideTypeOK
<1>2. {"index", "hash", "result", "latest", "answered", "notFound", "failed"} \subseteq AskPcs
  BY DEF AskPcs
<1>3. ASSUME UNCHANGED vars
      PROVE  /\ PipelineInv'
             /\ UNCHANGED <<kv, videoIdx, pgResult>>
  BY <1>1, <1>3, PipelineStutters DEF vars, storeVars, sideVars
<1>4. CASE Ask
  <2>1. PipelineInv' /\ UNCHANGED <<kv, videoIdx, pgResult>>
    BY <1>3, <1>4 DEF Ask
  <2>2. AskTypeOK' /\ ShownInv'
    BY <1>1, <1>2, <1>4, <2>1 DEF Ask
  <2>3. LateInv'
    <3>1. AcceptedIsVisible
      BY <1>1, VisibleByInv DEF PipelineInv, TypeOK, ApiInv
    <3> QED
      BY <1>4, <2>1, <3>1 DEF Ask, AcceptedIsVisible
  <2> QED
    BY <2>1, <2>2, <2>3 DEF StatusInv
<1>5. CASE ReadIndex
  <2> DEFINE j == videoIdx[askVideo]
  <2>1. PipelineInv' /\ UNCHANGED <<kv, videoIdx, pgResult>>
    BY <1>3, <1>5 DEF ReadIndex
  <2>2. j \in Jobs \cup {NoJob} /\ (j # NoJob => j \in Jobs /\ Exists(j))
    BY <1>1 DEF PipelineInv, NothingDangles
  <2>3. /\ shown' = [shown EXCEPT !.job = j]
        /\ askPc' = IF j = NoJob THEN "latest" ELSE "hash"
        /\ UNCHANGED <<askVideo, askedLate>>
    BY <1>5 DEF ReadIndex
  <2> HIDE DEF j
  <2>4. shown' \in Answer /\ shown'.job = j
    BY <1>1, <2>2, <2>3 DEF Answer
  <2>5. AskTypeOK' /\ LateInv'
    BY <1>1, <1>2, <1>5, <2>1, <2>3, <2>4 DEF j
  <2>6. ShownInv'
    BY <1>1, <2>1, <2>2, <2>3, <2>4 DEF Exists
  <2> QED
    BY <2>1, <2>5, <2>6 DEF StatusInv
<1>6. CASE ReadHash
  <2> DEFINE j == shown.job
             s == kv[shown.job].status
  <2>1. PipelineInv' /\ UNCHANGED <<kv, videoIdx, pgResult>>
    BY <1>3, <1>6 DEF ReadHash
  <2>2. /\ j \in Jobs /\ Exists(j) /\ s \in Statuses \cup {"none"}
        /\ s = "CLASSIFIED" => pgResult[j] # "none"
    BY <1>1, <1>6 DEF ReadHash, JobHash, PipelineInv, CommitInv, Justified
  <2>3. /\ shown' = [shown EXCEPT !.status = s]
        /\ askPc' = IF s = "CLASSIFIED" THEN "result" ELSE "answered"
        /\ UNCHANGED <<askVideo, askedLate>>
    BY <1>6, <2>2 DEF ReadHash
  <2>4. shown' \in Answer /\ shown'.job = j /\ shown'.status = s
    BY <1>1, <2>2, <2>3 DEF Answer
  <2> HIDE DEF j, s
  <2>5. AskTypeOK' /\ LateInv'
    BY <1>1, <1>2, <2>1, <2>3, <2>4
  <2>6. ShownInv'
    BY <1>1, <2>1, <2>2, <2>3, <2>4
  <2> QED
    BY <2>1, <2>5, <2>6 DEF StatusInv
<1>7. CASE ReadResult
  <2> DEFINE j == shown.job
             p == pgResult[shown.job]
  <2>1. PipelineInv' /\ UNCHANGED <<kv, videoIdx, pgResult>>
    BY <1>3, <1>7 DEF ReadResult
  <2>2. j \in Jobs /\ p \in {"none", "stay", "move"} /\ p # "none"
    BY <1>1, <1>7 DEF ReadResult
  <2>3. shown' \in Answer /\ shown'.job = j /\ shown'.result = p
    BY <1>1, <1>7, <2>2 DEF ReadResult, Answer
  <2>4. AskTypeOK' /\ LateInv'
    BY <1>1, <1>2, <1>7, <2>1, <2>3 DEF ReadResult
  <2>5. ShownInv'
    BY <1>1, <1>7, <2>1, <2>2, <2>3 DEF ReadResult
  <2> QED
    BY <2>1, <2>4, <2>5 DEF StatusInv
<1>8. CASE ReadLatest
  <2>1. PipelineInv' /\ UNCHANGED <<kv, videoIdx, pgResult>>
    BY <1>3, <1>8 DEF ReadLatest
  <2>2. ~askedLate
    BY <1>1, <1>8 DEF ReadLatest
  <2>3. LateInv'
    BY <1>8, <2>2 DEF ReadLatest
  <2>4. CASE askPc' = "notFound" /\ UNCHANGED shown
    BY <1>1, <1>2, <1>8, <2>1, <2>3, <2>4 DEF ReadLatest, StatusInv
  <2>5. CASE \E j \in Jobs :
                 /\ pgResult[j] # "none"
                 /\ shown' = [job |-> j, status |-> "CLASSIFIED", result |-> pgResult[j]]
                 /\ askPc' = "answered"
    <3>1. PICK j \in Jobs :
                 /\ pgResult[j] # "none"
                 /\ shown' = [job |-> j, status |-> "CLASSIFIED", result |-> pgResult[j]]
                 /\ askPc' = "answered"
      BY <2>5
    <3>2. shown' \in Answer
      BY <1>1, <3>1 DEF Answer, Statuses
    <3>3. AskTypeOK'
      BY <1>1, <1>2, <1>8, <3>1, <3>2 DEF ReadLatest
    <3>4. ShownInv'
      BY <2>1, <3>1
    <3> QED
      BY <2>1, <2>3, <3>3, <3>4 DEF StatusInv
  <2> QED
    BY <1>8, <2>4, <2>5 DEF ReadLatest
<1>9. CASE AskFails
  <2>1. PipelineInv'
    BY <1>1, <1>9, FaultKeepsPipeline DEF AskFails
  <2>2. UNCHANGED <<kv, videoIdx, pgResult>>
    BY <1>9 DEF AskFails, storeVars, sideVars
  <2> QED
    BY <1>1, <1>2, <1>9, <2>1, <2>2 DEF AskFails, StatusInv
<1> QED
  BY <1>4, <1>5, <1>6, <1>7, <1>8, <1>9 DEF StatusStep

(***************************************************************************)
(* Every state the endpoint and the pipeline reach together satisfies the  *)
(* inductive invariant.                                                    *)
(***************************************************************************)
THEOREM StatusInvariant == StatusSpec => []StatusInv
<1>1. StatusInv /\ [StatusNext]_statusVars => StatusInv'
  <2> SUFFICES ASSUME StatusInv, UNCHANGED statusVars PROVE StatusInv'
    BY PipelineStepKeepsStatus, StatusStepKeepsStatus DEF StatusNext
  <2>1. PipelineInv' /\ UNCHANGED <<kv, videoIdx, pgResult, askPc, askVideo, askedLate, shown>>
    BY PipelineStutters DEF StatusInv, statusVars, askVars, vars, storeVars, sideVars
  <2> QED
    BY <2>1 DEF StatusInv, AskTypeOK, ShownInv, LateInv, ClassifiedShowsResult, Exists
<1> QED
  BY StatusInitInv, <1>1, PTL DEF StatusSpec

(***************************************************************************)
(* However reads and writes of the two stores interleave, an answer that   *)
(* says classified carries the committed result.                           *)
(***************************************************************************)
THEOREM ClassifiedAnswers == StatusSpec => []ClassifiedShowsResult
<1>1. StatusInv => ClassifiedShowsResult
  BY DEF StatusInv, ShownInv
<1> QED
  BY <1>1, StatusInvariant, PTL

(***************************************************************************)
(* A call that comes in after a 202 for its video is never answered 404.   *)
(***************************************************************************)
THEOREM AcceptedIsAlwaysFound == StatusSpec => []AcceptedIsFound
<1>1. StatusInv => AcceptedIsFound
  BY DEF StatusInv, LateInv, AcceptedIsFound
<1> QED
  BY <1>1, StatusInvariant, PTL

=============================================================================
