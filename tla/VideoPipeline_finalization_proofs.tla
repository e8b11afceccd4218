----------------- MODULE VideoPipeline_finalization_proofs -----------------
(***************************************************************************)
(* VideoPipeline implements Finalization, for any sets of jobs, requests   *)
(* and workers, any races, failures and crashes.                           *)
(***************************************************************************)
EXTENDS VideoPipeline_proofs

PublishPcs == {"pushVideo", "pushLegacy", "pushAction", "writeRuntime"}

(***************************************************************************)
(* What a publishing worker has published already: everything that comes   *)
(* before the output it is about to publish.                               *)
(***************************************************************************)
Progress(w) ==
    /\ pc[w] \in {"pushVideo", "pushLegacy"} =>
           (need[w] <=> pgResult[Job(w)] = "move")
    /\ pc[w] = "pushLegacy" => "video" \in published[Job(w)]
    /\ pc[w] = "pushAction" => {"video", "legacy"} \subseteq published[Job(w)]
    /\ pc[w] = "writeRuntime" =>
           /\ {"video", "legacy"} \subseteq published[Job(w)]
           /\ pgResult[Job(w)] = "move" => "action" \in published[Job(w)]

(***************************************************************************)
(* A step of a worker publishes, commits, or leaves both stores alone and  *)
(* the worker outside _publish_after_commit.                               *)
(***************************************************************************)
LEMMA PublishCases ==
    ASSUME TypeOK, NEW w \in Workers, WorkerNext(w)
    PROVE  \/ Commit(w) \/ PublishVideo(w) \/ PublishLegacy(w)
           \/ PublishAction(w) \/ WriteRuntime(w)
           \/ pc'[w] \notin PublishPcs /\ UNCHANGED <<pgResult, published>>
<1>1. pc \in [Workers -> PcValues]
  BY DEF TypeOK, WorkerTypeOK
<1> USE <1>1 DEF PublishPcs, At, Jump, Release, Except, sideVars, pgVars
<1>2. CASE ReadMessage(w)
  BY <1>2 DEF ReadMessage
<1>3. CASE LoadJob(w) \/ GetCurrent(w) \/ GetPersisted(w)
  BY <1>3 DEF LoadJob, GetCurrent, GetPersisted
<1>4. CASE ReadForUpdate(w)
  BY <1>4 DEF ReadForUpdate, AfterRead
<1>5. CASE WriteSkipped(w) \/ WriteProcessing(w) \/ WriteClassified(w) \/ WriteFailed(w)
  BY <1>5 DEF WriteSkipped, WriteProcessing, WriteClassified, WriteFailed, Proceed
<1>6. CASE MarkProcessing(w)
  BY <1>6 DEF MarkProcessing, KeyTaken, Proceed
<1>7. CASE Analyse(w) \/ AnalyseRejects(w)
  BY <1>7 DEF Analyse, AnalyseRejects
<1>8. CASE Move(w) \/ MoveRefused(w)
  BY <1>8 DEF Move, MoveRefused, Proceed
<1>9. CASE CommitConflicts(w) \/ CallRaises(w)
  BY <1>9 DEF CommitConflicts, CallRaises
<1>10. CASE MarkFailed(w) \/ Requeue(w) \/ MoveToDlq(w)
  BY <1>10 DEF MarkFailed, Requeue, MoveToDlq
<1>11. CASE Ack(w) \/ Crash(w)
  BY <1>11 DEF Ack, Crash
<1> QED
  BY <1>2, <1>3, <1>4, <1>5, <1>6, <1>7, <1>8, <1>9, <1>10, <1>11
     DEF WorkerNext, WorkerStep

(***************************************************************************)
(* What Publish does to the stores.                                        *)
(***************************************************************************)
LEMMA PublishFacts ==
    ASSUME TypeOK, NEW w \in Workers, NEW here \in PcValues \ {"idle"},
           NEW o \in Outputs, NEW l \in PcValues, Publish(w, here, o, l)
    PROVE  /\ pc[w] = here /\ Job(w) \in Jobs /\ Job(w)' = Job(w)
           /\ pc'[w] \in {l, "failRead"} /\ need' = need
           /\ pgResult' = pgResult /\ moved' = moved
           /\ published' = [published EXCEPT ![Job(w)] = @ \cup {o}]
           /\ published'[Job(w)] = published[Job(w)] \cup {o}
           /\ \A j \in Jobs : published[j] \subseteq published'[j]
<1>1. pc[w] = here /\ Job(w) \in Jobs
  BY JobIsJob DEF Publish, At
<1>2. /\ pgResult' = pgResult /\ moved' = moved /\ need' = need
      /\ stream' = stream /\ msg' = msg
      /\ published' = [published EXCEPT ![Job(w)] = @ \cup {o}]
  BY DEF Publish, pgVars, localVars, storeVars
<1>3. pc'[w] \in {l, "failRead"}
  BY DEF Publish, Proceed, Jump, Except, TypeOK, WorkerTypeOK
<1>4. published \in [Jobs -> SUBSET Outputs]
  BY DEF TypeOK, SideTypeOK
<1> QED
  BY <1>1, <1>2, <1>3, <1>4 DEF Job

(***************************************************************************)
(* A worker's own progress, through the commit and each of the outputs.    *)
(***************************************************************************)
LEMMA OwnProgress ==
    ASSUME TypeOK, NEW w \in Workers, Progress(w), WorkerNext(w)
    PROVE  /\ Progress(w)'
           /\ \A j \in Jobs : published[j] \subseteq published'[j]
<1> USE DEF Outputs, PcValues
<1>1. published \in [Jobs -> SUBSET Outputs] /\ pgResult \in [Jobs -> {"none", "stay", "move"}]
      /\ pc \in [Workers -> PcValues] /\ need \in [Workers -> BOOLEAN]
  BY DEF TypeOK, SideTypeOK, WorkerTypeOK
<1>2. CASE Commit(w)
  <2>1. Job(w) \in Jobs /\ Job(w)' = Job(w)
    BY <1>2, JobIsJob DEF Commit, At, localVars, storeVars, Job
  <2>2. pc'[w] \in {"pushVideo", "failRead"} /\ need' = need /\ published' = published
        /\ pgResult'[Job(w)] = IF need[w] THEN "move" ELSE "stay"
    BY <1>1, <1>2, <2>1 DEF Commit, Proceed, Jump, Except, localVars
  <2> QED
    BY <2>1, <2>2 DEF Progress
<1>3. CASE PublishVideo(w)
  BY <1>3, PublishFacts DEF PublishVideo, Progress
<1>4. CASE PublishLegacy(w)
  <2> DEFINE l == IF need[w] THEN "pushAction" ELSE "writeRuntime"
  <2>1. l \in PcValues
    OBVIOUS
  <2>2. /\ pc[w] = "pushLegacy" /\ Job(w) \in Jobs /\ Job(w)' = Job(w)
        /\ pc'[w] \in {l, "failRead"} /\ pgResult' = pgResult
        /\ published'[Job(w)] = published[Job(w)] \cup {"legacy"}
        /\ \A j \in Jobs : published[j] \subseteq published'[j]
    BY <1>4, <2>1, PublishFacts DEF PublishLegacy
  <2> QED
    BY <2>2 DEF Progress
<1>5. CASE PublishAction(w)
  BY <1>5, PublishFacts DEF PublishAction, Progress
<1>6. CASE WriteRuntime(w)
  BY <1>6, PublishFacts DEF WriteRuntime, Progress
<1>7. CASE pc'[w] \notin PublishPcs /\ UNCHANGED <<pgResult, published>>
  BY <1>7 DEF Progress, PublishPcs
<1> QED
  BY <1>2, <1>3, <1>4, <1>5, <1>6, <1>7, PublishCases

(***************************************************************************)
(* A worker's progress outlives the steps of others: its result is final   *)
(* and nothing published is taken back.                                    *)
(***************************************************************************)
LEMMA ProgressIsStable ==
    ASSUME TypeOK, Grows, NEW v \in Workers, Knows(v), Progress(v),
           pc'[v] = pc[v], msg'[v] = msg[v], need'[v] = need[v],
           \A j \in Jobs : published[j] \subseteq published'[j]
    PROVE  Progress(v)'
<1>1. CASE pc[v] = "idle"
  BY <1>1 DEF Progress
<1>2. CASE pc[v] # "idle"
  <2>1. Job(v) \in Jobs /\ msg[v] \in DOMAIN stream
    BY <1>2, JobIsJob
  <2>2. Job(v)' = Job(v)
    BY <2>1 DEF Job, Grows
  <2>3. pc[v] \in PublishPcs => pgResult'[Job(v)] = pgResult[Job(v)]
    BY <2>1 DEF Knows, Grows, PublishPcs
  <2>4. published[Job(v)] \subseteq published'[Job(v)]
    BY <2>1
  <2> QED
    BY <2>2, <2>3, <2>4 DEF Progress, PublishPcs
<1> QED
  BY <1>1, <1>2

(***************************************************************************)
(* Every worker is as far as its place in the code says.                   *)
(***************************************************************************)
THEOREM ProgressInvariant == Spec => [](\A w \in Workers : Progress(w))
<1> DEFINE Inv == \A w \in Workers : Progress(w)
<1>1. Init => Inv
  BY DEF Init, Progress
<1>2. TypeOK /\ CommitInv /\ Inv /\ [Next]_vars => Inv'
  <2> SUFFICES ASSUME TypeOK, CommitInv, Inv, [Next]_vars, NEW v \in Workers
               PROVE  Progress(v)'
    OBVIOUS
  <2>1. Knows(v) /\ Progress(v)
    BY DEF CommitInv
  <2>2. CASE Api
    <3>1. Grows /\ UNCHANGED <<pc, msg, need, published>>
      BY <2>2, ApiGrows DEF Api, sideVars
    <3> QED
      BY <2>1, <3>1, ProgressIsStable
  <2>3. ASSUME NEW w \in Workers, WorkerNext(w)
        PROVE  Progress(v)'
    <3>1. /\ Progress(w)' /\ Grows /\ OthersStay(w)
          /\ \A j \in Jobs : published[j] \subseteq published'[j]
      BY <2>3, OwnProgress, WorkerGrows
    <3>2. CASE v = w
      BY <3>1, <3>2
    <3>3. CASE v # w
      BY <2>1, <3>1, <3>3, ProgressIsStable DEF OthersStay
    <3> QED
      BY <3>2, <3>3
  <2>4. CASE UNCHANGED vars
    BY <2>1, <2>4 DEF vars, storeVars, workerVars, sideVars, Progress, Job
  <2> QED
    BY <2>2, <2>3, <2>4 DEF Next
<1> QED
  BY <1>1, <1>2, CommitInvariant, PTL DEF Spec

-----------------------------------------------------------------------------
(* The refinement.                                                         *)

(***************************************************************************)
(* A commit decides the key of its job.                                    *)
(***************************************************************************)
LEMMA CommitDecides ==
    ASSUME TypeOK, CommitInv, RowsUnique, ResultsHaveRows, NEW w \in Workers, Commit(w)
    PROVE  F!Next
<1> DEFINE j == Job(w)
           verdict == IF need[w] THEN "move" ELSE "stay"
<1>1. j \in Jobs /\ pgJob[j] # "none" /\ pgResult[j] = "none" /\ pc[w] = "commit"
  BY JobIsJob DEF Commit, At, Committable, HasJobRow, NoRows
<1>2. \A i \in Jobs : KeyOf[i] = KeyOf[j] => pgResult[i] = "none"
  BY <1>1 DEF RowsUnique, ResultsHaveRows
<1>3. verdict = "move" => VideoOf[j] \in moved
  BY <1>1 DEF CommitInv, Knows
<1>4. /\ pgResult' = [pgResult EXCEPT ![j] = verdict]
      /\ UNCHANGED <<moved, published>>
  BY DEF Commit
<1>5. F!Decide(j, verdict)
  BY <1>2, <1>3, <1>4 DEF F!Decide
<1> QED
  BY <1>1, <1>5 DEF F!Next

(***************************************************************************)
(* A push, or the runtime write, publishes the next output.                *)
(***************************************************************************)
LEMMA PublishPublishes ==
    ASSUME TypeOK, CommitInv, NEW w \in Workers, Progress(w),
           PublishVideo(w) \/ PublishLegacy(w) \/ PublishAction(w) \/ WriteRuntime(w)
    PROVE  F!Next
<1> USE DEF Outputs, PcValues
<1>1. Knows(w)
  BY DEF CommitInv
<1>2. (IF need[w] THEN "pushAction" ELSE "writeRuntime") \in PcValues
  OBVIOUS
<1>3. PICK o \in Outputs :
          /\ Job(w) \in Jobs /\ pgResult' = pgResult /\ moved' = moved
          /\ published' = [published EXCEPT ![Job(w)] = @ \cup {o}]
          /\ \/ o = "video" /\ pc[w] = "pushVideo"
             \/ o = "legacy" /\ pc[w] = "pushLegacy"
             \/ o = "action" /\ pc[w] = "pushAction"
             \/ o = "runtime" /\ pc[w] = "writeRuntime"
  <2>1. CASE PublishVideo(w)
    BY <2>1, PublishFacts DEF PublishVideo
  <2>2. CASE PublishLegacy(w)
    BY <1>2, <2>2, PublishFacts DEF PublishLegacy
  <2>3. CASE PublishAction(w)
    BY <2>3, PublishFacts DEF PublishAction
  <2>4. CASE WriteRuntime(w)
    BY <2>4, PublishFacts DEF WriteRuntime
  <2> QED
    BY <2>1, <2>2, <2>3, <2>4
<1>4. pgResult[Job(w)] # "none" /\ (o = "action" => pgResult[Job(w)] = "move")
  BY <1>1, <1>3 DEF Knows
<1>5. F!Before(Job(w), o) \subseteq published[Job(w)]
  <2>1. CASE o = "video"
    BY <2>1 DEF F!Before
  <2>2. CASE o = "legacy"
    BY <1>3, <2>2 DEF F!Before, Progress
  <2>3. CASE o = "action"
    BY <1>3, <2>3 DEF F!Before, Progress
  <2>4. CASE o = "runtime"
    BY <1>3, <2>4 DEF F!Before, Progress
  <2> QED
    BY <2>1, <2>2, <2>3, <2>4
<1>6. F!Publish(Job(w), o)
  BY <1>3, <1>4, <1>5 DEF F!Publish
<1> QED
  BY <1>3, <1>6 DEF F!Next, F!Outputs

(***************************************************************************)
(* The other steps of a worker, and all of a request, move the video or    *)
(* leave result, bucket and outputs alone.                                 *)
(***************************************************************************)
LEMMA OtherStepsStutter ==
    ASSUME TypeOK, NEW w \in Workers, WorkerNext(w)
    PROVE  \/ Commit(w) \/ PublishVideo(w) \/ PublishLegacy(w)
           \/ PublishAction(w) \/ WriteRuntime(w)
           \/ [F!Next]_F!vars
<1> USE DEF sideVars, pgVars, F!vars
<1>1. CASE Move(w)
  <2>1. /\ Job(w) \in Jobs /\ VideoOf[Job(w)] \in Videos
        /\ moved' = moved \cup {VideoOf[Job(w)]}
        /\ UNCHANGED <<pgResult, published>>
    BY <1>1, JobIsJob DEF Move, At
  <2> QED
    BY <2>1 DEF F!Next, F!MoveVideo
<1>2. CASE ~ Move(w)
  BY <1>2 DEF WorkerNext, WorkerStep, ReadMessage, LoadJob, GetCurrent,
         GetPersisted, ReadForUpdate, WriteSkipped, WriteProcessing, WriteClassified,
         WriteFailed, MarkProcessing, Analyse, AnalyseRejects, MoveRefused,
         CommitConflicts, CallRaises, MarkFailed, Requeue, MoveToDlq, Ack, Crash
<1> QED
  BY <1>1, <1>2

(***************************************************************************)
(* The pipeline implements Finalization.                                   *)
(***************************************************************************)
THEOREM PipelineFinalizes == Spec => Finalizes
<1> DEFINE Inv == \A w \in Workers : Progress(w)
<1>1. Init => F!Init
  BY DEF Init, F!Init
<1>2. TypeOK /\ CommitInv /\ RowsUnique /\ ResultsHaveRows /\ Inv /\ [Next]_vars
          => [F!Next]_F!vars
  <2> SUFFICES ASSUME TypeOK, CommitInv, RowsUnique, ResultsHaveRows, Inv, [Next]_vars
               PROVE  [F!Next]_F!vars
    OBVIOUS
  <2>1. CASE Api \/ UNCHANGED vars
    BY <2>1 DEF Api, vars, sideVars, F!vars
  <2>2. ASSUME NEW w \in Workers, WorkerNext(w)
        PROVE  [F!Next]_F!vars
    BY <2>2, OtherStepsStutter, CommitDecides, PublishPublishes
  <2> QED
    BY <2>1, <2>2 DEF Next
<1> QED
  BY <1>1, <1>2, CommitInvariant, RowsInvariant, ProgressInvariant, PTL
     DEF Spec, Finalizes, F!Spec
=============================================================================
