----------------------- MODULE StatelessDetection_proofs -----------------------
(***************************************************************************)
(* Proofs about StatelessDetection, for any finite set of requests, any    *)
(* number of slots and attempts, any replies and any calls of clients.     *)
(***************************************************************************)
EXTENDS StatelessDetection, TLAPS, FiniteSetTheorems

-----------------------------------------------------------------------------
(* Facts about the data.                                                   *)

(***************************************************************************)
(* What taking the first of a queue and joining it at the end leave.       *)
(***************************************************************************)
LEMMA TailFacts ==
    ASSUME NEW S, NEW s \in Seq(S), s # <<>>
    PROVE  /\ Len(s) \in Nat /\ Len(s) > 0
           /\ DOMAIN s = 1..Len(s)
           /\ Head(s) = s[1] /\ s[1] \in S
           /\ Tail(s) \in Seq(S)
           /\ DOMAIN Tail(s) = 1..(Len(s) - 1)
           /\ \A i \in 1..(Len(s) - 1) : Tail(s)[i] = s[i + 1]
  OBVIOUS

(***************************************************************************)
(* A waiter joins the end of the queue.                                    *)
(***************************************************************************)
LEMMA AppendFacts ==
    ASSUME NEW S, NEW s \in Seq(S), NEW e \in S
    PROVE  /\ Len(s) \in Nat
           /\ DOMAIN s = 1..Len(s)
           /\ Append(s, e) \in Seq(S)
           /\ Append(s, e) # <<>>
           /\ DOMAIN Append(s, e) = 1..(Len(s) + 1)
           /\ \A i \in 1..Len(s) : Append(s, e)[i] = s[i]
           /\ Append(s, e)[Len(s) + 1] = e
  OBVIOUS

(***************************************************************************)
(* A valid output restated as an answer is well typed.                     *)
(***************************************************************************)
LEMMA AnswerType ==
    ASSUME NEW out, ValidOutput(out)
    PROVE  [status |-> 200, body |-> Answer(out)] \in Answers
  BY DEF Answers, Answer, ValidOutput, Overall, IsNsfw

(***************************************************************************)
(* Whatever the scores of a valid output, if some category reaches its     *)
(* threshold then the top category is unsafe and has a severity of 3 or    *)
(* more (ModerationModelOutput, is_nsfw).                                  *)
(***************************************************************************)
LEMMA NsfwIsSevere ==
    ASSUME NEW out, ValidOutput(out), IsNsfw(out)
    PROVE  out.top # "safe" /\ Overall(out) >= 3
<1>1. PICK c \in UnsafeCategories : out.scores[c] >= Threshold[c]
  BY DEF IsNsfw
<1>2. Threshold[c] >= 3 /\ Threshold[c] \in Int
  BY DEF Threshold
<1>3. c \in Categories /\ out.scores[c] \in Severities
  BY DEF ValidOutput, UnsafeCategories
<1>4. out.top # "safe"
  BY <1>1, <1>2, <1>3 DEF ValidOutput, Severities
<1>5. out.scores[c] <= out.scores[out.top] /\ out.scores[out.top] \in Severities
  BY <1>4 DEF ValidOutput
<1> QED
  BY <1>1, <1>2, <1>3, <1>4, <1>5 DEF Overall, Severities

(***************************************************************************)
(* What parses has a valid output.                                         *)
(***************************************************************************)
LEMMA ParsedIsValid ==
    ASSUME NEW r \in Requests, NEW reply \in Replies, Parses(r, reply)
    PROVE  ValidOutput(reply.items[1].out)
  BY DEF Parses, TextParses, BatchParses, ValidItem

-----------------------------------------------------------------------------
(* The semaphore.                                                          *)

(***************************************************************************)
(* SlotsAddUp is not inductive: Leave hands the slot of a request to the   *)
(* head of the queue, which must be a request that waits, and the queue    *)
(* must hold it once.                                                      *)
(***************************************************************************)
Waiting == {r \in Requests : pc[r] = "waiting"}

QueueInv ==
    /\ SlotsAddUp
    /\ waiters # <<>> => slots = 0
    /\ Waiting = {waiters[i] : i \in DOMAIN waiters}
    /\ \A i, j \in DOMAIN waiters : waiters[i] = waiters[j] => i = j

(***************************************************************************)
(* The calls under way are finitely many.                                  *)
(***************************************************************************)
LEMMA CallersFinite == IsFiniteSet(Callers) /\ Cardinality(Callers) \in Nat
<1>1. Callers \in SUBSET Requests
  BY DEF Callers
<1> QED
  BY <1>1, DetectionAssumption, FS_Subset, FS_CardinalityType

(***************************************************************************)
(* A step of a request that neither calls nor waits, and will not, leaves  *)
(* callers, waiters and slots as they are.                                 *)
(***************************************************************************)
LEMMA OutsideKeepsQueue ==
    ASSUME DetectionTypeOK, QueueInv, NEW r \in Requests,
           NEW label \in PcValues \ {"call", "waiting"},
           pc[r] \notin {"call", "waiting"}, pc' = [pc EXCEPT ![r] = label],
           UNCHANGED slotVars
    PROVE  /\ QueueInv'
           /\ pc' \in [Requests -> PcValues]
           /\ Callers' = Callers
<1>1. Callers' = Callers /\ Waiting' = Waiting
  BY DEF DetectionTypeOK, Callers, Waiting
<1>2. pc' \in [Requests -> PcValues]
  BY DEF DetectionTypeOK
<1> QED
  BY <1>1, <1>2 DEF QueueInv, SlotsAddUp, slotVars

(***************************************************************************)
(* Taking a free slot, or a place in the queue.                            *)
(***************************************************************************)
LEMMA AcquireKeepsQueue ==
    ASSUME DetectionTypeOK, QueueInv, NEW r \in Requests, Acquire(r)
    PROVE  QueueInv'
<1>1. /\ pc \in [Requests -> PcValues] /\ pc[r] = "acquire"
      /\ waiters \in Seq(Requests)
      /\ slots \in Nat
      /\ IsFiniteSet(Callers)
  BY DetectionAssumption, CallersFinite DEF DetectionTypeOK, Acquire, At
<1>2. CASE slots > 0 /\ waiters = <<>>
  <2>1. slots' = slots - 1 /\ pc' = [pc EXCEPT ![r] = "call"] /\ waiters' = waiters
    BY <1>2 DEF Acquire, Jump
  <2>2. Callers' = Callers \cup {r} /\ r \notin Callers /\ Waiting' = Waiting
    BY <1>1, <2>1 DEF Callers, Waiting
  <2>3. Cardinality(Callers') = Cardinality(Callers) + 1
    BY <1>1, <2>2, FS_AddElement
  <2>4. Cardinality(Callers) \in Nat
    BY CallersFinite
  <2> QED
    BY <1>1, <1>2, <2>1, <2>2, <2>3, <2>4
    DEF QueueInv, SlotsAddUp
<1>3. CASE ~(slots > 0 /\ waiters = <<>>)
  <2>1. /\ slots' = slots /\ pc' = [pc EXCEPT ![r] = "waiting"]
        /\ waiters' = Append(waiters, r)
    BY <1>3 DEF Acquire, Jump
  <2>2. Callers' = Callers /\ Waiting' = Waiting \cup {r} /\ r \notin Waiting
    BY <1>1, <2>1 DEF Callers, Waiting
  <2>3. slots = 0
    BY <1>1, <1>3 DEF QueueInv, SlotsAddUp
  <2>4. SlotsAddUp'
    BY <2>1, <2>2, <2>3 DEF QueueInv, SlotsAddUp
  <2>5. /\ Waiting' = {waiters'[i] : i \in DOMAIN waiters'}
        /\ \A i, j \in DOMAIN waiters' : waiters'[i] = waiters'[j] => i = j
    <3>1. \A i \in 1..Len(waiters) : waiters[i] # r
      BY <1>1, <2>2, AppendFacts DEF QueueInv
    <3>2. Waiting' = {waiters'[i] : i \in DOMAIN waiters'}
      BY <1>1, <2>1, <2>2, AppendFacts DEF QueueInv
    <3>3. \A i, j \in DOMAIN waiters' : waiters'[i] = waiters'[j] => i = j
      BY <1>1, <2>1, <3>1, AppendFacts DEF QueueInv
    <3> QED
      BY <3>2, <3>3
  <2>6. slots' = 0
    BY <2>1, <2>3
  <2> QED
    BY <2>4, <2>5, <2>6 DEF QueueInv
<1> QED
  BY <1>2, <1>3

(***************************************************************************)
(* Leaving with a slot: whoever is at the head of the queue waits, is in   *)
(* it once, and calls from now on; nobody else is touched.                 *)
(***************************************************************************)
LEMMA LeaveEffect ==
    ASSUME DetectionTypeOK, QueueInv, NEW r \in Requests, pc[r] = "call",
           NEW label \in {"gpuPause", "answered"}, Leave(r, label)
    PROVE  /\ QueueInv'
           /\ pc'[r] = label
           /\ \A x \in Requests \ {r} :
                  \/ pc'[x] = pc[x]
                  \/ pc[x] = "waiting" /\ pc'[x] = "call" /\ waiters # <<>> /\ x = Head(waiters)
           /\ waiters' = IF waiters = <<>> THEN waiters ELSE Tail(waiters)
           /\ slots' \in 0..GpuMaxConcurrency
           /\ pc' \in [Requests -> PcValues]
<1>1. /\ pc \in [Requests -> PcValues]
      /\ waiters \in Seq(Requests)
      /\ slots \in Nat
      /\ IsFiniteSet(Callers) /\ r \in Callers
      /\ GpuMaxConcurrency \in Nat
  BY DetectionAssumption, CallersFinite DEF DetectionTypeOK, Callers
<1>2. Cardinality(Callers) \in Nat /\ Cardinality(Callers \ {r}) = Cardinality(Callers) - 1
  BY <1>1, CallersFinite, FS_RemoveElement
<1>3. CASE waiters = <<>>
  <2>1. slots' = slots + 1 /\ pc' = [pc EXCEPT ![r] = label] /\ waiters' = waiters
    BY <1>3 DEF Leave
  <2>2. Callers' = Callers \ {r} /\ Waiting' = Waiting
    BY <1>1, <2>1 DEF Callers, Waiting
  <2>3. Cardinality(Callers') \in Nat
    BY <1>1, <2>2, FS_RemoveElement, FS_CardinalityType
  <2>4. QueueInv'
    BY <1>1, <1>2, <1>3, <2>1, <2>2 DEF QueueInv, SlotsAddUp
  <2>5. slots' \in 0..GpuMaxConcurrency
    BY <1>1, <1>2, <2>1, <2>2, <2>3 DEF QueueInv, SlotsAddUp
  <2> QED
    BY <1>1, <1>3, <2>1, <2>4, <2>5 DEF PcValues
<1>4. CASE waiters # <<>>
  <2> DEFINE h == Head(waiters)
  <2>1. /\ slots' = slots /\ waiters' = Tail(waiters)
        /\ pc' = [pc EXCEPT ![r] = label, ![h] = "call"]
    BY <1>4 DEF Leave
  <2>2. /\ Len(waiters) \in Nat /\ Len(waiters) > 0 /\ DOMAIN waiters = 1..Len(waiters)
        /\ h = waiters[1] /\ h \in Requests
        /\ DOMAIN waiters' = 1..(Len(waiters) - 1)
        /\ \A i \in 1..(Len(waiters) - 1) : waiters'[i] = waiters[i + 1]
    BY <1>1, <1>4, <2>1, TailFacts
  <2>3. h \in Waiting
    BY <2>2 DEF QueueInv
  <2>4. pc[h] = "waiting" /\ h # r
    BY <2>3 DEF Waiting
  <2> HIDE DEF h
  <2>5. Callers' = (Callers \ {r}) \cup {h} /\ h \notin Callers
    BY <1>1, <2>1, <2>2, <2>4 DEF Callers
  <2>6. Waiting' = Waiting \ {h}
    BY <1>1, <2>1, <2>2, <2>4 DEF Waiting
  <2>7. Cardinality(Callers') = Cardinality(Callers)
    <3>1. IsFiniteSet(Callers \ {r})
      BY <1>1, FS_RemoveElement
    <3>2. Cardinality((Callers \ {r}) \cup {h}) = Cardinality(Callers \ {r}) + 1
      BY <2>5, <3>1, FS_AddElement
    <3> QED
      BY <1>2, <2>5, <3>2
  <2>8. SlotsAddUp' /\ slots' = 0
    BY <1>4, <2>1, <2>7 DEF QueueInv, SlotsAddUp
  <2>9. /\ Waiting' = {waiters'[i] : i \in DOMAIN waiters'}
        /\ \A i, j \in DOMAIN waiters' : waiters'[i] = waiters'[j] => i = j
    <3>1. \A i, j \in DOMAIN waiters' : waiters'[i] = waiters'[j] => i = j
      <4>1. \A i, j \in DOMAIN waiters : waiters[i] = waiters[j] => i = j
        BY DEF QueueInv
      <4> QED
        BY <2>2, <4>1
    <3>2. \A i \in DOMAIN waiters' : waiters'[i] \in Waiting /\ waiters'[i] # h
      BY <2>2 DEF QueueInv
    <3>3. ASSUME NEW x \in Waiting, x # h
          PROVE  \E i \in DOMAIN waiters' : waiters'[i] = x
      <4>1. PICK k \in DOMAIN waiters : waiters[k] = x
        BY DEF QueueInv
      <4>2. k # 1 /\ k - 1 \in 1..(Len(waiters) - 1)
        BY <2>2, <3>3, <4>1
      <4> QED
        BY <2>2, <4>1, <4>2
    <3> QED
      BY <2>6, <3>1, <3>2, <3>3
  <2> QED
    BY <1>1, <1>4, <2>1, <2>2, <2>4, <2>8, <2>9 DEF DetectionTypeOK, QueueInv, PcValues, h
<1> QED
  BY <1>3, <1>4

-----------------------------------------------------------------------------
(* The requests.                                                           *)

(***************************************************************************)
(* What the place of a request says of its kind, its failed attempts and   *)
(* its answer: none before the end, and never an attempt too many.         *)
(***************************************************************************)
AttemptInv ==
    \A r \in Requests :
        /\ pc[r] # "answered" => answer[r].status = 0
        /\ pc[r] \in {"get", "getPause", "bytes"} => KindOf[r] # "text"
        /\ pc[r] \in {"new", "bytes"} => attempts[r] = 0
        /\ pc[r] \in {"get", "getPause"} => attempts[r] < DownloadMaxAttempts
        /\ pc[r] \in {"acquire", "waiting", "call", "gpuPause"}
               => attempts[r] < GpuMaxAttempts

AnswerInv == ErrorIsOfLastAttempt /\ AnswersAgree

(***************************************************************************)
(* The inductive invariant.                                                *)
(***************************************************************************)
IInv == DetectionTypeOK /\ QueueInv /\ HoldsWhatItUses /\ AttemptInv /\ AnswerInv

(***************************************************************************)
(* Before the first request nothing is held.                               *)
(***************************************************************************)
LEMMA InitInv == Init => IInv
<1> SUFFICES ASSUME Init PROVE IInv
  OBVIOUS
<1>1. DetectionTypeOK
  BY DetectionAssumption DEF Init, DetectionTypeOK, PcValues, Errors, Answers, NoAnswer
<1>2. Callers = {} /\ Waiting = {}
  BY DEF Init, Callers, Waiting
<1>3. QueueInv
  BY <1>2, FS_EmptySet, DetectionAssumption
  DEF Init, QueueInv, SlotsAddUp
<1>4. HoldsWhatItUses
  BY DEF Init, HoldsWhatItUses
<1>5. AttemptInv /\ AnswerInv
  BY DetectionAssumption
  DEF Init, NoAnswer, AttemptInv, AnswerInv, ErrorIsOfLastAttempt, AnswersAgree
<1> QED
  BY <1>1, <1>3, <1>4, <1>5 DEF IInv

\* The statuses that requests are refused with.
Refusals == {400, 401, 422, 500}

(***************************************************************************)
(* A refused request is answered with one of them.                         *)
(***************************************************************************)
LEMMA RefusalStatus ==
    ASSUME NEW r \in Requests, NEW call \in Calls, Refusal(r, call) # 0
    PROVE  Refusal(r, call) \in Refusals
  BY DEF Refusal, Refusals

(***************************************************************************)
(* The answer of a request that is let in no further says nothing of       *)
(* attempts; nobody else's answer changes.                                 *)
(***************************************************************************)
LEMMA RefusedKeepsAnswers ==
    ASSUME IInv, NEW r \in Requests, NEW status \in Refusals,
           RespondError(r, status)
    PROVE  /\ answer' \in [Requests -> Answers]
           /\ pc' = [pc EXCEPT ![r] = "answered"]
           /\ answer'[r].status = status
           /\ \A x \in Requests \ {r} : answer'[x] = answer[x]
  BY DEF IInv, DetectionTypeOK, RespondError, Respond, Jump, Answers, Refusals

(***************************************************************************)
(* A request is received, or refused at once.                              *)
(***************************************************************************)
LEMMA ReceiveKeepsInv ==
    ASSUME IInv, NEW r \in Requests, Receive(r)
    PROVE  IInv'
<1> USE DEF IInv
<1>1. /\ pc[r] = "new" /\ pc \in [Requests -> PcValues]
      /\ UNCHANGED <<dirs, slotVars, attempts, last>>
  BY DEF Receive, At, DetectionTypeOK
<1>2. \/ \E label \in {"get", "bytes", "acquire"} :
             /\ pc' = [pc EXCEPT ![r] = label]
             /\ clients' = IF label = "get" THEN clients \cup {r} ELSE clients
             /\ label = "acquire" <=> KindOf[r] = "text"
             /\ UNCHANGED answer
      \/ /\ \E status \in Refusals : RespondError(r, status)
         /\ UNCHANGED clients
  <2>1. PICK call \in Calls :
            IF Refusal(r, call) = 0 THEN Admit(r)
            ELSE RespondError(r, Refusal(r, call)) /\ UNCHANGED clients
    BY DEF Receive
  <2>2. CASE Refusal(r, call) = 0
    BY <2>1, <2>2 DEF Admit, Jump, Refusals
  <2>3. CASE Refusal(r, call) # 0
    BY <2>1, <2>3, RefusalStatus
  <2> QED
    BY <2>2, <2>3
<1>3. ASSUME NEW label \in {"get", "bytes", "acquire"},
             pc' = [pc EXCEPT ![r] = label],
             clients' = (IF label = "get" THEN clients \cup {r} ELSE clients),
             label = "acquire" <=> KindOf[r] = "text",
             UNCHANGED answer
      PROVE  IInv'
  <2>1. QueueInv' /\ pc' \in [Requests -> PcValues]
    <3>1. label \in PcValues \ {"call", "waiting"}
      BY DEF PcValues
    <3> QED
      BY <1>1, <1>3, <3>1, OutsideKeepsQueue
  <2>2. DetectionTypeOK'
    BY <1>1, <1>3, <2>1 DEF DetectionTypeOK, slotVars
  <2>3. HoldsWhatItUses'
    BY <1>1, <1>3 DEF HoldsWhatItUses
  <2>4. AttemptInv'
    BY <1>1, <1>3, DetectionAssumption DEF AttemptInv
  <2>5. AnswerInv'
    BY <1>1, <1>3 DEF AnswerInv, ErrorIsOfLastAttempt, AnswersAgree
  <2> QED
    BY <2>1, <2>2, <2>3, <2>4, <2>5
<1>4. ASSUME NEW status \in Refusals, RespondError(r, status), UNCHANGED clients
      PROVE  IInv'
  <2>1. /\ answer' \in [Requests -> Answers]
        /\ pc' = [pc EXCEPT ![r] = "answered"]
        /\ answer'[r].status = status
        /\ \A x \in Requests \ {r} : answer'[x] = answer[x]
    BY <1>4, RefusedKeepsAnswers
  <2>2. QueueInv' /\ pc' \in [Requests -> PcValues]
    <3>1. "answered" \in PcValues \ {"call", "waiting"}
      BY DEF PcValues
    <3> QED
      BY <1>1, <2>1, <3>1, OutsideKeepsQueue
  <2>3. DetectionTypeOK'
    BY <1>1, <1>4, <2>1, <2>2 DEF DetectionTypeOK, slotVars
  <2>4. HoldsWhatItUses'
    BY <1>1, <1>4, <2>1 DEF HoldsWhatItUses
  <2>5. AttemptInv'
    BY <1>1, <2>1 DEF AttemptInv, Refusals
  <2>6. AnswerInv'
    BY <1>1, <2>1 DEF AnswerInv, Refusals, ErrorIsOfLastAttempt, AnswersAgree
  <2> QED
    BY <2>2, <2>3, <2>4, <2>5, <2>6
<1> QED
  BY <1>2, <1>3, <1>4

(***************************************************************************)
(* A failed attempt of a download: the next one, or the answer that its    *)
(* own error calls for, with every attempt used up.                        *)
(***************************************************************************)
LEMMA LastDownloadAnswer ==
    ASSUME NEW error \in {"timeout", "upstream", "request"}
    PROVE  /\ error \in Errors
           /\ [status |-> DownloadStatus(error)] \in Answers
           /\ DownloadStatus(error) \in {400, 502, 504}
           /\ DownloadStatus(error) = 504 => error = "timeout"
           /\ DownloadStatus(error) = 502 => error = "upstream"
  BY DEF DownloadStatus, Answers, Errors

(***************************************************************************)
(* One attempt of a download.                                              *)
(***************************************************************************)
LEMMA GetKeepsInv ==
    ASSUME IInv, NEW r \in Requests, Get(r)
    PROVE  IInv'
<1> USE DEF IInv
<1>1. /\ pc[r] = "get" /\ pc \in [Requests -> PcValues]
      /\ UNCHANGED <<dirs, slotVars>>
      /\ attempts \in [Requests -> Nat]
      /\ KindOf[r] # "text"
      /\ attempts[r] < DownloadMaxAttempts /\ DownloadMaxAttempts \in Nat
  BY DetectionAssumption DEF Get, At, DetectionTypeOK, AttemptInv
<1> DEFINE Moves(label) == pc' = [pc EXCEPT ![r] = label]
<1>2. ASSUME NEW label \in {"bytes", "getPause", "answered"}, Moves(label)
      PROVE  QueueInv' /\ pc' \in [Requests -> PcValues]
  <2>1. label \in PcValues \ {"call", "waiting"}
    BY DEF PcValues
  <2> QED
    BY <1>1, <1>2, <2>1, OutsideKeepsQueue
<1>3. CASE /\ Jump(r, "bytes")
           /\ clients' = clients \ {r}
           /\ attempts' = [attempts EXCEPT ![r] = 0]
           /\ UNCHANGED <<last, answer>>
  <2>1. Moves("bytes")
    BY <1>3 DEF Jump
  <2>2. QueueInv' /\ pc' \in [Requests -> PcValues]
    BY <1>2, <2>1
  <2>3. DetectionTypeOK'
    BY <1>1, <1>3, <2>2 DEF DetectionTypeOK, slotVars
  <2>4. HoldsWhatItUses'
    BY <1>1, <1>3, <2>1 DEF HoldsWhatItUses
  <2>5. AttemptInv'
    BY <1>1, <1>3, <2>1 DEF AttemptInv
  <2>6. answer[r].status = 0
    BY <1>1 DEF AttemptInv
  <2>7. AnswerInv'
    BY <1>1, <1>3, <2>6 DEF AnswerInv, ErrorIsOfLastAttempt, AnswersAgree
  <2> QED
    BY <2>2, <2>3, <2>4, <2>5, <2>7
<1>4. ASSUME NEW status \in Refusals, RespondError(r, status),
             clients' = clients \ {r}, UNCHANGED <<attempts, last>>
      PROVE  IInv'
  <2>1. /\ answer' \in [Requests -> Answers]
        /\ Moves("answered")
        /\ answer'[r].status = status
        /\ \A x \in Requests \ {r} : answer'[x] = answer[x]
    BY <1>4, RefusedKeepsAnswers
  <2>2. QueueInv' /\ pc' \in [Requests -> PcValues]
    BY <1>2, <2>1
  <2>3. DetectionTypeOK'
    BY <1>1, <1>4, <2>1, <2>2 DEF DetectionTypeOK, slotVars
  <2>4. HoldsWhatItUses'
    BY <1>1, <1>4, <2>1 DEF HoldsWhatItUses
  <2>5. AttemptInv'
    BY <1>1, <1>4, <2>1 DEF AttemptInv, Refusals
  <2>6. AnswerInv'
    BY <1>4, <2>1 DEF AnswerInv, Refusals, ErrorIsOfLastAttempt, AnswersAgree
  <2> QED
    BY <2>2, <2>3, <2>4, <2>5, <2>6
<1>5. ASSUME NEW error \in {"timeout", "upstream", "request"},
             attempts' = [attempts EXCEPT ![r] = @ + 1],
             last' = [last EXCEPT ![r] = error],
             attempts[r] + 1 < DownloadMaxAttempts,
             Jump(r, "getPause"), UNCHANGED <<clients, answer>>
      PROVE  IInv'
  <2>1. Moves("getPause")
    BY <1>5 DEF Jump
  <2>2. QueueInv' /\ pc' \in [Requests -> PcValues]
    BY <1>2, <2>1
  <2>3. DetectionTypeOK'
    <3>1. attempts' \in [Requests -> Nat]
      BY <1>1, <1>5
    <3>2. last' \in [Requests -> Errors]
      BY <1>5, LastDownloadAnswer DEF DetectionTypeOK
    <3> QED
      BY <1>1, <1>5, <2>2, <3>1, <3>2 DEF DetectionTypeOK, slotVars
  <2>4. HoldsWhatItUses'
    BY <1>1, <1>5, <2>1 DEF HoldsWhatItUses
  <2>5. AttemptInv'
    BY <1>1, <1>5, <2>1 DEF AttemptInv
  <2>6. answer[r].status = 0
    BY <1>1 DEF AttemptInv
  <2>7. AnswerInv'
    BY <1>1, <1>5, <2>6 DEF AnswerInv, ErrorIsOfLastAttempt, AnswersAgree
  <2> QED
    BY <2>2, <2>3, <2>4, <2>5, <2>7
<1>6. ASSUME NEW error \in {"timeout", "upstream", "request"},
             attempts' = [attempts EXCEPT ![r] = @ + 1],
             last' = [last EXCEPT ![r] = error],
             ~(attempts[r] + 1 < DownloadMaxAttempts),
             RespondError(r, DownloadStatus(error)), clients' = clients \ {r}
      PROVE  IInv'
  <2>1. Moves("answered") /\ answer' = [answer EXCEPT ![r] = [status |-> DownloadStatus(error)]]
    BY <1>6 DEF Jump, RespondError, Respond
  <2>2. QueueInv' /\ pc' \in [Requests -> PcValues]
    BY <1>2, <2>1
  <2>3. DetectionTypeOK'
    BY <1>1, <1>6, <2>1, <2>2, LastDownloadAnswer DEF DetectionTypeOK, slotVars
  <2>4. HoldsWhatItUses'
    BY <1>1, <1>6, <2>1 DEF HoldsWhatItUses
  <2>5. AttemptInv'
    BY <1>1, <1>6, <2>1 DEF AttemptInv, DetectionTypeOK
  <2>6. attempts'[r] = DownloadMaxAttempts /\ last'[r] = error
    BY <1>1, <1>6 DEF DetectionTypeOK
  <2>7. answer'[r].status = DownloadStatus(error)
    BY <2>1 DEF DetectionTypeOK
  <2>8. AnswerInv'
    <3>1. \A x \in Requests \ {r} :
              answer'[x] = answer[x] /\ attempts'[x] = attempts[x] /\ last'[x] = last[x]
      BY <1>6, <2>1 DEF DetectionTypeOK
    <3> QED
      BY <2>6, <2>7, <3>1, LastDownloadAnswer
      DEF AnswerInv, ErrorIsOfLastAttempt, AnswersAgree
  <2> QED
    BY <2>2, <2>3, <2>4, <2>5, <2>8
<1> QED
  BY <1>3, <1>4, <1>5, <1>6 DEF Get, Refusals

(***************************************************************************)
(* A backoff is over.                                                      *)
(***************************************************************************)
LEMMA ResumeKeepsInv ==
    ASSUME IInv, NEW r \in Requests, Resume(r)
    PROVE  IInv'
<1> USE DEF IInv
<1>1. PICK from \in {"getPause", "gpuPause"} :
          /\ pc[r] = from
          /\ pc' = [pc EXCEPT ![r] = IF from = "getPause" THEN "get" ELSE "acquire"]
  BY DEF Resume, At, Jump
<1>2. pc \in [Requests -> PcValues] /\ UNCHANGED <<heldVars, slotVars, attempts, last, answer>>
  BY DEF Resume, DetectionTypeOK
<1>3. QueueInv' /\ pc' \in [Requests -> PcValues]
  <2> DEFINE label == IF from = "getPause" THEN "get" ELSE "acquire"
  <2>1. label \in PcValues \ {"call", "waiting"}
    BY DEF PcValues
  <2>2. pc' = [pc EXCEPT ![r] = label]
    BY <1>1
  <2> HIDE DEF label
  <2> QED
    BY <1>1, <1>2, <2>1, <2>2, OutsideKeepsQueue
<1>4. DetectionTypeOK'
  BY <1>2, <1>3 DEF DetectionTypeOK, slotVars, heldVars
<1>5. HoldsWhatItUses'
  BY <1>1, <1>2 DEF HoldsWhatItUses, heldVars
<1>6. AttemptInv'
  BY <1>1, <1>2 DEF AttemptInv
<1>7. AnswerInv'
  BY <1>2 DEF AnswerInv, ErrorIsOfLastAttempt, AnswersAgree
<1> QED
  BY <1>3, <1>4, <1>5, <1>6, <1>7

(***************************************************************************)
(* The downloaded bytes are an image or not.                               *)
(***************************************************************************)
LEMMA CheckBytesKeepsInv ==
    ASSUME IInv, NEW r \in Requests, CheckBytes(r)
    PROVE  IInv'
<1> USE DEF IInv
<1>1. /\ pc[r] = "bytes" /\ pc \in [Requests -> PcValues]
      /\ UNCHANGED <<clients, slotVars, attempts, last>>
      /\ KindOf[r] # "text"
      /\ attempts[r] = 0
  BY DEF CheckBytes, At, DetectionTypeOK, AttemptInv
<1> DEFINE Moves(label) == pc' = [pc EXCEPT ![r] = label]
<1>2. ASSUME NEW label \in {"acquire", "answered"}, Moves(label)
      PROVE  QueueInv' /\ pc' \in [Requests -> PcValues]
  <2>1. label \in PcValues \ {"call", "waiting"}
    BY DEF PcValues
  <2> QED
    BY <1>1, <1>2, <2>1, OutsideKeepsQueue
<1>3. CASE Jump(r, "acquire") /\ dirs' = dirs \cup {r} /\ UNCHANGED answer
  <2>1. Moves("acquire")
    BY <1>3 DEF Jump
  <2>2. QueueInv' /\ pc' \in [Requests -> PcValues]
    BY <1>2, <2>1
  <2>3. DetectionTypeOK'
    BY <1>1, <1>3, <2>2 DEF DetectionTypeOK, slotVars
  <2>4. HoldsWhatItUses'
    BY <1>1, <1>3, <2>1 DEF HoldsWhatItUses
  <2>5. AttemptInv'
    BY <1>1, <1>3, <2>1, DetectionAssumption DEF AttemptInv
  <2>6. AnswerInv'
    BY <1>1, <1>3 DEF AnswerInv, ErrorIsOfLastAttempt, AnswersAgree
  <2> QED
    BY <2>2, <2>3, <2>4, <2>5, <2>6
<1>4. ASSUME NEW status \in Refusals, RespondError(r, status), UNCHANGED dirs
      PROVE  IInv'
  <2>1. /\ answer' \in [Requests -> Answers]
        /\ Moves("answered")
        /\ answer'[r].status = status
        /\ \A x \in Requests \ {r} : answer'[x] = answer[x]
    BY <1>4, RefusedKeepsAnswers
  <2>2. QueueInv' /\ pc' \in [Requests -> PcValues]
    BY <1>2, <2>1
  <2>3. DetectionTypeOK'
    BY <1>1, <1>4, <2>1, <2>2 DEF DetectionTypeOK, slotVars
  <2>4. HoldsWhatItUses'
    BY <1>1, <1>4, <2>1 DEF HoldsWhatItUses
  <2>5. AttemptInv'
    BY <1>1, <2>1 DEF AttemptInv
  <2>6. AnswerInv'
    BY <1>1, <2>1 DEF AnswerInv, Refusals, ErrorIsOfLastAttempt, AnswersAgree
  <2> QED
    BY <2>2, <2>3, <2>4, <2>5, <2>6
<1> QED
  BY <1>3, <1>4 DEF CheckBytes, Refusals

(***************************************************************************)
(* A request that takes a slot or queues for one keeps its directory.      *)
(***************************************************************************)
LEMMA AcquireKeepsInv ==
    ASSUME IInv, NEW r \in Requests, Acquire(r)
    PROVE  IInv'
<1> USE DEF IInv
<1>1. PICK label \in {"call", "waiting"} : pc' = [pc EXCEPT ![r] = label]
  BY DEF Acquire, Jump
<1>2. /\ pc[r] = "acquire" /\ pc \in [Requests -> PcValues]
      /\ UNCHANGED <<heldVars, attempts, last, answer>>
  BY DEF Acquire, At, DetectionTypeOK
<1>3. QueueInv'
  BY AcquireKeepsQueue
<1>4. DetectionTypeOK'
  <2>1. pc' \in [Requests -> PcValues]
    BY <1>1, <1>2 DEF PcValues
  <2>2. waiters' \in Seq(Requests)
    <3>1. waiters \in Seq(Requests)
      BY DEF DetectionTypeOK
    <3>2. waiters' = waiters \/ waiters' = Append(waiters, r)
      BY DEF Acquire
    <3> QED
      BY <3>1, <3>2, AppendFacts
  <2>3. slots' \in 0..GpuMaxConcurrency
    <3>1. slots \in 0..GpuMaxConcurrency /\ GpuMaxConcurrency \in Nat
      BY DetectionAssumption DEF DetectionTypeOK
    <3>2. slots' = slots \/ (slots > 0 /\ slots' = slots - 1)
      BY DEF Acquire
    <3> QED
      BY <3>1, <3>2
  <2> QED
    BY <1>2, <2>1, <2>2, <2>3 DEF DetectionTypeOK, heldVars
<1>5. HoldsWhatItUses'
  BY <1>1, <1>2 DEF HoldsWhatItUses, heldVars
<1>6. AttemptInv'
  BY <1>1, <1>2 DEF AttemptInv
<1>7. AnswerInv'
  BY <1>2 DEF AnswerInv, ErrorIsOfLastAttempt, AnswersAgree
<1> QED
  BY <1>3, <1>4, <1>5, <1>6, <1>7

(***************************************************************************)
(* What an end of a call leaves to be shown: only the request at hand and  *)
(* the waiter it wakes have moved, so what is open stays with its user.    *)
(***************************************************************************)
LEMMA LeaveHolds ==
    ASSUME IInv, NEW r \in Requests, pc[r] = "call", UNCHANGED clients,
           NEW label \in {"gpuPause", "answered"}, Leave(r, label),
           dirs' = IF label = "answered" THEN dirs \ {r} ELSE dirs
    PROVE  /\ HoldsWhatItUses'
           /\ \A x \in Requests \ {r} :
                  pc'[x] = pc[x] \/ (pc[x] = "waiting" /\ pc'[x] = "call")
<1>1. /\ pc'[r] = label
      /\ \A x \in Requests \ {r} :
             pc'[x] = pc[x] \/ (pc[x] = "waiting" /\ pc'[x] = "call")
  BY LeaveEffect DEF IInv
<1> QED
  BY <1>1 DEF IInv, HoldsWhatItUses

(***************************************************************************)
(* Leaving the semaphore keeps the types and the queue.                    *)
(***************************************************************************)
LEMMA LeaveTypes ==
    ASSUME IInv, NEW r \in Requests, pc[r] = "call",
           NEW label \in {"gpuPause", "answered"}, Leave(r, label)
    PROVE  /\ pc' \in [Requests -> PcValues] /\ pc'[r] = label
           /\ slots' \in 0..GpuMaxConcurrency
           /\ waiters' \in Seq(Requests)
           /\ QueueInv'
<1>1. waiters \in Seq(Requests)
  BY DEF IInv, DetectionTypeOK
<1> QED
  BY <1>1, LeaveEffect, TailFacts DEF IInv

(***************************************************************************)
(* A call that fails.                                                      *)
(***************************************************************************)
LEMMA CallFailsKeepsInv ==
    ASSUME IInv, NEW r \in Requests, pc[r] = "call", UNCHANGED clients,
           NEW error \in {"invalid", "raised"}, CallFails(r, error)
    PROVE  IInv'
<1> USE DEF IInv
<1>1. /\ attempts \in [Requests -> Nat]
      /\ attempts[r] < GpuMaxAttempts /\ GpuMaxAttempts \in Nat
      /\ last \in [Requests -> Errors] /\ error \in Errors
  BY DetectionAssumption DEF DetectionTypeOK, AttemptInv, Errors
<1>2. /\ attempts' = [attempts EXCEPT ![r] = @ + 1]
      /\ last' = [last EXCEPT ![r] = error]
  BY DEF CallFails
<1>3. attempts' \in [Requests -> Nat] /\ last' \in [Requests -> Errors]
  BY <1>1, <1>2
<1>4. /\ \A x \in Requests \ {r} : attempts'[x] = attempts[x] /\ last'[x] = last[x]
      /\ attempts'[r] = attempts[r] + 1 /\ last'[r] = error
  BY <1>1, <1>2
<1>5. CASE attempts[r] + 1 < GpuMaxAttempts
  <2>1. Leave(r, "gpuPause") /\ UNCHANGED <<dirs, answer>>
    BY <1>5 DEF CallFails
  <2>2. /\ pc' \in [Requests -> PcValues] /\ pc'[r] = "gpuPause"
        /\ slots' \in 0..GpuMaxConcurrency
        /\ waiters' \in Seq(Requests)
        /\ QueueInv'
    BY <2>1, LeaveTypes
  <2>3. /\ HoldsWhatItUses'
        /\ \A x \in Requests \ {r} :
               pc'[x] = pc[x] \/ (pc[x] = "waiting" /\ pc'[x] = "call")
    BY <2>1, LeaveHolds
  <2>4. DetectionTypeOK'
    BY <1>3, <2>1, <2>2 DEF DetectionTypeOK
  <2>5. AttemptInv'
    BY <1>1, <1>4, <1>5, <2>1, <2>2, <2>3 DEF AttemptInv
  <2>6. answer[r].status = 0
    BY DEF AttemptInv
  <2>7. AnswerInv'
    BY <1>4, <2>1, <2>6 DEF AnswerInv, ErrorIsOfLastAttempt, AnswersAgree
  <2> QED
    BY <2>2, <2>3, <2>4, <2>5, <2>7
<1>6. CASE ~(attempts[r] + 1 < GpuMaxAttempts)
  <2> DEFINE status == IF error = "invalid" THEN 502 ELSE 503
  <2>1. /\ Leave(r, "answered") /\ dirs' = dirs \ {r}
        /\ answer' = [answer EXCEPT ![r] = [status |-> status]]
    BY <1>6 DEF CallFails
  <2>2. /\ pc' \in [Requests -> PcValues] /\ pc'[r] = "answered"
        /\ slots' \in 0..GpuMaxConcurrency
        /\ waiters' \in Seq(Requests)
        /\ QueueInv'
    BY <2>1, LeaveTypes
  <2>3. /\ HoldsWhatItUses'
        /\ \A x \in Requests \ {r} :
               pc'[x] = pc[x] \/ (pc[x] = "waiting" /\ pc'[x] = "call")
    BY <2>1, LeaveHolds
  <2>4. [status |-> status] \in Answers
    BY DEF Answers
  <2>5. /\ answer' \in [Requests -> Answers] /\ answer'[r].status = status
        /\ \A x \in Requests \ {r} : answer'[x] = answer[x]
    BY <2>1, <2>4 DEF DetectionTypeOK
  <2>6. DetectionTypeOK'
    BY <1>3, <2>1, <2>2, <2>5 DEF DetectionTypeOK
  <2>7. AttemptInv'
    BY <1>4, <2>2, <2>3, <2>5 DEF AttemptInv
  <2>8. attempts'[r] = GpuMaxAttempts
    BY <1>1, <1>4, <1>6
  <2>9. AnswerInv'
    BY <1>4, <2>5, <2>8 DEF AnswerInv, ErrorIsOfLastAttempt, AnswersAgree
  <2> QED
    BY <2>2, <2>3, <2>6, <2>7, <2>9
<1> QED
  BY <1>5, <1>6

(***************************************************************************)
(* A call that succeeds answers with an output that is valid.              *)
(***************************************************************************)
LEMMA CallKeepsInv ==
    ASSUME IInv, NEW r \in Requests, Call(r)
    PROVE  IInv'
<1> USE DEF IInv
<1>1. pc[r] = "call" /\ UNCHANGED clients
  BY DEF Call, At
<1>2. ASSUME NEW reply \in Replies, Parses(r, reply), Leave(r, "answered"),
             dirs' = dirs \ {r},
             answer' = [answer EXCEPT ![r] =
                           [status |-> 200, body |-> Answer(reply.items[1].out)]],
             UNCHANGED <<attempts, last>>
      PROVE  IInv'
  <2> DEFINE out == reply.items[1].out
             body == [status |-> 200, body |-> Answer(out)]
  <2>1. ValidOutput(out)
    BY <1>2, ParsedIsValid
  <2>2. body \in Answers
    BY <2>1, AnswerType
  <2>3. /\ pc' \in [Requests -> PcValues] /\ pc'[r] = "answered"
        /\ slots' \in 0..GpuMaxConcurrency
        /\ waiters' \in Seq(Requests)
        /\ QueueInv'
    BY <1>1, <1>2, LeaveTypes
  <2>4. /\ HoldsWhatItUses'
        /\ \A x \in Requests \ {r} :
               pc'[x] = pc[x] \/ (pc[x] = "waiting" /\ pc'[x] = "call")
    BY <1>1, <1>2, LeaveHolds
  <2>5. /\ answer' \in [Requests -> Answers] /\ answer'[r] = body
        /\ \A x \in Requests \ {r} : answer'[x] = answer[x]
    BY <1>2, <2>2 DEF DetectionTypeOK
  <2>6. DetectionTypeOK'
    BY <1>1, <1>2, <2>3, <2>5 DEF DetectionTypeOK
  <2>7. AttemptInv'
    BY <1>2, <2>3, <2>4, <2>5 DEF AttemptInv
  <2>8. body.status = 200 /\ body.body = Answer(out)
    OBVIOUS
  <2>9. ErrorIsOfLastAttempt'
    BY <1>2, <2>5, <2>8 DEF AnswerInv, ErrorIsOfLastAttempt
  <2>10. Answer(out).nsfw => Answer(out).top # "safe" /\ Answer(out).severity >= 3
    BY <2>1, NsfwIsSevere DEF Answer
  <2>11. AnswersAgree'
    BY <2>5, <2>8, <2>10 DEF AnswerInv, AnswersAgree
  <2> QED
    BY <2>3, <2>4, <2>6, <2>7, <2>9, <2>11 DEF AnswerInv
<1> QED
  BY <1>1, <1>2, CallFailsKeepsInv DEF Call

(***************************************************************************)
(* The invariant is inductive.                                             *)
(***************************************************************************)
LEMMA StepKeepsInv == IInv /\ [Next]_vars => IInv'
<1> SUFFICES ASSUME IInv, [Next]_vars PROVE IInv'
  OBVIOUS
<1>1. CASE UNCHANGED vars
  BY <1>1 DEF IInv, vars, heldVars, slotVars, DetectionTypeOK, QueueInv, SlotsAddUp,
     Callers, Waiting, HoldsWhatItUses, AttemptInv, AnswerInv,
     ErrorIsOfLastAttempt, AnswersAgree
<1>2. ASSUME NEW r \in Requests, Step(r) PROVE IInv'
  BY <1>2, ReceiveKeepsInv, GetKeepsInv, ResumeKeepsInv, CheckBytesKeepsInv,
     AcquireKeepsInv, CallKeepsInv DEF Step
<1> QED
  BY <1>1, <1>2 DEF Next

-----------------------------------------------------------------------------
(* Theorems.                                                               *)

(***************************************************************************)
(* Slots, queue, open resources, attempts and answers are consistent in    *)
(* every reachable state, whatever is called, raised and replied.          *)
(***************************************************************************)
THEOREM DetectionInvariant == Spec => []IInv
  BY InitInv, StepKeepsInv, PTL DEF Spec

(***************************************************************************)
(* Every variable keeps its type.                                          *)
(***************************************************************************)
THEOREM DetectionTypeCorrect == Spec => []DetectionTypeOK
<1>1. IInv => DetectionTypeOK
  BY DEF IInv
<1> QED
  BY <1>1, DetectionInvariant, PTL

(***************************************************************************)
(* Every way out of an attempt leaves its slot behind, exactly once, for   *)
(* any number of requests, slots and attempts: no interleaving of failures *)
(* and retries makes the GPU slots of the process fewer, or more.          *)
(***************************************************************************)
THEOREM AttemptsReturnTheirSlot == Spec => []SlotsAddUp
<1>1. IInv => SlotsAddUp
  BY DEF IInv, QueueInv
<1> QED
  BY <1>1, DetectionInvariant, PTL

(***************************************************************************)
(* Clients and temporary directories are open exactly while they are used, *)
(* on every way out of a request.                                          *)
(***************************************************************************)
THEOREM NothingStaysOpen == Spec => []HoldsWhatItUses
<1>1. IInv => HoldsWhatItUses
  BY DEF IInv
<1> QED
  BY <1>1, DetectionInvariant, PTL

(***************************************************************************)
(* A 502, 503 or 504 is the error of the last of all attempts.             *)
(***************************************************************************)
THEOREM LastErrorAnswers == Spec => []ErrorIsOfLastAttempt
<1>1. IInv => ErrorIsOfLastAttempt
  BY DEF IInv, AnswerInv
<1> QED
  BY <1>1, DetectionInvariant, PTL

(***************************************************************************)
(* Nothing called safe is flagged and nothing flagged is harmless,         *)
(* whatever the model replies.                                             *)
(***************************************************************************)
THEOREM AnswersAreConsistent == Spec => []AnswersAgree
<1>1. IInv => AnswersAgree
  BY DEF IInv, AnswerInv
<1> QED
  BY <1>1, DetectionInvariant, PTL
=============================================================================
