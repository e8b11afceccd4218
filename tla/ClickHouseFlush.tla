--------------------------- MODULE ClickHouseFlush ---------------------------
(***************************************************************************)
(* From the buffers to ClickHouse.  Workers push the rows of a committed   *)
(* result to three Redis lists and write the runtime key; the flush worker *)
(* (app/workers/clickhouse_flush_worker.py) reads a batch from the head of *)
(* each list, inserts it and trims the list by the number of rows read;    *)
(* manual bans insert into two tables directly.                            *)
(*                                                                         *)
(* A list is kept whole as a log beside the number of rows LTRIM has       *)
(* removed, so a row is named by its position.  One flush process runs at  *)
(* a time: nothing in the repository starts two.  A step that takes effect *)
(* and then raises is the step followed by FlushDies, since the caller     *)
(* catches nothing.                                                        *)
(***************************************************************************)
EXTENDS Naturals, Sequences, FiniteSets

CONSTANTS
    Results,    \* committed results whose rows are published, one per job
    Videos,
    VideoOf,    \* the video a result is about
    Moves,      \* results with a storage action
    Bans,       \* calls of the ban endpoint
    BanOf,      \* the video a ban is about
    Rejected,   \* <<buffer, result>>: rows the flush schema does not accept
    BatchSize,  \* batch_size, 50 by default
    ManualBan,  \* a legacy row written by a ban
    MaxFaults   \* bound: calls that raise and processes that die

ASSUME FlushAssumption ==
    /\ VideoOf \in [Results -> Videos]
    /\ BanOf \in [Bans -> Videos]
    /\ Moves \subseteq Results
    /\ BatchSize \in Nat \ {0}
    /\ ManualBan \notin Nat
    /\ MaxFaults \in Nat

VARIABLES
    log,          \* every row ever pushed to a buffer
    trimmed,      \* how many of them LTRIM has removed
    inserted,     \* positions of the rows ClickHouse has seen
    legacyTable,  \* video_nsfw_agg: position of the row a query sees, or a ban
    excluded,     \* excluded_videos
    runtime,      \* offchain:video_nsfw:<video>
    pubPc,        \* what a result publishes next
    banPc,        \* where a ban is
    flushPc,      \* where the flush process is; "stopped" between runs
    buffer,       \* the buffer it works on
    batch,        \* how many rows it has read
    faults

bufferVars == <<log, trimmed>>
tableVars == <<inserted, legacyTable, excluded>>
publishVars == <<runtime, pubPc>>
flushVars == <<flushPc, buffer, batch>>
vars == <<bufferVars, tableVars, publishVars, banPc, flushVars, faults>>

Buffers == {"video_results", "legacy", "storage_actions"}

FlushTypeOK ==
    /\ log \in [Buffers -> Seq(Results)]
    /\ trimmed \in [Buffers -> Nat]
    /\ inserted \in [Buffers -> SUBSET Nat]
    /\ \A b \in Buffers :
           trimmed[b] <= Len(log[b]) /\ inserted[b] \subseteq 1..Len(log[b])
    /\ legacyTable \in [Videos -> Nat \cup {ManualBan}]
    /\ excluded \subseteq Videos
    /\ runtime \in [Videos -> SUBSET Results]
    /\ pubPc \in [Results -> Buffers \cup {"runtime", "done"}]
    /\ banPc \in [Bans -> {"legacy", "exclude", "banned", "failed"}]
    /\ flushPc \in {"stopped", "read", "insert", "trim"}
    /\ buffer \in Buffers
    /\ batch \in 0..BatchSize
    /\ faults \in 0..MaxFaults

Init ==
    /\ log = [b \in Buffers |-> <<>>]
    /\ trimmed = [b \in Buffers |-> 0]
    /\ inserted = [b \in Buffers |-> {}]
    /\ legacyTable = [v \in Videos |-> 0]
    /\ excluded = {}
    /\ runtime = [v \in Videos |-> {}]
    /\ pubPc = [r \in Results |-> "video_results"]
    /\ banPc = [x \in Bans |-> "legacy"]
    /\ flushPc = "stopped"
    /\ buffer = "video_results"
    /\ batch = 0
    /\ faults = 0

Fault ==
    /\ faults < MaxFaults
    /\ faults' = faults + 1

-----------------------------------------------------------------------------
(* _publish_after_commit.  A worker that stops halfway publishes no more.  *)

\* Mutant of AfterPush: the legacy row is left out.
AfterPushNoLegacy(r, b) ==
    IF b = "video_results" /\ r \in Moves THEN "storage_actions" ELSE "runtime"

\* _storage_action: there is one if the video was moved.
HasAction(r) == r \in Moves

\* What follows the push to buffer b.
AfterPush(r, b) ==
    IF b = "video_results" THEN "legacy"
    ELSE IF b = "legacy" /\ HasAction(r) THEN "storage_actions"
    ELSE "runtime"

\* push_json: RPUSH.
Push(r) ==
    /\ pubPc[r] \in Buffers
    /\ log' = [log EXCEPT ![pubPc[r]] = Append(@, r)]
    /\ pubPc' = [pubPc EXCEPT ![r] = AfterPush(r, pubPc[r])]
    /\ UNCHANGED <<trimmed, tableVars, runtime, banPc, flushVars, faults>>

\* write_result: SET replaces the payload of another result of the video.
WriteRuntime(r) ==
    /\ pubPc[r] = "runtime"
    /\ runtime' = [runtime EXCEPT ![VideoOf[r]] = {r}]
    /\ pubPc' = [pubPc EXCEPT ![r] = "done"]
    /\ UNCHANGED <<bufferVars, tableVars, banPc, flushVars, faults>>

-----------------------------------------------------------------------------
(* ban_video.                                                              *)

\* The newest _updated_at wins, and it defaults to the time of the insert.
BanLegacy(x) ==
    /\ banPc[x] = "legacy"
    /\ legacyTable' = [legacyTable EXCEPT ![BanOf[x]] = ManualBan]
    /\ banPc' = [banPc EXCEPT ![x] = "exclude"]
    /\ UNCHANGED <<bufferVars, inserted, excluded, publishVars, flushVars, faults>>

BanExclude(x) ==
    /\ banPc[x] = "exclude"
    /\ excluded' = excluded \cup {BanOf[x]}
    /\ banPc' = [banPc EXCEPT ![x] = "banned"]
    /\ UNCHANGED <<bufferVars, inserted, legacyTable, publishVars, flushVars, faults>>

\* An insert raises, before it takes effect or, the second one here, after;
\* or the process dies between the two.
BanFails(x) ==
    /\ banPc[x] \in {"legacy", "exclude"}
    /\ Fault
    /\ \/ UNCHANGED excluded
       \/ banPc[x] = "exclude" /\ excluded' = excluded \cup {BanOf[x]}
    /\ banPc' = [banPc EXCEPT ![x] = "failed"]
    /\ UNCHANGED <<bufferVars, inserted, legacyTable, publishVars, flushVars>>

-----------------------------------------------------------------------------
(* flush_once.                                                             *)

\* The rows of buffer b that a read of n rows returns.
Rows(b, n) == (trimmed[b] + 1)..(trimmed[b] + n)

Readable(b) ==
    LET left == Len(log[b]) - trimmed[b]
    IN IF left < BatchSize THEN left ELSE BatchSize

Valid(b, n) == \A i \in Rows(b, n) : <<b, log[b][i]>> \notin Rejected

\* The run ends, after the last buffer or because an exception leaves it.
EndRun ==
    /\ flushPc' = "stopped"
    /\ buffer' = "video_results"
    /\ batch' = 0

NextBuffer ==
    IF buffer = "storage_actions" THEN EndRun
    ELSE /\ flushPc' = "read"
         /\ buffer' = IF buffer = "video_results" THEN "legacy" ELSE "storage_actions"
         /\ batch' = 0

\* The worker process is started: one flush_once and it ends.
StartFlush ==
    /\ flushPc = "stopped"
    /\ flushPc' = "read"
    /\ UNCHANGED <<bufferVars, tableVars, publishVars, banPc, buffer, batch, faults>>

\* Mutants of ReadBatch: the rows are popped; the batch may shrink after a
\* failure; an empty buffer ends the run; a full batch is taken for granted.
ReadBatchPops ==
    /\ flushPc = "read"
    /\ IF Readable(buffer) = 0 THEN NextBuffer
       ELSE IF Valid(buffer, Readable(buffer))
       THEN flushPc' = "insert" /\ batch' = Readable(buffer) /\ UNCHANGED buffer
       ELSE EndRun
    /\ trimmed' = [trimmed EXCEPT ![buffer] = @ + Readable(buffer)]
    /\ UNCHANGED <<log, tableVars, publishVars, banPc, faults>>

ReadBatchAnySize ==
    /\ flushPc = "read"
    /\ \E n \in 0..Readable(buffer) :
           IF n = 0 THEN NextBuffer
           ELSE IF Valid(buffer, n)
           THEN flushPc' = "insert" /\ batch' = n /\ UNCHANGED buffer
           ELSE EndRun
    /\ UNCHANGED <<bufferVars, tableVars, publishVars, banPc, faults>>

ReadBatchOrEnd ==
    /\ flushPc = "read"
    /\ IF Readable(buffer) # 0 /\ Valid(buffer, Readable(buffer))
       THEN flushPc' = "insert" /\ batch' = Readable(buffer) /\ UNCHANGED buffer
       ELSE EndRun
    /\ UNCHANGED <<bufferVars, tableVars, publishVars, banPc, faults>>

ReadBatchFull ==
    /\ flushPc = "read"
    /\ IF Readable(buffer) = 0 THEN NextBuffer
       ELSE IF Valid(buffer, Readable(buffer))
       THEN flushPc' = "insert" /\ batch' = BatchSize /\ UNCHANGED buffer
       ELSE EndRun
    /\ UNCHANGED <<bufferVars, tableVars, publishVars, banPc, faults>>

\* read_batch, and model_validate of every row before the insert: one row
\* that is rejected ends the run.
ReadBatch ==
    /\ flushPc = "read"
    /\ IF Readable(buffer) = 0 THEN NextBuffer
       ELSE IF Valid(buffer, Readable(buffer))
       THEN flushPc' = "insert" /\ batch' = Readable(buffer) /\ UNCHANGED buffer
       ELSE EndRun
    /\ UNCHANGED <<bufferVars, tableVars, publishVars, banPc, faults>>

\* video_nsfw_agg after the rows i of an insert: the last one of a video wins.
LatestRow(rows) ==
    [v \in Videos |->
        LET own == {i \in rows : VideoOf[log["legacy"][i]] = v}
        IN IF own = {} THEN legacyTable[v]
           ELSE CHOOSE i \in own : \A k \in own : k <= i]

\* insert_rows, which blocks until ClickHouse has the whole batch.
InsertBatch ==
    /\ flushPc = "insert"
    /\ inserted' = [inserted EXCEPT ![buffer] = @ \cup Rows(buffer, batch)]
    /\ legacyTable' = IF buffer = "legacy"
                      THEN LatestRow(Rows(buffer, batch)) ELSE legacyTable
    /\ flushPc' = "trim"
    /\ UNCHANGED <<bufferVars, excluded, publishVars, banPc, buffer, batch, faults>>

\* trim_batch: LTRIM by the number of rows read.
TrimBatch ==
    /\ flushPc = "trim"
    /\ trimmed' = [trimmed EXCEPT ![buffer] = @ + batch]
    /\ NextBuffer
    /\ UNCHANGED <<log, tableVars, publishVars, banPc, faults>>

\* The next call raises, or the process dies; the next run starts over.
FlushDies ==
    /\ flushPc # "stopped"
    /\ Fault
    /\ EndRun
    /\ UNCHANGED <<bufferVars, tableVars, publishVars, banPc>>

FlushStep == StartFlush \/ ReadBatch \/ InsertBatch \/ TrimBatch

Next ==
    \/ \E r \in Results : Push(r) \/ WriteRuntime(r)
    \/ \E x \in Bans : BanLegacy(x) \/ BanExclude(x) \/ BanFails(x)
    \/ FlushStep
    \/ FlushDies

Spec == Init /\ [][Next]_vars

\* Whoever runs the flush worker runs it again and again; nobody has to
\* publish or to ban, and no call has to fail.
FairSpec == Spec /\ WF_vars(FlushStep)

-----------------------------------------------------------------------------

(***************************************************************************)
(* A row leaves its buffer only after ClickHouse has it, wherever a run    *)
(* stops and whatever is pushed while it runs: LTRIM by count removes the  *)
(* rows that were read (plan.md: remove buffered rows only after insert    *)
(* succeeds).                                                              *)
(***************************************************************************)
NoRowLost == \A b \in Buffers : 1..trimmed[b] \subseteq inserted[b]

(***************************************************************************)
(* The runtime key is never ahead of the tables: the canonical and legacy  *)
(* rows of the result it shows, and its storage action, are in ClickHouse  *)
(* or still in their buffers.                                              *)
(***************************************************************************)
RuntimeIsBacked ==
    \A v \in Videos : \A r \in runtime[v] :
        \A b \in {"video_results", "legacy"}
                   \cup (IF r \in Moves THEN {"storage_actions"} ELSE {}) :
            \E i \in DOMAIN log[b] :
                log[b][i] = r /\ (i \in inserted[b] \/ i > trimmed[b])

(***************************************************************************)
(* A video is excluded only when the compatibility table has a row for it, *)
(* also when the ban fails between its two inserts (ban_video's comment).  *)
(***************************************************************************)
ExclusionHasLegacy == \A v \in excluded : legacyTable[v] # 0

(***************************************************************************)
(* Duplicate flushes are safe for the legacy table although its version    *)
(* column is the time of the insert: a row flushed again after a run that  *)
(* stopped before LTRIM never hides a newer row of the video, because the  *)
(* repeated batch reaches at least as far as the first one.                *)
(***************************************************************************)
LegacyMovesForward ==
    [][\A v \in Videos :
          legacyTable[v] \in Nat /\ legacyTable'[v] \in Nat
              => legacyTable'[v] >= legacyTable[v]]_vars

\* Buffers that no rejected row holds back: neither one of their own nor one
\* of a buffer that is flushed before them.
Before == [video_results |-> {"video_results"},
           legacy |-> {"video_results", "legacy"},
           storage_actions |-> Buffers]
Unblocked == {b \in Buffers : \A r \in Results, c \in Before[b] : <<c, r>> \notin Rejected}

(***************************************************************************)
(* A pushed row is inserted and trimmed in the end, if the flush worker is *)
(* run again and again.  A rejected row holds back its own buffer and the  *)
(* later ones, and no other.                                               *)
(***************************************************************************)
RowsReachClickHouse ==
    \A b \in Unblocked : \A n \in 1..Cardinality(Results) :
        Len(log[b]) >= n ~> trimmed[b] >= n /\ n \in inserted[b]

-----------------------------------------------------------------------------
(* What ban_video's comment says: success is shown once the facts are      *)
(* durable.                                                                *)

(***************************************************************************)
(* The legacy row of a video whose ban succeeded is the ban's.             *)
(***************************************************************************)
BanIsDurable ==
    \A x \in Bans : banPc[x] = "banned" => legacyTable[BanOf[x]] = ManualBan
=============================================================================
