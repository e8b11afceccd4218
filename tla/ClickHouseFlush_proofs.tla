----------------------- MODULE ClickHouseFlush_proofs -----------------------
(***************************************************************************)
(* Proofs about ClickHouseFlush, for any results, videos and bans, any     *)
(* batch size and any number of faults.                                    *)
(***************************************************************************)
EXTENDS ClickHouseFlush, TLAPS, WellFoundedInduction

-----------------------------------------------------------------------------
(* Facts about the data.                                                   *)

(***************************************************************************)
(* A set of positions that goes up to some n has a last one.               *)
(***************************************************************************)
LEMMA LastExists ==
    ASSUME NEW n \in Nat, NEW S \in SUBSET (0..n), S # {}
    PROVE  \E i \in S : \A k \in S : k <= i
<1> DEFINE T == {m \in 0..n : n - m \in S}
<1>1. /\ T \subseteq Nat
      /\ \A k \in S : n - k \in T
  OBVIOUS
<1>2. T # {}
  BY <1>1
<1>3. PICK x \in T : \A y \in T : <<y, x>> \notin OpToRel(<, Nat)
  <2> HIDE DEF T
  <2> QED
    BY <1>1, <1>2, NatLessThanWellFounded, WFMin, Zenon
<1>4. \A y \in T : ~ (y < x)
  <2> HIDE DEF T
  <2>1. \A y \in T : y \in Nat
    BY <1>1
  <2> QED
    BY <1>3, <2>1, Zenon DEF OpToRel
<1>5. n - x \in S /\ x \in 0..n
  OBVIOUS
<1>6. \A k \in S : k <= n - x
  <2> HIDE DEF T
  <2> QED
    BY <1>1, <1>4, <1>5
<1> QED
  BY <1>5, <1>6

(***************************************************************************)
(* RPUSH keeps every row at its place and adds one.                        *)
(***************************************************************************)
LEMMA AppendFacts ==
    ASSUME NEW s \in Seq(Results), NEW r \in Results
    PROVE  /\ Append(s, r) \in Seq(Results)
           /\ Len(Append(s, r)) = Len(s) + 1
           /\ \A i \in 1..Len(s) : Append(s, r)[i] = s[i]
           /\ Append(s, r)[Len(s) + 1] = r
  OBVIOUS

(***************************************************************************)
(* A read returns at most a batch, and no more than the list holds.        *)
(***************************************************************************)
LEMMA ReadableBounds ==
    ASSUME FlushTypeOK, NEW b \in Buffers
    PROVE  /\ Readable(b) \in 0..BatchSize
           /\ trimmed[b] + Readable(b) <= Len(log[b])
           /\ Readable(b) < BatchSize => trimmed[b] + Readable(b) = Len(log[b])
<1>1. /\ Len(log[b]) \in Nat
      /\ trimmed[b] \in Nat
      /\ trimmed[b] <= Len(log[b])
  BY DEF FlushTypeOK
<1> QED
  BY <1>1, FlushAssumption DEF Readable

-----------------------------------------------------------------------------
(***************************************************************************)
(* Where the flush process is, and how far ClickHouse is ahead of LTRIM:   *)
(* by at most one batch, and while a batch is held by no more than it.     *)
(***************************************************************************)
FlushInv ==
    /\ \A b \in Buffers : inserted[b] \subseteq 1..(trimmed[b] + BatchSize)
    /\ flushPc \in {"insert", "trim"} =>
           /\ trimmed[buffer] + batch <= Len(log[buffer])
           /\ inserted[buffer] \subseteq 1..(trimmed[buffer] + batch)
    /\ flushPc = "trim" => Rows(buffer, batch) \subseteq inserted[buffer]

(***************************************************************************)
(* What a query of the legacy table sees is a row of that video that was   *)
(* inserted, or a ban.                                                     *)
(***************************************************************************)
LegacyInv ==
    \A v \in Videos : legacyTable[v] \in Nat /\ legacyTable[v] # 0 =>
        /\ legacyTable[v] \in inserted["legacy"]
        /\ VideoOf[log["legacy"][legacyTable[v]]] = v

\* Half-done bans have left their legacy row.
BanInv ==
    \A x \in Bans : banPc[x] = "exclude" => legacyTable[BanOf[x]] # 0

\* Result r has a row in the log of buffer b.
Pushed(r, b) == \E i \in DOMAIN log[b] : log[b][i] = r

(***************************************************************************)
(* What a result has published by the time it publishes the next thing.    *)
(***************************************************************************)
PushInv ==
    /\ \A r \in Results :
           /\ pubPc[r] # "video_results" => Pushed(r, "video_results")
           /\ pubPc[r] \notin {"video_results", "legacy"} => Pushed(r, "legacy")
           /\ pubPc[r] \in {"runtime", "done"} /\ r \in Moves
                  => Pushed(r, "storage_actions")
    /\ \A v \in Videos : \A r \in runtime[v] : pubPc[r] = "done"

(***************************************************************************)
(* The inductive invariant.                                                *)
(***************************************************************************)
IInv == FlushTypeOK /\ NoRowLost /\ FlushInv /\ LegacyInv
            /\ BanInv /\ ExclusionHasLegacy /\ PushInv

-----------------------------------------------------------------------------
(* Every action keeps the types.                                           *)

(***************************************************************************)
(* Moving on to the next buffer, or to the end of the run.                 *)
(***************************************************************************)
LEMMA NextBufferType ==
    ASSUME FlushTypeOK, NextBuffer
    PROVE  /\ flushPc' \in {"stopped", "read"}
           /\ buffer' \in Buffers
           /\ batch' = 0
  BY DEF FlushTypeOK, NextBuffer, EndRun, Buffers

(***************************************************************************)
(* A push or a runtime write is well typed.                                *)
(***************************************************************************)
LEMMA PublishType ==
    ASSUME FlushTypeOK, NEW r \in Results, Push(r) \/ WriteRuntime(r)
    PROVE  FlushTypeOK'
<1>1. CASE Push(r)
  <2> DEFINE b == pubPc[r]
  <2>1. b \in Buffers /\ log[b] \in Seq(Results)
    BY <1>1 DEF Push, FlushTypeOK
  <2>2. log' = [log EXCEPT ![b] = Append(log[b], r)]
    BY <1>1, <2>1 DEF Push, FlushTypeOK
  <2>3. \A c \in Buffers : log'[c] \in Seq(Results) /\ Len(log'[c]) >= Len(log[c])
    BY <2>1, <2>2, AppendFacts DEF FlushTypeOK
  <2>4. log' \in [Buffers -> Seq(Results)]
    BY <2>1, <2>2, AppendFacts DEF FlushTypeOK
  <2>5. AfterPush(r, b) \in Buffers \cup {"runtime", "done"}
    BY DEF AfterPush, HasAction, Buffers
  <2>6. pubPc' \in [Results -> Buffers \cup {"runtime", "done"}]
    BY <1>1, <2>5 DEF Push, FlushTypeOK
  <2>7. \A c \in Buffers : trimmed'[c] <= Len(log'[c]) /\ inserted'[c] \subseteq 1..Len(log'[c])
    BY <1>1, <2>3 DEF Push, FlushTypeOK, tableVars
  <2> QED
    BY <1>1, <2>4, <2>6, <2>7 DEF Push, FlushTypeOK, tableVars, flushVars
<1>2. CASE WriteRuntime(r)
  BY <1>2, FlushAssumption
     DEF WriteRuntime, FlushTypeOK, bufferVars, tableVars, flushVars
<1> QED
  BY <1>1, <1>2

(***************************************************************************)
(* A step of a ban is well typed.                                          *)
(***************************************************************************)
LEMMA BanType ==
    ASSUME FlushTypeOK, NEW x \in Bans, BanLegacy(x) \/ BanExclude(x) \/ BanFails(x)
    PROVE  FlushTypeOK'
<1>1. BanOf[x] \in Videos
  BY FlushAssumption
<1>2. CASE BanLegacy(x)
  BY <1>1, <1>2 DEF BanLegacy, FlushTypeOK, bufferVars, publishVars, flushVars
<1>3. CASE BanExclude(x)
  BY <1>1, <1>3 DEF BanExclude, FlushTypeOK, bufferVars, publishVars, flushVars
<1>4. CASE BanFails(x)
  BY <1>1, <1>4, FlushAssumption
     DEF BanFails, Fault, FlushTypeOK, bufferVars, tableVars, publishVars, flushVars
<1> QED
  BY <1>2, <1>3, <1>4

(***************************************************************************)
(* What a query of the legacy table sees after an insert of rows: the last *)
(* of them that is of the video, if there is one.                          *)
(***************************************************************************)
LEMMA LatestRowFacts ==
    ASSUME NEW n \in Nat, NEW rows \in SUBSET (0..n), NEW v \in Videos
    PROVE  \/ /\ \A i \in rows : VideoOf[log["legacy"][i]] # v
              /\ LatestRow(rows)[v] = legacyTable[v]
           \/ /\ LatestRow(rows)[v] \in rows
              /\ VideoOf[log["legacy"][LatestRow(rows)[v]]] = v
              /\ \A k \in rows :
                     VideoOf[log["legacy"][k]] = v => k <= LatestRow(rows)[v]
<1> DEFINE own == {i \in rows : VideoOf[log["legacy"][i]] = v}
<1>1. own # {} => \E i \in own : \A k \in own : k <= i
  <2>1. own \in SUBSET (0..n)
    OBVIOUS
  <2> QED
    BY <2>1, LastExists
<1>2. LatestRow(rows)[v] = IF own = {} THEN legacyTable[v]
                           ELSE CHOOSE i \in own : \A k \in own : k <= i
  BY DEF LatestRow
<1> HIDE DEF own
<1>3. own # {} => /\ LatestRow(rows)[v] \in own
                  /\ \A k \in own : k <= LatestRow(rows)[v]
  BY <1>1, <1>2
<1> QED
  BY <1>2, <1>3 DEF own

(***************************************************************************)
(* The rows a batch holds are rows of the log.                             *)
(***************************************************************************)
LEMMA RowsAreRows ==
    ASSUME FlushTypeOK, FlushInv, flushPc \in {"insert", "trim"}
    PROVE  /\ trimmed[buffer] \in Nat /\ batch \in Nat /\ Len(log[buffer]) \in Nat
           /\ Rows(buffer, batch) \subseteq 1..Len(log[buffer])
           /\ Rows(buffer, batch) \subseteq 1..(trimmed[buffer] + batch)
           /\ Rows(buffer, batch) \subseteq Nat \ {0}
<1>1. trimmed[buffer] \in Nat /\ batch \in Nat /\ Len(log[buffer]) \in Nat
  BY FlushAssumption DEF FlushTypeOK
<1>2. trimmed[buffer] + batch <= Len(log[buffer])
  BY DEF FlushInv
<1> QED
  BY <1>1, <1>2 DEF Rows

(***************************************************************************)
(* A step of the flush process is well typed.                              *)
(***************************************************************************)
LEMMA FlushType ==
    ASSUME FlushTypeOK, FlushInv, FlushStep \/ FlushDies
    PROVE  FlushTypeOK'
<1>1. CASE StartFlush
  BY <1>1 DEF StartFlush, FlushTypeOK, bufferVars, tableVars, publishVars
<1>2. CASE ReadBatch
  <2>1. Readable(buffer) \in 0..BatchSize
    BY ReadableBounds DEF FlushTypeOK
  <2>2. /\ flushPc' \in {"stopped", "read", "insert"}
        /\ buffer' \in Buffers
        /\ batch' \in 0..BatchSize
    BY <1>2, <2>1, FlushAssumption
       DEF ReadBatch, NextBuffer, EndRun, FlushTypeOK, Buffers
  <2> QED
    BY <1>2, <2>2 DEF ReadBatch, FlushTypeOK, bufferVars, tableVars, publishVars
<1>3. CASE InsertBatch
  <2>1. Rows(buffer, batch) \subseteq 1..Len(log[buffer])
    BY <1>3, RowsAreRows DEF InsertBatch
  <2>2. /\ inserted' \in [Buffers -> SUBSET Nat]
        /\ \A b \in Buffers : inserted'[b] \subseteq 1..Len(log[b])
    BY <1>3, <2>1 DEF InsertBatch, FlushTypeOK
  <2>3. legacyTable' \in [Videos -> Nat \cup {ManualBan}]
    <3>1. CASE buffer = "legacy"
      <4> DEFINE rows == Rows(buffer, batch)
      <4>1. Len(log[buffer]) \in Nat /\ rows \in SUBSET (0..Len(log[buffer]))
        BY <2>1 DEF FlushTypeOK
      <4>2. \A v \in Videos : legacyTable[v] \in Nat \cup {ManualBan}
        BY DEF FlushTypeOK
      <4>3. \A v \in Videos : LatestRow(rows)[v] \in Nat \cup {ManualBan}
        <5> HIDE DEF rows
        <5>1. \A v \in Videos :
                  LatestRow(rows)[v] = legacyTable[v] \/ LatestRow(rows)[v] \in rows
          <6> TAKE v \in Videos
          <6>1. PICK n \in Nat : rows \in SUBSET (0..n)
            BY <4>1
          <6> QED
            BY <6>1, LatestRowFacts, Zenon
        <5>2. rows \subseteq Nat
          BY <4>1
        <5> QED
          BY <4>2, <5>1, <5>2, Zenon
      <4>4. LatestRow(rows) \in [Videos -> Nat \cup {ManualBan}]
        <5>1. LatestRow(rows) = [v \in Videos |-> LatestRow(rows)[v]]
          BY DEF LatestRow
        <5> HIDE DEF rows
        <5> QED
          BY <5>1, <4>3
      <4> QED
        BY <1>3, <3>1, <4>4 DEF InsertBatch
    <3>2. CASE buffer # "legacy"
      BY <1>3, <3>2 DEF InsertBatch, FlushTypeOK
    <3> QED
      BY <3>1, <3>2
  <2> QED
    BY <1>3, <2>2, <2>3 DEF InsertBatch, FlushTypeOK, bufferVars, publishVars
<1>4. CASE TrimBatch
  <2>1. trimmed[buffer] + batch <= Len(log[buffer])
    BY <1>4 DEF TrimBatch, FlushInv
  <2>2. trimmed[buffer] + batch \in Nat
    BY FlushAssumption DEF FlushTypeOK
  <2>3. /\ trimmed' \in [Buffers -> Nat]
        /\ \A b \in Buffers : trimmed'[b] <= Len(log[b])
    BY <1>4, <2>1, <2>2 DEF TrimBatch, FlushTypeOK
  <2>4. flushPc' \in {"stopped", "read"} /\ buffer' \in Buffers /\ batch' = 0
    BY <1>4, NextBufferType DEF TrimBatch
  <2> QED
    BY <1>4, <2>3, <2>4, FlushAssumption
       DEF TrimBatch, FlushTypeOK, tableVars, publishVars
<1>5. CASE FlushDies
  BY <1>5, FlushAssumption
     DEF FlushDies, EndRun, Fault, FlushTypeOK, Buffers, bufferVars, tableVars, publishVars
<1> QED
  BY <1>1, <1>2, <1>3, <1>4, <1>5 DEF FlushStep

-----------------------------------------------------------------------------
(* No row is lost.                                                         *)

(***************************************************************************)
(* A push adds a row behind everything the flush process looks at.         *)
(***************************************************************************)
LEMMA PushKeepsFlushInv ==
    ASSUME FlushTypeOK, NoRowLost, FlushInv, NEW r \in Results, Push(r)
    PROVE  NoRowLost' /\ FlushInv'
<1>1. /\ pubPc[r] \in Buffers /\ log[pubPc[r]] \in Seq(Results)
      /\ log' = [log EXCEPT ![pubPc[r]] = Append(log[pubPc[r]], r)]
      /\ UNCHANGED <<trimmed, inserted, flushPc, buffer, batch>>
  BY DEF Push, FlushTypeOK, tableVars, flushVars
<1>2. \A b \in Buffers : Len(log'[b]) >= Len(log[b]) /\ Len(log[b]) \in Nat
  BY <1>1, AppendFacts DEF FlushTypeOK
<1>3. NoRowLost'
  BY <1>1 DEF NoRowLost
<1>4. flushPc \in {"insert", "trim"} => trimmed[buffer] + batch <= Len(log'[buffer])
  <2> SUFFICES ASSUME flushPc \in {"insert", "trim"}
               PROVE  trimmed[buffer] + batch <= Len(log'[buffer])
    OBVIOUS
  <2>1. trimmed[buffer] + batch <= Len(log[buffer])
    BY DEF FlushInv
  <2>2. Len(log'[buffer]) >= Len(log[buffer]) /\ Len(log[buffer]) \in Nat
        /\ trimmed[buffer] \in Nat /\ batch \in Nat /\ Len(log'[buffer]) \in Nat
    BY <1>2, PublishType, FlushAssumption DEF FlushTypeOK
  <2> QED
    BY <2>1, <2>2
<1> QED
  BY <1>1, <1>3, <1>4 DEF FlushInv, Rows

(***************************************************************************)
(* The flush process: what it inserts reaches exactly as far as what it    *)
(* trims.                                                                  *)
(***************************************************************************)
LEMMA FlushKeepsFlushInv ==
    ASSUME FlushTypeOK, NoRowLost, FlushInv, FlushStep \/ FlushDies
    PROVE  NoRowLost' /\ FlushInv'
<1> USE FlushAssumption
<1>1. CASE StartFlush \/ FlushDies
  BY <1>1 DEF StartFlush, FlushDies, EndRun, NoRowLost, FlushInv, Rows, bufferVars, tableVars
<1>2. CASE ReadBatch
  <2>1. UNCHANGED <<log, trimmed, inserted>>
    BY <1>2 DEF ReadBatch, bufferVars, tableVars
  <2>2. NoRowLost'
    BY <2>1 DEF NoRowLost
  <2>3. CASE flushPc' = "insert"
    <3>1. batch' = Readable(buffer) /\ buffer' = buffer
      BY <1>2, <2>3 DEF ReadBatch, NextBuffer, EndRun
    <3>2. buffer \in Buffers /\ trimmed[buffer] \in Nat /\ Len(log[buffer]) \in Nat
          /\ inserted[buffer] \subseteq 1..Len(log[buffer])
      BY DEF FlushTypeOK
    <3>3. inserted[buffer] \subseteq 1..(trimmed[buffer] + BatchSize)
      BY <3>2 DEF FlushInv
    <3>4. /\ Readable(buffer) \in 0..BatchSize
          /\ trimmed[buffer] + Readable(buffer) <= Len(log[buffer])
          /\ Readable(buffer) < BatchSize
                 => trimmed[buffer] + Readable(buffer) = Len(log[buffer])
      BY <3>2, ReadableBounds
    <3>5. inserted[buffer] \subseteq 1..(trimmed[buffer] + Readable(buffer))
      <4>1. CASE Readable(buffer) < BatchSize
        BY <4>1, <3>2, <3>4
      <4>2. CASE Readable(buffer) = BatchSize
        BY <4>2, <3>3
      <4> QED
        BY <3>4, <4>1, <4>2
    <3> QED
      BY <2>1, <2>2, <2>3, <3>1, <3>4, <3>5 DEF FlushInv
  <2>4. CASE flushPc' # "insert"
    <3>1. flushPc' \in {"stopped", "read"}
      BY <1>2, <2>4 DEF ReadBatch, NextBuffer, EndRun
    <3> QED
      BY <2>1, <2>2, <3>1 DEF FlushInv
  <2> QED
    BY <2>3, <2>4
<1>3. CASE InsertBatch
  <2>1. /\ flushPc = "insert" /\ flushPc' = "trim"
        /\ UNCHANGED <<log, trimmed, buffer, batch>>
        /\ inserted' = [inserted EXCEPT ![buffer] = @ \cup Rows(buffer, batch)]
    BY <1>3 DEF InsertBatch, bufferVars
  <2>2. /\ trimmed[buffer] \in Nat /\ batch \in 0..BatchSize
        /\ Rows(buffer, batch) \subseteq 1..(trimmed[buffer] + batch)
    BY <2>1, RowsAreRows DEF FlushTypeOK
  <2>3. inserted \in [Buffers -> SUBSET Nat] /\ buffer \in Buffers
    BY DEF FlushTypeOK
  <2>4. inserted'[buffer] \subseteq 1..(trimmed[buffer] + batch)
    BY <2>1, <2>2, <2>3 DEF FlushInv
  <2>5. Rows(buffer, batch) \subseteq inserted'[buffer]
    BY <2>1, <2>3
  <2>6. 1..(trimmed[buffer] + batch) \subseteq 1..(trimmed[buffer] + BatchSize)
    BY <2>2
  <2>7. \A b \in Buffers : inserted[b] \subseteq inserted'[b]
    BY <2>1, <2>3
  <2>8. \A b \in Buffers : b # buffer => inserted'[b] = inserted[b]
    BY <2>1, <2>3
  <2>9. NoRowLost'
    BY <2>1, <2>7 DEF NoRowLost
  <2>10. \A b \in Buffers : inserted'[b] \subseteq 1..(trimmed[b] + BatchSize)
    BY <2>4, <2>6, <2>8 DEF FlushInv
  <2>11. (Rows(buffer, batch) \subseteq inserted[buffer])'
    BY <2>1, <2>5 DEF Rows
  <2>12. trimmed[buffer] + batch <= Len(log[buffer])
    BY <2>1 DEF FlushInv
  <2> QED
    BY <2>1, <2>4, <2>9, <2>10, <2>11, <2>12 DEF FlushInv
<1>4. CASE TrimBatch
  <2>1. /\ flushPc = "trim" /\ flushPc' \in {"stopped", "read"}
        /\ inserted' = inserted
        /\ trimmed' = [trimmed EXCEPT ![buffer] = @ + batch]
    BY <1>4, NextBufferType DEF TrimBatch, tableVars
  <2>2. /\ trimmed \in [Buffers -> Nat] /\ buffer \in Buffers /\ batch \in Nat
        /\ trimmed'[buffer] = trimmed[buffer] + batch
    BY <2>1 DEF FlushTypeOK
  <2>3. /\ Rows(buffer, batch) \subseteq inserted[buffer]
        /\ inserted[buffer] \subseteq 1..(trimmed[buffer] + batch)
    BY <2>1 DEF FlushInv
  <2>4. 1..(trimmed[buffer] + batch) \subseteq inserted[buffer]
    <3>1. 1..trimmed[buffer] \subseteq inserted[buffer]
      BY <2>2 DEF NoRowLost
    <3>2. 1..(trimmed[buffer] + batch) \subseteq 1..trimmed[buffer] \cup Rows(buffer, batch)
      BY <2>2 DEF Rows
    <3> QED
      BY <2>3, <3>1, <3>2
  <2>5. \A b \in Buffers : b # buffer => trimmed'[b] = trimmed[b]
    BY <2>1, <2>2
  <2>6. NoRowLost'
    BY <2>1, <2>2, <2>4, <2>5 DEF NoRowLost
  <2>7. 1..(trimmed[buffer] + batch) \subseteq 1..(trimmed[buffer] + batch + BatchSize)
    BY <2>2
  <2>8. \A b \in Buffers : inserted[b] \subseteq 1..(trimmed'[b] + BatchSize)
    BY <2>2, <2>3, <2>5, <2>7 DEF FlushInv
  <2> QED
    BY <2>1, <2>6, <2>8 DEF FlushInv
<1> QED
  BY <1>1, <1>2, <1>3, <1>4 DEF FlushStep

(***************************************************************************)
(* What neither bans nor the runtime key touch.                            *)
(***************************************************************************)
LEMMA OthersKeepFlushInv ==
    ASSUME NoRowLost, FlushInv, UNCHANGED <<bufferVars, inserted, flushVars>>
    PROVE  NoRowLost' /\ FlushInv'
  BY DEF NoRowLost, FlushInv, Rows, bufferVars, flushVars

-----------------------------------------------------------------------------
(* The legacy table and the bans.                                          *)

(***************************************************************************)
(* After the insert of a legacy batch a video shows what it showed, or a   *)
(* row of the batch that is its own and behind every older one.            *)
(***************************************************************************)
LEMMA InsertedLegacy ==
    ASSUME FlushTypeOK, FlushInv, LegacyInv, InsertBatch, NEW v \in Videos
    PROVE  /\ legacyTable'[v] = legacyTable[v]
              \/ /\ buffer = "legacy"
                 /\ legacyTable'[v] \in Rows(buffer, batch)
                 /\ VideoOf[log["legacy"][legacyTable'[v]]] = v
           /\ legacyTable[v] \in Nat /\ legacyTable'[v] \in Nat
                  => legacyTable'[v] >= legacyTable[v]
<1>1. CASE buffer # "legacy"
  BY <1>1 DEF InsertBatch
<1>2. CASE buffer = "legacy"
  <2> DEFINE rows == Rows(buffer, batch)
  <2>1. legacyTable' = LatestRow(rows) /\ flushPc = "insert"
    BY <1>2 DEF InsertBatch
  <2>2. /\ trimmed[buffer] \in Nat /\ batch \in Nat
        /\ rows \in SUBSET (0..(trimmed[buffer] + batch))
        /\ trimmed[buffer] + batch \in Nat
    BY <2>1, RowsAreRows
  <2>3. inserted["legacy"] \subseteq 1..(trimmed[buffer] + batch)
    BY <1>2, <2>1 DEF FlushInv
  <2>4. \/ /\ \A i \in rows : VideoOf[log["legacy"][i]] # v
           /\ LatestRow(rows)[v] = legacyTable[v]
        \/ /\ LatestRow(rows)[v] \in rows
           /\ VideoOf[log["legacy"][LatestRow(rows)[v]]] = v
           /\ \A k \in rows :
                  VideoOf[log["legacy"][k]] = v => k <= LatestRow(rows)[v]
    <3> HIDE DEF rows
    <3> QED
      BY <2>2, LatestRowFacts, Zenon
  <2>5. CASE LatestRow(rows)[v] = legacyTable[v]
    BY <2>1, <2>5
  <2>6. CASE /\ LatestRow(rows)[v] \in rows
             /\ VideoOf[log["legacy"][LatestRow(rows)[v]]] = v
             /\ \A k \in rows :
                    VideoOf[log["legacy"][k]] = v => k <= LatestRow(rows)[v]
    <3>1. SUFFICES ASSUME legacyTable[v] \in Nat
                   PROVE  legacyTable'[v] >= legacyTable[v]
      BY <1>2, <2>1, <2>6
    <3>2. legacyTable'[v] \in rows
      BY <2>1, <2>6
    <3>3. legacyTable'[v] > trimmed[buffer] /\ legacyTable'[v] \in Nat
      BY <2>2, <3>2 DEF Rows
    <3>4. CASE legacyTable[v] = 0
      BY <3>3, <3>4
    <3>5. CASE legacyTable[v] # 0
      <4>1. /\ legacyTable[v] \in inserted["legacy"]
            /\ VideoOf[log["legacy"][legacyTable[v]]] = v
        BY <3>1, <3>5 DEF LegacyInv
      <4>2. CASE legacyTable[v] <= trimmed[buffer]
        BY <2>2, <3>1, <3>3, <4>2
      <4>3. CASE legacyTable[v] > trimmed[buffer]
        <5>1. legacyTable[v] \in rows
          BY <2>2, <2>3, <3>1, <4>1, <4>3 DEF Rows
        <5> QED
          BY <2>1, <2>6, <3>1, <3>3, <4>1, <5>1
      <4> QED
        BY <2>2, <3>1, <4>2, <4>3
    <3> QED
      BY <3>4, <3>5
  <2> QED
    BY <2>4, <2>5, <2>6
<1> QED
  BY <1>1, <1>2

(***************************************************************************)
(* A row that is inserted stays where it is in the log.                    *)
(***************************************************************************)
LEMMA InsertedRowsStay ==
    ASSUME FlushTypeOK, NEW r \in Results, Push(r)
    PROVE  \A i \in inserted["legacy"] : log'["legacy"][i] = log["legacy"][i]
<1>1. "legacy" \in Buffers
  BY DEF Buffers
<1>2. inserted["legacy"] \subseteq 1..Len(log["legacy"]) /\ log["legacy"] \in Seq(Results)
  BY <1>1 DEF FlushTypeOK
<1>3. log'["legacy"] \in {log["legacy"], Append(log["legacy"], r)}
  BY <1>1 DEF Push, FlushTypeOK
<1> QED
  BY <1>2, <1>3, AppendFacts

(***************************************************************************)
(* The table is written by inserts and bans only, and never emptied.       *)
(***************************************************************************)
LEMMA TableInv ==
    ASSUME IInv, [Next]_vars, FlushTypeOK'
    PROVE  LegacyInv' /\ BanInv' /\ ExclusionHasLegacy'
<1> USE DEF IInv
<1>1. ASSUME NEW r \in Results, Push(r)
      PROVE  LegacyInv' /\ BanInv' /\ ExclusionHasLegacy'
  <2>1. UNCHANGED <<inserted, legacyTable, excluded, banPc>>
    BY <1>1 DEF Push, tableVars
  <2>2. \A v \in Videos : legacyTable[v] \in Nat /\ legacyTable[v] # 0 =>
            log'["legacy"][legacyTable[v]] = log["legacy"][legacyTable[v]]
    BY <1>1, InsertedRowsStay DEF LegacyInv
  <2> QED
    BY <2>1, <2>2 DEF LegacyInv, BanInv, ExclusionHasLegacy
<1>2. ASSUME NEW x \in Bans, BanLegacy(x)
      PROVE  LegacyInv' /\ BanInv' /\ ExclusionHasLegacy'
  <2>1. /\ legacyTable' = [legacyTable EXCEPT ![BanOf[x]] = ManualBan]
        /\ banPc' = [banPc EXCEPT ![x] = "exclude"]
        /\ UNCHANGED <<log, inserted, excluded>>
    BY <1>2 DEF BanLegacy, bufferVars
  <2>2. BanOf[x] \in Videos /\ BanOf \in [Bans -> Videos] /\ ManualBan \notin Nat
    BY FlushAssumption
  <2>3. \A v \in Videos :
            legacyTable'[v] = IF v = BanOf[x] THEN ManualBan ELSE legacyTable[v]
    BY <2>1 DEF FlushTypeOK
  <2>4. ManualBan # 0
    BY <2>2
  <2>5. \A v \in Videos : legacyTable[v] # 0 => legacyTable'[v] # 0
    BY <2>3, <2>4, Zenon
  <2>6. LegacyInv'
    BY <2>1, <2>2, <2>3 DEF LegacyInv
  <2>7. ExclusionHasLegacy'
    BY <2>1, <2>5 DEF ExclusionHasLegacy, FlushTypeOK
  <2>8. \A y \in Bans : y # x => banPc'[y] = banPc[y]
    BY <2>1 DEF FlushTypeOK
  <2>9. BanInv'
    BY <2>2, <2>3, <2>4, <2>5, <2>8, Zenon DEF BanInv
  <2> QED
    BY <2>6, <2>7, <2>9
<1>3. ASSUME NEW x \in Bans, BanExclude(x) \/ BanFails(x)
      PROVE  LegacyInv' /\ BanInv' /\ ExclusionHasLegacy'
  <2>1. UNCHANGED <<log, inserted, legacyTable>>
    BY <1>3 DEF BanExclude, BanFails, bufferVars, tableVars
  <2>2. \A y \in Bans : banPc'[y] = "exclude" => banPc[y] = "exclude"
    BY <1>3 DEF BanExclude, BanFails, FlushTypeOK
  <2>3. \/ excluded' = excluded
        \/ legacyTable[BanOf[x]] # 0 /\ excluded' = excluded \cup {BanOf[x]}
    BY <1>3 DEF BanExclude, BanFails, BanInv, tableVars
  <2> QED
    BY <2>1, <2>2, <2>3 DEF LegacyInv, BanInv, ExclusionHasLegacy
<1>4. CASE InsertBatch
  <2>1. UNCHANGED <<log, excluded, banPc>> /\ flushPc = "insert"
    BY <1>4 DEF InsertBatch, bufferVars
  <2>2. \A b \in Buffers : inserted[b] \subseteq inserted'[b]
    BY <1>4 DEF InsertBatch, FlushTypeOK
  <2>3. Rows(buffer, batch) \subseteq inserted'[buffer] /\ 0 \notin Rows(buffer, batch)
    BY <1>4, <2>1, RowsAreRows DEF InsertBatch, FlushTypeOK
  <2>4. \A v \in Videos :
            legacyTable'[v] = legacyTable[v]
              \/ /\ legacyTable'[v] \in inserted'["legacy"]
                 /\ VideoOf[log["legacy"][legacyTable'[v]]] = v
                 /\ legacyTable'[v] # 0
    BY <1>4, <2>3, InsertedLegacy
  <2>5. "legacy" \in Buffers
    BY DEF Buffers
  <2>6. LegacyInv'
    BY <2>1, <2>2, <2>4, <2>5 DEF LegacyInv
  <2>7. \A v \in Videos : legacyTable[v] # 0 => legacyTable'[v] # 0
    BY <2>4
  <2>8. BanInv'
    BY <2>1, <2>7, FlushAssumption DEF BanInv
  <2>9. ExclusionHasLegacy'
    BY <2>1, <2>7 DEF ExclusionHasLegacy, FlushTypeOK
  <2> QED
    BY <2>6, <2>8, <2>9
<1>5. CASE UNCHANGED <<log, inserted, legacyTable, excluded, banPc>>
  BY <1>5 DEF LegacyInv, BanInv, ExclusionHasLegacy
<1>6. ASSUME NEW r \in Results, WriteRuntime(r)
      PROVE  UNCHANGED <<log, inserted, legacyTable, excluded, banPc>>
  BY <1>6 DEF WriteRuntime, bufferVars, tableVars
<1>7. CASE StartFlush \/ ReadBatch \/ TrimBatch \/ FlushDies \/ UNCHANGED vars
  <2>1. UNCHANGED <<log, inserted, legacyTable, excluded, banPc>>
    BY <1>7 DEF StartFlush, ReadBatch, TrimBatch, FlushDies, vars, bufferVars, tableVars
  <2> QED
    BY <1>5, <2>1
<1> QED
  BY <1>1, <1>2, <1>3, <1>4, <1>5, <1>6, <1>7 DEF Next, FlushStep

-----------------------------------------------------------------------------
(* What is pushed before the runtime key.                                  *)

(***************************************************************************)
(* A push keeps what was pushed and adds its own row.                      *)
(***************************************************************************)
LEMMA PushFacts ==
    ASSUME FlushTypeOK, NEW r \in Results, Push(r)
    PROVE  /\ \A q \in Results, b \in Buffers : Pushed(q, b) => Pushed(q, b)'
           /\ \A b \in Buffers : b = pubPc[r] => Pushed(r, b)'
<1>1. /\ pubPc[r] \in Buffers /\ log[pubPc[r]] \in Seq(Results)
      /\ log' = [log EXCEPT ![pubPc[r]] = Append(log[pubPc[r]], r)]
  BY DEF Push, FlushTypeOK
<1>2. log'[pubPc[r]] = Append(log[pubPc[r]], r)
  BY <1>1 DEF FlushTypeOK
<1>3. \A b \in Buffers : /\ DOMAIN log[b] \subseteq DOMAIN log'[b]
                         /\ \A i \in DOMAIN log[b] : log'[b][i] = log[b][i]
  BY <1>1 DEF FlushTypeOK
<1>4. \E i \in DOMAIN log'[pubPc[r]] : log'[pubPc[r]][i] = r
  <2>1. Len(log[pubPc[r]]) + 1 \in DOMAIN log'[pubPc[r]]
    BY <1>1, <1>2
  <2> QED
    BY <1>1, <1>2, <2>1, AppendFacts
<1>5. \A q \in Results, b \in Buffers : Pushed(q, b) => Pushed(q, b)'
  BY <1>3 DEF Pushed
<1> QED
  BY <1>4, <1>5 DEF Pushed

(***************************************************************************)
(* A result publishes in the order of _publish_after_commit, whatever else *)
(* happens.                                                                *)
(***************************************************************************)
LEMMA PushOrder ==
    ASSUME FlushTypeOK, PushInv, [Next]_vars
    PROVE  PushInv'
<1>1. ASSUME NEW r \in Results, Push(r)
      PROVE  PushInv'
  <2>1. /\ pubPc[r] \in Buffers
        /\ pubPc' = [pubPc EXCEPT ![r] = AfterPush(r, pubPc[r])]
        /\ runtime' = runtime
    BY <1>1 DEF Push, FlushTypeOK
  <2>2. /\ pubPc'[r] = AfterPush(r, pubPc[r])
        /\ \A q \in Results : q # r => pubPc'[q] = pubPc[q]
    BY <2>1 DEF FlushTypeOK
  <2>3. /\ \A q \in Results, b \in Buffers : Pushed(q, b) => Pushed(q, b)'
        /\ \A b \in Buffers : b = pubPc[r] => Pushed(r, b)'
    BY <1>1, PushFacts
  <2>4. /\ pubPc'[r] # "video_results" => Pushed(r, "video_results")'
        /\ pubPc'[r] \notin {"video_results", "legacy"} => Pushed(r, "legacy")'
        /\ pubPc'[r] \in {"runtime", "done"} /\ r \in Moves
               => Pushed(r, "storage_actions")'
    BY <2>1, <2>2, <2>3 DEF AfterPush, HasAction, PushInv, Buffers
  <2>5. \A q \in Results :
           /\ pubPc'[q] # "video_results" => Pushed(q, "video_results")'
           /\ pubPc'[q] \notin {"video_results", "legacy"} => Pushed(q, "legacy")'
           /\ pubPc'[q] \in {"runtime", "done"} /\ q \in Moves
                  => Pushed(q, "storage_actions")'
    BY <2>2, <2>3, <2>4 DEF PushInv, Buffers
  <2>6. \A v \in Videos : \A q \in runtime'[v] : pubPc'[q] = "done"
    BY <2>1, <2>2 DEF PushInv, FlushTypeOK, Buffers
  <2> QED
    BY <2>5, <2>6 DEF PushInv
<1>2. ASSUME NEW r \in Results, WriteRuntime(r)
      PROVE  PushInv'
  <2>1. /\ pubPc[r] = "runtime" /\ log' = log
        /\ pubPc' = [pubPc EXCEPT ![r] = "done"]
        /\ runtime' = [runtime EXCEPT ![VideoOf[r]] = {r}]
    BY <1>2 DEF WriteRuntime, bufferVars
  <2>2. pubPc'[r] = "done" /\ \A q \in Results : q # r => pubPc'[q] = pubPc[q]
    BY <2>1 DEF FlushTypeOK
  <2>3. \A v \in Videos : \A q \in runtime'[v] : pubPc'[q] = "done"
    BY <2>1, <2>2 DEF PushInv, FlushTypeOK
  <2> QED
    BY <2>1, <2>2, <2>3 DEF PushInv, Pushed
<1>3. CASE UNCHANGED <<log, pubPc, runtime>>
  BY <1>3 DEF PushInv, Pushed
<1>4. ASSUME NEW x \in Bans, BanLegacy(x) \/ BanExclude(x) \/ BanFails(x)
      PROVE  UNCHANGED <<log, pubPc, runtime>>
  BY <1>4 DEF BanLegacy, BanExclude, BanFails, bufferVars, publishVars
<1>5. CASE FlushStep \/ FlushDies \/ UNCHANGED vars
  <2>1. UNCHANGED <<log, pubPc, runtime>>
    BY <1>5 DEF FlushStep, StartFlush, ReadBatch, InsertBatch, TrimBatch, FlushDies,
                vars, bufferVars, publishVars
  <2> QED
    BY <1>3, <2>1
<1> QED
  BY <1>1, <1>2, <1>3, <1>4, <1>5 DEF Next

-----------------------------------------------------------------------------
(* The theorems.                                                           *)

(***************************************************************************)
(* IInv is inductive.                                                      *)
(***************************************************************************)
THEOREM FlushInvariant == Spec => []IInv
<1>1. Init => IInv
  <2> SUFFICES ASSUME Init PROVE IInv
    OBVIOUS
  <2>1. FlushTypeOK
    BY FlushAssumption DEF Init, FlushTypeOK, Buffers
  <2>2. NoRowLost /\ FlushInv
    BY FlushAssumption DEF Init, NoRowLost, FlushInv
  <2>3. LegacyInv /\ BanInv /\ ExclusionHasLegacy
    BY DEF Init, LegacyInv, BanInv, ExclusionHasLegacy
  <2>4. PushInv
    BY DEF Init, PushInv
  <2> QED
    BY <2>1, <2>2, <2>3, <2>4 DEF IInv
<1>2. IInv /\ [Next]_vars => IInv'
  <2> SUFFICES ASSUME IInv, [Next]_vars PROVE IInv'
    OBVIOUS
  <2> USE DEF IInv
  <2>1. ASSUME NEW r \in Results, Push(r) \/ WriteRuntime(r)
        PROVE  FlushTypeOK' /\ NoRowLost' /\ FlushInv'
    <3>1. FlushTypeOK'
      BY <2>1, PublishType
    <3>2. CASE Push(r)
      BY <3>1, <3>2, PushKeepsFlushInv
    <3>3. CASE WriteRuntime(r)
      <4>1. UNCHANGED <<bufferVars, inserted, flushVars>>
        BY <3>3 DEF WriteRuntime, tableVars
      <4> QED
        BY <3>1, <4>1, OthersKeepFlushInv
    <3> QED
      BY <2>1, <3>2, <3>3
  <2>2. ASSUME NEW x \in Bans, BanLegacy(x) \/ BanExclude(x) \/ BanFails(x)
        PROVE  FlushTypeOK' /\ NoRowLost' /\ FlushInv'
    <3>1. UNCHANGED <<bufferVars, inserted, flushVars>>
      BY <2>2 DEF BanLegacy, BanExclude, BanFails, tableVars
    <3> QED
      BY <2>2, <3>1, BanType, OthersKeepFlushInv
  <2>3. ASSUME FlushStep \/ FlushDies
        PROVE  FlushTypeOK' /\ NoRowLost' /\ FlushInv'
    BY <2>3, FlushType, FlushKeepsFlushInv
  <2>4. ASSUME UNCHANGED vars
        PROVE  FlushTypeOK' /\ NoRowLost' /\ FlushInv'
    <3>1. FlushTypeOK'
      BY <2>4 DEF FlushTypeOK, vars, bufferVars, tableVars, publishVars, flushVars
    <3> QED
      BY <2>4, <3>1, OthersKeepFlushInv DEF vars, tableVars
  <2>5. FlushTypeOK' /\ NoRowLost' /\ FlushInv'
    BY <2>1, <2>2, <2>3, <2>4 DEF Next
  <2>6. LegacyInv' /\ BanInv' /\ ExclusionHasLegacy'
    BY <2>5, TableInv
  <2>7. PushInv'
    BY PushOrder
  <2> QED
    BY <2>5, <2>6, <2>7
<1> QED
  BY <1>1, <1>2, PTL DEF Spec

(***************************************************************************)
(* Every reachable state is well typed.                                    *)
(***************************************************************************)
THEOREM FlushTypeCorrect == Spec => []FlushTypeOK
<1>1. IInv => FlushTypeOK
  BY DEF IInv
<1> QED
  BY <1>1, FlushInvariant, PTL

(***************************************************************************)
(* A row leaves its buffer only once ClickHouse has it.                    *)
(***************************************************************************)
THEOREM RowsAreNotLost == Spec => []NoRowLost
<1>1. IInv => NoRowLost
  BY DEF IInv
<1> QED
  BY <1>1, FlushInvariant, PTL

(***************************************************************************)
(* An excluded video has a row in the compatibility table.                 *)
(***************************************************************************)
THEOREM ExclusionsHaveLegacy == Spec => []ExclusionHasLegacy
<1>1. IInv => ExclusionHasLegacy
  BY DEF IInv
<1> QED
  BY <1>1, FlushInvariant, PTL

(***************************************************************************)
(* What the runtime key shows is in the tables or on its way there.        *)
(***************************************************************************)
THEOREM RuntimeBacked == Spec => []RuntimeIsBacked
<1>1. IInv => RuntimeIsBacked
  <2> SUFFICES ASSUME IInv, NEW v \in Videos, NEW r \in runtime[v],
                      NEW b \in {"video_results", "legacy"}
                                   \cup (IF r \in Moves THEN {"storage_actions"} ELSE {})
               PROVE  \E i \in DOMAIN log[b] :
                          log[b][i] = r /\ (i \in inserted[b] \/ i > trimmed[b])
    BY DEF RuntimeIsBacked
  <2>1. r \in Results /\ pubPc[r] = "done" /\ b \in Buffers
    BY DEF IInv, PushInv, FlushTypeOK, Buffers
  <2>2. Pushed(r, b)
    BY <2>1 DEF IInv, PushInv
  <2>3. PICK i \in DOMAIN log[b] : log[b][i] = r
    BY <2>2 DEF Pushed
  <2>4. /\ i \in Nat \ {0} /\ trimmed[b] \in Nat
        /\ 1..trimmed[b] \subseteq inserted[b]
    BY <2>1 DEF IInv, FlushTypeOK, NoRowLost
  <2> QED
    BY <2>3, <2>4
<1> QED
  BY <1>1, FlushInvariant, PTL

(***************************************************************************)
(* A batch that is inserted again never hides a newer row of a video.      *)
(***************************************************************************)
THEOREM LegacyNeverGoesBack == Spec => LegacyMovesForward
<1> DEFINE Forward ==
        \A v \in Videos :
            legacyTable[v] \in Nat /\ legacyTable'[v] \in Nat
                => legacyTable'[v] >= legacyTable[v]
<1>1. IInv /\ [Next]_vars => [Forward]_vars
  <2> SUFFICES ASSUME IInv, Next PROVE Forward
    OBVIOUS
  <2>1. CASE InsertBatch
    BY <2>1, InsertedLegacy DEF IInv
  <2>2. ASSUME NEW x \in Bans, BanLegacy(x)
        PROVE  Forward
    <3>1. ManualBan \notin Nat
      BY FlushAssumption
    <3>2. \A v \in Videos : legacyTable'[v] \in {legacyTable[v], ManualBan}
      BY <2>2 DEF BanLegacy, IInv, FlushTypeOK
    <3>3. \A n \in Nat : n >= n
      OBVIOUS
    <3> QED
      BY <3>1, <3>2, <3>3, Zenon
  <2>3. ASSUME legacyTable' = legacyTable
        PROVE  Forward
    <3>1. \A v \in Videos : legacyTable[v] \in Nat => legacyTable[v] >= legacyTable[v]
      OBVIOUS
    <3> QED
      BY <2>3, <3>1, Zenon
  <2>4. ASSUME NEW x \in Bans, BanExclude(x) \/ BanFails(x)
        PROVE  legacyTable' = legacyTable
    BY <2>4 DEF BanExclude, BanFails, tableVars
  <2>5. ASSUME NEW r \in Results, Push(r) \/ WriteRuntime(r)
        PROVE  legacyTable' = legacyTable
    BY <2>5 DEF Push, WriteRuntime, tableVars
  <2>6. CASE StartFlush \/ ReadBatch \/ TrimBatch \/ FlushDies
    <3>1. legacyTable' = legacyTable
      BY <2>6 DEF StartFlush, ReadBatch, TrimBatch, FlushDies, tableVars
    <3> QED
      BY <2>3, <3>1
  <2> HIDE DEF Forward
  <2> QED
    BY <2>1, <2>2, <2>3, <2>4, <2>5, <2>6 DEF Next, FlushStep
<1> QED
  BY <1>1, FlushInvariant, PTL DEF Spec, LegacyMovesForward
=============================================================================
