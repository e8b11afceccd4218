------------------------- MODULE VideoAnalysis_proofs -------------------------
(***************************************************************************)
(* Proofs about ModerationPolicy and VideoAnalysis: any outputs of the     *)
(* model, any contents of the sources, any runs on any directories.        *)
(***************************************************************************)
EXTENDS VideoAnalysis, TLAPS, FiniteSetTheorems, SequenceTheorems,
        WellFoundedInduction

-----------------------------------------------------------------------------
(* The verdict on a video.                                                 *)

(***************************************************************************)
(* The largest of some severities is one of them.                          *)
(***************************************************************************)
LEMMA MaxOfSeverities ==
    ASSUME NEW S \in SUBSET Severities, S # {}
    PROVE  Max(S) \in S /\ \A x \in S : x <= Max(S)
<1>1. \E m \in S : \A x \in S : m >= x
  <2>1. \A x \in S : x \in Nat /\ x <= 5
    BY DEF Severities
  <2>2. CASE 5 \in S
    BY <2>1, <2>2
  <2>3. CASE 4 \in S /\ 5 \notin S
    BY <2>1, <2>3
  <2>4. CASE 3 \in S /\ 4 \notin S /\ 5 \notin S
    BY <2>1, <2>4
  <2>5. CASE 2 \in S /\ 3 \notin S /\ 4 \notin S /\ 5 \notin S
    BY <2>1, <2>5
  <2>6. CASE 2 \notin S /\ 3 \notin S /\ 4 \notin S /\ 5 \notin S
    <3>1. \A x \in S : x = 0 \/ x = 1
      BY <2>1, <2>6
    <3> QED
      BY <3>1
  <2> QED
    BY <2>2, <2>3, <2>4, <2>5, <2>6
<1>2. Max(S) \in S /\ \A x \in S : Max(S) >= x
  BY <1>1 DEF Max
<1>3. S \subseteq Int
  BY DEF Severities
<1> QED
  BY <1>2, <1>3

(***************************************************************************)
(* What a valid output says: the top score is the largest unsafe score,    *)
(* and what it says of "safe" excludes everything else.                    *)
(***************************************************************************)
LEMMA OutputFacts ==
    ASSUME NEW out \in Outputs
    PROVE  /\ out.top \in Categories
           /\ Overall(out) \in Severities
           /\ \A c \in Categories : out.scores[c] \in Severities
           /\ out.top = "safe" => \A c \in UnsafeCategories : out.scores[c] = 0
           /\ out.top # "safe" =>
                  /\ out.top \in UnsafeCategories
                  /\ \A c \in UnsafeCategories : out.scores[c] <= Overall(out)
  BY DEF Outputs, ValidOutput, Overall, UnsafeCategories

(***************************************************************************)
(* A flagged output is of severity 3 at least.                             *)
(***************************************************************************)
LEMMA NsfwIsSevere ==
    ASSUME NEW out \in Outputs, IsNsfw(out)
    PROVE  out.top # "safe" /\ Overall(out) >= 3
<1>1. PICK c \in UnsafeCategories : out.scores[c] >= Threshold[c]
  BY DEF IsNsfw
<1>2. Threshold[c] >= 3 /\ Threshold[c] \in Int
  BY DEF Threshold
<1>3. c \in Categories /\ out.scores[c] \in Severities
  BY OutputFacts DEF UnsafeCategories
<1>4. out.top # "safe"
  BY <1>1, <1>2, <1>3, OutputFacts DEF Severities
<1>5. out.scores[c] <= Overall(out) /\ Overall(out) \in Severities
  BY <1>4, OutputFacts
<1> QED
  BY <1>1, <1>2, <1>3, <1>4, <1>5 DEF Severities

(***************************************************************************)
(* The severity of a video is that of its worst frame.                     *)
(***************************************************************************)
LEMMA MaxOverallFacts ==
    ASSUME NEW outs \in Seq(Outputs), outs # <<>>
    PROVE  /\ \A i \in DOMAIN outs : Overall(outs[i]) <= MaxOverall(outs)
           /\ \E i \in DOMAIN outs : Overall(outs[i]) = MaxOverall(outs)
           /\ MaxOverall(outs) \in Severities
<1> DEFINE S == {Overall(outs[i]) : i \in DOMAIN outs}
<1>1. /\ \A i \in DOMAIN outs : outs[i] \in Outputs
      /\ 1 \in DOMAIN outs
  OBVIOUS
<1>2. S \in SUBSET Severities /\ S # {}
  <2>1. \A i \in DOMAIN outs : Overall(outs[i]) \in Severities
    BY <1>1, OutputFacts
  <2> QED
    BY <1>1, <2>1
<1>3. Max(S) \in S /\ \A x \in S : x <= Max(S)
  <2> HIDE DEF S
  <2> QED
    BY <1>2, MaxOfSeverities
<1>4. MaxOverall(outs) = Max(S)
  BY DEF MaxOverall
<1> HIDE DEF MaxOverall
<1> QED
  BY <1>2, <1>3, <1>4

(***************************************************************************)
(* The severity of a category is that of one of the frames.                *)
(***************************************************************************)
LEMMA MaxSeverityFacts ==
    ASSUME NEW outs \in Seq(Outputs), outs # <<>>, NEW c \in Categories
    PROVE  /\ \E i \in DOMAIN outs : outs[i].scores[c] = MaxSeverity(outs, c)
           /\ MaxSeverity(outs, c) \in Severities
<1> DEFINE S == {outs[i].scores[c] : i \in DOMAIN outs}
<1>1. \A i \in DOMAIN outs : outs[i] \in Outputs
  OBVIOUS
<1>2. S \in SUBSET Severities /\ S # {}
  BY <1>1, OutputFacts
<1>3. Max(S) \in S
  <2> HIDE DEF S
  <2> QED
    BY <1>2, MaxOfSeverities
<1>4. MaxSeverity(outs, c) = Max(S)
  BY DEF MaxSeverity
<1> HIDE DEF MaxSeverity
<1> QED
  BY <1>2, <1>3, <1>4

(***************************************************************************)
(* Every set of categories has a riskiest one.                             *)
(***************************************************************************)
LEMMA RankFacts ==
    ASSUME NEW c \in Categories
    PROVE  Rank(c) \in 1..11 /\ RiskOrder[Rank(c)] = c
  BY DEF Categories, Rank

(***************************************************************************)
(* A nonempty set of categories has one that none of the others precedes.  *)
(***************************************************************************)
LEMMA RiskiestExists ==
    ASSUME NEW S \in SUBSET Categories, S # {}
    PROVE  \E c \in S : \A d \in S : Rank(c) <= Rank(d)
<1> DEFINE T == {Rank(c) : c \in S}
<1>1. T \subseteq Nat /\ T # {}
  BY RankFacts
<1>2. PICK m \in T : \A n \in T : <<n, m>> \notin OpToRel(<, Nat)
  <2> HIDE DEF T
  <2> QED
    BY <1>1, NatLessThanWellFounded, WFMin, Zenon
<1>3. \A n \in T : ~(n < m)
  <2> HIDE DEF T
  <2>1. \A n \in T : n \in Nat
    BY <1>1
  <2> QED
    BY <1>2, <2>1, Zenon DEF OpToRel
<1>4. \A n \in T : m <= n
  BY <1>1, <1>3
<1> QED
  BY <1>4

(***************************************************************************)
(* The category of a video is that of one of its worst frames.             *)
(***************************************************************************)
LEMMA TopCategoryFacts ==
    ASSUME NEW outs \in Seq(Outputs), outs # <<>>
    PROVE  \E i \in DOMAIN outs : /\ Overall(outs[i]) = MaxOverall(outs)
                                  /\ outs[i].top = TopCategory(outs)
<1> DEFINE tops == {outs[i].top :
                       i \in {k \in DOMAIN outs : Overall(outs[k]) = MaxOverall(outs)}}
<1>1. \A i \in DOMAIN outs : outs[i].top \in Categories
  BY OutputFacts
<1>2. tops \in SUBSET Categories /\ tops # {}
  BY <1>1, MaxOverallFacts
<1>3. \E c \in tops : \A d \in tops : Rank(c) <= Rank(d)
  <2> HIDE DEF tops
  <2> QED
    BY <1>2, RiskiestExists
<1>4. TopCategory(outs) = CHOOSE c \in tops : \A d \in tops : Rank(c) <= Rank(d)
  BY DEF TopCategory
<1>5. TopCategory(outs) \in tops
  <2> HIDE DEF tops
  <2> QED
    BY <1>3, <1>4
<1> QED
  BY <1>5

(***************************************************************************)
(* Flag, move and labels of a verdict fit together, for every sequence of  *)
(* outputs (aggregate, the legacy labels of map_legacy_nsfw_ec and         *)
(* map_legacy_nsfw_gore).                                                  *)
(***************************************************************************)
VerdictFits(v) ==
    /\ v.nsfw /\ ~v.move => v.severity = 3
    /\ v.gore \in {"LIKELY", "VERY_LIKELY"} => v.nsfw /\ v.move
    /\ v.ec = "explicit" /\ v.move => v.nsfw

(***************************************************************************)
(* A label of likely gore comes from one severe frame.                     *)
(***************************************************************************)
LEMMA LikelyGoreIsSevere ==
    ASSUME NEW outs \in Seq(Outputs), outs # <<>>,
           Verdict(outs).gore \in {"LIKELY", "VERY_LIKELY"}
    PROVE  \E i \in DOMAIN outs : \E c \in {"gore", "violence"} : outs[i].scores[c] >= 4
<1> DEFINE g == MaxSeverity(outs, "gore")
           v == MaxSeverity(outs, "violence")
<1>1. "gore" \in Categories /\ "violence" \in Categories
  <2>1. RiskOrder[4] = "gore" /\ RiskOrder[5] = "violence"
    BY DEF RiskOrder
  <2> QED
    BY <2>1 DEF Categories
<1>2. /\ g \in Severities /\ v \in Severities
      /\ \E i \in DOMAIN outs : outs[i].scores["gore"] = g
      /\ \E i \in DOMAIN outs : outs[i].scores["violence"] = v
  BY <1>1, MaxSeverityFacts
<1> HIDE DEF g, v
<1>3. Verdict(outs).gore = LegacyGore(Max({g, v}))
  BY DEF Verdict, g, v
<1>4. {g, v} \in SUBSET Severities /\ {g, v} # {}
  BY <1>2
<1>5. Max({g, v}) \in {g, v}
  BY <1>4, MaxOfSeverities
<1>6. Max({g, v}) >= 4
  <2>1. Max({g, v}) \in Int
    BY <1>2, <1>5 DEF Severities
  <2> QED
    BY <1>3, <2>1 DEF LegacyGore
<1> QED
  BY <1>2, <1>5, <1>6

(***************************************************************************)
(* Every verdict that aggregate can return fits together.                  *)
(***************************************************************************)
LEMMA VerdictsFit ==
    ASSUME NEW outs \in Seq(Outputs), outs # <<>>
    PROVE  VerdictFits(Verdict(outs))
<1> DEFINE v == Verdict(outs)
<1>1. /\ v.nsfw = (\E i \in DOMAIN outs : IsNsfw(outs[i]))
      /\ v.severity = MaxOverall(outs)
      /\ v.top = TopCategory(outs)
      /\ v.move = (MaxOverall(outs) >= 4)
      /\ v.ec = LegacyEc(TopCategory(outs))
  BY DEF Verdict, MoveSeverity
<1>2. \A i \in DOMAIN outs : outs[i] \in Outputs
  OBVIOUS
<1> HIDE DEF v
<1>3. MaxOverall(outs) \in 0..5
  BY MaxOverallFacts DEF Severities
<1>4. PICK k \in DOMAIN outs : Overall(outs[k]) = v.severity /\ outs[k].top = v.top
  BY <1>1, TopCategoryFacts
<1>5. ASSUME v.nsfw, ~v.move
      PROVE  v.severity = 3
  <2>1. PICK i \in DOMAIN outs : IsNsfw(outs[i])
    BY <1>1, <1>5
  <2>2. Overall(outs[i]) >= 3 /\ Overall(outs[i]) \in 0..5
    BY <1>2, <2>1, NsfwIsSevere, OutputFacts DEF Severities
  <2>3. Overall(outs[i]) <= v.severity
    BY <1>1, MaxOverallFacts
  <2>4. ~(MaxOverall(outs) >= 4)
    BY <1>1, <1>5
  <2>5. Overall(outs[i]) <= MaxOverall(outs)
    BY <1>1, <2>3
  <2>6. MaxOverall(outs) = 3
    <3> HIDE DEF v
    <3> QED
      BY <1>3, <2>2, <2>4, <2>5
  <2> QED
    BY <1>1, <2>6
<1>6. ASSUME v.move, ~v.nsfw, v.top # "safe"
      PROVE  v.severity < Threshold[v.top] /\ v.top \in UnsafeCategories
  <2>1. v.top \in UnsafeCategories
    BY <1>2, <1>4, <1>6, OutputFacts
  <2>2. ~(outs[k].scores[v.top] >= Threshold[v.top])
    BY <1>1, <1>6, <2>1 DEF IsNsfw
  <2>3. outs[k].scores[v.top] = v.severity
    BY <1>4 DEF Overall
  <2>4. Threshold[v.top] \in Int
    BY <2>1 DEF Threshold
  <2> QED
    BY <1>1, <1>3, <2>1, <2>2, <2>3, <2>4
<1>8. ASSUME v.gore \in {"LIKELY", "VERY_LIKELY"}
      PROVE  v.nsfw /\ v.move
  <2>1. PICK i \in DOMAIN outs, c \in {"gore", "violence"} : outs[i].scores[c] >= 4
    BY <1>8, LikelyGoreIsSevere DEF v
  <2>2. c \in UnsafeCategories
    <3>1. RiskOrder[4] = "gore" /\ RiskOrder[5] = "violence"
      BY DEF RiskOrder
    <3> QED
      BY <3>1 DEF UnsafeCategories, Categories
  <2>3. Threshold[c] = 4
    BY <2>2 DEF Threshold
  <2>4. IsNsfw(outs[i])
    BY <2>1, <2>2, <2>3 DEF IsNsfw
  <2>5. outs[i].scores[c] <= Overall(outs[i]) /\ Overall(outs[i]) \in 0..5
        /\ outs[i].scores[c] \in 0..5
    BY <1>2, <2>2, <2>4, NsfwIsSevere, OutputFacts DEF Severities, UnsafeCategories
  <2>6. Overall(outs[i]) <= MaxOverall(outs)
    BY MaxOverallFacts
  <2>7. MaxOverall(outs) >= 4
    BY <1>3, <2>1, <2>5, <2>6
  <2>8. v.nsfw
    BY <1>1, <2>4
  <2> QED
    BY <1>1, <2>7, <2>8
<1>7. ASSUME v.ec = "explicit", v.move
      PROVE  v.nsfw
  <2>1. v.top \in {"porn", "sexual_minor_content"}
    BY <1>1, <1>7 DEF LegacyEc
  <2>2. SUFFICES ASSUME ~v.nsfw
                 PROVE  FALSE
    OBVIOUS
  <2>3. v.severity < Threshold[v.top] /\ v.top \in UnsafeCategories
    BY <1>6, <1>7, <2>1, <2>2
  <2>4. Threshold[v.top] \in {3, 4}
    BY <2>1, <2>3 DEF Threshold
  <2>5. v.severity >= 4 /\ v.severity \in 0..5
    BY <1>1, <1>3, <1>7
  <2> QED
    BY <2>3, <2>4, <2>5
<1>9. VerdictFits(v)
  BY <1>5, <1>7, <1>8 DEF VerdictFits
<1> QED
  BY <1>9 DEF v

-----------------------------------------------------------------------------
(* Replies and lists of frames.                                            *)

(***************************************************************************)
(* An output that contradicts itself is not valid.                         *)
(***************************************************************************)
LEMMA ContradictionIsInvalid ==
    ASSUME NEW out \in Outputs
    PROVE  ~ValidOutput(Contradict(out))
<1> DEFINE bad == Contradict(out)
<1>1. "porn" \in UnsafeCategories
  <2>1. RiskOrder[2] = "porn"
    BY DEF RiskOrder
  <2> QED
    BY <2>1 DEF UnsafeCategories, Categories
<1>2. out \in [top : Categories, scores : [Categories -> Severities]]
  BY DEF Outputs
<1>3. /\ bad.top = IF out.top = "safe" THEN "porn" ELSE "safe"
      /\ bad.scores = out.scores
  BY <1>2 DEF Contradict
<1> HIDE DEF bad
<1>4. CASE out.top = "safe"
  <2>1. bad.scores["porn"] = 0
    BY <1>1, <1>3, <1>4, OutputFacts
  <2> QED
    BY <1>3, <1>4, <2>1 DEF ValidOutput, bad
<1>5. CASE out.top # "safe"
  <2>1. out.top \in UnsafeCategories /\ out.scores[out.top] # 0
    BY <1>5 DEF Outputs, ValidOutput, UnsafeCategories
  <2> QED
    BY <1>3, <1>5, <2>1 DEF ValidOutput, bad
<1> QED
  BY <1>4, <1>5

(***************************************************************************)
(* The only reply that parse_visual_batch_response accepts gives each      *)
(* frame its own output.                                                   *)
(***************************************************************************)
LEMMA AcceptedReply ==
    ASSUME NEW outs \in Seq(Outputs), outs # <<>>,
           NEW reply \in Replies(outs), BatchParses(reply, Len(outs))
    PROVE  [i \in DOMAIN reply.items |-> reply.items[i].out] = outs
<1> DEFINE items == [i \in DOMAIN outs |-> [index |-> i, out |-> outs[i]]]
           n == Len(outs)
           Items == [index : Nat, out : Outputs]
<1>1. n \in Nat \ {0} /\ DOMAIN outs = 1..n
  BY EmptySeq, LenProperties
<1>2. items \in Seq(Items) /\ Len(items) = n
  <2>1. \A i \in 1..n : [index |-> i, out |-> outs[i]] \in Items
    BY <1>1
  <2>2. items \in [1..n -> Items]
    BY <1>1, <2>1
  <2> HIDE DEF items, n, Items
  <2>3. items \in Seq(Items)
    BY <1>1, <2>2, SeqDef
  <2>4. DOMAIN items = 1..n /\ DOMAIN items = 1..Len(items) /\ Len(items) \in Nat
    BY <2>2, <2>3, LenProperties
  <2> QED
    BY <1>1, <2>3, <2>4
<1>3. \A i \in 1..n : items[i].index = i /\ items[i].out = outs[i]
  BY <1>1
<1>4. /\ reply.shape = "list" \/ reply.shape = "object"
      /\ Len(reply.items) = n
      /\ \A i \in 1..n : reply.items[i].index = i /\ ValidOutput(reply.items[i].out)
  BY DEF BatchParses, ValidItem
<1>5. reply = [shape |-> "list", items |-> items]
  <2>1. \/ reply = [shape |-> "list", items |-> items]
        \/ reply = [shape |-> "other", items |-> <<>>]
        \/ reply = [shape |-> "list", items |-> SubSeq(items, 1, Len(items) - 1)]
        \/ reply = [shape |-> "list",
                    items |-> [i \in DOMAIN items |-> items[Len(items) + 1 - i]]]
        \/ reply = [shape |-> "list",
                    items |-> [items EXCEPT ![Len(items)].out = Contradict(@)]]
    BY DEF Replies
  <2> HIDE DEF items, n, Items
  <2>2. CASE reply = [shape |-> "other", items |-> <<>>]
    BY <1>4, <2>2
  <2>3. CASE reply = [shape |-> "list", items |-> SubSeq(items, 1, Len(items) - 1)]
    <3>1. Len(SubSeq(items, 1, n - 1)) = n - 1
      <4>1. \A i \in 1..(n - 1) : items[i] \in Items
        <5>1. \A i \in 1..(n - 1) : i \in 1..Len(items)
          BY <1>1, <1>2
        <5> QED
          BY <1>2, <5>1, ElementOfSeq
      <4>2. Len(SubSeq(items, 1, n - 1)) = IF 1 <= n - 1 THEN (n - 1) - 1 + 1 ELSE 0
        <5>1. n - 1 \in Int
          BY <1>1
        <5> QED
          BY <4>1, <5>1, SubSeqProperties
      <4> QED
        BY <1>1, <4>2
    <3> QED
      BY <1>1, <1>2, <1>4, <2>3, <3>1
  <2>4. CASE reply = [shape |-> "list",
                      items |-> [i \in DOMAIN items |-> items[Len(items) + 1 - i]]]
    <3>1. reply.items[1] = items[n]
      BY <1>1, <1>2, <2>4
    <3>2. n = 1
      BY <1>1, <1>3, <1>4, <3>1
    <3>3. [i \in DOMAIN items |-> items[Len(items) + 1 - i]] = items
      BY <1>2, <3>2
    <3> QED
      BY <2>4, <3>3
  <2>5. CASE reply = [shape |-> "list",
                      items |-> [items EXCEPT ![Len(items)].out = Contradict(@)]]
    <3>1. reply.items[n].out = Contradict(items[n].out)
      BY <1>1, <1>2, <2>5
    <3>2. items[n].out \in Outputs
      BY <1>1, <1>3
    <3> QED
      BY <1>1, <1>4, <3>1, <3>2, ContradictionIsInvalid
  <2> QED
    BY <2>1, <2>2, <2>3, <2>4, <2>5
<1> QED
  BY <1>1, <1>3, <1>5

(***************************************************************************)
(* The frame files of a directory are listed as a sequence of numbers,     *)
(* 1..n in order where these are the numbers.                              *)
(***************************************************************************)
RankIn(S, k) == Cardinality({m \in S : m <= k})

(***************************************************************************)
(* The rank of a number is within the size of its set.                     *)
(***************************************************************************)
LEMMA RankInRange ==
    ASSUME NEW S \in SUBSET Nat, IsFiniteSet(S), NEW k \in S
    PROVE  RankIn(S, k) \in 1..Cardinality(S)
<1> DEFINE below == {m \in S : m <= k}
<1>1. below \in SUBSET S /\ k \in below
  OBVIOUS
<1> HIDE DEF below
<1>2. IsFiniteSet(below) /\ Cardinality(below) <= Cardinality(S)
  BY <1>1, FS_Subset
<1>3. Cardinality(below) \in Nat /\ Cardinality(S) \in Nat /\ Cardinality(below) # 0
  BY <1>1, <1>2, FS_CardinalityType, FS_EmptySet
<1>4. RankIn(S, k) = Cardinality(below)
  BY DEF RankIn, below
<1> QED
  BY <1>2, <1>3, <1>4

(***************************************************************************)
(* Different numbers have different ranks.                                 *)
(***************************************************************************)
LEMMA RanksDiffer ==
    ASSUME NEW S \in SUBSET Nat, IsFiniteSet(S), NEW j \in S, NEW k \in S, j < k
    PROVE  RankIn(S, j) # RankIn(S, k)
<1> DEFINE low == {m \in S : m <= j}
           high == {m \in S : m <= k}
<1>1. high \in SUBSET S /\ low \in SUBSET high /\ k \in high /\ k \notin low
  <2>1. \A m \in S : m \in Nat /\ (m <= j => m <= k)
    OBVIOUS
  <2>2. k <= k /\ ~(k <= j)
    OBVIOUS
  <2> QED
    BY <2>1, <2>2, Zenon
<1>2. RankIn(S, j) = Cardinality(low) /\ RankIn(S, k) = Cardinality(high)
  BY DEF RankIn
<1> HIDE DEF low, high
<1>3. IsFiniteSet(high)
  BY <1>1, FS_Subset
<1>4. Cardinality(high) = Cardinality(low) => high = low
  BY <1>1, <1>3, FS_Subset
<1> QED
  BY <1>1, <1>2, <1>4

(***************************************************************************)
(* Every rank up to the size of the set is that of one of its numbers.     *)
(***************************************************************************)
LEMMA EveryRankTaken ==
    ASSUME NEW S \in SUBSET Nat, IsFiniteSet(S), NEW i \in 1..Cardinality(S)
    PROVE  \E k \in S : RankIn(S, k) = i
<1> DEFINE n == Cardinality(S)
           f == [k \in S |-> RankIn(S, k)]
<1>1. n \in Nat
  BY FS_CardinalityType
<1>2. f \in [S -> 1..n]
  BY RankInRange
<1>3. \A j, k \in S : f[j] = f[k] => j = k
  <2>1. SUFFICES ASSUME NEW j \in S, NEW k \in S, j # k
                 PROVE  f[j] # f[k]
    OBVIOUS
  <2>2. j \in Nat /\ k \in Nat
    OBVIOUS
  <2>3. j < k \/ k < j
    BY <2>1, <2>2
  <2> QED
    BY <2>3, RanksDiffer
<1> HIDE DEF f, n
<1>4. f \in Injection(S, 1..n)
  BY <1>2, <1>3 DEF Injection, IsInjective
<1>5. IsFiniteSet(1..n) /\ Cardinality(1..n) = n
  <2>1. 1 \in Int /\ n \in Int
    BY <1>1
  <2>2. IsFiniteSet(1..n) /\ Cardinality(1..n) = IF 1 > n THEN 0 ELSE n - 1 + 1
    BY <2>1, FS_Interval
  <2> QED
    BY <1>1, <2>2
<1>6. f \in Surjection(S, 1..n)
  <2>1. Cardinality(S) = Cardinality(1..n) <=> f \in Surjection(S, 1..n)
    BY <1>4, <1>5, FS_Injection
  <2> QED
    BY <1>5, <2>1 DEF n
<1>7. \E k \in S : f[k] = i
  BY <1>6 DEF Surjection, n
<1> QED
  BY <1>7 DEF f

(***************************************************************************)
(* The list is a sequence of the numbers found.                            *)
(***************************************************************************)
LEMMA SortedType ==
    ASSUME NEW S \in SUBSET Nat, IsFiniteSet(S)
    PROVE  /\ Sorted(S) \in Seq(Nat)
           /\ DOMAIN Sorted(S) = 1..Cardinality(S)
           /\ \A i \in DOMAIN Sorted(S) : Sorted(S)[i] \in S
<1> DEFINE n == Cardinality(S)
<1>1. n \in Nat
  BY FS_CardinalityType
<1>2. \A i \in 1..n : (CHOOSE k \in S : RankIn(S, k) = i) \in S
  BY EveryRankTaken
<1>3. Sorted(S) = [i \in 1..n |-> CHOOSE k \in S : RankIn(S, k) = i]
  BY DEF Sorted, RankIn
<1> HIDE DEF n
<1>4. Sorted(S) \in [1..n -> S]
  BY <1>2, <1>3
<1>5. Sorted(S) \in [1..n -> Nat]
  BY <1>4
<1> QED
  BY <1>1, <1>4, <1>5, SeqDef DEF n

(***************************************************************************)
(* The list of 1..n is 1, 2, ..., n.                                       *)
(***************************************************************************)
LEMMA SortedInterval ==
    ASSUME NEW n \in Nat
    PROVE  Sorted(1..n) = [i \in 1..n |-> i]
<1>1. \A k \in 0..n : IsFiniteSet(1..k) /\ Cardinality(1..k) = k
  <2>1. SUFFICES ASSUME NEW k \in 0..n
                 PROVE  IsFiniteSet(1..k) /\ Cardinality(1..k) = k
    OBVIOUS
  <2>2. 1 \in Int /\ k \in Int
    OBVIOUS
  <2>3. IsFiniteSet(1..k) /\ Cardinality(1..k) = IF 1 > k THEN 0 ELSE k - 1 + 1
    BY <2>2, FS_Interval
  <2> QED
    BY <2>1, <2>3
<1>2. \A k \in 1..n : RankIn(1..n, k) = k
  <2>1. SUFFICES ASSUME NEW k \in 1..n
                 PROVE  RankIn(1..n, k) = k
    OBVIOUS
  <2>2. {m \in 1..n : m <= k} = 1..k
    OBVIOUS
  <2>3. RankIn(1..n, k) = Cardinality(1..k)
    BY <2>2 DEF RankIn
  <2>4. k \in 0..n
    OBVIOUS
  <2> QED
    BY <1>1, <2>3, <2>4
<1>3. \A i \in 1..n : (CHOOSE k \in 1..n : RankIn(1..n, k) = i) = i
  BY <1>2
<1>4. Cardinality(1..n) = n
  BY <1>1
<1>5. Sorted(1..n) = [i \in 1..n |-> CHOOSE k \in 1..n : RankIn(1..n, k) = i]
  BY <1>4 DEF Sorted, RankIn
<1> QED
  BY <1>3, <1>5

-----------------------------------------------------------------------------
(* The inductive invariant.                                                *)

Looks(r) == content[SourceOf[r]].looks
AllFrames(r) == {<<k, SourceOf[r]>> : k \in 1..Len(Looks(r))}

Files == {NoFile} \cup [opener : Runs, whole : BOOLEAN]
Verdicts == {NoVerdict} \cup {Verdict(outs) : outs \in Seq(Outputs)}

\* Finitely many frames, each of a second that the source it shows has.
FrameSets == {F \in SUBSET Frames :
                 IsFiniteSet(F) /\ \A f \in F : f[1] \in DOMAIN content[f[2]].looks}

ShapeInv ==
    /\ file \in [Dirs -> Files]
    /\ verdict \in [Runs -> Verdicts]
    /\ frames \in [Dirs -> FrameSets]
    /\ shot \in [Runs -> FrameSets]

\* Two runs at work in a directory have met there.
MetInv == \A r, x \in Live : r # x /\ DirOf[r] = DirOf[x] => r \in met

\* A run has no results before it judges, no verdict before it aggregates
\* and no outcome before its cleanup.
Fresh(r) ==
    /\ pc[r] \in {"new", "fetch", "open", "write", "probe", "extract", "ffmpeg", "list"}
           => results[r] = <<>>
    /\ pc[r] \notin {"finalize", "cleanup", "ended", "littered", "crashed"}
           => verdict[r] = NoVerdict
    /\ pc[r] \notin {"cleanup", "ended", "littered", "crashed"} => outcome[r] = "none"

\* The frames judged, then those to judge, are those of the video in order.
Judged(r) ==
    /\ Len(results[r]) + Len(todo[r]) = Len(Looks(r))
    /\ \A i \in 1..Len(results[r]) : results[r][i] = Looks(r)[i]
    /\ \A i \in 1..Len(todo[r]) : todo[r][i] = Len(results[r]) + i

\* What is in the directory of a run that has it to itself.
OwnFiles(r) ==
    LET d == DirOf[r]
    IN /\ pc[r] \in {"fetch", "open", "write", "probe", "extract"} => frames[d] = {}
       /\ pc[r] = "write" => file[d] = [opener |-> r, whole |-> FALSE]
       /\ pc[r] \in {"probe", "extract"} => file[d] = [opener |-> r, whole |-> TRUE]
       /\ pc[r] = "ffmpeg" =>
              frames[d] \cup shot[r] = AllFrames(r) /\ frames[d] \cap shot[r] = {}
       /\ pc[r] \in {"list", "judge"} => frames[d] = AllFrames(r)

Done(r) ==
    /\ Looks(r) # <<>>
    /\ results[r] = Looks(r)
    /\ verdict[r] = Verdict(Looks(r))

Alone(r) ==
    /\ OwnFiles(r)
    /\ pc[r] \in {"extract", "ffmpeg", "list", "judge"} => Looks(r) # <<>>
    /\ pc[r] = "judge" => Judged(r)
    /\ pc[r] = "finalize" \/ outcome[r] = "classified" => Done(r)

AloneInv == \A r \in Runs \ met : Alone(r)

\* A verdict is the aggregate of the results it was made from.
Aggregated(r) == verdict[r] # NoVerdict => verdict[r] = Verdict(results[r])

IInv ==
    /\ AnalysisTypeOK
    /\ ShapeInv
    /\ MetInv
    /\ \A r \in Runs : Fresh(r) /\ Aggregated(r)
    /\ AloneInv
    /\ NothingLeftBehind

-----------------------------------------------------------------------------
(* What a step of one run leaves alone.                                    *)

OwnStep(r) ==
    /\ content' = content
    /\ \A x \in Runs \ {r} :
           /\ pc'[x] = pc[x]
           /\ shot'[x] = shot[x]
           /\ todo'[x] = todo[x]
           /\ results'[x] = results[x]
           /\ verdict'[x] = verdict[x]
           /\ outcome'[x] = outcome[x]
    /\ \A e \in Dirs \ {DirOf[r]} : file'[e] = file[e] /\ frames'[e] = frames[e]

(***************************************************************************)
(* A run that has its directory to itself is not disturbed by another one. *)
(***************************************************************************)
LEMMA OthersStayAlone ==
    ASSUME IInv, NEW r \in Runs, OwnStep(r), met \subseteq met',
           r \in Live \/ Neighbours(r) \subseteq met',
           NEW x \in Runs \ met', x # r
    PROVE  Alone(x)'
<1>1. Alone(x) /\ Fresh(x) /\ x \in Runs /\ DirOf[x] \in Dirs
  BY AnalysisAssumption DEF IInv, AloneInv
<1>2. /\ content' = content
      /\ pc'[x] = pc[x] /\ shot'[x] = shot[x] /\ todo'[x] = todo[x]
      /\ results'[x] = results[x] /\ verdict'[x] = verdict[x] /\ outcome'[x] = outcome[x]
  BY DEF OwnStep
<1>3. (Looks(x))' = Looks(x) /\ (AllFrames(x))' = AllFrames(x)
  BY <1>2 DEF Looks, AllFrames
<1>4. /\ (Judged(x))' = Judged(x)
      /\ (Done(x))' = Done(x)
  BY <1>2, <1>3 DEF Judged, Done
<1>5. (OwnFiles(x))'
  <2>1. CASE DirOf[x] # DirOf[r]
    <3>1. file'[DirOf[x]] = file[DirOf[x]] /\ frames'[DirOf[x]] = frames[DirOf[x]]
      BY <1>1, <2>1 DEF OwnStep
    <3> QED
      BY <1>1, <1>2, <1>3, <3>1 DEF OwnFiles, Alone
  <2>2. CASE DirOf[x] = DirOf[r]
    <3>1. x \notin Live
      BY <2>2 DEF IInv, MetInv, Neighbours
    <3>2. pc'[x] \in {"new", "ended", "littered", "crashed"}
      BY <1>1, <1>2, <3>1 DEF Live
    <3> QED
      BY <3>2 DEF OwnFiles
  <2> QED
    BY <2>1, <2>2
<1> QED
  BY <1>1, <1>2, <1>3, <1>4, <1>5 DEF Alone

(***************************************************************************)
(* What remains to be shown of a step of a run at work.                    *)
(***************************************************************************)
LEMMA OwnStepKeepsInv ==
    ASSUME IInv, NEW r \in Live, NEW label \in PcValues \ {"new"},
           pc' = [pc EXCEPT ![r] = label], met' = met,
           OwnStep(r), AnalysisTypeOK', ShapeInv',
           Fresh(r)', Aggregated(r)', r \notin met => Alone(r)',
           IF label = "ended" THEN there' = there \ {DirOf[r]}
                              ELSE there' \subseteq there \cup {DirOf[r]}
    PROVE  IInv'
<1>1. /\ r \in Runs /\ pc[r] \notin {"new", "ended", "littered", "crashed"}
      /\ pc'[r] = label
      /\ \A x \in Runs \ {r} : pc'[x] = pc[x]
  BY DEF Live, IInv, AnalysisTypeOK
<1>2. Live' \subseteq Live
  BY <1>1 DEF Live
<1>3. MetInv'
  BY <1>2 DEF IInv, MetInv
<1>4. \A x \in Runs : (Fresh(x))' /\ (Aggregated(x))'
  <2>1. SUFFICES ASSUME NEW x \in Runs \ {r}
                 PROVE  Fresh(x)' /\ Aggregated(x)'
    OBVIOUS
  <2>2. Fresh(x) /\ Aggregated(x)
    BY DEF IInv
  <2> QED
    BY <2>2 DEF OwnStep, Fresh, Aggregated
<1>5. AloneInv'
  <2>1. SUFFICES ASSUME NEW x \in Runs \ met'
                 PROVE  Alone(x)'
    BY DEF AloneInv
  <2> QED
    BY <1>1, OthersStayAlone
<1>6. NothingLeftBehind'
  <2>1. SUFFICES ASSUME NEW d \in there'
                 PROVE  \E x \in Runs : DirOf[x] = d /\ pc'[x] \notin {"new", "ended"}
    BY DEF NothingLeftBehind
  <2>2. CASE d = DirOf[r]
    <3>1. label # "ended"
      BY <2>2
    <3> QED
      BY <1>1, <2>2, <3>1
  <2>3. CASE d # DirOf[r]
    <3>1. d \in there
      BY <2>3
    <3>2. PICK x \in Runs : DirOf[x] = d /\ pc[x] \notin {"new", "ended"}
      BY <3>1 DEF IInv, NothingLeftBehind
    <3> QED
      BY <1>1, <2>3, <3>2
  <2> QED
    BY <2>2, <2>3
<1> QED
  BY <1>3, <1>4, <1>5, <1>6 DEF IInv

Raised == {"classified", "retry", "terminal"}

(***************************************************************************)
(* The jumps that the steps are made of.                                   *)
(***************************************************************************)
LEMMA JumpLabels ==
    /\ "new" \in PcValues
    /\ {"fetch", "open", "write", "probe", "extract", "ffmpeg", "list", "judge",
        "finalize", "cleanup", "ended", "littered", "crashed"} \subseteq PcValues \ {"new"}
  BY DEF PcValues

(***************************************************************************)
(* A step that succeeds goes to its next label and leaves the outcome.     *)
(***************************************************************************)
LEMMA GoEffect ==
    ASSUME IInv, NEW r \in Runs, NEW label \in PcValues, Go(r, label)
    PROVE  /\ pc' = [pc EXCEPT ![r] = label]
           /\ pc' \in [Runs -> PcValues]
           /\ pc'[r] = label
           /\ \A x \in Runs \ {r} : pc'[x] = pc[x]
           /\ outcome' = outcome
           /\ outcome' \in [Runs -> {"none", "classified", "retry", "terminal"}]
           /\ faults' \in 0..MaxFaults
  BY DEF IInv, AnalysisTypeOK, Go, Jump

(***************************************************************************)
(* A step that raises goes to the cleanup with its outcome.                *)
(***************************************************************************)
LEMMA RaiseEffect ==
    ASSUME IInv, NEW r \in Runs, NEW how \in Raised, Raise(r, how)
    PROVE  /\ pc' = [pc EXCEPT ![r] = "cleanup"]
           /\ pc' \in [Runs -> PcValues]
           /\ pc'[r] = "cleanup"
           /\ outcome'[r] = how
           /\ \A x \in Runs \ {r} : pc'[x] = pc[x] /\ outcome'[x] = outcome[x]
           /\ outcome' \in [Runs -> {"none", "classified", "retry", "terminal"}]
<1>1. pc \in [Runs -> PcValues] /\ "cleanup" \in PcValues
  BY JumpLabels DEF IInv, AnalysisTypeOK
<1>2. outcome \in [Runs -> {"none", "classified", "retry", "terminal"}]
  BY DEF IInv, AnalysisTypeOK
<1>3. how \in {"none", "classified", "retry", "terminal"}
  BY DEF Raised
<1>4. /\ pc' = [pc EXCEPT ![r] = "cleanup"]
      /\ outcome' = [outcome EXCEPT ![r] = how]
  BY DEF Raise, Jump
<1> QED
  BY <1>1, <1>2, <1>3, <1>4

(***************************************************************************)
(* A fault is counted within its bound.                                    *)
(***************************************************************************)
LEMMA FaultEffect ==
    ASSUME IInv, Fault
    PROVE  faults' \in 0..MaxFaults
<1>1. MaxFaults \in Nat /\ faults \in 0..MaxFaults
  BY AnalysisAssumption DEF IInv, AnalysisTypeOK
<1> QED
  BY <1>1 DEF Fault

(***************************************************************************)
(* The count of faults that does not change stays within its bound.        *)
(***************************************************************************)
LEMMA NoFaultEffect ==
    ASSUME IInv, faults' = faults
    PROVE  faults' \in 0..MaxFaults
  BY DEF IInv, AnalysisTypeOK

(***************************************************************************)
(* A step that fails leaves nothing to say of its run.                     *)
(***************************************************************************)
LEMMA RaiseKeepsOwn ==
    ASSUME IInv, NEW r \in Live, NEW how \in {"retry", "terminal"}, Raise(r, how),
           UNCHANGED <<results, verdict>>
    PROVE  Fresh(r)' /\ Aggregated(r)' /\ Alone(r)'
<1>1. r \in Runs /\ Fresh(r) /\ Aggregated(r) /\ how \in Raised
  BY DEF Live, IInv, Raised
<1>2. pc'[r] = "cleanup" /\ outcome'[r] = how
  BY <1>1, RaiseEffect
<1> QED
  BY <1>1, <1>2 DEF Fresh, Aggregated, Alone, OwnFiles

(***************************************************************************)
(* The shape of a directory and its files after they are removed, or some  *)
(* of them are.                                                            *)
(***************************************************************************)
LEMMA RemovalEffect ==
    ASSUME IInv, NEW d \in Dirs, RemoveFiles(d) \/ KeepSome(d), content' = content
    PROVE  /\ file' \in [Dirs -> Files]
           /\ frames' \in [Dirs -> FrameSets']
           /\ RemoveFiles(d) => frames'[d] = {}
           /\ \A e \in Dirs \ {d} : file'[e] = file[e] /\ frames'[e] = frames[e]
<1>1. file \in [Dirs -> Files] /\ frames \in [Dirs -> FrameSets] /\ FrameSets' = FrameSets
  BY DEF IInv, ShapeInv, FrameSets
<1>2. NoFile \in Files /\ {} \in FrameSets
  BY FS_EmptySet DEF Files, FrameSets
<1>3. CASE RemoveFiles(d)
  BY <1>1, <1>2, <1>3 DEF RemoveFiles
<1>4. CASE KeepSome(d) /\ ~RemoveFiles(d)
  <2>1. PICK kept \in SUBSET frames[d] : frames' = [frames EXCEPT ![d] = kept]
    BY <1>4 DEF KeepSome
  <2>2. frames[d] \in FrameSets
    BY <1>1
  <2>3. kept \in FrameSets
    BY <2>1, <2>2, FS_Subset DEF FrameSets
  <2>4. file' = file \/ file' = [file EXCEPT ![d] = NoFile]
    BY <1>4 DEF KeepSome
  <2> QED
    BY <1>1, <1>2, <1>4, <2>1, <2>3, <2>4
<1> QED
  BY <1>3, <1>4

(***************************************************************************)
(* The types, in the form in which the steps use them.                     *)
(***************************************************************************)
Typed ==
    /\ file \in [Dirs -> Files]
    /\ frames \in [Dirs -> FrameSets]
    /\ shot \in [Runs -> FrameSets]
    /\ there \subseteq Dirs
    /\ pc \in [Runs -> PcValues]
    /\ todo \in [Runs -> Seq(Nat)]
    /\ results \in [Runs -> Seq(Outputs)]
    /\ tries \in [Runs -> 0..GpuMaxAttempts]
    /\ verdict \in [Runs -> Verdicts]
    /\ outcome \in [Runs -> {"none", "classified", "retry", "terminal"}]
    /\ faults \in 0..MaxFaults

(***************************************************************************)
(* The invariant gives the types.                                          *)
(***************************************************************************)
LEMMA TypesOf ==
    ASSUME IInv
    PROVE  Typed
  BY DEF IInv, AnalysisTypeOK, ShapeInv, Typed

(***************************************************************************)
(* The types in this form are those of the invariant.                      *)
(***************************************************************************)
LEMMA TypesKept ==
    ASSUME IInv, Typed', content' = content, met' \subseteq Runs
    PROVE  AnalysisTypeOK' /\ ShapeInv'
<1>1. \A s \in Sources : content'[s] \in Contents[s]
  BY DEF IInv, AnalysisTypeOK
<1>2. ShapeInv'
  BY DEF Typed, ShapeInv
<1>3. FrameSets' \subseteq SUBSET Frames
  BY DEF FrameSets
<1>4. frames' \in [Dirs -> SUBSET Frames] /\ shot' \in [Runs -> SUBSET Frames]
  BY <1>3 DEF Typed
<1>5. \A d \in Dirs : file'[d] = NoFile \/ file'[d] \in [opener : Runs, whole : BOOLEAN]
  BY DEF Typed, Files
<1> QED
  BY <1>1, <1>2, <1>4, <1>5 DEF Typed, AnalysisTypeOK

(***************************************************************************)
(* What a frame file can show changes only with the sources.               *)
(***************************************************************************)
LEMMA FrameSetsKept ==
    ASSUME content' = content
    PROVE  FrameSets' = FrameSets
  BY DEF FrameSets

-----------------------------------------------------------------------------
(* The steps of a run.                                                     *)

(***************************************************************************)
(* prepare_job_dir: the directory is empty, unless the run has met some of *)
(* its files, and whoever works in it is met there.                        *)
(***************************************************************************)
LEMMA PreparedKeepsInv ==
    ASSUME IInv, NEW r \in Runs, pc[r] = "new", NEW label \in {"fetch", "littered"},
           Jump(r, label), RemoveFiles(DirOf[r]) \/ KeepSome(DirOf[r]),
           there' \subseteq there \cup {DirOf[r]},
           met' \in {Join(r), Join(r) \cup {r}},
           RemoveFiles(DirOf[r]) \/ r \in met', label = "fetch" \/ r \in met',
           outcome' = IF label = "fetch" THEN outcome
                      ELSE [outcome EXCEPT ![r] = "retry"],
           faults' \in 0..MaxFaults, UNCHANGED <<content, shot, judgeVars>>
    PROVE  IInv'
<1> DEFINE d == DirOf[r]
<1>1. d \in Dirs /\ label \in PcValues /\ content' = content /\ Typed
  BY AnalysisAssumption, JumpLabels, TypesOf
<1>2. /\ pc' \in [Runs -> PcValues]
      /\ pc'[r] = label
      /\ \A x \in Runs \ {r} : pc'[x] = pc[x] /\ outcome'[x] = outcome[x]
      /\ outcome' \in [Runs -> {"none", "classified", "retry", "terminal"}]
      /\ label = "fetch" => outcome' = outcome
  BY <1>1 DEF Jump, Typed
<1>3. /\ file' \in [Dirs -> Files]
      /\ frames' \in [Dirs -> FrameSets']
      /\ r \notin met' => frames'[d] = {}
      /\ \A e \in Dirs \ {d} : file'[e] = file[e] /\ frames'[e] = frames[e]
  BY <1>1, RemovalEffect
<1>4. met \subseteq met' /\ met' \subseteq Runs /\ Neighbours(r) \subseteq met'
      /\ (Neighbours(r) # {} => r \in met')
  BY DEF Join, IInv, AnalysisTypeOK, Neighbours, Live
<1>5. AnalysisTypeOK' /\ ShapeInv'
  <2>1. FrameSets' = FrameSets
    BY <1>1, FrameSetsKept
  <2>2. there' \subseteq Dirs
    BY <1>1 DEF Typed
  <2>3. Typed'
    BY <1>1, <1>2, <1>3, <2>1, <2>2 DEF Typed, judgeVars
  <2> QED
    BY <1>1, <1>4, <2>3, TypesKept
<1>6. OwnStep(r)
  BY <1>1, <1>2, <1>3 DEF OwnStep, judgeVars
<1>7. \A x \in Runs : (Fresh(x))' /\ (Aggregated(x))'
  <2>1. \A x \in Runs : Fresh(x) /\ Aggregated(x)
    BY DEF IInv
  <2>2. results' = results /\ verdict' = verdict
    BY DEF judgeVars
  <2> QED
    BY <1>2, <2>1, <2>2 DEF Fresh, Aggregated
<1>8. AloneInv'
  <2>1. SUFFICES ASSUME NEW x \in Runs \ met'
                 PROVE  Alone(x)'
    BY DEF AloneInv
  <2>2. CASE x = r
    <3>1. pc'[r] = "fetch" /\ outcome' = outcome
      BY <1>2, <2>1, <2>2
    <3>2. outcome'[r] = "none"
      BY <1>7, <3>1 DEF Fresh
    <3> QED
      BY <1>3, <2>1, <2>2, <3>1, <3>2 DEF Alone, OwnFiles
  <2>3. CASE x # r
    BY <1>4, <1>6, <2>3, OthersStayAlone
  <2> QED
    BY <2>2, <2>3
<1>9. MetInv'
  <2>1. SUFFICES ASSUME NEW x \in Runs, NEW y \in Runs, x \in Live', y \in Live',
                        x # y, DirOf[x] = DirOf[y]
                 PROVE  x \in met'
    BY DEF MetInv, Live
  <2>2. \A z \in Runs \ {r} : z \in Live' => z \in Live
    BY <1>2 DEF Live
  <2>3. CASE x # r /\ y # r
    BY <1>4, <2>1, <2>2, <2>3 DEF IInv, MetInv
  <2>4. CASE x = r
    BY <1>4, <2>1, <2>2, <2>4 DEF Neighbours
  <2>5. CASE y = r /\ x # r
    BY <1>4, <2>1, <2>2, <2>5 DEF Neighbours
  <2> QED
    BY <2>3, <2>4, <2>5
<1>10. NothingLeftBehind'
  <2>1. SUFFICES ASSUME NEW e \in there'
                 PROVE  \E x \in Runs : DirOf[x] = e /\ pc'[x] \notin {"new", "ended"}
    BY DEF NothingLeftBehind
  <2>2. CASE e = d
    BY <1>2, <2>2
  <2>3. CASE e # d
    <3>1. e \in there
      BY <2>3
    <3>2. PICK x \in Runs : DirOf[x] = e /\ pc[x] \notin {"new", "ended"}
      BY <3>1 DEF IInv, NothingLeftBehind
    <3> QED
      BY <1>2, <2>3, <3>2
  <2> QED
    BY <2>2, <2>3
<1> QED
  BY <1>5, <1>7, <1>8, <1>9, <1>10 DEF IInv

(***************************************************************************)
(* Its three ways: the directory is made anew, or some of the old one      *)
(* stays, or there is no directory to work in.                             *)
(***************************************************************************)
LEMMA PrepareKeepsInv ==
    ASSUME IInv, NEW r \in Runs, Prepare(r)
    PROVE  IInv'
<1> DEFINE d == DirOf[r]
<1>1. pc[r] = "new" /\ UNCHANGED <<content, shot, judgeVars>>
  BY DEF Prepare, At
<1>2. CASE /\ RemoveFiles(d)
           /\ there' = there \cup {d}
           /\ met' = Join(r)
           /\ Go(r, "fetch")
  BY <1>1, <1>2, NoFaultEffect, PreparedKeepsInv DEF Go
<1>3. CASE /\ Fault
           /\ KeepSome(d)
           /\ there' = there \cup {d}
           /\ met' = Join(r) \cup {r}
           /\ Jump(r, "fetch") /\ UNCHANGED outcome
  BY <1>1, <1>3, FaultEffect, PreparedKeepsInv
<1>4. CASE /\ Fault
           /\ \/ RemoveFiles(d) /\ there' = there \ {d}
              \/ KeepSome(d) /\ there' = there \cup {d}
           /\ met' = Join(r) \cup {r}
           /\ Jump(r, "littered")
           /\ outcome' = [outcome EXCEPT ![r] = "retry"]
  BY <1>1, <1>4, FaultEffect, PreparedKeepsInv
<1> QED
  BY <1>2, <1>3, <1>4 DEF Prepare

(***************************************************************************)
(* A step that raises, and changes nothing but its ffmpeg's frames.        *)
(***************************************************************************)
LEMMA RaisedKeepsInv ==
    ASSUME IInv, NEW r \in Live, NEW how \in {"retry", "terminal"}, Raise(r, how),
           UNCHANGED <<content, file, frames, results, verdict, met>>,
           there' \subseteq there \cup {DirOf[r]},
           shot' \in {shot, [shot EXCEPT ![r] = {}]},
           todo' = todo, tries' \in [Runs -> 0..GpuMaxAttempts],
           faults' \in 0..MaxFaults
    PROVE  IInv'
<1>1. r \in Runs /\ how \in Raised /\ DirOf[r] \in Dirs
  BY AnalysisAssumption DEF Live, Raised
<1>2. Typed /\ FrameSets' = FrameSets /\ met' \subseteq Runs
  BY TypesOf, FrameSetsKept DEF IInv, AnalysisTypeOK
<1>3. /\ pc' = [pc EXCEPT ![r] = "cleanup"]
      /\ pc' \in [Runs -> PcValues]
      /\ \A x \in Runs \ {r} : pc'[x] = pc[x] /\ outcome'[x] = outcome[x]
      /\ outcome' \in [Runs -> {"none", "classified", "retry", "terminal"}]
  BY <1>1, RaiseEffect
<1>4. shot' \in [Runs -> FrameSets] /\ \A x \in Runs \ {r} : shot'[x] = shot[x]
  <2>1. {} \in FrameSets
    BY FS_EmptySet DEF FrameSets
  <2> QED
    BY <1>1, <1>2, <2>1 DEF Typed
<1>5. Typed'
  BY <1>1, <1>2, <1>3, <1>4 DEF Typed
<1>6. AnalysisTypeOK' /\ ShapeInv'
  BY <1>2, <1>5, TypesKept
<1>7. OwnStep(r)
  BY <1>3, <1>4 DEF OwnStep
<1>8. Fresh(r)' /\ Aggregated(r)' /\ Alone(r)'
  BY RaiseKeepsOwn
<1>9. "cleanup" \in PcValues \ {"new"}
  BY JumpLabels
<1> QED
  BY <1>3, <1>6, <1>7, <1>8, <1>9, OwnStepKeepsInv

(***************************************************************************)
(* A request is sent, or not.                                              *)
(***************************************************************************)
LEMMA FetchKeepsInv ==
    ASSUME IInv, NEW r \in Runs, Fetch(r)
    PROVE  IInv'
<1> DEFINE d == DirOf[r]
<1>1. /\ d \in Dirs /\ pc[r] = "fetch" /\ r \in Live
      /\ UNCHANGED <<content, file, frames, shot, judgeVars, met>>
      /\ there' \subseteq there \cup {d}
  BY AnalysisAssumption DEF Fetch, At, Live
<1>2. Typed /\ Fresh(r) /\ Aggregated(r) /\ FrameSets' = FrameSets
      /\ (r \notin met => Alone(r)) /\ met' \subseteq Runs /\ there' \subseteq Dirs
  BY <1>1, TypesOf, FrameSetsKept DEF IInv, AloneInv, AnalysisTypeOK
<1>3. CASE Go(r, "open")
  <2>1. /\ "open" \in PcValues \ {"new"}
        /\ pc' = [pc EXCEPT ![r] = "open"] /\ pc' \in [Runs -> PcValues]
        /\ pc'[r] = "open" /\ \A x \in Runs \ {r} : pc'[x] = pc[x]
        /\ outcome' = outcome
        /\ faults' \in 0..MaxFaults
    BY <1>3, JumpLabels, GoEffect
  <2>2. Typed'
    BY <1>1, <1>2, <2>1 DEF Typed, judgeVars
  <2>3. AnalysisTypeOK' /\ ShapeInv'
    BY <1>1, <1>2, <2>2, TypesKept
  <2>4. OwnStep(r)
    BY <1>1, <2>1 DEF OwnStep, judgeVars
  <2>5. Fresh(r)' /\ Aggregated(r)'
    BY <1>1, <1>2, <2>1 DEF Fresh, Aggregated, judgeVars
  <2>6. r \notin met => Alone(r)'
    BY <1>1, <1>2, <2>1, <2>5 DEF Alone, OwnFiles, Fresh
  <2> QED
    BY <1>1, <2>1, <2>3, <2>4, <2>5, <2>6, OwnStepKeepsInv
<1>4. CASE RaiseOnFault(r, "retry")
  BY <1>1, <1>2, <1>4, FaultEffect, RaisedKeepsInv DEF Typed, judgeVars, RaiseOnFault
<1> QED
  BY <1>3, <1>4 DEF Fetch

(***************************************************************************)
(* The file of a run, opened and then written to its end, is its own.      *)
(***************************************************************************)
LEMMA OpenKeepsInv ==
    ASSUME IInv, NEW r \in Runs, Open(r)
    PROVE  IInv'
<1> DEFINE d == DirOf[r]
<1>1. /\ d \in Dirs /\ pc[r] = "open" /\ r \in Live
      /\ content' = content /\ met' = met /\ frames' = frames /\ shot' = shot
      /\ UNCHANGED judgeVars
      /\ there' = there
  BY AnalysisAssumption DEF Open, At, Live
<1>2. Typed /\ Fresh(r) /\ Aggregated(r) /\ FrameSets' = FrameSets
      /\ (r \notin met => Alone(r)) /\ met' \subseteq Runs
  BY <1>1, TypesOf, FrameSetsKept DEF IInv, AloneInv, AnalysisTypeOK
<1>3. CASE /\ Go(r, "write")
           /\ file' = [file EXCEPT ![d] = [opener |-> r, whole |-> FALSE]]
  <2>1. /\ "write" \in PcValues \ {"new"}
        /\ pc' = [pc EXCEPT ![r] = "write"] /\ pc' \in [Runs -> PcValues]
        /\ pc'[r] = "write" /\ \A x \in Runs \ {r} : pc'[x] = pc[x]
        /\ outcome' = outcome
        /\ faults' \in 0..MaxFaults
    BY <1>3, JumpLabels, GoEffect
  <2>2. /\ file' \in [Dirs -> Files]
        /\ file'[d] = [opener |-> r, whole |-> FALSE]
        /\ \A e \in Dirs \ {d} : file'[e] = file[e]
    <3>1. [opener |-> r, whole |-> FALSE] \in Files
      BY DEF Files
    <3> QED
      BY <1>1, <1>2, <1>3, <3>1 DEF Typed
  <2>3. Typed'
    BY <1>1, <1>2, <2>1, <2>2 DEF Typed, judgeVars
  <2>4. AnalysisTypeOK' /\ ShapeInv'
    BY <1>1, <1>2, <2>3, TypesKept
  <2>5. OwnStep(r)
    BY <1>1, <2>1, <2>2 DEF OwnStep, judgeVars
  <2>6. Fresh(r)' /\ Aggregated(r)'
    BY <1>1, <1>2, <2>1 DEF Fresh, Aggregated, judgeVars
  <2>7. r \notin met => Alone(r)'
    BY <1>1, <1>2, <2>1, <2>2, <2>6 DEF Alone, OwnFiles, Fresh
  <2> QED
    BY <1>1, <2>1, <2>4, <2>5, <2>6, <2>7, OwnStepKeepsInv
<1>4. CASE file' = file /\ \E how \in {"retry", "terminal"} : RaiseOnFault(r, how)
  <2>1. PICK how \in {"retry", "terminal"} : Fault /\ Raise(r, how)
    BY <1>4 DEF RaiseOnFault
  <2> QED
    BY <1>1, <1>2, <1>4, <2>1, FaultEffect, RaisedKeepsInv DEF Typed, judgeVars
<1>5. CASE Raise(r, "retry") /\ UNCHANGED <<file, faults>>
  BY <1>1, <1>2, <1>5, NoFaultEffect, RaisedKeepsInv DEF Typed, judgeVars
<1> QED
  BY <1>3, <1>4, <1>5 DEF Open

(***************************************************************************)
(* The body of the download, to its end or not.                            *)
(***************************************************************************)
LEMMA WrittenKeepsInv ==
    ASSUME IInv, NEW r \in Runs, Written(r)
    PROVE  IInv'
<1> DEFINE d == DirOf[r]
<1>1. /\ d \in Dirs /\ pc[r] = "write" /\ r \in Live
      /\ content' = content /\ met' = met /\ frames' = frames /\ shot' = shot
      /\ UNCHANGED judgeVars
      /\ there' = there
  BY AnalysisAssumption DEF Written, At, Live
<1>2. Typed /\ Fresh(r) /\ Aggregated(r) /\ FrameSets' = FrameSets
      /\ (r \notin met => Alone(r)) /\ met' \subseteq Runs
  BY <1>1, TypesOf, FrameSetsKept DEF IInv, AloneInv, AnalysisTypeOK
<1>3. CASE /\ Go(r, "probe")
           /\ file' = [file EXCEPT ![d].whole = @ \/ file[d].opener = r]
  <2>1. /\ "probe" \in PcValues \ {"new"}
        /\ pc' = [pc EXCEPT ![r] = "probe"] /\ pc' \in [Runs -> PcValues]
        /\ pc'[r] = "probe" /\ \A x \in Runs \ {r} : pc'[x] = pc[x]
        /\ outcome' = outcome
        /\ faults' \in 0..MaxFaults
    BY <1>3, JumpLabels, GoEffect
  <2> DEFINE whole == file[d].whole \/ file[d].opener = r
             new == [opener |-> file[d].opener, whole |-> whole]
  <2>2. file[d] = NoFile \/ file[d] \in [opener : Runs, whole : BOOLEAN]
    BY <1>1, <1>2 DEF Typed, Files
  <2>3. new \in Files
    <3>1. CASE file[d] = NoFile
      <4>1. file[d].opener # r /\ file[d].whole = FALSE /\ file[d].opener = Nobody
        BY <3>1, AnalysisAssumption DEF NoFile
      <4>2. whole = FALSE
        BY <4>1
      <4> QED
        BY <4>1, <4>2 DEF NoFile, Files
    <3>2. CASE file[d] \in [opener : Runs, whole : BOOLEAN]
      <4>1. whole \in BOOLEAN /\ file[d].opener \in Runs
        BY <3>2
      <4> QED
        BY <4>1 DEF Files
    <3> QED
      BY <2>2, <3>1, <3>2
  <2>4. /\ file' \in [Dirs -> Files]
        /\ \A e \in Dirs \ {d} : file'[e] = file[e]
        /\ file'[d] = new
    <3>1. file' = [file EXCEPT ![d].whole = whole]
      BY <1>3
    <3> HIDE DEF whole
    <3>2. [file[d] EXCEPT !.whole = whole] = new
      <4>1. CASE file[d] = NoFile
        BY <4>1 DEF NoFile
      <4>2. CASE file[d] \in [opener : Runs, whole : BOOLEAN]
        BY <4>2
      <4> QED
        BY <2>2, <4>1, <4>2
    <3>3. file' = [file EXCEPT ![d] = new]
      <4> HIDE DEF new
      <4> QED
        BY <3>1, <3>2
    <3> HIDE DEF new
    <3> QED
      BY <1>1, <1>2, <2>3, <3>3 DEF Typed
  <2>5. Typed'
    BY <1>1, <1>2, <2>1, <2>4 DEF Typed, judgeVars
  <2>6. AnalysisTypeOK' /\ ShapeInv'
    BY <1>1, <1>2, <2>5, TypesKept
  <2>7. OwnStep(r)
    BY <1>1, <2>1, <2>4 DEF OwnStep, judgeVars
  <2>8. Fresh(r)' /\ Aggregated(r)'
    BY <1>1, <1>2, <2>1 DEF Fresh, Aggregated, judgeVars
  <2>9. ASSUME r \notin met
        PROVE  Alone(r)'
    <3>1. frames[d] = {} /\ file[d] = [opener |-> r, whole |-> FALSE]
      BY <1>1, <1>2, <2>9 DEF Alone, OwnFiles
    <3>2. file'[d] = [opener |-> r, whole |-> TRUE]
      <4>1. whole = TRUE /\ file[d].opener = r
        BY <3>1
      <4> QED
        BY <2>4, <4>1
    <3> QED
      BY <1>1, <2>1, <2>8, <3>1, <3>2 DEF Alone, OwnFiles, Fresh
  <2> QED
    BY <1>1, <2>1, <2>6, <2>7, <2>8, <2>9, OwnStepKeepsInv
<1>4. CASE Raise(r, "terminal") /\ UNCHANGED <<file, faults>>
  BY <1>1, <1>2, <1>4, NoFaultEffect, RaisedKeepsInv DEF Typed, judgeVars
<1>5. CASE RaiseOnFault(r, "retry") /\ file' = file
  BY <1>1, <1>2, <1>5, FaultEffect, RaisedKeepsInv DEF Typed, judgeVars, RaiseOnFault
<1> QED
  BY <1>3, <1>4, <1>5 DEF Written

(***************************************************************************)
(* ffprobe lets only a file with a video stream pass, if it is whole.      *)
(***************************************************************************)
LEMMA ProbeKeepsInv ==
    ASSUME IInv, NEW r \in Runs, Probe(r)
    PROVE  IInv'
<1> DEFINE d == DirOf[r]
<1>1. /\ d \in Dirs /\ pc[r] = "probe" /\ r \in Live
      /\ content' = content /\ met' = met /\ frames' = frames /\ shot' = shot
      /\ file' = file /\ UNCHANGED judgeVars
      /\ there' = there
  BY AnalysisAssumption DEF Probe, At, Live, dirVars
<1>2. Typed /\ Fresh(r) /\ Aggregated(r) /\ FrameSets' = FrameSets
      /\ (r \notin met => Alone(r)) /\ met' \subseteq Runs
  BY <1>1, TypesOf, FrameSetsKept DEF IInv, AloneInv, AnalysisTypeOK
<1>3. CASE (file[d].whole => HasStream(d)) /\ Go(r, "extract")
  <2>1. /\ "extract" \in PcValues \ {"new"}
        /\ pc' = [pc EXCEPT ![r] = "extract"] /\ pc' \in [Runs -> PcValues]
        /\ pc'[r] = "extract" /\ \A x \in Runs \ {r} : pc'[x] = pc[x]
        /\ outcome' = outcome
        /\ faults' \in 0..MaxFaults
    BY <1>3, JumpLabels, GoEffect
  <2>2. Typed'
    BY <1>1, <1>2, <2>1 DEF Typed, judgeVars
  <2>3. AnalysisTypeOK' /\ ShapeInv'
    BY <1>1, <1>2, <2>2, TypesKept
  <2>4. OwnStep(r)
    BY <1>1, <2>1 DEF OwnStep, judgeVars
  <2>5. Fresh(r)' /\ Aggregated(r)'
    BY <1>1, <1>2, <2>1 DEF Fresh, Aggregated, judgeVars
  <2>6. ASSUME r \notin met
        PROVE  Alone(r)'
    <3>1. frames[d] = {} /\ file[d] = [opener |-> r, whole |-> TRUE]
      BY <1>1, <1>2, <2>6 DEF Alone, OwnFiles
    <3>2. Looks(r) # <<>> /\ (Looks(r))' = Looks(r)
      BY <1>1, <1>3, <3>1 DEF HasStream, Shown, Looks
    <3> QED
      BY <1>1, <2>1, <2>5, <3>1, <3>2 DEF Alone, OwnFiles, Fresh
  <2> QED
    BY <1>1, <2>1, <2>3, <2>4, <2>5, <2>6, OwnStepKeepsInv
<1>4. CASE Raise(r, "terminal") /\ faults' = faults
  BY <1>1, <1>2, <1>4, NoFaultEffect, RaisedKeepsInv DEF Typed, judgeVars
<1>5. ASSUME NEW how \in {"retry", "terminal"}, RaiseOnFault(r, how)
      PROVE  IInv'
  BY <1>1, <1>2, <1>5, FaultEffect, RaisedKeepsInv DEF Typed, judgeVars, RaiseOnFault
<1> QED
  BY <1>3, <1>4, <1>5 DEF Probe

(***************************************************************************)
(* What a source shows is a sequence of outputs.                           *)
(***************************************************************************)
LEMMA LooksType ==
    ASSUME IInv, NEW s \in Sources
    PROVE  /\ content[s].looks \in Seq(Outputs)
           /\ Len(content[s].looks) \in Nat
           /\ DOMAIN content[s].looks = 1..Len(content[s].looks)
           /\ content[s].looks # <<>> => content[s].kind = "video"
<1>1. content[s] \in Contents[s]
  BY DEF IInv, AnalysisTypeOK
<1>2. content[s].looks \in Seq(Outputs) /\ (content[s].kind = "video") = (content[s].looks # <<>>)
  BY <1>1, AnalysisAssumption
<1> QED
  BY <1>2, LenProperties

(***************************************************************************)
(* The frames of a second each are finitely many.                          *)
(***************************************************************************)
LEMMA FirstFrames ==
    ASSUME IInv, NEW s \in Sources, NEW n \in 0..Len(content[s].looks)
    PROVE  {<<k, s>> : k \in 1..n} \in FrameSets
<1> DEFINE F == {<<k, s>> : k \in 1..n}
<1>1. n \in Nat /\ n <= Len(content[s].looks)
      /\ DOMAIN content[s].looks = 1..Len(content[s].looks) /\ Len(content[s].looks) \in Nat
  BY LooksType
<1>2. F \in SUBSET ((1..n) \X {s}) /\ F \in SUBSET Frames
  BY <1>1 DEF Frames
<1>3. \A f \in F : f[1] \in DOMAIN content[f[2]].looks
  BY <1>1
<1>4. IsFiniteSet((1..n) \X {s})
  <2>1. 1 \in Int /\ n \in Int
    BY <1>1
  <2>2. IsFiniteSet(1..n) /\ IsFiniteSet({s})
    BY <2>1, FS_Interval, FS_Singleton
  <2> QED
    BY <2>2, FS_Product
<1> HIDE DEF F
<1>5. IsFiniteSet(F)
  BY <1>2, <1>4, FS_Subset
<1>6. F \in FrameSets
  BY <1>2, <1>3, <1>5 DEF FrameSets
<1> QED
  BY <1>6 DEF F

(***************************************************************************)
(* ffmpeg is to write one frame per second of a whole file.                *)
(***************************************************************************)
LEMMA ExtractKeepsInv ==
    ASSUME IInv, NEW r \in Runs, Extract(r)
    PROVE  IInv'
<1> DEFINE d == DirOf[r]
           s == SourceOf[file[d].opener]
<1>1. /\ d \in Dirs /\ pc[r] = "extract" /\ r \in Live
      /\ content' = content /\ met' = met /\ frames' = frames
      /\ file' = file /\ UNCHANGED judgeVars
      /\ there' \subseteq there \cup {d}
  BY AnalysisAssumption DEF Extract, At, Live
<1>2. Typed /\ Fresh(r) /\ Aggregated(r) /\ FrameSets' = FrameSets
      /\ (r \notin met => Alone(r)) /\ met' \subseteq Runs /\ there' \subseteq Dirs
  BY <1>1, TypesOf, FrameSetsKept DEF IInv, AloneInv, AnalysisTypeOK
<1>3. ASSUME file[d] # NoFile, NEW n \in 0..Len(Shown(d)),
             file[d].whole => n = Len(Shown(d)),
             shot' = [shot EXCEPT ![r] = {<<k, s>> : k \in 1..n}],
             Go(r, "ffmpeg")
      PROVE  IInv'
  <2>1. /\ "ffmpeg" \in PcValues \ {"new"}
        /\ pc' = [pc EXCEPT ![r] = "ffmpeg"] /\ pc' \in [Runs -> PcValues]
        /\ pc'[r] = "ffmpeg" /\ \A x \in Runs \ {r} : pc'[x] = pc[x]
        /\ outcome' = outcome
        /\ faults' \in 0..MaxFaults
    BY <1>3, JumpLabels, GoEffect
  <2>2. s \in Sources
    BY <1>1, <1>2, <1>3, AnalysisAssumption DEF Typed, Files
  <2>3. {<<k, s>> : k \in 1..n} \in FrameSets
    BY <1>3, <2>2, FirstFrames DEF Shown
  <2>4. /\ shot' \in [Runs -> FrameSets]
        /\ shot'[r] = {<<k, s>> : k \in 1..n}
        /\ \A x \in Runs \ {r} : shot'[x] = shot[x]
    BY <1>2, <1>3, <2>3 DEF Typed
  <2>5. Typed'
    BY <1>1, <1>2, <2>1, <2>4 DEF Typed, judgeVars
  <2>6. AnalysisTypeOK' /\ ShapeInv'
    BY <1>1, <1>2, <2>5, TypesKept
  <2>7. OwnStep(r)
    BY <1>1, <2>1, <2>4 DEF OwnStep, judgeVars
  <2>8. Fresh(r)' /\ Aggregated(r)'
    BY <1>1, <1>2, <2>1 DEF Fresh, Aggregated, judgeVars
  <2>9. ASSUME r \notin met
        PROVE  Alone(r)'
    <3>1. frames[d] = {} /\ file[d] = [opener |-> r, whole |-> TRUE] /\ Looks(r) # <<>>
      BY <1>1, <1>2, <2>9 DEF Alone, OwnFiles
    <3>2. s = SourceOf[r] /\ Shown(d) = Looks(r) /\ n = Len(Looks(r))
      BY <1>3, <3>1 DEF Shown, Looks
    <3>3. (Looks(r))' = Looks(r) /\ (AllFrames(r))' = AllFrames(r)
      BY <1>1 DEF Looks, AllFrames
    <3>4. shot'[r] = AllFrames(r)
      BY <2>4, <3>2 DEF AllFrames
    <3> QED
      BY <1>1, <2>1, <2>8, <3>1, <3>3, <3>4 DEF Alone, OwnFiles, Fresh
  <2> QED
    BY <1>1, <2>1, <2>6, <2>7, <2>8, <2>9, OwnStepKeepsInv
<1>4. CASE Raise(r, "terminal") /\ UNCHANGED <<shot, faults>>
  BY <1>1, <1>2, <1>4, NoFaultEffect, RaisedKeepsInv DEF Typed, judgeVars
<1>5. CASE RaiseOnFault(r, "retry") /\ shot' = shot
  BY <1>1, <1>2, <1>5, FaultEffect, RaisedKeepsInv DEF Typed, judgeVars, RaiseOnFault
<1> QED
  BY <1>3, <1>4, <1>5 DEF Extract

(***************************************************************************)
(* The frame that ffmpeg writes next: one with the least number.           *)
(***************************************************************************)
LEMMA NextFrameExists ==
    ASSUME NEW F \in SUBSET Frames, F # {}
    PROVE  \E f \in F : \A g \in F : f[1] <= g[1]
<1> DEFINE T == {f[1] : f \in F}
<1>1. T \subseteq Nat /\ T # {}
  BY DEF Frames
<1>2. PICK m \in T : \A n \in T : <<n, m>> \notin OpToRel(<, Nat)
  <2> HIDE DEF T
  <2> QED
    BY <1>1, NatLessThanWellFounded, WFMin, Zenon
<1>3. \A n \in T : ~(n < m)
  <2> HIDE DEF T
  <2>1. \A n \in T : n \in Nat
    BY <1>1
  <2> QED
    BY <1>2, <2>1, Zenon DEF OpToRel
<1>4. \A n \in T : m <= n
  <2> HIDE DEF T
  <2> QED
    BY <1>1, <1>3
<1> QED
  BY <1>4

(***************************************************************************)
(* A frame written over what is there leaves finitely many frames.         *)
(***************************************************************************)
LEMMA FrameWritten ==
    ASSUME NEW F \in FrameSets, NEW G \in FrameSets, NEW next \in G
    PROVE  /\ {f \in F : f[1] # next[1]} \cup {next} \in FrameSets
           /\ G \ {next} \in FrameSets
<1> DEFINE kept == {f \in F : f[1] # next[1]}
           rest == G \ {next}
<1>1. kept \in SUBSET F /\ IsFiniteSet(F) /\ rest \in SUBSET G /\ IsFiniteSet(G)
  BY DEF FrameSets
<1>2. next \in Frames /\ next[1] \in DOMAIN content[next[2]].looks
  BY DEF FrameSets
<1> HIDE DEF kept, rest
<1>3. IsFiniteSet(kept) /\ IsFiniteSet(rest)
  BY <1>1, FS_Subset
<1>4. IsFiniteSet(kept \cup {next})
  BY <1>3, FS_AddElement
<1>5. kept \cup {next} \in FrameSets
  BY <1>1, <1>2, <1>4 DEF FrameSets
<1>6. rest \in FrameSets
  BY <1>1, <1>3 DEF FrameSets
<1> QED
  BY <1>5, <1>6 DEF kept, rest

(***************************************************************************)
(* ffmpeg, frame after frame: what is written and what is yet to be        *)
(* written make up the video.                                              *)
(***************************************************************************)
LEMMA FfmpegKeepsInv ==
    ASSUME IInv, NEW r \in Runs, Ffmpeg(r)
    PROVE  IInv'
<1> DEFINE d == DirOf[r]
           next == CHOOSE f \in shot[r] : \A g \in shot[r] : f[1] <= g[1]
<1>1. /\ d \in Dirs /\ pc[r] = "ffmpeg" /\ r \in Live
      /\ content' = content /\ met' = met /\ there' = there
      /\ file' = file /\ UNCHANGED judgeVars
  BY AnalysisAssumption DEF Ffmpeg, At, Live
<1>2. Typed /\ Fresh(r) /\ Aggregated(r) /\ FrameSets' = FrameSets
      /\ (r \notin met => Alone(r)) /\ met' \subseteq Runs
  BY <1>1, TypesOf, FrameSetsKept DEF IInv, AloneInv, AnalysisTypeOK
<1>3. (Looks(r))' = Looks(r) /\ (AllFrames(r))' = AllFrames(r)
  BY <1>1 DEF Looks, AllFrames
<1>4. CASE /\ shot[r] # {}
           /\ frames' = [frames EXCEPT ![d] = {f \in @ : f[1] # next[1]} \cup {next}]
           /\ shot' = [shot EXCEPT ![r] = @ \ {next}]
           /\ Go(r, "ffmpeg")
  <2>1. /\ "ffmpeg" \in PcValues \ {"new"}
        /\ pc' = [pc EXCEPT ![r] = "ffmpeg"] /\ pc' \in [Runs -> PcValues]
        /\ pc'[r] = "ffmpeg" /\ \A x \in Runs \ {r} : pc'[x] = pc[x]
        /\ outcome' = outcome
        /\ faults' \in 0..MaxFaults
    BY <1>4, JumpLabels, GoEffect
  <2>2. next \in shot[r]
    <3>1. shot[r] \in SUBSET Frames
      BY <1>2 DEF Typed, FrameSets
    <3>2. \E f \in shot[r] : \A g \in shot[r] : f[1] <= g[1]
      BY <1>4, <3>1, NextFrameExists
    <3> QED
      BY <3>2
  <2> HIDE DEF next
  <2>3. /\ {f \in frames[d] : f[1] # next[1]} \cup {next} \in FrameSets
        /\ shot[r] \ {next} \in FrameSets
    <3>1. frames[d] \in FrameSets /\ shot[r] \in FrameSets
      BY <1>1, <1>2 DEF Typed
    <3> QED
      BY <2>2, <3>1, FrameWritten
  <2>4. /\ frames' \in [Dirs -> FrameSets]
        /\ frames'[d] = {f \in frames[d] : f[1] # next[1]} \cup {next}
        /\ \A e \in Dirs \ {d} : frames'[e] = frames[e]
    BY <1>1, <1>2, <1>4, <2>3 DEF Typed
  <2>5. /\ shot' \in [Runs -> FrameSets]
        /\ shot'[r] = shot[r] \ {next}
        /\ \A x \in Runs \ {r} : shot'[x] = shot[x]
    BY <1>2, <1>4, <2>3 DEF Typed
  <2>6. Typed'
    BY <1>1, <1>2, <2>1, <2>4, <2>5 DEF Typed, judgeVars
  <2>7. AnalysisTypeOK' /\ ShapeInv'
    BY <1>1, <1>2, <2>6, TypesKept
  <2>8. OwnStep(r)
    BY <1>1, <2>1, <2>4, <2>5 DEF OwnStep, judgeVars
  <2>9. Fresh(r)' /\ Aggregated(r)'
    BY <1>1, <1>2, <2>1 DEF Fresh, Aggregated, judgeVars
  <2>10. ASSUME r \notin met
         PROVE  Alone(r)'
    <3>1. /\ frames[d] \cup shot[r] = AllFrames(r) /\ frames[d] \cap shot[r] = {}
          /\ Looks(r) # <<>>
      BY <1>1, <1>2, <2>10 DEF Alone, OwnFiles
    <3>2. \A f \in frames[d] : f[1] # next[1]
      <4>1. SUFFICES ASSUME NEW f \in frames[d], f[1] = next[1]
                     PROVE  FALSE
        OBVIOUS
      <4>2. f \in AllFrames(r) /\ next \in AllFrames(r)
        BY <2>2, <3>1
      <4>3. f = next
        BY <4>1, <4>2 DEF AllFrames
      <4> QED
        BY <2>2, <3>1, <4>3
    <3>3. frames'[d] = frames[d] \cup {next}
      BY <2>4, <3>2
    <3>4. frames'[d] \cup shot'[r] = AllFrames(r) /\ frames'[d] \cap shot'[r] = {}
      BY <2>2, <2>5, <3>1, <3>3
    <3> QED
      BY <1>1, <1>3, <2>1, <2>9, <3>1, <3>4 DEF Alone, OwnFiles, Fresh
  <2> QED
    BY <1>1, <2>1, <2>7, <2>8, <2>9, <2>10, OwnStepKeepsInv
<1>5. CASE shot[r] = {} /\ Go(r, "list") /\ UNCHANGED <<frames, shot>>
  <2>1. /\ "list" \in PcValues \ {"new"}
        /\ pc' = [pc EXCEPT ![r] = "list"] /\ pc' \in [Runs -> PcValues]
        /\ pc'[r] = "list" /\ \A x \in Runs \ {r} : pc'[x] = pc[x]
        /\ outcome' = outcome
        /\ faults' \in 0..MaxFaults
    BY <1>5, JumpLabels, GoEffect
  <2>2. Typed'
    BY <1>1, <1>2, <1>5, <2>1 DEF Typed, judgeVars
  <2>3. AnalysisTypeOK' /\ ShapeInv'
    BY <1>1, <1>2, <2>2, TypesKept
  <2>4. OwnStep(r)
    BY <1>1, <1>5, <2>1 DEF OwnStep, judgeVars
  <2>5. Fresh(r)' /\ Aggregated(r)'
    BY <1>1, <1>2, <2>1 DEF Fresh, Aggregated, judgeVars
  <2>6. ASSUME r \notin met
        PROVE  Alone(r)'
    <3>1. frames[d] = AllFrames(r) /\ Looks(r) # <<>>
      BY <1>1, <1>2, <1>5, <2>6 DEF Alone, OwnFiles
    <3> QED
      BY <1>1, <1>3, <1>5, <2>1, <2>5, <3>1 DEF Alone, OwnFiles, Fresh
  <2> QED
    BY <1>1, <2>1, <2>3, <2>4, <2>5, <2>6, OwnStepKeepsInv
<1>6. CASE /\ Raise(r, "terminal")
           /\ shot' = [shot EXCEPT ![r] = {}]
           /\ UNCHANGED <<frames, faults>>
  BY <1>1, <1>2, <1>6, NoFaultEffect, RaisedKeepsInv DEF Typed, judgeVars
<1>7. CASE /\ RaiseOnFault(r, "terminal")
           /\ shot' = [shot EXCEPT ![r] = {}]
           /\ frames' = frames
  BY <1>1, <1>2, <1>7, FaultEffect, RaisedKeepsInv DEF Typed, judgeVars, RaiseOnFault
<1> QED
  BY <1>4, <1>5, <1>6, <1>7 DEF Ffmpeg

(***************************************************************************)
(* The frame files are listed in the order of their numbers: those of the  *)
(* whole video, for a run that is alone.                                   *)
(***************************************************************************)
LEMMA FoundFrames ==
    ASSUME NEW F \in FrameSets
    PROVE  {f[1] : f \in F} \in SUBSET Nat /\ IsFiniteSet({f[1] : f \in F})
<1> DEFINE T == {f[1] : f \in F}
           g == [f \in F |-> f[1]]
<1>1. F \in SUBSET Frames /\ IsFiniteSet(F)
  BY DEF FrameSets
<1>2. T \in SUBSET Nat
  BY <1>1 DEF Frames
<1>3. g \in Surjection(F, T)
  BY DEF Surjection
<1>4. IsFiniteSet(T)
  <2> HIDE DEF g, T
  <2> QED
    BY <1>1, <1>3, FS_Surjection
<1> QED
  BY <1>2, <1>4

(***************************************************************************)
(* The end of extract_frames: the frames to judge.                         *)
(***************************************************************************)
LEMMA ListKeepsInv ==
    ASSUME IInv, NEW r \in Runs, List(r)
    PROVE  IInv'
<1> DEFINE d == DirOf[r]
           found == {f[1] : f \in frames[d]}
<1>1. /\ d \in Dirs /\ pc[r] = "list" /\ r \in Live
      /\ content' = content /\ met' = met /\ there' = there
      /\ file' = file /\ frames' = frames /\ shot' = shot
      /\ UNCHANGED <<results, tries, verdict>>
  BY AnalysisAssumption DEF List, At, Live, dirVars
<1>2. Typed /\ Fresh(r) /\ Aggregated(r) /\ FrameSets' = FrameSets
      /\ (r \notin met => Alone(r)) /\ met' \subseteq Runs
  BY <1>1, TypesOf, FrameSetsKept DEF IInv, AloneInv, AnalysisTypeOK
<1>3. CASE todo' = [todo EXCEPT ![r] = Sorted(found)] /\ Go(r, "judge")
  <2>1. /\ "judge" \in PcValues \ {"new"}
        /\ pc' = [pc EXCEPT ![r] = "judge"] /\ pc' \in [Runs -> PcValues]
        /\ pc'[r] = "judge" /\ \A x \in Runs \ {r} : pc'[x] = pc[x]
        /\ outcome' = outcome
        /\ faults' \in 0..MaxFaults
    BY <1>3, JumpLabels, GoEffect
  <2>2. found \in SUBSET Nat /\ IsFiniteSet(found)
    <3>1. frames[d] \in FrameSets
      BY <1>1, <1>2 DEF Typed
    <3> QED
      BY <3>1, FoundFrames
  <2>3. Sorted(found) \in Seq(Nat)
    <3> HIDE DEF found
    <3> QED
      BY <2>2, SortedType
  <2>4. /\ todo' \in [Runs -> Seq(Nat)]
        /\ todo'[r] = Sorted(found)
        /\ \A x \in Runs \ {r} : todo'[x] = todo[x]
    <3> HIDE DEF found
    <3> QED
      BY <1>2, <1>3, <2>3 DEF Typed
  <2>5. Typed'
    BY <1>1, <1>2, <2>1, <2>4 DEF Typed
  <2>6. AnalysisTypeOK' /\ ShapeInv'
    BY <1>1, <1>2, <2>5, TypesKept
  <2>7. OwnStep(r)
    BY <1>1, <2>1, <2>4 DEF OwnStep
  <2>8. Fresh(r)' /\ Aggregated(r)'
    BY <1>1, <1>2, <2>1 DEF Fresh, Aggregated
  <2>9. ASSUME r \notin met
        PROVE  Alone(r)'
    <3> DEFINE n == Len(Looks(r))
    <3>1. frames[d] = AllFrames(r) /\ Looks(r) # <<>> /\ results[r] = <<>>
      BY <1>1, <1>2, <2>9 DEF Alone, OwnFiles, Fresh
    <3>2. n \in Nat
      BY AnalysisAssumption, LooksType DEF Looks
    <3>3. found = 1..n
      <4>1. frames[d] = {<<k, SourceOf[r]>> : k \in 1..n}
        BY <3>1 DEF AllFrames
      <4> HIDE DEF n
      <4>2. \A f \in frames[d] : f[1] \in 1..n
        BY <4>1
      <4>3. ASSUME NEW k \in 1..n
            PROVE  k \in found
        <5>1. <<k, SourceOf[r]>> \in frames[d] /\ <<k, SourceOf[r]>>[1] = k
          BY <4>1
        <5> QED
          BY <5>1
      <4> QED
        BY <4>2, <4>3
    <3>4. todo'[r] = [i \in 1..n |-> i]
      <4> HIDE DEF n, found
      <4> QED
        BY <2>4, <3>2, <3>3, SortedInterval
    <3>5. Len(todo'[r]) = n /\ \A i \in 1..n : todo'[r][i] = i
      <4> HIDE DEF n
      <4>1. todo'[r] \in Seq(Nat) /\ DOMAIN todo'[r] = 1..n
        BY <2>4, <3>4
      <4>2. DOMAIN todo'[r] = 1..Len(todo'[r]) /\ Len(todo'[r]) \in Nat
        BY <4>1, LenProperties
      <4> QED
        BY <3>2, <3>4, <4>1, <4>2
    <3>6. (Looks(r))' = Looks(r) /\ (AllFrames(r))' = AllFrames(r)
      BY <1>1 DEF Looks, AllFrames
    <3>7. results'[r] = <<>> /\ Len(<<>>) = 0
      BY <1>1, <3>1
    <3>8. (Judged(r))'
      <4> HIDE DEF n
      <4>1. Len(Looks(r))' = n
        BY <3>6 DEF n
      <4> QED
        BY <3>2, <3>5, <3>7, <4>1 DEF Judged
    <3> QED
      BY <1>1, <2>1, <2>8, <3>1, <3>6, <3>8 DEF Alone, OwnFiles, Fresh
  <2> QED
    BY <1>1, <2>1, <2>6, <2>7, <2>8, <2>9, OwnStepKeepsInv
<1>4. CASE Raise(r, "terminal") /\ UNCHANGED <<todo, faults>>
  BY <1>1, <1>2, <1>4, NoFaultEffect, RaisedKeepsInv DEF Typed
<1> QED
  BY <1>3, <1>4 DEF List

(***************************************************************************)
(* A batch is the start of what is left; the rest follows it.              *)
(***************************************************************************)
LEMMA BatchFacts ==
    ASSUME NEW left \in Seq(Nat)
    PROVE  /\ Batch(left) \in Seq(Nat)
           /\ Len(Batch(left)) \in 0..Len(left)
           /\ DOMAIN Batch(left) = 1..Len(Batch(left))
           /\ \A i \in 1..Len(Batch(left)) : Batch(left)[i] = left[i]
           /\ Batch(left) = <<>> => left = <<>>
<1> DEFINE k == IF Len(left) < FrameBatchSize THEN Len(left) ELSE FrameBatchSize
<1>1. FrameBatchSize \in Nat \ {0}
  BY AnalysisAssumption
<1>2. Len(left) \in Nat /\ DOMAIN left = 1..Len(left)
  BY LenProperties
<1>3. k \in 0..Len(left) /\ 1 \in Int /\ k \in Int /\ (k = 0 => Len(left) = 0)
  BY <1>1, <1>2
<1>4. Batch(left) = SubSeq(left, 1, k)
  BY DEF Batch
<1> HIDE DEF k
<1>5. \A i \in 1..k : left[i] \in Nat
  BY <1>2, <1>3
<1>6. /\ SubSeq(left, 1, k) \in Seq(Nat)
      /\ Len(SubSeq(left, 1, k)) = IF 1 <= k THEN k - 1 + 1 ELSE 0
      /\ \A i \in 1..(k - 1 + 1) : SubSeq(left, 1, k)[i] = left[1 + i - 1]
  BY <1>3, <1>5, SubSeqProperties
<1>7. Len(Batch(left)) = k /\ Batch(left) \in Seq(Nat)
  BY <1>2, <1>3, <1>4, <1>6
<1>8. \A i \in 1..k : Batch(left)[i] = left[i]
  <2>1. SUFFICES ASSUME NEW i \in 1..k
                 PROVE  Batch(left)[i] = left[i]
    OBVIOUS
  <2>2. k - 1 + 1 = k /\ 1 + i - 1 = i
    BY <1>3
  <2> QED
    BY <1>4, <1>6, <2>2
<1>9. Batch(left) = <<>> => left = <<>>
  <2>1. Batch(left) = <<>> => Len(left) = 0
    BY <1>3, <1>7, EmptySeq
  <2> QED
    BY <2>1, EmptySeq
<1> QED
  BY <1>3, <1>7, <1>8, <1>9, LenProperties

(***************************************************************************)
(* What is left after a batch.                                             *)
(***************************************************************************)
LEMMA RestFacts ==
    ASSUME NEW left \in Seq(Nat), NEW k \in 0..Len(left)
    PROVE  /\ SubSeq(left, k + 1, Len(left)) \in Seq(Nat)
           /\ Len(SubSeq(left, k + 1, Len(left))) = Len(left) - k
           /\ \A i \in 1..(Len(left) - k) :
                  SubSeq(left, k + 1, Len(left))[i] = left[k + i]
<1> DEFINE n == Len(left)
           rest == SubSeq(left, k + 1, n)
<1>1. n \in Nat /\ DOMAIN left = 1..n /\ k + 1 \in Int /\ n \in Int
  BY LenProperties
<1>2. \A i \in (k + 1)..n : left[i] \in Nat
  BY <1>1
<1>3. /\ rest \in Seq(Nat)
      /\ Len(rest) = IF k + 1 <= n THEN n - (k + 1) + 1 ELSE 0
      /\ \A i \in 1..(n - (k + 1) + 1) : rest[i] = left[(k + 1) + i - 1]
  <2> HIDE DEF n
  <2> QED
    BY <1>1, <1>2, SubSeqProperties
<1> HIDE DEF n, rest
<1>4. Len(rest) = n - k /\ n - (k + 1) + 1 = n - k
  BY <1>1, <1>3
<1>5. \A i \in 1..(n - k) : rest[i] = left[k + i]
  <2>1. SUFFICES ASSUME NEW i \in 1..(n - k)
                 PROVE  rest[i] = left[k + i]
    OBVIOUS
  <2>2. (k + 1) + i - 1 = k + i
    BY <1>1
  <2> QED
    BY <1>3, <1>4, <2>2
<1> QED
  BY <1>3, <1>4, <1>5 DEF n, rest

(***************************************************************************)
(* What the model sees of a batch whose files are all there.               *)
(***************************************************************************)
LEMMA SeesFacts ==
    ASSUME IInv, NEW r \in Runs, NEW batch \in Seq(Nat),
           \A i \in DOMAIN batch : FrameFile(r, batch[i]) # {}
    PROVE  /\ Sees(r, batch) \in Seq(Outputs)
           /\ Len(Sees(r, batch)) = Len(batch)
           /\ DOMAIN Sees(r, batch) = 1..Len(batch)
           /\ frames[DirOf[r]] = AllFrames(r) =>
                  \A i \in 1..Len(batch) : Sees(r, batch)[i] = Looks(r)[batch[i]]
<1> DEFINE d == DirOf[r]
           n == Len(batch)
           of(i) == (CHOOSE f \in FrameFile(r, batch[i]) : TRUE)
<1>1. d \in Dirs /\ frames[d] \in FrameSets
  BY AnalysisAssumption, TypesOf DEF Typed
<1>2. n \in Nat /\ DOMAIN batch = 1..n
  BY LenProperties
<1>3. \A i \in 1..n : of(i) \in frames[d] /\ of(i)[1] = batch[i]
  BY <1>2 DEF FrameFile
<1>4. Sees(r, batch) = [i \in 1..n |-> content[of(i)[2]].looks[batch[i]]]
  BY <1>2 DEF Sees
<1> HIDE DEF of, n
<1>5. \A i \in 1..n : content[of(i)[2]].looks[batch[i]] \in Outputs
  <2>1. SUFFICES ASSUME NEW i \in 1..n
                 PROVE  content[of(i)[2]].looks[batch[i]] \in Outputs
    OBVIOUS
  <2>2. of(i) \in Frames /\ of(i)[1] \in DOMAIN content[of(i)[2]].looks
    BY <1>1, <1>3 DEF FrameSets
  <2>3. of(i)[2] \in Sources
    BY <2>2 DEF Frames
  <2>4. content[of(i)[2]].looks \in Seq(Outputs)
    BY <2>3, LooksType
  <2> QED
    BY <1>3, <2>2, <2>4
<1>6. Sees(r, batch) \in [1..n -> Outputs]
  BY <1>4, <1>5
<1>7. Sees(r, batch) \in Seq(Outputs) /\ DOMAIN Sees(r, batch) = 1..n
  BY <1>2, <1>6, SeqDef
<1>8. Len(Sees(r, batch)) = n
  BY <1>2, <1>7, LenProperties
<1>9. ASSUME frames[d] = AllFrames(r), NEW i \in 1..n
      PROVE  Sees(r, batch)[i] = Looks(r)[batch[i]]
  <2>1. of(i)[2] = SourceOf[r]
    BY <1>3, <1>9 DEF AllFrames
  <2> QED
    BY <1>4, <2>1 DEF Looks
<1> QED
  BY <1>7, <1>8, <1>9 DEF n

(***************************************************************************)
(* An attempt that fails changes no result.                                *)
(***************************************************************************)
LEMMA AttemptFailsKeepsInv ==
    ASSUME IInv, NEW r \in Runs, pc[r] = "judge", AttemptFails(r),
           UNCHANGED <<content, dirVars, shot, todo, results, verdict, met>>,
           faults' \in 0..MaxFaults
    PROVE  IInv'
<1>1. Typed /\ Fresh(r) /\ Aggregated(r) /\ FrameSets' = FrameSets /\ r \in Live
      /\ (r \notin met => Alone(r)) /\ met' \subseteq Runs
  BY TypesOf, FrameSetsKept DEF IInv, AloneInv, AnalysisTypeOK, Live
<1>2. GpuMaxAttempts \in Nat \ {0} /\ tries[r] \in 0..GpuMaxAttempts
  BY <1>1, AnalysisAssumption DEF Typed
<1>3. CASE /\ tries[r] + 1 < GpuMaxAttempts
           /\ tries' = [tries EXCEPT ![r] = @ + 1]
           /\ UNCHANGED <<pc, outcome>>
  <2>1. tries[r] + 1 \in 0..GpuMaxAttempts
    BY <1>2, <1>3
  <2>2. tries' \in [Runs -> 0..GpuMaxAttempts]
    BY <1>1, <1>3, <2>1 DEF Typed
  <2>3. Typed'
    BY <1>1, <1>3, <2>2 DEF Typed, dirVars
  <2>4. AnalysisTypeOK' /\ ShapeInv'
    BY <1>1, <2>3, TypesKept
  <2>5. OwnStep(r)
    BY <1>3 DEF OwnStep, dirVars
  <2>6. Fresh(r)' /\ Aggregated(r)'
    BY <1>1, <1>3 DEF Fresh, Aggregated
  <2>7. r \notin met => Alone(r)'
    BY <1>1, <1>3 DEF Alone, OwnFiles, Looks, AllFrames, Judged, Done, dirVars
  <2>8. "judge" \in PcValues \ {"new"} /\ pc' = [pc EXCEPT ![r] = "judge"]
    BY <1>1, <1>3, JumpLabels DEF Typed
  <2> QED
    BY <1>1, <2>4, <2>5, <2>6, <2>7, <2>8, OwnStepKeepsInv DEF dirVars
<1>4. CASE tries' = [tries EXCEPT ![r] = 0] /\ Raise(r, "retry")
  <2>1. tries' \in [Runs -> 0..GpuMaxAttempts]
    BY <1>1, <1>2, <1>4 DEF Typed
  <2> QED
    BY <1>1, <1>4, <2>1, RaisedKeepsInv DEF dirVars
<1> QED
  BY <1>3, <1>4 DEF AttemptFails

(***************************************************************************)
(* A batch that is judged goes from the frames to judge to those judged.   *)
(***************************************************************************)
LEMMA BatchJudged ==
    ASSUME IInv, NEW r \in Runs, Judged(r), frames[DirOf[r]] = AllFrames(r),
           \A i \in DOMAIN Batch(todo[r]) : FrameFile(r, Batch(todo[r])[i]) # {},
           content' = content,
           results'[r] = results[r] \o Sees(r, Batch(todo[r])),
           todo'[r] = SubSeq(todo[r], Len(Batch(todo[r])) + 1, Len(todo[r]))
    PROVE  Judged(r)'
<1> DEFINE batch == Batch(todo[r])
           k == Len(batch)
           n == Len(results[r])
           t == Len(todo[r])
           seen == Sees(r, batch)
<1>1. todo[r] \in Seq(Nat) /\ results[r] \in Seq(Outputs)
  BY TypesOf DEF Typed
<1>2. /\ batch \in Seq(Nat) /\ k \in 0..t
      /\ \A i \in 1..k : batch[i] = todo[r][i]
      /\ t \in Nat /\ n \in Nat
  BY <1>1, BatchFacts, LenProperties
<1>3. /\ seen \in Seq(Outputs) /\ Len(seen) = k
      /\ \A i \in 1..k : seen[i] = Looks(r)[batch[i]]
  <2> HIDE DEF batch
  <2> QED
    BY <1>2, SeesFacts DEF batch
<1> HIDE DEF batch, seen, k, n, t
<1>4. /\ Len(results[r] \o seen) = n + k
      /\ \A i \in 1..(n + k) :
             (results[r] \o seen)[i] = IF i <= n THEN results[r][i] ELSE seen[i - n]
  BY <1>1, <1>3, ConcatProperties DEF n
<1>5. /\ Len(todo'[r]) = t - k
      /\ \A i \in 1..(t - k) : todo'[r][i] = todo[r][k + i]
  BY <1>1, <1>2, RestFacts DEF batch, k, t
<1>6. results'[r] = results[r] \o seen /\ (Looks(r))' = Looks(r)
  BY DEF seen, batch, Looks
<1>7. /\ n + t = Len(Looks(r))
      /\ \A i \in 1..n : results[r][i] = Looks(r)[i]
      /\ \A i \in 1..t : todo[r][i] = n + i
  BY DEF Judged, n, t
<1>8. Len(results'[r]) = n + k /\ Len(results'[r]) + Len(todo'[r]) = Len(Looks(r))
  <2>1. Len(results'[r]) = n + k
    BY <1>4, <1>6
  <2>2. n \in Nat /\ t \in Nat /\ k \in Nat
    BY <1>2
  <2>3. Len(todo'[r]) = t - k
    BY <1>5
  <2>4. n + t = Len(Looks(r))
    BY <1>7
  <2>5. (n + k) + (t - k) = n + t
    BY <2>2
  <2> QED
    BY <2>1, <2>3, <2>4, <2>5, Zenon
<1>9. \A i \in 1..(n + k) : results'[r][i] = Looks(r)[i]
  <2>1. SUFFICES ASSUME NEW i \in 1..(n + k)
                 PROVE  results'[r][i] = Looks(r)[i]
    OBVIOUS
  <2>2. CASE i <= n
    <3>1. i \in 1..n
      BY <1>2, <2>2
    <3>2. results'[r][i] = results[r][i]
      BY <1>4, <1>6, <2>2
    <3> QED
      BY <1>7, <3>1, <3>2
  <2>3. CASE ~(i <= n)
    <3>1. i - n \in 1..k /\ i - n \in 1..t /\ n + (i - n) = i
      BY <1>2, <2>3
    <3>2. results'[r][i] = seen[i - n]
      BY <1>4, <1>6, <2>3
    <3>3. seen[i - n] = Looks(r)[batch[i - n]] /\ batch[i - n] = todo[r][i - n]
      BY <1>2, <1>3, <3>1
    <3>4. todo[r][i - n] = i
      BY <1>7, <3>1
    <3> QED
      BY <3>2, <3>3, <3>4
  <2> QED
    BY <2>2, <2>3
<1>10. \A i \in 1..(t - k) : todo'[r][i] = (n + k) + i
  <2>1. SUFFICES ASSUME NEW i \in 1..(t - k)
                 PROVE  todo'[r][i] = (n + k) + i
    OBVIOUS
  <2>2. k + i \in 1..t /\ n + (k + i) = (n + k) + i
    BY <1>2
  <2> QED
    BY <1>5, <1>7, <2>2
<1> QED
  BY <1>5, <1>6, <1>8, <1>9, <1>10 DEF Judged

(***************************************************************************)
(* One attempt of moderate_frame_batch.                                    *)
(***************************************************************************)
LEMMA JudgeKeepsInv ==
    ASSUME IInv, NEW r \in Runs, Judge(r)
    PROVE  IInv'
<1> DEFINE batch == Batch(todo[r])
<1>1. /\ pc[r] = "judge" /\ r \in Live /\ batch # <<>>
      /\ UNCHANGED <<content, dirVars, shot, verdict, met>>
  BY DEF Judge, At, Live
<1>2. Typed /\ Fresh(r) /\ Aggregated(r) /\ FrameSets' = FrameSets
      /\ (r \notin met => Alone(r)) /\ met' \subseteq Runs
  BY <1>1, TypesOf, FrameSetsKept DEF IInv, AloneInv, AnalysisTypeOK
<1>3. ASSUME \A i \in DOMAIN batch : FrameFile(r, batch[i]) # {},
             NEW reply \in Replies(Sees(r, batch)),
             BatchParses(reply, Len(batch)),
             results' = [results EXCEPT ![r] = @ \o
                            [i \in DOMAIN reply.items |-> reply.items[i].out]],
             todo' = [todo EXCEPT ![r] = SubSeq(@, Len(batch) + 1, Len(@))],
             tries' = [tries EXCEPT ![r] = 0],
             UNCHANGED <<pc, outcome, faults>>
      PROVE  IInv'
  <2>1. /\ todo[r] \in Seq(Nat) /\ results[r] \in Seq(Outputs)
        /\ batch \in Seq(Nat) /\ Len(batch) \in 0..Len(todo[r])
    BY <1>2, BatchFacts DEF Typed
  <2> DEFINE seen == Sees(r, batch)
  <2>2. seen \in Seq(Outputs) /\ Len(seen) = Len(batch) /\ Len(batch) # 0
    <3> HIDE DEF batch
    <3> QED
      BY <1>1, <1>3, <2>1, SeesFacts, EmptySeq
  <2>3. [i \in DOMAIN reply.items |-> reply.items[i].out] = seen
    <3> HIDE DEF seen, batch
    <3>1. seen # <<>>
      BY <2>2, EmptySeq
    <3>2. reply \in Replies(seen) /\ BatchParses(reply, Len(seen))
      BY <1>3, <2>2 DEF seen
    <3> QED
      BY <2>2, <3>1, <3>2, AcceptedReply
  <2>4. results' = [results EXCEPT ![r] = @ \o seen]
    <3> HIDE DEF seen
    <3> QED
      BY <1>3, <2>3
  <2> HIDE DEF seen
  <2>5. /\ results' \in [Runs -> Seq(Outputs)]
        /\ results'[r] = results[r] \o seen
        /\ \A x \in Runs \ {r} : results'[x] = results[x]
    <3>1. results[r] \o seen \in Seq(Outputs)
      BY <2>1, <2>2, ConcatProperties
    <3> QED
      BY <1>2, <2>4, <3>1 DEF Typed
  <2>6. /\ todo' \in [Runs -> Seq(Nat)]
        /\ todo'[r] = SubSeq(todo[r], Len(batch) + 1, Len(todo[r]))
        /\ \A x \in Runs \ {r} : todo'[x] = todo[x]
    <3> HIDE DEF batch
    <3>1. SubSeq(todo[r], Len(batch) + 1, Len(todo[r])) \in Seq(Nat)
      BY <2>1, RestFacts
    <3> QED
      BY <1>2, <1>3, <3>1 DEF Typed
  <2>7. tries' \in [Runs -> 0..GpuMaxAttempts]
    <3>1. 0 \in 0..GpuMaxAttempts
      BY AnalysisAssumption
    <3> QED
      BY <1>2, <1>3, <3>1 DEF Typed
  <2>8. Typed'
    BY <1>1, <1>2, <1>3, <2>5, <2>6, <2>7 DEF Typed, dirVars
  <2>9. AnalysisTypeOK' /\ ShapeInv'
    BY <1>1, <1>2, <2>8, TypesKept
  <2>10. OwnStep(r)
    BY <1>1, <1>3, <2>5, <2>6 DEF OwnStep, dirVars
  <2>11. Fresh(r)' /\ Aggregated(r)'
    BY <1>1, <1>2, <1>3 DEF Fresh, Aggregated
  <2>12. ASSUME r \notin met
         PROVE  Alone(r)'
    <3>1. Judged(r) /\ frames[DirOf[r]] = AllFrames(r) /\ Looks(r) # <<>>
      BY <1>1, <1>2, <2>12 DEF Alone, OwnFiles
    <3>2. (Judged(r))'
      BY <1>1, <1>3, <2>5, <2>6, <3>1, BatchJudged DEF seen
    <3>3. (Looks(r))' = Looks(r) /\ (AllFrames(r))' = AllFrames(r)
      BY <1>1 DEF Looks, AllFrames
    <3> QED
      BY <1>1, <1>3, <2>11, <3>1, <3>2, <3>3 DEF Alone, OwnFiles, Fresh, dirVars
  <2>13. "judge" \in PcValues \ {"new"} /\ pc' = [pc EXCEPT ![r] = "judge"]
    BY <1>1, <1>2, <1>3, JumpLabels DEF Typed
  <2> QED
    BY <1>1, <2>9, <2>10, <2>11, <2>12, <2>13, OwnStepKeepsInv DEF dirVars
<1>4. CASE AttemptFails(r) /\ UNCHANGED <<todo, results, faults>>
  BY <1>1, <1>4, NoFaultEffect, AttemptFailsKeepsInv
<1>5. CASE AttemptFails(r) /\ Fault /\ UNCHANGED <<todo, results>>
  BY <1>1, <1>5, FaultEffect, AttemptFailsKeepsInv
<1> QED
  BY <1>3, <1>4, <1>5 DEF Judge

(***************************************************************************)
(* aggregate: the verdict is that of all results.                          *)
(***************************************************************************)
LEMMA AggregateKeepsInv ==
    ASSUME IInv, NEW r \in Runs, Aggregate(r)
    PROVE  IInv'
<1>1. /\ pc[r] = "judge" /\ r \in Live /\ Batch(todo[r]) = <<>>
      /\ UNCHANGED <<content, dirVars, shot, todo, results, tries, met>>
      /\ verdict' = [verdict EXCEPT ![r] = Verdict(results[r])]
      /\ Go(r, "finalize")
  BY DEF Aggregate, At, Live
<1>2. Typed /\ Fresh(r) /\ Aggregated(r) /\ FrameSets' = FrameSets
      /\ (r \notin met => Alone(r)) /\ met' \subseteq Runs
  BY <1>1, TypesOf, FrameSetsKept DEF IInv, AloneInv, AnalysisTypeOK
<1>3. /\ "finalize" \in PcValues \ {"new"}
      /\ pc' = [pc EXCEPT ![r] = "finalize"] /\ pc' \in [Runs -> PcValues]
      /\ pc'[r] = "finalize" /\ \A x \in Runs \ {r} : pc'[x] = pc[x]
      /\ outcome' = outcome
      /\ faults' \in 0..MaxFaults
  BY <1>1, JumpLabels, GoEffect
<1>4. /\ verdict' \in [Runs -> Verdicts]
      /\ verdict'[r] = Verdict(results[r])
      /\ \A x \in Runs \ {r} : verdict'[x] = verdict[x]
  <2>1. Verdict(results[r]) \in Verdicts
    BY <1>2 DEF Typed, Verdicts
  <2> QED
    BY <1>1, <1>2, <2>1 DEF Typed
<1>5. Typed'
  BY <1>1, <1>2, <1>3, <1>4 DEF Typed, dirVars
<1>6. AnalysisTypeOK' /\ ShapeInv'
  BY <1>1, <1>2, <1>5, TypesKept
<1>7. OwnStep(r)
  BY <1>1, <1>3, <1>4 DEF OwnStep, dirVars
<1>8. Fresh(r)' /\ Aggregated(r)'
  BY <1>1, <1>2, <1>3, <1>4 DEF Fresh, Aggregated
<1>9. ASSUME r \notin met
      PROVE  Alone(r)'
  <2>1. Judged(r) /\ Looks(r) # <<>>
    BY <1>1, <1>2, <1>9 DEF Alone
  <2>2. todo[r] = <<>> /\ results[r] \in Seq(Outputs) /\ Looks(r) \in Seq(Outputs)
    BY <1>1, <1>2, AnalysisAssumption, BatchFacts, LooksType DEF Typed, Looks
  <2>3. results[r] = Looks(r)
    <3>1. Len(results[r]) = Len(Looks(r))
      <4>1. Len(todo[r]) = 0 /\ Len(results[r]) \in Nat
        BY <2>2, EmptySeq, LenProperties
      <4> QED
        BY <2>1, <4>1 DEF Judged
    <3> QED
      BY <2>1, <2>2, <3>1, SeqEqual DEF Judged
  <2>4. (Looks(r))' = Looks(r)
    BY <1>1 DEF Looks
  <2>5. (Done(r))'
    BY <1>1, <1>4, <2>1, <2>3, <2>4 DEF Done
  <2> QED
    BY <1>3, <1>8, <2>5 DEF Alone, OwnFiles
<1> QED
  BY <1>1, <1>3, <1>6, <1>7, <1>8, <1>9, OwnStepKeepsInv DEF dirVars

(***************************************************************************)
(* The finalization returns or raises.                                     *)
(***************************************************************************)
LEMMA FinalizeKeepsInv ==
    ASSUME IInv, NEW r \in Runs, Finalize(r)
    PROVE  IInv'
<1>1. /\ pc[r] = "finalize" /\ r \in Live
      /\ UNCHANGED <<content, dirVars, shot, judgeVars, met>>
  BY DEF Finalize, At, Live
<1>2. Typed /\ Fresh(r) /\ Aggregated(r) /\ FrameSets' = FrameSets
      /\ (r \notin met => Alone(r)) /\ met' \subseteq Runs
  BY <1>1, TypesOf, FrameSetsKept DEF IInv, AloneInv, AnalysisTypeOK
<1>3. CASE Raise(r, "classified") /\ faults' = faults
  <2>1. /\ pc' = [pc EXCEPT ![r] = "cleanup"] /\ pc' \in [Runs -> PcValues]
        /\ pc'[r] = "cleanup" /\ outcome'[r] = "classified"
        /\ \A x \in Runs \ {r} : pc'[x] = pc[x] /\ outcome'[x] = outcome[x]
        /\ outcome' \in [Runs -> {"none", "classified", "retry", "terminal"}]
    BY <1>3, RaiseEffect DEF Raised
  <2>2. Typed'
    BY <1>1, <1>2, <1>3, <2>1 DEF Typed, dirVars, judgeVars
  <2>3. AnalysisTypeOK' /\ ShapeInv'
    BY <1>1, <1>2, <2>2, TypesKept
  <2>4. OwnStep(r)
    BY <1>1, <2>1 DEF OwnStep, dirVars, judgeVars
  <2>5. Fresh(r)' /\ Aggregated(r)'
    BY <1>1, <1>2, <2>1 DEF Fresh, Aggregated, judgeVars
  <2>6. ASSUME r \notin met
        PROVE  Alone(r)'
    <3>1. Done(r)
      BY <1>1, <1>2, <2>6 DEF Alone
    <3>2. (Done(r))'
      BY <1>1, <3>1 DEF Done, Looks, judgeVars
    <3> QED
      BY <2>1, <3>2 DEF Alone, OwnFiles
  <2>7. "cleanup" \in PcValues \ {"new"}
    BY JumpLabels
  <2> QED
    BY <1>1, <2>1, <2>3, <2>4, <2>5, <2>6, <2>7, OwnStepKeepsInv DEF dirVars
<1>4. CASE RaiseOnFault(r, "retry")
  BY <1>1, <1>2, <1>4, FaultEffect, RaisedKeepsInv
     DEF Typed, dirVars, judgeVars, RaiseOnFault
<1> QED
  BY <1>3, <1>4 DEF Finalize

(***************************************************************************)
(* finally: the directory goes, or some of it.                             *)
(***************************************************************************)
LEMMA CleanupKeepsInv ==
    ASSUME IInv, NEW r \in Runs, Cleanup(r)
    PROVE  IInv'
<1> DEFINE d == DirOf[r]
<1>1. /\ d \in Dirs /\ pc[r] = "cleanup" /\ r \in Live
      /\ UNCHANGED <<content, shot, judgeVars, met>>
      /\ there' \subseteq there
      /\ faults' \in 0..MaxFaults
  BY AnalysisAssumption, FaultEffect, NoFaultEffect DEF Cleanup, At, Live, Go
<1>2. Typed /\ Fresh(r) /\ Aggregated(r) /\ FrameSets' = FrameSets
      /\ (r \notin met => Alone(r)) /\ met' \subseteq Runs
  BY <1>1, TypesOf, FrameSetsKept DEF IInv, AloneInv, AnalysisTypeOK
<1>3. PICK label \in {"ended", "littered"} :
          /\ Jump(r, label) /\ outcome' = outcome
          /\ label = "ended" => there' = there \ {d}
  BY DEF Cleanup, Go
<1>4. /\ label \in PcValues \ {"new"}
      /\ pc' = [pc EXCEPT ![r] = label] /\ pc' \in [Runs -> PcValues]
      /\ pc'[r] = label /\ \A x \in Runs \ {r} : pc'[x] = pc[x]
      /\ outcome' = outcome
      /\ file' \in [Dirs -> Files]
      /\ frames' \in [Dirs -> FrameSets']
      /\ \A e \in Dirs \ {d} : file'[e] = file[e] /\ frames'[e] = frames[e]
  <2>1. label \in PcValues \ {"new"}
    BY JumpLabels
  <2>2. RemoveFiles(d) \/ KeepSome(d)
    BY DEF Cleanup
  <2> QED
    BY <1>1, <1>2, <1>3, <2>1, <2>2, RemovalEffect DEF Jump, Typed
<1>5. Typed'
  BY <1>1, <1>2, <1>4 DEF Typed, judgeVars
<1>6. AnalysisTypeOK' /\ ShapeInv'
  BY <1>1, <1>2, <1>5, TypesKept
<1>7. OwnStep(r)
  BY <1>1, <1>4 DEF OwnStep, judgeVars
<1>8. Fresh(r)' /\ Aggregated(r)'
  BY <1>1, <1>2, <1>4 DEF Fresh, Aggregated, judgeVars
<1>9. r \notin met => Alone(r)'
  BY <1>1, <1>2, <1>4 DEF Alone, OwnFiles, Done, Looks, judgeVars
<1> QED
  BY <1>1, <1>3, <1>4, <1>6, <1>7, <1>8, <1>9, OwnStepKeepsInv

(***************************************************************************)
(* A worker that dies leaves its files.                                    *)
(***************************************************************************)
LEMMA CrashKeepsInv ==
    ASSUME IInv, NEW r \in Runs, Crash(r)
    PROVE  IInv'
<1>1. /\ r \in Live /\ Jump(r, "crashed") /\ faults' \in 0..MaxFaults
      /\ UNCHANGED <<content, dirVars, shot, judgeVars, outcome, met>>
  BY FaultEffect DEF Crash
<1>2. Typed /\ Fresh(r) /\ Aggregated(r) /\ FrameSets' = FrameSets
      /\ (r \notin met => Alone(r)) /\ met' \subseteq Runs
  BY <1>1, TypesOf, FrameSetsKept DEF IInv, AloneInv, AnalysisTypeOK
<1>3. /\ "crashed" \in PcValues \ {"new"}
      /\ pc' = [pc EXCEPT ![r] = "crashed"] /\ pc' \in [Runs -> PcValues]
      /\ pc'[r] = "crashed" /\ \A x \in Runs \ {r} : pc'[x] = pc[x]
  BY <1>1, <1>2, JumpLabels DEF Jump, Typed
<1>4. Typed'
  BY <1>1, <1>2, <1>3 DEF Typed, dirVars, judgeVars
<1>5. AnalysisTypeOK' /\ ShapeInv'
  BY <1>1, <1>2, <1>4, TypesKept
<1>6. OwnStep(r)
  BY <1>1, <1>3 DEF OwnStep, dirVars, judgeVars
<1>7. Fresh(r)' /\ Aggregated(r)'
  BY <1>1, <1>2, <1>3 DEF Fresh, Aggregated, judgeVars
<1>8. r \notin met => Alone(r)'
  BY <1>1, <1>2, <1>3 DEF Alone, OwnFiles, Done, Looks, judgeVars
<1> QED
  BY <1>1, <1>3, <1>5, <1>6, <1>7, <1>8, OwnStepKeepsInv DEF dirVars

-----------------------------------------------------------------------------
(* The invariant and what follows from it.                                 *)

(***************************************************************************)
(* Before the first run there is no directory.                             *)
(***************************************************************************)
LEMMA InitInv == Init => IInv
<1> SUFFICES ASSUME Init
             PROVE  IInv
  OBVIOUS
<1>1. {} \in FrameSets /\ {} \subseteq Frames
  BY FS_EmptySet DEF FrameSets
<1>2. ShapeInv
  BY <1>1 DEF Init, ShapeInv, Files, Verdicts
<1>3. "new" \in PcValues /\ 0 \in 0..GpuMaxAttempts /\ 0 \in 0..MaxFaults
  BY AnalysisAssumption, JumpLabels
<1>4. AnalysisTypeOK
  BY <1>1, <1>3 DEF Init, AnalysisTypeOK
<1>5. MetInv /\ NothingLeftBehind
  BY DEF Init, MetInv, Live, NothingLeftBehind
<1>6. \A r \in Runs : Fresh(r) /\ Aggregated(r)
  BY DEF Init, Fresh, Aggregated
<1>7. AloneInv
  BY DEF Init, AloneInv, Alone, OwnFiles
<1> QED
  BY <1>2, <1>4, <1>5, <1>6, <1>7 DEF IInv

(***************************************************************************)
(* Every step keeps the invariant.                                         *)
(***************************************************************************)
LEMMA StepKeepsInv == IInv /\ [Next]_vars => IInv'
<1> SUFFICES ASSUME IInv, [Next]_vars
             PROVE  IInv'
  OBVIOUS
<1>1. ASSUME NEW r \in Runs, Prepare(r) \/ Step(r) \/ Crash(r)
      PROVE  IInv'
  BY <1>1, PrepareKeepsInv, FetchKeepsInv, OpenKeepsInv, WrittenKeepsInv, ProbeKeepsInv,
     ExtractKeepsInv, FfmpegKeepsInv, ListKeepsInv, JudgeKeepsInv,
     AggregateKeepsInv, FinalizeKeepsInv, CleanupKeepsInv, CrashKeepsInv DEF Step
<1>2. CASE UNCHANGED vars
  <2>1. UNCHANGED <<content, file, frames, there, pc, shot, todo, results, tries,
                    verdict, outcome, met, faults>>
    BY <1>2 DEF vars, dirVars, judgeVars
  <2>2. FrameSets' = FrameSets /\ Live' = Live
    BY <2>1 DEF FrameSets, Live
  <2>3. /\ AnalysisTypeOK' /\ ShapeInv' /\ MetInv' /\ NothingLeftBehind'
    BY <2>1, <2>2 DEF IInv, AnalysisTypeOK, ShapeInv, MetInv, NothingLeftBehind
  <2>4. \A r \in Runs : (Fresh(r))' /\ (Aggregated(r))'
    BY <2>1 DEF IInv, Fresh, Aggregated
  <2>5. AloneInv'
    <3>1. SUFFICES ASSUME NEW r \in Runs \ met'
                   PROVE  Alone(r)'
      BY DEF AloneInv
    <3>2. Alone(r)
      BY <2>1 DEF IInv, AloneInv
    <3> QED
      BY <2>1, <3>2 DEF Alone, OwnFiles, Looks, AllFrames, Judged, Done
  <2> QED
    BY <2>3, <2>4, <2>5 DEF IInv
<1> QED
  BY <1>1, <1>2 DEF Next

(***************************************************************************)
(* The invariant holds of any runs of _process_video: any number of them,  *)
(* any directories, videos of any length, any batch size, any faults.      *)
(***************************************************************************)
THEOREM AnalysisInvariant == Spec => []IInv
  BY InitInv, StepKeepsInv, PTL DEF Spec

(***************************************************************************)
(* The variables of an analysis have their types.                          *)
(***************************************************************************)
THEOREM AnalysisTypeCorrect == Spec => []AnalysisTypeOK
<1>1. IInv => AnalysisTypeOK
  BY DEF IInv
<1> QED
  BY <1>1, AnalysisInvariant, PTL

(***************************************************************************)
(* A run that had its directory to itself judged every second of its own   *)
(* video in order: what earlier runs left, what failed, what was retried   *)
(* and what other runs did in other directories is not in its verdict.     *)
(***************************************************************************)
THEOREM WholeVideoIsJudged == Spec => []WholeVideoJudged
<1>1. ASSUME IInv
      PROVE  WholeVideoJudged
  <2>1. SUFFICES ASSUME NEW r \in Runs \ met,
                        pc[r] = "finalize" \/ outcome[r] = "classified"
                 PROVE  /\ content[SourceOf[r]].kind = "video"
                        /\ results[r] = content[SourceOf[r]].looks
                        /\ verdict[r] = Verdict(content[SourceOf[r]].looks)
    BY DEF WholeVideoJudged
  <2>2. Done(r)
    BY <1>1, <2>1 DEF IInv, AloneInv, Alone
  <2>3. SourceOf[r] \in Sources
    BY AnalysisAssumption
  <2> QED
    BY <1>1, <2>2, <2>3, LooksType DEF Done, Looks
<1> QED
  BY <1>1, AnalysisInvariant, PTL

(***************************************************************************)
(* A directory is there only while one of its runs is at work, or after    *)
(* one died in it or could not remove it (the finally of _process_video).  *)
(***************************************************************************)
THEOREM DirectoriesAreCleaned == Spec => []NothingLeftBehind
<1>1. IInv => NothingLeftBehind
  BY DEF IInv
<1> QED
  BY <1>1, AnalysisInvariant, PTL

(***************************************************************************)
(* The verdict of a run is one that aggregate returns.                     *)
(***************************************************************************)
LEMMA EveryVerdictFits ==
    ASSUME IInv, NEW r \in Runs, verdict[r].frames > 0
    PROVE  VerdictFits(verdict[r])
<1>1. verdict[r] # NoVerdict
  BY DEF NoVerdict
<1>2. verdict[r] = Verdict(results[r]) /\ results[r] \in Seq(Outputs)
  BY <1>1, TypesOf DEF IInv, Aggregated, Typed
<1>3. Verdict(results[r]).frames = Len(results[r])
  BY DEF Verdict
<1>4. results[r] # <<>>
  BY <1>2, <1>3, EmptySeq
<1> QED
  BY <1>2, <1>4, VerdictsFit

(***************************************************************************)
(* Flag, move and labels of every verdict fit together, for videos of any  *)
(* length and any outputs, also for runs that met in their directory.      *)
(***************************************************************************)
THEOREM VerdictsAreConsistent == Spec => [](FlaggedIsMoved /\ LabelsAgree)
<1>1. ASSUME IInv
      PROVE  FlaggedIsMoved /\ LabelsAgree
  <2>1. \A r \in Runs : verdict[r].frames > 0 => VerdictFits(verdict[r])
    BY <1>1, EveryVerdictFits
  <2>2. FlaggedIsMoved
    BY <2>1 DEF FlaggedIsMoved, VerdictFits
  <2>3. LabelsAgree
    BY <2>1 DEF LabelsAgree, VerdictFits
  <2> QED
    BY <2>2, <2>3
<1> QED
  BY <1>1, AnalysisInvariant, PTL
=============================================================================
