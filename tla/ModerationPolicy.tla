--------------------------- MODULE ModerationPolicy ---------------------------
(***************************************************************************)
(* What the model's scores mean: the validation of a reply                 *)
(* (app/schemas/model_output.py), the thresholds (moderation_policy.py),   *)
(* the verdict on a video (aggregation_service.py) and the labels of the   *)
(* legacy table (legacy_mapping_service.py).                               *)
(*                                                                         *)
(* An output is [top |-> category, scores |-> category to severity].       *)
(* Scores of a reply are integers here; replies without an integer for     *)
(* every category are the shape "other".                                   *)
(***************************************************************************)
EXTENDS Integers, Sequences, FiniteSetsExt

RiskOrder ==
    <<"sexual_minor_content", "porn", "nudity", "gore", "violence", "self_harm",
      "hate_or_extremism", "drugs", "suggestive", "unknown", "safe">>

Categories == {RiskOrder[i] : i \in 1..11}
UnsafeCategories == Categories \ {"safe"}

Severities == 0..5

\* CATEGORY_BLOCK_THRESHOLDS; "safe" has none.
Threshold ==
    [c \in UnsafeCategories |->
        IF c = "sexual_minor_content" THEN 3
        ELSE IF c \in {"suggestive", "nudity"} THEN 5
        ELSE 4]

\* Mutant of MoveSeverity: > for >=.
MoveSeverityAbove == 5

\* settings.move_threshold, 0.8, in fifths.
MoveSeverity == 4

-----------------------------------------------------------------------------
(* One output.                                                             *)

Overall(out) == out.scores[out.top]

\* Mutant of IsNsfw: the severity of the top category decides.
IsNsfwByTop(out) == out.top # "safe" /\ Overall(out) >= Threshold[out.top]

IsNsfw(out) == \E c \in UnsafeCategories : out.scores[c] >= Threshold[c]

\* Mutant of ValidOutput: "safe" may come with unsafe scores.
ValidOutputSafeUnchecked(out) ==
    /\ out.top \in Categories
    /\ \A c \in Categories : out.scores[c] \in Severities
    /\ out.top # "safe" =>
           /\ out.scores[out.top] # 0
           /\ \A c \in UnsafeCategories : out.scores[c] <= out.scores[out.top]

\* ModerationModelOutput: nothing bounds the score of "safe" itself.
ValidOutput(out) ==
    /\ out.top \in Categories
    /\ \A c \in Categories : out.scores[c] \in Severities
    /\ IF out.top = "safe"
       THEN \A c \in UnsafeCategories : out.scores[c] = 0
       ELSE /\ out.scores[out.top] # 0
            /\ \A c \in UnsafeCategories : out.scores[c] <= out.scores[out.top]

\* The image and text answers restate an output with the policy applied.
Answer(out) == [top |-> out.top, nsfw |-> IsNsfw(out), severity |-> Overall(out)]

-----------------------------------------------------------------------------
(* Replies: [shape, items]; an item has a frame_index (from 1 here) and an *)
(* output.  A reply is a list, one object, or anything else.               *)

ValidItem(item, i) == item.index = i /\ ValidOutput(item.out)

\* Mutant of BatchParses: the indexes go unchecked.
BatchParsesAnyOrder(reply, count) ==
    /\ reply.shape = "list" \/ (reply.shape = "object" /\ count = 1)
    /\ Len(reply.items) = count
    /\ \A i \in 1..count : ValidOutput(reply.items[i].out)

\* parse_visual_batch_response: all of the items or an error.
BatchParses(reply, count) ==
    /\ reply.shape = "list" \/ (reply.shape = "object" /\ count = 1)
    /\ Len(reply.items) = count
    /\ \A i \in 1..count : ValidItem(reply.items[i], i)

\* parse_text_moderation_response: the object has no index to check.
TextParses(reply) == reply.shape = "object" /\ ValidOutput(reply.items[1].out)

-----------------------------------------------------------------------------
(* The verdict on a sequence of outputs, one per frame.                    *)

Rank(c) == CHOOSE i \in 1..11 : RiskOrder[i] = c

MaxOverall(outs) == Max({Overall(outs[i]) : i \in DOMAIN outs})

MaxSeverity(outs, c) == Max({outs[i].scores[c] : i \in DOMAIN outs})

\* Mutant of TopCategory: the riskiest category of any frame.
TopCategoryOfAny(outs) ==
    LET tops == {outs[i].top : i \in DOMAIN outs}
    IN CHOOSE c \in tops : \A d \in tops : Rank(c) <= Rank(d)

\* _select_top_category: ties of severity go to the riskiest category.
TopCategory(outs) ==
    LET tops == {outs[i].top :
                    i \in {k \in DOMAIN outs : Overall(outs[k]) = MaxOverall(outs)}}
    IN CHOOSE c \in tops : \A d \in tops : Rank(c) <= Rank(d)

\* map_legacy_nsfw_ec
LegacyEc(top) ==
    IF top \in {"porn", "sexual_minor_content"} THEN "explicit"
    ELSE IF top = "nudity" THEN "nudity"
    ELSE IF top = "suggestive" THEN "provocative"
    ELSE "neutral"

\* map_legacy_nsfw_gore, of the larger of the gore and violence severities.
LegacyGore(severity) ==
    IF severity >= 5 THEN "VERY_LIKELY"
    ELSE IF severity >= 4 THEN "LIKELY"
    ELSE IF severity >= 3 THEN "POSSIBLE"
    ELSE IF severity >= 1 THEN "UNLIKELY"
    ELSE "VERY_UNLIKELY"

\* Mutant of Verdict: half of the frames must be NSFW.
VerdictByMajority(outs) ==
    LET severity == MaxOverall(outs)
        nsfw == {i \in DOMAIN outs : IsNsfw(outs[i])}
    IN [nsfw |-> 2 * Cardinality(nsfw) > Len(outs),
        severity |-> severity,
        top |-> TopCategory(outs),
        move |-> severity >= MoveSeverity,
        frames |-> Len(outs),
        ec |-> LegacyEc(TopCategory(outs)),
        gore |-> LegacyGore(Max({MaxSeverity(outs, "gore"), MaxSeverity(outs, "violence")}))]

\* aggregate, of at least one frame.
Verdict(outs) ==
    LET severity == MaxOverall(outs)
    IN [nsfw |-> \E i \in DOMAIN outs : IsNsfw(outs[i]),
        severity |-> severity,
        top |-> TopCategory(outs),
        move |-> severity >= MoveSeverity,
        frames |-> Len(outs),
        ec |-> LegacyEc(TopCategory(outs)),
        gore |-> LegacyGore(Max({MaxSeverity(outs, "gore"), MaxSeverity(outs, "violence")}))]
=============================================================================
