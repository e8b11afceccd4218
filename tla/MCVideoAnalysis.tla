--------------------------- MODULE MCVideoAnalysis ---------------------------
(***************************************************************************)
(* Two runs that share a directory, a long video behind the first one's    *)
(* source and a short one behind the second's; and two runs of one job.    *)
(***************************************************************************)
EXTENDS VideoAnalysis, TLC

CONSTANTS r1, r2, d1, s1, s2

NoScores == [c \in Categories |-> 0]
Of(c, severity) == [top |-> c, scores |-> [NoScores EXCEPT ![c] = severity]]

Clean == Of("safe", 0)
SureSafe == Of("safe", 5)
Porn == Of("porn", 4)
Nude == Of("nudity", 4)
\* Scores of two categories, the first of them on top.
Both(c, d, severity) ==
    [top |-> c, scores |-> [NoScores EXCEPT ![c] = severity, ![d] = severity]]
Minor == Both("gore", "sexual_minor_content", 3)
Violent == Both("nudity", "violence", 4)

SharedDir == r1 :> d1 @@ r2 :> d1
TwoSources == r1 :> s1 @@ r2 :> s2
SameSource == r1 :> s1 @@ r2 :> s1

NoVideo == {[kind |-> k, looks |-> <<>>] : k \in {"empty", "large", "noStream"}}
Video(looks) == [kind |-> "video", looks |-> looks]

LongContents ==
    NoVideo \cup {Video(<<Minor>>), Video(<<Violent>>), Video(<<Clean, SureSafe, Porn>>),
                  Video(<<Of("porn", 1), Nude, Clean>>)}
TwoContents == s1 :> LongContents @@ s2 :> {Video(<<Clean, Nude>>)}
OneContent == s1 :> {Video(<<Clean, Porn>>)} @@ s2 :> {Video(<<Clean>>)}
=============================================================================
