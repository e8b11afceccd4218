---------------------------- MODULE Finalization ----------------------------
(***************************************************************************)
(* What the rest of the platform may rely on when a video is classified,   *)
(* with no queue, worker, retry or crash in it: a key is decided once, a   *)
(* video is in the NSFW bucket before a verdict says so, and the outputs   *)
(* of a verdict appear after it and in one order, the runtime key last.    *)
(* VideoPipeline implements it.                                            *)
(***************************************************************************)
CONSTANTS Jobs, Videos, KeyOf, VideoOf

VARIABLES
    result,     \* per job: undecided, or whether the video has to move
    moved,      \* videos in the NSFW bucket
    published   \* per job: the outputs of its verdict

vars == <<result, moved, published>>

Outputs == {"video", "legacy", "action", "runtime"}

Init ==
    /\ result = [j \in Jobs |-> "none"]
    /\ moved = {}
    /\ published = [j \in Jobs |-> {}]

MoveVideo(v) ==
    /\ moved' = moved \cup {v}
    /\ UNCHANGED <<result, published>>

\* One job decides its key, once; "move" is said of a moved video.
Decide(j, verdict) ==
    /\ \A i \in Jobs : KeyOf[i] = KeyOf[j] => result[i] = "none"
    /\ verdict = "move" => VideoOf[j] \in moved
    /\ result' = [result EXCEPT ![j] = verdict]
    /\ UNCHANGED <<moved, published>>

\* The outputs that come before output o of job j.
Before(j, o) ==
    CASE o = "video" -> {}
      [] o = "legacy" -> {"video"}
      [] o = "action" -> {"video", "legacy"}
      [] o = "runtime" -> IF result[j] = "move" THEN {"video", "legacy", "action"}
                          ELSE {"video", "legacy"}

Publish(j, o) ==
    /\ result[j] # "none"
    /\ o = "action" => result[j] = "move"
    /\ Before(j, o) \subseteq published[j]
    /\ published' = [published EXCEPT ![j] = @ \cup {o}]
    /\ UNCHANGED <<result, moved>>

Next ==
    \/ \E v \in Videos : MoveVideo(v)
    \/ \E j \in Jobs : \E verdict \in {"stay", "move"} : Decide(j, verdict)
    \/ \E j \in Jobs : \E o \in Outputs : Publish(j, o)

Spec == Init /\ [][Next]_vars
=============================================================================
